-------------------------- MODULE MCScheduleTrigger --------------------------
(***************************************************************************)
(* Instances of ScheduleTrigger for TLC: the first schedule has every slot, *)
(* the second the even ones.  Runs are interchangeable, processes too.       *)
(***************************************************************************)
EXTENDS ScheduleTrigger, TLC

OnePlan == <<Slots>>
TwoPlans == <<Slots, {s \in Slots : s % 2 = 0}>>
Interchangeable == Permutations(Runs) \cup Permutations(Processes)
=============================================================================
