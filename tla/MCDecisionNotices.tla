-------------------------- MODULE MCDecisionNotices --------------------------
(***************************************************************************)
(* Instances of DecisionNotices for TLC.  Passes are interchangeable.        *)
(***************************************************************************)
EXTENDS DecisionNotices, TLC

PassSymmetry == Permutations(Passes)
=============================================================================
