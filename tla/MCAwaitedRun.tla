---------------------------- MODULE MCAwaitedRun ----------------------------
(***************************************************************************)
(* Instances of AwaitedRun for TLC.  The resume handlers are interchangeable. *)
(***************************************************************************)
EXTENDS AwaitedRun, TLC

ResumeSymmetry == Permutations(Resumes)
=============================================================================
