------------------------- MODULE MCRetryFromFailure -------------------------
(***************************************************************************)
(* Instances of RetryFromFailure for TLC.  Requests are interchangeable.     *)
(***************************************************************************)
EXTENDS RetryFromFailure, TLC

HandlerSymmetry == Permutations(Handlers)
=============================================================================
