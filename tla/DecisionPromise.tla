--------------------------- MODULE DecisionPromise ---------------------------
(***************************************************************************)
(* What a run with human decisions promises to the people who answer and    *)
(* to the workflows that listen for its end: the decisions are answered in  *)
(* order, each at most once, none after the end, and the end is told once.  *)
(***************************************************************************)
EXTENDS Naturals

CONSTANT Gates

VARIABLES
    answers,    \* how many answers of each gate set the run going again
    ends        \* how many ends of the run the listeners were told

vars == <<answers, ends>>

Init ==
    /\ answers = [g \in 1..Gates |-> 0]
    /\ ends = 0

Answer(g) ==
    /\ ends = 0
    /\ answers[g] = 0
    /\ \A h \in 1..(g - 1) : answers[h] = 1
    /\ answers' = [answers EXCEPT ![g] = 1]
    /\ UNCHANGED ends

End ==
    /\ ends = 0
    /\ ends' = 1
    /\ UNCHANGED answers

Next == End \/ \E g \in 1..Gates : Answer(g)

Spec == Init /\ [][Next]_vars
=============================================================================
