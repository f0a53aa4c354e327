-------------------------- MODULE AwaitedRunProofs --------------------------
(***************************************************************************)
(* AwaitedRun for every set of resume handlers, every number of gates and   *)
(* every mix of replicas, long runs and outages.                            *)
(***************************************************************************)
EXTENDS AwaitedRun, TLAPS

\* No end of the run has been told, nor is about to be.
Untold ==
    /\ told = 0
    /\ announcer = "idle"
    /\ row.endNotice = "none"
    /\ \A d \in Drivers : pc[d] # "telling"

\* A task before its answer has not decided anything.
GuardsOpen ==
    \A d \in Drivers : pc[d] \in {"idle", "checked", "replaying"} => guard[d] = "open"

\* A claim still recognised by mark_decided has its snapshot.
ClaimsHaveSnapshot ==
    \A d \in Drivers : pc[d] = "replaying" /\ StillMine(row, d) => row.snap # 0

\* The holder owns a running row, which nobody else can claim or announce.
HoldersOwnTheRow ==
    \A d \in Drivers : Holds(d) =>
        /\ Untold
        /\ ~Open(row)
        /\ row.status = "running" => Holder = d

\* A run that somebody may still resume has not ended for anyone.
OpenIsUntold == Open(row) => Untold

\* The end is told by one side only: its task, or decision_notices.
TellersAlone ==
    \A d \in Drivers : pc[d] = "telling" =>
        /\ told = 0
        /\ announcer = "idle"
        /\ row.endNotice = "none"
        /\ \A e \in Drivers : pc[e] = "telling" => e = d

NoticesAlone ==
    /\ row.endNotice # "none" => \A d \in Drivers : pc[d] # "telling"
    /\ row.endNotice = "pending" => told = 0 /\ announcer = "idle"
    /\ announcer = "sending" => told = 0 /\ row.endNotice = "sent"
    /\ told <= 1

IInv ==
    /\ TypeOK
    /\ GuardsOpen
    /\ NoStrandedRun
    /\ ClaimsHaveSnapshot
    /\ OneHolder
    /\ HoldersOwnTheRow
    /\ OpenIsUntold
    /\ TellersAlone
    /\ NoticesAlone

-----------------------------------------------------------------------------

LEMMA SnapFacts == 0 \in Snap /\ \A g \in Gate : g \in Snap
  BY ConstantsAssumption DEF Snap, Gate

LEMMA NextGate == \A n \in Snap : n < Gates => n + 1 \in Gate
  BY ConstantsAssumption DEF Snap, Gate

\* The updates of run_main keep the type of a row.
LEMMA RowUpdates ==
    /\ \A r \in RowType, s \in Terminal : ClosedAs(r, s) \in RowType
    /\ \A r \in RowType : Reopened(r) \in RowType
    /\ \A r \in RowType : Decided(r) \in RowType
    /\ \A r \in RowType, d \in Drivers : Claimed(r, d) \in RowType
    /\ \A r \in RowType, g \in Gate : Paused(r, g) \in RowType
    /\ \A r \in RowType, b \in BOOLEAN : [r EXCEPT !.failure = b] \in RowType
    /\ \A r \in RowType, s \in Terminal : Finished(r, s) \in RowType
    /\ \A r \in RowType :
          [r EXCEPT !.status = "error", !.old = FALSE] \in RowType
<1> USE SnapFacts DEF RowType, Terminal
<1>1. \A r \in RowType, s \in Terminal : ClosedAs(r, s) \in RowType
  BY DEF ClosedAs
<1>2. \A r \in RowType : Reopened(r) \in RowType
  BY DEF Reopened
<1>3. \A r \in RowType : Decided(r) \in RowType
  BY DEF Decided
<1>4. \A r \in RowType, d \in Drivers : Claimed(r, d) \in RowType
  BY DEF Claimed
<1>5. \A r \in RowType, g \in Gate : Paused(r, g) \in RowType
  <2>1. TAKE r \in RowType, g \in Gate
  <2>2. g \in Snap
    BY SnapFacts
  <2>3. QED
    BY <2>2 DEF Paused
<1>6. \A r \in RowType, b \in BOOLEAN : [r EXCEPT !.failure = b] \in RowType
  OBVIOUS
<1>7. \A r \in RowType, s \in Terminal : Finished(r, s) \in RowType
  <2>1. TAKE r \in RowType, s \in Terminal
  <2>2. PICK b \in BOOLEAN : b = ((s = "error") /\ r.failure)
    OBVIOUS
  <2>3. [r EXCEPT !.status = s, !.snap = 0, !.old = FALSE, !.failure = b]
            \in RowType
    OBVIOUS
  <2>4. QED
    BY <2>2, <2>3 DEF Finished
<1>8. \A r \in RowType :
         [r EXCEPT !.status = "error", !.old = FALSE] \in RowType
  OBVIOUS
<1>9. QED
  BY <1>1, <1>2, <1>3, <1>4, <1>5, <1>6, <1>7, <1>8

\* So do the conditional ones.
LEMMA RowSettles ==
    /\ \A r \in RowType : Expired(r) \in RowType
    /\ \A r \in RowType : Freed(r) \in RowType
    /\ \A r \in RowType : Reconciled(r) \in RowType
    /\ \A r \in RowType : Released(r) \in RowType
    /\ \A r \in RowType, d \in Drivers : StopUnanswered(r, d) \in RowType
<1>0. {"error", "cancelled"} \subseteq Terminal
  BY DEF Terminal
<1>1. \A r \in RowType : Expired(r) \in RowType
  BY <1>0, RowUpdates DEF Expired
<1>2. \A r \in RowType : Freed(r) \in RowType
  BY RowUpdates DEF Freed
<1>3. \A r \in RowType : Reconciled(r) \in RowType
  BY RowUpdates DEF Reconciled
<1>4. \A r \in RowType : Released(r) \in RowType
  BY RowUpdates DEF Released
<1>5. \A r \in RowType, d \in Drivers : StopUnanswered(r, d) \in RowType
  BY <1>0, RowUpdates DEF StopUnanswered
<1>6. QED
  BY <1>1, <1>2, <1>3, <1>4, <1>5

\* The two outcomes of save_failure.
LEMMA FailureWritten ==
    ASSUME NEW d \in Drivers, row \in RowType, NodeFails(d)
    PROVE  \E b \in BOOLEAN : row' = [row EXCEPT !.failure = b]
<1>1. PICK saved \in BOOLEAN : row' = [row EXCEPT !.failure = saved \/ row.failure]
  BY DEF NodeFails
<1>2. PICK b \in BOOLEAN : b = (saved \/ row.failure)
  OBVIOUS
<1>3. QED
  BY <1>1, <1>2

\* Every step keeps the type of every variable.
LEMMA TypeStep == TypeOK /\ [Next]_vars => TypeOK'
<1> SUFFICES ASSUME TypeOK, [Next]_vars PROVE TypeOK'
  OBVIOUS
<1> USE DEF TypeOK
<1>0. /\ Resumes \subseteq Drivers
      /\ {"error", "cancelled", "success"} = Terminal
  BY DEF Drivers, Terminal
<1>1. CASE DeadlinePasses
  BY <1>1 DEF DeadlinePasses, RowType
<1>2. CASE Ages
  BY <1>2 DEF Ages, RowType
<1>3. CASE Sweep
  BY <1>3, RowSettles DEF Sweep
<1>4. CASE ReadRun
  BY <1>4, RowSettles DEF ReadRun
<1>5. CASE TickExpires
  BY <1>5, RowSettles DEF TickExpires
<1>6. CASE Abandon
  BY <1>6, <1>0, RowUpdates DEF Abandon
<1>7. CASE Announcer
  <2>1. CASE ReserveEnd
    BY <2>1 DEF ReserveEnd, RowType
  <2>2. CASE AnnounceEnd
    BY <2>2 DEF AnnounceEnd
  <2>3. CASE AnnounceCut
    BY <2>3 DEF AnnounceCut, RowType
  <2>4. CASE AnnouncerDies
    BY <2>4 DEF AnnouncerDies
  <2>5. QED
    BY <1>7, <2>1, <2>2, <2>3, <2>4 DEF Announcer
<1>8. ASSUME NEW d \in Resumes, Claim(d) PROVE TypeOK'
  <2>1. CASE ClaimReads(d)
    BY <2>1, <1>0 DEF ClaimReads, RowType
  <2>2. CASE ClaimUnreadable(d)
    BY <2>2, <1>0, RowUpdates DEF ClaimUnreadable
  <2>3. CASE ClaimTakes(d)
    BY <2>3, <1>0, RowUpdates DEF ClaimTakes
  <2>4. CASE ClaimRefused(d)
    BY <2>4, <1>0, SnapFacts DEF ClaimRefused
  <2>5. QED
    BY <1>8, <2>1, <2>2, <2>3, <2>4 DEF Claim
<1>9. ASSUME NEW d \in Resumes, Replay(d) PROVE TypeOK'
  <2>1. CASE TakeAnswer(d)
    <3>1. row' \in RowType
      BY <2>1, RowUpdates DEF TakeAnswer
    <3>2. taken' \in [Gate -> Nat]
      <4>1. ASSUME NEW f \in [Gate -> Nat], NEW x
            PROVE  [f EXCEPT ![x] = @ + 1] \in [Gate -> Nat]
        <5>1. [f EXCEPT ![x] = @ + 1] =
                 [i \in Gate |-> IF i = x THEN f[i] + 1 ELSE f[i]]
          OBVIOUS
        <5>2. \A i \in Gate : f[i] + 1 \in Nat /\ f[i] \in Nat
          OBVIOUS
        <5>3. [i \in Gate |-> IF i = x THEN f[i] + 1 ELSE f[i]] \in [Gate -> Nat]
          BY <5>2
        <5>4. QED
          BY <5>1, <5>3, Zenon
      <4>2. QED
        BY <2>1, <4>1 DEF TakeAnswer
    <3>3. QED
      BY <2>1, <3>1, <3>2, <1>0 DEF TakeAnswer
  <2>2. CASE LoseAnswer(d)
    <3>1. row' \in RowType
      <4>1. NodeFails(d) /\ d \in Drivers
        BY <2>2, <1>0 DEF LoseAnswer
      <4>2. PICK b \in BOOLEAN : row' = [row EXCEPT !.failure = b]
        BY <4>1, FailureWritten
      <4>3. QED
        BY <4>2, RowUpdates
    <3>2. Ends(d, "error")
      BY <2>2 DEF LoseAnswer, NodeFails
    <3>3. QED
      BY <2>2, <3>1, <3>2, <1>0 DEF LoseAnswer, Ends
  <2>3. CASE AnswerFails(d)
    <3>1. row' \in RowType
      <4>1. NodeFails(d) /\ d \in Drivers
        BY <2>3, <1>0 DEF AnswerFails
      <4>2. PICK b \in BOOLEAN : row' = [row EXCEPT !.failure = b]
        BY <4>1, FailureWritten
      <4>3. QED
        BY <4>2, RowUpdates
    <3>2. Ends(d, "error")
      BY <2>3 DEF AnswerFails, NodeFails
    <3>3. QED
      BY <2>3, <3>1, <3>2, <1>0 DEF AnswerFails, Ends
  <2>4. CASE ReplayBreaks(d)
    BY <2>4, <1>0 DEF ReplayBreaks, Ends
  <2>5. QED
    BY <1>9, <2>1, <2>2, <2>3, <2>4 DEF Replay
<1>10. ASSUME NEW d \in Drivers, Work(d) PROVE TypeOK'
  <2>1. CASE ReachGate(d)
    <3>1. row' \in RowType
      BY <2>1, NextGate, RowUpdates DEF ReachGate
    <3>2. QED
      BY <2>1, <3>1 DEF ReachGate, Ends
  <2>2. CASE PauseFails(d)
    BY <2>2, <1>0 DEF PauseFails, Ends
  <2>3. CASE Completes(d)
    BY <2>3, <1>0 DEF Completes, Ends
  <2>4. CASE WorkFails(d)
    <3>1. row' \in RowType
      <4>1. NodeFails(d) /\ d \in Drivers
        BY <2>4, <1>0 DEF WorkFails
      <4>2. PICK b \in BOOLEAN : row' = [row EXCEPT !.failure = b]
        BY <4>1, FailureWritten
      <4>3. QED
        BY <4>2, RowUpdates
    <3>2. Ends(d, "error")
      BY <2>4 DEF WorkFails, NodeFails
    <3>3. QED
      BY <2>4, <3>1, <3>2, <1>0 DEF WorkFails, Ends
  <2>5. CASE WorkCut(d)
    BY <2>5, <1>0 DEF WorkCut, Ends
  <2>6. QED
    BY <1>10, <2>1, <2>2, <2>3, <2>4, <2>5 DEF Work
<1>11. ASSUME NEW d \in Drivers, Settle(d) PROVE TypeOK'
  <2>1. CASE SettleEnd(d)
    <3>1. FinalOutcome(d) \in Terminal
      BY <2>1, <1>0 DEF SettleEnd, Settles, FinalOutcome
    <3>2. row' \in RowType
      BY <2>1, <3>1, RowUpdates DEF SettleEnd
    <3>3. QED
      BY <2>1, <3>2 DEF SettleEnd
  <2>2. CASE SettleUnanswered(d)
    BY <2>2, RowSettles DEF SettleUnanswered
  <2>3. CASE SettleNothing(d)
    BY <2>3 DEF SettleNothing
  <2>4. CASE Tell(d)
    BY <2>4 DEF Tell
  <2>5. QED
    BY <1>11, <2>1, <2>2, <2>3, <2>4 DEF Settle
<1>12. ASSUME NEW d \in Drivers, Stop(d) \/ Dies(d) PROVE TypeOK'
  BY <1>12 DEF Stop, Dies
<1>13. CASE UNCHANGED vars
  BY <1>13 DEF vars
<1>14. QED
  BY <1>1, <1>2, <1>3, <1>4, <1>5, <1>6, <1>7, <1>8, <1>9, <1>10, <1>11,
     <1>12, <1>13 DEF Next, Reader

-----------------------------------------------------------------------------
(* The steps that leave the holder alone: they touch nothing of the row that *)
(* matters, or they move a row that nobody holds, or settle an orphan.        *)

Same ==
    /\ row'.status = row.status /\ row'.snap = row.snap
    /\ row'.stamp = row.stamp /\ row'.endNotice = row.endNotice

\* A claim is given back.
Reopens ==
    /\ Open(row)
    /\ row'.status = "awaiting" /\ row'.snap = row.snap
    /\ row'.stamp = None /\ row'.endNotice = row.endNotice

\* A run that waits for an answer is closed.
Closes ==
    /\ Open(row)
    /\ row'.status \in Terminal /\ row'.snap = 0
    /\ row'.endNotice = "pending"

\* A running row past its decision is reconciled as an error.
Orphans ==
    /\ row.status = "running" /\ row.snap = 0
    /\ row'.status = "error" /\ row'.snap = 0
    /\ row'.stamp = row.stamp /\ row'.endNotice = row.endNotice

\* No task becomes a holder, a teller or a claimer.
Quiet ==
    /\ announcer' = announcer /\ told' = told /\ taken' = taken
    /\ \A e \in Drivers :
          /\ pc[e] \notin {"idle", "checked"} => gate'[e] = gate[e]
          /\ Holds(e)' => Holds(e)
          /\ pc'[e] \in {"telling", "replaying"} => pc'[e] = pc[e]
          /\ pc'[e] \in {"idle", "checked", "replaying"} => guard'[e] = "open"

Calm == Quiet /\ (Same \/ Reopens \/ Closes \/ Orphans)

\* What such a step does to the row preserves the invariant.
LEMMA QuietStep ==
    ASSUME IInv, TypeOK', Calm
    PROVE  IInv'
<1> USE DEF IInv, Calm, Quiet
<1>1. GuardsOpen'
  BY DEF GuardsOpen
<1>2. OneHolder'
  BY DEF OneHolder
<1>3. CASE Same
  BY <1>1, <1>2, <1>3 DEF Same, NoStrandedRun, ClaimsHaveSnapshot, StillMine,
     HoldersOwnTheRow, OpenIsUntold, TellersAlone, NoticesAlone, Untold, Open,
     Holder
<1>4. ASSUME Open(row)
      PROVE  Untold /\ \A e \in Drivers : ~Holds(e)
  BY <1>4 DEF OpenIsUntold, HoldersOwnTheRow
<1>5. CASE Reopens
  <2>1. row.snap # 0
    BY <1>5 DEF Reopens, Open, NoStrandedRun
  <2>2. NoStrandedRun' /\ ClaimsHaveSnapshot' /\ HoldersOwnTheRow'
    BY <1>4, <1>5, <2>1 DEF Reopens, NoStrandedRun, ClaimsHaveSnapshot,
       StillMine, HoldersOwnTheRow, Terminal
  <2>3. Untold'
    BY <1>4, <1>5 DEF Reopens, Untold
  <2>4. QED
    BY <1>1, <1>2, <2>2, <2>3 DEF OpenIsUntold, TellersAlone, NoticesAlone,
       Untold
<1>6. CASE Closes
  <2>1. /\ row'.status \notin {"awaiting", "running"}
        /\ \A e \in Drivers : pc'[e] # "telling"
    BY <1>4, <1>6 DEF Closes, Terminal, Untold
  <2>2. NoStrandedRun' /\ ClaimsHaveSnapshot' /\ HoldersOwnTheRow'
    BY <1>4, <1>6, <2>1 DEF Closes, NoStrandedRun, ClaimsHaveSnapshot,
       StillMine, HoldersOwnTheRow
  <2>3. OpenIsUntold' /\ TellersAlone' /\ NoticesAlone'
    BY <1>4, <1>6, <2>1 DEF Closes, Open, OpenIsUntold, TellersAlone,
       NoticesAlone, Untold
  <2>4. QED
    BY <1>1, <1>2, <2>2, <2>3
<1>7. CASE Orphans
  <2>1. NoStrandedRun' /\ ClaimsHaveSnapshot' /\ ~Open(row)'
    BY <1>7 DEF Orphans, NoStrandedRun, ClaimsHaveSnapshot, StillMine, Open
  <2>2. HoldersOwnTheRow' /\ OpenIsUntold'
    BY <1>7, <2>1 DEF Orphans, HoldersOwnTheRow, OpenIsUntold, Untold
  <2>3. TellersAlone' /\ NoticesAlone'
    BY <1>7 DEF Orphans, TellersAlone, NoticesAlone
  <2>4. QED
    BY <1>1, <1>2, <2>1, <2>2, <2>3
<1>8. QED
  BY <1>3, <1>5, <1>6, <1>7

\* What the readers, and the end of an unanswered resume, do to a row.
LEMMA RowMoves ==
    ASSUME row \in RowType, NoStrandedRun
    PROVE  /\ row' = row => Same
           /\ \A b \in BOOLEAN : row' = [row EXCEPT !.due = b] => Same
           /\ \A b \in BOOLEAN : row' = [row EXCEPT !.old = b] => Same
           /\ \A b \in BOOLEAN : row' = [row EXCEPT !.failure = b] => Same
           /\ row' = Expired(row) => Same \/ Closes
           /\ row' = Expired(Freed(row)) => Same \/ Reopens \/ Closes
           /\ row' = Reconciled(Expired(row))
                  => Same \/ Reopens \/ Closes \/ Orphans
           /\ row' = Released(row) => Same \/ Reopens
           /\ \A d \in Drivers :
                  row' = StopUnanswered(row, d) => Same \/ Closes
           /\ \A s \in {"error", "cancelled"} :
                  row.status = "awaiting" /\ row' = ClosedAs(row, s) => Closes
<1> USE DEF RowType
<1>1. \A s \in {"error", "cancelled"} :
          Open(row) /\ row' = ClosedAs(row, s) => Closes
  BY DEF ClosedAs, Closes, Terminal
<1>2. /\ row' = row => Same
      /\ \A b \in BOOLEAN : row' = [row EXCEPT !.due = b] => Same
      /\ \A b \in BOOLEAN : row' = [row EXCEPT !.old = b] => Same
      /\ \A b \in BOOLEAN : row' = [row EXCEPT !.failure = b] => Same
  BY DEF Same
<1>3. row' = Expired(row) => Same \/ Closes
  BY <1>1, <1>2 DEF Expired, Open
<1>4. row' = Reopened(row) /\ Open(row) => Reopens
  BY DEF Reopened, Reopens
<1>5. row' = Expired(Freed(row)) => Same \/ Reopens \/ Closes
  <2>1. CASE Freed(row) = row
    BY <2>1, <1>3
  <2>2. CASE Freed(row) = Reopened(row) /\ Open(row)
    <3>1. CASE Expired(Freed(row)) = Freed(row)
      BY <2>2, <3>1, <1>4
    <3>2. CASE Expired(Freed(row)) = ClosedAs(Reopened(row), "error")
      BY <2>2, <3>2 DEF ClosedAs, Reopened, Closes, Terminal
    <3>3. QED
      BY <2>2, <3>1, <3>2 DEF Expired
  <2>3. QED
    BY <2>1, <2>2 DEF Freed, Open
<1>6. row' = Reconciled(Expired(row)) => Same \/ Reopens \/ Closes \/ Orphans
  <2>1. CASE Expired(row) = row
    BY <2>1, <1>2, <1>4 DEF Reconciled, Orphans, Open
  <2>2. CASE row.status = "awaiting" /\ Expired(row) = ClosedAs(row, "error")
    <3>1. Reconciled(Expired(row)) = Expired(row)
      BY <2>2 DEF Reconciled, ClosedAs
    <3>2. QED
      BY <2>2, <3>1, <1>1 DEF Open
  <2>3. QED
    BY <2>1, <2>2 DEF Expired
<1>7. row' = Released(row) => Same \/ Reopens
  BY <1>2, <1>4 DEF Released, Open
<1>8. \A d \in Drivers : row' = StopUnanswered(row, d) => Same \/ Closes
  BY <1>1, <1>2 DEF StopUnanswered, StillMine, Open
<1>9. QED
  BY <1>1, <1>2, <1>3, <1>5, <1>6, <1>7, <1>8 DEF Open

-----------------------------------------------------------------------------
(* The steps that take a row, hold it, end it or announce its end.           *)

\* Whoever may still be answered is held by nobody and told to nobody.
LEMMA OpenIsFree ==
    ASSUME IInv, Open(row)
    PROVE  Untold /\ \A e \in Drivers : ~Holds(e)
BY DEF IInv, OpenIsUntold, HoldersOwnTheRow

LEMMA ClaimTakesStep ==
    ASSUME IInv, TypeOK', NEW d \in Drivers, ClaimTakes(d)
    PROVE  IInv'
<1> USE DEF IInv, TypeOK
<1>1. /\ row'.status = "running" /\ row'.snap = row.snap
      /\ row'.stamp = d /\ row'.endNotice = row.endNotice
      /\ row.status = "awaiting" /\ row.snap # 0
  BY DEF ClaimTakes, Claimed, RowType, NoStrandedRun
<1>2. Untold /\ \A e \in Drivers : ~Holds(e)
  BY <1>1, OpenIsFree DEF Open
<1>3. \A e \in Drivers : pc'[e] = IF e = d THEN "replaying" ELSE pc[e]
  BY DEF ClaimTakes
<1>4. GuardsOpen' /\ (\A e \in Drivers : ~Holds(e)')
  BY <1>2, <1>3 DEF ClaimTakes, GuardsOpen, Holds, Settles
<1>5. Untold'
  BY <1>1, <1>2, <1>3 DEF ClaimTakes, Untold
<1>6. NoStrandedRun' /\ ClaimsHaveSnapshot'
  BY <1>1, ConstantsAssumption
     DEF NoStrandedRun, ClaimsHaveSnapshot, Terminal, Drivers
<1>7. QED
  BY <1>4, <1>5, <1>6 DEF OneHolder, HoldersOwnTheRow, OpenIsUntold,
     TellersAlone, NoticesAlone, Untold

LEMMA TakeAnswerStep ==
    ASSUME IInv, TypeOK', NEW d \in Drivers, TakeAnswer(d)
    PROVE  IInv'
<1> USE DEF IInv, TypeOK
<1>1. /\ row.status = "running" /\ row.stamp = d /\ row.snap # 0
      /\ row'.status = "running" /\ row'.snap = 0
      /\ row'.stamp = d /\ row'.endNotice = row.endNotice
  BY DEF TakeAnswer, Decided, RowType, StillMine, ClaimsHaveSnapshot
<1>2. Untold /\ \A e \in Drivers : ~Holds(e)
  BY <1>1, OpenIsFree DEF Open
<1>3. \A e \in Drivers :
          /\ pc'[e] = IF e = d THEN "working" ELSE pc[e]
          /\ e # d => guard'[e] = guard[e]
  BY DEF TakeAnswer
<1>4. GuardsOpen' /\ \A e \in Drivers : Holds(e)' => e = d
  BY <1>2, <1>3 DEF TakeAnswer, GuardsOpen, Holds, Settles
<1>5. Untold'
  BY <1>1, <1>2, <1>3 DEF TakeAnswer, Untold
<1>6. NoStrandedRun' /\ ClaimsHaveSnapshot' /\ ~Open(row)'
  BY <1>1, <1>3 DEF NoStrandedRun, ClaimsHaveSnapshot, StillMine, Terminal, Open
<1>7. Holder' = d
  BY <1>1, ConstantsAssumption DEF Holder, Drivers
<1>8. OneHolder' /\ HoldersOwnTheRow' /\ OpenIsUntold'
  BY <1>4, <1>5, <1>6, <1>7 DEF OneHolder, HoldersOwnTheRow, OpenIsUntold
<1>9. QED
  BY <1>4, <1>5, <1>6, <1>8 DEF TellersAlone, NoticesAlone, Untold

\* A holder that leaves: everybody else is already out.
LEMMA LastHolder ==
    ASSUME IInv, NEW d \in Drivers, Holds(d)
    PROVE  Untold /\ ~Open(row) /\ \A e \in Drivers : Holds(e) => e = d
BY DEF IInv, HoldersOwnTheRow, OneHolder

LEMMA ReachGateStep ==
    ASSUME IInv, TypeOK', NEW d \in Drivers, ReachGate(d)
    PROVE  IInv'
<1> USE DEF IInv, TypeOK
<1>1. gate[d] + 1 \in Gate /\ gate[d] + 1 # 0
  BY NextGate, ConstantsAssumption DEF ReachGate, Gate
<1>2. /\ row'.status = "awaiting" /\ row'.snap # 0
      /\ row'.stamp = None /\ row'.endNotice = "none"
  BY <1>1 DEF ReachGate, Paused, RowType
<1>3. Untold /\ \A e \in Drivers : Holds(e) => e = d
  BY LastHolder DEF ReachGate, Holds
<1>4. \A e \in Drivers :
          /\ pc'[e] = IF e = d THEN "ending" ELSE pc[e]
          /\ outcome'[e] = IF e = d THEN "awaiting" ELSE outcome[e]
          /\ guard'[e] = guard[e]
  BY DEF ReachGate, Ends
<1>5. GuardsOpen' /\ \A e \in Drivers : ~Holds(e)'
  BY <1>3, <1>4 DEF GuardsOpen, Holds, Settles
<1>6. Untold'
  BY <1>2, <1>3, <1>4 DEF ReachGate, Untold
<1>7. NoStrandedRun' /\ ClaimsHaveSnapshot'
  BY <1>2 DEF NoStrandedRun, ClaimsHaveSnapshot, StillMine, Terminal
<1>8. QED
  BY <1>5, <1>6, <1>7 DEF OneHolder, HoldersOwnTheRow, OpenIsUntold,
     TellersAlone, NoticesAlone, Untold

\* finish_run ends a run that does not wait, and leaves its notice alone.
LEMMA FinishedEnds ==
    ASSUME NEW r \in RowType, NEW s \in Terminal, r.status # "awaiting"
    PROVE  /\ Finished(r, s).status \in Terminal
           /\ Finished(r, s).snap = 0
           /\ Finished(r, s).endNotice = r.endNotice
<1>1. PICK b \in BOOLEAN : b = (s = "error" /\ r.failure)
  OBVIOUS
<1>2. Finished(r, s) =
         [r EXCEPT !.status = s, !.snap = 0, !.old = FALSE, !.failure = b]
  BY <1>1 DEF Finished
<1>3. QED
  BY <1>2 DEF RowType

LEMMA SettleEndStep ==
    ASSUME IInv, TypeOK', NEW d \in Drivers, SettleEnd(d)
    PROVE  IInv'
<1> USE DEF IInv, TypeOK
<1>1. Untold /\ ~Open(row) /\ \A e \in Drivers : Holds(e) => e = d
  BY LastHolder DEF SettleEnd, Holds
<1>2. \A e \in Drivers :
          /\ pc'[e] = IF e = d THEN "telling" ELSE pc[e]
          /\ outcome'[e] = outcome[e] /\ guard'[e] = guard[e]
  BY DEF SettleEnd
<1>3. GuardsOpen' /\ \A e \in Drivers : ~Holds(e)'
  BY <1>1, <1>2 DEF GuardsOpen, Holds, Settles
<1>4. FinalOutcome(d) \in Terminal
  BY DEF SettleEnd, Settles, FinalOutcome, Terminal
<1>5. \/ row' = row
      \/ /\ row'.status \in Terminal /\ row'.snap = 0
         /\ row'.endNotice = row.endNotice
  BY <1>1, <1>4, FinishedEnds DEF SettleEnd, Open
<1>6. NoStrandedRun' /\ ClaimsHaveSnapshot' /\ ~Open(row)'
  BY <1>1, <1>2, <1>5
     DEF NoStrandedRun, ClaimsHaveSnapshot, StillMine, Terminal, Open
<1>7. /\ told' = 0 /\ announcer' = "idle" /\ row'.endNotice = "none"
      /\ \A e \in Drivers : pc'[e] = "telling" => e = d
  BY <1>1, <1>2, <1>5 DEF SettleEnd, Untold
<1>8. QED
  BY <1>3, <1>6, <1>7 DEF OneHolder, HoldersOwnTheRow, OpenIsUntold,
     TellersAlone, NoticesAlone

LEMMA TellStep ==
    ASSUME IInv, TypeOK', NEW d \in Drivers, Tell(d)
    PROVE  IInv'
<1> USE DEF IInv, TypeOK
<1>1. /\ told = 0 /\ announcer = "idle" /\ row.endNotice = "none"
      /\ \A e \in Drivers : pc[e] = "telling" => e = d
  BY DEF Tell, TellersAlone
<1>2. ~Open(row) /\ \A e \in Drivers : ~Holds(e)
  BY DEF Tell, OpenIsUntold, HoldersOwnTheRow, Untold
<1>3. \A e \in Drivers :
          /\ pc'[e] = IF e = d THEN "over" ELSE pc[e]
          /\ outcome'[e] = outcome[e] /\ guard'[e] = guard[e]
  BY DEF Tell
<1>4. GuardsOpen' /\ \A e \in Drivers : ~Holds(e)'
  BY <1>2, <1>3 DEF GuardsOpen, Holds, Settles
<1>5. NoStrandedRun' /\ ClaimsHaveSnapshot' /\ ~Open(row)'
  BY <1>2, <1>3 DEF Tell, NoStrandedRun, ClaimsHaveSnapshot, StillMine, Open
<1>6. /\ told' = 1 /\ announcer' = "idle" /\ row'.endNotice = "none"
      /\ \A e \in Drivers : pc'[e] # "telling"
  BY <1>1, <1>3 DEF Tell
<1>7. QED
  BY <1>4, <1>5, <1>6 DEF OneHolder, HoldersOwnTheRow, OpenIsUntold,
     TellersAlone, NoticesAlone

LEMMA AnnouncerStep ==
    ASSUME IInv, TypeOK', Announcer
    PROVE  IInv'
<1> USE DEF IInv, TypeOK
<1>1. row.endNotice # "none" \/ announcer = "sending"
  BY DEF Announcer, ReserveEnd, AnnounceEnd, AnnounceCut, AnnouncerDies
<1>2. /\ ~Untold /\ ~Open(row) /\ row.endNotice # "none"
      /\ \A e \in Drivers : ~Holds(e) /\ pc[e] # "telling"
  BY <1>1 DEF Untold, OpenIsUntold, HoldersOwnTheRow, NoticesAlone
<1>3. /\ UNCHANGED <<pc, guard, outcome>>
      /\ row'.status = row.status /\ row'.snap = row.snap
      /\ row'.stamp = row.stamp /\ row'.endNotice # "none"
  BY <1>2 DEF Announcer, ReserveEnd, AnnounceEnd, AnnounceCut, AnnouncerDies,
     RowType
<1>4. GuardsOpen' /\ NoStrandedRun' /\ ClaimsHaveSnapshot' /\ ~Open(row)'
  BY <1>2, <1>3
     DEF GuardsOpen, NoStrandedRun, ClaimsHaveSnapshot, StillMine, Open
<1>5. \A e \in Drivers : ~Holds(e)' /\ pc'[e] # "telling"
  BY <1>2, <1>3 DEF Holds, Settles
<1>6. NoticesAlone'
  <2>1. CASE ReserveEnd
    BY <2>1, <1>5 DEF ReserveEnd, RowType, NoticesAlone
  <2>2. CASE AnnounceEnd
    BY <2>2, <1>5 DEF AnnounceEnd, NoticesAlone
  <2>3. CASE AnnounceCut
    BY <2>3, <1>5 DEF AnnounceCut, RowType, NoticesAlone
  <2>4. CASE AnnouncerDies
    BY <2>4, <1>5 DEF AnnouncerDies, NoticesAlone
  <2>5. QED
    BY <2>1, <2>2, <2>3, <2>4 DEF Announcer
<1>7. QED
  BY <1>4, <1>5, <1>6 DEF OneHolder, HoldersOwnTheRow, OpenIsUntold,
     TellersAlone

\* The other steps of a task neither take the row nor tell its end.
LEMMA QuietTasks ==
    ASSUME IInv, NEW d \in Drivers,
           \/ ClaimReads(d) \/ ClaimUnreadable(d) \/ ClaimRefused(d)
           \/ LoseAnswer(d) \/ AnswerFails(d) \/ ReplayBreaks(d)
           \/ PauseFails(d) \/ Completes(d) \/ WorkFails(d) \/ WorkCut(d)
           \/ SettleUnanswered(d) \/ SettleNothing(d) \/ Stop(d) \/ Dies(d)
    PROVE  Calm
<1> USE DEF IInv
<1>1. CASE ClaimReads(d)
  <2>1. Quiet
    BY <1>1 DEF ClaimReads, Quiet, Holds, Settles, GuardsOpen, TypeOK
  <2>2. QED
    BY <1>1, <2>1, RowMoves DEF Calm, ClaimReads, TypeOK
<1>2. CASE ClaimUnreadable(d)
  <2>1. Quiet
    BY <1>2 DEF ClaimUnreadable, Quiet, Holds, Settles, GuardsOpen
  <2>2. Closes
    BY <1>2, RowMoves DEF ClaimUnreadable, TypeOK
  <2>3. QED
    BY <2>1, <2>2 DEF Calm
<1>3. CASE ClaimRefused(d)
  <2>1. Quiet
    BY <1>3 DEF ClaimRefused, Quiet, Holds, Settles, GuardsOpen, TypeOK
  <2>2. QED
    BY <1>3, <2>1, RowMoves DEF Calm, ClaimRefused, TypeOK
<1>4. CASE LoseAnswer(d) \/ AnswerFails(d) \/ WorkFails(d)
  <2>1. NodeFails(d) /\ UNCHANGED <<announcer, told, taken, gate>>
    BY <1>4 DEF LoseAnswer, AnswerFails, WorkFails
  <2>2. Same
    <3>1. PICK b \in BOOLEAN : row' = [row EXCEPT !.failure = b]
      BY <2>1, FailureWritten DEF TypeOK
    <3>2. QED
      BY <3>1, RowMoves DEF TypeOK
  <2>3. /\ \A e \in Drivers : e # d => guard'[e] = guard[e]
        /\ guard'[d] = guard[d] \/ guard'[d] = "lost"
        /\ pc[d] = "replaying" => guard'[d] \in {"open", "lost"}
        /\ pc[d] \in {"replaying", "working"}
    BY <1>4 DEF LoseAnswer, AnswerFails, WorkFails, GuardsOpen, TypeOK
  <2>4. Ends(d, "error")
    BY <2>1 DEF NodeFails
  <2>5. Quiet
    BY <2>1, <2>3, <2>4 DEF Ends, Quiet, Holds, Settles, GuardsOpen, TypeOK
  <2>6. QED
    BY <2>2, <2>5 DEF Calm
<1>5. CASE ReplayBreaks(d) \/ PauseFails(d) \/ Completes(d) \/ WorkCut(d)
  <2>1. Quiet
    BY <1>5 DEF ReplayBreaks, PauseFails, Completes, WorkCut, Ends, Quiet,
       Holds, Settles, GuardsOpen, TypeOK
  <2>2. row' = row
    BY <1>5 DEF ReplayBreaks, PauseFails, Completes, WorkCut
  <2>3. QED
    BY <2>1, <2>2, RowMoves DEF Calm, TypeOK
<1>6. CASE SettleUnanswered(d)
  <2>1. Quiet
    BY <1>6 DEF SettleUnanswered, Quiet, Holds, Settles, GuardsOpen, TypeOK
  <2>2. Same \/ Reopens \/ Closes
    <3>1. \/ row' = StopUnanswered(row, d) \/ row' = Released(row)
          \/ row' = row
      BY <1>6 DEF SettleUnanswered
    <3>2. QED
      BY <3>1, RowMoves DEF TypeOK
  <2>3. QED
    BY <2>1, <2>2 DEF Calm
<1>7. CASE SettleNothing(d) \/ Stop(d) \/ Dies(d)
  <2>1. Quiet
    BY <1>7 DEF SettleNothing, Stop, Dies, Alive, Quiet, Holds, Settles,
       GuardsOpen, TypeOK
  <2>2. row' = row
    BY <1>7 DEF SettleNothing, Stop, Dies
  <2>3. QED
    BY <2>1, <2>2, RowMoves DEF Calm, TypeOK
<1>8. QED
  BY <1>1, <1>2, <1>3, <1>4, <1>5, <1>6, <1>7

\* Time and the readers.
LEMMA ReaderStep ==
    ASSUME IInv, Reader
    PROVE  Calm
<1> USE DEF IInv
<1>1. Quiet
  <2>1. UNCHANGED <<pc, gate, outcome, guard, announcer, taken, told>>
    BY DEF Reader, DeadlinePasses, Ages, Sweep, ReadRun, TickExpires, Abandon
  <2>2. QED
    BY <2>1 DEF Quiet, Holds, Settles, GuardsOpen
<1>2. Same \/ Reopens \/ Closes \/ Orphans
  <2>1. \/ \E b \in BOOLEAN : \/ row' = [row EXCEPT !.due = b]
                              \/ row' = [row EXCEPT !.old = b]
        \/ row' = Expired(Freed(row))
        \/ row' = Reconciled(Expired(row))
        \/ row' = Expired(row)
        \/ row.status = "awaiting" /\ row' = ClosedAs(row, "cancelled")
    BY DEF Reader, DeadlinePasses, Ages, Sweep, ReadRun, TickExpires, Abandon
  <2>2. QED
    BY <2>1, RowMoves DEF TypeOK
<1>3. QED
  BY <1>1, <1>2 DEF Calm

LEMMA InitInv == Init => IInv
<1> SUFFICES ASSUME Init PROVE IInv
  OBVIOUS
<1> USE DEF Init
<1>1. row = [status |-> "running", snap |-> 0, stamp |-> None, due |-> FALSE,
             old |-> FALSE, endNotice |-> "none", failure |-> FALSE]
  OBVIOUS
<1>2. TypeOK
  BY SnapFacts DEF TypeOK, RowType, Terminal, Drivers
<1>3. /\ \A d \in Drivers : Holds(d) => d = Launch
      /\ Holder = Launch
      /\ Untold /\ ~Open(row)
  BY <1>1 DEF Holds, Settles, Holder, Untold, Open
<1>4. GuardsOpen /\ ClaimsHaveSnapshot /\ NoStrandedRun
  BY <1>1 DEF GuardsOpen, ClaimsHaveSnapshot, NoStrandedRun, Terminal, StillMine
<1>5. QED
  BY <1>2, <1>3, <1>4 DEF IInv, OneHolder, HoldersOwnTheRow, OpenIsUntold,
     TellersAlone, NoticesAlone, Untold

\* Every step preserves the inductive invariant.
LEMMA InvStep == IInv /\ [Next]_vars => IInv'
<1> SUFFICES ASSUME IInv, [Next]_vars PROVE IInv'
  OBVIOUS
<1>1. TypeOK'
  BY TypeStep DEF IInv
<1>2. Resumes \subseteq Drivers
  BY DEF Drivers
<1>3. CASE Reader
  BY <1>1, <1>3, ReaderStep, QuietStep
<1>4. CASE Announcer
  BY <1>1, <1>4, AnnouncerStep
<1>5. ASSUME NEW d \in Resumes, Claim(d) PROVE IInv'
  BY <1>1, <1>2, <1>5, QuietTasks, QuietStep, ClaimTakesStep DEF Claim
<1>6. ASSUME NEW d \in Resumes, Replay(d) PROVE IInv'
  BY <1>1, <1>2, <1>6, QuietTasks, QuietStep, TakeAnswerStep DEF Replay
<1>7. ASSUME NEW d \in Drivers, Work(d) PROVE IInv'
  BY <1>1, <1>7, QuietTasks, QuietStep, ReachGateStep DEF Work
<1>8. ASSUME NEW d \in Drivers, Settle(d) PROVE IInv'
  BY <1>1, <1>8, QuietTasks, QuietStep, SettleEndStep, TellStep DEF Settle
<1>9. ASSUME NEW d \in Drivers, Stop(d) \/ Dies(d) PROVE IInv'
  BY <1>1, <1>9, QuietTasks, QuietStep
<1>10. CASE UNCHANGED vars
  <2>1. Quiet
    BY <1>10 DEF vars, Quiet, Holds, Settles, IInv, GuardsOpen
  <2>2. Same
    BY <1>10 DEF vars, Same
  <2>3. QED
    BY <1>1, <2>1, <2>2, QuietStep DEF Calm
<1>11. QED
  BY <1>3, <1>4, <1>5, <1>6, <1>7, <1>8, <1>9, <1>10 DEF Next

-----------------------------------------------------------------------------
(* The theorems.                                                            *)

\* The inductive invariant holds in every reachable state.
THEOREM Invariance == Spec => []IInv
  BY InitInv, InvStep, PTL DEF Spec

\* Every variable keeps its type, in particular the snapshot of a run is one
\* of a gate of its path and resumed_at one of the claims made on it.
THEOREM TypeCorrect == Spec => []TypeOK
<1>1. IInv => TypeOK
  BY DEF IInv
<1>2. QED
  BY Invariance, <1>1, PTL

\* mark_decided lets one task at a time past a decision, with any number of
\* replicas and resume handlers, and whatever claim was freed under a live task.
THEOREM SingleHolder == Spec => []OneHolder
<1>1. IInv => OneHolder
  BY DEF IInv
<1>2. QED
  BY Invariance, <1>1, PTL

\* A run past its decision cannot be claimed, released, expired or abandoned.
THEOREM HolderKeepsRun == Spec => []HeldIsNotOpen
<1>1. IInv => HeldIsNotOpen
  BY DEF IInv, HoldersOwnTheRow, HeldIsNotOpen
<1>2. QED
  BY Invariance, <1>1, PTL

\* No sequence of claims, expiries, releases and deaths strands a run.
THEOREM NeverStranded == Spec => []NoStrandedRun
<1>1. IInv => NoStrandedRun
  BY DEF IInv
<1>2. QED
  BY Invariance, <1>1, PTL

\* The listeners hear the end of a run at most once.
THEOREM ToldOnce == Spec => []EndToldOnce
<1>1. IInv => EndToldOnce
  BY DEF IInv, NoticesAlone, EndToldOnce
<1>2. QED
  BY Invariance, <1>1, PTL

-----------------------------------------------------------------------------
(* The order of the answers, in one process.                                *)

\* The gates before n are answered, once each, and no other.
Answered(n) == \A g \in Gate : taken[g] = IF g < n THEN 1 ELSE 0

\* Between the transactions of a claim nothing moves the row: it still holds the
\* snapshot that was read.
ClaimsRunAlone ==
    \A d \in Drivers : pc[d] = "checked" =>
        /\ row.status = "awaiting" /\ row.snap # 0 /\ gate[d] = row.snap
        /\ \A e \in Drivers : pc[e] = "checked" => e = d

\* A claim that mark_decided would accept replays up to the gate of the snapshot.
ClaimsAreFresh ==
    \A d \in Drivers :
        pc[d] = "replaying" /\ StillMine(row, d) => gate[d] = row.snap

InOrder ==
    /\ \E n \in Nat : Answered(n)
    /\ Open(row) => Answered(row.snap)
    /\ \A d \in Drivers : Holds(d) => Answered(gate[d] + 1)
    /\ ClaimsRunAlone
    /\ ClaimsAreFresh

\* In one process whatever runs beside a claim finds no claim between its transactions.
LEMMA ClaimsRunAloneStep ==
    ASSUME ~Replicas, TypeOK, ClaimsRunAlone, [Next]_vars
    PROVE  ClaimsRunAlone'
<1>1. /\ Resumes \subseteq Drivers /\ row \in RowType
      /\ pc \in [Drivers -> {"idle", "checked", "replaying", "working",
                             "ending", "telling", "over", "dead"}]
  BY DEF Drivers, TypeOK
<1>2. ASSUME \A d \in Drivers : pc[d] # "checked",
             \A d \in Drivers : pc'[d] = "checked" => pc[d] = "checked"
      PROVE  ClaimsRunAlone'
  BY <1>2 DEF ClaimsRunAlone
<1>3. ASSUME row'.status = row.status, row'.snap = row.snap, gate' = gate,
             \A d \in Drivers : pc'[d] = "checked" => pc[d] = "checked"
      PROVE  ClaimsRunAlone'
  BY <1>3 DEF ClaimsRunAlone
<1>4. CASE Reader
  <2>1. CASE DeadlinePasses \/ Ages
    <3>1. row'.status = row.status /\ row'.snap = row.snap /\ pc' = pc /\ gate' = gate
      BY <1>1, <2>1 DEF DeadlinePasses, Ages, RowType
    <3>2. QED
      BY <1>3, <3>1
  <2>2. CASE Sweep \/ ReadRun \/ TickExpires \/ Abandon
    BY <1>2, <2>2 DEF Sweep, ReadRun, TickExpires, Abandon, LoopFree
  <2>3. QED
    BY <1>4, <2>1, <2>2 DEF Reader
<1>5. CASE Announcer
  <2>1. pc' = pc /\ gate' = gate
    BY <1>5 DEF Announcer, ReserveEnd, AnnounceEnd, AnnounceCut, AnnouncerDies
  <2>2. row'.status = row.status /\ row'.snap = row.snap
    BY <1>1, <1>5
       DEF Announcer, ReserveEnd, AnnounceEnd, AnnounceCut, AnnouncerDies, RowType
  <2>3. QED
    BY <1>3, <2>1, <2>2
<1>6. ASSUME NEW d \in Drivers, Claim(d)
      PROVE  ClaimsRunAlone'
  <2>1. CASE ClaimReads(d)
    <3>1. /\ gate'[d] = row.snap /\ row' = row /\ row.status = "awaiting" /\ row.snap # 0
          /\ \A e \in Drivers : pc'[e] = "checked" => e = d
      BY <2>1 DEF ClaimReads, LoopFree, TypeOK
    <3>2. QED
      BY <3>1 DEF ClaimsRunAlone
  <2>2. CASE ClaimUnreadable(d)
    BY <1>2, <2>2 DEF ClaimUnreadable, LoopFree
  <2>3. CASE ClaimTakes(d) \/ ClaimRefused(d)
    <3>1. pc[d] = "checked" /\ \A e \in Drivers : pc[e] = "checked" => e = d
      BY <2>3 DEF ClaimTakes, ClaimRefused, ClaimsRunAlone
    <3>2. \A e \in Drivers : pc'[e] # "checked"
      BY <1>1, <2>3, <3>1 DEF ClaimTakes, ClaimRefused
    <3>3. QED
      BY <3>2 DEF ClaimsRunAlone
  <2>4. QED
    BY <1>6, <2>1, <2>2, <2>3 DEF Claim
<1>7. ASSUME NEW d \in Drivers, Replay(d) \/ Work(d)
      PROVE  ClaimsRunAlone'
  <2>1. LoopFree
    BY <1>7 DEF Replay, Work, TakeAnswer, LoseAnswer, AnswerFails, ReplayBreaks,
                ReachGate, PauseFails, Completes, WorkFails, WorkCut
  <2>2. \/ pc' = [pc EXCEPT ![d] = "working"]
        \/ pc' = [pc EXCEPT ![d] = "ending"]
    BY <1>7 DEF Replay, Work, TakeAnswer, LoseAnswer, AnswerFails, ReplayBreaks,
                ReachGate, PauseFails, Completes, WorkFails, WorkCut, NodeFails, Ends
  <2>3. QED
    BY <1>1, <1>2, <2>1, <2>2 DEF LoopFree
<1>8. ASSUME NEW d \in Drivers, Settle(d) \/ Stop(d)
      PROVE  ClaimsRunAlone'
  <2>1. /\ LoopFree
        /\ \/ pc' = pc \/ pc' = [pc EXCEPT ![d] = "telling"]
           \/ pc' = [pc EXCEPT ![d] = "over"]
    BY <1>8 DEF Settle, SettleEnd, SettleUnanswered, SettleNothing, Tell, Stop
  <2>2. QED
    BY <1>1, <1>2, <2>1 DEF LoopFree
<1>9. ASSUME NEW d \in Drivers, Dies(d)
      PROVE  ClaimsRunAlone'
  BY <1>1, <1>3, <1>9 DEF Dies
<1>10. CASE UNCHANGED vars
  BY <1>3, <1>10 DEF vars
<1>11. QED
  BY <1>1, <1>4, <1>5, <1>6, <1>7, <1>8, <1>9, <1>10 DEF Next

\* A calm step takes no answer and opens no row.
LEMMA CalmInOrder ==
    ASSUME IInv, IInv', InOrder, ClaimsRunAlone', Calm
    PROVE  InOrder'
<1>1. /\ taken' = taken
      /\ \A d \in Drivers : Holds(d)' => Holds(d) /\ gate'[d] = gate[d]
  BY DEF Calm, Quiet, Holds
<1>2. Open(row)' => Open(row) /\ row'.snap = row.snap
  BY DEF Calm, Same, Reopens, Closes, Orphans, Open, Terminal
<1>3. ASSUME NEW d \in Drivers, pc'[d] = "replaying", StillMine(row, d)'
      PROVE  gate'[d] = row'.snap
  <2>1. pc[d] = "replaying" /\ gate'[d] = gate[d]
    BY <1>3 DEF Calm, Quiet
  <2>2. StillMine(row, d)
    BY <1>3 DEF Calm, Same, Reopens, Closes, Orphans, StillMine, Terminal
  <2>3. Open(row)'
    BY <1>3 DEF IInv, ClaimsHaveSnapshot, StillMine, Open
  <2>4. QED
    BY <1>2, <2>1, <2>2, <2>3 DEF InOrder, ClaimsAreFresh
<1>4. \A d \in Drivers : Holds(d)' => Answered(gate[d] + 1)
  BY <1>1 DEF InOrder
<1>5. QED
  BY <1>1, <1>2, <1>3, <1>4 DEF InOrder, Answered, ClaimsAreFresh

\* What a step does to the order of the answers.
LEMMA OrderStep ==
    ASSUME ~Replicas, IInv, IInv', InOrder, [Next]_vars
    PROVE  InOrder'
<1>1. /\ ClaimsRunAlone' /\ Resumes \subseteq Drivers
      /\ row \in RowType /\ gate \in [Drivers -> Snap] /\ taken \in [Gate -> Nat]
      /\ Gates \in Nat
  BY ClaimsRunAloneStep, ConstantsAssumption DEF IInv, TypeOK, InOrder, Drivers
<1>2. ASSUME Calm
      PROVE  InOrder'
  BY <1>1, <1>2, CalmInOrder
<1>3. CASE Reader
  BY <1>2, <1>3, ReaderStep
<1>4. CASE UNCHANGED vars
  BY <1>4 DEF vars, InOrder, Answered, Open, Holds, Settles, ClaimsRunAlone, ClaimsAreFresh,
              StillMine
<1>5. CASE Announcer
  <2>1. UNCHANGED <<pc, gate, guard, outcome, taken>>
    BY <1>5 DEF Announcer, ReserveEnd, AnnounceEnd, AnnounceCut, AnnouncerDies
  <2>2. row'.status = row.status /\ row'.snap = row.snap /\ row'.stamp = row.stamp
    BY <1>1, <1>5
       DEF Announcer, ReserveEnd, AnnounceEnd, AnnounceCut, AnnouncerDies, RowType
  <2>3. QED
    BY <1>1, <2>1, <2>2
       DEF InOrder, Answered, Open, Holds, Settles, ClaimsAreFresh, StillMine
<1>6. ASSUME NEW d \in Drivers, ClaimTakes(d)
      PROVE  InOrder'
  <2>1. /\ row'.status = "running" /\ row'.snap = row.snap /\ row'.stamp = d
        /\ row.status = "awaiting" /\ gate' = gate /\ taken' = taken
        /\ pc[d] = "checked" /\ gate[d] = row.snap
    BY <1>1, <1>6 DEF ClaimTakes, Claimed, RowType, InOrder, ClaimsRunAlone
  <2>2. \A e \in Drivers : ~Holds(e)'
    <3>1. \A e \in Drivers : ~Holds(e)
      BY <2>1, OpenIsFree DEF Open
    <3>2. QED
      BY <3>1, <1>6 DEF ClaimTakes, Holds, Settles
  <2>3. ClaimsAreFresh'
    BY <2>1 DEF ClaimsAreFresh, StillMine
  <2>4. QED
    BY <1>1, <2>1, <2>2, <2>3 DEF InOrder, Answered, Open
<1>7. ASSUME NEW d \in Drivers, TakeAnswer(d)
      PROVE  InOrder'
  <2>1. /\ row.status = "running" /\ row.snap # 0 /\ gate[d] = row.snap
        /\ row'.status = "running" /\ row'.snap = 0 /\ row'.stamp = d
        /\ gate' = gate /\ taken' = [taken EXCEPT ![gate[d]] = @ + 1]
        /\ pc[d] = "replaying" /\ pc' = [pc EXCEPT ![d] = "working"]
    BY <1>1, <1>7 DEF TakeAnswer, Decided, RowType, StillMine, IInv, ClaimsHaveSnapshot,
                      InOrder, ClaimsAreFresh
  <2>2. Answered(gate[d]) /\ gate[d] \in Gate
    BY <1>1, <2>1 DEF InOrder, Open, Snap, Gate
  <2>3. Answered(gate[d] + 1)'
    <3>1. ASSUME NEW g \in Gate
          PROVE  taken'[g] = IF g < gate[d] + 1 THEN 1 ELSE 0
      <4>1. taken[g] = IF g < gate[d] THEN 1 ELSE 0
        BY <2>2 DEF Answered
      <4>2. taken'[g] = IF g = gate[d] THEN taken[g] + 1 ELSE taken[g]
        BY <1>1, <2>1
      <4>3. g \in Nat /\ gate[d] \in Nat
        BY <1>1, <2>2 DEF Gate
      <4>4. QED
        BY <4>1, <4>2, <4>3
    <3>2. QED
      BY <2>1, <3>1 DEF Answered
  <2>4. ~Open(row)'
    BY <2>1 DEF Open
  <2>5. \A e \in Drivers : Holds(e)' => e = d
    <3>1. \A e \in Drivers : ~Holds(e)
      BY <2>1, OpenIsFree DEF Open
    <3>2. QED
      BY <3>1, <1>7, <2>1 DEF TakeAnswer, Holds, Settles
  <2>6. ClaimsAreFresh'
    BY <2>1 DEF IInv, ClaimsHaveSnapshot, ClaimsAreFresh, StillMine
  <2>7. gate[d] + 1 \in Nat
    BY <1>1, <2>2 DEF Gate
  <2>8. QED
    BY <1>1, <2>1, <2>3, <2>4, <2>5, <2>6, <2>7 DEF InOrder
<1>8. ASSUME NEW d \in Drivers, ReachGate(d)
      PROVE  InOrder'
  <2>1. /\ row'.status = "awaiting" /\ row'.snap = gate[d] + 1
        /\ gate' = gate /\ taken' = taken /\ Holds(d)
    BY <1>1, <1>8 DEF ReachGate, Paused, RowType, Holds
  <2>2. \A e \in Drivers : ~Holds(e)'
    <3>1. \A e \in Drivers : Holds(e) => e = d
      BY <2>1 DEF IInv, OneHolder
    <3>2. /\ pc'[d] = "ending" /\ outcome'[d] = "awaiting" /\ guard' = guard
          /\ \A e \in Drivers \ {d} : pc'[e] = pc[e] /\ outcome'[e] = outcome[e]
      BY <1>8 DEF ReachGate, Ends, IInv, TypeOK
    <3>3. QED
      BY <3>1, <3>2 DEF Holds, Settles
  <2>3. Answered(row.snap)'
    BY <2>1 DEF InOrder, Answered
  <2>4. ClaimsAreFresh'
    BY <2>1 DEF ClaimsAreFresh, StillMine
  <2>5. QED
    BY <1>1, <2>1, <2>2, <2>3, <2>4 DEF InOrder, Answered
<1>9. ASSUME NEW d \in Drivers, SettleEnd(d) \/ Tell(d)
      PROVE  InOrder'
  <2>1. ~Open(row) /\ row.status # "awaiting"
    <3>1. SettleEnd(d) => ~Open(row)
      BY LastHolder DEF SettleEnd, Holds
    <3>2. Tell(d) => ~Open(row)
      BY DEF Tell, IInv, OpenIsUntold, Untold
    <3>3. QED
      BY <1>9, <3>1, <3>2 DEF Open
  <2>2. /\ \/ row' = row
           \/ row'.status \in Terminal /\ row'.snap = 0
        /\ gate' = gate /\ taken' = taken /\ guard' = guard /\ outcome' = outcome
        /\ pc' = [pc EXCEPT ![d] = "telling"] \/ pc' = [pc EXCEPT ![d] = "over"]
    <3>1. SettleEnd(d) => FinalOutcome(d) \in Terminal
      BY DEF SettleEnd, Settles, FinalOutcome, Terminal, IInv, TypeOK
    <3>2. QED
      BY <1>1, <1>9, <2>1, <3>1, FinishedEnds DEF SettleEnd, Tell
  <2>3. ~Open(row)'
    BY <2>1, <2>2 DEF Open, Terminal
  <2>4. \A e \in Drivers : Holds(e)' => Holds(e)
    BY <2>2 DEF Holds, Settles, IInv, TypeOK
  <2>5. ClaimsAreFresh'
    BY <2>3 DEF IInv, ClaimsHaveSnapshot, ClaimsAreFresh, StillMine, Open
  <2>6. QED
    BY <1>1, <2>2, <2>3, <2>4, <2>5 DEF InOrder, Answered
<1>10. ASSUME NEW d \in Drivers, Claim(d) \/ Replay(d) \/ Work(d) \/ Settle(d) \/ Stop(d)
                                  \/ Dies(d)
       PROVE  InOrder'
  BY <1>2, <1>6, <1>7, <1>8, <1>9, <1>10, QuietTasks DEF Claim, Replay, Work, Settle
<1>11. QED
  BY <1>1, <1>3, <1>4, <1>5, <1>10 DEF Next

LEMMA InitOrder == Init => InOrder
<1> SUFFICES ASSUME Init PROVE InOrder
  OBVIOUS
<1>1. /\ row.status = "running" /\ row.snap = 0
      /\ \A d \in Drivers : gate[d] = 0 /\ pc[d] \in {"working", "idle"}
      /\ \A g \in Gate : taken[g] = 0 /\ g \in Nat /\ ~(g < 1)
  BY ConstantsAssumption DEF Init, Gate
<1>2. Answered(1)
  BY <1>1 DEF Answered
<1>3. QED
  BY <1>1, <1>2 DEF InOrder, ClaimsRunAlone, ClaimsAreFresh, Open

\* In one process the gates are answered in their order, and a claim replays up to the
\* gate that its row waits on.
THEOREM AnswersInOrder ==
    ASSUME ~Replicas
    PROVE  Spec => [](IInv /\ InOrder)
<1>1. Init => IInv /\ InOrder
  BY InitInv, InitOrder
<1>2. IInv /\ InOrder /\ [Next]_vars => IInv' /\ InOrder'
  BY InvStep, OrderStep
<1>3. QED
  BY <1>1, <1>2, PTL DEF Spec

\* claim_paused_run, mark_decided: in one process the answer of a gate sets the run
\* going once, whatever claims expire, are given back or die.
THEOREM AnswerTakenOnce ==
    ASSUME ~Replicas
    PROVE  Spec => []TakenOnce
<1>1. IInv /\ InOrder => TakenOnce
  BY DEF InOrder, Answered, TakenOnce
<1>2. QED
  BY <1>1, AnswersInOrder, PTL

\* What an answer and the end of a run do to the history.
LEMMA HistoryStep ==
    ASSUME IInv, [Next]_vars
    PROVE  \/ UNCHANGED <<taken, told>>
           \/ /\ taken' = taken /\ told = 0 /\ told' = 1
           \/ \E d \in Drivers : TakeAnswer(d)
<1>1. Resumes \subseteq Drivers /\ told \in Nat
  BY DEF Drivers, IInv, TypeOK
<1>2. CASE Reader
  BY <1>2, ReaderStep DEF Calm, Quiet
<1>3. CASE Announcer
  <2>1. announcer = "sending" => told = 0
    BY DEF IInv, NoticesAlone
  <2>2. QED
    BY <1>3, <2>1 DEF Announcer, ReserveEnd, AnnounceEnd, AnnounceCut, AnnouncerDies
<1>4. ASSUME NEW d \in Drivers, Tell(d)
      PROVE  taken' = taken /\ told = 0 /\ told' = 1
  BY <1>4 DEF Tell, IInv, TellersAlone
<1>5. ASSUME NEW d \in Drivers, ClaimTakes(d) \/ ReachGate(d) \/ SettleEnd(d)
      PROVE  UNCHANGED <<taken, told>>
  BY <1>5 DEF ClaimTakes, ReachGate, SettleEnd
<1>6. ASSUME NEW d \in Drivers, Calm
      PROVE  UNCHANGED <<taken, told>>
  BY <1>6 DEF Calm, Quiet
<1>7. ASSUME NEW d \in Drivers, Claim(d) \/ Work(d) \/ Settle(d) \/ Stop(d) \/ Dies(d)
      PROVE  UNCHANGED <<taken, told>> \/ (taken' = taken /\ told = 0 /\ told' = 1)
  BY <1>4, <1>5, <1>6, <1>7, QuietTasks DEF Claim, Work, Settle
<1>8. ASSUME NEW d \in Drivers, Replay(d), ~TakeAnswer(d)
      PROVE  UNCHANGED <<taken, told>>
  BY <1>6, <1>8, QuietTasks DEF Replay
<1>9. CASE UNCHANGED vars
  BY <1>9 DEF vars
<1>10. QED
  BY <1>1, <1>2, <1>3, <1>7, <1>8, <1>9 DEF Next

\* on_answered: in one process a gate whose answer was taken is never asked again, by
\* a pause, a release, a reconciliation or a sweep.
THEOREM NeverReopens ==
    ASSUME ~Replicas
    PROVE  Spec => AnsweredNeverReopens
<1>1. ASSUME IInv, InOrder, IInv', InOrder', [Next]_vars, NEW g \in Gate,
             taken[g] > 0, row'.status = "awaiting", row'.snap = g
      PROVE  FALSE
  <2>1. Answered(row.snap)'
    BY <1>1 DEF InOrder, Open
  <2>2. taken'[g] = 0
    <3>1. g \in Nat
      BY DEF Gate
    <3>2. ~(g < g)
      BY <3>1
    <3>3. QED
      BY <1>1, <2>1, <3>2 DEF Answered
  <2>3. taken \in [Gate -> Nat]
    BY <1>1 DEF IInv, TypeOK
  <2>4. PICK d \in Drivers : TakeAnswer(d)
    BY <1>1, <2>2, <2>3, HistoryStep
  <2>5. row' = [row EXCEPT !.snap = 0] /\ row \in RowType /\ row.status = "running"
    BY <1>1, <2>4 DEF TakeAnswer, Decided, StillMine, IInv, TypeOK
  <2>6. QED
    BY <1>1, <2>5 DEF RowType
<1>2. IInv /\ InOrder /\ IInv' /\ InOrder' /\ [Next]_vars =>
          [\A g \in Gate : taken[g] > 0 /\ row'.status = "awaiting" /\ row'.snap = g
              => row.status = "awaiting" /\ row.snap = g]_vars
  BY <1>1
<1>3. QED
  BY <1>2, AnswersInOrder, PTL DEF Spec, AnsweredNeverReopens

\* A step of the run is a step of its promise: the next answer, the end, or nothing
\* that anyone outside sees.
LEMMA PromiseStep ==
    ASSUME ~Replicas, IInv, InOrder, [Next]_vars
    PROVE  [Promise!Next]_(Promise!vars)
<1>1. CASE UNCHANGED <<taken, told>>
  BY <1>1 DEF Promise!vars
<1>2. CASE taken' = taken /\ told = 0 /\ told' = 1
  BY <1>2 DEF Promise!Next, Promise!End
<1>3. ASSUME NEW d \in Drivers, TakeAnswer(d)
      PROVE  Promise!Answer(gate[d]) /\ gate[d] \in 1..Gates
  <2>1. /\ row.status = "running" /\ row.snap # 0 /\ gate[d] = row.snap
        /\ taken' = [taken EXCEPT ![gate[d]] = @ + 1] /\ told' = told
        /\ row \in RowType /\ taken \in [Gate -> Nat] /\ Gates \in Nat
    BY <1>3, ConstantsAssumption
       DEF TakeAnswer, StillMine, IInv, TypeOK, ClaimsHaveSnapshot, InOrder, ClaimsAreFresh
  <2>2. Answered(gate[d]) /\ told = 0
    BY <2>1, OpenIsFree DEF InOrder, Open, Untold
  <2>3. gate[d] \in 1..Gates /\ gate[d] \in Nat
    BY <2>1 DEF RowType, Snap
  <2>4. taken[gate[d]] = 0 /\ \A h \in 1..(gate[d] - 1) : taken[h] = 1
    <3>1. ~(gate[d] < gate[d])
      BY <2>3
    <3>2. \A h \in 1..(gate[d] - 1) : h \in Gate /\ h < gate[d]
      BY <2>1, <2>3 DEF Gate
    <3>3. QED
      BY <2>2, <2>3, <3>1, <3>2 DEF Answered, Gate
  <2>5. taken' = [taken EXCEPT ![gate[d]] = 1]
    BY <2>1, <2>4
  <2>6. QED
    BY <2>1, <2>2, <2>3, <2>4, <2>5 DEF Promise!Answer
<1>4. QED
  BY <1>1, <1>2, <1>3, HistoryStep DEF Promise!Next

\* In one process a run with decisions keeps the promise of DecisionPromise: the
\* decisions are answered in order, each at most once, none after the end, and the end
\* is told once.
THEOREM PromiseKept ==
    ASSUME ~Replicas
    PROVE  Spec => KeepsPromise
<1>1. Init => Promise!Init
  BY DEF Init, Promise!Init, Gate
<1>2. IInv /\ InOrder /\ [Next]_vars => [Promise!Next]_(Promise!vars)
  BY PromiseStep
<1>3. QED
  BY <1>1, <1>2, AnswersInOrder, PTL DEF Spec, KeepsPromise, Promise!Spec

\* RUN_STALE_AFTER: until it has passed nobody but its holder changes the status of a
\* run past its decision, with any number of replicas.
THEOREM HeldStable == Spec => HeldIsStable
<1>1. ASSUME IInv, IInv', [Next]_vars, NEW d \in Drivers, Holds(d), Holds(d)', ~row.old
      PROVE  row'.status = row.status
  <2>1. /\ ~Open(row) /\ ~Open(row)' /\ row \in RowType /\ Resumes \subseteq Drivers
        /\ Untold /\ \A e \in Drivers : Holds(e) => e = d
    BY <1>1, LastHolder DEF IInv, HoldersOwnTheRow, TypeOK, Drivers
  <2>2. row.status # "awaiting" /\ ~(row.status = "running" /\ row.snap # 0)
    BY <2>1 DEF Open
  <2>3. CASE Reader
    <3>1. Expired(row) = row /\ Freed(row) = row /\ Reconciled(row) = row
      BY <1>1, <2>2 DEF Expired, Freed, Reconciled
    <3>2. \/ row' = row \/ row' = [row EXCEPT !.due = TRUE]
          \/ row' = [row EXCEPT !.old = TRUE]
      BY <2>2, <2>3, <3>1
         DEF Reader, DeadlinePasses, Ages, Sweep, ReadRun, TickExpires, Abandon
    <3>3. QED
      BY <2>1, <3>2 DEF RowType
  <2>4. CASE Announcer
    BY <2>1, <2>4
       DEF Announcer, ReserveEnd, AnnounceEnd, AnnounceCut, AnnouncerDies, RowType
  <2>5. ASSUME NEW e \in Drivers, Claim(e)
        PROVE  row' = row
    BY <2>2, <2>5 DEF Claim, ClaimReads, ClaimUnreadable, ClaimTakes, ClaimRefused
  <2>6. ASSUME NEW e \in Drivers, Replay(e)
        PROVE  row'.status = row.status
    <3>1. TakeAnswer(e) => row'.status = row.status
      BY <2>1 DEF TakeAnswer, Decided, RowType
    <3>2. NodeFails(e) => row'.status = row.status
      BY <2>1, FailureWritten DEF RowType
    <3>3. QED
      BY <2>6, <3>1, <3>2 DEF Replay, LoseAnswer, AnswerFails, ReplayBreaks
  <2>7. ASSUME NEW e \in Drivers, Work(e)
        PROVE  row'.status = row.status
    <3>1. NodeFails(e) => row'.status = row.status
      BY <2>1, FailureWritten DEF RowType
    <3>2. ~ReachGate(e)
      <4>1. ReachGate(e) => e = d /\ ~Open(row)' /\ row'.status = "awaiting"
        BY <2>1 DEF ReachGate, Holds, Paused, RowType
      <4>2. QED
        BY <4>1 DEF Open
    <3>3. QED
      BY <2>7, <3>1, <3>2 DEF Work, PauseFails, Completes, WorkFails, WorkCut
  <2>8. ASSUME NEW e \in Drivers, Settle(e)
        PROVE  row' = row
    <3>1. ~SettleEnd(e)
      <4>1. SettleEnd(e) => e = d /\ pc'[e] = "telling"
        BY <1>1, <2>1 DEF SettleEnd, Holds, IInv, TypeOK
      <4>2. QED
        BY <1>1, <4>1 DEF Holds
    <3>2. SettleUnanswered(e) => row' = row
      BY <2>2 DEF SettleUnanswered, StopUnanswered, StillMine, Released
    <3>3. QED
      BY <2>8, <3>1, <3>2 DEF Settle, SettleNothing, Tell
  <2>9. ASSUME NEW e \in Drivers, Stop(e) \/ Dies(e)
        PROVE  row' = row
    BY <2>9 DEF Stop, Dies
  <2>10. CASE UNCHANGED vars
    BY <2>10 DEF vars
  <2>11. QED
    BY <1>1, <2>1, <2>3, <2>4, <2>5, <2>6, <2>7, <2>8, <2>9, <2>10 DEF Next
<1>2. IInv /\ IInv' /\ [Next]_vars =>
          [\A d \in Drivers :
              Holds(d) /\ Holds(d)' /\ ~row.old => row'.status = row.status]_vars
  BY <1>1
<1>3. QED
  BY <1>2, Invariance, PTL DEF Spec, HeldIsStable
=============================================================================
