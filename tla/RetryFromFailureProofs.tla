----------------------- MODULE RetryFromFailureProofs -----------------------
(***************************************************************************)
(* RetryFromFailure for every number of runs, every chain of nodes, every   *)
(* set of decisions on it and every set of requests.                        *)
(***************************************************************************)
EXTENDS RetryFromFailure, TLAPS, FiniteSetTheorems

Snaps == 0..Nodes

RowType ==
    [status : {"absent", "running", "awaiting"} \cup Terminal,
     of : Runs \cup {None}, fail : Snaps \cup {None}, node : BOOLEAN,
     paused : BOOLEAN, old : BOOLEAN, ttl : BOOLEAN]

PrepType ==
    [at : {"idle", "checked", "consumed", "started"}, run : Runs \cup {None},
     snap : Snaps, new : Runs \cup {None}]

TypeOK ==
    /\ row \in [Runs -> RowType]
    /\ pc \in [Runs -> {"none", "live", "ending", "claimed", "refused"}]
    /\ outcome \in [Runs -> Terminal]
    /\ from \in [Runs -> Snaps]
    /\ done \in [Runs -> Snaps]
    /\ prep \in [Handlers -> PrepType]
    /\ unrecorded \subseteq Runs

Opened(r) == row[r].status \in {"running", "awaiting"}
Active(h) == prep[h].at \in {"consumed", "started"}

\* A task drives a run that is under way, and knows whether it waits.
Tasks ==
    \A r \in Runs :
        /\ row[r].status = "awaiting" => row[r].paused
        /\ pc[r] # "none" => row[r].status = "running" /\ ~row[r].old
        /\ pc[r] \in {"claimed", "refused"} => row[r].paused
        /\ pc[r] \in {"live", "ending"} => ~row[r].paused
        /\ pc[r] = "ending" /\ outcome[r] = "success" => done[r] = Nodes
        /\ row[r].status = "success" => done[r] = Nodes
        /\ row[r].paused => done[r] < Nodes

\* Runs are opened one after the other, each from one that failed.
Lineage ==
    /\ \A r \in Runs : row[r].status = "absent" =>
          row[r].fail = None /\ ~row[r].paused /\ ~row[r].old /\ from[r] = done[r]
    /\ \A r, s \in Runs : row[r].status = "absent" /\ r < s => row[s].status = "absent"
    /\ \A r, s \in Runs : Opened(r) /\ r < s => row[s].status = "absent"
    /\ \A r, s \in Runs : row[r].of = s => row[s].status = "error"
    /\ \A r \in Runs : row[r].ttl => row[r].status = "error"

\* A request works on a failed run; the one it has opened is nobody else's.
Requests ==
    \A h \in Handlers :
        /\ prep[h].at # "idle" => prep[h].run \in Runs
        /\ prep[h].at # "idle" => row[prep[h].run].status = "error"
        /\ prep[h].at = "started" =>
              LET new == prep[h].new IN
              /\ new \in Runs /\ row[new].status = "running"
              /\ ~row[new].old /\ ~row[new].paused
              /\ pc[new] = "none" /\ row[new].of = prep[h].run
              /\ from[new] = prep[h].snap /\ done[new] = prep[h].snap
        /\ prep[h].at # "started" => prep[h].new = None

\* The work goes on in one place.
OnePlace ==
    /\ \A r, s \in Ways : r = s
    /\ \A h \in Handlers : prep[h].at = "consumed" => Ways = {}
    /\ \A h, g \in Handlers : Active(h) /\ Active(g) => h = g

\* The first k nodes have been run.
Covered(k) == \A i \in 1..k : \E s \in Runs : i \in Executed(s)

Coverage ==
    /\ \A r \in Runs : from[r] <= done[r]
    /\ \A r \in Runs : \A i \in 1..done[r] :
          \E s \in Runs : s <= r /\ i \in Executed(s)
    /\ \A r \in Runs : row[r].fail # None => Covered(row[r].fail)
    /\ \A h \in Handlers : prep[h].at # "idle" => Covered(prep[h].snap)

\* What runs that are over have done, and recorded, lies within the first k nodes.
Bound(k) ==
    \A q \in Runs : q \notin unrecorded /\ ~Opened(q) /\ from[q] # done[q] => done[q] <= k

\* The failure of r is there, or may be given back.
Recoverable(r) ==
    /\ row[r].status = "error"
    /\ \/ row[r].fail # None
       \/ \E s \in Runs : Opened(s) /\ row[s].of = r
       \/ \E g \in Handlers : prep[g].at = "consumed" /\ prep[g].run = r

\* No snapshot that may still be replayed lies behind what was done.
Fresh ==
    /\ \A r \in Runs : Opened(r) => Bound(from[r])
    /\ \A r \in Ways : row[r].fail # None => Bound(row[r].fail)
    /\ \A h \in Handlers : Active(h) => Bound(prep[h].snap)
    /\ \A h \in Handlers :
          prep[h].at = "checked" /\ Recoverable(prep[h].run) => Bound(prep[h].snap)
    /\ \A r \in Runs : pc[r] = "ending" /\ outcome[r] = "error" /\ r \notin unrecorded
          => row[r].fail = done[r]

IInv ==
    /\ TypeOK
    /\ Tasks
    /\ Lineage
    /\ Requests
    /\ OnePlace
    /\ Coverage
    /\ Fresh
    /\ DoneNotRedone

-----------------------------------------------------------------------------
(* What the transactions do to the rows, column by column.                  *)

Rows == [Runs -> RowType]

\* Only what is kept of a failure may differ.
Alike(a, b) ==
    /\ a.status = b.status /\ a.of = b.of
    /\ a.paused = b.paused /\ a.old = b.old /\ a.ttl = b.ttl

\* _purge_failure_states
LEMMA PurgedRows ==
    ASSUME NEW rows \in Rows
    PROVE  /\ Purged(rows) \in Rows
           /\ \A q \in Runs :
                 /\ Alike(Purged(rows)[q], rows[q])
                 /\ Purged(rows)[q].fail = IF rows[q].ttl THEN None ELSE rows[q].fail
  BY DEF Purged, Rows, RowType, Alike

\* save_failure
LEMMA WithFailureRows ==
    ASSUME NEW rows \in Rows, NEW r \in Runs, NEW depth \in Snaps
    PROVE  /\ WithFailure(rows, r, depth) \in Rows
           /\ \A q \in Runs :
                 /\ Alike(WithFailure(rows, r, depth)[q], rows[q])
                 /\ WithFailure(rows, r, depth)[q].fail =
                      IF q = r THEN depth
                      ELSE IF rows[q].ttl THEN None ELSE rows[q].fail
<1> DEFINE kept == Purged(rows)
<1>1. kept \in Rows
  BY PurgedRows
<1>2. \A q \in Runs :
          /\ Alike(kept[q], rows[q])
          /\ kept[q].fail = IF rows[q].ttl THEN None ELSE rows[q].fail
  BY PurgedRows
<1>3. WithFailure(rows, r, depth) = [kept EXCEPT ![r].fail = depth, ![r].node = TRUE]
  BY DEF WithFailure
<1> HIDE DEF kept
<1> DEFINE new == [kept[r] EXCEPT !.fail = depth, !.node = TRUE]
<1>4. WithFailure(rows, r, depth)
        = [q \in Runs |-> IF q = r THEN new ELSE kept[q]]
  BY <1>1, <1>3 DEF Rows
<1>5. kept[r] \in RowType
  BY <1>1 DEF Rows
<1>6. new \in RowType /\ new.fail = depth /\ Alike(new, kept[r])
  BY <1>5 DEF RowType, Alike
<1> HIDE DEF new
<1>7. QED
  BY <1>1, <1>2, <1>4, <1>6 DEF Rows, Alike

\* _give_back_retry
Gives(rows, r, q) ==
    /\ q = rows[r].of /\ rows[r].fail # None
    /\ rows[q].status = "error" /\ rows[q].fail = None

\* _give_back_retry changes the snapshot of the original, and nothing else.
LEMMA GivenBackRows ==
    ASSUME NEW rows \in Rows, NEW r \in Runs
    PROVE  /\ GivenBack(rows, r) \in Rows
           /\ \A q \in Runs :
                 /\ Alike(GivenBack(rows, r)[q], rows[q])
                 /\ GivenBack(rows, r)[q].fail =
                      IF Gives(rows, r, q) THEN rows[r].fail ELSE rows[q].fail
  BY RetryAssumption DEF GivenBack, Gives, Rows, RowType, Alike, Runs

\* finish_run, on a run that is under way
LEMMA FinishedRows ==
    ASSUME NEW rows \in Rows, NEW r \in Runs, NEW status \in Terminal,
           rows[r].status = "running"
    PROVE  /\ Finished(rows, r, status) \in Rows
           /\ \A q \in Runs \ {r} :
                 /\ Alike(Finished(rows, r, status)[q], rows[q])
                 /\ Finished(rows, r, status)[q].fail =
                      IF status = "cancelled" /\ Gives(rows, r, q) THEN rows[r].fail
                      ELSE rows[q].fail
           /\ LET new == Finished(rows, r, status)[r] IN
              /\ new.status = status /\ ~new.paused
              /\ new.of = rows[r].of /\ new.old = rows[r].old /\ new.ttl = rows[r].ttl
              /\ new.fail = IF status = "error" THEN rows[r].fail ELSE None
<1>1. /\ GivenBack(rows, r) \in Rows
      /\ \A q \in Runs :
            /\ Alike(GivenBack(rows, r)[q], rows[q])
            /\ GivenBack(rows, r)[q].fail =
                  IF Gives(rows, r, q) THEN rows[r].fail ELSE rows[q].fail
  BY GivenBackRows
<1>2. ~Gives(rows, r, r)
  BY DEF Gives
<1> DEFINE given == IF status = "cancelled" THEN GivenBack(rows, r) ELSE rows
<1>3. given \in Rows
  BY <1>1
<1>4. \A q \in Runs :
          /\ Alike(given[q], rows[q])
          /\ given[q].fail = IF status = "cancelled" /\ Gives(rows, r, q) THEN rows[r].fail
                             ELSE rows[q].fail
  BY <1>1 DEF Alike
<1>5. Finished(rows, r, status) =
        [given EXCEPT ![r].status = status, ![r].paused = FALSE,
                      ![r].fail = IF status = "error" THEN @ ELSE None,
                      ![r].node = @ /\ status = "error"]
  BY DEF Finished
<1> HIDE DEF given
<1> DEFINE fail == IF status = "error" THEN given[r].fail ELSE None
           node == given[r].node /\ status = "error"
           new == [given[r] EXCEPT !.status = status, !.paused = FALSE,
                                   !.fail = fail, !.node = node]
<1>6. Finished(rows, r, status) = [q \in Runs |-> IF q = r THEN new ELSE given[q]]
  BY <1>3, <1>5 DEF Rows
<1>7. given[r] \in RowType
  BY <1>3 DEF Rows
<1>8. fail \in Snaps \cup {None} /\ node \in BOOLEAN
  BY <1>7 DEF RowType
<1> HIDE DEF node
<1>9. /\ new \in RowType
      /\ new.status = status /\ ~new.paused /\ new.fail = fail
      /\ new.of = given[r].of /\ new.old = given[r].old /\ new.ttl = given[r].ttl
  BY <1>7, <1>8 DEF RowType
<1> HIDE DEF new
<1>10. QED
  BY <1>2, <1>3, <1>4, <1>6, <1>9 DEF Rows, Alike

\* _reconcile_if_orphaned
Stale(rows, r) == rows[r].status = "running" /\ rows[r].old

\* _reconcile_if_orphaned: an orphan waits again, or is over.
LEMMA ReconciledRows ==
    ASSUME NEW rows \in Rows, NEW r \in Runs, rows[r].of # r
    PROVE  LET new == Reconciled(rows, r) IN
           /\ new \in Rows
           /\ ~Stale(rows, r) => new = rows
           /\ Stale(rows, r) /\ rows[r].paused =>
                 /\ \A q \in Runs \ {r} : new[q] = rows[q]
                 /\ new[r].status = "awaiting" /\ ~new[r].old /\ new[r].paused
                 /\ new[r].of = rows[r].of /\ new[r].ttl = rows[r].ttl
                 /\ new[r].fail = rows[r].fail
           /\ Stale(rows, r) /\ ~rows[r].paused =>
                 /\ \A q \in Runs \ {r} :
                       /\ Alike(new[q], rows[q])
                       /\ new[q].fail = IF Gives(rows, r, q) THEN rows[r].fail
                                        ELSE rows[q].fail
                 /\ new[r].status = "error" /\ ~new[r].old /\ ~new[r].paused
                 /\ new[r].of = rows[r].of /\ new[r].ttl = rows[r].ttl
                 /\ new[r].fail = IF rows[r].of = None THEN rows[r].fail ELSE None
<1> DEFINE new == Reconciled(rows, r)
<1>0. rows[r] \in RowType
  BY DEF Rows
<1>1. CASE ~Stale(rows, r)
  <2>1. new = rows
    BY <1>1, <1>0 DEF Reconciled, Stale
  <2>2. QED
    BY <1>1, <2>1
<1>2. CASE Stale(rows, r) /\ rows[r].paused
  <2> DEFINE mine == [rows[r] EXCEPT !.status = "awaiting", !.old = FALSE]
  <2>1. new = [q \in Runs |-> IF q = r THEN mine ELSE rows[q]]
    BY <1>2 DEF Reconciled, Stale, Rows
  <2>2. /\ mine \in RowType /\ mine.status = "awaiting" /\ ~mine.old
        /\ mine.paused = rows[r].paused
        /\ mine.of = rows[r].of /\ mine.ttl = rows[r].ttl /\ mine.fail = rows[r].fail
    BY <1>0 DEF RowType
  <2> HIDE DEF mine, new
  <2>3. /\ new \in Rows /\ new[r] = mine
        /\ \A q \in Runs \ {r} : new[q] = rows[q]
    BY <2>1, <2>2 DEF Rows
  <2>4. QED
    BY <1>2, <2>2, <2>3 DEF new
<1>3. CASE Stale(rows, r) /\ ~rows[r].paused /\ rows[r].of = None
  <2> DEFINE mine == [rows[r] EXCEPT !.status = "error", !.old = FALSE]
  <2>1. new = [q \in Runs |-> IF q = r THEN mine ELSE rows[q]]
    BY <1>3 DEF Reconciled, Stale, Rows
  <2>2. /\ mine \in RowType /\ mine.status = "error" /\ ~mine.old
        /\ mine.paused = rows[r].paused
        /\ mine.of = rows[r].of /\ mine.ttl = rows[r].ttl /\ mine.fail = rows[r].fail
    BY <1>0 DEF RowType, Terminal
  <2> HIDE DEF mine, new
  <2>3. /\ new \in Rows /\ new[r] = mine
        /\ \A q \in Runs \ {r} : new[q] = rows[q]
    BY <2>1, <2>2 DEF Rows
  <2>4. \A q \in Runs : ~Gives(rows, r, q)
    BY <1>3, RetryAssumption DEF Gives, Runs
  <2>5. QED
    BY <1>3, <2>2, <2>3, <2>4 DEF new, Alike
<1>4. CASE Stale(rows, r) /\ ~rows[r].paused /\ rows[r].of # None
  <2> DEFINE given == GivenBack(rows, r)
             mine == [given[r] EXCEPT !.status = "error", !.old = FALSE,
                                      !.fail = None, !.node = FALSE]
  <2>1. given \in Rows
    BY GivenBackRows
  <2>2. \A q \in Runs :
           /\ Alike(given[q], rows[q])
           /\ given[q].fail = IF Gives(rows, r, q) THEN rows[r].fail ELSE rows[q].fail
    BY GivenBackRows
  <2>3. new = [given EXCEPT ![r].status = "error", ![r].old = FALSE,
                            ![r].fail = None, ![r].node = FALSE]
    BY <1>4 DEF Reconciled, Stale
  <2> HIDE DEF given, new
  <2>4. new = [q \in Runs |-> IF q = r THEN mine ELSE given[q]]
    BY <2>1, <2>3 DEF Rows
  <2>5. given[r] \in RowType
    BY <2>1 DEF Rows
  <2>6. /\ mine \in RowType /\ mine.status = "error" /\ ~mine.old
        /\ mine.paused = given[r].paused
        /\ mine.of = given[r].of /\ mine.ttl = given[r].ttl /\ mine.fail = None
    BY <2>5 DEF RowType, Terminal
  <2> HIDE DEF mine
  <2>7. /\ new \in Rows /\ new[r] = mine
        /\ \A q \in Runs \ {r} : new[q] = given[q]
    BY <2>1, <2>4, <2>6 DEF Rows
  <2>8. QED
    BY <1>4, <2>2, <2>6, <2>7 DEF Alike, new
<1>5. QED
  BY <1>1, <1>2, <1>3, <1>4

-----------------------------------------------------------------------------
(* The kinds of steps.                                                      *)

\* The other rows keep everything but, maybe, the snapshot of their failure.
Others(r) ==
    \A q \in Runs \ {r} :
        Alike(row'[q], row[q]) /\ row'[q].fail \in {row[q].fail, None}

\* A request goes on as it was, stops, or has just read a failure that is there.
Reading ==
    \A h \in Handlers :
        \/ prep'[h] \in {prep[h], Asleep}
        \/ /\ prep'[h].at = "checked" /\ prep'[h].run \in Runs
           /\ row'[prep'[h].run].status = "error"
           /\ row'[prep'[h].run].fail # None
           /\ prep'[h].snap = row'[prep'[h].run].fail
           /\ prep[h].at = "idle" /\ prep'[h].new = None

\* What a task about to end as a failure has recorded.
Recorded ==
    \A q \in Runs : pc[q] = "ending" /\ outcome[q] = "error" /\ q \notin unrecorded
        => row[q].fail = done[q]

\* No run is opened, ended or extended.
Quiet(r) ==
    /\ Others(r)
    /\ row'[r].of = row[r].of /\ row'[r].fail \in {row[r].fail, None}
    /\ Alike(row'[r], row[r]) \/ (Opened(r) /\ Opened(r)' /\ row'[r].ttl = row[r].ttl)
    /\ from' = from /\ done' = done /\ unrecorded \subseteq unrecorded'
    /\ Reading /\ Recorded'

\* One more node of r is done.
Extends(r) ==
    /\ Opened(r) /\ Opened(r)'
    /\ \A q \in Runs : row'[q].of = row[q].of /\ row'[q].fail = row[q].fail
                        /\ row'[q].ttl = row[q].ttl
    /\ \A q \in Runs \ {r} : Alike(row'[q], row[q])
    /\ from' = from /\ done[r] < Nodes /\ done' = [done EXCEPT ![r] = @ + 1]
    /\ unrecorded' = unrecorded /\ prep' = prep /\ Recorded'

\* A snapshot of what is done is written on r.
Saves(r) ==
    /\ Opened(r) /\ Others(r) /\ Alike(row'[r], row[r])
    /\ row'[r].fail \in {from[r], done[r]}
    /\ from' = from /\ done' = done /\ unrecorded' = unrecorded
    /\ Reading /\ Recorded'

\* Run r is over, and recorded, or nothing is left of it.
Closes(r) ==
    /\ Opened(r) /\ Others(r)
    /\ row'[r].status \in Terminal /\ row'[r].of = row[r].of
    /\ row'[r].status = "error" \/ ~row'[r].ttl
    /\ row'[r].fail \in {row[r].fail, None}
    /\ \/ r \in unrecorded'
       \/ row'[r].fail = done[r]
       \/ row'[r].status # "error" \/ row'[r].fail = None
    /\ from' = from /\ done' = done /\ unrecorded \subseteq unrecorded'
    /\ Reading /\ Recorded'

\* Run r is over, and gives its failure back.
Returns(r) ==
    /\ Opened(r)
    /\ \A q \in Runs \ {r} :
          /\ Alike(row'[q], row[q])
          /\ \/ row'[q].fail \in {row[q].fail, None}
             \/ Gives(row, r, q) /\ row'[q].fail = row[r].fail
    /\ row'[r].status \in Terminal /\ row'[r].of = row[r].of
    /\ row'[r].fail = None /\ (row'[r].status = "error" \/ ~row'[r].ttl)
    /\ from' = from /\ done' = done
    /\ r \in unrecorded' /\ unrecorded \subseteq unrecorded'
    /\ Reading /\ Recorded'

\* What the steps owe beside types, tasks and requests.
Shared == Lineage /\ OnePlace /\ Coverage /\ Fresh /\ DoneNotRedone

\* The nodes a run has done lie between what it replayed and where it is.
LEMMA ExecutedWhen ==
    \A r \in Runs : \A i : i \in Executed(r) <=> i \in 1..Nodes /\ from[r] < i /\ i <= done[r]
  BY DEF Executed

\* A way on is a run under way, or a failure that is kept.
LEMMA WaysAre ==
    \A r : r \in Ways <=>
              /\ r \in Runs
              /\ Opened(r) \/ (row[r].status = "error" /\ row[r].fail # None)
  BY DEF Ways, Opened

\* Nothing that is shared depends on what a quiet step changes.
LEMMA QuietStep ==
    ASSUME IInv, TypeOK', Tasks', Requests', NEW r \in Runs, Quiet(r)
    PROVE  Shared'
<1> USE DEF IInv
<1>1. /\ \A q \in Runs : /\ row'[q].of = row[q].of /\ row'[q].ttl = row[q].ttl
                         /\ row'[q].fail \in {row[q].fail, None}
                         /\ Opened(q)' <=> Opened(q)
                         /\ ~Opened(q) => Alike(row'[q], row[q])
  BY DEF Quiet, Others, Alike, Opened
<1>2. \A q \in Runs : Executed(q)' = Executed(q)
  BY DEF Quiet, Executed
<1>3. \A k : Covered(k) => Covered(k)'
  BY <1>2 DEF Covered
<1>4. \A k : Bound(k) => Bound(k)'
  BY <1>1 DEF Bound, Quiet
<1>5. Lineage'
  BY <1>1 DEF Lineage, Quiet, Alike, Opened
<1>6. Ways' \subseteq Ways
  BY <1>1, WaysAre DEF Ways, Opened, Alike
<1>7. OnePlace'
  BY <1>6 DEF OnePlace, Quiet, Reading, Active, Asleep
<1>8. Coverage'
  BY <1>1, <1>2, <1>3 DEF Coverage, Quiet, Reading, Asleep
<1>9. Fresh'
  <2>1. \A q \in Runs : Opened(q)' => Bound(from[q])'
    BY <1>1, <1>4 DEF Fresh, Quiet
  <2>2. \A q \in Ways' : row'[q].fail # None => Bound(row[q].fail)'
    <3>1. TAKE q \in Ways'
    <3>2. q \in Ways /\ q \in Runs
      BY <1>6 DEF Ways
    <3>3. QED
      BY <1>1, <1>4, <3>2 DEF Fresh
  <2>3. \A h \in Handlers : Active(h)' => Bound(prep[h].snap)'
    BY <1>4 DEF Fresh, Quiet, Reading, Active, Asleep
  <2>4. \A q \in Runs : Recoverable(q)' => Recoverable(q)
    BY <1>1 DEF Recoverable, Quiet, Reading, Asleep, Alike, Opened
  <2>5. ASSUME NEW h \in Handlers, prep'[h].at = "checked", Recoverable(prep[h].run)'
        PROVE  Bound(prep[h].snap)'
    <3>1. CASE prep'[h] = prep[h]
      BY <1>4, <2>4, <2>5, <3>1 DEF Fresh, Requests
    <3>2. CASE prep'[h] # prep[h]
      <4>1. /\ prep'[h].run \in Runs /\ row'[prep'[h].run].status = "error"
            /\ row'[prep'[h].run].fail # None
            /\ prep'[h].snap = row'[prep'[h].run].fail
        BY <2>5, <3>2 DEF Quiet, Reading, Asleep
      <4>2. prep'[h].run \in Ways'
        BY <4>1 DEF Ways
      <4>3. QED
        BY <2>2, <4>1, <4>2
    <3>3. QED
      BY <3>1, <3>2
  <2>6. QED
    BY <2>1, <2>2, <2>3, <2>5 DEF Fresh, Quiet, Recorded
<1>10. DoneNotRedone'
  BY <1>2 DEF DoneNotRedone, Quiet
<1>11. QED
  BY <1>5, <1>7, <1>8, <1>9, <1>10 DEF Shared

\* What lies within k nodes lies within more.
LEMMA BoundGrows ==
    ASSUME TypeOK, NEW k \in Snaps, NEW m \in Snaps, k <= m, Bound(k)
    PROVE  Bound(m)
  BY RetryAssumption DEF TypeOK, Bound, Snaps

\* Only the run under way is extended, and everything recorded lies behind it.
LEMMA ExtendsStep ==
    ASSUME IInv, TypeOK', Tasks', Requests', NEW r \in Runs, Extends(r)
    PROVE  Shared'
<1> USE DEF IInv
<1>1. \A q \in Runs : /\ row'[q].of = row[q].of /\ row'[q].ttl = row[q].ttl
                      /\ row'[q].fail = row[q].fail
                      /\ Opened(q)' <=> Opened(q)
                      /\ ~Opened(q) => Alike(row'[q], row[q])
  BY DEF Extends, Alike, Opened
<1>2. /\ \A q \in Runs : from'[q] = from[q]
      /\ \A q \in Runs \ {r} : done'[q] = done[q]
      /\ done'[r] = done[r] + 1 /\ done[r] < Nodes
      /\ \A q \in Runs : from[q] \in Nat /\ done[q] \in Nat
  BY DEF Extends, TypeOK, Snaps
<1>3. \A q \in Runs : \A i : i \in Executed(q) => i \in Executed(q)'
  BY <1>2 DEF Executed
<1>4. done[r] + 1 \in Executed(r)'
  BY <1>2, RetryAssumption DEF Executed, Coverage
<1>5. \A q \in Runs \ {r} : Executed(q)' = Executed(q)
  BY <1>2 DEF Executed
<1>6. \A k : Covered(k) => Covered(k)'
  BY <1>3 DEF Covered
<1>7. \A k : Bound(k) => Bound(k)'
  BY <1>1, <1>2 DEF Bound, Extends
<1>8. Lineage'
  BY <1>1, <1>2 DEF Lineage, Alike, Opened, Extends
<1>9. Ways' = Ways
  BY <1>1 DEF Ways, Opened, Alike
<1>10. OnePlace'
  BY <1>9 DEF OnePlace, Extends, Active
<1>11. Coverage'
  <2>1. \A q \in Runs : from'[q] <= done'[q]
    BY <1>2 DEF Coverage
  <2>2. ASSUME NEW q \in Runs, NEW i \in 1..done'[q]
        PROVE  \E s \in Runs : s <= q /\ i \in Executed(s)'
    <3>1. CASE i \in 1..done[q]
      BY <1>3, <3>1 DEF Coverage
    <3>2. CASE i \notin 1..done[q]
      <4>1. q = r /\ i = done[r] + 1
        BY <1>2, <2>2, <3>2
      <4>2. r <= r
        BY DEF Runs
      <4>3. QED
        BY <1>4, <4>1, <4>2
    <3>3. QED
      BY <3>1, <3>2
  <2>3. QED
    BY <1>1, <1>6, <2>1, <2>2 DEF Coverage, Extends
<1>12. Fresh'
  <2>1. \A q \in Runs : Opened(q)' => Bound(from[q])'
    BY <1>1, <1>7, <1>2 DEF Fresh, Extends
  <2>2. \A q \in Ways' : row'[q].fail # None => Bound(row[q].fail)'
    <3>1. TAKE q \in Ways'
    <3>2. q \in Ways /\ q \in Runs
      BY <1>9 DEF Ways
    <3>3. QED
      BY <1>1, <1>7, <3>2 DEF Fresh
  <2>3. \A h \in Handlers : Active(h)' => Bound(prep[h].snap)'
    BY <1>7 DEF Fresh, Extends, Active
  <2>4. \A q \in Runs : Recoverable(q)' => Recoverable(q)
    BY <1>1 DEF Recoverable, Extends, Alike, Opened
  <2>5. \A h \in Handlers :
           prep'[h].at = "checked" /\ Recoverable(prep[h].run)' => Bound(prep[h].snap)'
    BY <1>7, <2>4 DEF Fresh, Requests, Extends
  <2>6. QED
    BY <2>1, <2>2, <2>3, <2>5 DEF Fresh, Extends, Recorded
<1>13. DoneNotRedone'
  <2>1. SUFFICES ASSUME NEW q \in Runs, NEW s \in Runs, q < s, q \notin unrecorded,
                        NEW i, i \in Executed(q)', i \in Executed(s)'
                 PROVE  FALSE
    BY DEF DoneNotRedone, Extends
  <2>2. CASE s = r
    <3>1. ~Opened(q)
      BY <2>1, <2>2 DEF Lineage, Extends, Opened
    <3>2. from[q] # done[q]
      BY <2>1, <2>2, <1>5, ExecutedWhen, <1>2 DEF Runs
    <3>3. done[q] <= from[r]
      BY <2>1, <3>1, <3>2 DEF Fresh, Extends, Bound
    <3>4. QED
      BY <2>1, <2>2, <3>3, <1>2 DEF Executed, Runs
  <2>3. CASE q = r
    <3>1. from[s] = done[s]
      BY <2>1, <2>3 DEF Lineage, Extends
    <3>2. QED
      BY <2>1, <2>3, <3>1, <1>2 DEF Executed, Runs
  <2>4. CASE q # r /\ s # r
    BY <2>1, <2>4, <1>5 DEF DoneNotRedone
  <2>5. QED
    BY <2>2, <2>3, <2>4
<1>14. QED
  BY <1>8, <1>10, <1>11, <1>12, <1>13 DEF Shared

\* What is saved is where the run under way is, or where it began.
LEMMA SavesStep ==
    ASSUME IInv, TypeOK', Tasks', Requests', NEW r \in Runs, Saves(r)
    PROVE  Shared'
<1> USE DEF IInv
<1>1. /\ \A q \in Runs : Alike(row'[q], row[q]) /\ (Opened(q)' <=> Opened(q))
      /\ \A q \in Runs \ {r} : row'[q].fail \in {row[q].fail, None}
  BY DEF Saves, Others, Alike, Opened
<1>2. \A q \in Runs : Executed(q)' = Executed(q)
  BY DEF Saves, Executed
<1>3. \A k : Covered(k) => Covered(k)'
  BY <1>2 DEF Covered
<1>4. \A k : Bound(k) => Bound(k)'
  BY <1>1 DEF Bound, Saves
<1>5. Lineage'
  BY <1>1 DEF Lineage, Saves, Alike, Opened
<1>6. Ways' \subseteq Ways
  BY <1>1 DEF Ways, Opened, Alike, Saves
<1>7. OnePlace'
  BY <1>6 DEF OnePlace, Saves, Reading, Active, Asleep
<1>8. from[r] \in Snaps /\ done[r] \in Snaps /\ from[r] <= done[r]
  BY DEF TypeOK, Coverage
<1>9. Covered(row[r].fail)'
  <2>1. \A i \in 1..done[r] : \E s \in Runs : i \in Executed(s)
    BY DEF Coverage
  <2>2. Covered(from[r]) /\ Covered(done[r])
    BY <1>8, <2>1 DEF Covered, Snaps
  <2>3. QED
    BY <1>3, <2>2 DEF Saves
<1>10. Bound(row[r].fail)'
  <2>1. Bound(from[r])
    BY DEF Fresh, Saves
  <2>2. Bound(done[r])
    BY <1>8, <2>1, BoundGrows
  <2>3. QED
    BY <1>4, <2>1, <2>2 DEF Saves
<1>11. Coverage'
  <2>1. \A q \in Runs : row'[q].fail # None => Covered(row[q].fail)'
    BY <1>1, <1>3, <1>9 DEF Coverage
  <2>2. \A h \in Handlers : prep'[h].at # "idle" => Covered(prep[h].snap)'
    BY <1>3, <2>1 DEF Coverage, Saves, Reading, Asleep
  <2>3. QED
    BY <1>2, <2>1, <2>2 DEF Coverage, Saves
<1>12. Fresh'
  <2>1. \A q \in Runs : Opened(q)' => Bound(from[q])'
    BY <1>1, <1>4 DEF Fresh, Saves
  <2>2. \A q \in Ways' : row'[q].fail # None => Bound(row[q].fail)'
    <3>1. TAKE q \in Ways'
    <3>2. q \in Ways /\ q \in Runs
      BY <1>6 DEF Ways
    <3>3. QED
      BY <1>1, <1>4, <1>10, <3>2 DEF Fresh
  <2>3. \A h \in Handlers : Active(h)' => Bound(prep[h].snap)'
    BY <1>4 DEF Fresh, Saves, Reading, Active, Asleep
  <2>4. \A q \in Runs : Recoverable(q)' => Recoverable(q)
    BY <1>1 DEF Recoverable, Saves, Reading, Asleep, Alike, Opened
  <2>5. ASSUME NEW h \in Handlers, prep'[h].at = "checked", Recoverable(prep[h].run)'
        PROVE  Bound(prep[h].snap)'
    <3>1. CASE prep'[h] = prep[h]
      BY <1>4, <2>4, <2>5, <3>1 DEF Fresh, Requests
    <3>2. CASE prep'[h] # prep[h]
      <4>1. /\ prep'[h].run \in Runs /\ row'[prep'[h].run].status = "error"
            /\ row'[prep'[h].run].fail # None
            /\ prep'[h].snap = row'[prep'[h].run].fail
        BY <2>5, <3>2 DEF Saves, Reading, Asleep
      <4>2. prep'[h].run \in Ways'
        BY <4>1 DEF Ways
      <4>3. QED
        BY <2>2, <4>1, <4>2
    <3>3. QED
      BY <3>1, <3>2
  <2>6. QED
    BY <2>1, <2>2, <2>3, <2>5 DEF Fresh, Saves, Recorded
<1>13. DoneNotRedone'
  BY <1>2 DEF DoneNotRedone, Saves
<1>14. QED
  BY <1>5, <1>7, <1>11, <1>12, <1>13 DEF Shared

\* A run that is over leaves its own snapshot, or none, as the only way on.
LEMMA ClosesStep ==
    ASSUME IInv, TypeOK', Tasks', Requests', NEW r \in Runs, Closes(r)
    PROVE  Shared'
<1> USE DEF IInv
<1>1. /\ \A q \in Runs \ {r} : Alike(row'[q], row[q]) /\ (Opened(q)' <=> Opened(q))
      /\ \A q \in Runs : row'[q].fail \in {row[q].fail, None} /\ row'[q].of = row[q].of
      /\ ~Opened(r)' /\ row'[r].status # "absent"
  BY DEF Closes, Others, Alike, Opened, Terminal
<1>2. \A q \in Runs : Executed(q)' = Executed(q)
  BY DEF Closes, Executed
<1>3. \A k : Covered(k) => Covered(k)'
  BY <1>2 DEF Covered
<1>4. \A q \in Ways : q = r
  BY DEF OnePlace, Ways, Closes, Opened
<1>5. \A q \in Ways' : q = r
  <2>1. TAKE q \in Ways'
  <2>2. CASE q # r
    BY <1>1, <1>4, <2>2 DEF Ways, Opened, Alike
  <2>3. QED
    BY <2>2
<1>6. \A q \in Runs : ~Opened(q)'
  BY <1>1, <1>4 DEF Ways, Opened
<1>7. \A h \in Handlers : prep[h].at # "consumed"
  BY <1>4 DEF OnePlace, Ways, Closes, Opened
<1>8. \A h \in Handlers : ~Active(h)'
  BY <1>6, <1>7 DEF Requests, Opened, Active, Closes, Reading, Asleep
<1>9. Lineage'
  <2>1. \A q \in Runs : row[q].of # r
    BY DEF Lineage, Closes, Opened
  <2>2. QED
    BY <1>1, <1>6, <2>1 DEF Lineage, Closes, Alike, Opened
<1>10. OnePlace'
  BY <1>5, <1>8 DEF OnePlace, Active
<1>11. Coverage'
  BY <1>1, <1>2, <1>3 DEF Coverage, Closes, Reading, Asleep
<1>12. \A q \in Ways' : row'[q].fail # None => Bound(row[q].fail)'
  <2>1. SUFFICES ASSUME r \in Ways', row'[r].fail # None
                 PROVE  Bound(row[r].fail)'
    BY <1>5
  <2>2. row'[r].fail = row[r].fail
    BY <1>1, <2>1
  <2>3. Bound(row[r].fail)
    BY <2>1, <2>2, WaysAre DEF Fresh, Closes
  <2>4. row'[r].status = "error"
    BY <1>6, <2>1 DEF Ways, Opened
  <2>5. row[r].fail \in Snaps
    BY <2>1, <2>2 DEF TypeOK, RowType
  <2>6. r \in unrecorded' \/ done[r] <= row[r].fail
    BY <2>1, <2>2, <2>4, <2>5, RetryAssumption DEF Closes, Snaps
  <2>7. ASSUME NEW q \in Runs, q \notin unrecorded', from[q] # done[q]
        PROVE  done[q] <= row[r].fail
    <3>1. CASE q = r
      BY <2>6, <2>7, <3>1
    <3>2. CASE q # r
      BY <1>1, <1>6, <2>3, <2>7, <3>2 DEF Bound, Closes
    <3>3. QED
      BY <3>1, <3>2
  <2>8. QED
    BY <2>2, <2>7 DEF Bound, Closes
<1>13. Fresh'
  <2>1. ASSUME NEW h \in Handlers, prep'[h].at = "checked", Recoverable(prep[h].run)'
        PROVE  Bound(prep[h].snap)'
    <3>1. /\ prep'[h].run \in Runs /\ row'[prep'[h].run].status = "error"
          /\ row'[prep'[h].run].fail # None
      <4>1. \A g \in Handlers : prep'[g].at # "consumed"
        BY <1>8 DEF Active
      <4>2. QED
        BY <1>6, <2>1, <4>1 DEF Recoverable, Requests
    <3>2. prep'[h].run = r
      BY <1>5, <3>1 DEF Ways
    <3>3. prep'[h] # prep[h]
      BY <2>1, <3>2 DEF Requests, Closes, Opened
    <3>4. prep'[h].snap = row'[r].fail
      BY <2>1, <3>2, <3>3 DEF Closes, Reading, Asleep
    <3>5. r \in Ways'
      BY <3>1, <3>2 DEF Ways
    <3>6. QED
      BY <1>12, <3>1, <3>2, <3>4, <3>5
  <2>2. QED
    BY <1>6, <1>8, <1>12, <2>1 DEF Fresh, Closes, Recorded
<1>14. DoneNotRedone'
  BY <1>2 DEF DoneNotRedone, Closes
<1>15. QED
  BY <1>9, <1>10, <1>11, <1>13, <1>14 DEF Shared

\* A run that gives its failure back leaves its original as the only way on.
LEMMA ReturnsStep ==
    ASSUME IInv, TypeOK', Tasks', Requests', NEW r \in Runs, Returns(r)
    PROVE  Shared'
<1> USE DEF IInv
<1>1. /\ \A q \in Runs \ {r} : Alike(row'[q], row[q]) /\ (Opened(q)' <=> Opened(q))
      /\ \A q \in Runs : row'[q].of = row[q].of
      /\ ~Opened(r)' /\ row'[r].status # "absent"
  BY DEF Returns, Alike, Opened, Terminal
<1>2. \A q \in Runs : Executed(q)' = Executed(q)
  BY DEF Returns, Executed
<1>3. \A k : Covered(k) => Covered(k)'
  BY <1>2 DEF Covered
<1>4. \A q \in Ways : q = r
  BY DEF OnePlace, Ways, Returns, Opened
<1>5. r \in Ways
  BY DEF Ways, Returns, Opened
<1>6. \A q \in Ways' :
          /\ q \in Runs /\ q # r /\ q = row[r].of
          /\ row'[q].status = "error" /\ row'[q].fail = row[r].fail /\ row[r].fail # None
  <2>1. TAKE q \in Ways'
  <2>2. q \in Runs /\ q # r
    BY <1>1 DEF Ways, Returns, Opened
  <2>3. q \notin Ways
    BY <1>4, <2>2
  <2>4. Alike(row'[q], row[q]) /\ row'[q].status = "error" /\ row'[q].fail # None
    BY <1>1, <2>2, <2>3 DEF Ways, Opened, Alike
  <2>5. Gives(row, r, q) /\ row'[q].fail = row[r].fail
    BY <2>2, <2>3, <2>4 DEF Returns, Ways, Alike
  <2>6. QED
    BY <2>2, <2>4, <2>5 DEF Gives
<1>7. \A q \in Runs : ~Opened(q)'
  BY <1>1, <1>4 DEF Ways, Opened
<1>8. \A h \in Handlers : prep[h].at # "consumed"
  BY <1>5 DEF OnePlace
<1>9. \A h \in Handlers : ~Active(h)'
  BY <1>7, <1>8 DEF Requests, Opened, Active, Returns, Reading, Asleep
<1>10. Lineage'
  <2>1. \A q \in Runs : row[q].of # r
    BY DEF Lineage, Returns, Opened
  <2>2. \A q \in Runs : row'[q].status = "absent" => row'[q].fail = None
    BY <1>1 DEF Lineage, Returns, Alike, Gives
  <2>3. QED
    BY <1>1, <1>7, <2>1, <2>2 DEF Lineage, Returns, Alike, Opened
<1>11. OnePlace'
  BY <1>6, <1>9 DEF OnePlace, Active
<1>12. Coverage'
  <2>1. \A q \in Runs : row'[q].fail # None => Covered(row[q].fail)'
    BY <1>3 DEF Coverage, Returns, Gives
  <2>2. \A h \in Handlers : prep'[h].at # "idle" => Covered(prep[h].snap)'
    BY <1>3, <2>1 DEF Coverage, Returns, Reading, Asleep
  <2>3. QED
    BY <1>2, <2>1, <2>2 DEF Coverage, Returns
<1>13. \A k : Bound(k) => Bound(k)'
  BY <1>1, <1>7 DEF Bound, Returns
<1>14. \A q \in Ways' : row'[q].fail # None => Bound(row[q].fail)'
  BY <1>5, <1>6, <1>13 DEF Fresh
<1>15. Fresh'
  <2>1. ASSUME NEW h \in Handlers, prep'[h].at = "checked", Recoverable(prep[h].run)'
        PROVE  Bound(prep[h].snap)'
    <3>1. /\ prep'[h].run \in Runs /\ row'[prep'[h].run].status = "error"
          /\ row'[prep'[h].run].fail # None
      <4>1. \A g \in Handlers : prep'[g].at # "consumed"
        BY <1>9 DEF Active
      <4>2. QED
        BY <1>7, <2>1, <4>1 DEF Recoverable, Requests
    <3>2. prep'[h].run \in Ways' /\ prep'[h].run = row[r].of
      BY <1>6, <3>1 DEF Ways
    <3>3. CASE prep'[h] = prep[h]
      <4>1. Recoverable(prep[h].run)
        BY <2>1, <3>1, <3>2, <3>3 DEF Recoverable, Requests, Returns
      <4>2. QED
        BY <1>13, <2>1, <3>3, <4>1 DEF Fresh
    <3>4. CASE prep'[h] # prep[h]
      <4>1. prep'[h].snap = row'[prep'[h].run].fail
        BY <2>1, <3>4 DEF Returns, Reading, Asleep
      <4>2. QED
        BY <1>14, <3>1, <3>2, <4>1
    <3>5. QED
      BY <3>3, <3>4
  <2>2. QED
    BY <1>7, <1>9, <1>14, <2>1 DEF Fresh, Returns, Recorded
<1>16. DoneNotRedone'
  BY <1>2 DEF DoneNotRedone, Returns
<1>17. QED
  BY <1>10, <1>11, <1>12, <1>15, <1>16 DEF Shared

-----------------------------------------------------------------------------
(* One lemma per action.                                                    *)

\* A step on r, which no request has just opened.
LEMMA RequestsKept ==
    ASSUME IInv, NEW r \in Runs, prep' = prep,
           \A h \in Handlers : prep[h].at = "started" => prep[h].new # r,
           \A q \in Runs \ {r} : Alike(row'[q], row[q]) /\ pc'[q] = pc[q]
                                  /\ from'[q] = from[q] /\ done'[q] = done[q],
           row[r].status = "error" => row'[r].status = "error"
    PROVE  Requests'
  BY DEF IInv, Requests, Alike

\* The run of a task, or one that waits, has not just been opened.
LEMMA NotNew ==
    ASSUME IInv, NEW r \in Runs, pc[r] # "none" \/ row[r].status # "running" \/ row[r].paused
    PROVE  \A h \in Handlers : prep[h].at = "started" => prep[h].new # r
  BY DEF IInv, Requests

\* Executes: one more node.
LEMMA ExecutesKeeps ==
    ASSUME IInv, NEW r \in Runs, Executes(r)
    PROVE  IInv'
<1>1. TypeOK'
  BY RetryAssumption DEF IInv, TypeOK, Executes, Snaps
<1>2. /\ row' = row /\ pc' = pc /\ outcome' = outcome /\ prep' = prep
      /\ pc[r] = "live" /\ done[r] < Nodes
      /\ \A q \in Runs \ {r} : done'[q] = done[q]
  BY DEF Executes, IInv, TypeOK
<1>3. Tasks'
  BY <1>2 DEF IInv, Tasks
<1>4. Requests'
  BY <1>2, NotNew, RequestsKept DEF Alike, Executes
<1>5. Recorded'
  BY <1>2 DEF IInv, Fresh, Recorded, Executes
<1>6. Extends(r)
  BY <1>2, <1>5 DEF Extends, Executes, IInv, Tasks, Alike, Opened
<1>7. QED
  BY <1>1, <1>3, <1>4, <1>6, ExtendsStep DEF IInv, Shared

\* NodeFails: the snapshot is written on the run, or the run goes unrecorded.
LEMMA NodeFailsKeeps ==
    ASSUME IInv, NEW r \in Runs, NodeFails(r)
    PROVE  IInv'
<1>0. done[r] \in Snaps /\ row \in Rows
  BY DEF IInv, TypeOK, Rows
<1>1. /\ pc' = [pc EXCEPT ![r] = "ending"] /\ outcome' = [outcome EXCEPT ![r] = "error"]
      /\ from' = from /\ done' = done /\ prep' = prep /\ pc[r] = "live"
  BY DEF NodeFails, EndsAs
<1>2. /\ \A q \in Runs \ {r} : pc'[q] = pc[q] /\ outcome'[q] = outcome[q]
      /\ pc'[r] = "ending" /\ outcome'[r] = "error"
  BY <1>1 DEF IInv, TypeOK
<1>3. CASE row' = WithFailure(row, r, done[r]) /\ unrecorded' = unrecorded
  <2>1. /\ row' \in Rows
        /\ \A q \in Runs :
              /\ Alike(row'[q], row[q])
              /\ row'[q].fail = IF q = r THEN done[r]
                                ELSE IF row[q].ttl THEN None ELSE row[q].fail
    BY <1>0, <1>3, WithFailureRows
  <2>2. TypeOK'
    BY <1>1, <1>3, <2>1 DEF IInv, TypeOK, Rows, Terminal
  <2>3. Tasks'
    BY <1>1, <1>2, <2>1 DEF IInv, Tasks, Alike
  <2>4. Requests'
    BY <1>1, <1>2, <2>1, NotNew, RequestsKept DEF Alike
  <2>5. Recorded'
    <3>1. \A q \in Runs : pc[q] # "none" => ~row[q].ttl
      BY DEF IInv, Tasks, Lineage
    <3>2. QED
      BY <1>1, <1>2, <1>3, <2>1, <3>1 DEF IInv, Fresh, Recorded
  <2>6. Saves(r)
    BY <1>1, <1>3, <2>1, <2>5 DEF Saves, Others, Opened, IInv, Tasks, Reading
  <2>7. QED
    BY <2>2, <2>3, <2>4, <2>6, SavesStep DEF IInv, Shared
<1>4. CASE row' = row /\ unrecorded' = unrecorded \cup {r}
  <2>1. TypeOK'
    BY <1>1, <1>4 DEF IInv, TypeOK, Terminal
  <2>2. Tasks'
    BY <1>1, <1>2, <1>4 DEF IInv, Tasks
  <2>3. Requests'
    BY <1>1, <1>2, <1>4, NotNew, RequestsKept DEF Alike
  <2>4. Recorded'
    BY <1>1, <1>2, <1>4 DEF IInv, Fresh, Recorded
  <2>5. Quiet(r)
    BY <1>1, <1>4, <2>4 DEF Quiet, Others, Reading, Alike
  <2>6. QED
    BY <2>1, <2>2, <2>3, <2>5, QuietStep DEF IInv, Shared
<1>5. QED
  BY <1>3, <1>4 DEF NodeFails

\* Pauses: the run waits, with the failure it carries.
LEMMA PausesKeeps ==
    ASSUME IInv, NEW r \in Runs, Pauses(r)
    PROVE  IInv'
<1> DEFINE mine == [row[r] EXCEPT !.status = "awaiting", !.paused = TRUE,
                                  !.old = FALSE, !.ttl = FALSE]
<1>1. row' = [q \in Runs |-> IF q = r THEN mine ELSE row[q]]
  BY DEF Pauses, IInv, TypeOK
<1>2. row[r] \in RowType
  BY DEF IInv, TypeOK
<1>3. /\ mine \in RowType /\ mine.status = "awaiting" /\ mine.paused /\ ~mine.old /\ ~mine.ttl
      /\ mine.of = row[r].of /\ mine.fail = row[r].fail
  BY <1>2 DEF RowType
<1> HIDE DEF mine
<1>4. /\ row' \in Rows /\ row'[r] = mine /\ \A q \in Runs \ {r} : row'[q] = row[q]
  BY <1>1, <1>3 DEF IInv, TypeOK, Rows
<1>5. /\ pc' = [pc EXCEPT ![r] = "none"] /\ outcome' = outcome /\ pc[r] = "live"
      /\ from' = from /\ done' = done /\ prep' = prep /\ unrecorded' = unrecorded
      /\ done[r] + 1 \in Approvals
  BY DEF Pauses
<1>6. pc'[r] = "none" /\ \A q \in Runs \ {r} : pc'[q] = pc[q]
  BY <1>5 DEF IInv, TypeOK
<1>7. TypeOK'
  BY <1>4, <1>5 DEF IInv, TypeOK, Rows
<1>8. Tasks'
  <2>1. done[r] < Nodes
    BY <1>5, RetryAssumption DEF IInv, TypeOK, Snaps
  <2>2. QED
    BY <1>3, <1>4, <1>5, <1>6, <2>1 DEF IInv, Tasks
<1>9. Requests'
  BY <1>3, <1>4, <1>5, <1>6, NotNew, RequestsKept DEF Alike, IInv, Tasks
<1>10. Recorded'
  BY <1>4, <1>5, <1>6 DEF IInv, Fresh, Recorded
<1>11. Quiet(r)
  <2>1. Opened(r) /\ ~row[r].ttl
    BY <1>5 DEF IInv, Tasks, Lineage, Opened
  <2>2. Opened(r)'
    BY <1>3, <1>4 DEF Opened
  <2>3. Others(r)
    BY <1>4 DEF Others, Alike
  <2>4. QED
    BY <1>3, <1>4, <1>5, <1>10, <2>1, <2>2, <2>3 DEF Quiet, Reading, IInv, TypeOK, RowType
<1>12. QED
  BY <1>7, <1>8, <1>9, <1>11, QuietStep DEF IInv, Shared

\* A task that stops or changes its outcome, and touches no row.
LEMMA TaskKeeps ==
    ASSUME IInv, NEW r \in Runs, pc[r] # "none", row' = row, from' = from, done' = done,
           prep' = prep,
           NEW at \in {"none", "ending"}, pc' = [pc EXCEPT ![r] = at],
           NEW status \in Terminal, outcome' = [outcome EXCEPT ![r] = status],
           unrecorded' = unrecorded
             \/ unrecorded' = unrecorded \cup {r},
           at = "ending" => pc[r] \in {"live", "ending"},
           at = "ending" /\ status = "success" => done[r] = Nodes,
           at = "ending" /\ status = "error" => r \in unrecorded'
    PROVE  IInv'
<1>1. /\ pc'[r] = at /\ outcome'[r] = status
      /\ \A q \in Runs \ {r} : pc'[q] = pc[q] /\ outcome'[q] = outcome[q]
  BY DEF IInv, TypeOK
<1>2. TypeOK'
  BY DEF IInv, TypeOK
<1>3. Tasks'
  BY <1>1 DEF IInv, Tasks
<1>4. Requests'
  BY <1>1, NotNew, RequestsKept DEF Alike
<1>5. Recorded'
  BY <1>1 DEF IInv, Fresh, Recorded
<1>6. Quiet(r)
  BY <1>5 DEF Quiet, Others, Reading, Alike
<1>7. QED
  BY <1>2, <1>3, <1>4, <1>6, QuietStep DEF IInv, Shared

\* PauseFails, Completes, Stopped and Dies.
LEMMA TasksKeep ==
    ASSUME IInv, NEW r \in Runs,
           PauseFails(r) \/ Completes(r) \/ Stopped(r) \/ Dies(r)
    PROVE  IInv'
<1>1. CASE PauseFails(r)
  BY <1>1, TaskKeeps DEF PauseFails, EndsAs, Terminal
<1>2. CASE Completes(r)
  BY <1>2, TaskKeeps DEF Completes, EndsAs, Terminal
<1>3. CASE Stopped(r)
  BY <1>3, TaskKeeps DEF Stopped, EndsAs, Terminal
<1>4. CASE Dies(r)
  BY <1>4, TaskKeeps DEF Dies, Leaves, Terminal
<1>5. QED
  BY <1>1, <1>2, <1>3, <1>4

\* Ends: finish_run, with what it gives back.
LEMMA EndsKeeps ==
    ASSUME IInv, NEW r \in Runs, Ends(r)
    PROVE  IInv'
<1> DEFINE status == outcome[r]
<1>1. /\ row \in Rows /\ status \in Terminal /\ row[r].status = "running" /\ ~row[r].old
      /\ ~row[r].ttl /\ pc[r] = "ending" /\ ~row[r].paused
  BY DEF IInv, TypeOK, Rows, Tasks, Lineage, Ends
<1>2. /\ row' = Finished(row, r, status)
      /\ pc' = [pc EXCEPT ![r] = "none"] /\ outcome' = [outcome EXCEPT ![r] = "success"]
      /\ from' = from /\ done' = done /\ prep' = prep
      /\ unrecorded' = IF status = "cancelled" THEN unrecorded \cup {r} ELSE unrecorded
  BY DEF Ends, Leaves
<1>3. /\ pc'[r] = "none"
      /\ \A q \in Runs \ {r} : pc'[q] = pc[q] /\ outcome'[q] = outcome[q]
  BY <1>2 DEF IInv, TypeOK
<1> HIDE DEF status
<1>4. /\ row' \in Rows
      /\ \A q \in Runs \ {r} :
            /\ Alike(row'[q], row[q])
            /\ row'[q].fail = IF status = "cancelled" /\ Gives(row, r, q) THEN row[r].fail
                              ELSE row[q].fail
      /\ row'[r].status = status /\ ~row'[r].paused
      /\ row'[r].of = row[r].of /\ row'[r].old = row[r].old /\ row'[r].ttl = row[r].ttl
      /\ row'[r].fail = IF status = "error" THEN row[r].fail ELSE None
  BY <1>1, <1>2, FinishedRows
<1>5. TypeOK'
  BY <1>2, <1>4 DEF IInv, TypeOK, Rows, Terminal
<1>6. Tasks'
  BY <1>1, <1>2, <1>3, <1>4 DEF IInv, Tasks, Alike, status, Terminal
<1>7. Requests'
  BY <1>1, <1>2, <1>3, <1>4, NotNew, RequestsKept
<1>8. Recorded'
  <2>1. ASSUME NEW q \in Runs, pc'[q] = "ending", outcome'[q] = "error", q \notin unrecorded'
        PROVE  row'[q].fail = done'[q]
    <3>1. q # r /\ pc[q] = "ending" /\ outcome[q] = "error" /\ q \notin unrecorded
      BY <1>2, <1>3, <2>1
    <3>2. ~Gives(row, r, q)
      BY <3>1 DEF Gives, IInv, Tasks
    <3>3. QED
      BY <1>2, <1>4, <3>1, <3>2 DEF IInv, Fresh
  <2>2. QED
    BY <2>1 DEF Recorded
<1>9. CASE status = "cancelled"
  <2>1. Returns(r)
    BY <1>1, <1>2, <1>4, <1>8, <1>9 DEF Returns, Opened, Terminal, Reading
  <2>2. QED
    BY <1>5, <1>6, <1>7, <2>1, ReturnsStep DEF IInv, Shared
<1>10. CASE status # "cancelled"
  <2>1. r \in unrecorded' \/ row'[r].status # "error" \/ row'[r].fail = done[r]
    BY <1>1, <1>2, <1>4, <1>10 DEF IInv, Fresh, status
  <2>2. Closes(r)
    BY <1>1, <1>2, <1>4, <1>8, <1>10, <2>1 DEF Closes, Others, Opened, Terminal, Reading
  <2>3. QED
    BY <1>5, <1>6, <1>7, <2>2, ClosesStep DEF IInv, Shared
<1>11. QED
  BY <1>9, <1>10

\* A step that changes the status of one row, and neither its lineage nor its failure.
Moved(r, status, paused) ==
    row' = [row EXCEPT ![r].status = status, ![r].paused = paused, ![r].old = FALSE]

\* The other rows, and the other columns of r, are those before.
LEMMA StatusRows ==
    ASSUME IInv, NEW r \in Runs, NEW status \in {"absent", "running", "awaiting"} \cup Terminal,
           NEW paused \in BOOLEAN, Moved(r, status, paused)
    PROVE  /\ row' \in Rows
           /\ \A q \in Runs \ {r} : row'[q] = row[q]
           /\ row'[r].status = status /\ row'[r].paused = paused /\ ~row'[r].old
           /\ row'[r].of = row[r].of /\ row'[r].fail = row[r].fail
           /\ row'[r].ttl = row[r].ttl
<1> DEFINE mine == [row[r] EXCEPT !.status = status, !.paused = paused, !.old = FALSE]
<1>1. row' = [q \in Runs |-> IF q = r THEN mine ELSE row[q]]
  BY DEF IInv, TypeOK, Moved
<1>2. row[r] \in RowType
  BY DEF IInv, TypeOK
<1>3. /\ mine \in RowType /\ mine.status = status /\ mine.paused = paused /\ ~mine.old
      /\ mine.of = row[r].of /\ mine.fail = row[r].fail /\ mine.ttl = row[r].ttl
  BY <1>2 DEF RowType
<1> HIDE DEF mine
<1>4. row' \in Rows /\ row'[r] = mine /\ \A q \in Runs \ {r} : row'[q] = row[q]
  BY <1>1, <1>3 DEF IInv, TypeOK, Rows
<1>5. QED
  BY <1>3, <1>4

\* A run that stays open is claimed or goes back to its decision.
LEMMA MovesKeep ==
    ASSUME IInv, NEW r \in Runs, Opened(r), row[r].paused,
           NEW status \in {"running", "awaiting"}, Moved(r, status, TRUE),
           NEW at \in {"none", "claimed"}, pc' = [pc EXCEPT ![r] = at],
           at = "claimed" => status = "running",
           outcome' = outcome, from' = from, done' = done, prep' = prep,
           unrecorded' = unrecorded
    PROVE  IInv'
<1>1. /\ row' \in Rows
      /\ \A q \in Runs \ {r} : row'[q] = row[q]
      /\ row'[r].status = status /\ row'[r].paused /\ ~row'[r].old
      /\ row'[r].of = row[r].of /\ row'[r].fail = row[r].fail
      /\ row'[r].ttl = row[r].ttl
  BY StatusRows
<1>2. pc'[r] = at /\ \A q \in Runs \ {r} : pc'[q] = pc[q]
  BY DEF IInv, TypeOK
<1>3. TypeOK'
  BY <1>1 DEF IInv, TypeOK, Rows
<1>4. Tasks'
  <2>1. at # "claimed" => at = "none"
    OBVIOUS
  <2>2. ASSUME NEW q \in Runs \ {r}
        PROVE  row'[q] = row[q] /\ pc'[q] = pc[q] /\ outcome'[q] = outcome[q]
                 /\ done'[q] = done[q]
    BY <1>1, <1>2
  <2>3. done'[r] < Nodes
    BY DEF IInv, Tasks
  <2>4. QED
    BY <1>1, <1>2, <2>1, <2>2, <2>3 DEF IInv, Tasks
<1>5. Requests'
  BY <1>1, <1>2, NotNew, RequestsKept DEF Alike, Opened
<1>6. Recorded'
  BY <1>1, <1>2 DEF IInv, Fresh, Recorded
<1>7. Quiet(r)
  BY <1>1, <1>6 DEF Quiet, Others, Reading, Alike, Opened
<1>8. QED
  BY <1>3, <1>4, <1>5, <1>7, QuietStep DEF IInv, Shared

\* To leave paused_state of a paused run is to write it again.
LEMMA SameRow ==
    ASSUME TypeOK, NEW r \in Runs, row[r].paused, NEW status,
           row' = [row EXCEPT ![r].status = status, ![r].old = FALSE]
    PROVE  Moved(r, status, TRUE)
<1> DEFINE one == [row[r] EXCEPT !.status = status, !.old = FALSE]
           two == [row[r] EXCEPT !.status = status, !.paused = TRUE, !.old = FALSE]
<1>1. row' = [q \in Runs |-> IF q = r THEN one ELSE row[q]]
  BY DEF TypeOK
<1>2. row[r] \in RowType
  BY DEF TypeOK
<1>3. one = two
  BY <1>2 DEF RowType
<1>4. [row EXCEPT ![r].status = status, ![r].paused = TRUE, ![r].old = FALSE]
         = [q \in Runs |-> IF q = r THEN two ELSE row[q]]
  BY DEF TypeOK
<1> HIDE DEF one, two
<1>5. QED
  BY <1>1, <1>3, <1>4 DEF Moved

\* Claims: the decision is taken from its row.
LEMMA ClaimsKeeps ==
    ASSUME IInv, NEW r \in Runs, Claims(r)
    PROVE  IInv'
<1>1. Opened(r) /\ row[r].paused
  BY DEF IInv, Tasks, Opened, Claims
<1>2. Moved(r, "running", TRUE)
  BY <1>1, SameRow DEF IInv, Claims
<1>3. QED
  BY <1>1, <1>2, MovesKeep DEF Claims

\* A task that leaves its run as it is.
LEMMA TaskLeaves ==
    ASSUME IInv, NEW r \in Runs, pc[r] # "none", pc' = [pc EXCEPT ![r] = "none"],
           row' = row, outcome' = outcome, from' = from, done' = done, prep' = prep,
           unrecorded' = unrecorded
    PROVE  IInv'
<1>1. outcome[r] \in Terminal /\ outcome' = [outcome EXCEPT ![r] = outcome[r]]
  BY DEF IInv, TypeOK
<1>2. QED
  BY <1>1, TaskKeeps

\* Releases: the decision goes back to its row, if it is still there.
LEMMA ReleasesKeeps ==
    ASSUME IInv, NEW r \in Runs, Releases(r)
    PROVE  IInv'
<1>1. pc[r] # "none"
  BY DEF Releases
<1>2. CASE Unanswered(r)
  <2>1. Opened(r) /\ row[r].paused
    BY <1>2 DEF Opened, Unanswered
  <2>2. Moved(r, "awaiting", TRUE)
    BY <1>2, <2>1, SameRow DEF IInv, Releases
  <2>3. QED
    BY <2>1, <2>2, MovesKeep DEF Releases
<1>3. CASE ~Unanswered(r)
  BY <1>1, <1>3, TaskLeaves DEF Releases
<1>4. QED
  BY <1>2, <1>3

\* TakesAnswer: the run goes on past its decision.
LEMMA TakesAnswerKeeps ==
    ASSUME IInv, NEW r \in Runs, TakesAnswer(r)
    PROVE  IInv'
<1>0. pc[r] = "claimed" /\ row[r].status = "running" /\ row[r].paused /\ ~row[r].old
      /\ done[r] < Nodes
  BY DEF IInv, Tasks, TakesAnswer
<1>1. Unanswered(r)
  BY <1>0 DEF Unanswered
<1>2. /\ row' = [row EXCEPT ![r].paused = FALSE] /\ done' = [done EXCEPT ![r] = @ + 1]
      /\ pc' = [pc EXCEPT ![r] = "live"]
      /\ outcome' = outcome /\ from' = from /\ prep' = prep /\ unrecorded' = unrecorded
  BY <1>1 DEF TakesAnswer
<1> DEFINE mine == [row[r] EXCEPT !.paused = FALSE]
<1>3. row[r] \in RowType
  BY DEF IInv, TypeOK
<1>4. /\ mine \in RowType /\ ~mine.paused /\ mine.status = row[r].status
      /\ mine.of = row[r].of /\ mine.fail = row[r].fail /\ mine.ttl = row[r].ttl
      /\ mine.old = row[r].old
  BY <1>3 DEF RowType
<1> HIDE DEF mine
<1>5. /\ row' \in Rows /\ row'[r] = mine /\ \A q \in Runs \ {r} : row'[q] = row[q]
  BY <1>2, <1>4 DEF IInv, TypeOK, Rows, mine
<1>6. /\ pc'[r] = "live" /\ \A q \in Runs \ {r} : pc'[q] = pc[q] /\ done'[q] = done[q]
      /\ done' \in [Runs -> Snaps]
  <2>1. pc'[r] = "live" /\ \A q \in Runs \ {r} : pc'[q] = pc[q]
    BY <1>2 DEF IInv, TypeOK
  <2>2. done \in [Runs -> Snaps] /\ done[r] + 1 \in Snaps
    BY <1>0, RetryAssumption DEF IInv, TypeOK, Snaps
  <2>3. done' \in [Runs -> Snaps] /\ \A q \in Runs \ {r} : done'[q] = done[q]
    BY <1>2, <2>2
  <2>4. QED
    BY <2>1, <2>3
<1>7. TypeOK'
  BY <1>2, <1>5, <1>6 DEF IInv, TypeOK, Rows
<1>8. Tasks'
  BY <1>0, <1>2, <1>4, <1>5, <1>6 DEF IInv, Tasks
<1>9. Requests'
  BY <1>0, <1>2, <1>4, <1>5, <1>6, NotNew, RequestsKept DEF Alike
<1>10. Recorded'
  BY <1>2, <1>5, <1>6 DEF IInv, Fresh, Recorded
<1>11. Extends(r)
  <2>1. \A q \in Runs : /\ row'[q].of = row[q].of /\ row'[q].fail = row[q].fail
                        /\ row'[q].ttl = row[q].ttl
    BY <1>4, <1>5
  <2>2. Opened(r) /\ Opened(r)'
    BY <1>0, <1>4, <1>5 DEF Opened
  <2>3. \A q \in Runs \ {r} : Alike(row'[q], row[q])
    BY <1>5 DEF Alike
  <2>4. QED
    BY <1>0, <1>2, <1>10, <2>1, <2>2, <2>3 DEF Extends
<1>12. QED
  BY <1>7, <1>8, <1>9, <1>11, ExtendsStep DEF IInv, Shared

\* AnswerFails: the gate fails as a node does, and keeps its task.
LEMMA AnswerFailsKeeps ==
    ASSUME IInv, NEW r \in Runs, AnswerFails(r)
    PROVE  IInv'
<1>0. done[r] \in Snaps /\ row \in Rows
  BY DEF IInv, TypeOK, Rows
<1>1. /\ pc' = [pc EXCEPT ![r] = "refused"] /\ outcome' = outcome /\ pc[r] = "claimed"
      /\ from' = from /\ done' = done /\ prep' = prep /\ unrecorded' = unrecorded
  BY DEF AnswerFails
<1>2. /\ pc'[r] = "refused" /\ \A q \in Runs \ {r} : pc'[q] = pc[q]
  BY <1>1 DEF IInv, TypeOK
<1>3. CASE row' = WithFailure(row, r, done[r])
  <2>1. /\ row' \in Rows
        /\ \A q \in Runs :
              /\ Alike(row'[q], row[q])
              /\ row'[q].fail = IF q = r THEN done[r]
                                ELSE IF row[q].ttl THEN None ELSE row[q].fail
    BY <1>0, <1>3, WithFailureRows
  <2>2. TypeOK'
    BY <1>1, <2>1 DEF IInv, TypeOK, Rows
  <2>3. Tasks'
    BY <1>1, <1>2, <2>1 DEF IInv, Tasks, Alike
  <2>4. Requests'
    BY <1>1, <1>2, <2>1, NotNew, RequestsKept DEF Alike
  <2>5. Recorded'
    <3>1. \A q \in Runs : pc[q] # "none" => ~row[q].ttl
      BY DEF IInv, Tasks, Lineage
    <3>2. QED
      BY <1>1, <1>2, <2>1, <3>1 DEF IInv, Fresh, Recorded
  <2>6. Saves(r)
    BY <1>1, <2>1, <2>5 DEF Saves, Others, Opened, IInv, Tasks, Reading
  <2>7. QED
    BY <2>2, <2>3, <2>4, <2>6, SavesStep DEF IInv, Shared
<1>4. CASE row' = row
  <2>1. TypeOK'
    BY <1>1, <1>4 DEF IInv, TypeOK
  <2>2. Tasks'
    BY <1>1, <1>2, <1>4 DEF IInv, Tasks
  <2>3. Requests'
    BY <1>1, <1>2, <1>4, NotNew, RequestsKept DEF Alike
  <2>4. Recorded'
    BY <1>1, <1>2, <1>4 DEF IInv, Fresh, Recorded
  <2>5. Quiet(r)
    BY <1>1, <1>4, <2>4 DEF Quiet, Others, Reading, Alike
  <2>6. QED
    BY <2>1, <2>2, <2>3, <2>5, QuietStep DEF IInv, Shared
<1>5. QED
  BY <1>3, <1>4 DEF AnswerFails

\* A decision that ends its run, and gives nothing back.
LEMMA ClosedKeeps ==
    ASSUME IInv, NEW r \in Runs, Opened(r), row[r].paused,
           NEW status \in {"cancelled", "error"}, Closed(r, status),
           pc' = [pc EXCEPT ![r] = "none"]
    PROVE  IInv'
<1>1. /\ row' \in Rows
      /\ \A q \in Runs \ {r} : row'[q] = row[q]
      /\ row'[r].status = status /\ ~row'[r].paused /\ ~row'[r].old
      /\ row'[r].of = row[r].of /\ row'[r].fail = row[r].fail
      /\ row'[r].ttl = row[r].ttl
  BY StatusRows DEF Closed, Moved, Terminal
<1>2. pc'[r] = "none" /\ \A q \in Runs \ {r} : pc'[q] = pc[q]
  BY DEF IInv, TypeOK
<1>3. /\ outcome' = outcome /\ from' = from /\ done' = done /\ prep' = prep
      /\ unrecorded' = unrecorded \cup {r}
  BY DEF Closed
<1>4. TypeOK'
  BY <1>1, <1>3 DEF IInv, TypeOK, Rows
<1>5. Tasks'
  BY <1>1, <1>2, <1>3 DEF IInv, Tasks
<1>6. Requests'
  BY <1>1, <1>2, <1>3, NotNew, RequestsKept DEF Alike, Opened
<1>7. Recorded'
  BY <1>1, <1>2, <1>3 DEF IInv, Fresh, Recorded
<1>8. Closes(r)
  BY <1>1, <1>3, <1>7 DEF Closes, Others, Reading, Alike, Opened, Terminal, IInv, Lineage
<1>9. QED
  BY <1>4, <1>5, <1>6, <1>8, ClosesStep DEF IInv, Shared

\* StopsUnanswered, Abandons and Expires.
LEMMA DecisionsKeep ==
    ASSUME IInv, NEW r \in Runs, StopsUnanswered(r) \/ Abandons(r) \/ Expires(r)
    PROVE  IInv'
<1>1. CASE StopsUnanswered(r)
  BY <1>1, ClosedKeeps DEF StopsUnanswered, Unanswered, Opened
<1>2. ASSUME row[r].status = "awaiting", pc' = pc
      PROVE  Opened(r) /\ row[r].paused /\ pc' = [pc EXCEPT ![r] = "none"]
  BY <1>2 DEF IInv, TypeOK, Tasks, Opened
<1>3. CASE Abandons(r)
  BY <1>2, <1>3, ClosedKeeps DEF Abandons
<1>4. CASE Expires(r)
  BY <1>2, <1>4, ClosedKeeps DEF Expires
<1>5. QED
  BY <1>1, <1>3, <1>4

\* Ages: RUN_STALE_AFTER passes.
LEMMA AgesKeeps ==
    ASSUME IInv, NEW r \in Runs, Ages(r)
    PROVE  IInv'
<1>1. /\ row[r].status = "running" /\ pc[r] = "none" /\ \A h \in Handlers : prep[h].new # r
      /\ row' = [row EXCEPT ![r].old = TRUE]
      /\ pc' = pc /\ outcome' = outcome /\ from' = from /\ done' = done
      /\ unrecorded' = unrecorded /\ prep' = prep
  BY DEF Ages, task
<1> DEFINE mine == [row[r] EXCEPT !.old = TRUE]
<1>2. row[r] \in RowType
  BY DEF IInv, TypeOK
<1>3. /\ mine \in RowType /\ mine.paused = row[r].paused /\ mine.status = row[r].status
      /\ mine.of = row[r].of /\ mine.fail = row[r].fail /\ mine.ttl = row[r].ttl
  BY <1>2 DEF RowType
<1> HIDE DEF mine
<1>4. /\ row' \in Rows /\ row'[r] = mine /\ \A q \in Runs \ {r} : row'[q] = row[q]
  BY <1>1, <1>3 DEF IInv, TypeOK, Rows, mine
<1>5. TypeOK'
  BY <1>1, <1>4 DEF IInv, TypeOK, Rows
<1>6. Tasks'
  BY <1>1, <1>3, <1>4 DEF IInv, Tasks
<1>7. Requests'
  BY <1>1, <1>3, <1>4, RequestsKept DEF Alike
<1>8. Recorded'
  BY <1>1, <1>4 DEF IInv, Fresh, Recorded
<1>9. Quiet(r)
  <2>1. Opened(r) /\ Opened(r)'
    BY <1>1, <1>3, <1>4 DEF Opened
  <2>2. Others(r)
    BY <1>4 DEF Others, Alike
  <2>3. QED
    BY <1>1, <1>3, <1>4, <1>8, <2>1, <2>2 DEF Quiet, Reading
<1>10. QED
  BY <1>5, <1>6, <1>7, <1>9, QuietStep DEF IInv, Shared

\* TtlPasses: RETRY_STATE_TTL passes.
LEMMA TtlPassesKeeps ==
    ASSUME IInv, NEW r \in Runs, TtlPasses(r)
    PROVE  IInv'
<1>1. /\ row[r].status = "error" /\ row' = [row EXCEPT ![r].ttl = TRUE]
      /\ pc' = pc /\ outcome' = outcome /\ from' = from /\ done' = done
      /\ unrecorded' = unrecorded /\ prep' = prep
  BY DEF TtlPasses, task
<1> DEFINE mine == [row[r] EXCEPT !.ttl = TRUE]
<1>2. row[r] \in RowType
  BY DEF IInv, TypeOK
<1>3. /\ mine \in RowType /\ mine.paused = row[r].paused /\ mine.status = row[r].status
      /\ mine.of = row[r].of /\ mine.fail = row[r].fail /\ mine.old = row[r].old
  BY <1>2 DEF RowType
<1> HIDE DEF mine
<1>4. /\ row' \in Rows /\ row'[r] = mine /\ \A q \in Runs \ {r} : row'[q] = row[q]
  BY <1>1, <1>3 DEF IInv, TypeOK, Rows, mine
<1>5. \A q \in Runs :
         /\ row'[q].paused = row[q].paused /\ row'[q].status = row[q].status
         /\ row'[q].of = row[q].of /\ row'[q].fail = row[q].fail /\ row'[q].old = row[q].old
         /\ row'[q].ttl => row[q].status = "error"
  BY <1>1, <1>3, <1>4 DEF IInv, Lineage
<1>6. /\ \A q \in Runs : (Opened(q)' <=> Opened(q)) /\ Executed(q)' = Executed(q)
      /\ Ways' = Ways
  BY <1>1, <1>5 DEF Opened, Executed, Ways
<1>7. \A k : (Bound(k)' <=> Bound(k)) /\ (Covered(k)' <=> Covered(k))
  BY <1>1, <1>5, <1>6 DEF Bound, Covered
<1>8. TypeOK' /\ Tasks' /\ Requests'
  <2>1. TypeOK'
    BY <1>1, <1>4 DEF IInv, TypeOK, Rows
  <2>2. Tasks'
    BY <1>1, <1>5 DEF IInv, Tasks
  <2>3. Requests'
    BY <1>1, <1>5 DEF IInv, Requests
  <2>4. QED
    BY <2>1, <2>2, <2>3
<1>9. Lineage' /\ OnePlace'
  BY <1>1, <1>5, <1>6 DEF IInv, Lineage, OnePlace, Active
<1>10. Coverage' /\ DoneNotRedone'
  BY <1>1, <1>5, <1>6, <1>7 DEF IInv, Coverage, DoneNotRedone
<1>11. Fresh'
  <2>1. \A q \in Runs : Opened(q)' => Bound(from[q])'
    BY <1>1, <1>6, <1>7 DEF IInv, Fresh
  <2>2. \A q \in Ways' : row'[q].fail # None => Bound(row[q].fail)'
    <3>1. TAKE q \in Ways'
    <3>2. q \in Ways /\ q \in Runs
      BY <1>6 DEF Ways
    <3>3. QED
      BY <1>5, <1>7, <3>2 DEF IInv, Fresh
  <2>3. \A h \in Handlers : Active(h)' => Bound(prep[h].snap)'
    BY <1>1, <1>7 DEF IInv, Fresh, Active
  <2>4. \A q \in Runs : Recoverable(q)' <=> Recoverable(q)
    BY <1>1, <1>5, <1>6 DEF Recoverable
  <2>5. \A h \in Handlers :
           prep'[h].at = "checked" /\ Recoverable(prep[h].run)' => Bound(prep[h].snap)'
    BY <1>1, <1>7, <2>4 DEF IInv, Fresh, Requests
  <2>6. \A q \in Runs : pc'[q] = "ending" /\ outcome'[q] = "error" /\ q \notin unrecorded'
          => row'[q].fail = done'[q]
    BY <1>1, <1>5 DEF IInv, Fresh
  <2>7. QED
    BY <2>1, <2>2, <2>3, <2>5, <2>6 DEF Fresh
<1>12. QED
  BY <1>8, <1>9, <1>10, <1>11 DEF IInv

\* What a read leaves of the rows.
LEMMA ReadRows ==
    ASSUME IInv, NEW r \in Runs, NEW rows, rows = Reconciled(Purged(row), r)
    PROVE  /\ rows \in Rows
           /\ \A q \in Runs : rows[q].of = row[q].of /\ rows[q].ttl = row[q].ttl
           /\ \A q \in Runs \ {r} : Alike(rows[q], row[q])
           /\ \A q \in Runs : pc[q] # "none" => rows[q].fail = row[q].fail
           /\ ~Stale(row, r) =>
                 /\ Alike(rows[r], row[r])
                 /\ \A q \in Runs : rows[q].fail \in {row[q].fail, None}
           /\ Stale(row, r) /\ row[r].paused =>
                 /\ rows[r].status = "awaiting" /\ ~rows[r].old /\ rows[r].paused
                 /\ \A q \in Runs : rows[q].fail \in {row[q].fail, None}
           /\ Stale(row, r) /\ ~row[r].paused =>
                 /\ rows[r].status = "error" /\ ~rows[r].old /\ ~rows[r].paused
                 /\ \A q \in Runs \ {r} :
                       \/ rows[q].fail \in {row[q].fail, None}
                       \/ Gives(row, r, q) /\ rows[q].fail = row[r].fail
                 /\ row[r].of # None => rows[r].fail = None
                 /\ row[r].of = None =>
                       \A q \in Runs : rows[q].fail \in {row[q].fail, None}
<1> DEFINE kept == Purged(row)
<1>1. row \in Rows
  BY DEF IInv, TypeOK, Rows
<1>2. kept \in Rows
  BY <1>1, PurgedRows
<1>3. \A q \in Runs :
          /\ Alike(kept[q], row[q])
          /\ kept[q].fail = IF row[q].ttl THEN None ELSE row[q].fail
  BY <1>1, PurgedRows
<1>4. rows = Reconciled(kept, r)
  OBVIOUS
<1> HIDE DEF kept
<1>5. Stale(kept, r) <=> Stale(row, r)
  BY <1>3 DEF Stale, Alike
<1>6. \A q \in Runs : pc[q] # "none" => ~row[q].ttl /\ row[q].status = "running" /\ ~row[q].old
  BY DEF IInv, Tasks, Lineage
<1>7. CASE ~Stale(row, r)
  <2>1. rows = kept
    BY <1>2, <1>4, <1>5, <1>7 DEF Reconciled, Stale, Rows, RowType
  <2>2. QED
    BY <1>2, <1>3, <1>6, <1>7, <2>1 DEF Alike
<1>8. CASE Stale(row, r)
  <2>1. row[r].of # r /\ kept[r].of = row[r].of /\ kept[r].paused = row[r].paused
    BY <1>3, <1>8 DEF Stale, IInv, Lineage, Alike
  <2>2. /\ rows \in Rows
        /\ kept[r].paused =>
              /\ \A q \in Runs \ {r} : rows[q] = kept[q]
              /\ rows[r].status = "awaiting" /\ ~rows[r].old /\ rows[r].paused
              /\ rows[r].of = kept[r].of /\ rows[r].ttl = kept[r].ttl
              /\ rows[r].fail = kept[r].fail
        /\ ~kept[r].paused =>
              /\ \A q \in Runs \ {r} :
                    /\ Alike(rows[q], kept[q])
                    /\ rows[q].fail = IF Gives(kept, r, q) THEN kept[r].fail
                                      ELSE kept[q].fail
              /\ rows[r].status = "error" /\ ~rows[r].old /\ ~rows[r].paused
              /\ rows[r].of = kept[r].of /\ rows[r].ttl = kept[r].ttl
              /\ rows[r].fail = IF kept[r].of = None THEN kept[r].fail ELSE None
    BY <1>2, <1>4, <1>5, <1>8, <2>1, ReconciledRows
  <2>3. CASE row[r].paused
    <3>1. \A q \in Runs \ {r} : Alike(rows[q], row[q])
      BY <1>3, <2>1, <2>2, <2>3 DEF Alike
    <3>2. \A q \in Runs : rows[q].fail = kept[q].fail
      BY <2>1, <2>2, <2>3
    <3>3. QED
      BY <1>3, <1>6, <1>8, <2>1, <2>2, <2>3, <3>1, <3>2 DEF Alike
  <2>4. CASE ~row[r].paused
    <3>1. \A q \in Runs \ {r} : Alike(rows[q], row[q])
      BY <1>3, <2>1, <2>2, <2>4 DEF Alike
    <3>2. pc[r] = "none"
      BY <1>6, <1>8 DEF Stale
    <3>3. \A q \in Runs \ {r} : Gives(kept, r, q) => Gives(row, r, q) /\ kept[r].fail = row[r].fail
      <4>1. SUFFICES ASSUME NEW q \in Runs \ {r}, Gives(kept, r, q)
                     PROVE  Gives(row, r, q) /\ kept[r].fail = row[r].fail
        OBVIOUS
      <4>2. /\ q = row[r].of /\ kept[r].fail # None /\ kept[r].fail = row[r].fail
            /\ row[q].status = "error"
        BY <1>3, <4>1 DEF Gives, Alike
      <4>3. r \in Ways
        BY <1>8 DEF Stale, Ways
      <4>4. row[q].fail = None
        BY <4>2, <4>3 DEF Ways, IInv, OnePlace
      <4>5. QED
        BY <4>2, <4>4 DEF Gives
    <3>4. \A q \in Runs \ {r} :
             \/ rows[q].fail \in {row[q].fail, None}
             \/ Gives(row, r, q) /\ rows[q].fail = row[r].fail
      BY <1>3, <2>1, <2>2, <2>4, <3>3
    <3>5. \A q \in Runs : pc[q] # "none" => rows[q].fail = row[q].fail
      BY <1>3, <1>6, <2>1, <2>2, <2>4, <3>2, <3>3 DEF Gives
    <3>6. row[r].of = None => \A q \in Runs : ~Gives(row, r, q)
      BY RetryAssumption DEF Gives, Runs
    <3>7. QED
      BY <1>3, <1>8, <2>1, <2>2, <2>4, <3>1, <3>4, <3>5, <3>6 DEF Alike
  <2>5. QED
    BY <2>3, <2>4
<1>9. QED
  BY <1>7, <1>8

\* A read, by whoever it is made.
LEMMA ReadingKeeps ==
    ASSUME IInv, NEW r \in Runs, row' = Reconciled(Purged(row), r),
           pc' = pc, outcome' = outcome, from' = from, done' = done,
           unrecorded' \in {unrecorded, unrecorded \cup {r}},
           Stale(row, r) /\ ~row[r].paused => r \in unrecorded',
           prep' \in [Handlers -> PrepType], Reading
    PROVE  IInv'
<1>1. /\ row' \in Rows
      /\ \A q \in Runs : row'[q].of = row[q].of /\ row'[q].ttl = row[q].ttl
      /\ \A q \in Runs \ {r} : Alike(row'[q], row[q])
      /\ \A q \in Runs : pc[q] # "none" => row'[q].fail = row[q].fail
  BY ReadRows
<1>2. ~Stale(row, r) =>
         /\ Alike(row'[r], row[r])
         /\ \A q \in Runs : row'[q].fail \in {row[q].fail, None}
  BY ReadRows
<1>3. Stale(row, r) /\ row[r].paused =>
         /\ row'[r].status = "awaiting" /\ ~row'[r].old /\ row'[r].paused
         /\ \A q \in Runs : row'[q].fail \in {row[q].fail, None}
  BY ReadRows
<1>4. Stale(row, r) /\ ~row[r].paused =>
         /\ row'[r].status = "error" /\ ~row'[r].old /\ ~row'[r].paused
         /\ \A q \in Runs \ {r} :
               \/ row'[q].fail \in {row[q].fail, None}
               \/ Gives(row, r, q) /\ row'[q].fail = row[r].fail
         /\ row[r].of # None => row'[r].fail = None
         /\ row[r].of = None =>
               \A q \in Runs : row'[q].fail \in {row[q].fail, None}
  BY ReadRows
<1>5. TypeOK'
  BY <1>1 DEF IInv, TypeOK, Rows
<1>6. Stale(row, r) => pc[r] = "none"
  BY DEF IInv, Tasks, Stale
<1>7. Tasks'
  <2>1. \A q \in Runs \ {r} : Alike(row'[q], row[q])
    BY <1>1
  <2>2. CASE ~Stale(row, r)
    BY <1>2, <2>1, <2>2 DEF IInv, Tasks, Alike
  <2>3. CASE Stale(row, r) /\ row[r].paused
    BY <1>3, <1>6, <2>1, <2>3 DEF IInv, Tasks, Alike
  <2>4. CASE Stale(row, r) /\ ~row[r].paused
    BY <1>4, <1>6, <2>1, <2>4 DEF IInv, Tasks, Alike
  <2>5. QED
    BY <2>2, <2>3, <2>4
<1>8. Requests'
  <2>1. \A q \in Runs : row[q].status = "error" => row'[q].status = "error"
    BY <1>1, <1>2 DEF Stale, Alike
  <2>2. \A q \in Runs : ~row[q].old => Alike(row'[q], row[q])
    BY <1>1, <1>2 DEF Stale
  <2>3. ASSUME NEW h \in Handlers, prep'[h] = prep[h]
        PROVE  /\ prep'[h].at # "idle" => prep'[h].run \in Runs
               /\ prep'[h].at # "idle" => row'[prep'[h].run].status = "error"
               /\ prep'[h].at = "started" =>
                     LET new == prep'[h].new IN
                     /\ new \in Runs /\ row'[new].status = "running"
                     /\ ~row'[new].old /\ ~row'[new].paused
                     /\ pc'[new] = "none" /\ row'[new].of = prep'[h].run
                     /\ from'[new] = prep'[h].snap /\ done'[new] = prep'[h].snap
               /\ prep'[h].at # "started" => prep'[h].new = None
    BY <2>1, <2>2, <2>3 DEF IInv, Requests, Alike
  <2>4. QED
    BY <2>3 DEF Requests, Reading, Asleep
<1>9. Recorded'
  BY <1>1 DEF IInv, Fresh, Recorded
<1>10. row[r].ttl => row[r].status = "error"
  BY DEF IInv, Lineage
<1>11. CASE ~Stale(row, r)
  <2>1. Quiet(r)
    BY <1>1, <1>2, <1>9, <1>11 DEF Quiet, Others
  <2>2. QED
    BY <1>5, <1>7, <1>8, <2>1, QuietStep DEF IInv, Shared
<1>12. CASE Stale(row, r) /\ row[r].paused
  <2>1. Opened(r) /\ Opened(r)'
    BY <1>3, <1>12 DEF Opened, Stale
  <2>2. Quiet(r)
    BY <1>1, <1>3, <1>9, <1>12, <2>1 DEF Quiet, Others
  <2>3. QED
    BY <1>5, <1>7, <1>8, <2>2, QuietStep DEF IInv, Shared
<1>13. CASE Stale(row, r) /\ ~row[r].paused /\ row[r].of = None
  <2>1. Closes(r)
    BY <1>1, <1>4, <1>9, <1>10, <1>13 DEF Closes, Others, Stale, Opened, Terminal
  <2>2. QED
    BY <1>5, <1>7, <1>8, <2>1, ClosesStep DEF IInv, Shared
<1>14. CASE Stale(row, r) /\ ~row[r].paused /\ row[r].of # None
  <2>1. Returns(r)
    BY <1>1, <1>4, <1>9, <1>10, <1>14 DEF Returns, Stale, Opened, Terminal
  <2>2. QED
    BY <1>5, <1>7, <1>8, <2>1, ReturnsStep DEF IInv, Shared
<1>15. QED
  BY <1>11, <1>12, <1>13, <1>14

\* Reads: get_run and list_runs purge and reconcile.
LEMMA ReadsKeeps ==
    ASSUME IInv, NEW r \in Runs, Reads(r)
    PROVE  IInv'
<1>1. row' = Reconciled(Purged(row), r)
  BY DEF Reads
<1>2. Stale(row, r) /\ ~row[r].paused => row'[r].status = "error"
  BY <1>1, ReadRows
<1>3. unrecorded' \in {unrecorded, unrecorded \cup {r}}
         /\ (Stale(row, r) /\ ~row[r].paused => r \in unrecorded')
  BY <1>2 DEF Reads, Stale
<1>4. prep' \in [Handlers -> PrepType] /\ Reading
  BY DEF Reads, Reading, IInv, TypeOK
<1>5. QED
  BY <1>1, <1>3, <1>4, ReadingKeeps DEF Reads

\* The purge stays when the rest of a transaction is rolled back.
LEMMA PurgeKeeps ==
    ASSUME IInv, NEW r \in Runs, row' = Purged(row), pc' = pc, outcome' = outcome,
           from' = from, done' = done, prep' = prep, unrecorded' = unrecorded
    PROVE  IInv'
<1>1. /\ row' \in Rows
      /\ \A q \in Runs :
            /\ Alike(row'[q], row[q])
            /\ row'[q].fail = IF row[q].ttl THEN None ELSE row[q].fail
  BY PurgedRows DEF IInv, TypeOK, Rows
<1>2. TypeOK'
  BY <1>1 DEF IInv, TypeOK, Rows
<1>3. Tasks'
  BY <1>1 DEF IInv, Tasks, Alike
<1>4. Requests'
  BY <1>1 DEF IInv, Requests, Alike
<1>5. Recorded'
  <2>1. \A q \in Runs : pc[q] # "none" => ~row[q].ttl
    BY DEF IInv, Tasks, Lineage
  <2>2. QED
    BY <1>1, <2>1 DEF IInv, Fresh, Recorded
<1>6. Quiet(r)
  BY <1>1, <1>5 DEF Quiet, Others, Reading, Alike
<1>7. QED
  BY <1>2, <1>3, <1>4, <1>6, QuietStep DEF IInv, Shared

\* PrepareReads: the request finds a failure, or only its purge is left.
LEMMA PrepareReadsKeeps ==
    ASSUME IInv, NEW h \in Handlers, NEW r \in Runs, PrepareReads(h, r)
    PROVE  IInv'
<1> DEFINE rows == Reconciled(Purged(row), r)
<1>0. /\ rows \in Rows
      /\ ~Stale(row, r) => Alike(rows[r], row[r])
      /\ Stale(row, r) /\ row[r].paused => rows[r].status = "awaiting"
  BY ReadRows
<1>1. CASE rows[r].status = "error" /\ rows[r].fail # None
  <2>1. /\ row' = rows
        /\ prep' = [prep EXCEPT ![h] = [Asleep EXCEPT !.at = "checked", !.run = r,
                                                      !.snap = rows[r].fail]]
        /\ unrecorded' = IF row[r].status = "running" THEN unrecorded \cup {r} ELSE unrecorded
        /\ prep[h].at = "idle"
        /\ pc' = pc /\ outcome' = outcome /\ from' = from /\ done' = done
    BY <1>1 DEF PrepareReads
  <2> HIDE DEF rows
  <2>2. rows[r].fail \in Snaps
    BY <1>0, <1>1 DEF Rows, RowType
  <2> DEFINE one == [Asleep EXCEPT !.at = "checked", !.run = r, !.snap = rows[r].fail]
  <2>3. /\ one \in PrepType /\ one.at = "checked" /\ one.run = r /\ one.snap = rows[r].fail
        /\ one.new = None
    BY <2>2 DEF PrepType, Asleep
  <2> HIDE DEF one
  <2>4. /\ prep' \in [Handlers -> PrepType]
        /\ prep'[h] = one /\ \A g \in Handlers \ {h} : prep'[g] = prep[g]
    BY <2>1, <2>3 DEF IInv, TypeOK, one
  <2>5. Reading
    BY <1>1, <2>1, <2>3, <2>4 DEF Reading
  <2>6. /\ unrecorded' \in {unrecorded, unrecorded \cup {r}}
        /\ Stale(row, r) /\ ~row[r].paused => r \in unrecorded'
    BY <2>1 DEF Stale
  <2>7. QED
    BY <2>1, <2>4, <2>5, <2>6, ReadingKeeps DEF rows
<1>2. CASE ~(rows[r].status = "error" /\ rows[r].fail # None)
  BY <1>2, PurgeKeeps DEF PrepareReads
<1>3. QED
  BY <1>1, <1>2

\* PrepareCannotRead: the snapshot is erased.
LEMMA PrepareCannotReadKeeps ==
    ASSUME IInv, NEW h \in Handlers, NEW r \in Runs, PrepareCannotRead(h, r)
    PROVE  IInv'
<1> DEFINE rows == Reconciled(Purged(row), r)
           mine == [rows[r] EXCEPT !.fail = None, !.node = FALSE]
<1>1. /\ rows \in Rows
      /\ \A q \in Runs : rows[q].of = row[q].of /\ rows[q].ttl = row[q].ttl
      /\ \A q \in Runs \ {r} : Alike(rows[q], row[q])
      /\ \A q \in Runs : pc[q] # "none" => rows[q].fail = row[q].fail
  BY ReadRows
<1>2. /\ ~Stale(row, r) =>
            /\ Alike(rows[r], row[r])
            /\ \A q \in Runs : rows[q].fail \in {row[q].fail, None}
      /\ Stale(row, r) /\ row[r].paused => rows[r].status = "awaiting"
      /\ Stale(row, r) /\ ~row[r].paused =>
            /\ ~rows[r].old /\ ~rows[r].paused
            /\ row[r].of # None => rows[r].fail = None
            /\ row[r].of = None => \A q \in Runs : rows[q].fail \in {row[q].fail, None}
  BY ReadRows
<1>3. /\ rows[r].status = "error" /\ rows[r].fail # None
      /\ pc' = pc /\ outcome' = outcome /\ from' = from /\ done' = done
      /\ prep' = prep /\ unrecorded' = unrecorded
  BY DEF PrepareCannotRead, task
<1>4. row' = [q \in Runs |-> IF q = r THEN mine ELSE rows[q]]
  BY <1>1 DEF Rows, PrepareCannotRead
<1> HIDE DEF rows
<1>5. rows[r] \in RowType
  BY <1>1 DEF Rows
<1>6. /\ mine \in RowType /\ Alike(mine, rows[r]) /\ mine.fail = None
  BY <1>5 DEF RowType, Alike
<1> HIDE DEF mine
<1>7. /\ row' \in Rows /\ row'[r] = mine /\ \A q \in Runs \ {r} : row'[q] = rows[q]
  BY <1>1, <1>4, <1>6 DEF Rows
<1>8. pc[r] = "none" /\ ~(Stale(row, r) /\ row[r].paused)
  BY <1>2, <1>3 DEF IInv, Tasks, Stale, Alike
<1>9. \A q \in Runs : row'[q].fail \in {row[q].fail, None}
  BY <1>2, <1>3, <1>6, <1>7, <1>8
<1>10. /\ row'[r].of = row[r].of /\ row'[r].ttl = row[r].ttl
       /\ row'[r].status = "error"
       /\ ~Stale(row, r) => Alike(row'[r], row[r])
       /\ Stale(row, r) => ~row'[r].old /\ ~row'[r].paused
  BY <1>1, <1>2, <1>3, <1>6, <1>7, <1>8 DEF Alike
<1>11. \A q \in Runs \ {r} : Alike(row'[q], row[q])
  BY <1>1, <1>7
<1>12. TypeOK'
  BY <1>3, <1>7 DEF IInv, TypeOK, Rows
<1>13. Tasks'
  <2>1. CASE ~Stale(row, r)
    BY <1>3, <1>10, <1>11, <2>1 DEF IInv, Tasks, Alike
  <2>2. CASE Stale(row, r)
    BY <1>3, <1>8, <1>10, <1>11, <2>2 DEF IInv, Tasks, Alike
  <2>3. QED
    BY <2>1, <2>2
<1>14. Requests'
  <2>1. \A q \in Runs : row[q].status = "error" => row'[q].status = "error"
    BY <1>10, <1>11 DEF Alike
  <2>2. \A q \in Runs : ~row[q].old => Alike(row'[q], row[q])
    BY <1>10, <1>11 DEF Stale
  <2>3. ASSUME NEW g \in Handlers
        PROVE  /\ prep[g].at # "idle" => prep[g].run \in Runs
               /\ prep[g].at # "idle" => row'[prep[g].run].status = "error"
               /\ prep[g].at = "started" =>
                     LET new == prep[g].new IN
                     /\ new \in Runs /\ row'[new].status = "running"
                     /\ ~row'[new].old /\ ~row'[new].paused
                     /\ pc[new] = "none" /\ row'[new].of = prep[g].run
                     /\ from[new] = prep[g].snap /\ done[new] = prep[g].snap
               /\ prep[g].at # "started" => prep[g].new = None
    BY <2>1, <2>2 DEF IInv, Requests, Alike
  <2>4. QED
    BY <1>3, <2>3 DEF Requests
<1>15. Recorded'
  BY <1>1, <1>3, <1>7, <1>8 DEF IInv, Fresh, Recorded
<1>16. CASE ~Stale(row, r)
  <2>1. Quiet(r)
    BY <1>3, <1>9, <1>10, <1>11, <1>15, <1>16 DEF Quiet, Others, Reading
  <2>2. QED
    BY <1>12, <1>13, <1>14, <2>1, QuietStep DEF IInv, Shared
<1>17. CASE Stale(row, r)
  <2>1. row'[r].fail = None
    BY <1>6, <1>7
  <2>2. Closes(r)
    BY <1>3, <1>9, <1>10, <1>11, <1>15, <1>17, <2>1
       DEF Closes, Others, Reading, Stale, Opened, Terminal
  <2>3. QED
    BY <1>12, <1>13, <1>14, <2>2, ClosesStep DEF IInv, Shared
<1>18. QED
  BY <1>16, <1>17

\* A request that goes away.
LEMMA DropKeeps ==
    ASSUME IInv, NEW h \in Handlers, prep' = [prep EXCEPT ![h] = Asleep],
           row' = row, UNCHANGED task
    PROVE  IInv'
<1>1. /\ prep' = [prep EXCEPT ![h] = Asleep] /\ row' = row /\ pc' = pc
      /\ outcome' = outcome /\ from' = from /\ done' = done /\ unrecorded' = unrecorded
  BY DEF task
<1>2. Asleep \in PrepType /\ Asleep.at = "idle" /\ Asleep.new = None
  BY RetryAssumption DEF PrepType, Asleep, Snaps
<1>3. /\ prep' \in [Handlers -> PrepType] /\ prep'[h] = Asleep
      /\ \A g \in Handlers \ {h} : prep'[g] = prep[g]
  BY <1>1, <1>2 DEF IInv, TypeOK
<1>4. TypeOK'
  BY <1>1, <1>3 DEF IInv, TypeOK
<1>5. Tasks'
  BY <1>1 DEF IInv, Tasks
<1>6. Requests'
  BY <1>1, <1>2, <1>3 DEF IInv, Requests
<1>7. Recorded'
  BY <1>1 DEF IInv, Fresh, Recorded
<1>8. 1 \in Runs
  BY RetryAssumption DEF Runs
<1>9. Quiet(1)
  BY <1>1, <1>3, <1>7, <1>8 DEF Quiet, Others, Reading, Alike
<1>10. QED
  BY <1>4, <1>5, <1>6, <1>8, <1>9, QuietStep DEF IInv, Shared

\* PrepareCopies: the retry carries a copy, or none, and its task starts.
LEMMA PrepareCopiesKeeps ==
    ASSUME IInv, NEW h \in Handlers, NEW copied \in BOOLEAN, PrepareCopies(h, copied)
    PROVE  IInv'
<1> DEFINE new == prep[h].new
<1>1. /\ new \in Runs /\ row[new].status = "running" /\ ~row[new].old /\ ~row[new].paused
      /\ pc[new] = "none" /\ from[new] = prep[h].snap /\ prep[h].at = "started"
  BY DEF PrepareCopies, IInv, Requests
<1>2. /\ row' = IF copied THEN WithFailure(row, new, prep[h].snap) ELSE row
      /\ pc' = [pc EXCEPT ![new] = "live"]
      /\ prep' = [prep EXCEPT ![h] = Asleep]
      /\ outcome' = outcome /\ from' = from /\ done' = done /\ unrecorded' = unrecorded
  BY DEF PrepareCopies
<1>3. \A g \in Handlers \ {h} : prep[g].at = "started" => prep[g].new # new
  BY <1>1 DEF IInv, OnePlace, Active
<1> HIDE DEF new
<1>4. Asleep \in PrepType /\ Asleep.at = "idle" /\ Asleep.new = None
  BY RetryAssumption DEF PrepType, Asleep, Snaps
<1>5. /\ prep' \in [Handlers -> PrepType] /\ prep'[h] = Asleep
      /\ \A g \in Handlers \ {h} : prep'[g] = prep[g]
  BY <1>2, <1>4 DEF IInv, TypeOK
<1>6. pc'[new] = "live" /\ \A q \in Runs \ {new} : pc'[q] = pc[q]
  BY <1>1, <1>2 DEF IInv, TypeOK
<1>7. row \in Rows /\ prep[h].snap \in Snaps
  BY DEF IInv, TypeOK, Rows, PrepType
<1>8. /\ row' \in Rows
      /\ \A q \in Runs : Alike(row'[q], row[q])
      /\ \A q \in Runs : pc[q] # "none" => row'[q].fail = row[q].fail
      /\ copied => row'[new].fail = from[new]
      /\ ~copied => row' = row
      /\ \A q \in Runs \ {new} : row'[q].fail \in {row[q].fail, None}
  <2>1. CASE copied
    <3>1. /\ row' \in Rows
          /\ \A q \in Runs :
                /\ Alike(row'[q], row[q])
                /\ row'[q].fail = IF q = new THEN prep[h].snap
                                  ELSE IF row[q].ttl THEN None ELSE row[q].fail
      BY <1>1, <1>2, <1>7, <2>1, WithFailureRows
    <3>2. \A q \in Runs : pc[q] # "none" => ~row[q].ttl /\ q # new
      BY <1>1 DEF IInv, Tasks, Lineage
    <3>3. QED
      BY <1>1, <2>1, <3>1, <3>2
  <2>2. CASE ~copied
    BY <1>2, <1>7, <2>2 DEF Alike
  <2>3. QED
    BY <2>1, <2>2
<1>9. TypeOK'
  BY <1>2, <1>5, <1>8 DEF IInv, TypeOK, Rows
<1>10. Tasks'
  BY <1>1, <1>2, <1>6, <1>8 DEF IInv, Tasks, Alike
<1>11. Requests'
  BY <1>2, <1>3, <1>4, <1>5, <1>6, <1>8 DEF IInv, Requests, Alike
<1>12. Recorded'
  BY <1>2, <1>6, <1>8 DEF IInv, Fresh, Recorded
<1>13. Reading
  BY <1>5 DEF Reading
<1>14. CASE copied
  <2>1. Saves(new)
    BY <1>1, <1>2, <1>8, <1>12, <1>13, <1>14 DEF Saves, Others, Opened
  <2>2. QED
    BY <1>1, <1>9, <1>10, <1>11, <2>1, SavesStep DEF IInv, Shared
<1>15. CASE ~copied
  <2>1. Quiet(new)
    BY <1>1, <1>2, <1>8, <1>12, <1>13, <1>15 DEF Quiet, Others, Alike
  <2>2. QED
    BY <1>1, <1>9, <1>10, <1>11, <2>1, QuietStep DEF IInv, Shared
<1>16. QED
  BY <1>14, <1>15

\* PrepareConsumes: the only way on becomes the request that consumed it.
LEMMA PrepareConsumesKeeps ==
    ASSUME IInv, NEW h \in Handlers, PrepareConsumes(h)
    PROVE  IInv'
<1> DEFINE p == prep[h].run
<1>0. /\ prep[h].at = "checked" /\ p \in Runs /\ row[p].status = "error"
      /\ prep[h].new = None
      /\ pc' = pc /\ outcome' = outcome /\ from' = from /\ done' = done
      /\ unrecorded' = unrecorded
  BY DEF PrepareConsumes, task, IInv, Requests
<1>1. CASE row[p].fail = None
  <2>1. prep' = [prep EXCEPT ![h] = Asleep] /\ row' = row /\ UNCHANGED task
    BY <1>1 DEF PrepareConsumes
  <2>2. QED
    BY <2>1, DropKeeps
<1>2. CASE row[p].fail # None
  <2> DEFINE mine == [row[p] EXCEPT !.fail = None]
             one == [prep[h] EXCEPT !.at = "consumed"]
  <2>1. row' = [row EXCEPT ![p] = mine] /\ prep' = [prep EXCEPT ![h] = one]
    BY <1>2 DEF PrepareConsumes
  <2>2. row[p] \in RowType /\ prep[h] \in PrepType
    BY <1>0 DEF IInv, TypeOK
  <2>3. mine \in RowType /\ Alike(mine, row[p]) /\ mine.fail = None
    BY <2>2 DEF RowType, Alike
  <2>4. /\ one \in PrepType /\ one.at = "consumed" /\ one.run = p /\ one.new = None
        /\ one.snap = prep[h].snap
    BY <1>0, <2>2 DEF PrepType
  <2> HIDE DEF mine, one, p
  <2>5. /\ row' \in Rows /\ row'[p] = mine /\ \A q \in Runs \ {p} : row'[q] = row[q]
    BY <1>0, <2>1, <2>3 DEF IInv, TypeOK, Rows
  <2>6. /\ prep' \in [Handlers -> PrepType] /\ prep'[h] = one
        /\ \A g \in Handlers \ {h} : prep'[g] = prep[g]
    BY <2>1, <2>4 DEF IInv, TypeOK
  <2>7. /\ \A q \in Runs : Alike(row'[q], row[q]) /\ row'[q].fail \in {row[q].fail, None}
        /\ \A q \in Runs \ {p} : row'[q].fail = row[q].fail
    BY <2>3, <2>5 DEF Alike
  <2>8. /\ \A q \in Runs : Executed(q)' = Executed(q) /\ (Opened(q)' <=> Opened(q))
        /\ \A k : (Covered(k) <=> Covered(k)') /\ (Bound(k) <=> Bound(k)')
    <3>1. \A q \in Runs : Executed(q)' = Executed(q) /\ (Opened(q)' <=> Opened(q))
      BY <1>0, <2>7 DEF Executed, Opened, Alike
    <3>2. \A k : (Covered(k) <=> Covered(k)') /\ (Bound(k) <=> Bound(k)')
      BY <1>0, <3>1 DEF Covered, Bound
    <3>3. QED
      BY <3>1, <3>2
  <2>9. p \in Ways
    BY <1>0, <1>2, WaysAre
  <2>10. Ways' = {}
    <3>1. \A q \in Ways : q = p
      BY <2>9 DEF IInv, OnePlace
    <3>2. SUFFICES ASSUME NEW q \in Ways'
                   PROVE  FALSE
      OBVIOUS
    <3>3. q \in Ways /\ q \in Runs
      BY <2>7 DEF Ways, Alike
    <3>4. row'[p].fail = None /\ row'[p].status = "error"
      BY <1>0, <2>3, <2>5 DEF Alike
    <3>5. QED
      BY <3>1, <3>3, <3>4 DEF Ways
  <2>11. \A q \in Runs : ~Opened(q)' /\ ~Opened(q)
    BY <2>8, <2>10 DEF Ways, Opened
  <2>12. \A g \in Handlers \ {h} : ~Active(g)' /\ ~Active(g)
    BY <2>6, <2>9, <2>11 DEF Active, IInv, Requests, OnePlace, Opened
  <2>13. TypeOK'
    BY <1>0, <2>5, <2>6 DEF IInv, TypeOK, Rows
  <2>14. Tasks'
    BY <1>0, <2>7 DEF IInv, Tasks, Alike
  <2>15. Requests'
    <3>1. ASSUME NEW g \in Handlers \ {h}
          PROVE  /\ prep'[g] = prep[g] /\ prep[g].at # "started"
                 /\ prep[g].at # "idle" => prep[g].run \in Runs /\ row'[prep[g].run].status = "error"
                 /\ prep[g].new = None
      BY <2>6, <2>7, <2>12 DEF Active, IInv, Requests, Alike
    <3>2. row'[p].status = "error"
      BY <1>0, <2>7 DEF Alike
    <3>3. QED
      BY <1>0, <2>4, <2>6, <3>1, <3>2 DEF Requests
  <2>16. Lineage'
    BY <1>0, <2>7, <2>8 DEF IInv, Lineage, Alike
  <2>17. OnePlace'
    BY <2>10, <2>12 DEF OnePlace
  <2>18. Coverage'
    <3>1. \A q \in Runs : row'[q].fail # None => Covered(row[q].fail)'
      BY <2>7, <2>8 DEF IInv, Coverage
    <3>2. \A g \in Handlers : prep'[g].at # "idle" => Covered(prep[g].snap)'
      BY <1>0, <2>4, <2>6, <2>8 DEF IInv, Coverage
    <3>3. QED
      BY <1>0, <2>8, <3>1, <3>2 DEF IInv, Coverage
  <2>19. Fresh'
    <3>1. Recoverable(p)
      BY <1>0, <1>2 DEF Recoverable
    <3>2. Bound(prep[h].snap)
      BY <1>0, <3>1 DEF IInv, Fresh, p
    <3>3. \A g \in Handlers : Active(g)' => Bound(prep[g].snap)'
      BY <2>4, <2>6, <2>8, <2>12, <3>2
    <3>4. ASSUME NEW g \in Handlers, prep'[g].at = "checked", Recoverable(prep[g].run)'
          PROVE  Bound(prep[g].snap)'
      <4>1. prep'[g] = prep[g]
        BY <2>4, <2>6, <3>4
      <4>2. prep[g].run \in Runs
        BY <3>4, <4>1 DEF IInv, Requests
      <4>3. row'[prep[g].run].fail = None
        BY <2>10, <3>4, <4>1, <4>2 DEF Ways, Recoverable
      <4>4. \E f \in Handlers : prep'[f].at = "consumed" /\ prep'[f].run = prep[g].run
        BY <2>11, <3>4, <4>1, <4>3 DEF Recoverable
      <4>5. prep[g].run = p
        BY <2>4, <2>6, <2>12, <4>4 DEF Active
      <4>6. QED
        BY <2>8, <3>1, <3>4, <4>1, <4>5 DEF IInv, Fresh
    <3>5. \A q \in Runs : pc'[q] = "ending" /\ outcome'[q] = "error" /\ q \notin unrecorded'
            => row'[q].fail = done'[q]
      BY <1>0, <2>7 DEF IInv, Fresh, Tasks
    <3>6. QED
      BY <2>10, <2>11, <3>3, <3>4, <3>5 DEF Fresh
  <2>20. DoneNotRedone'
    BY <1>0, <2>8 DEF IInv, DoneNotRedone
  <2>21. QED
    BY <2>13, <2>14, <2>15, <2>16, <2>17, <2>18, <2>19, <2>20 DEF IInv
<1>3. QED
  BY <1>1, <1>2

\* PrepareStarts: that request becomes a new run, the only one under way.
LEMMA PrepareStartsKeeps ==
    ASSUME IInv, NEW h \in Handlers, PrepareStarts(h)
    PROVE  IInv'
<1> DEFINE p == prep[h].run
           snap == prep[h].snap
<1>1. /\ prep[h].at = "consumed" /\ p \in Runs /\ row[p].status = "error" /\ snap \in Snaps
      /\ pc' = pc /\ outcome' = outcome /\ unrecorded' = unrecorded
  BY DEF PrepareStarts, IInv, TypeOK, Requests, PrepType
<1>2. PICK new \in Runs :
          /\ row[new].status = "absent"
          /\ \A r \in Runs : row[r].status = "absent" => new <= r
          /\ row' = [row EXCEPT ![new].status = "running", ![new].of = p]
          /\ prep' = [prep EXCEPT ![h].at = "started", ![h].new = new]
          /\ from' = [from EXCEPT ![new] = snap]
          /\ done' = [done EXCEPT ![new] = snap]
  BY DEF PrepareStarts
<1>3. /\ row[new].status = "absent"
      /\ \A r \in Runs : row[r].status = "absent" => new <= r
  BY <1>2
<1> DEFINE mine == [row[new] EXCEPT !.status = "running", !.of = p]
           one == [prep[h] EXCEPT !.at = "started", !.new = new]
<1>4. row' = [q \in Runs |-> IF q = new THEN mine ELSE row[q]]
  BY <1>2 DEF IInv, TypeOK
<1>5. prep' = [g \in Handlers |-> IF g = h THEN one ELSE prep[g]]
  BY <1>2 DEF IInv, TypeOK
<1>6. /\ from' \in [Runs -> Snaps] /\ done' \in [Runs -> Snaps]
      /\ from'[new] = snap /\ done'[new] = snap
      /\ \A q \in Runs \ {new} : from'[q] = from[q] /\ done'[q] = done[q]
  <2>1. from \in [Runs -> Snaps] /\ done \in [Runs -> Snaps]
    BY DEF IInv, TypeOK
  <2> HIDE DEF snap
  <2>2. /\ from' = [from EXCEPT ![new] = snap]
        /\ done' = [done EXCEPT ![new] = snap]
    BY <1>2
  <2>3. QED
    BY <1>1, <2>1, <2>2
<1>7. row[new] \in RowType /\ prep[h] \in PrepType
  BY DEF IInv, TypeOK
<1>8. /\ row[new].fail = None /\ ~row[new].paused /\ ~row[new].old /\ ~row[new].ttl
      /\ from[new] = done[new] /\ pc[new] = "none"
  BY <1>3 DEF IInv, Lineage, Tasks
<1>9. /\ mine \in RowType /\ mine.status = "running" /\ mine.of = p /\ mine.fail = None
      /\ ~mine.paused /\ ~mine.old /\ ~mine.ttl
  BY <1>1, <1>7, <1>8 DEF RowType
<1>10. /\ one \in PrepType /\ one.at = "started" /\ one.new = new /\ one.run = p
       /\ one.snap = snap
  BY <1>7 DEF PrepType
<1> HIDE DEF mine, one, p, snap
<1>11. /\ row' \in Rows /\ row'[new] = mine /\ \A q \in Runs \ {new} : row'[q] = row[q]
  BY <1>4, <1>9 DEF IInv, TypeOK, Rows
<1>12. /\ prep' \in [Handlers -> PrepType] /\ prep'[h] = one
       /\ \A g \in Handlers \ {h} : prep'[g] = prep[g]
  BY <1>5, <1>10 DEF IInv, TypeOK
<1>13. /\ Ways = {}
       /\ \A g \in Handlers \ {h} : ~Active(g)
  BY <1>1 DEF IInv, OnePlace, Active
<1>14. \A q \in Runs : ~Opened(q) /\ (row[q].status = "error" => row[q].fail = None)
  BY <1>13 DEF Ways, Opened
<1>15. /\ Ways' = {new}
       /\ \A q \in Runs : Opened(q)' <=> q = new
  BY <1>9, <1>11, <1>14 DEF Ways, Opened
<1>16. \A q \in Runs : Executed(q)' = Executed(q)
  <2>1. TAKE q \in Runs
  <2>2. CASE q = new
    <3>1. Executed(q) = {}
      BY <1>8, <2>2 DEF Executed, IInv, TypeOK, Snaps
    <3>2. Executed(q)' = {}
      BY <1>1, <1>6, <2>2 DEF Executed, Snaps
    <3>3. QED
      BY <3>1, <3>2
  <2>3. CASE q # new
    BY <1>6, <2>3 DEF Executed
  <2>4. QED
    BY <2>2, <2>3
<1>17. \A k : Covered(k) => Covered(k)'
  BY <1>16 DEF Covered
<1>18. \A k : Bound(k) => Bound(k)'
  BY <1>1, <1>6, <1>8, <1>11, <1>14 DEF Bound
<1>19. TypeOK'
  BY <1>1, <1>6, <1>11, <1>12 DEF IInv, TypeOK, Rows
<1>20. Tasks'
  BY <1>1, <1>6, <1>8, <1>9, <1>11 DEF IInv, Tasks
<1>21. Requests'
  <2>1. ASSUME NEW g \in Handlers \ {h}
        PROVE  /\ prep'[g] = prep[g] /\ prep[g].at # "started"
               /\ prep[g].at # "idle" => prep[g].run \in Runs /\ row'[prep[g].run].status = "error"
               /\ prep[g].new = None
    BY <1>3, <1>11, <1>12, <1>13 DEF Active, IInv, Requests
  <2>2. row'[p].status = "error"
    BY <1>1, <1>3, <1>11 DEF p
  <2>3. /\ prep'[h].run = p /\ prep'[h].at = "started" /\ prep'[h].new = new
        /\ prep'[h].snap = snap /\ p \in Runs
    BY <1>1, <1>10, <1>12 DEF p
  <2>4. /\ row'[new].status = "running" /\ ~row'[new].old /\ ~row'[new].paused
        /\ pc'[new] = "none" /\ row'[new].of = p
        /\ from'[new] = snap /\ done'[new] = snap
    BY <1>1, <1>6, <1>8, <1>9, <1>11
  <2>5. QED
    BY <2>1, <2>2, <2>3, <2>4 DEF Requests
<1>22. Lineage'
  <2>1. \A r \in Runs : row'[r].status = "absent" =>
           row'[r].fail = None /\ ~row'[r].paused /\ ~row'[r].old /\ from'[r] = done'[r]
    BY <1>6, <1>9, <1>11 DEF IInv, Lineage
  <2>2. ASSUME NEW r \in Runs, NEW s \in Runs, row'[r].status = "absent", r < s
        PROVE  row'[s].status = "absent"
    <3>1. row[r].status = "absent" /\ r # new
      BY <1>9, <1>11, <2>2
    <3>2. s # new
      BY <1>3, <2>2, <3>1 DEF Runs
    <3>3. QED
      BY <1>11, <2>2, <3>1, <3>2 DEF IInv, Lineage
  <2>3. ASSUME NEW r \in Runs, NEW s \in Runs, Opened(r)', r < s
        PROVE  row'[s].status = "absent"
    <3>1. r = new /\ s # new
      BY <1>15, <2>3 DEF Runs
    <3>2. QED
      BY <1>3, <1>11, <2>3, <3>1 DEF IInv, Lineage
  <2>4. \A r, s \in Runs : row'[r].of = s => row'[s].status = "error"
    <3>1. \A s \in Runs : row[s].status = "error" => row'[s].status = "error"
      BY <1>3, <1>11
    <3>2. row'[p].status = "error" /\ row'[new].of = p
      BY <1>1, <1>9, <1>11, <3>1 DEF p
    <3>3. QED
      BY <1>11, <3>1, <3>2 DEF IInv, Lineage
  <2>5. \A r \in Runs : row'[r].ttl => row'[r].status = "error"
    BY <1>9, <1>11 DEF IInv, Lineage
  <2>6. QED
    BY <2>1, <2>2, <2>3, <2>4, <2>5 DEF Lineage
<1>23. OnePlace'
  BY <1>10, <1>12, <1>13, <1>15 DEF OnePlace, Active
<1>24. Coverage'
  <2>1. \A q \in Runs : from'[q] <= done'[q]
    BY <1>1, <1>6 DEF IInv, Coverage, Snaps
  <2>2. Covered(snap)
    BY <1>1 DEF IInv, Coverage, snap
  <2>3. ASSUME NEW q \in Runs, NEW i \in 1..done'[q]
        PROVE  \E s \in Runs : s <= q /\ i \in Executed(s)'
    <3>1. CASE q # new
      BY <1>6, <1>16, <2>3, <3>1 DEF IInv, Coverage
    <3>2. CASE q = new
      <4>1. PICK s \in Runs : i \in Executed(s)
        BY <1>6, <2>2, <2>3, <3>2 DEF Covered
      <4>2. row[s].status # "absent"
        BY <4>1 DEF Executed, IInv, Lineage, TypeOK, Snaps
      <4>3. s <= new
        BY <1>3, <4>2 DEF IInv, Lineage, Runs
      <4>4. QED
        BY <1>16, <3>2, <4>1, <4>3
    <3>3. QED
      BY <3>1, <3>2
  <2>4. \A q \in Runs : row'[q].fail # None => Covered(row[q].fail)'
    BY <1>9, <1>11, <1>17 DEF IInv, Coverage
  <2>5. \A g \in Handlers : prep'[g].at # "idle" => Covered(prep[g].snap)'
    BY <1>10, <1>12, <1>17, <2>2 DEF IInv, Coverage
  <2>6. QED
    BY <2>1, <2>3, <2>4, <2>5 DEF Coverage
<1>25. Fresh'
  <2>1. Bound(snap)
    BY <1>1 DEF IInv, Fresh, Active, snap
  <2>2. \A q \in Runs : Opened(q)' => Bound(from[q])'
    BY <1>6, <1>15, <1>18, <2>1
  <2>3. \A q \in Ways' : row'[q].fail = None
    BY <1>9, <1>11, <1>15
  <2>4. \A g \in Handlers : Active(g)' => Bound(prep[g].snap)'
    BY <1>10, <1>12, <1>13, <1>18, <2>1 DEF Active
  <2>5. ASSUME NEW g \in Handlers, prep'[g].at = "checked", Recoverable(prep[g].run)'
        PROVE  Bound(prep[g].snap)'
    <3>1. prep'[g] = prep[g] /\ prep[g].run \in Runs
      BY <1>10, <1>12, <2>5 DEF IInv, Requests
    <3>2. row'[prep[g].run].fail = None
      BY <1>9, <1>11, <1>14, <2>5, <3>1 DEF Recoverable
    <3>3. \A f \in Handlers : prep'[f].at # "consumed"
      BY <1>10, <1>12, <1>13 DEF Active
    <3>4. prep[g].run = p
      BY <1>9, <1>11, <1>15, <2>5, <3>1, <3>2, <3>3 DEF Recoverable
    <3>5. Recoverable(p)
      BY <1>1 DEF Recoverable, p
    <3>6. QED
      BY <1>18, <2>5, <3>1, <3>4, <3>5 DEF IInv, Fresh
  <2>6. \A q \in Runs : pc'[q] = "ending" /\ outcome'[q] = "error" /\ q \notin unrecorded'
          => row'[q].fail = done'[q]
    BY <1>1, <1>14 DEF IInv, Tasks, Opened
  <2>7. QED
    BY <2>2, <2>3, <2>4, <2>5, <2>6 DEF Fresh
<1>26. DoneNotRedone'
  BY <1>1, <1>16 DEF IInv, DoneNotRedone
<1>27. QED
  BY <1>19, <1>20, <1>21, <1>22, <1>23, <1>24, <1>25, <1>26 DEF IInv

-----------------------------------------------------------------------------
\* The first run, alone.
LEMMA InitEstablishes == Init => IInv
<1> SUFFICES ASSUME Init
             PROVE  IInv
  OBVIOUS
<1>1. 1 \in Runs /\ Runs \subseteq Nat /\ 0 \in Snaps
  BY RetryAssumption DEF Runs, Snaps
<1>2. Absent \in RowType /\ [Absent EXCEPT !.status = "running"] \in RowType
  BY DEF Absent, RowType
<1>3. Asleep \in PrepType
  BY <1>1 DEF Asleep, PrepType
<1>4. TypeOK
  BY <1>1, <1>2, <1>3 DEF Init, TypeOK, Terminal
<1>5. /\ row[1].status = "running"
      /\ \A r \in Runs \ {1} : row[r].status = "absent"
      /\ \A r \in Runs : /\ row[r].fail = None /\ row[r].of = None /\ ~row[r].paused
                         /\ ~row[r].old /\ ~row[r].ttl
  BY <1>1 DEF Init, Absent
<1>6. /\ pc[1] = "live" /\ \A r \in Runs \ {1} : pc[r] = "none"
      /\ \A r \in Runs : from[r] = 0 /\ done[r] = 0
      /\ \A h \in Handlers : prep[h].at = "idle" /\ prep[h].new = None
  BY <1>1 DEF Init, Asleep
<1>7. \A r \in Runs : Opened(r) <=> r = 1
  BY <1>1, <1>5 DEF Opened
<1>8. Ways = {1} /\ \A r \in Runs : Executed(r) = {}
  <2>1. \A r : r \in Ways <=> r = 1
    BY <1>1, <1>5 DEF Ways
  <2>2. \A r \in Runs : Executed(r) = {}
    BY <1>6 DEF Executed
  <2>3. QED
    BY <2>1, <2>2
<1>9. Tasks
  BY <1>5, <1>6 DEF Tasks
<1>10. Lineage
  BY <1>1, <1>5, <1>6, <1>7, RetryAssumption DEF Lineage, Runs
<1>11. Requests /\ OnePlace
  BY <1>6, <1>8 DEF Requests, OnePlace, Active
<1>12. Coverage
  BY <1>5, <1>6 DEF Coverage
<1>13. Fresh
  BY <1>5, <1>6 DEF Fresh, Bound, Active
<1>14. DoneNotRedone
  BY <1>8 DEF DoneNotRedone
<1>15. QED
  BY <1>4, <1>9, <1>10, <1>11, <1>12, <1>13, <1>14 DEF IInv

\* Every step keeps the invariant.
LEMMA StepKeeps == IInv /\ [Next]_vars => IInv'
<1> SUFFICES ASSUME IInv, [Next]_vars
             PROVE  IInv'
  OBVIOUS
<1>1. CASE UNCHANGED vars
  <2>1. /\ row' = row /\ pc' = pc /\ outcome' = outcome /\ from' = from /\ done' = done
        /\ prep' = prep /\ unrecorded' = unrecorded
    BY <1>1 DEF vars
  <2>2. TypeOK' /\ Tasks' /\ Requests' /\ Recorded'
    BY <2>1 DEF IInv, TypeOK, Tasks, Requests, Fresh, Recorded
  <2>3. 1 \in Runs
    BY RetryAssumption DEF Runs
  <2>4. Quiet(1)
    BY <2>1, <2>2, <2>3 DEF Quiet, Others, Reading, Alike
  <2>5. QED
    BY <2>2, <2>3, <2>4, QuietStep DEF IInv, Shared
<1>2. ASSUME NEW r \in Runs, Work(r)
      PROVE  IInv'
  BY <1>2, ExecutesKeeps, NodeFailsKeeps, PausesKeeps, TasksKeep, EndsKeeps DEF Work
<1>3. ASSUME NEW r \in Runs, Decide(r)
      PROVE  IInv'
  BY <1>3, ClaimsKeeps, TakesAnswerKeeps, AnswerFailsKeeps, ReleasesKeeps, DecisionsKeep
     DEF Decide
<1>4. ASSUME NEW r \in Runs, Ages(r) \/ TtlPasses(r) \/ Reads(r)
      PROVE  IInv'
  BY <1>4, AgesKeeps, TtlPassesKeeps, ReadsKeeps
<1>5. ASSUME NEW h \in Handlers, Prepare(h)
      PROVE  IInv'
  <2>1. ASSUME NEW r \in Runs, PrepareReads(h, r) \/ PrepareCannotRead(h, r)
        PROVE  IInv'
    BY <2>1, PrepareReadsKeeps, PrepareCannotReadKeeps
  <2>2. CASE PrepareRefuses(h) \/ PrepareDies(h)
    BY <2>2, DropKeeps DEF PrepareRefuses, PrepareDies
  <2>3. CASE PrepareConsumes(h)
    BY <2>3, PrepareConsumesKeeps
  <2>4. CASE PrepareStarts(h)
    BY <2>4, PrepareStartsKeeps
  <2>5. ASSUME NEW copied \in BOOLEAN, PrepareCopies(h, copied)
        PROVE  IInv'
    BY <2>5, PrepareCopiesKeeps
  <2>6. QED
    BY <1>5, <2>1, <2>2, <2>3, <2>4, <2>5 DEF Prepare
<1>6. QED
  BY <1>1, <1>2, <1>3, <1>4, <1>5 DEF Next

\* However requests, tasks, reads and deaths interleave, IInv holds: it relates the
\* rows, the tasks that drive them, the requests under way and what each run has done.
THEOREM Invariance == Spec => []IInv
<1>1. Init => IInv
  BY InitEstablishes
<1>2. IInv /\ [Next]_vars => IInv'
  BY StepKeeps
<1>3. QED
  BY <1>1, <1>2, PTL DEF Spec

\* A failure is taken up once (prepare_retry's compare-and-swap on failure_state,
\* _give_back_retry): one run, or one consumed snapshot, from which the work goes on.
THEOREM OneWay == Spec => []OneWayOn
<1>1. IInv => OneWayOn
  <2> SUFFICES ASSUME IInv
               PROVE  OneWayOn
    OBVIOUS
  <2> DEFINE Consumed == {h \in Handlers : prep[h].at = "consumed"}
  <2>1. CASE Ways = {}
    <3>1. Cardinality(Ways) = 0
      BY <2>1, FS_EmptySet
    <3>2. Consumed = {} \/ \E h : Consumed = {h}
      BY DEF IInv, OnePlace, Active
    <3>3. Cardinality(Consumed) \in {0, 1}
      BY <3>2, FS_EmptySet, FS_Singleton
    <3>4. QED
      BY <3>1, <3>3 DEF OneWayOn
  <2>2. CASE Ways # {}
    <3>1. \E r : Ways = {r}
      <4>1. PICK r : r \in Ways
        BY <2>2
      <4>2. \A s \in Ways : s = r
        BY <4>1 DEF IInv, OnePlace
      <4>3. QED
        BY <4>1, <4>2
    <3>2. Cardinality(Ways) = 1
      BY <3>1, FS_Singleton
    <3>3. Consumed = {}
      BY <2>2 DEF IInv, OnePlace
    <3>4. Cardinality(Consumed) = 0
      BY <3>3, FS_EmptySet
    <3>5. QED
      BY <3>2, <3>4 DEF OneWayOn
  <2>3. QED
    BY <2>1, <2>2
<1>2. QED
  BY <1>1, Invariance, PTL

\* What a run has done and recorded is replayed by the runs after it, never done again
\* (prepare_retry).
THEOREM NotRedone == Spec => []DoneNotRedone
<1>1. IInv => DoneNotRedone
  BY DEF IInv
<1>2. QED
  BY <1>1, Invariance, PTL

\* A retry that succeeds has every node behind it, done by it or by a run before it
\* (prepare_retry, mark_decided, finish_run).
THEOREM SkipsNothing == Spec => []NothingSkipped
<1>1. IInv => NothingSkipped
  <2> SUFFICES ASSUME IInv, NEW r \in Runs, row[r].status = "success", NEW k \in 1..Nodes
               PROVE  \E s \in 1..r : k \in Executed(s)
    BY DEF NothingSkipped
  <2>1. done[r] = Nodes
    BY DEF IInv, Tasks
  <2>2. PICK s \in Runs : s <= r /\ k \in Executed(s)
    BY <2>1 DEF IInv, Coverage
  <2>3. s \in 1..r
    BY <2>2 DEF Runs
  <2>4. QED
    BY <2>2, <2>3
<1>2. QED
  BY <1>1, Invariance, PTL

-----------------------------------------------------------------------------
(* No failure is lost but by one of the ways of GivenUp.                    *)

Held(rows, q) == rows[q].fail # None /\ rows[q].status \in {"running", "awaiting", "error"}

\* A retry that gives back finds its original without a snapshot of its own.
LEMMA GivesIt ==
    ASSUME IInv, NEW r \in Runs, row[r].status = "running", row[r].of # None,
           row[r].fail # None
    PROVE  row[r].of \in Runs \ {r} /\ Gives(row, r, row[r].of)
<1> DEFINE o == row[r].of
<1>1. o \in Runs
  BY DEF IInv, TypeOK, RowType
<1>2. row[o].status = "error" /\ o # r
  BY <1>1 DEF IInv, Lineage
<1>3. r \in Ways
  BY DEF Ways
<1>4. row[o].fail = None
  BY <1>1, <1>2, <1>3 DEF Ways, IInv, OnePlace
<1>5. QED
  BY <1>1, <1>2, <1>4 DEF Gives

\* A purge takes nothing whose time has not come.
LEMMA PurgeHolds ==
    ASSUME IInv, NEW q \in Runs, Held(row, q), ~row[q].ttl
    PROVE  Held(Purged(row), q)
<1>1. row \in Rows
  BY DEF IInv, TypeOK, Rows
<1>2. Alike(Purged(row)[q], row[q]) /\ Purged(row)[q].fail = row[q].fail
  BY <1>1, PurgedRows
<1>3. QED
  BY <1>2 DEF Held, Alike

\* A read leaves a failure where it was, or with the run it came from.
LEMMA ReadHolds ==
    ASSUME IInv, NEW r \in Runs, NEW q \in Runs, Held(row, q), ~row[q].ttl
    PROVE  \E s \in Runs : Held(Reconciled(Purged(row), r), s)
<1> DEFINE kept == Purged(row)
           rows == Reconciled(kept, r)
<1>1. row \in Rows
  BY DEF IInv, TypeOK, Rows
<1>2. kept \in Rows /\ \A s \in Runs :
          /\ Alike(kept[s], row[s])
          /\ kept[s].fail = IF row[s].ttl THEN None ELSE row[s].fail
  BY <1>1, PurgedRows
<1>3. Held(kept, q)
  BY <1>2 DEF Held, Alike
<1> HIDE DEF kept
<1>4. Stale(kept, r) <=> Stale(row, r)
  BY <1>2 DEF Stale, Alike
<1>5. CASE ~Stale(row, r)
  <2>1. rows = kept
    BY <1>2, <1>4, <1>5 DEF Reconciled, Stale, Rows, RowType
  <2>2. QED
    BY <1>3, <2>1 DEF kept
<1>6. CASE Stale(row, r)
  <2>1. row[r].of # r /\ kept[r].of = row[r].of /\ ~row[r].ttl /\ kept[r].fail = row[r].fail
    BY <1>2, <1>6 DEF Stale, IInv, Lineage, Alike
  <2>2. /\ kept[r].paused =>
              /\ \A s \in Runs \ {r} : rows[s] = kept[s]
              /\ rows[r].status = "awaiting" /\ rows[r].fail = kept[r].fail
        /\ ~kept[r].paused =>
              /\ \A s \in Runs \ {r} :
                    /\ Alike(rows[s], kept[s])
                    /\ rows[s].fail = IF Gives(kept, r, s) THEN kept[r].fail
                                      ELSE kept[s].fail
              /\ rows[r].status = "error"
              /\ rows[r].fail = IF kept[r].of = None THEN kept[r].fail ELSE None
    BY <1>2, <1>4, <1>6, <2>1, ReconciledRows
  <2> HIDE DEF rows, kept
  <2>3. CASE q # r
    <3>1. Held(rows, q)
      BY <1>3, <2>2, <2>3 DEF Held, Alike, Gives
    <3>2. QED
      BY <3>1 DEF rows, kept
  <2>4. CASE q = r /\ (kept[r].paused \/ kept[r].of = None)
    <3>1. Held(rows, q)
      BY <1>3, <2>2, <2>4 DEF Held
    <3>2. QED
      BY <3>1 DEF rows, kept
  <2>5. CASE q = r /\ ~kept[r].paused /\ kept[r].of # None
    <3> DEFINE o == row[r].of
    <3>1. row[r].fail # None
      BY <2>1, <2>5, <1>3 DEF Held
    <3>2. o \in Runs \ {r} /\ Gives(row, r, o)
      BY <1>6, <2>1, <2>5, <3>1, GivesIt DEF Stale
    <3>3. Gives(kept, r, o) /\ kept[o].status = "error"
      BY <1>2, <2>1, <3>1, <3>2 DEF Gives, Alike
    <3>4. Held(rows, o)
      BY <2>1, <2>2, <2>5, <3>1, <3>2, <3>3 DEF Held, Alike
    <3>5. QED
      BY <3>2, <3>4 DEF rows, kept
  <2>6. QED
    BY <2>3, <2>4, <2>5
<1>7. QED
  BY <1>5, <1>6

\* Kept, by row and by request.
LEMMA KeptIs ==
    Kept <=> \/ \E q \in Runs : Held(row, q)
             \/ \E h \in Handlers : Active(h)
  BY DEF Kept, Held, Active

\* Kept after a step.
LEMMA KeptNext ==
    Kept' <=> \/ \E q \in Runs : Held(row', q)
              \/ \E h \in Handlers : Active(h)'
  BY DEF Kept, Held, Active

\* A row that keeps its failure and stays open, or fails, still holds it.
LEMMA StaysHeld ==
    ASSUME NEW q \in Runs, Held(row, q), row'[q].fail = row[q].fail,
           row'[q].status \in {"running", "awaiting", "error"}
    PROVE  Kept'
  BY KeptNext DEF Held

\* The task of a run, or its decision.
LEMMA RunKeepsFailures ==
    ASSUME IInv, NEW r \in Runs, NEW q \in Runs, Held(row, q), ~row[q].ttl,
           Work(r) \/ Decide(r)
    PROVE  Kept' \/ GivenUp
<1>0. row \in Rows /\ done[r] \in Snaps /\ done[r] # None
  BY RetryAssumption DEF IInv, TypeOK, Rows, Snaps
<1>1. CASE row' = row
  BY <1>1, StaysHeld DEF Held
<1>2. CASE row' = WithFailure(row, r, done[r]) /\ row[r].status = "running"
  <2>1. Alike(row'[r], row[r]) /\ row'[r].fail = done[r]
    BY <1>0, <1>2, WithFailureRows
  <2>2. Held(row', r)
    BY <1>0, <1>2, <2>1 DEF Held, Alike
  <2>3. QED
    BY <2>2, KeptNext
<1>3. ASSUME NEW status \in {"running", "awaiting", "error"}, NEW paused \in BOOLEAN,
             Moved(r, status, paused)
      PROVE  Kept'
  <2>1. /\ \A s \in Runs \ {r} : row'[s] = row[s]
        /\ row'[r].status = status /\ row'[r].fail = row[r].fail
    BY <1>3, StatusRows DEF Terminal
  <2>2. QED
    BY <2>1, StaysHeld DEF Held
<1>4. CASE Ends(r)
  <2> DEFINE status == outcome[r]
  <2>1. status \in Terminal /\ row[r].status = "running" /\ row' = Finished(row, r, status)
    BY <1>4 DEF IInv, TypeOK, Tasks, Ends
  <2> HIDE DEF status
  <2>2. /\ \A s \in Runs \ {r} :
            /\ Alike(row'[s], row[s])
            /\ row'[s].fail = IF status = "cancelled" /\ Gives(row, r, s) THEN row[r].fail
                              ELSE row[s].fail
        /\ row'[r].status = status
        /\ row'[r].fail = IF status = "error" THEN row[r].fail ELSE None
    BY <1>0, <2>1, FinishedRows
  <2>3. CASE status = "success"
    BY <2>1, <2>2, <2>3 DEF GivenUp
  <2>4. CASE status = "error"
    BY <2>2, <2>4, StaysHeld DEF Held, Alike
  <2>5. CASE status = "cancelled" /\ row[r].of = None
    BY <2>1, <2>2, <2>5 DEF GivenUp
  <2>6. CASE status = "cancelled" /\ row[r].of # None /\ q # r
    <3>1. ~Gives(row, r, q)
      BY DEF Gives, Held
    <3>2. QED
      BY <2>2, <2>6, <3>1, StaysHeld DEF Held, Alike
  <2>7. CASE status = "cancelled" /\ row[r].of # None /\ q = r
    <3> DEFINE o == row[r].of
    <3>1. row[r].fail # None
      BY <2>7 DEF Held
    <3>2. o \in Runs \ {r} /\ Gives(row, r, o)
      BY <2>1, <2>7, <3>1, GivesIt
    <3>3. Held(row', o)
      BY <2>2, <2>7, <3>1, <3>2 DEF Held, Alike, Gives
    <3>4. QED
      BY <3>2, <3>3, KeptNext
  <2>8. QED
    BY <2>1, <2>3, <2>4, <2>5, <2>6, <2>7 DEF Terminal
<1>5. CASE Pauses(r)
  <2> DEFINE mine == [row[r] EXCEPT !.status = "awaiting", !.paused = TRUE,
                                    !.old = FALSE, !.ttl = FALSE]
  <2>1. row' = [s \in Runs |-> IF s = r THEN mine ELSE row[s]]
    BY <1>5 DEF Pauses, IInv, TypeOK
  <2>2. row[r] \in RowType
    BY DEF IInv, TypeOK
  <2>3. mine.status = "awaiting" /\ mine.fail = row[r].fail
    BY <2>2 DEF RowType
  <2> HIDE DEF mine
  <2>4. QED
    BY <2>1, <2>3, StaysHeld DEF Held
<1>6. CASE Claims(r)
  <2>1. Moved(r, "running", TRUE)
    BY <1>6, SameRow DEF IInv, Tasks, Claims
  <2>2. QED
    BY <1>3, <2>1
<1>7. CASE Releases(r)
  <2>1. CASE Unanswered(r)
    <3>1. Moved(r, "awaiting", TRUE)
      BY <1>7, <2>1, SameRow DEF IInv, Releases, Unanswered
    <3>2. QED
      BY <1>3, <3>1
  <2>2. CASE ~Unanswered(r)
    BY <1>1, <1>7, <2>2 DEF Releases
  <2>3. QED
    BY <2>1, <2>2
<1>8. CASE TakesAnswer(r)
  <2>1. CASE Unanswered(r)
    <3> DEFINE mine == [row[r] EXCEPT !.paused = FALSE]
    <3>1. row' = [s \in Runs |-> IF s = r THEN mine ELSE row[s]]
      BY <1>8, <2>1 DEF TakesAnswer, IInv, TypeOK
    <3>2. row[r] \in RowType
      BY DEF IInv, TypeOK
    <3>3. mine.status = row[r].status /\ mine.fail = row[r].fail
      BY <3>2 DEF RowType
    <3> HIDE DEF mine
    <3>4. QED
      BY <3>1, <3>3, StaysHeld DEF Held
  <2>2. CASE ~Unanswered(r)
    BY <1>1, <1>8, <2>2 DEF TakesAnswer
  <2>3. QED
    BY <2>1, <2>2
<1>9. CASE Expires(r)
  <2>1. Moved(r, "error", FALSE)
    BY <1>9 DEF Expires, Closed, Moved
  <2>2. QED
    BY <1>3, <2>1
<1>10. CASE StopsUnanswered(r) \/ Abandons(r)
  BY <1>10 DEF GivenUp
<1>11. CASE NodeFails(r)
  BY <1>1, <1>2, <1>11 DEF NodeFails, IInv, Tasks
<1>12. CASE AnswerFails(r)
  BY <1>1, <1>2, <1>12 DEF AnswerFails, IInv, Tasks
<1>13. CASE Executes(r) \/ PauseFails(r) \/ Completes(r) \/ Stopped(r) \/ Dies(r)
  BY <1>1, <1>13 DEF Executes, PauseFails, Completes, Stopped, Dies
<1>14. QED
  BY <1>4, <1>5, <1>6, <1>7, <1>8, <1>9, <1>10, <1>11, <1>12, <1>13 DEF Work, Decide

\* The steps of a request.
LEMMA RequestKeepsFailures ==
    ASSUME IInv, Kept, \A q \in Runs : Held(row, q) => ~row[q].ttl,
           NEW h \in Handlers, Prepare(h)
    PROVE  Kept' \/ GivenUp
<1>0. prep \in [Handlers -> PrepType]
  BY DEF IInv, TypeOK
<1>1. ASSUME prep' = prep, \A q \in Runs : Held(row, q) => \E s \in Runs : Held(row', s)
      PROVE  Kept'
  BY <1>1, KeptIs, KeptNext DEF Active
<1>2. ASSUME row' = row, prep[h].at = "checked", prep' = [prep EXCEPT ![h] = Asleep]
      PROVE  Kept'
  <2>1. \A g \in Handlers : Active(g) => Active(g)'
    BY <1>0, <1>2 DEF Active
  <2>2. QED
    BY <1>2, <2>1, KeptIs, KeptNext
<1>3. ASSUME NEW r \in Runs, PrepareReads(h, r)
      PROVE  Kept'
  <2> DEFINE rows == Reconciled(Purged(row), r)
  <2>1. CASE rows[r].status = "error" /\ rows[r].fail # None
    <3>1. row' = rows
      BY <1>3, <2>1 DEF PrepareReads
    <3>2. Held(row', r)
      BY <2>1, <3>1 DEF Held
    <3>3. QED
      BY <3>2, KeptNext
  <2>2. CASE ~(rows[r].status = "error" /\ rows[r].fail # None)
    <3>1. row' = Purged(row) /\ prep' = prep
      BY <1>3, <2>2 DEF PrepareReads
    <3>2. QED
      BY <1>1, <3>1, PurgeHolds
  <2>3. QED
    BY <2>1, <2>2
<1>4. CASE PrepareRefuses(h)
  BY <1>2, <1>4 DEF PrepareRefuses
<1>5. CASE PrepareConsumes(h)
  <2>1. CASE row[prep[h].run].fail # None
    <3>1. prep' = [prep EXCEPT ![h].at = "consumed"]
      BY <1>5, <2>1 DEF PrepareConsumes
    <3>2. prep[h] \in PrepType
      BY <1>0
    <3>3. prep'[h].at = "consumed"
      BY <1>0, <3>1, <3>2 DEF PrepType
    <3>4. QED
      BY <3>3, KeptNext DEF Active
  <2>2. CASE row[prep[h].run].fail = None
    BY <1>2, <1>5, <2>2 DEF PrepareConsumes
  <2>3. QED
    BY <2>1, <2>2
<1>6. CASE PrepareStarts(h)
  <2>1. PICK new \in Runs : prep' = [prep EXCEPT ![h].at = "started", ![h].new = new]
    BY <1>6 DEF PrepareStarts
  <2> DEFINE one == [prep[h] EXCEPT !.at = "started", !.new = new]
  <2>2. prep[h] \in PrepType /\ prep' = [g \in Handlers |-> IF g = h THEN one ELSE prep[g]]
    BY <1>0, <2>1
  <2>3. one.at = "started"
    BY <2>2 DEF PrepType
  <2> HIDE DEF one
  <2>4. prep'[h].at = "started"
    BY <2>2, <2>3
  <2>5. QED
    BY <2>4, KeptNext DEF Active
<1>7. CASE PrepareCopies(h, TRUE)
  <2> DEFINE new == prep[h].new
  <2>1. /\ new \in Runs /\ row[new].status = "running" /\ row' = WithFailure(row, new, prep[h].snap)
        /\ row \in Rows /\ prep[h].snap \in Snaps /\ prep[h].snap # None
    BY <1>7, RetryAssumption DEF PrepareCopies, IInv, Requests, TypeOK, PrepType, Rows, Snaps
  <2>2. Alike(row'[new], row[new]) /\ row'[new].fail = prep[h].snap
    BY <2>1, WithFailureRows
  <2>3. Held(row', new)
    BY <2>1, <2>2 DEF Held, Alike
  <2>4. QED
    BY <2>1, <2>3, KeptNext
<1>8. CASE PrepareDies(h) \/ PrepareCopies(h, FALSE) \/ \E r \in Runs : PrepareCannotRead(h, r)
  BY <1>8 DEF GivenUp
<1>9. QED
  BY <1>3, <1>4, <1>5, <1>6, <1>7, <1>8 DEF Prepare

\* A failure that may be taken up again still may after any step but success, its time
\* to live, or a stop that gives nothing back (_give_back_retry, prepare_retry).
THEOREM KeepsFailures == Spec => FailureKept
<1>1. ASSUME IInv, [Next]_vars, Kept
      PROVE  Kept' \/ GivenUp
  <2>1. CASE UNCHANGED vars
    BY <1>1, <2>1 DEF vars, Kept
  <2>2. CASE \E q \in Runs : Held(row, q) /\ row[q].ttl
    BY <2>2 DEF GivenUp, Held
  <2>3. CASE Next /\ \A q \in Runs : Held(row, q) => ~row[q].ttl
    <3>1. ASSUME NEW h \in Handlers, Prepare(h)
          PROVE  Kept' \/ GivenUp
      BY <1>1, <2>3, <3>1, RequestKeepsFailures
    <3>2. ASSUME NEW r \in Runs,
                 Work(r) \/ Decide(r) \/ Ages(r) \/ TtlPasses(r) \/ Reads(r)
          PROVE  Kept' \/ GivenUp
      <4>0. prep' = prep
        BY <3>2 DEF Work, Decide, Ages, TtlPasses, Reads, Executes, NodeFails, Pauses,
             PauseFails, Completes, Stopped, Ends, Dies, Claims, TakesAnswer, AnswerFails,
             Releases, StopsUnanswered, Abandons, Expires, Closed, task
      <4>1. CASE \E h \in Handlers : Active(h)
        BY <4>0, <4>1, KeptNext DEF Active
      <4>2. ASSUME NEW q \in Runs, Held(row, q)
            PROVE  Kept' \/ GivenUp
        <5>1. ~row[q].ttl
          BY <2>3, <4>2
        <5>2. CASE Work(r) \/ Decide(r)
          BY <1>1, <4>2, <5>1, <5>2, RunKeepsFailures
        <5>3. CASE Reads(r)
          <6>1. \E s \in Runs : Held(row', s)
            BY <1>1, <4>2, <5>1, <5>3, ReadHolds DEF Reads
          <6>2. QED
            BY <6>1, KeptNext
        <5>4. CASE Ages(r) \/ TtlPasses(r)
          <6>1. row'[q].fail = row[q].fail /\ row'[q].status = row[q].status
            <7>1. row[q] \in RowType /\ row \in [Runs -> RowType]
              BY <1>1 DEF IInv, TypeOK
            <7>2. CASE row' = [row EXCEPT ![r].old = TRUE]
              BY <7>1, <7>2 DEF RowType
            <7>3. CASE row' = [row EXCEPT ![r].ttl = TRUE]
              BY <7>1, <7>3 DEF RowType
            <7>4. QED
              BY <5>4, <7>2, <7>3 DEF Ages, TtlPasses
          <6>2. QED
            BY <4>2, <6>1, StaysHeld DEF Held
        <5>5. QED
          BY <3>2, <5>2, <5>3, <5>4
      <4>3. QED
        BY <1>1, <4>1, <4>2, KeptIs
    <3>3. QED
      BY <2>3, <3>1, <3>2 DEF Next
  <2>4. QED
    BY <1>1, <2>1, <2>2, <2>3
<1>2. IInv /\ [Next]_vars => [Kept => (Kept' \/ GivenUp)]_vars
  BY <1>1
<1>3. QED
  BY <1>2, Invariance, PTL DEF Spec, FailureKept
=============================================================================
