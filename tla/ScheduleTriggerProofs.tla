------------------------- MODULE ScheduleTriggerProofs -------------------------
(***************************************************************************)
(* What holds of a "schedule" trigger for any plans, runs, saves and        *)
(* crashes, when callbacks are not late, no task outlasts the six hours     *)
(* after which its run is taken for an orphan, and ticks do not straddle    *)
(* slots in two processes.                                                  *)
(***************************************************************************)
EXTENDS ScheduleTrigger, FiniteSetTheorems, WellFoundedInduction, TLAPS

OneProcess == \A p, q \in Processes : p = q

\* A callback comes before the next step of a tick; a task ends within six hours; a tick
\* of several processes is over before the next slot.
Orderly == ~SlowEnds /\ ~LongRuns /\ (OneProcess \/ ~SlowTicks)

RowType ==
    [active : BOOLEAN, config : Versions, nextAt : Nat,
     status : {"none", "running", "awaiting", "over", "error"},
     run : Runs \cup {None}, aged : BOOLEAN]

TickType ==
    [at : {"idle", "read", "launching"} \cup Stretch, row : RowType, now : Nat]

RunType ==
    [status : {"none", "running", "awaiting", "over"}, driver : Processes \cup {None},
     home : Processes \cup {None}, told : {"waits", "due", "done"},
     config : Versions, now : Nat, old : BOOLEAN]

TypeOK ==
    /\ clock \in Nat
    /\ wf \in Workflow
    /\ saving \in [Processes -> Workflow \cup {None}]
    /\ trig \in RowType
    /\ tick \in [Processes -> TickType]
    /\ runs \in [Runs -> RunType]
    /\ launched \in [Slots -> Nat]

Active(p) == tick[p].at # "idle"
Taken(p) == tick[p].at \in {"marking", "refused", "launching"}

\* Ticks under way began at the same slot, with a slot that was due.
Ticks ==
    /\ \A p \in Processes : Active(p) =>
          /\ tick[p].now <= clock /\ tick[p].row.nextAt \in 1..tick[p].now
          /\ OneProcess \/ tick[p].now = clock
    /\ \A p, q \in Processes : Taken(p) /\ Taken(q) => p = q

\* A run whose callback is to come is driven by its process, or has just stopped.
Told(r) ==
    /\ runs[r].told = "waits" =>
          /\ runs[r].status = "running"
          /\ runs[r].driver # None /\ runs[r].driver = runs[r].home
    /\ runs[r].told = "due" => runs[r].status \in {"over", "awaiting"}
    /\ runs[r].status = "none" => runs[r].told = "done"
    /\ runs[r].driver # None => runs[r].status = "running" /\ ~runs[r].old

\* The row knows of the run that is under way.
Shown(r) ==
    /\ Open(r) =>
          /\ trig.run = r
          /\ runs[r].told = "waits" => trig.status = "running" /\ ~trig.aged
          /\ runs[r].told = "done" => trig.status = "awaiting"
    /\ runs[r].told # "done" => trig.run = r

\* What a tick read tells that r holds the slot.
Reads(p, r) ==
    /\ tick[p].row.run = r
    /\ \/ tick[p].row.status = "running" /\ ~tick[p].row.aged
       \/ tick[p].row.status = "awaiting"

\* next_run_at is past the slots that p may take, and stays there.
Ahead(p) ==
    /\ trig.nextAt = 0 \/ tick[p].now < trig.nextAt
    /\ \A r \in Runs : runs[r].told # "done" => tick[p].now <= runs[r].now

\* Whoever may still take a slot saw the run that is open, or finds next_run_at moved.
Watched(p) ==
    /\ \A r \in Runs : tick[p].at = "read" /\ Open(r) => Reads(p, r) \/ Ahead(p)
    /\ \A r \in Runs : tick[p].at = "reserving" /\ Open(r) => Ahead(p)
    /\ Taken(p) =>
          /\ Ahead(p)
          /\ \A r \in Runs : ~Open(r) /\ runs[r].told = "done"
    /\ tick[p].at = "launching" => trig.status = "running"

\* A slot that was launched is behind next_run_at, and whatever may move it.
Behind(s) ==
    /\ launched[s] <= 1
    /\ launched[s] # 0 =>
          /\ s <= clock
          /\ trig.nextAt = 0 \/ s < trig.nextAt
          /\ \A p \in Processes : Active(p) => s <= tick[p].now
          /\ \A r \in Runs : runs[r].told # "done" => s <= runs[r].now
    /\ \A p \in Processes : Taken(p) /\ tick[p].row.nextAt = s => launched[s] = 0

IInv ==
    /\ TypeOK
    /\ Ticks
    /\ \A r \in Runs : Told(r) /\ Shown(r)
    /\ \A p \in Processes : Watched(p)
    /\ \A s \in Slots : Behind(s)

-----------------------------------------------------------------------------
(* Types.                                                                   *)

\* compute_next_run answers a slot that is strictly later, or none.
LEMMA NextRunIs ==
    ASSUME NEW version \in Versions, NEW after \in Nat
    PROVE  /\ NextRun(version, after) \in Nat
           /\ NextRun(version, after) = 0 \/ after < NextRun(version, after)
<1> DEFINE later == {s \in Plans[version] : s > after}
<1>1. later \subseteq Nat
  BY TriggerAssumption DEF Slots
<1>2. CASE later = {}
  BY <1>2 DEF NextRun
<1>3. CASE later # {}
  <2>1. \E x \in later : \A y \in later : ~ (<<y, x>> \in OpToRel(<, Nat))
    BY <1>1, <1>3, NatLessThanWellFounded, WFMin
  <2>2. \E x \in later : \A y \in later : x <= y
    <3> HIDE DEF later
    <3>1. PICK x \in later : \A y \in later : ~ (y < x)
      BY <1>1, <2>1 DEF OpToRel
    <3>2. \A y \in later : x <= y
      BY <1>1, <3>1
    <3>3. QED
      BY <3>2
  <2>3. Min(later) \in later
    <3> HIDE DEF later
    <3>1. QED
      BY <2>2 DEF Min
  <2>4. NextRun(version, after) = Min(later)
    BY <1>3 DEF NextRun
  <2>5. QED
    BY <1>1, <2>3, <2>4
<1>4. QED
  BY <1>2, <1>3

\* get_run reconciles a run that is six hours old, and changes nothing else of it.
LEMMA SettledIs ==
    ASSUME NEW one \in RunType
    PROVE  /\ Settled(one) \in RunType
           /\ Settled(one).driver = one.driver /\ Settled(one).told = one.told
           /\ Settled(one).now = one.now /\ Settled(one).home = one.home
           /\ Settled(one).config = one.config
           /\ \/ Settled(one).status = one.status
              \/ /\ Settled(one).status = "over" /\ one.status = "running"
                 /\ one.old
           /\ Settled(one).old = one.old
  BY DEF Settled, RunType

LEMMA SettledRunsAre ==
    ASSUME TypeOK, NEW q \in Runs \cup {None}
    PROVE  /\ SettledRuns(q) \in [Runs -> RunType]
           /\ \A r \in Runs : SettledRuns(q)[r] \in {runs[r], Settled(runs[r])}
<1>1. \A r \in Runs : Settled(runs[r]) \in RunType
  BY SettledIs DEF TypeOK
<1>2. SettledRuns(q) = IF q = None THEN runs ELSE [runs EXCEPT ![q] = Settled(runs[q])]
  BY DEF SettledRuns
<1>3. QED
  BY <1>1, <1>2 DEF TypeOK

\* A tick rests.
LEMMA RestsIs ==
    ASSUME TypeOK, NEW p \in Processes, trig' \in RowType, Rests(p)
    PROVE  /\ tick' \in [Processes -> TickType] /\ tick'[p].at = "idle"
           /\ \A q \in Processes \ {p} : tick'[q] = tick[q]
<1> DEFINE rest == [at |-> "idle", row |-> trig', now |-> 0]
<1>1. rest \in TickType /\ rest.at = "idle"
  BY DEF TickType
<1>2. tick' = [tick EXCEPT ![p] = rest]
  BY DEF Rests
<1> HIDE DEF rest
<1>3. QED
  BY <1>1, <1>2 DEF TypeOK

\* A tick goes on with the row it read.
LEMMA GoesIs ==
    ASSUME TypeOK, NEW p \in Processes,
           NEW place \in {"skipping", "reserving", "marking", "refused", "launching"},
           Goes(p, place)
    PROVE  /\ tick' \in [Processes -> TickType] /\ tick'[p].at = place
           /\ tick'[p].row = tick[p].row /\ tick'[p].now = tick[p].now
           /\ \A q \in Processes \ {p} : tick'[q] = tick[q]
<1> DEFINE one == [tick[p] EXCEPT !.at = place]
<1>1. tick[p] \in TickType /\ tick' = [q \in Processes |-> IF q = p THEN one ELSE tick[q]]
  BY DEF Goes, TypeOK
<1>2. one \in TickType /\ one.at = place /\ one.row = tick[p].row /\ one.now = tick[p].now
  BY <1>1 DEF TickType, Stretch
<1> HIDE DEF one
<1>3. QED
  BY <1>1, <1>2 DEF TypeOK

\* What the steps of a run write of it: where its task is, what became of its callback.
LEMMA EndedIs ==
    ASSUME NEW one \in RunType, NEW status \in {"over", "awaiting"}
    PROVE  /\ Ended(one, status) \in RunType
           /\ Ended(one, status).status = status /\ Ended(one, status).driver = None
           /\ Ended(one, status).now = one.now
           /\ Ended(one, status).told = IF one.told = "waits" THEN "due" ELSE one.told
<1> DEFINE told == IF one.told = "waits" THEN "due" ELSE one.told
           new == [one EXCEPT !.status = status, !.driver = None, !.told = told]
<1>1. told \in {"waits", "due", "done"} /\ Ended(one, status) = new
  BY DEF RunType, Ended
<1> HIDE DEF told
<1>2. /\ new \in RunType /\ new.status = status /\ new.driver = None
      /\ new.now = one.now /\ new.told = told
  BY <1>1 DEF RunType
<1> HIDE DEF new
<1>3. QED
  BY <1>1, <1>2 DEF told

LEMMA RunStopsIs ==
    ASSUME TypeOK, NEW r \in Runs, RunStops(r)
    PROVE  /\ runs' \in [Runs -> RunType] /\ \A q \in Runs \ {r} : runs'[q] = runs[q]
           /\ runs'[r].status \in {"over", "awaiting"} /\ runs'[r].driver = None
           /\ runs'[r].now = runs[r].now
           /\ runs'[r].told = IF runs[r].told = "waits" THEN "due" ELSE runs[r].told
<1>1. PICK status \in {"over", "awaiting"} :
          runs' = [runs EXCEPT ![r] = Ended(runs[r], status)]
  BY DEF RunStops
<1>2. QED
  BY <1>1, EndedIs DEF TypeOK

LEMMA RunResumesIs ==
    ASSUME TypeOK, NEW r \in Runs, NEW p \in Processes, RunResumes(r, p)
    PROVE  /\ runs' \in [Runs -> RunType] /\ \A q \in Runs \ {r} : runs'[q] = runs[q]
           /\ runs'[r].status = "running" /\ runs'[r].driver = p /\ ~runs'[r].old
           /\ runs'[r].now = runs[r].now /\ runs'[r].told = runs[r].told
<1> DEFINE one == [runs[r] EXCEPT !.status = "running", !.driver = p, !.old = FALSE]
<1>1. /\ runs[r] \in RunType
      /\ runs' = [q \in Runs |-> IF q = r THEN one ELSE runs[q]]
  BY DEF RunResumes, TypeOK
<1>2. /\ one \in RunType /\ one.status = "running" /\ one.driver = p /\ ~one.old
      /\ one.now = runs[r].now /\ one.told = runs[r].told
  BY <1>1 DEF RunType
<1> HIDE DEF one
<1>3. QED
  BY <1>1, <1>2 DEF TypeOK

LEMMA RunMovesAre ==
    ASSUME TypeOK, NEW r \in Runs, RunUnanswered(r) \/ RunAges(r)
    PROVE  /\ runs' \in [Runs -> RunType] /\ \A q \in Runs \ {r} : runs'[q] = runs[q]
           /\ runs'[r].driver = runs[r].driver
           /\ runs'[r].now = runs[r].now /\ runs'[r].told = runs[r].told
           /\ runs'[r].status = IF RunAges(r) THEN runs[r].status ELSE "over"
           /\ runs'[r].old => runs[r].old \/ RunAges(r)
<1>1. CASE RunAges(r)
  <2>1. runs' = [runs EXCEPT ![r].old = TRUE]
    BY <1>1 DEF RunAges
  <2>2. QED
    BY <1>1, <2>1 DEF TypeOK, RunType
<1>2. CASE ~RunAges(r) /\ RunUnanswered(r)
  <2>1. runs' = [runs EXCEPT ![r].status = "over"]
    BY <1>2 DEF RunUnanswered
  <2>2. QED
    BY <1>2, <2>1 DEF TypeOK, RunType
<1>3. QED
  BY <1>1, <1>2

LEMMA CallbackIs ==
    ASSUME TypeOK, NEW r \in Runs, Callback(r)
    PROVE  /\ runs' \in [Runs -> RunType] /\ \A q \in Runs \ {r} : runs'[q] = runs[q]
           /\ runs'[r].told = "done"
           /\ runs'[r].status = Settled(runs[r]).status /\ runs'[r].driver = runs[r].driver
           /\ trig' \in RowType /\ trig'.run = trig.run /\ trig'.aged = trig.aged
           /\ trig'.status = Settled(runs[r]).status
           /\ trig'.nextAt = NextRun(runs[r].config, runs[r].now)
<1> DEFINE same == Settled(runs[r])
           one == [same EXCEPT !.told = "done"]
           next == NextRun(runs[r].config, runs[r].now)
<1>1. runs[r] \in RunType
  BY DEF TypeOK
<1>2. same \in RunType /\ same.driver = runs[r].driver /\ next \in Nat
  BY <1>1, SettledIs, NextRunIs DEF RunType
<1>3. /\ runs' = [q \in Runs |-> IF q = r THEN one ELSE runs[q]]
      /\ trig' = [trig EXCEPT !.status = same.status, !.nextAt = next]
  BY DEF Callback, TypeOK
<1>4. same.status # "none" => same.status \in {"running", "awaiting", "over"}
  BY <1>2 DEF RunType
<1> HIDE DEF same, next
<1>5. /\ one \in RunType /\ one.told = "done" /\ one.status = same.status
      /\ one.driver = same.driver
  BY <1>2 DEF RunType
<1> HIDE DEF one
<1>6. runs' \in [Runs -> RunType] /\ runs'[r] = one /\ \A q \in Runs \ {r} : runs'[q] = runs[q]
  BY <1>3, <1>5 DEF TypeOK
<1>7. same.status \in {"none", "running", "awaiting", "over"}
  BY <1>2 DEF RunType
<1>8. /\ trig' \in RowType /\ trig'.run = trig.run /\ trig'.aged = trig.aged
      /\ trig'.status = same.status /\ trig'.nextAt = next
  BY <1>2, <1>3, <1>7 DEF TypeOK, RowType
<1>9. QED
  BY <1>2, <1>5, <1>6, <1>8 DEF same, next

LEMMA CrashIs ==
    ASSUME TypeOK, NEW p \in Processes, Crash(p)
    PROVE  /\ runs' \in [Runs -> RunType]
           /\ \A r \in Runs :
                 /\ runs'[r].status = runs[r].status /\ runs'[r].now = runs[r].now
                 /\ runs'[r].home = runs[r].home /\ runs'[r].old = runs[r].old
                 /\ runs'[r].driver = IF runs[r].driver = p THEN None ELSE runs[r].driver
                 /\ runs'[r].told = IF runs[r].home = p THEN "done" ELSE runs[r].told
<1> DEFINE driver(r) == IF runs[r].driver = p THEN None ELSE runs[r].driver
           told(r) == IF runs[r].home = p THEN "done" ELSE runs[r].told
           one(r) == [runs[r] EXCEPT !.driver = driver(r), !.told = told(r)]
<1>1. runs' = [r \in Runs |-> one(r)]
  BY DEF Crash
<1>2. ASSUME NEW r \in Runs
      PROVE  /\ one(r) \in RunType /\ one(r).status = runs[r].status
             /\ one(r).now = runs[r].now /\ one(r).home = runs[r].home
             /\ one(r).old = runs[r].old
             /\ one(r).driver = driver(r) /\ one(r).told = told(r)
  <2>1. runs[r] \in RunType
    BY DEF TypeOK
  <2>2. driver(r) \in Processes \cup {None} /\ told(r) \in {"waits", "due", "done"}
    BY <2>1 DEF RunType
  <2> HIDE DEF driver, told
  <2>3. QED
    BY <2>1, <2>2 DEF RunType
<1> HIDE DEF one
<1>3. \A r \in Runs : runs'[r] = one(r)
  BY <1>1
<1>4. QED
  BY <1>1, <1>2, <1>3

LEMMA TickLaunchesIs ==
    ASSUME TypeOK, NEW p \in Processes, TickLaunches(p)
    PROVE  \E r \in Runs :
              /\ runs[r].status = "none"
              /\ runs' \in [Runs -> RunType] /\ \A q \in Runs \ {r} : runs'[q] = runs[q]
              /\ runs'[r].status = "running" /\ runs'[r].driver = p
              /\ runs'[r].home = p /\ runs'[r].told = "waits" /\ ~runs'[r].old
              /\ runs'[r].now = tick[p].now
              /\ trig' \in RowType /\ trig'.run = r /\ ~trig'.aged
              /\ trig'.status = trig.status /\ trig'.nextAt = trig.nextAt
              /\ trig'.active = trig.active /\ trig'.config = trig.config
<1>1. PICK r \in Runs :
        /\ runs[r].status = "none"
        /\ runs' = [runs EXCEPT ![r] =
                       [status |-> "running", driver |-> p, home |-> p,
                        told |-> "waits", config |-> tick[p].row.config,
                        now |-> tick[p].now, old |-> FALSE]]
        /\ trig' = [trig EXCEPT !.run = r, !.aged = FALSE]
  BY DEF TickLaunches
<1> DEFINE one == [status |-> "running", driver |-> p, home |-> p,
                   told |-> "waits", config |-> tick[p].row.config,
                   now |-> tick[p].now, old |-> FALSE]
<1>2. tick[p].now \in Nat /\ tick[p].row.config \in Versions
  BY DEF TypeOK, TickType, RowType
<1>3. /\ one \in RunType /\ one.status = "running" /\ one.driver = p /\ one.home = p
      /\ one.told = "waits" /\ one.now = tick[p].now /\ ~one.old
  BY <1>2 DEF RunType
<1>4. runs' = [runs EXCEPT ![r] = one]
  BY <1>1
<1> HIDE DEF one
<1>5. runs' \in [Runs -> RunType] /\ runs'[r] = one /\ \A q \in Runs \ {r} : runs'[q] = runs[q]
  BY <1>3, <1>4 DEF TypeOK
<1>6. /\ trig' \in RowType /\ trig'.run = r /\ ~trig'.aged
      /\ trig'.status = trig.status /\ trig'.nextAt = trig.nextAt
      /\ trig'.active = trig.active /\ trig'.config = trig.config
  <2>1. trig \in RowType /\ trig' = [trig EXCEPT !.run = r, !.aged = FALSE]
    BY <1>1 DEF TypeOK
  <2>2. QED
    BY <2>1 DEF RowType
<1>7. QED
  BY <1>1, <1>3, <1>5, <1>6

\* What a tick writes on the row.
LEMMA TickRow ==
    ASSUME TypeOK, NEW p \in Processes
    PROVE  /\ TickSkips(p) => trig' \in RowType
           /\ TickReserves(p) => trig' \in RowType
           /\ TickMarks(p) => trig' \in RowType /\ trig'.status = "running"
           /\ TickDisarms(p) => trig' \in RowType
           /\ TickFails(p) => trig' \in RowType
           /\ Sync(p) => trig' \in RowType
<1> DEFINE next == NextRun(tick[p].row.config, tick[p].now)
<1>1. trig \in RowType /\ next \in Nat /\ clock \in Nat
  BY NextRunIs DEF TypeOK, TickType, RowType
<1>2. TickSkips(p) \/ TickReserves(p) => trig' = trig \/ trig' = [trig EXCEPT !.nextAt = next]
  BY DEF TickSkips, TickReserves
<1> HIDE DEF next
<1>3. TickSkips(p) \/ TickReserves(p) => trig' \in RowType
  BY <1>1, <1>2 DEF RowType
<1>4. TickMarks(p) => trig' \in RowType /\ trig'.status = "running"
  BY <1>1 DEF TickMarks, RowType
<1>5. TickDisarms(p) => trig' \in RowType
  <2>1. ASSUME trig' = [trig EXCEPT !.active = FALSE, !.status = "none", !.nextAt = 0]
        PROVE  trig' \in RowType
    BY <1>1, <2>1 DEF RowType
  <2>2. QED
    BY <2>1 DEF TickDisarms
<1>6. TickFails(p) => trig' \in RowType
  BY <1>1 DEF TickFails, RowType
<1>7. Sync(p) => trig' \in RowType
  <2> SUFFICES ASSUME Sync(p)
               PROVE  trig' \in RowType
    OBVIOUS
  <2>1. saving[p] \in Workflow /\ trig' = Synced(saving[p])
    BY DEF Sync, TypeOK
  <2> DEFINE armed == IF saving[p].published THEN NextRun(saving[p].version, clock) ELSE 0
  <2>2. armed \in Nat /\ saving[p].published \in BOOLEAN /\ saving[p].version \in Versions
    BY <1>1, <2>1, NextRunIs DEF Workflow
  <2>3. trig' = [trig EXCEPT !.active = saving[p].published, !.config = saving[p].version,
                             !.nextAt = armed]
    BY <2>1 DEF Synced
  <2> HIDE DEF armed
  <2>4. QED
    BY <1>1, <2>2, <2>3 DEF RowType
<1>8. QED
  BY <1>3, <1>4, <1>5, <1>6, <1>7

LEMMA TickTypes ==
    ASSUME TypeOK, NEW p \in Processes, Tick(p)
    PROVE  TypeOK'
<1>1. CASE TickReads(p)
  <2> DEFINE one == [at |-> "read", row |-> trig, now |-> clock]
  <2>1. one \in TickType
    BY DEF TypeOK, TickType
  <2>2. tick' = [tick EXCEPT ![p] = one]
    BY <1>1 DEF TickReads
  <2> HIDE DEF one
  <2>3. QED
    BY <1>1, <2>1, <2>2 DEF TickReads, TypeOK
<1>2. CASE TickLooks(p)
  <2>1. tick' \in [Processes -> TickType]
    BY <1>2, GoesIs DEF TickLooks
  <2>2. tick[p].row.run \in Runs \cup {None}
    BY DEF TypeOK, TickType, RowType
  <2>3. runs' \in [Runs -> RunType]
    BY <1>2, <2>2, SettledRunsAre DEF TickLooks, TypeOK
  <2>4. QED
    BY <1>2, <2>1, <2>3 DEF TickLooks, TypeOK
<1>3. CASE TickSkips(p) \/ TickReserves(p) \/ TickMarks(p) \/ TickDisarms(p) \/ TickFails(p)
  <2>1. trig' \in RowType
    BY <1>3, TickRow
  <2>2. tick' \in [Processes -> TickType]
    BY <1>3, <2>1, RestsIs, GoesIs
       DEF TickSkips, TickReserves, TickMarks, TickDisarms, TickFails
  <2>3. UNCHANGED <<clock, wf, saving, runs, launched>>
    BY <1>3 DEF TickSkips, TickReserves, TickMarks, TickDisarms, TickFails
  <2>4. QED
    BY <2>1, <2>2, <2>3 DEF TypeOK
<1>4. CASE TickLaunches(p)
  <2>1. runs' \in [Runs -> RunType] /\ trig' \in RowType
    BY <1>4, TickLaunchesIs
  <2>2. tick' \in [Processes -> TickType]
    BY <1>4, <2>1, RestsIs DEF TickLaunches
  <2>3. launched' \in [Slots -> Nat]
    <3>1. PICK s : launched' = [launched EXCEPT ![s] = @ + 1]
      BY <1>4 DEF TickLaunches
    <3>2. launched \in [Slots -> Nat]
      BY DEF TypeOK
    <3>3. \A q \in Slots : launched'[q] \in Nat
      BY <3>1, <3>2
    <3>4. QED
      BY <3>1, <3>2, <3>3
  <2>4. QED
    BY <1>4, <2>1, <2>2, <2>3 DEF TickLaunches, TypeOK
<1>5. QED
  BY <1>1, <1>2, <1>3, <1>4 DEF Tick

LEMMA StepTypes == TypeOK /\ [Next]_vars => TypeOK'
<1> SUFFICES ASSUME TypeOK, [Next]_vars
             PROVE  TypeOK'
  OBVIOUS
<1>1. CASE UNCHANGED vars
  BY <1>1 DEF vars, TypeOK
<1>2. CASE Elapse
  BY <1>2 DEF Elapse, TypeOK
<1>3. ASSUME NEW p \in Processes, Save(p)
      PROVE  TypeOK'
  BY <1>3 DEF Save, TypeOK
<1>4. ASSUME NEW p \in Processes, Sync(p)
      PROVE  TypeOK'
  BY <1>4, TickRow DEF Sync, TypeOK
<1>5. ASSUME NEW p \in Processes, Crash(p)
      PROVE  TypeOK'
  <2>1. runs' \in [Runs -> RunType]
    BY <1>5, CrashIs
  <2>2. trig' \in RowType
    BY <1>5 DEF Crash, TypeOK
  <2>3. tick' \in [Processes -> TickType]
    BY <1>5, <2>2, RestsIs DEF Crash
  <2>4. QED
    BY <1>5, <2>1, <2>2, <2>3 DEF Crash, TypeOK
<1>6. ASSUME NEW r \in Runs,
             \/ RunStops(r) \/ RunUnanswered(r) \/ RunAges(r) \/ Callback(r)
             \/ \E p \in Processes : RunResumes(r, p)
      PROVE  TypeOK'
  <2>1. runs' \in [Runs -> RunType]
    BY <1>6, RunStopsIs, RunMovesAre, CallbackIs, RunResumesIs
  <2>2. trig' \in RowType
    <3>1. CASE RunAges(r)
      BY <3>1 DEF RunAges, TypeOK, RowType
    <3>2. CASE Callback(r)
      BY <3>2, CallbackIs
    <3>3. CASE RunStops(r) \/ RunUnanswered(r) \/ \E p \in Processes : RunResumes(r, p)
      BY <3>3 DEF RunStops, RunUnanswered, RunResumes, TypeOK
    <3>4. QED
      BY <1>6, <3>1, <3>2, <3>3
  <2>3. RunStep
    BY <1>6 DEF RunStops, RunUnanswered, RunAges, Callback, RunResumes
  <2>4. QED
    BY <2>1, <2>2, <2>3 DEF RunStep, TypeOK
<1>7. ASSUME NEW p \in Processes, Tick(p)
      PROVE  TypeOK'
  BY <1>7, TickTypes
<1>8. QED
  BY <1>1, <1>2, <1>3, <1>4, <1>5, <1>6, <1>7 DEF Next

LEMMA InitTypes == Init => TypeOK
<1> SUFFICES ASSUME Init
             PROVE  TypeOK
  OBVIOUS
<1>1. wf \in Workflow /\ wf.version \in Versions
  BY DEF Init, Workflow
<1> DEFINE armed == NextRun(wf.version, 0)
<1>2. armed \in Nat
  BY <1>1, NextRunIs
<1>3. trig = [active |-> TRUE, config |-> wf.version, nextAt |-> armed,
              status |-> "none", run |-> None, aged |-> FALSE]
  BY DEF Init
<1> HIDE DEF armed
<1>4. trig \in RowType
  BY <1>1, <1>2, <1>3 DEF RowType
<1> DEFINE rest == [at |-> "idle", row |-> trig, now |-> 0]
<1>5. tick = [p \in Processes |-> rest]
  BY DEF Init
<1>6. rest \in TickType
  BY <1>4 DEF TickType
<1> HIDE DEF rest
<1> DEFINE none == [status |-> "none", driver |-> None, home |-> None,
                    told |-> "done", config |-> wf.version, now |-> 0, old |-> FALSE]
<1>7. none \in RunType
  BY <1>1 DEF RunType
<1>8. runs = [r \in Runs |-> none]
  BY DEF Init
<1> HIDE DEF none
<1>9. /\ clock = 0 /\ saving = [p \in Processes |-> None]
      /\ launched = [s \in Slots |-> 0]
  BY DEF Init
<1>10. QED
  BY <1>1, <1>4, <1>5, <1>6, <1>7, <1>8, <1>9 DEF TypeOK

-----------------------------------------------------------------------------
(* The steps.                                                               *)

\* Ticks under way in several processes began at the same slot.
LEMMA Together ==
    ASSUME IInv, NEW p \in Processes, NEW q \in Processes, Active(p), Active(q)
    PROVE  tick[p].now = tick[q].now
<1>1. CASE OneProcess
  BY <1>1 DEF OneProcess
<1>2. CASE ~OneProcess
  BY <1>2 DEF IInv, Ticks
<1>3. QED
  BY <1>1, <1>2

\* What a tick may become when it reserves and launches nothing.
Continues(q) ==
    \/ tick'[q].at = "idle"
    \/ /\ Active(q) /\ tick'[q].row = tick[q].row /\ tick'[q].now = tick[q].now
       /\ Taken(q)' => Taken(q)
       /\ tick'[q].at = "read" => tick[q].at = "read"
       /\ tick'[q].at = "reserving" =>
             tick[q].at = "reserving" \/ \A r \in Runs : Open(r) => Ahead(q)
       /\ tick'[q].at = "launching" => trig'.status = "running"

\* next_run_at stays, is cleared, or moves past what ticks and callbacks know.
MovesOn ==
    \/ trig'.nextAt = trig.nextAt
    \/ trig'.nextAt = 0
    \/ /\ \A q \in Processes : Active(q) => tick[q].now < trig'.nextAt
       /\ \A s \in Slots : launched[s] # 0 => s < trig'.nextAt
    \/ \E r \in Runs : runs[r].told # "done" /\ runs[r].now < trig'.nextAt

\* A step that reserves and launches nothing.
LEMMA QuietKeeps ==
    ASSUME IInv, TypeOK', clock' = clock, launched' = launched,
           \A r \in Runs : Told(r)' /\ Shown(r)',
           \A r \in Runs : Open(r)' => Open(r),
           \A r \in Runs : runs'[r].told # "done" =>
              runs[r].told # "done" /\ runs'[r].now = runs[r].now,
           \A q \in Processes : Continues(q),
           MovesOn
    PROVE  IInv'
<1>1. /\ clock \in Nat /\ trig.nextAt \in Nat /\ trig'.nextAt \in Nat
      /\ \A q \in Processes : tick[q].now \in Nat
      /\ \A r \in Runs : runs[r].now \in Nat
      /\ \A s \in Slots : s \in Nat
  BY DEF IInv, TypeOK, RowType, TickType, RunType, Slots
<1>2. \A q \in Processes : Active(q)' => Active(q)
  BY DEF Continues, Active
<1>3. Ticks'
  <2>1. ASSUME NEW q \in Processes, Active(q)'
        PROVE  /\ tick'[q].now <= clock' /\ tick'[q].row.nextAt \in 1..tick'[q].now
               /\ OneProcess \/ tick'[q].now = clock'
    BY <2>1 DEF IInv, Ticks, Continues, Active
  <2>2. ASSUME NEW p \in Processes, NEW q \in Processes, Taken(p)', Taken(q)'
        PROVE  p = q
    <3>1. Taken(p) /\ Taken(q)
      BY <2>2 DEF Continues, Taken
    <3>2. QED
      BY <3>1 DEF IInv, Ticks
  <2>3. QED
    BY <2>1, <2>2 DEF Ticks, OneProcess
<1>4. ASSUME NEW q \in Processes, Active(q)', Ahead(q)
      PROVE  Ahead(q)'
  <2>1. tick'[q].now = tick[q].now /\ Active(q)
    BY <1>4 DEF Continues, Active
  <2>2. \A r \in Runs : runs'[r].told # "done" => tick'[q].now <= runs'[r].now
    BY <1>4, <2>1 DEF Ahead
  <2>3. trig'.nextAt = 0 \/ tick'[q].now < trig'.nextAt
    <3>1. ASSUME NEW r \in Runs, runs[r].told # "done", runs[r].now < trig'.nextAt
          PROVE  tick[q].now < trig'.nextAt
      <4>1. tick[q].now <= runs[r].now
        BY <1>4, <3>1 DEF Ahead
      <4>2. QED
        BY <1>1, <3>1, <4>1
    <3>2. QED
      BY <1>4, <2>1, <3>1 DEF MovesOn, Ahead
  <2>4. QED
    BY <2>2, <2>3 DEF Ahead
<1>5. ASSUME NEW q \in Processes
      PROVE  Watched(q)'
  <2>1. Watched(q)
    BY DEF IInv
  <2>2. ASSUME NEW r \in Runs, tick'[q].at = "read", Open(r)'
        PROVE  Reads(q, r)' \/ Ahead(q)'
    <3>1. tick[q].at = "read" /\ Open(r) /\ tick'[q].row = tick[q].row /\ Active(q)'
      BY <2>2 DEF Continues, Active
    <3>2. Reads(q, r) \/ Ahead(q)
      BY <2>1, <3>1 DEF Watched
    <3>3. Reads(q, r) => Reads(q, r)'
      BY <3>1 DEF Reads
    <3>4. QED
      BY <1>4, <3>1, <3>2, <3>3
  <2>3. ASSUME NEW r \in Runs, tick'[q].at = "reserving", Open(r)'
        PROVE  Ahead(q)'
    <3>1. Open(r) /\ Active(q)'
      BY <2>3 DEF Active
    <3>2. Ahead(q)
      BY <2>1, <2>3, <3>1 DEF Continues, Watched
    <3>3. QED
      BY <1>4, <3>1, <3>2
  <2>4. ASSUME Taken(q)'
        PROVE  Ahead(q)' /\ \A r \in Runs : ~Open(r)' /\ runs'[r].told = "done"
    <3>1. Taken(q) /\ Active(q)'
      BY <2>4 DEF Continues, Taken, Active
    <3>2. Ahead(q) /\ \A r \in Runs : ~Open(r) /\ runs[r].told = "done"
      BY <2>1, <3>1 DEF Watched
    <3>3. QED
      BY <1>4, <3>1, <3>2
  <2>5. tick'[q].at = "launching" => trig'.status = "running"
    BY DEF Continues
  <2>6. QED
    BY <2>2, <2>3, <2>4, <2>5 DEF Watched
<1>6. ASSUME NEW s \in Slots
      PROVE  Behind(s)'
  <2>1. Behind(s)
    BY DEF IInv
  <2>2. ASSUME launched[s] # 0
        PROVE  /\ trig'.nextAt = 0 \/ s < trig'.nextAt
               /\ \A p \in Processes : Active(p)' => s <= tick'[p].now
               /\ \A r \in Runs : runs'[r].told # "done" => s <= runs'[r].now
    <3>1. ASSUME NEW r \in Runs, runs[r].told # "done", runs[r].now < trig'.nextAt
          PROVE  s < trig'.nextAt
      <4>1. s <= runs[r].now
        BY <2>1, <2>2, <3>1 DEF Behind
      <4>2. QED
        BY <1>1, <3>1, <4>1
    <3>2. trig'.nextAt = 0 \/ s < trig'.nextAt
      BY <2>1, <2>2, <3>1 DEF Behind, MovesOn
    <3>3. \A p \in Processes : Active(p)' => s <= tick'[p].now
      BY <2>1, <2>2 DEF Behind, Continues, Active
    <3>4. \A r \in Runs : runs'[r].told # "done" => s <= runs'[r].now
      BY <2>1, <2>2 DEF Behind
    <3>5. QED
      BY <3>2, <3>3, <3>4
  <2>3. ASSUME NEW p \in Processes, Taken(p)', tick'[p].row.nextAt = s
        PROVE  launched[s] = 0
    <3>1. Taken(p) /\ tick[p].row.nextAt = s
      BY <2>3 DEF Continues, Taken
    <3>2. QED
      BY <2>1, <3>1 DEF Behind
  <2>4. QED
    BY <2>1, <2>2, <2>3 DEF Behind
<1>7. QED
  BY <1>3, <1>5, <1>6 DEF IInv

\* The ticks that a step leaves alone.
LEMMA Stays ==
    ASSUME IInv, NEW q \in Processes, tick'[q] = tick[q],
           tick[q].at = "launching" => trig'.status = trig.status
    PROVE  Continues(q)
  BY DEF IInv, Watched, Continues, Taken, Active

\* The row loses nothing of the run that is under way, or none is.
LEMMA RowKeeps ==
    ASSUME IInv, TypeOK', UNCHANGED <<clock, runs, launched>>,
           \/ trig'.run = trig.run /\ trig'.status = trig.status /\ trig'.aged = trig.aged
           \/ \A r \in Runs : ~Open(r) /\ runs[r].told = "done",
           \A q \in Processes : Continues(q),
           MovesOn
    PROVE  IInv'
<1>1. \A r \in Runs : Told(r)' /\ (Open(r)' <=> Open(r))
  BY DEF IInv, Told, Open, Live
<1>2. \A r \in Runs : Shown(r)'
  BY <1>1 DEF IInv, Shown
<1>3. QED
  BY <1>1, <1>2, QuietKeeps

LEMMA SyncKeeps ==
    ASSUME IInv, TypeOK', NEW p \in Processes, Sync(p)
    PROVE  IInv'
<1>1. saving[p] \in Workflow /\ trig' = Synced(saving[p]) /\ trig \in RowType /\ clock \in Nat
  BY DEF Sync, IInv, TypeOK
<1> DEFINE armed == IF saving[p].published THEN NextRun(saving[p].version, clock) ELSE 0
<1>2. armed = 0 \/ (armed \in Nat /\ clock < armed)
  BY <1>1, NextRunIs DEF Workflow
<1>3. trig' = [trig EXCEPT !.active = saving[p].published, !.config = saving[p].version,
                           !.nextAt = armed]
  BY <1>1 DEF Synced
<1> HIDE DEF armed
<1>4. /\ trig'.run = trig.run /\ trig'.status = trig.status /\ trig'.aged = trig.aged
      /\ trig'.nextAt = armed
  BY <1>1, <1>3 DEF RowType
<1>5. UNCHANGED <<clock, runs, launched, tick>>
  BY DEF Sync
<1>6. \A q \in Processes : Continues(q)
  BY <1>4, <1>5, Stays
<1>7. MovesOn
  <2>1. CASE armed = 0
    BY <1>4, <2>1 DEF MovesOn
  <2>2. CASE armed \in Nat /\ clock < armed
    <3>1. \A q \in Processes : Active(q) => tick[q].now < armed
      <4>1. ASSUME NEW q \in Processes, Active(q)
            PROVE  tick[q].now < armed
        <5>1. tick[q].now <= clock /\ tick[q].now \in Nat
          BY <4>1 DEF IInv, Ticks, TypeOK, TickType
        <5>2. QED
          BY <1>1, <2>2, <5>1
      <4>2. QED
        BY <4>1
    <3>2. \A s \in Slots : launched[s] # 0 => s < armed
      <4>1. ASSUME NEW s \in Slots, launched[s] # 0
            PROVE  s < armed
        <5>1. s <= clock /\ s \in Nat
          BY <4>1 DEF IInv, Behind, Slots
        <5>2. QED
          BY <1>1, <2>2, <5>1
      <4>2. QED
        BY <4>1
    <3>3. QED
      BY <1>4, <3>1, <3>2 DEF MovesOn
  <2>3. QED
    BY <1>2, <2>1, <2>2
<1>8. QED
  BY <1>4, <1>5, <1>6, <1>7, RowKeeps

\* What follows the instant at which a tick began is past what the ticks may take.
LEMMA PastTheTick ==
    ASSUME IInv, NEW p \in Processes, Active(p)
    PROVE  LET next == NextRun(tick[p].row.config, tick[p].now) IN
           /\ next \in Nat
           /\ next = 0 \/ /\ \A q \in Processes : Active(q) => tick[q].now < next
                          /\ \A s \in Slots : launched[s] # 0 => s < next
<1> DEFINE next == NextRun(tick[p].row.config, tick[p].now)
<1>1. tick[p].row.config \in Versions /\ tick[p].now \in Nat
  BY DEF IInv, TypeOK, TickType, RowType
<1>2. next \in Nat /\ (next = 0 \/ tick[p].now < next)
  BY <1>1, NextRunIs
<1> HIDE DEF next
<1>3. \A q \in Processes : Active(q) => tick[q].now = tick[p].now
  BY Together
<1>4. ASSUME NEW s \in Slots, launched[s] # 0, tick[p].now < next
      PROVE  s < next
  <2>1. s <= tick[p].now /\ s \in Nat
    BY <1>4 DEF IInv, Behind, Slots
  <2>2. QED
    BY <1>1, <1>2, <1>4, <2>1
<1>5. QED
  BY <1>2, <1>3, <1>4 DEF next

\* What a tick reads shows the run that is under way, since no callback is late.
LEMMA TickReadsKeeps ==
    ASSUME Orderly, IInv, TypeOK', NEW p \in Processes, TickReads(p)
    PROVE  IInv'
<1> DEFINE one == [at |-> "read", row |-> trig, now |-> clock]
<1>1. /\ UNCHANGED <<clock, trig, runs, launched>> /\ tick[p].at = "idle"
      /\ trig.nextAt \in 1..clock /\ tick' = [tick EXCEPT ![p] = one]
      /\ \A r \in Runs : runs[r].told # "due"
  BY DEF TickReads, DueNow, Quiet, Orderly
<1>2. one.at = "read" /\ one.row = trig /\ one.now = clock
  OBVIOUS
<1> HIDE DEF one
<1>3. /\ tick'[p].at = "read" /\ tick'[p].row = trig /\ tick'[p].now = clock
      /\ \A q \in Processes \ {p} : tick'[q] = tick[q]
  BY <1>1, <1>2 DEF IInv, TypeOK
<1>4. clock \in Nat
  BY DEF IInv, TypeOK
<1>5. Ticks'
  BY <1>1, <1>3, <1>4 DEF IInv, Ticks, Active, Taken
<1>6. \A r \in Runs : Told(r)' /\ Shown(r)' /\ (Open(r)' <=> Open(r))
  BY <1>1 DEF IInv, Told, Shown, Open, Live
<1>7. ASSUME NEW q \in Processes
      PROVE  Watched(q)'
  <2>1. CASE q # p
    <3>1. tick'[q] = tick[q] /\ Watched(q)
      BY <1>3, <2>1 DEF IInv
    <3>2. QED
      BY <1>1, <1>6, <3>1 DEF Watched, Reads, Ahead, Taken
  <2>2. CASE q = p
    <3>1. ASSUME NEW r \in Runs, Open(r)
          PROVE  Reads(p, r)'
      <4>1. Shown(r) /\ Told(r) /\ runs[r] \in RunType
        BY DEF IInv, TypeOK
      <4>2. runs[r].told \in {"waits", "done"}
        BY <1>1, <4>1 DEF RunType
      <4>3. QED
        BY <1>3, <3>1, <4>1, <4>2 DEF Shown, Reads
    <3>2. QED
      BY <1>3, <1>6, <2>2, <3>1 DEF Watched, Taken
  <2>3. QED
    BY <2>1, <2>2
<1>8. ASSUME NEW s \in Slots
      PROVE  Behind(s)'
  <2>1. Behind(s)
    BY DEF IInv
  <2>2. QED
    BY <1>1, <1>3, <2>1 DEF Behind, Active, Taken
<1>9. QED
  BY <1>5, <1>6, <1>7, <1>8 DEF IInv

\* A tick that goes on to reserve saw no run, or comes too late.
LEMMA TickLooksKeeps ==
    ASSUME IInv, TypeOK', NEW p \in Processes, TickLooks(p)
    PROVE  IInv'
<1> DEFINE row == tick[p].row
           place == IF StillOpen(row) THEN "skipping" ELSE "reserving"
<1>1. /\ UNCHANGED <<clock, trig, launched>> /\ tick[p].at = "read"
      /\ Goes(p, place) /\ place \in {"skipping", "reserving"}
  BY DEF TickLooks
<1>2. \A r \in Runs : runs[r] \in RunType /\ runs'[r] \in {runs[r], Settled(runs[r])}
  <2>1. row.run \in Runs \cup {None} /\ TypeOK
    BY DEF IInv, TypeOK, TickType, RowType
  <2>2. QED
    BY <2>1, SettledRunsAre DEF TickLooks, TypeOK
<1>3. \A r \in Runs :
          /\ runs'[r].told = runs[r].told /\ runs'[r].now = runs[r].now
          /\ runs'[r].driver = runs[r].driver /\ runs'[r].home = runs[r].home
          /\ runs'[r].old = runs[r].old
          /\ \/ runs'[r].status = runs[r].status
             \/ /\ runs'[r].status = "over" /\ runs[r].status = "running"
                /\ runs[r].driver = None
  <2>1. ASSUME NEW r \in Runs
        PROVE  Told(r)
    BY DEF IInv
  <2>2. QED
    BY <1>2, <2>1, SettledIs DEF Told
<1>4. \A r \in Runs : Open(r)' <=> Open(r)
  BY <1>3 DEF Open, Live
<1>5. \A r \in Runs : Told(r)' /\ Shown(r)'
  BY <1>1, <1>3, <1>4 DEF IInv, Told, Shown
<1>6. ASSUME NEW r \in Runs, Open(r), ~StillOpen(row)
      PROVE  Ahead(p)
  <2>1. Reads(p, r) \/ Ahead(p)
    BY <1>1, <1>6 DEF IInv, Watched
  <2>2. Settled(runs[r]).status # "over"
    <3>1. Told(r)
      BY DEF IInv
    <3>2. QED
      BY <1>6, <3>1 DEF Open, Live, Settled, Told
  <2>3. r # None
    BY TriggerAssumption
  <2>4. Reads(p, r) => StillOpen(row)
    BY <2>2, <2>3 DEF Reads, StillOpen
  <2>5. QED
    BY <1>6, <2>1, <2>4
<1>7. \A q \in Processes : Continues(q)
  <2>1. /\ tick'[p].at = place /\ tick'[p].row = tick[p].row /\ tick'[p].now = tick[p].now
        /\ \A q \in Processes \ {p} : tick'[q] = tick[q]
    BY <1>1, GoesIs DEF IInv
  <2>2. Continues(p)
    <3>1. CASE StillOpen(row)
      BY <1>1, <2>1, <3>1 DEF Continues, Active, Taken
    <3>2. CASE ~StillOpen(row)
      BY <1>1, <1>6, <2>1, <3>2 DEF Continues, Active, Taken
    <3>3. QED
      BY <3>1, <3>2
  <2>3. QED
    BY <1>1, <2>1, <2>2, Stays
<1>8. MovesOn
  BY <1>1 DEF MovesOn
<1>9. QED
  BY <1>1, <1>3, <1>4, <1>5, <1>7, <1>8, QuietKeeps

\* A step of a tick that ends it.
LEMMA TickRestsKeeps ==
    ASSUME IInv, TypeOK', NEW p \in Processes,
           TickSkips(p) \/ TickDisarms(p) \/ TickFails(p)
    PROVE  IInv'
<1>1. UNCHANGED <<clock, runs, launched>> /\ Rests(p) /\ trig \in RowType /\ trig' \in RowType
  BY DEF TickSkips, TickDisarms, TickFails, IInv, TypeOK
<1>2. tick'[p].at = "idle" /\ \A q \in Processes \ {p} : tick'[q] = tick[q]
  BY <1>1, RestsIs DEF IInv
<1>3. TickDisarms(p) \/ TickFails(p) =>
          Taken(p) /\ \A r \in Runs : ~Open(r) /\ runs[r].told = "done"
  BY DEF TickDisarms, TickFails, Taken, IInv, Watched
<1>4. \A q \in Processes \ {p} :
          TickDisarms(p) \/ TickFails(p) => tick[q].at # "launching"
  BY <1>3 DEF IInv, Ticks, Taken
<1> DEFINE next == NextRun(tick[p].row.config, tick[p].now)
<1>5. TickSkips(p) =>
          /\ trig'.run = trig.run /\ trig'.status = trig.status /\ trig'.aged = trig.aged
          /\ trig'.nextAt = next
  <2>1. TickSkips(p) => trig' = [trig EXCEPT !.nextAt = next]
    BY DEF TickSkips
  <2> HIDE DEF next
  <2>2. QED
    BY <1>1, <2>1 DEF RowType
<1>6. TickSkips(p) => MovesOn
  <2>1. Active(p) \/ ~TickSkips(p)
    BY DEF TickSkips, Active
  <2>2. Active(p) =>
          next = 0 \/ /\ \A q \in Processes : Active(q) => tick[q].now < next
                      /\ \A s \in Slots : launched[s] # 0 => s < next
    BY PastTheTick
  <2> HIDE DEF next
  <2>3. QED
    BY <1>5, <2>1, <2>2 DEF MovesOn
<1> HIDE DEF next
<1>7. TickDisarms(p) => MovesOn
  <2>1. TickDisarms(p) => trig'.nextAt = 0
    BY <1>1 DEF TickDisarms, RowType
  <2>2. QED
    BY <2>1 DEF MovesOn
<1>8. TickFails(p) => MovesOn
  <2>1. TickFails(p) => trig'.nextAt = trig.nextAt
    BY <1>1 DEF TickFails, RowType
  <2>2. QED
    BY <2>1 DEF MovesOn
<1>9. ASSUME NEW q \in Processes
      PROVE  Continues(q)
  <2>1. CASE q = p
    BY <1>2, <2>1 DEF Continues
  <2>2. CASE q # p
    <3>1. tick'[q] = tick[q]
      BY <1>2, <2>2
    <3>2. tick[q].at = "launching" => trig'.status = trig.status
      BY <1>4, <1>5, <2>2
    <3>3. QED
      BY <3>1, <3>2, Stays
  <2>3. QED
    BY <2>1, <2>2
<1>10. QED
  BY <1>1, <1>3, <1>5, <1>6, <1>7, <1>8, <1>9, RowKeeps

LEMMA TickMarksKeeps ==
    ASSUME IInv, TypeOK', NEW p \in Processes, TickMarks(p)
    PROVE  IInv'
<1>1. /\ UNCHANGED <<clock, runs, launched>> /\ tick[p].at = "marking"
      /\ trig' = [trig EXCEPT !.status = "running"] /\ trig \in RowType
  BY DEF TickMarks, IInv, TypeOK
<1>2. trig'.status = "running" /\ trig'.nextAt = trig.nextAt
  BY <1>1 DEF RowType
<1>3. PICK place \in {"launching", "refused"} : Goes(p, place)
  BY DEF TickMarks
<1>4. /\ tick'[p].at = place /\ tick'[p].row = tick[p].row /\ tick'[p].now = tick[p].now
      /\ \A q \in Processes \ {p} : tick'[q] = tick[q]
  BY <1>3, GoesIs DEF IInv
<1>5. Taken(p) /\ \A r \in Runs : ~Open(r) /\ runs[r].told = "done"
  BY <1>1 DEF IInv, Watched, Taken
<1>6. \A q \in Processes \ {p} : tick[q].at # "launching"
  BY <1>5 DEF IInv, Ticks, Taken
<1>7. \A q \in Processes : Continues(q)
  <2>1. Continues(p)
    BY <1>2, <1>4, <1>5 DEF Continues, Active, Taken
  <2>2. QED
    BY <1>4, <1>6, <2>1, Stays
<1>8. MovesOn
  BY <1>2 DEF MovesOn
<1>9. QED
  BY <1>1, <1>5, <1>7, <1>8, RowKeeps


\* A slot is reserved only while no run is under way, by one tick, and never twice.
LEMMA TickReservesKeeps ==
    ASSUME Orderly, IInv, TypeOK', NEW p \in Processes, TickReserves(p)
    PROVE  IInv'
<1>1. /\ UNCHANGED <<clock, runs, launched>> /\ tick[p].at = "reserving"
      /\ trig \in RowType /\ trig' \in RowType /\ Active(p)
      /\ \A r \in Runs : runs[r].told # "due"
  BY DEF TickReserves, IInv, TypeOK, Active, Quiet, Orderly
<1>2. CASE ~Reserves(tick[p].row)
  <2>1. Rests(p) /\ trig' = trig
    BY <1>2 DEF TickReserves
  <2>2. tick'[p].at = "idle" /\ \A q \in Processes \ {p} : tick'[q] = tick[q]
    BY <1>1, <2>1, RestsIs DEF IInv
  <2>3. \A q \in Processes : Continues(q)
    <3>1. Continues(p)
      BY <2>2 DEF Continues
    <3>2. QED
      BY <2>1, <2>2, <3>1, Stays
  <2>4. MovesOn
    BY <2>1 DEF MovesOn
  <2>5. QED
    BY <1>1, <2>1, <2>3, <2>4, RowKeeps
<1>3. CASE Reserves(tick[p].row)
  <2> DEFINE next == NextRun(tick[p].row.config, tick[p].now)
  <2>1. Goes(p, "marking") /\ trig' = [trig EXCEPT !.nextAt = next]
    BY <1>3 DEF TickReserves
  <2>2. /\ next \in Nat
        /\ next = 0 \/ /\ \A q \in Processes : Active(q) => tick[q].now < next
                       /\ \A s \in Slots : launched[s] # 0 => s < next
    BY <1>1, PastTheTick
  <2> HIDE DEF next
  <2>3. trig'.nextAt = next
    BY <1>1, <2>1 DEF RowType
  <2>4. /\ tick'[p].at = "marking" /\ tick'[p].row = tick[p].row /\ tick'[p].now = tick[p].now
        /\ \A q \in Processes \ {p} : tick'[q] = tick[q]
    BY <2>1, GoesIs DEF IInv
  <2>5. /\ tick[p].now \in Nat /\ clock \in Nat
        /\ trig.nextAt \in 1..tick[p].now /\ trig.nextAt = tick[p].row.nextAt
    BY <1>1, <1>3 DEF IInv, TypeOK, TickType, Ticks, Reserves
  <2>6. ~Ahead(p)
    BY <2>5 DEF Ahead
  <2>7. \A r \in Runs : ~Open(r) /\ runs[r].told = "done"
    <3>1. ASSUME NEW r \in Runs
          PROVE  ~Open(r) /\ runs[r].told = "done"
      <4>1. Watched(p) /\ Told(r) /\ runs[r] \in RunType
        BY DEF IInv, TypeOK
      <4>2. ~Open(r)
        BY <1>1, <2>6, <4>1 DEF Watched
      <4>3. runs[r].told # "waits"
        BY <4>1, <4>2 DEF Told, Open, Live
      <4>4. QED
        BY <1>1, <4>1, <4>2, <4>3 DEF RunType
    <3>2. QED
      BY <3>1
  <2>8. ASSUME NEW q \in Processes, Taken(q)
        PROVE  FALSE
    <3>1. Active(q) /\ Ahead(q)
      BY <2>8 DEF Taken, Active, IInv, Watched
    <3>2. tick[q].now = tick[p].now
      BY <1>1, <3>1, Together
    <3>3. Ahead(p)
      BY <3>1, <3>2 DEF Ahead
    <3>4. QED
      BY <2>6, <3>3
  <2>9. /\ \A q \in Processes : Taken(q)' => q = p
        /\ \A q \in Processes : Active(q)' => Active(q) /\ tick'[q].now = tick[q].now
                                              /\ tick'[q].row = tick[q].row
    BY <1>1, <2>4, <2>8 DEF Taken, Active
  <2>10. Ticks'
    <3>1. ASSUME NEW q \in Processes, Active(q)'
          PROVE  /\ tick'[q].now <= clock' /\ tick'[q].row.nextAt \in 1..tick'[q].now
                 /\ OneProcess \/ tick'[q].now = clock'
      BY <1>1, <2>9, <3>1 DEF IInv, Ticks
    <3>2. QED
      BY <2>9, <3>1 DEF Ticks, OneProcess
  <2>11. \A r \in Runs : Told(r)' /\ Shown(r)' /\ ~Open(r)' /\ runs'[r].told = "done"
    BY <1>1, <2>7 DEF IInv, Told, Shown, Open, Live
  <2>12. ASSUME NEW q \in Processes
         PROVE  Watched(q)'
    <3>1. CASE q = p
      <4>1. Ahead(p)'
        BY <1>1, <2>2, <2>3, <2>4, <2>11 DEF Ahead
      <4>2. QED
        BY <2>4, <2>11, <3>1, <4>1 DEF Watched
    <3>2. CASE q # p
      <4>1. ~Taken(q)'
        BY <2>9, <3>2
      <4>2. QED
        BY <2>11, <4>1 DEF Watched, Taken
    <3>3. QED
      BY <3>1, <3>2
  <2>13. ASSUME NEW s \in Slots
         PROVE  Behind(s)'
    <3>1. Behind(s) /\ s \in Nat
      BY DEF IInv, Slots
    <3>2. launched[s] # 0 => trig'.nextAt = 0 \/ s < trig'.nextAt
      BY <2>2, <2>3
    <3>3. launched[s] # 0 => trig.nextAt # s
      BY <2>5, <3>1 DEF Behind
    <3>4. \A q \in Processes : Taken(q)' /\ tick'[q].row.nextAt = s => launched[s] = 0
      BY <2>4, <2>5, <2>9, <3>3
    <3>5. QED
      BY <1>1, <2>9, <3>1, <3>2, <3>4 DEF Behind
  <2>14. QED
    BY <2>10, <2>11, <2>12, <2>13 DEF IInv
<1>4. QED
  BY <1>2, <1>3

\* The run that is launched is the only one, and its slot is launched once.
LEMMA TickLaunchesKeeps ==
    ASSUME IInv, TypeOK', NEW p \in Processes, TickLaunches(p)
    PROVE  IInv'
<1>1. /\ tick[p].at = "launching" /\ clock' = clock /\ Rests(p) /\ trig' \in RowType
      /\ launched' = [launched EXCEPT ![tick[p].row.nextAt] = @ + 1]
  BY DEF TickLaunches, IInv, TypeOK
<1>2. PICK r \in Runs :
        /\ runs' \in [Runs -> RunType] /\ \A q \in Runs \ {r} : runs'[q] = runs[q]
        /\ runs'[r].status = "running" /\ runs'[r].driver = p
        /\ runs'[r].home = p /\ runs'[r].told = "waits" /\ ~runs'[r].old
        /\ runs'[r].now = tick[p].now
        /\ trig'.run = r /\ ~trig'.aged
        /\ trig'.status = trig.status /\ trig'.nextAt = trig.nextAt
  BY TickLaunchesIs DEF IInv
<1>3. tick'[p].at = "idle" /\ \A q \in Processes \ {p} : tick'[q] = tick[q]
  BY <1>1, RestsIs DEF IInv
<1>4. /\ Taken(p) /\ Active(p) /\ Ahead(p) /\ trig.status = "running"
      /\ \A q \in Runs : ~Open(q) /\ runs[q].told = "done"
  BY <1>1 DEF Taken, Active, IInv, Watched
<1>5. \A q \in Processes : Taken(q)' => FALSE
  BY <1>3, <1>4 DEF IInv, Ticks, Taken
<1>6. /\ p # None /\ clock \in Nat /\ tick[p].now \in Nat /\ tick[p].now <= clock
      /\ tick[p].row.nextAt \in 1..tick[p].now
  BY <1>4, TriggerAssumption DEF IInv, Ticks, TypeOK, TickType
<1>7. \A q \in Processes : Active(q)' =>
          Active(q) /\ q # p /\ tick'[q] = tick[q] /\ tick[q].now = tick[p].now
  BY <1>3, <1>4, Together DEF Active
<1>8. Ticks'
  <2>1. ASSUME NEW q \in Processes, Active(q)'
        PROVE  /\ tick'[q].now <= clock' /\ tick'[q].row.nextAt \in 1..tick'[q].now
               /\ OneProcess \/ tick'[q].now = clock'
    BY <1>1, <1>7, <2>1 DEF IInv, Ticks
  <2>2. QED
    BY <1>5, <2>1 DEF Ticks, OneProcess
<1>9. ASSUME NEW q \in Runs
      PROVE  /\ Told(q)' /\ Shown(q)'
             /\ runs'[q].told # "done" => q = r
             /\ Open(q)' => q = r
  <2>1. CASE q = r
    BY <1>2, <1>4, <1>6, <2>1 DEF Told, Shown
  <2>2. CASE q # r
    <3>1. runs'[q] = runs[q] /\ Told(q) /\ ~Open(q) /\ runs[q].told = "done"
      BY <1>2, <1>4, <2>2 DEF IInv
    <3>2. QED
      BY <3>1 DEF Told, Shown, Open, Live
  <2>3. QED
    BY <2>1, <2>2
<1>10. ASSUME NEW q \in Processes
       PROVE  Watched(q)'
  <2>1. Active(q)' => Ahead(q)'
    BY <1>2, <1>4, <1>6, <1>7, <1>9 DEF Ahead
  <2>2. QED
    BY <1>5, <2>1 DEF Watched, Taken, Active
<1>11. ASSUME NEW s \in Slots
       PROVE  Behind(s)'
  <2>1. Behind(s) /\ s \in Nat /\ trig.nextAt \in Nat
    BY DEF IInv, Slots, TypeOK, RowType
  <2>2. /\ launched'[s] = (IF s = tick[p].row.nextAt THEN launched[s] + 1 ELSE launched[s])
        /\ launched[s] \in Nat
    BY <1>1 DEF IInv, TypeOK
  <2>3. CASE s = tick[p].row.nextAt
    <3>1. launched'[s] = 1
      BY <1>4, <2>1, <2>2, <2>3 DEF Behind
    <3>2. s <= tick[p].now /\ s <= clock'
      BY <1>1, <1>6, <2>1, <2>3
    <3>3. trig'.nextAt = 0 \/ s < trig'.nextAt
      BY <1>2, <1>4, <1>6, <2>1, <3>2 DEF Ahead
    <3>4. \A q \in Processes : Active(q)' => s <= tick'[q].now
      BY <1>7, <3>2
    <3>5. \A q \in Runs : runs'[q].told # "done" => s <= runs'[q].now
      BY <1>2, <1>9, <3>2
    <3>6. QED
      BY <1>5, <3>1, <3>2, <3>3, <3>4, <3>5 DEF Behind
  <2>4. CASE s # tick[p].row.nextAt
    <3>1. launched'[s] = launched[s] /\ launched[s] <= 1
      BY <2>1, <2>2, <2>4 DEF Behind
    <3>2. launched[s] # 0 =>
            /\ s <= clock' /\ s <= tick[p].now
            /\ trig'.nextAt = 0 \/ s < trig'.nextAt
      BY <1>1, <1>2, <1>4, <2>1 DEF Behind
    <3>3. QED
      BY <1>2, <1>5, <1>7, <1>9, <3>1, <3>2 DEF Behind
  <2>5. QED
    BY <2>3, <2>4
<1>12. QED
  BY <1>8, <1>9, <1>10, <1>11 DEF IInv

\* A step of one run: the ticks and the launches stay as they are.
LEMMA RunKeeps ==
    ASSUME IInv, TypeOK', NEW r \in Runs, RunStep,
           \A q \in Runs \ {r} : runs'[q] = runs[q] /\ Shown(q)',
           Told(r)' /\ Shown(r)', Open(r)' => Open(r),
           runs'[r].told # "done" => runs[r].told # "done" /\ runs'[r].now = runs[r].now,
           trig'.status = trig.status \/ \A q \in Processes : tick[q].at # "launching",
           MovesOn
    PROVE  IInv'
<1>1. UNCHANGED <<clock, tick, launched>>
  BY DEF RunStep
<1>2. \A q \in Processes : Continues(q)
  BY <1>1, Stays
<1>3. ASSUME NEW q \in Runs
      PROVE  /\ Told(q)' /\ Shown(q)' /\ (Open(q)' => Open(q))
             /\ runs'[q].told # "done" =>
                   runs[q].told # "done" /\ runs'[q].now = runs[q].now
  <2>1. CASE q = r
    BY <2>1
  <2>2. CASE q # r
    BY <2>2 DEF IInv, Told, Open, Live
  <2>3. QED
    BY <2>1, <2>2
<1>4. QED
  BY <1>1, <1>2, <1>3, QuietKeeps

\* A run that stops is over or waits for a decision, and its callback is due.
LEMMA RunStopsKeeps ==
    ASSUME IInv, TypeOK', NEW r \in Runs, RunStops(r)
    PROVE  IInv'
<1>1. /\ RunStep /\ trig' = trig /\ Open(r) /\ Shown(r) /\ Told(r)
      /\ runs[r] \in RunType /\ runs'[r] \in RunType /\ runs[r].status = "running"
  BY DEF RunStops, Open, Live, IInv, TypeOK, Told
<1>2. /\ \A q \in Runs \ {r} : runs'[q] = runs[q]
      /\ runs'[r].status \in {"over", "awaiting"} /\ runs'[r].driver = None
      /\ runs'[r].now = runs[r].now
      /\ runs'[r].told = IF runs[r].told = "waits" THEN "due" ELSE runs[r].told
  BY RunStopsIs DEF IInv
<1>3. runs[r].told # "due"
  BY <1>1 DEF Told
<1>4. Told(r)' /\ Shown(r)'
  BY <1>1, <1>2, <1>3 DEF Told, Shown, Open, Live, RunType
<1>5. \A q \in Runs \ {r} : Shown(q)'
  BY <1>1, <1>2 DEF IInv, Shown, Open, Live
<1>6. MovesOn
  BY <1>1 DEF MovesOn
<1>7. QED
  BY <1>1, <1>2, <1>4, <1>5, <1>6, RunKeeps

\* A run is resumed after its callback, on a row that shows its decision.
LEMMA RunResumesKeeps ==
    ASSUME Orderly, IInv, TypeOK', NEW r \in Runs, NEW p \in Processes, RunResumes(r, p)
    PROVE  IInv'
<1>1. /\ RunStep /\ trig' = trig /\ runs[r].status = "awaiting" /\ runs[r].told # "due"
      /\ Shown(r) /\ Told(r) /\ runs[r] \in RunType
  BY DEF RunResumes, Quiet, Orderly, IInv, TypeOK
<1>2. /\ \A q \in Runs \ {r} : runs'[q] = runs[q]
      /\ runs'[r].status = "running" /\ runs'[r].driver = p /\ ~runs'[r].old
      /\ runs'[r].now = runs[r].now /\ runs'[r].told = runs[r].told
  BY RunResumesIs DEF IInv
<1>3. runs[r].told = "done" /\ Open(r)
  BY <1>1 DEF Told, RunType, Open
<1>4. Told(r)' /\ Shown(r)'
  BY <1>1, <1>2, <1>3 DEF Told, Shown
<1>5. \A q \in Runs \ {r} : Shown(q)'
  BY <1>1, <1>2 DEF IInv, Shown, Open, Live
<1>6. MovesOn
  BY <1>1 DEF MovesOn
<1>7. QED
  BY <1>1, <1>2, <1>3, <1>4, <1>5, <1>6, RunKeeps

\* A decision that is never taken, a run that nobody drives.
LEMMA RunMovesKeeps ==
    ASSUME Orderly, IInv, TypeOK', NEW r \in Runs, RunUnanswered(r) \/ RunAges(r)
    PROVE  IInv'
<1>1. /\ RunStep /\ trig \in RowType
      /\ Shown(r) /\ Told(r) /\ runs[r] \in RunType
  BY DEF RunUnanswered, RunAges, IInv, TypeOK
<1>2. /\ \A q \in Runs \ {r} : runs'[q] = runs[q]
      /\ runs'[r].driver = runs[r].driver
      /\ runs'[r].now = runs[r].now /\ runs'[r].told = runs[r].told
      /\ runs'[r].status = IF RunAges(r) THEN runs[r].status ELSE "over"
      /\ runs'[r].old => runs[r].old \/ RunAges(r)
  BY RunMovesAre DEF IInv
<1>3. /\ trig'.run = trig.run /\ trig'.status = trig.status /\ trig'.nextAt = trig.nextAt
      /\ trig'.aged = trig.aged \/ (RunAges(r) /\ trig.run = r)
  BY <1>1 DEF RunUnanswered, RunAges, RowType
<1>4. RunAges(r) => runs[r].told = "done" /\ runs[r].driver = None
  BY <1>1 DEF RunAges, Told, Live, RunType, Orderly
<1>5. runs[r].status = "awaiting" => runs[r].told # "waits"
  BY <1>1 DEF Told
<1>6. ~RunAges(r) => runs[r].status = "awaiting"
  BY DEF RunUnanswered
<1>7. Open(r)' => Open(r)
  BY <1>2 DEF Open, Live
<1>8. Told(r)' /\ Shown(r)'
  BY <1>1, <1>2, <1>3, <1>4, <1>5, <1>6, <1>7 DEF Told, Shown, RunType
<1>9. \A q \in Runs \ {r} : Shown(q)'
  <2>1. ASSUME NEW q \in Runs \ {r}
        PROVE  Shown(q)'
    <3>1. Shown(q) /\ runs'[q] = runs[q] /\ (Open(q)' => Open(q))
      BY <1>2 DEF IInv, Open, Live
    <3>2. trig'.aged = trig.aged \/ trig.run # q
      BY <1>3
    <3>3. QED
      BY <1>3, <3>1, <3>2 DEF Shown
  <2>2. QED
    BY <2>1
<1>10. MovesOn
  BY <1>3 DEF MovesOn
<1>11. QED
  BY <1>1, <1>2, <1>3, <1>7, <1>8, <1>9, <1>10, RunKeeps

\* The callback writes what became of the run, and no slot before its launch.
LEMMA CallbackKeeps ==
    ASSUME IInv, TypeOK', NEW r \in Runs, Callback(r)
    PROVE  IInv'
<1>1. /\ RunStep /\ runs[r].told = "due" /\ Shown(r) /\ Told(r) /\ runs[r] \in RunType
  BY DEF Callback, IInv, TypeOK
<1>2. /\ \A q \in Runs \ {r} : runs'[q] = runs[q]
      /\ runs'[r].told = "done"
      /\ runs'[r].status = Settled(runs[r]).status /\ runs'[r].driver = runs[r].driver
      /\ trig'.run = trig.run /\ trig'.aged = trig.aged
      /\ trig'.status = Settled(runs[r]).status
      /\ trig'.nextAt = NextRun(runs[r].config, runs[r].now)
  BY CallbackIs DEF IInv
<1>3. runs[r].status \in {"over", "awaiting"} /\ trig.run = r
  BY <1>1 DEF Told, Shown
<1>4. Settled(runs[r]).status = runs[r].status
  BY <1>3 DEF Settled
<1>5. Open(r)' => Open(r)
  BY <1>1, <1>2, <1>3, <1>4 DEF Open, Live, Told
<1>6. Told(r)' /\ Shown(r)'
  BY <1>1, <1>2, <1>3, <1>4 DEF Told, Shown, Open, Live
<1>7. \A q \in Runs \ {r} : Shown(q)'
  <2>1. ASSUME NEW q \in Runs \ {r}
        PROVE  Shown(q)'
    <3>1. Shown(q) /\ runs'[q] = runs[q] /\ trig.run # q /\ (Open(q)' => Open(q))
      BY <1>2, <1>3 DEF IInv, Open, Live
    <3>2. QED
      BY <3>1 DEF Shown
  <2>2. QED
    BY <2>1
<1>8. \A q \in Processes : tick[q].at # "launching"
  BY <1>1 DEF IInv, Watched, Taken
<1>9. MovesOn
  <2>1. runs[r].config \in Versions /\ runs[r].now \in Nat
    BY <1>1 DEF RunType
  <2>2. trig'.nextAt = 0 \/ runs[r].now < trig'.nextAt
    BY <1>2, <2>1, NextRunIs
  <2>3. QED
    BY <1>1, <2>2 DEF MovesOn
<1>10. QED
  BY <1>1, <1>2, <1>5, <1>6, <1>7, <1>8, <1>9, RunKeeps

\* A process that dies leaves no tick, no task and no callback behind it.
LEMMA CrashKeeps ==
    ASSUME Orderly, IInv, TypeOK', NEW p \in Processes, Crash(p)
    PROVE  IInv'
<1>1. /\ UNCHANGED <<clock, trig, launched>> /\ Rests(p)
      /\ \A r \in Runs : runs[r].told # "due"
  BY DEF Crash, Quiet, Orderly
<1>2. \A r \in Runs :
          /\ runs'[r].status = runs[r].status /\ runs'[r].now = runs[r].now
          /\ runs'[r].home = runs[r].home /\ runs'[r].old = runs[r].old
          /\ runs'[r].driver = IF runs[r].driver = p THEN None ELSE runs[r].driver
          /\ runs'[r].told = IF runs[r].home = p THEN "done" ELSE runs[r].told
  BY CrashIs DEF IInv
<1>3. ASSUME NEW r \in Runs
      PROVE  Told(r)' /\ Shown(r)' /\ (Open(r)' => Open(r))
  <2>1. Told(r) /\ Shown(r) /\ runs[r] \in RunType /\ runs[r].told # "due"
    BY <1>1 DEF IInv, TypeOK
  <2>2. Open(r)' => Open(r)
    BY <1>2 DEF Open, Live
  <2>3. Told(r)'
    BY <1>2, <2>1 DEF Told
  <2>4. Shown(r)'
    <3>1. CASE runs[r].told = "waits" /\ runs[r].home = p
      BY <1>2, <2>1, <3>1 DEF Told, Shown, Open, Live
    <3>2. CASE ~(runs[r].told = "waits" /\ runs[r].home = p)
      <4>1. runs'[r].told = runs[r].told
        BY <1>2, <2>1, <3>2 DEF RunType
      <4>2. QED
        BY <1>1, <2>1, <2>2, <4>1 DEF Shown
    <3>3. QED
      BY <3>1, <3>2
  <2>5. QED
    BY <2>2, <2>3, <2>4
<1>4. \A q \in Processes : Continues(q)
  <2>1. trig' \in RowType
    BY DEF TypeOK
  <2>2. tick'[p].at = "idle" /\ \A q \in Processes \ {p} : tick'[q] = tick[q]
    BY <1>1, <2>1, RestsIs DEF IInv
  <2>3. Continues(p)
    BY <2>2 DEF Continues
  <2>4. QED
    BY <1>1, <2>2, <2>3, Stays
<1>5. MovesOn
  BY <1>1 DEF MovesOn
<1>6. QED
  BY <1>1, <1>2, <1>3, <1>4, <1>5, QuietKeeps

\* A save is not seen by the trigger before it is synchronised.
LEMMA StutterKeeps ==
    ASSUME IInv, TypeOK', UNCHANGED <<clock, trig, tick, runs, launched>>
    PROVE  IInv'
<1>1. \A q \in Processes : Continues(q)
  BY Stays
<1>2. MovesOn
  BY DEF MovesOn
<1>3. QED
  BY <1>1, <1>2, RowKeeps

\* The instant of a slot passes.
LEMMA ElapseKeeps ==
    ASSUME Orderly, IInv, TypeOK', Elapse
    PROVE  IInv'
<1>1. /\ UNCHANGED <<trig, tick, runs, launched>> /\ clock' = clock + 1 /\ clock \in Nat
      /\ OneProcess \/ \A p \in Processes : tick[p].at = "idle"
  BY DEF Elapse, Orderly, IInv, TypeOK
<1>2. Ticks'
  <2>1. ASSUME NEW q \in Processes, Active(q)
        PROVE  tick[q].now <= clock + 1
    <3>1. tick[q].now <= clock /\ tick[q].now \in Nat
      BY <2>1 DEF IInv, Ticks, TypeOK, TickType
    <3>2. QED
      BY <1>1, <3>1
  <2>2. QED
    BY <1>1, <2>1 DEF IInv, Ticks, Active, Taken, OneProcess
<1>3. \A r \in Runs : Told(r)' /\ Shown(r)'
  BY <1>1 DEF IInv, Told, Shown, Open, Live
<1>4. \A q \in Processes : Watched(q)'
  BY <1>1 DEF IInv, Watched, Reads, Ahead, Taken, Open, Live
<1>5. ASSUME NEW s \in Slots
      PROVE  Behind(s)'
  <2>1. Behind(s) /\ s \in Nat
    BY DEF IInv, Slots
  <2>2. s <= clock => s <= clock + 1
    BY <1>1, <2>1
  <2>3. QED
    BY <1>1, <2>1, <2>2 DEF Behind, Active, Taken
<1>6. QED
  BY <1>2, <1>3, <1>4, <1>5 DEF IInv

LEMMA InitEstablishes == Init => IInv
<1> SUFFICES ASSUME Init
             PROVE  IInv
  OBVIOUS
<1>1. TypeOK
  BY InitTypes
<1>2. /\ clock = 0
      /\ \A p \in Processes : tick[p].at = "idle"
      /\ \A s \in Slots : launched[s] = 0
      /\ \A r \in Runs :
            runs[r].status = "none" /\ runs[r].told = "done" /\ runs[r].driver = None
  BY DEF Init
<1>3. Ticks
  BY <1>2 DEF Ticks, Active, Taken
<1>4. \A r \in Runs : Told(r) /\ Shown(r)
  BY <1>2 DEF Told, Shown, Open, Live
<1>5. \A p \in Processes : Watched(p)
  BY <1>2 DEF Watched, Taken
<1>6. \A s \in Slots : Behind(s)
  BY <1>2 DEF Behind
<1>7. QED
  BY <1>1, <1>3, <1>4, <1>5, <1>6 DEF IInv

LEMMA StepKeeps ==
    ASSUME Orderly, IInv, [Next]_vars
    PROVE  IInv'
<1>1. TypeOK'
  BY StepTypes DEF IInv
<1>2. CASE UNCHANGED vars
  BY <1>1, <1>2, StutterKeeps DEF vars
<1>3. CASE Elapse
  BY <1>1, <1>3, ElapseKeeps
<1>4. ASSUME NEW p \in Processes, Tick(p)
      PROVE  IInv'
  <2>1. TickReads(p) => IInv'
    BY <1>1, TickReadsKeeps
  <2>2. TickLooks(p) => IInv'
    BY <1>1, TickLooksKeeps
  <2>3. TickReserves(p) => IInv'
    BY <1>1, TickReservesKeeps
  <2>4. TickMarks(p) => IInv'
    BY <1>1, TickMarksKeeps
  <2>5. TickSkips(p) \/ TickDisarms(p) \/ TickFails(p) => IInv'
    BY <1>1, TickRestsKeeps
  <2>6. TickLaunches(p) => IInv'
    BY <1>1, TickLaunchesKeeps
  <2>7. QED
    BY <1>4, <2>1, <2>2, <2>3, <2>4, <2>5, <2>6 DEF Tick
<1>5. ASSUME NEW p \in Processes, Save(p) \/ Sync(p) \/ Crash(p)
      PROVE  IInv'
  <2>1. Save(p) => UNCHANGED <<clock, trig, tick, runs, launched>>
    BY DEF Save
  <2>2. Save(p) => IInv'
    BY <1>1, <2>1, StutterKeeps
  <2>3. Sync(p) => IInv'
    BY <1>1, SyncKeeps
  <2>4. Crash(p) => IInv'
    BY <1>1, CrashKeeps
  <2>5. QED
    BY <1>5, <2>2, <2>3, <2>4
<1>6. ASSUME NEW r \in Runs,
             \/ RunStops(r) \/ RunUnanswered(r) \/ RunAges(r) \/ Callback(r)
             \/ \E p \in Processes : RunResumes(r, p)
      PROVE  IInv'
  <2>1. RunStops(r) => IInv'
    BY <1>1, RunStopsKeeps
  <2>2. RunUnanswered(r) \/ RunAges(r) => IInv'
    BY <1>1, RunMovesKeeps
  <2>3. Callback(r) => IInv'
    BY <1>1, CallbackKeeps
  <2>4. ASSUME NEW p \in Processes, RunResumes(r, p)
        PROVE  IInv'
    BY <1>1, <2>4, RunResumesKeeps
  <2>5. QED
    BY <1>6, <2>1, <2>2, <2>3, <2>4
<1>7. QED
  BY <1>2, <1>3, <1>4, <1>5, <1>6 DEF Next

-----------------------------------------------------------------------------
(* What the trigger promises.                                               *)

\* The row, the ticks and the runs keep their types, whatever the hazards: late
\* callbacks, slow ticks, crashes and saves.
THEOREM TypeCorrect == Spec => []TypeOK
<1>1. QED
  BY InitTypes, StepTypes, PTL DEF Spec

\* Ticks, runs and the row agree on who may launch, on the slots already launched
\* and on where next_run_at may go.
THEOREM Invariance ==
    ASSUME Orderly
    PROVE  Spec => []IInv
<1>1. IInv /\ [Next]_vars => IInv'
  BY StepKeeps
<1>2. QED
  BY <1>1, InitEstablishes, PTL DEF Spec

\* fire_schedule_trigger: no run is launched beside one that is under way or
\* waits for a decision.
THEOREM NoOverlapping ==
    ASSUME Orderly
    PROVE  Spec => []NoOverlap
<1>1. ASSUME IInv
      PROVE  NoOverlap
  <2> DEFINE open == {r \in Runs : Open(r)}
  <2>1. \A r \in open : r = trig.run
    BY <1>1 DEF IInv, Shown
  <2>2. CASE open = {}
    <3>1. Cardinality(open) = 0
      BY <2>2, FS_EmptySet
    <3>2. QED
      BY <3>1 DEF NoOverlap
  <2>3. CASE open # {}
    <3>1. open = {trig.run}
      BY <2>1, <2>3
    <3>2. Cardinality(open) = 1
      BY <3>1, FS_Singleton
    <3>3. QED
      BY <3>2 DEF NoOverlap
  <2>4. QED
    BY <2>2, <2>3
<1>2. IInv => NoOverlap
  BY <1>1
<1>3. QED
  BY <1>2, Invariance, PTL

\* flow_scheduler: a slot is launched at most once, across ticks, replicas,
\* callbacks, crashes and saves.
THEOREM OneLaunch ==
    ASSUME Orderly
    PROVE  Spec => []OneLaunchPerSlot
<1>1. IInv => OneLaunchPerSlot
  BY DEF IInv, Behind, OneLaunchPerSlot
<1>2. QED
  BY <1>1, Invariance, PTL

-----------------------------------------------------------------------------
(* The row and the workflow it was saved with.                              *)

\* Until a process dies, a row that is not being synchronised is the one that the last
\* save left, and a tick disarms only what is no longer published.
Synchronised ==
    /\ \A p \in Processes : tick[p].at \in Stretch => saving[p] = None
    /\ crashes \in Nat
    /\ crashes = 0 =>
          /\ \A p \in Processes : saving[p] # None => saving[p] = wf
          /\ (\A p \in Processes : saving[p] = None) =>
                trig.active = wf.published /\ trig.config = wf.version
          /\ \A p \in Processes : tick[p].at = "refused" => ~wf.published

LEMMA SynchronisedTick ==
    ASSUME OneProcess, TypeOK, TypeOK', Synchronised, NEW p \in Processes, Tick(p)
    PROVE  Synchronised'
<1>1. /\ trig \in RowType /\ trig' \in RowType /\ wf.published \in BOOLEAN
      /\ \A q \in Processes : q = p
  BY DEF TypeOK, Workflow, OneProcess
<1>2. UNCHANGED <<wf, saving, crashes>>
  BY DEF Tick, TickReads, TickLooks, TickSkips, TickReserves, TickMarks,
         TickDisarms, TickLaunches, TickFails
<1>3. TickLooks(p) => saving[p] = None
  BY DEF TickLooks, Free
<1>4. TickReserves(p) \/ TickMarks(p) \/ TickDisarms(p) => saving[p] = None
  BY DEF TickReserves, TickMarks, TickDisarms, Stretch, Synchronised
<1>5. /\ TickReads(p) => tick'[p].at = "read"
      /\ TickLooks(p) => tick'[p].at \in {"skipping", "reserving"}
      /\ TickReserves(p) => tick'[p].at \in {"marking", "idle"}
      /\ TickMarks(p) => tick'[p].at = IF wf.published THEN "launching" ELSE "refused"
      /\ TickSkips(p) \/ TickDisarms(p) \/ TickLaunches(p) \/ TickFails(p) =>
            tick'[p].at = "idle"
  <2>1. TickReads(p) => tick'[p].at = "read"
    BY DEF TickReads, TypeOK
  <2>2. TickLooks(p) => tick'[p].at \in {"skipping", "reserving"}
    BY GoesIs DEF TickLooks
  <2>3. TickReserves(p) => tick'[p].at \in {"marking", "idle"}
    BY <1>1, GoesIs, RestsIs DEF TickReserves
  <2>4. TickMarks(p) => tick'[p].at = IF wf.published THEN "launching" ELSE "refused"
    BY GoesIs DEF TickMarks
  <2>5. TickSkips(p) \/ TickDisarms(p) \/ TickLaunches(p) \/ TickFails(p) =>
            tick'[p].at = "idle"
    BY <1>1, RestsIs DEF TickSkips, TickDisarms, TickLaunches, TickFails
  <2>6. QED
    BY <2>1, <2>2, <2>3, <2>4, <2>5
<1>6. tick'[p].at \in Stretch => saving'[p] = None
  BY <1>2, <1>3, <1>4, <1>5 DEF Tick, Stretch
<1>7. tick'[p].at = "refused" => ~wf.published
  BY <1>5 DEF Tick
<1>8. /\ trig'.config = trig.config
      /\ trig'.active = IF TickDisarms(p) THEN FALSE ELSE trig.active
  <2>1. TickDisarms(p) => trig'.config = trig.config /\ trig'.active = FALSE
    BY <1>1 DEF TickDisarms, RowType
  <2>2. TickReads(p) \/ TickLooks(p) \/ TickSkips(p) \/ TickReserves(p) \/ TickMarks(p)
          \/ TickFails(p) => trig'.config = trig.config /\ trig'.active = trig.active
    <3>1. ASSUME NEW next
          PROVE  LET new == [trig EXCEPT !.nextAt = next] IN
                 new.config = trig.config /\ new.active = trig.active
      BY <1>1 DEF RowType
    <3>2. ASSUME NEW status
          PROVE  LET new == [trig EXCEPT !.status = status] IN
                 new.config = trig.config /\ new.active = trig.active
      BY <1>1 DEF RowType
    <3>3. QED
      BY <3>1, <3>2
         DEF TickReads, TickLooks, TickSkips, TickReserves, TickMarks, TickFails
  <2>3. TickLaunches(p) => trig'.config = trig.config /\ trig'.active = trig.active
    BY TickLaunchesIs
  <2>4. TickDisarms(p) => ~TickLaunches(p)
    BY DEF TickDisarms, TickLaunches
  <2>5. QED
    BY <2>1, <2>2, <2>3, <2>4 DEF Tick
<1>9. crashes = 0 /\ TickDisarms(p) => ~wf.published
  BY DEF TickDisarms, Synchronised
<1>10. QED
  BY <1>1, <1>2, <1>6, <1>7, <1>8, <1>9 DEF Synchronised

LEMMA SynchronisedStep ==
    ASSUME OneProcess, TypeOK, TypeOK', Synchronised, [Next]_vars
    PROVE  Synchronised'
<1>1. /\ trig \in RowType /\ trig' \in RowType /\ crashes \in Nat
      /\ saving \in [Processes -> Workflow \cup {None}]
  BY DEF TypeOK, Synchronised
<1>2. CASE UNCHANGED <<wf, saving, tick, crashes>> /\ trig'.active = trig.active
              /\ trig'.config = trig.config
  BY <1>2 DEF Synchronised
<1>3. CASE UNCHANGED vars \/ Elapse
  BY <1>2, <1>3 DEF vars, Elapse
<1>4. ASSUME NEW p \in Processes, Save(p)
      PROVE  Synchronised'
  <2>1. PICK w \in Workflow : wf' = w /\ saving' = [saving EXCEPT ![p] = w]
    BY <1>4 DEF Save
  <2>2. w # None /\ saving'[p] = w
    BY <1>1, <2>1, TriggerAssumption DEF Workflow
  <2>3. \A q \in Processes : q = p /\ tick[q].at \notin Stretch
    BY <1>4 DEF OneProcess, Save, Free
  <2>4. UNCHANGED <<tick, trig, crashes>>
    BY <1>4 DEF Save
  <2>5. \A q \in Processes : tick[q].at # "refused"
    BY <2>3 DEF Stretch
  <2>6. QED
    BY <1>1, <2>1, <2>2, <2>3, <2>4, <2>5 DEF Synchronised
<1>5. ASSUME NEW p \in Processes, Sync(p)
      PROVE  Synchronised'
  <2>1. /\ saving[p] # None /\ saving' = [saving EXCEPT ![p] = None]
        /\ trig' = Synced(saving[p]) /\ UNCHANGED <<wf, tick, crashes>>
    BY <1>5 DEF Sync
  <2>2. trig'.active = saving[p].published /\ trig'.config = saving[p].version
    BY <1>1, <2>1 DEF Synced, RowType
  <2>3. \A q \in Processes : q = p /\ saving'[q] = None
    BY <1>1, <2>1 DEF OneProcess
  <2>4. QED
    BY <2>1, <2>2, <2>3 DEF Synchronised
<1>6. ASSUME NEW p \in Processes, Crash(p)
      PROVE  Synchronised'
  <2>1. crashes' = crashes + 1 /\ saving' = [saving EXCEPT ![p] = None] /\ Rests(p)
    BY <1>6 DEF Crash
  <2>2. \A q \in Processes : q = p /\ saving'[q] = None
    BY <1>1, <2>1 DEF OneProcess
  <2>3. crashes' \in Nat /\ crashes' # 0
    BY <1>1, <2>1
  <2>4. QED
    BY <2>2, <2>3 DEF Synchronised
<1>7. ASSUME NEW p \in Processes, Tick(p)
      PROVE  Synchronised'
  BY <1>7, SynchronisedTick
<1>8. ASSUME NEW r \in Runs,
             \/ RunStops(r) \/ RunUnanswered(r) \/ RunAges(r) \/ Callback(r)
             \/ \E p \in Processes : RunResumes(r, p)
      PROVE  Synchronised'
  <2>1. UNCHANGED <<wf, saving, tick, crashes>>
    BY <1>8 DEF RunStops, RunUnanswered, RunAges, Callback, RunResumes, RunStep
  <2>2. trig'.active = trig.active /\ trig'.config = trig.config
    <3>1. ASSUME NEW status, NEW next
          PROVE  LET new == [trig EXCEPT !.status = status, !.nextAt = next] IN
                 new.config = trig.config /\ new.active = trig.active
      BY <1>1 DEF RowType
    <3>2. Callback(r) => trig'.active = trig.active /\ trig'.config = trig.config
      BY <3>1 DEF Callback
    <3>3. RunAges(r) => trig'.active = trig.active /\ trig'.config = trig.config
      BY <1>1 DEF RunAges, RowType
    <3>4. RunStops(r) \/ RunUnanswered(r) \/ (\E p \in Processes : RunResumes(r, p)) =>
              trig' = trig
      BY DEF RunStops, RunUnanswered, RunResumes
    <3>5. QED
      BY <1>8, <3>2, <3>3, <3>4
  <2>3. QED
    BY <1>2, <2>1, <2>2
<1>9. QED
  BY <1>3, <1>4, <1>5, <1>6, <1>7, <1>8 DEF Next

\* sync_trigger_for_workflow: between saves, and as long as no process dies between the
\* two transactions of one, the row is the one of the last version and status saved.
\* With several processes two saves may be synchronised in the other order.
THEOREM Armed ==
    ASSUME OneProcess
    PROVE  Spec => []ArmedAsPublished
<1>1. ASSUME Init
      PROVE  Synchronised
  <2>1. wf.published = TRUE /\ trig.active = TRUE
    BY <1>1 DEF Init, Workflow
  <2>2. trig.config = wf.version /\ crashes = 0
    BY <1>1 DEF Init
  <2>3. \A p \in Processes : tick[p].at = "idle" /\ saving[p] = None
    BY <1>1 DEF Init
  <2>4. QED
    BY <2>1, <2>2, <2>3 DEF Synchronised, Stretch
<1>2. TypeOK /\ Synchronised /\ [Next]_vars => TypeOK' /\ Synchronised'
  BY StepTypes, SynchronisedStep
<1>3. Synchronised => ArmedAsPublished
  BY DEF Synchronised, ArmedAsPublished, Free
<1>4. QED
  BY <1>1, <1>2, <1>3, InitTypes, PTL DEF Spec
=============================================================================
