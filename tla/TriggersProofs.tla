----------------------------- MODULE TriggersProofs -----------------------------
(***************************************************************************)
(* At most one mail about the failures of a workflow per ALERT_COOLDOWN, and *)
(* no failure left out is told twice; one run per file, new or modified: for  *)
(* any number of failures, tries, hours, files, versions and processes.      *)
(***************************************************************************)
EXTENDS MCTriggers, Integers, FiniteSetTheorems, WellFoundedInduction, TLAPS

-----------------------------------------------------------------------------
(* FailureAlerts.                                                           *)

Slots == [last : Int, grouped : Nat]

\* What the constants are: an ALERT_COOLDOWN is not negative, NULL is no row.
AlertsConstants ==
    Cooldown \in Nat /\ Tries \in Nat /\ None \notin Slots

TaskType ==
    [at : {"idle", "claimed", "read", "again", "counted", "mail", "teams", "over"},
     now : Nat, read : Slots \cup {None, "sent", "failed"}, tries : Nat]

MailType == [of : Failures, at : Nat, told : Nat]

AlertsTypeOK ==
    /\ clock \in Nat
    /\ slot \in Slots \cup {None}
    /\ task \in [Failures -> TaskType]
    /\ mails \subseteq MailType

\* What a task read is a row, it reads at the hour it is, and its mail leaves once.
Tasks ==
    /\ \A f \in Failures :
          /\ task[f].at \in {"read", "again"} => task[f].now = clock
          /\ task[f].at \in {"read", "again", "mail"} =>
                task[f].read \in Slots \cup {None}
          /\ task[f].at = "read" /\ task[f].read # None => slot # None
          /\ task[f].at = "mail" => slot # None /\ task[f].now <= clock
    /\ \A m \in mails :
          slot # None /\ m.at <= clock /\ task[m.of].at \in {"teams", "over"}

\* f has taken the slot at hour t, and its mail has left or is about to.
Stamped(f, t) ==
    \/ task[f].at = "mail" /\ task[f].now = t
    \/ \E m \in mails : m.of = f /\ m.at = t

\* Two stamps are a cooldown apart, and the slot bars the hours in between, unless they
\* have passed.
Spaced ==
    /\ \A f, g \in Failures : \A s, t \in Nat :
          f # g /\ Stamped(f, s) /\ Stamped(g, t) /\ s <= t => t - s >= Cooldown
    /\ \A f \in Failures : \A t \in Nat :
          Stamped(f, t) => t <= slot.last \/ t <= clock - Cooldown

AlertsInv == AlertsTypeOK /\ Tasks /\ Spaced

-----------------------------------------------------------------------------
(* The steps.                                                               *)

LEMMA LaterIsOlder ==
    ASSUME NEW t \in Nat, NEW now \in Nat, NEW later \in Nat, NEW c \in Nat,
           now <= later, t <= now - c
    PROVE  t <= later - c
  OBVIOUS

\* A step that stamps nothing and leaves the slot as it is.
LEMMA SpacedStays ==
    ASSUME Cooldown \in Nat, Spaced, clock \in Nat, clock' \in Nat, clock <= clock',
           slot' = slot \/ slot'.last = slot.last,
           \A f \in Failures : \A t \in Nat : Stamped(f, t)' => Stamped(f, t)
    PROVE  Spaced'
<1>1. slot'.last = slot.last
  OBVIOUS
<1>2. \A f, g \in Failures : \A s, t \in Nat :
          f # g /\ Stamped(f, s)' /\ Stamped(g, t)' /\ s <= t => t - s >= Cooldown
  BY DEF Spaced
<1>3. ASSUME NEW f \in Failures, NEW t \in Nat, Stamped(f, t)'
      PROVE  t <= slot'.last \/ t <= clock' - Cooldown
  <2>1. t <= slot.last \/ t <= clock - Cooldown
    BY <1>3 DEF Spaced
  <2>2. t <= clock - Cooldown => t <= clock' - Cooldown
    BY LaterIsOlder
  <2>3. QED
    BY <1>1, <2>1, <2>2
<1>4. QED
  BY <1>2, <1>3 DEF Spaced

\* Only the task of f moves, and it has no stamp after the step but one it had.
LEMMA OneMoves ==
    ASSUME AlertsConstants, AlertsInv, NEW f \in Failures,
           task' \in [Failures -> TaskType],
           \A g \in Failures \ {f} : task'[g] = task[g],
           task'[f].at \in {"read", "again"} => task'[f].now = clock,
           task'[f].at \in {"read", "again"} => task'[f].read \in Slots \cup {None},
           task'[f].at = "read" /\ task'[f].read # None => slot # None,
           task'[f].at # "mail",
           task[f].at \in {"teams", "over"} => task'[f].at \in {"teams", "over"},
           clock' = clock, mails' = mails,
           slot' \in Slots \cup {None}, slot # None => slot' # None,
           slot' = slot \/ slot'.last = slot.last
    PROVE  AlertsInv'
<1>1. AlertsTypeOK'
  BY DEF AlertsInv, AlertsTypeOK
<1>3. Tasks'
  <2>1. ASSUME NEW g \in Failures
        PROVE  /\ task'[g].at \in {"read", "again"} => task'[g].now = clock'
               /\ task'[g].at \in {"read", "again", "mail"} =>
                     task'[g].read \in Slots \cup {None}
               /\ task'[g].at = "read" /\ task'[g].read # None => slot' # None
               /\ task'[g].at = "mail" => slot' # None /\ task'[g].now <= clock'
    BY DEF AlertsInv, Tasks
  <2>2. ASSUME NEW m \in mails'
        PROVE  slot' # None /\ m.at <= clock' /\ task'[m.of].at \in {"teams", "over"}
    <3>1. m \in mails /\ m.of \in Failures
      BY DEF AlertsInv, AlertsTypeOK, MailType
    <3>2. QED
      BY <3>1 DEF AlertsInv, Tasks
  <2>3. QED
    BY <2>1, <2>2 DEF Tasks
<1>4. \A g \in Failures : \A t \in Nat : Stamped(g, t)' => Stamped(g, t)
  BY DEF Stamped
<1>5. Spaced'
  BY <1>4, SpacedStays DEF AlertsInv, AlertsTypeOK, AlertsConstants
<1>6. QED
  BY <1>1, <1>3, <1>5 DEF AlertsInv

LEMMA ReadsSlotKeeps ==
    ASSUME AlertsConstants, AlertsInv, NEW f \in Failures, Alerts!ReadsSlot(f)
    PROVE  AlertsInv'
<1>1. /\ task \in [Failures -> TaskType] /\ clock \in Nat
      /\ slot \in Slots \cup {None}
  BY DEF AlertsInv, AlertsTypeOK
<1>2. /\ UNCHANGED <<clock, slot, mails>> /\ task[f].at \in {"claimed", "again"}
      /\ task[f].at = "again" => task[f].now = clock
  BY DEF Alerts!ReadsSlot, AlertsInv, Tasks
<1> DEFINE now == IF task[f].at = "claimed" THEN clock ELSE task[f].now
           moved == [task[f] EXCEPT !.at = "read", !.read = slot, !.now = now]
<1>3. /\ task' \in [Failures -> TaskType]
      /\ task'[f].at = "read" /\ task'[f].read = slot /\ task'[f].now = clock
      /\ \A g \in Failures \ {f} : task'[g] = task[g]
  <2>1. task' = [g \in Failures |-> IF g = f THEN moved ELSE task[g]]
    BY <1>1 DEF Alerts!ReadsSlot
  <2>2. now = clock
    BY <1>2
  <2> HIDE DEF now
  <2>3. task[f] \in TaskType
    BY <1>1
  <2>4. moved \in TaskType /\ moved.at = "read" /\ moved.read = slot /\ moved.now = clock
    BY <1>1, <2>2, <2>3 DEF TaskType
  <2> HIDE DEF moved
  <2>5. QED
    BY <1>1, <2>1, <2>4
<1> HIDE DEF now, moved
<1>4. QED
  BY <1>1, <1>2, <1>3, OneMoves

\* The slot was free or its hour is over: every stamp is a cooldown old.
LEMMA TakesKeeps ==
    ASSUME AlertsConstants, AlertsInv, NEW f \in Failures, Alerts!Takes(f)
    PROVE  AlertsInv'
<1> USE DEF AlertsConstants
<1>1. task \in [Failures -> TaskType] /\ clock \in Nat /\ slot \in Slots \cup {None}
  BY DEF AlertsInv, AlertsTypeOK
<1>2. /\ task' = [task EXCEPT ![f].at = "mail"] /\ clock' = clock /\ mails' = mails
      /\ slot' = [last |-> clock, grouped |-> 0] /\ task[f].at = "read"
      /\ task[f].now = clock
  BY DEF Alerts!Takes, AlertsInv, Tasks
<1>3. /\ task'[f].at = "mail" /\ task'[f].now = clock /\ task'[f].read = task[f].read
      /\ \A g \in Failures \ {f} : task'[g] = task[g]
  BY <1>1, <1>2 DEF TaskType
<1>4. slot' \in Slots /\ slot'.last = clock /\ slot' # None
  BY <1>1, <1>2 DEF Slots
<1>5. AlertsTypeOK'
  <2>1. task' \in [Failures -> TaskType]
    BY <1>1, <1>2 DEF TaskType
  <2>2. QED
    BY <1>1, <1>2, <1>4, <2>1 DEF AlertsInv, AlertsTypeOK
<1>6. Tasks'
  <2>1. ASSUME NEW g \in Failures
        PROVE  /\ task'[g].at \in {"read", "again"} => task'[g].now = clock'
               /\ task'[g].at \in {"read", "again", "mail"} =>
                     task'[g].read \in Slots \cup {None}
               /\ task'[g].at = "read" /\ task'[g].read # None => slot' # None
               /\ task'[g].at = "mail" => slot' # None /\ task'[g].now <= clock'
    BY <1>1, <1>2, <1>3, <1>4 DEF AlertsInv, Tasks
  <2>2. ASSUME NEW m \in mails'
        PROVE  slot' # None /\ m.at <= clock' /\ task'[m.of].at \in {"teams", "over"}
    <3>1. m \in mails /\ m.of \in Failures /\ m.of # f
      BY <1>2 DEF AlertsInv, AlertsTypeOK, MailType, Tasks
    <3>2. QED
      BY <1>2, <1>3, <1>4, <3>1 DEF AlertsInv, Tasks
  <2>3. QED
    BY <2>1, <2>2 DEF Tasks
<1>7. \A g \in Failures : \A t \in Nat :
          Stamped(g, t)' => (g = f /\ t = clock) \/ (g # f /\ Stamped(g, t))
  <2>1. ~ \E m \in mails : m.of = f
    BY <1>2 DEF AlertsInv, Tasks
  <2>2. QED
    BY <1>2, <1>3, <2>1 DEF Stamped
<1>8. ASSUME NEW g \in Failures, NEW t \in Nat, Stamped(g, t)
      PROVE  t <= clock - Cooldown
  <2>1. slot # None
    BY <1>8 DEF Stamped, AlertsInv, Tasks
  <2>2. slot.last <= clock - Cooldown /\ slot.last \in Int
    BY <1>1, <1>2, <2>1 DEF Alerts!Takes, Alerts!Elapsed, Slots
  <2>3. QED
    BY <1>1, <1>8, <2>2 DEF AlertsInv, Spaced
<1>9. Spaced'
  <2>1. ASSUME NEW g \in Failures, NEW h \in Failures, NEW s \in Nat, NEW t \in Nat,
               g # h, Stamped(g, s)', Stamped(h, t)', s <= t
        PROVE  t - s >= Cooldown
    <3>1. CASE g # f /\ h # f
      BY <1>7, <2>1, <3>1 DEF AlertsInv, Spaced
    <3>2. CASE h = f
      <4>1. Stamped(g, s) /\ t = clock
        BY <1>7, <2>1, <3>2
      <4>2. QED
        BY <1>1, <1>8, <4>1
    <3>3. CASE g = f
      <4>1. Stamped(h, t) /\ s = clock
        BY <1>7, <2>1, <3>3
      <4>2. t <= clock - Cooldown
        BY <1>8, <4>1
      <4>3. QED
        BY <1>1, <2>1, <4>1, <4>2
    <3>4. QED
      BY <3>1, <3>2, <3>3
  <2>2. ASSUME NEW g \in Failures, NEW t \in Nat, Stamped(g, t)'
        PROVE  t <= slot'.last
    BY <1>1, <1>4, <1>7, <1>8, <2>2
  <2>3. QED
    BY <2>1, <2>2 DEF Spaced
<1>10. QED
  BY <1>5, <1>6, <1>9 DEF AlertsInv

LEMMA OvertakenKeeps ==
    ASSUME AlertsConstants, AlertsInv, NEW f \in Failures, Alerts!Overtaken(f)
    PROVE  AlertsInv'
<1>1. /\ task \in [Failures -> TaskType] /\ slot \in Slots \cup {None}
  BY DEF AlertsInv, AlertsTypeOK
<1>2. /\ UNCHANGED <<clock, slot, mails>> /\ task[f].at = "read"
      /\ task[f].now = clock /\ task[f].read \in Slots \cup {None}
  BY DEF Alerts!Overtaken, AlertsInv, Tasks
<1> DEFINE tries == task[f].tries + 1
           moved == [task[f] EXCEPT !.at = "again", !.tries = tries]
<1>3. /\ task' \in [Failures -> TaskType]
      /\ task'[f].at = "again" /\ task'[f].read = task[f].read
      /\ task'[f].now = task[f].now
      /\ \A g \in Failures \ {f} : task'[g] = task[g]
  <2>1. task' = [g \in Failures |-> IF g = f THEN moved ELSE task[g]]
    BY <1>1 DEF Alerts!Overtaken
  <2>2. task[f] \in TaskType
    BY <1>1
  <2>3. tries \in Nat
    BY <2>2 DEF TaskType
  <2> HIDE DEF tries
  <2>4. /\ moved \in TaskType /\ moved.at = "again"
        /\ moved.read = task[f].read /\ moved.now = task[f].now
    BY <2>2, <2>3 DEF TaskType
  <2> HIDE DEF moved
  <2>5. QED
    BY <1>1, <2>1, <2>4
<1> HIDE DEF tries, moved
<1>4. QED
  BY <1>1, <1>2, <1>3, OneMoves

\* A task that has no mail to send ends, has counted its failure, or is only claimed.
LEMMA OverKeeps ==
    ASSUME AlertsConstants, AlertsInv, NEW f \in Failures,
           NEW at \in {"claimed", "counted", "over"},
           at = "counted" => task[f].at = "read",
           task' = [task EXCEPT ![f].at = at],
           at = "claimed" => task[f].at = "idle",
           clock' = clock, mails' = mails,
           slot' \in Slots \cup {None}, slot # None => slot' # None,
           slot' = slot \/ slot'.last = slot.last
    PROVE  AlertsInv'
<1>1. task \in [Failures -> TaskType]
  BY DEF AlertsInv, AlertsTypeOK
<1>2. /\ task' \in [Failures -> TaskType] /\ task'[f].at = at
      /\ \A g \in Failures \ {f} : task'[g] = task[g]
  BY <1>1 DEF TaskType
<1>3. QED
  BY <1>2, OneMoves

LEMMA CountsKeeps ==
    ASSUME AlertsConstants, AlertsInv, NEW f \in Failures, Alerts!Counts(f)
    PROVE  AlertsInv'
<1>1. slot # None /\ slot \in Slots
  BY DEF Alerts!Counts, AlertsInv, AlertsTypeOK, Tasks
<1>2. slot' \in Slots /\ slot'.last = slot.last
  BY <1>1 DEF Alerts!Counts, Slots
<1>3. QED
  BY <1>2, OverKeeps DEF Alerts!Counts, AlertsConstants

\* The mail leaves with the stamp of its task.
LEMMA MailsKeeps ==
    ASSUME AlertsConstants, AlertsInv, NEW f \in Failures, Alerts!Mails(f)
    PROVE  AlertsInv'
<1>1. /\ task \in [Failures -> TaskType] /\ clock \in Nat /\ slot \in Slots \cup {None}
      /\ mails \subseteq MailType
  BY DEF AlertsInv, AlertsTypeOK
<1>2. /\ UNCHANGED <<clock, slot>> /\ task[f].at = "mail" /\ slot # None
      /\ task[f].now <= clock /\ task[f].read \in Slots \cup {None}
  BY DEF Alerts!Mails, AlertsInv, Tasks
<1> DEFINE mail == [of |-> f, at |-> task[f].now, told |-> Alerts!Told(f)]
<1>3. mails' = mails \cup {mail}
  BY DEF Alerts!Mails
<1>4. mail \in MailType /\ mail.of = f /\ mail.at = task[f].now
  <2>1. Alerts!Told(f) \in Nat
    BY <1>2 DEF Alerts!Told, Slots
  <2>2. QED
    BY <1>1, <2>1 DEF MailType, TaskType
<1> HIDE DEF mail
<1>5. PICK outcome \in {"sent", "failed"} :
          task' = [task EXCEPT ![f].at = "teams", ![f].read = outcome]
  BY DEF Alerts!Mails
<1> DEFINE moved == [task[f] EXCEPT !.at = "teams", !.read = outcome]
<1>6. /\ task' \in [Failures -> TaskType] /\ task'[f].at = "teams"
      /\ \A g \in Failures \ {f} : task'[g] = task[g]
  <2>1. task' = [g \in Failures |-> IF g = f THEN moved ELSE task[g]]
    BY <1>1, <1>5
  <2>2. task[f] \in TaskType
    BY <1>1
  <2>3. moved \in TaskType /\ moved.at = "teams"
    BY <2>2 DEF TaskType
  <2> HIDE DEF moved
  <2>4. QED
    BY <1>1, <2>1, <2>3
<1> HIDE DEF moved
<1>7. AlertsTypeOK'
  BY <1>1, <1>2, <1>3, <1>4, <1>6 DEF AlertsTypeOK
<1>8. Tasks'
  <2>1. ASSUME NEW g \in Failures
        PROVE  /\ task'[g].at \in {"read", "again"} => task'[g].now = clock'
               /\ task'[g].at \in {"read", "again", "mail"} =>
                     task'[g].read \in Slots \cup {None}
               /\ task'[g].at = "read" /\ task'[g].read # None => slot' # None
               /\ task'[g].at = "mail" => slot' # None /\ task'[g].now <= clock'
    BY <1>2, <1>6 DEF AlertsInv, Tasks
  <2>2. ASSUME NEW m \in mails'
        PROVE  slot' # None /\ m.at <= clock' /\ task'[m.of].at \in {"teams", "over"}
    <3>1. CASE m = mail
      BY <1>2, <1>4, <1>6, <3>1
    <3>2. CASE m \in mails
      <4>1. m.of \in Failures
        BY <1>1, <3>2 DEF MailType
      <4>2. QED
        BY <1>2, <1>6, <3>2, <4>1 DEF AlertsInv, Tasks
    <3>3. QED
      BY <1>3, <2>2, <3>1, <3>2
  <2>3. QED
    BY <2>1, <2>2 DEF Tasks
<1>9. \A g \in Failures : \A t \in Nat : Stamped(g, t)' => Stamped(g, t)
  <2>1. ASSUME NEW g \in Failures, NEW t \in Nat, Stamped(g, t)'
        PROVE  Stamped(g, t)
    <3>1. CASE g = f
      BY <1>2, <1>3, <1>4, <1>6, <2>1, <3>1 DEF Stamped
    <3>2. CASE g # f
      BY <1>3, <1>4, <1>6, <2>1, <3>2 DEF Stamped
    <3>3. QED
      BY <3>1, <3>2
  <2>2. QED
    BY <2>1
<1>10. Spaced'
  BY <1>1, <1>2, <1>9, SpacedStays DEF AlertsInv, AlertsConstants
<1>11. QED
  BY <1>7, <1>8, <1>10 DEF AlertsInv

\* The slot is given back: the mails before it are a cooldown older than it.
LEMMA MailCutKeeps ==
    ASSUME AlertsConstants, AlertsInv, NEW f \in Failures, Alerts!MailCut(f)
    PROVE  AlertsInv'
<1>1. /\ task \in [Failures -> TaskType] /\ clock \in Nat /\ mails \subseteq MailType
      /\ Cooldown \in Nat
  BY DEF AlertsInv, AlertsTypeOK, AlertsConstants
<1>2. /\ UNCHANGED <<clock, mails>> /\ task[f].at = "mail" /\ slot \in Slots
      /\ task[f].now <= clock /\ task[f].read \in Slots \cup {None}
  BY DEF Alerts!MailCut, AlertsInv, AlertsTypeOK, Tasks
<1>3. CASE slot.last # task[f].now
  BY <1>2, <1>3, OverKeeps DEF Alerts!MailCut, Alerts!Settle, Alerts!Released
<1>4. CASE slot.last = task[f].now
  <2>1. /\ slot' = [last |-> Alerts!Never, grouped |-> Alerts!Told(f)]
        /\ task' = [task EXCEPT ![f].at = "over"]
    BY <1>4 DEF Alerts!MailCut, Alerts!Settle, Alerts!Released
  <2>2. slot' \in Slots
    <3>1. Alerts!Told(f) \in Nat
      BY <1>2 DEF Alerts!Told, Slots
    <3>2. QED
      BY <1>1, <2>1, <3>1 DEF Slots, Alerts!Never
  <2>3. /\ task' \in [Failures -> TaskType] /\ task'[f].at = "over"
        /\ \A g \in Failures \ {f} : task'[g] = task[g]
    BY <1>1, <2>1 DEF TaskType
  <2>4. slot' # None
    BY <2>2 DEF AlertsConstants
  <2>5. AlertsTypeOK'
    BY <1>1, <1>2, <2>2, <2>3 DEF AlertsTypeOK
  <2>6. Tasks'
    <3>1. ASSUME NEW g \in Failures
          PROVE  /\ task'[g].at \in {"read", "again"} => task'[g].now = clock'
                 /\ task'[g].at \in {"read", "again", "mail"} =>
                       task'[g].read \in Slots \cup {None}
                 /\ task'[g].at = "mail" => task'[g].now <= clock'
      BY <1>2, <2>3 DEF AlertsInv, Tasks
    <3>2. ASSUME NEW m \in mails'
          PROVE  m.at <= clock' /\ task'[m.of].at \in {"teams", "over"}
      <4>1. m \in mails /\ m.of \in Failures
        BY <1>1, <1>2 DEF MailType
      <4>2. QED
        BY <1>2, <2>3, <4>1 DEF AlertsInv, Tasks
    <3>3. QED
      BY <2>4, <3>1, <3>2 DEF Tasks
  <2>7. \A g \in Failures : \A t \in Nat : Stamped(g, t)' => g # f /\ Stamped(g, t)
    <3>1. ~ \E m \in mails : m.of = f
      BY <1>2 DEF AlertsInv, Tasks
    <3>2. QED
      BY <1>2, <2>3, <3>1 DEF Stamped
  <2>8. Stamped(f, task[f].now) /\ task[f].now \in Nat
    BY <1>1, <1>2 DEF Stamped, TaskType
  <2>9. ASSUME NEW g \in Failures, NEW t \in Nat, Stamped(g, t)'
        PROVE  t <= clock' - Cooldown
    <3>1. Stamped(g, t) /\ g # f
      BY <2>7, <2>9
    <3>2. t <= task[f].now \/ t <= clock - Cooldown
      BY <1>4, <3>1 DEF AlertsInv, Spaced
    <3>3. t <= task[f].now => task[f].now - t >= Cooldown
      BY <2>8, <3>1 DEF AlertsInv, Spaced
    <3>4. QED
      BY <1>1, <1>2, <2>8, <3>2, <3>3
  <2>10. \A g, h \in Failures : \A s, t \in Nat :
            g # h /\ Stamped(g, s)' /\ Stamped(h, t)' /\ s <= t => t - s >= Cooldown
    BY <2>7 DEF AlertsInv, Spaced
  <2>11. Spaced'
    BY <2>9, <2>10 DEF Spaced
  <2>12. QED
    BY <2>5, <2>6, <2>11 DEF AlertsInv
<1>5. QED
  BY <1>3, <1>4

LEMMA HourPassesKeeps ==
    ASSUME AlertsConstants, AlertsInv, Alerts!TimePasses
    PROVE  AlertsInv'
<1>1. /\ UNCHANGED <<slot, task, mails>> /\ clock' = clock + 1 /\ clock \in Nat
      /\ \A f \in Failures : task[f].at \notin {"read", "again"}
  BY DEF Alerts!TimePasses, AlertsInv, AlertsTypeOK
<1>2. AlertsTypeOK'
  BY <1>1 DEF AlertsInv, AlertsTypeOK
<1>3. Tasks'
  <2>1. ASSUME NEW g \in Failures, task[g].at = "mail"
        PROVE  task[g].now <= clock'
    BY <1>1, <2>1 DEF AlertsInv, AlertsTypeOK, TaskType, Tasks
  <2>2. ASSUME NEW m \in mails
        PROVE  m.at <= clock'
    BY <1>1, <2>2 DEF AlertsInv, AlertsTypeOK, MailType, Tasks
  <2>3. QED
    BY <1>1, <2>1, <2>2 DEF AlertsInv, Tasks
<1>4. \A g \in Failures : \A t \in Nat : Stamped(g, t)' => Stamped(g, t)
  BY <1>1 DEF Stamped
<1>5. Spaced'
  BY <1>1, <1>4, SpacedStays DEF AlertsInv, AlertsConstants
<1>6. QED
  BY <1>2, <1>3, <1>5 DEF AlertsInv

LEMMA AlertsStart ==
    ASSUME AlertsConstants
    PROVE  Alerts!Init => AlertsInv
<1> SUFFICES ASSUME Alerts!Init
             PROVE  AlertsInv
  OBVIOUS
<1>1. /\ clock = 0 /\ slot = None /\ mails = {}
      /\ task \in [Failures -> TaskType] /\ \A f \in Failures : task[f].at = "idle"
  BY DEF Alerts!Init, Alerts!Asleep, TaskType
<1>2. AlertsTypeOK /\ Tasks
  BY <1>1 DEF AlertsTypeOK, Tasks
<1>3. \A f \in Failures : \A t : ~Stamped(f, t)
  BY <1>1 DEF Stamped
<1>4. QED
  BY <1>2, <1>3 DEF AlertsInv, Spaced

LEMMA AlertsSteps ==
    ASSUME AlertsConstants
    PROVE  AlertsInv /\ [Alerts!Next]_Alerts!vars => AlertsInv'
<1> SUFFICES ASSUME AlertsInv, [Alerts!Next]_Alerts!vars
             PROVE  AlertsInv'
  OBVIOUS
<1>1. CASE UNCHANGED Alerts!vars
  BY <1>1 DEF Alerts!vars, AlertsInv, AlertsTypeOK, Tasks, Spaced, Stamped
<1>2. CASE Alerts!TimePasses
  BY <1>2, HourPassesKeeps
<1>3. ASSUME NEW f \in Failures,
             \/ Alerts!Claims(f) \/ Alerts!TurnedOff(f) \/ Alerts!GivesUp(f)
             \/ Alerts!Groups(f) \/ Alerts!Settles(f) \/ Alerts!Killed(f)
      PROVE  AlertsInv'
  <2>1. slot \in Slots \cup {None}
    BY DEF AlertsInv, AlertsTypeOK
  <2>2. PICK at \in {"claimed", "over"} :
            task' = [task EXCEPT ![f].at = at] /\ (at = "claimed" => task[f].at = "idle")
    BY <1>3 DEF Alerts!Claims, Alerts!TurnedOff, Alerts!GivesUp, Alerts!Groups,
                Alerts!Settles, Alerts!Killed, Alerts!Settle
  <2>3. UNCHANGED <<clock, slot, mails>>
    BY <1>3 DEF Alerts!Claims, Alerts!TurnedOff, Alerts!GivesUp, Alerts!Groups, Alerts!Settles,
                Alerts!Killed
  <2>4. QED
    BY <2>1, <2>2, <2>3, OverKeeps
<1>4. ASSUME NEW f \in Failures,
             \/ Alerts!ReadsSlot(f) \/ Alerts!Takes(f) \/ Alerts!Overtaken(f) \/ Alerts!Counts(f)
             \/ Alerts!Mails(f) \/ Alerts!MailCut(f)
      PROVE  AlertsInv'
  BY <1>4, ReadsSlotKeeps, TakesKeeps, OvertakenKeeps, CountsKeeps, MailsKeeps, MailCutKeeps
<1>5. QED
  BY <1>1, <1>2, <1>3, <1>4 DEF Alerts!Next

\* However tasks read, take, count, give back and die on any number of replicas, AlertsInv
\* holds: the hours at which the slot was taken are a cooldown apart, and the slot bars
\* the hours in between (_take_slot, _release).
THEOREM AlertsInvariance ==
    ASSUME AlertsConstants
    PROVE  Alerts!Spec => []AlertsInv
<1>1. Alerts!Init => AlertsInv
  BY AlertsStart
<1>2. AlertsInv /\ [Alerts!Next]_Alerts!vars => AlertsInv'
  BY AlertsSteps
<1>3. QED
  BY <1>1, <1>2, PTL DEF Alerts!Spec

\* Two mails about a workflow are an ALERT_COOLDOWN apart (_take_slot: two replicas never
\* take the same slot), also when a mail that was cut has given its slot back.
THEOREM AtMostOneAnHour ==
    ASSUME AlertsConstants
    PROVE  Alerts!Spec => []OneAlertAnHour
<1>1. AlertsInv => OneAlertAnHour
  <2> SUFFICES ASSUME AlertsInv, NEW m \in mails, NEW n \in mails, m.of # n.of, m.at <= n.at
               PROVE  n.at - m.at >= Cooldown
    BY DEF OneAlertAnHour, Alerts!OneAlertAnHour
  <2>1. m.of \in Failures /\ n.of \in Failures /\ m.at \in Nat /\ n.at \in Nat
    BY DEF AlertsInv, AlertsTypeOK, MailType
  <2>2. Stamped(m.of, m.at) /\ Stamped(n.of, n.at)
    BY DEF Stamped
  <2>3. QED
    BY <2>1, <2>2 DEF AlertsInv, Spaced
<1>2. QED
  BY <1>1, AlertsInvariance, PTL

-----------------------------------------------------------------------------
(* Sums over finite sets: a set of numbers that is not empty has a least one, *)
(* which is the induction on the number of elements.                         *)

\* The chosen element of a set.
Chosen(s) == CHOOSE x \in s : TRUE

\* A set of numbers that holds 0 and with a number the next one holds them all.
LEMMA Induction ==
    ASSUME NEW N, 0 \in N, \A n \in Nat : n \in N => n + 1 \in N
    PROVE  Nat \subseteq N
<1> DEFINE T == Nat \ N
<1>1. SUFFICES ASSUME T # {}
               PROVE  FALSE
  OBVIOUS
<1>2. \E x \in T : \A y \in T : ~ (<<y, x>> \in OpToRel(<, Nat))
  BY <1>1, NatLessThanWellFounded, WFMin
<1>3. PICK x \in T : \A y \in T : ~ (y < x)
  BY <1>2 DEF OpToRel
<1>4. x # 0
  BY <1>3
<1>5. x - 1 \in Nat /\ x - 1 < x
  BY <1>3, <1>4
<1>6. x - 1 \in N
  BY <1>3, <1>5
<1>7. QED
  BY <1>3, <1>5, <1>6

\* What a sum over s adds up, f being the addends and g the sums over smaller sets.
AddsUp(f, g, s) == IF s = {} THEN 0 ELSE f[Chosen(s)] + g[s \ {Chosen(s)}]

Sums(f, g, S) == g = [s \in SUBSET S |-> AddsUp(f, g, s)]

Sum(f, S) == Alerts!SumFunctionOnSet(f, S)

LEMMA SumIs ==
    ASSUME NEW f, NEW S, NEW h, Sums(f, h, S)
    PROVE  \E g : Sums(f, g, S) /\ Sum(f, S) = g[S]
<1> DEFINE g == CHOOSE g : Sums(f, g, S)
<1>1. Sums(f, g, S)
  OBVIOUS
<1>2. Sum(f, S) = g[S]
  BY DEF Sum, Alerts!SumFunctionOnSet, Alerts!FoldFunctionOnSet, Alerts!MapThenFoldSet, Sums,
         AddsUp, Chosen
<1>3. QED
  BY <1>1, <1>2

LEMMA SumExists ==
    ASSUME NEW f, NEW S, IsFiniteSet(S)
    PROVE  \E g : Sums(f, g, S)
<1> DEFINE Small(n) == {s \in SUBSET S : Cardinality(s) <= n}
           Has(n) == \E g : g = [s \in Small(n) |-> AddsUp(f, g, s)]
           N == {n \in Nat : Has(n)}
<1>1. \A s \in SUBSET S : /\ IsFiniteSet(s) /\ Cardinality(s) \in Nat
                          /\ Cardinality(s) <= Cardinality(S)
  BY FS_Subset, FS_CardinalityType
<1>2. \A s \in SUBSET S : s # {} =>
          /\ s \ {Chosen(s)} \in SUBSET S
          /\ Cardinality(s \ {Chosen(s)}) = Cardinality(s) - 1
  <2> SUFFICES ASSUME NEW s \in SUBSET S, s # {}
               PROVE  Cardinality(s \ {Chosen(s)}) = Cardinality(s) - 1
    OBVIOUS
  <2>1. Chosen(s) \in s
    BY DEF Chosen
  <2>2. QED
    BY <1>1, <2>1, FS_RemoveElement
<1>3. 0 \in N
  <2> DEFINE g == [s \in Small(0) |-> 0]
  <2>1. \A s \in Small(0) : s = {}
    BY <1>1, FS_EmptySet
  <2>2. g = [s \in Small(0) |-> AddsUp(f, g, s)]
    BY <2>1 DEF AddsUp
  <2>3. Has(0)
    BY <2>2
  <2>4. QED
    BY <2>3
<1>4. ASSUME NEW n \in Nat, n \in N
      PROVE  n + 1 \in N
  <2>1. PICK g : g = [s \in Small(n) |-> AddsUp(f, g, s)]
    BY <1>4
  <2> DEFINE h == [s \in Small(n + 1) |-> AddsUp(f, g, s)]
  <2>2. ASSUME NEW s \in Small(n)
        PROVE  s \in Small(n + 1) /\ h[s] = g[s]
    <3>1. s \in Small(n + 1)
      BY <1>1
    <3>2. g[s] = AddsUp(f, g, s)
      BY <2>1
    <3>3. QED
      BY <3>1, <3>2
  <2>3. ASSUME NEW s \in Small(n + 1)
        PROVE  h[s] = AddsUp(f, h, s)
    <3>1. CASE s = {}
      BY <3>1 DEF AddsUp
    <3>2. CASE s # {}
      <4>1. s \ {Chosen(s)} \in Small(n)
        BY <1>1, <1>2, <3>2
      <4>2. h[s \ {Chosen(s)}] = g[s \ {Chosen(s)}]
        BY <2>2, <4>1
      <4>3. h[s] = AddsUp(f, g, s)
        OBVIOUS
      <4> HIDE DEF h
      <4>4. QED
        BY <3>2, <4>2, <4>3 DEF AddsUp
    <3>3. QED
      BY <3>1, <3>2
  <2>4. h = [s \in Small(n + 1) |-> h[s]]
    OBVIOUS
  <2> HIDE DEF h
  <2>5. h = [s \in Small(n + 1) |-> AddsUp(f, h, s)]
    BY <2>3, <2>4
  <2>6. QED
    BY <2>5
<1>5. Cardinality(S) \in N
  <2>1. Nat \subseteq N
    <3> HIDE DEF N
    <3>1. QED
      BY <1>3, <1>4, Induction
  <2>2. QED
    BY <1>1, <2>1, FS_CardinalityType
<1>6. Small(Cardinality(S)) = SUBSET S
  BY <1>1
<1>7. PICK g : g = [s \in Small(Cardinality(S)) |-> AddsUp(f, g, s)]
  BY <1>5
<1>8. QED
  BY <1>6, <1>7 DEF Sums

\* Sums over the subsets of two sets agree where both are defined, if their addends do.
LEMMA SumsAgree ==
    ASSUME NEW f, NEW e, NEW S, NEW T \in SUBSET S, IsFiniteSet(S),
           \A x \in T : e[x] = f[x],
           NEW g, Sums(f, g, S), NEW h, Sums(e, h, T)
    PROVE  h[T] = g[T]
<1> DEFINE N == {n \in Nat : \A s \in SUBSET T : Cardinality(s) <= n => h[s] = g[s]}
<1>1. \A s \in SUBSET T : IsFiniteSet(s) /\ Cardinality(s) \in Nat
  BY FS_Subset, FS_CardinalityType
<1>2. \A s \in SUBSET T : s = {} => h[s] = g[s]
  BY DEF Sums, AddsUp
<1>3. 0 \in N
  <2>1. \A s \in SUBSET T : Cardinality(s) <= 0 => s = {}
    BY <1>1, FS_EmptySet
  <2>2. QED
    BY <1>2, <2>1
<1>4. ASSUME NEW n \in Nat, n \in N
      PROVE  n + 1 \in N
  <2>1. ASSUME NEW s \in SUBSET T, Cardinality(s) <= n + 1, s # {}
        PROVE  h[s] = g[s]
    <3>1. Chosen(s) \in s
      BY <2>1 DEF Chosen
    <3>2. s \ {Chosen(s)} \in SUBSET T /\ Cardinality(s \ {Chosen(s)}) = Cardinality(s) - 1
      BY <1>1, <3>1, FS_RemoveElement
    <3>3. h[s \ {Chosen(s)}] = g[s \ {Chosen(s)}]
      BY <1>1, <1>4, <2>1, <3>2
    <3>4. h[s] = e[Chosen(s)] + h[s \ {Chosen(s)}]
      BY <2>1 DEF Sums, AddsUp
    <3>5. g[s] = f[Chosen(s)] + g[s \ {Chosen(s)}]
      BY <2>1 DEF Sums, AddsUp
    <3>6. QED
      BY <3>1, <3>3, <3>4, <3>5
  <2>2. QED
    BY <1>2, <2>1
<1>5. Nat \subseteq N
  <2> HIDE DEF N
  <2>1. QED
    BY <1>3, <1>4, Induction
<1>6. QED
  BY <1>1, <1>5

LEMMA SumUnfolds ==
    ASSUME NEW f, NEW S, IsFiniteSet(S)
    PROVE  Sum(f, S) =
              IF S = {} THEN 0
              ELSE f[Chosen(S)] + Sum(f, S \ {Chosen(S)})
<1>1. PICK g : Sums(f, g, S) /\ Sum(f, S) = g[S]
  BY SumExists, SumIs
<1>2. g[S] = AddsUp(f, g, S)
  BY <1>1 DEF Sums
<1>3. CASE S = {}
  BY <1>1, <1>2, <1>3 DEF AddsUp
<1>4. CASE S # {}
  <2> DEFINE T == S \ {Chosen(S)}
  <2>1. T \in SUBSET S /\ IsFiniteSet(T)
    BY FS_Subset
  <2>2. PICK h : Sums(f, h, T) /\ Sum(f, T) = h[T]
    BY <2>1, SumExists, SumIs
  <2>3. h[T] = g[T]
    <3> HIDE DEF T
    <3>1. QED
      BY <1>1, <2>1, <2>2, SumsAgree
  <2>4. QED
    BY <1>1, <1>2, <1>4, <2>2, <2>3 DEF AddsUp
<1>5. QED
  BY <1>3, <1>4

\* A sum depends on its addends only.
LEMMA SameSum ==
    ASSUME NEW f, NEW e, NEW S, IsFiniteSet(S), \A x \in S : e[x] = f[x]
    PROVE  Sum(e, S) = Sum(f, S)
<1>1. PICK g : Sums(f, g, S) /\ Sum(f, S) = g[S]
  BY SumExists, SumIs
<1>2. PICK h : Sums(e, h, S) /\ Sum(e, S) = h[S]
  BY SumExists, SumIs
<1>3. h[S] = g[S]
  BY <1>1, <1>2, SumsAgree
<1>4. QED
  BY <1>1, <1>2, <1>3

\* An addend, whichever it is, and the sum of the others.
LEMMA SumSplits ==
    ASSUME NEW f, NEW S, IsFiniteSet(S), \A x \in S : f[x] \in Nat
    PROVE  /\ Sum(f, S) \in Nat
           /\ \A x \in S : Sum(f, S) = f[x] + Sum(f, S \ {x})
<1> DEFINE Splits(s) ==
             /\ Sum(f, s) \in Nat
             /\ \A x \in s : Sum(f, s) = f[x] + Sum(f, s \ {x})
           N == {n \in Nat : \A s \in SUBSET S : Cardinality(s) <= n => Splits(s)}
<1>1. \A s \in SUBSET S : IsFiniteSet(s) /\ Cardinality(s) \in Nat
  BY FS_Subset, FS_CardinalityType
<1>2. Sum(f, {}) = 0
  BY SumUnfolds, FS_EmptySet
<1>3. 0 \in N
  <2>1. \A s \in SUBSET S : Cardinality(s) <= 0 => s = {}
    BY <1>1, FS_EmptySet
  <2>2. Splits({})
    BY <1>2
  <2> HIDE DEF Splits
  <2>3. QED
    BY <2>1, <2>2
<1>4. ASSUME NEW n \in Nat, n \in N
      PROVE  n + 1 \in N
  <2>1. ASSUME NEW s \in SUBSET S, Cardinality(s) <= n + 1, s # {}
        PROVE  Splits(s)
    <3>1. PICK y \in s : /\ y \in S
                         /\ Sum(f, s) = f[y] + Sum(f, s \ {y})
      <4>1. Chosen(s) \in s
        BY <2>1 DEF Chosen
      <4>2. QED
        BY <1>1, <2>1, <4>1, SumUnfolds
    <3>2. ASSUME NEW x \in s
          PROVE  s \ {x} \in SUBSET S /\ Splits(s \ {x})
      <4>1. Cardinality(s \ {x}) = Cardinality(s) - 1
        BY <1>1, FS_RemoveElement
      <4>2. Cardinality(s \ {x}) <= n /\ s \ {x} \in SUBSET S
        BY <1>1, <2>1, <4>1
      <4>3. QED
        BY <1>4, <4>2
    <3>3. Sum(f, s) \in Nat
      BY <3>1, <3>2
    <3>4. ASSUME NEW x \in s
          PROVE  Sum(f, s) = f[x] + Sum(f, s \ {x})
      <4>1. CASE x = y
        BY <3>1, <4>1
      <4>2. CASE x # y
        <5> DEFINE t == (s \ {y}) \ {x}
        <5>1. t = (s \ {x}) \ {y} /\ x \in s \ {y} /\ y \in s \ {x}
          BY <4>2
        <5>2. Sum(f, s \ {y}) = f[x] + Sum(f, t)
          BY <3>2, <5>1
        <5>3. Sum(f, s \ {x}) = f[y] + Sum(f, t)
          BY <3>2, <5>1
        <5>4. /\ f[x] \in Nat /\ f[y] \in Nat
              /\ Sum(f, s \ {y}) \in Nat /\ Sum(f, s \ {x}) \in Nat
          BY <2>1, <3>2
        <5> DEFINE u == Sum(f, t)
        <5>5. u \in Nat
          <6>1. t \in SUBSET S
            OBVIOUS
          <6>2. Cardinality(t) <= n
            <7>1. Cardinality(s \ {y}) = Cardinality(s) - 1
              BY <1>1, FS_RemoveElement
            <7>2. Cardinality(t) <= Cardinality(s \ {y})
              BY <1>1, FS_Subset
            <7>3. QED
              BY <1>1, <2>1, <6>1, <7>1, <7>2
          <6>3. QED
            BY <1>4, <6>1, <6>2
        <5> HIDE DEF t, u
        <5>6. QED
          BY <3>1, <5>2, <5>3, <5>4, <5>5 DEF u
      <4>3. QED
        BY <4>1, <4>2
    <3>5. QED
      BY <3>3, <3>4
  <2>2. ASSUME NEW s \in SUBSET S, s = {}
        PROVE  Splits(s)
    BY <1>2, <2>2
  <2> HIDE DEF Splits
  <2>3. QED
    BY <2>1, <2>2
<1>5. Nat \subseteq N
  <2> HIDE DEF N
  <2>1. QED
    BY <1>3, <1>4, Induction
<1>6. Splits(S)
  <2> HIDE DEF Splits
  <2>1. QED
    BY <1>1, <1>5
<1>7. QED
  BY <1>6

\* Nothing to add up.
LEMMA SumOfNothing ==
    ASSUME NEW f, NEW S, IsFiniteSet(S), \A x \in S : f[x] = 0
    PROVE  Sum(f, S) = 0
<1> DEFINE N == {n \in Nat : \A s \in SUBSET S : Cardinality(s) <= n => Sum(f, s) = 0}
<1>1. \A s \in SUBSET S : IsFiniteSet(s) /\ Cardinality(s) \in Nat
  BY FS_Subset, FS_CardinalityType
<1>2. 0 \in N
  <2>1. \A s \in SUBSET S : Cardinality(s) <= 0 => s = {}
    BY <1>1, FS_EmptySet
  <2>2. Sum(f, {}) = 0
    BY FS_EmptySet, SumUnfolds
  <2>3. QED
    BY <2>1, <2>2
<1>3. ASSUME NEW n \in Nat, n \in N
      PROVE  n + 1 \in N
  <2>1. ASSUME NEW s \in SUBSET S, Cardinality(s) <= n + 1, s # {}
        PROVE  Sum(f, s) = 0
    <3>1. Chosen(s) \in s
      BY <2>1 DEF Chosen
    <3>2. Cardinality(s \ {Chosen(s)}) = Cardinality(s) - 1
      BY <1>1, <3>1, FS_RemoveElement
    <3>3. Sum(f, s \ {Chosen(s)}) = 0
      BY <1>1, <1>3, <2>1, <3>2
    <3>4. QED
      BY <1>1, <2>1, <3>1, <3>3, SumUnfolds
  <2>2. Sum(f, {}) = 0
    BY FS_EmptySet, SumUnfolds
  <2>3. QED
    BY <2>1, <2>2
<1>4. Nat \subseteq N
  <2> HIDE DEF N
  <2>1. QED
    BY <1>2, <1>3, Induction
<1>5. QED
  BY <1>1, <1>4

\* One more addend.
LEMMA SumGrows ==
    ASSUME NEW f, NEW e, NEW S, IsFiniteSet(S), NEW x, x \notin S,
           \A y \in S : f[y] \in Nat /\ e[y] = f[y], e[x] \in Nat
    PROVE  /\ Sum(f, S) \in Nat
           /\ Sum(e, S \cup {x}) = Sum(f, S) + e[x]
<1>1. IsFiniteSet(S \cup {x}) /\ (S \cup {x}) \ {x} = S
  BY FS_AddElement
<1>2. Sum(e, S) = Sum(f, S)
  BY SameSum
<1>3. Sum(f, S) \in Nat
  BY SumSplits
<1>4. Sum(e, S \cup {x}) = e[x] + Sum(e, S)
  <2> DEFINE T == S \cup {x}
  <2>1. IsFiniteSet(T) /\ x \in T /\ T \ {x} = S /\ \A y \in T : e[y] \in Nat
    BY <1>1
  <2> HIDE DEF T
  <2>2. Sum(e, T) = e[x] + Sum(e, T \ {x})
    BY <2>1, SumSplits
  <2>3. QED
    BY <2>1, <2>2 DEF T
<1>5. QED
  BY <1>2, <1>3, <1>4

\* One addend changes.
LEMMA SumMoves ==
    ASSUME NEW f, NEW e, NEW S, IsFiniteSet(S), NEW x \in S,
           \A y \in S : f[y] \in Nat, e[x] \in Nat, \A y \in S \ {x} : e[y] = f[y]
    PROVE  /\ Sum(f, S) \in Nat /\ Sum(e, S) \in Nat
           /\ Sum(f, S) >= f[x]
           /\ Sum(e, S) = Sum(f, S) - f[x] + e[x]
<1>1. IsFiniteSet(S \ {x})
  BY FS_Subset
<1>2. Sum(e, S \ {x}) = Sum(f, S \ {x})
  BY <1>1, SameSum
<1>3. /\ Sum(f, S) \in Nat /\ Sum(e, S) \in Nat
      /\ Sum(f, S) = f[x] + Sum(f, S \ {x})
      /\ Sum(e, S) = e[x] + Sum(e, S \ {x})
  BY SumSplits
<1>4. Sum(f, S \ {x}) \in Nat
  BY <1>1, SumSplits
<1>5. QED
  BY <1>2, <1>3, <1>4

-----------------------------------------------------------------------------
(* What the mails tell of the failures left out.                            *)

Outcomes == {None, "claimed", "off", "grouped", "sent", "failed"}

\* An ALERT_COOLDOWN is not zero; runs are finitely many; NULL is no outcome.
LedgerConstants ==
    /\ AlertsConstants /\ Cooldown # 0
    /\ IsFiniteSet(Failures)
    /\ None \notin {"claimed", "off", "grouped", "sent", "failed"}

\* The failures that mails have told, or are about to tell.
Paid == Alerts!TotalTold + Alerts!InMail

\* The failures counted in the slot.
CountedRuns == Cardinality(counted)

\* A run is claimed as long as its task is at work, and its failure counted once.
Answers ==
    /\ alert \in [Failures -> Outcomes]
    /\ replicas \in BOOLEAN /\ calm \in BOOLEAN
    /\ IsFiniteSet(mails) /\ counted \subseteq Failures
    /\ \A f \in Failures :
          /\ task[f].at = "idle" => alert[f] = None
          /\ task[f].at \notin {"idle", "over"} => alert[f] = "claimed"
          /\ task[f].at = "teams" => task[f].read \in {"sent", "failed"}
          /\ task[f].at = "counted" => f \in counted
          /\ task[f].at \notin {"counted", "over"} => f \notin counted

\* f may take the slot, if it is still the one it read.
Reader(f) == task[f].at = "read" /\ Alerts!Elapsed(f)

\* What is told does not exceed what was grouped, whoever takes the slot next: the slot
\* that f read, or one that a task g has taken from it and may give back.
Covered(f) ==
    /\ slot.last \in {task[f].read.last, Alerts!Never, clock}
    /\ slot.last = task[f].read.last => Paid + Alerts!Told(f) <= CountedRuns
    /\ task[f].read.last = Alerts!Never =>
          \A g \in Failures : task[g].at = "mail" /\ slot.last = task[g].now =>
              Paid - Alerts!Told(g) + Alerts!Told(f) <= CountedRuns

Ledger ==
    /\ Paid + Alerts!Waiting <= CountedRuns
    /\ \A f \in Failures : Reader(f) => Covered(f)

\* In one process a task is alone between its claim and its mail, and finds the slot
\* as it has read it.
Works(f) == task[f].at \in {"claimed", "read", "again", "counted"}

OthersRest(f) ==
    \A g \in Failures \ {f} : task[g].at \in {"idle", "mail", "teams", "over"}

AloneAtWork ==
    \A f \in Failures : Works(f) =>
        /\ task[f].at # "again" /\ (task[f].at = "read" => task[f].read = slot)
        /\ OthersRest(f)

Exact ==
    ~replicas =>
        /\ AloneAtWork
        /\ calm => counted = Alerts!LeftOut /\ Paid + Alerts!Waiting = CountedRuns

LedgerInv == Answers /\ Ledger /\ Exact

\* The number of elements, as FailureAlerts counts them.
LEMMA Counted ==
    ASSUME NEW S
    PROVE  Alerts!Cardinality(S) = Cardinality(S)
BY DEF Alerts!Cardinality, Cardinality

\* Every amount is a number.
LEMMA Amounts ==
    ASSUME LedgerConstants, AlertsInv, Answers
    PROVE  /\ Alerts!TotalTold \in Nat /\ Alerts!InMail \in Nat /\ Paid \in Nat
           /\ CountedRuns \in Nat /\ Alerts!Waiting \in Nat
           /\ \A f \in Failures : Alerts!Leaving[f] \in Nat
           /\ \A f \in Failures : task[f].at \in {"read", "again", "mail"} =>
                 Alerts!Told(f) \in Nat
<1>1. ASSUME NEW f \in Failures, task[f].at \in {"read", "again", "mail"}
      PROVE  Alerts!Told(f) \in Nat
  <2>1. task[f].read \in Slots \cup {None}
    BY <1>1 DEF AlertsInv, Tasks
  <2>2. QED
    BY <2>1 DEF Alerts!Told, Slots
<1>2. \A f \in Failures : Alerts!Leaving[f] \in Nat
  BY <1>1 DEF Alerts!Leaving
<1>3. Alerts!InMail \in Nat
  <2>1. Sum(Alerts!Leaving, Failures) \in Nat
    BY <1>2, SumSplits DEF LedgerConstants
  <2>2. QED
    BY <2>1 DEF Alerts!InMail, Sum
<1>4. Alerts!TotalTold \in Nat
  <2> DEFINE told == [m \in mails |-> m.told]
  <2>1. IsFiniteSet(mails) /\ \A m \in mails : told[m] \in Nat
    BY DEF Answers, AlertsInv, AlertsTypeOK, MailType
  <2>2. Alerts!TotalTold = Sum(told, mails)
    BY DEF Alerts!TotalTold, Sum
  <2> HIDE DEF told
  <2>3. QED
    BY <2>1, <2>2, SumSplits
<1>5. CountedRuns \in Nat
  BY FS_Subset, FS_CardinalityType DEF CountedRuns, Answers, LedgerConstants
<1>6. Alerts!Waiting \in Nat
  BY DEF Alerts!Waiting, AlertsInv, AlertsTypeOK, Slots
<1>7. QED
  BY <1>1, <1>2, <1>3, <1>4, <1>5, <1>6 DEF Paid

\* Only the task of f moves.
LEMMA InMailMoves ==
    ASSUME LedgerConstants, AlertsInv, AlertsInv', Answers, NEW f \in Failures,
           \A g \in Failures \ {f} : task'[g] = task[g]
    PROVE  /\ Alerts!InMail' = Alerts!InMail - Alerts!Leaving[f] + Alerts!Leaving'[f]
           /\ Alerts!InMail >= Alerts!Leaving[f] /\ Alerts!Leaving'[f] \in Nat
<1>1. \A g \in Failures : Alerts!Leaving[g] \in Nat
  BY Amounts
<1>2. Alerts!Leaving'[f] \in Nat
  <2>1. task'[f].at = "mail" => task'[f].read \in Slots \cup {None}
    BY DEF AlertsInv, Tasks
  <2>2. QED
    BY <2>1 DEF Alerts!Leaving, Alerts!Told, Slots
<1>3. \A g \in Failures \ {f} : Alerts!Leaving'[g] = Alerts!Leaving[g]
  BY DEF Alerts!Leaving, Alerts!Told
<1>4. /\ Sum(Alerts!Leaving, Failures) >= Alerts!Leaving[f]
      /\ Sum(Alerts!Leaving', Failures) =
            Sum(Alerts!Leaving, Failures) - Alerts!Leaving[f] + Alerts!Leaving'[f]
  BY <1>1, <1>2, <1>3, SumMoves DEF LedgerConstants
<1>5. QED
  BY <1>2, <1>4 DEF Sum, Alerts!InMail

\* Only f moves, and is left out after the step if it was before.
LEMMA LeftOutStays ==
    ASSUME NEW f \in Failures,
           \A g \in Failures \ {f} : task'[g] = task[g] /\ alert'[g] = alert[g],
           alert'[f] = "grouped" \/ task'[f].at = "counted" <=>
              alert[f] = "grouped" \/ task[f].at = "counted"
    PROVE  Alerts!LeftOut' = Alerts!LeftOut
BY DEF Alerts!LeftOut

\* Only the task of f moves, and no mail leaves.
LEMMA PaidMoves ==
    ASSUME LedgerConstants, AlertsInv, AlertsInv', Answers, NEW f \in Failures,
           \A g \in Failures \ {f} : task'[g] = task[g], mails' = mails
    PROVE  /\ Paid' = Paid - Alerts!Leaving[f] + Alerts!Leaving'[f]
           /\ Paid' \in Nat /\ Alerts!Leaving[f] \in Nat /\ Alerts!Leaving'[f] \in Nat
<1>1. Alerts!TotalTold' = Alerts!TotalTold
  BY DEF Alerts!TotalTold
<1>2. /\ Alerts!TotalTold \in Nat /\ Alerts!InMail \in Nat /\ Alerts!Leaving[f] \in Nat
  BY Amounts
<1>3. /\ Alerts!InMail' = Alerts!InMail - Alerts!Leaving[f] + Alerts!Leaving'[f]
      /\ Alerts!InMail >= Alerts!Leaving[f] /\ Alerts!Leaving'[f] \in Nat
  BY InMailMoves
<1>4. QED
  BY <1>1, <1>2, <1>3 DEF Paid

\* The task of f moves and answers for its run.
LEMMA AnswersMove ==
    ASSUME Answers, NEW f \in Failures,
           \A g \in Failures \ {f} : task'[g] = task[g] /\ alert'[g] = alert[g],
           alert' \in [Failures -> Outcomes], replicas' = replicas, calm' \in BOOLEAN,
           IsFiniteSet(mails'), task'[f].at # "idle",
           counted' \in {counted, counted \cup {f}},
           task'[f].at = "counted" => f \in counted',
           task'[f].at \notin {"counted", "over"} => f \notin counted',
           task'[f].at # "over" => alert'[f] = "claimed",
           task'[f].at = "teams" => task'[f].read \in {"sent", "failed"}
    PROVE  Answers'
BY DEF Answers, Outcomes

\* What the other tasks read stays covered when the slot keeps its stamp.
LEMMA CoveredStays ==
    ASSUME LedgerConstants, AlertsInv, Answers, Ledger, NEW f \in Failures,
           \A g \in Failures \ {f} : task'[g] = task[g],
           clock' = clock, slot' = slot \/ slot'.last = slot.last,
           task'[f].at # "mail",
           Paid' \in Nat, Paid' <= Paid,
           CountedRuns' \in Nat, CountedRuns' >= CountedRuns,
           NEW g \in Failures \ {f}, Reader(g)'
    PROVE  Covered(g)'
<1>1. slot'.last = slot.last
  OBVIOUS
<1>2. /\ Paid \in Nat /\ CountedRuns \in Nat
      /\ \A h \in Failures : task[h].at \in {"read", "mail"} => Alerts!Told(h) \in Nat
  BY Amounts
<1>3. \A h \in Failures \ {f} : task'[h] = task[h] /\ Alerts!Told(h)' = Alerts!Told(h)
  BY DEF Alerts!Told
<1>4. Reader(g) /\ task[g].at = "read" /\ Covered(g)
  BY <1>3 DEF Reader, Alerts!Elapsed, Ledger
<1>5. slot'.last \in {task'[g].read.last, Alerts!Never', clock'}
  BY <1>1, <1>3, <1>4 DEF Covered, Alerts!Never
<1>6. slot'.last = task'[g].read.last => Paid' + Alerts!Told(g)' <= CountedRuns'
  <2>1. slot.last = task[g].read.last => Paid + Alerts!Told(g) <= CountedRuns
    BY <1>4 DEF Covered
  <2>2. QED
    BY <1>1, <1>2, <1>3, <1>4, <2>1
<1>7. ASSUME task'[g].read.last = Alerts!Never', NEW h \in Failures,
             task'[h].at = "mail", slot'.last = task'[h].now
      PROVE  Paid' - Alerts!Told(h)' + Alerts!Told(g)' <= CountedRuns'
  <2>1. h # f /\ task[h].at = "mail" /\ slot.last = task[h].now
    BY <1>1, <1>3, <1>7
  <2>2. Paid - Alerts!Told(h) + Alerts!Told(g) <= CountedRuns
    BY <1>3, <1>4, <1>7, <2>1 DEF Covered, Alerts!Never
  <2>3. QED
    BY <1>2, <1>3, <1>4, <2>1, <2>2
<1>8. QED
  BY <1>5, <1>6, <1>7 DEF Covered

\* A task rests, or works on while the others rest.
LEMMA AloneStays ==
    ASSUME AloneAtWork, NEW f \in Failures, \A g \in Failures \ {f} : task'[g] = task[g],
           \/ task'[f].at \in {"mail", "teams", "over"} /\ slot' = slot
           \/ /\ OthersRest(f) /\ task'[f].at # "again"
              /\ task'[f].at = "read" => task'[f].read = slot'
    PROVE  AloneAtWork'
<1>1. CASE task'[f].at \in {"mail", "teams", "over"} /\ slot' = slot
  BY <1>1 DEF AloneAtWork, OthersRest, Works
<1>2. CASE /\ OthersRest(f) /\ task'[f].at # "again"
           /\ task'[f].at = "read" => task'[f].read = slot'
  BY <1>2 DEF AloneAtWork, OthersRest, Works
<1>3. QED
  BY <1>1, <1>2

\* The slot stays, and f neither reads it nor has a mail to send.
LEMMA QuietKeeps ==
    ASSUME LedgerConstants, AlertsInv, AlertsInv', LedgerInv, NEW f \in Failures,
           \A g \in Failures \ {f} : task'[g] = task[g],
           UNCHANGED <<clock, slot, mails, counted, replicas>>, calm' => calm,
           task'[f].at \notin {"read", "mail"}, Answers',
           ~replicas /\ AloneAtWork => AloneAtWork',
           ~replicas /\ AloneAtWork /\ calm' =>
              task[f].at # "mail" /\ Alerts!LeftOut' = Alerts!LeftOut
    PROVE  LedgerInv'
<1>1. /\ Paid \in Nat /\ CountedRuns \in Nat /\ Alerts!Waiting \in Nat
  BY Amounts DEF LedgerInv
<1>2. /\ Paid' = Paid - Alerts!Leaving[f] + Alerts!Leaving'[f]
      /\ Paid' \in Nat /\ Alerts!Leaving[f] \in Nat
  BY PaidMoves DEF LedgerInv
<1>3. Alerts!Leaving'[f] = 0
  BY DEF Alerts!Leaving
<1>4. task[f].at # "mail" => Alerts!Leaving[f] = 0
  BY DEF Alerts!Leaving
<1>5. Alerts!Waiting' = Alerts!Waiting /\ CountedRuns' = CountedRuns
  BY DEF Alerts!Waiting, CountedRuns
<1>6. Ledger'
  <2>1. \A g \in Failures \ {f} : Reader(g)' => Covered(g)'
    <3>1. Paid' <= Paid /\ CountedRuns' >= CountedRuns /\ CountedRuns' \in Nat
      BY <1>1, <1>2, <1>3, <1>5
    <3>2. QED
      BY <1>2, <3>1, CoveredStays DEF LedgerInv
  <2>2. ~ Reader(f)'
    BY DEF Reader
  <2>3. Paid' + Alerts!Waiting' <= CountedRuns'
    <3>1. Paid + Alerts!Waiting <= CountedRuns
      BY DEF LedgerInv, Ledger
    <3>2. QED
      BY <1>1, <1>2, <1>3, <1>5, <3>1
  <2>4. QED
    BY <2>1, <2>2, <2>3 DEF Ledger
<1>7. Exact'
  <2> SUFFICES ASSUME ~replicas
               PROVE  /\ AloneAtWork'
                      /\ calm' => /\ counted = Alerts!LeftOut'
                                  /\ Paid' + Alerts!Waiting' = CountedRuns'
    BY DEF Exact
  <2>1. /\ AloneAtWork
        /\ calm => counted = Alerts!LeftOut /\ Paid + Alerts!Waiting = CountedRuns
    BY DEF LedgerInv, Exact
  <2>2. calm' => task[f].at # "mail" /\ Alerts!LeftOut' = Alerts!LeftOut
    BY <2>1
  <2>3. QED
    BY <1>1, <1>2, <1>3, <1>4, <1>5, <2>1, <2>2
<1>8. QED
  BY <1>6, <1>7 DEF LedgerInv

\* A task that works or may start has the others at rest, in one process.
LEMMA AloneIs ==
    ASSUME Answers, AloneAtWork, ~replicas, NEW f \in Failures, Works(f) \/ Alerts!Free(f)
    PROVE  OthersRest(f)
BY DEF AloneAtWork, OthersRest, Alerts!Free

\* The task of f goes on to "at" and its outcome is written, or stays as it was.
LEMMA OutcomeKeeps ==
    ASSUME LedgerConstants, AlertsInv, AlertsInv', LedgerInv, NEW f \in Failures,
           NEW at \in {"claimed", "over"}, NEW outcome \in Outcomes,
           task' = [task EXCEPT ![f].at = at], alert' = [alert EXCEPT ![f] = outcome],
           at = "claimed" => outcome = "claimed" /\ task[f].at = "idle" /\ Alerts!Free(f),
           UNCHANGED <<clock, slot, mails, counted, replicas>>,
           calm' \in BOOLEAN, calm' => calm,
           ~replicas /\ calm' /\ AloneAtWork =>
              /\ task[f].at # "mail"
              /\ outcome = "grouped" <=> alert[f] = "grouped" \/ task[f].at = "counted"
    PROVE  LedgerInv'
<1>1. /\ task'[f].at = at /\ \A g \in Failures \ {f} : task'[g] = task[g]
      /\ \A g \in Failures \ {f} : alert'[g] = alert[g]
      /\ alert' \in [Failures -> Outcomes] /\ alert'[f] = outcome
  BY DEF AlertsInv, AlertsTypeOK, TaskType, LedgerInv, Answers
<1>2. Answers'
  <2>1. Answers /\ IsFiniteSet(mails') /\ (at = "claimed" => f \notin counted)
    BY DEF LedgerInv, Answers
  <2>2. QED
    BY <1>1, <2>1, AnswersMove
<1>3. ~replicas /\ calm' /\ AloneAtWork =>
          task[f].at # "mail" /\ Alerts!LeftOut' = Alerts!LeftOut
  <2> SUFFICES ASSUME ~replicas, calm', AloneAtWork
               PROVE  task[f].at # "mail" /\ Alerts!LeftOut' = Alerts!LeftOut
    OBVIOUS
  <2>1. task[f].at # "mail" /\ task'[f].at # "counted"
    BY <1>1
  <2>2. outcome = "grouped" <=> alert[f] = "grouped" \/ task[f].at = "counted"
    OBVIOUS
  <2>3. QED
    BY <1>1, <2>1, <2>2, LeftOutStays
<1>4. ~replicas /\ AloneAtWork => AloneAtWork'
  <2> SUFFICES ASSUME ~replicas, AloneAtWork
               PROVE  AloneAtWork'
    OBVIOUS
  <2>1. CASE at = "over"
    BY <1>1, <2>1, AloneStays
  <2>2. CASE at = "claimed"
    <3>1. OthersRest(f)
      BY <2>2, AloneIs DEF LedgerInv
    <3>2. QED
      BY <1>1, <2>2, <3>1, AloneStays
  <2>3. QED
    BY <2>1, <2>2
<1>5. QED
  BY <1>1, <1>2, <1>3, <1>4, QuietKeeps

LEMMA ClaimsTells ==
    ASSUME LedgerConstants, AlertsInv, AlertsInv', LedgerInv, NEW f \in Failures,
           Alerts!Claims(f) \/ Alerts!TurnedOff(f)
    PROVE  LedgerInv'
<1>1. alert[f] \in {None, "claimed"} /\ calm \in BOOLEAN
  BY DEF Alerts!Claims, Alerts!TurnedOff, LedgerInv, Answers
<1>2. alert[f] # "grouped"
  BY <1>1 DEF LedgerConstants
<1>3. CASE Alerts!Claims(f)
  <2>1. "claimed" \in Outcomes /\ task[f].at = "idle"
    BY <1>3 DEF Outcomes, Alerts!Claims
  <2>2. QED
    BY <1>1, <1>2, <1>3, <2>1, OutcomeKeeps DEF Alerts!Claims
<1>4. CASE Alerts!TurnedOff(f)
  <2>1. "off" \in Outcomes /\ task[f].at = "claimed"
    BY <1>4 DEF Outcomes, Alerts!TurnedOff
  <2>2. QED
    BY <1>1, <1>2, <1>4, <2>1, OutcomeKeeps DEF Alerts!TurnedOff, Alerts!Settle
<1>5. QED
  BY <1>3, <1>4

\* Overtaken every time: only where several processes run.
LEMMA GivesUpTells ==
    ASSUME LedgerConstants, AlertsInv, AlertsInv', LedgerInv, NEW f \in Failures,
           Alerts!GivesUp(f)
    PROVE  LedgerInv'
<1>1. task[f].at = "again" /\ alert[f] = "claimed" /\ calm \in BOOLEAN
  BY DEF Alerts!GivesUp, LedgerInv, Answers
<1>2. ~ AloneAtWork
  BY <1>1 DEF AloneAtWork, Works
<1>3. "grouped" \in Outcomes
  BY DEF Outcomes
<1>4. QED
  BY <1>1, <1>2, <1>3, OutcomeKeeps DEF Alerts!GivesUp, Alerts!Settle

\* A failure that is counted is left out, before and after its run is marked.
LEMMA GroupsTells ==
    ASSUME LedgerConstants, AlertsInv, AlertsInv', LedgerInv, NEW f \in Failures,
           Alerts!Groups(f)
    PROVE  LedgerInv'
<1>1. task[f].at = "counted" /\ calm \in BOOLEAN
  BY DEF Alerts!Groups, LedgerInv, Answers
<1>2. "grouped" \in Outcomes
  BY DEF Outcomes
<1>3. QED
  BY <1>1, <1>2, OutcomeKeeps DEF Alerts!Groups, Alerts!Settle

LEMMA SettlesTells ==
    ASSUME LedgerConstants, AlertsInv, AlertsInv', LedgerInv, NEW f \in Failures,
           Alerts!Settles(f)
    PROVE  LedgerInv'
<1>1. /\ task[f].at = "teams" /\ alert[f] = "claimed" /\ calm \in BOOLEAN
      /\ task[f].read \in {"sent", "failed"}
  BY DEF Alerts!Settles, LedgerInv, Answers
<1>2. task[f].read \in Outcomes /\ task[f].read # "grouped"
  BY <1>1 DEF Outcomes
<1>3. QED
  BY <1>1, <1>2, OutcomeKeeps DEF Alerts!Settles, Alerts!Settle

\* What a task that is killed would have told is lost, never told twice.
LEMMA KilledTells ==
    ASSUME LedgerConstants, AlertsInv, AlertsInv', LedgerInv, NEW f \in Failures,
           Alerts!Killed(f)
    PROVE  LedgerInv'
<1>1. alert[f] = "claimed" /\ alert \in [Failures -> Outcomes]
  BY DEF Alerts!Killed, LedgerInv, Answers
<1>2. alert' = [alert EXCEPT ![f] = "claimed"] /\ "claimed" \in Outcomes
  BY <1>1 DEF Alerts!Killed, Outcomes
<1>3. QED
  BY <1>1, <1>2, OutcomeKeeps DEF Alerts!Killed

LEMMA OvertakenTells ==
    ASSUME LedgerConstants, AlertsInv, AlertsInv', LedgerInv, NEW f \in Failures,
           Alerts!Overtaken(f)
    PROVE  LedgerInv'
<1>1. /\ task[f].at = "read" /\ alert[f] = "claimed"
      /\ UNCHANGED <<clock, alert, slot, mails, counted, replicas, calm>>
  BY DEF Alerts!Overtaken, LedgerInv, Answers
<1> DEFINE tries == task[f].tries + 1
           moved == [task[f] EXCEPT !.at = "again", !.tries = tries]
<1>2. task'[f].at = "again" /\ \A g \in Failures \ {f} : task'[g] = task[g]
  <2>1. task' = [g \in Failures |-> IF g = f THEN moved ELSE task[g]]
    BY DEF Alerts!Overtaken, AlertsInv, AlertsTypeOK
  <2>2. task[f] \in TaskType
    BY DEF AlertsInv, AlertsTypeOK
  <2> HIDE DEF tries
  <2>3. moved.at = "again"
    BY <2>2 DEF TaskType
  <2> HIDE DEF moved
  <2>4. QED
    BY <2>1, <2>3
<1> HIDE DEF tries, moved
<1>3. Answers'
  <2>1. Answers
    BY DEF LedgerInv
  <2>2. /\ alert' \in [Failures -> Outcomes] /\ alert'[f] = "claimed"
        /\ \A g \in Failures : alert'[g] = alert[g]
        /\ calm' \in BOOLEAN /\ IsFiniteSet(mails')
        /\ counted' = counted /\ f \notin counted
    BY <1>1, <2>1 DEF Answers
  <2>3. QED
    BY <1>1, <1>2, <2>1, <2>2, AnswersMove
<1>5. ~ AloneAtWork
  BY <1>1 DEF Alerts!Overtaken, Alerts!Elapsed, AloneAtWork, Works
<1>6. QED
  BY <1>1, <1>2, <1>3, <1>5, QuietKeeps

\* f reads what waits in the slot.
LEMMA ReadsSlotTells ==
    ASSUME LedgerConstants, AlertsInv, AlertsInv', LedgerInv, NEW f \in Failures,
           Alerts!ReadsSlot(f)
    PROVE  LedgerInv'
<1>1. /\ Works(f) /\ task[f].at \in {"claimed", "again"} /\ alert[f] = "claimed"
      /\ UNCHANGED <<clock, alert, slot, mails, counted, replicas, calm>>
  BY DEF Alerts!ReadsSlot, LedgerInv, Answers, Works
<1> DEFINE now == IF task[f].at = "claimed" THEN clock ELSE task[f].now
           moved == [task[f] EXCEPT !.at = "read", !.read = slot, !.now = now]
<1>2. /\ task'[f].at = "read" /\ task'[f].read = slot
      /\ \A g \in Failures \ {f} : task'[g] = task[g]
  <2>1. task' = [g \in Failures |-> IF g = f THEN moved ELSE task[g]]
    BY DEF Alerts!ReadsSlot, AlertsInv, AlertsTypeOK
  <2>2. task[f] \in TaskType
    BY DEF AlertsInv, AlertsTypeOK
  <2> HIDE DEF now
  <2>3. moved.at = "read" /\ moved.read = slot
    BY <2>2 DEF TaskType
  <2> HIDE DEF moved
  <2>4. QED
    BY <2>1, <2>3
<1> HIDE DEF now, moved
<1>3. Answers'
  <2>1. Answers
    BY DEF LedgerInv
  <2>2. /\ alert' \in [Failures -> Outcomes] /\ alert'[f] = "claimed"
        /\ \A g \in Failures : alert'[g] = alert[g]
        /\ calm' \in BOOLEAN /\ IsFiniteSet(mails')
        /\ counted' = counted /\ f \notin counted
    BY <1>1, <2>1 DEF Answers
  <2>3. QED
    BY <1>1, <1>2, <2>1, <2>2, AnswersMove
<1>4. /\ Paid \in Nat /\ CountedRuns \in Nat /\ Alerts!Waiting \in Nat
  BY Amounts DEF LedgerInv
<1>5. Paid' = Paid
  <2>1. Paid' = Paid - Alerts!Leaving[f] + Alerts!Leaving'[f]
    BY <1>1, <1>2, PaidMoves DEF LedgerInv
  <2>2. Alerts!Leaving[f] = 0 /\ Alerts!Leaving'[f] = 0
    BY <1>1, <1>2 DEF Alerts!Leaving
  <2>3. QED
    BY <1>4, <2>1, <2>2
<1>6. /\ CountedRuns' = CountedRuns /\ Alerts!Waiting' = Alerts!Waiting
      /\ Alerts!Told(f)' = Alerts!Waiting
  BY <1>1, <1>2 DEF CountedRuns, Alerts!Waiting, Alerts!Told
<1>7. Paid + Alerts!Waiting <= CountedRuns
  BY DEF LedgerInv, Ledger
<1>8. ASSUME Reader(f)'
      PROVE  Covered(f)'
  <2>1. \A g \in Failures : task'[g].now \in Nat
    <3>1. task' \in [Failures -> TaskType]
      BY DEF AlertsInv, AlertsTypeOK
    <3>2. QED
      BY <3>1 DEF TaskType
  <2>2. Alerts!Never' < 0 /\ Alerts!Never' \in Int
    BY DEF Alerts!Never, LedgerConstants, AlertsConstants
  <2>3. task'[f].read.last = Alerts!Never' =>
            \A g \in Failures : ~ (task'[g].at = "mail" /\ slot'.last = task'[g].now)
    BY <1>1, <1>2, <2>1, <2>2
  <2>4. QED
    BY <1>1, <1>2, <1>5, <1>6, <1>7, <2>3 DEF Covered
<1>9. \A g \in Failures \ {f} : Reader(g)' => Covered(g)'
  BY <1>1, <1>2, <1>4, <1>5, <1>6, CoveredStays DEF LedgerInv
<1>10. Ledger'
  BY <1>5, <1>6, <1>7, <1>8, <1>9 DEF Ledger
<1>11. Alerts!LeftOut' = Alerts!LeftOut
  BY <1>1, <1>2, LeftOutStays DEF Works
<1>12. Exact'
  <2> SUFFICES ASSUME ~replicas
               PROVE  /\ AloneAtWork'
                      /\ calm => /\ counted = Alerts!LeftOut
                                 /\ Paid + Alerts!Waiting = CountedRuns
    BY <1>1, <1>5, <1>6, <1>11 DEF Exact
  <2>1. /\ AloneAtWork
        /\ calm => counted = Alerts!LeftOut /\ Paid + Alerts!Waiting = CountedRuns
    BY DEF LedgerInv, Exact
  <2>2. OthersRest(f)
    BY <1>1, <2>1, AloneIs DEF LedgerInv
  <2>3. QED
    BY <1>1, <1>2, <2>1, <2>2, AloneStays
<1>13. QED
  BY <1>3, <1>10, <1>12 DEF LedgerInv

\* f takes the slot it has read, and is about to tell what waited in it.
LEMMA TakesTells ==
    ASSUME LedgerConstants, AlertsInv, AlertsInv', LedgerInv, NEW f \in Failures,
           Alerts!Takes(f)
    PROVE  LedgerInv'
<1>1. /\ task[f].at = "read" /\ task[f].now = clock /\ alert[f] = "claimed"
      /\ task[f].read \in Slots \cup {None} /\ clock \in Nat /\ slot \in Slots \cup {None}
      /\ task' = [task EXCEPT ![f].at = "mail"]
      /\ UNCHANGED <<clock, alert, mails, counted, replicas, calm>>
      /\ slot' = [last |-> clock, grouped |-> 0]
  BY DEF Alerts!Takes, LedgerInv, Answers, AlertsInv, AlertsTypeOK, Tasks
<1>2. /\ task'[f].at = "mail" /\ task'[f].read = task[f].read /\ task'[f].now = clock
      /\ \A g \in Failures \ {f} : task'[g] = task[g]
  BY <1>1 DEF AlertsInv, AlertsTypeOK, TaskType
<1>3. slot' # None /\ slot'.last = clock /\ slot'.grouped = 0
  <2>1. slot' \in Slots
    BY <1>1 DEF Slots
  <2>2. QED
    BY <1>1, <2>1 DEF LedgerConstants, AlertsConstants
<1>4. Answers'
  <2>1. Answers
    BY DEF LedgerInv
  <2>2. /\ alert' \in [Failures -> Outcomes] /\ alert'[f] = "claimed"
        /\ \A g \in Failures : alert'[g] = alert[g]
        /\ calm' \in BOOLEAN /\ IsFiniteSet(mails')
        /\ counted' = counted /\ f \notin counted
    BY <1>1, <2>1 DEF Answers
  <2>3. QED
    BY <1>1, <1>2, <2>1, <2>2, AnswersMove
<1>5. /\ Paid \in Nat /\ CountedRuns \in Nat /\ Alerts!Waiting \in Nat
      /\ \A g \in Failures : task[g].at \in {"read", "mail"} => Alerts!Told(g) \in Nat
  BY Amounts DEF LedgerInv
<1>6. /\ CountedRuns' = CountedRuns /\ Alerts!Waiting' = 0
      /\ \A g \in Failures : Alerts!Told(g)' = Alerts!Told(g)
  BY <1>1, <1>2, <1>3 DEF CountedRuns, Alerts!Waiting, Alerts!Told
<1>7. Paid' = Paid + Alerts!Told(f)
  <2>1. Paid' = Paid - Alerts!Leaving[f] + Alerts!Leaving'[f]
    BY <1>1, <1>2, PaidMoves DEF LedgerInv
  <2>2. Alerts!Leaving[f] = 0 /\ Alerts!Leaving'[f] = Alerts!Told(f)
    BY <1>1, <1>2, <1>6 DEF Alerts!Leaving
  <2>3. QED
    BY <1>1, <1>5, <2>1, <2>2
<1>8. /\ Paid + Alerts!Told(f) <= CountedRuns
      /\ slot # None => Reader(f) /\ slot.last = task[f].read.last
  <2>1. CASE task[f].read = None /\ slot = None
    <3>1. Alerts!Told(f) = 0 /\ Alerts!Waiting = 0
      BY <2>1 DEF Alerts!Told, Alerts!Waiting
    <3>2. QED
      BY <1>5, <2>1, <3>1 DEF LedgerInv, Ledger
  <2>2. CASE Alerts!Elapsed(f) /\ slot.last = task[f].read.last
    <3>1. Reader(f)
      BY <1>1, <2>2 DEF Reader
    <3>2. Covered(f)
      BY <3>1 DEF LedgerInv, Ledger
    <3>3. QED
      BY <2>2, <3>1, <3>2 DEF Covered
  <2>3. QED
    BY <2>1, <2>2 DEF Alerts!Takes
<1>9. ASSUME NEW g \in Failures, Reader(g)'
      PROVE  Covered(g)'
  <2>1. g # f /\ task'[g] = task[g]
    BY <1>2, <1>9 DEF Reader
  <2>2. /\ Reader(g) /\ task[g].at = "read" /\ task[g].read # None /\ task[g].now = clock
        /\ task[g].read \in Slots /\ slot # None
        /\ task[g].read.last <= clock - Cooldown
    <3>1. Reader(g)
      BY <1>9, <2>1 DEF Reader, Alerts!Elapsed
    <3>2. QED
      BY <3>1 DEF Reader, Alerts!Elapsed, AlertsInv, Tasks
  <2>3. Cooldown \in Nat \ {0} /\ task[g].read.last \in Int
    BY <2>2 DEF LedgerConstants, AlertsConstants, Slots
  <2>4. slot'.last # task'[g].read.last
    BY <1>1, <1>3, <2>1, <2>2, <2>3
  <2>5. ASSUME task[g].read.last = Alerts!Never
        PROVE  Paid + Alerts!Told(g) <= CountedRuns
    <3>1. Covered(g) /\ Reader(f) /\ slot.last = task[f].read.last
      BY <1>8, <2>2 DEF LedgerInv, Ledger
    <3>2. slot \in Slots /\ slot.last <= clock - Cooldown
      BY <1>1, <2>2, <3>1 DEF Reader, Alerts!Elapsed
    <3>3. slot.last # clock
      BY <1>1, <2>3, <3>2 DEF Slots
    <3>4. slot.last = task[g].read.last
      BY <2>5, <3>1, <3>3 DEF Covered
    <3>5. QED
      BY <3>1, <3>4 DEF Covered
  <2>6. ASSUME task'[g].read.last = Alerts!Never', NEW h \in Failures,
               task'[h].at = "mail", slot'.last = task'[h].now
        PROVE  Paid' - Alerts!Told(h)' + Alerts!Told(g)' <= CountedRuns'
    <3>1. h = f
      <4>1. Stamped(h, clock)' /\ Stamped(f, clock)'
        BY <1>1, <1>2, <1>3, <2>6 DEF Stamped
      <4>2. h # f => clock - clock >= Cooldown
        BY <1>1, <4>1 DEF AlertsInv, Spaced
      <4>3. QED
        BY <1>1, <2>3, <4>2
    <3>2. Paid + Alerts!Told(g) <= CountedRuns
      BY <2>1, <2>5, <2>6 DEF Alerts!Never
    <3>3. Alerts!Told(f) \in Nat /\ Alerts!Told(g) \in Nat
      BY <1>1, <1>5, <2>2
    <3>4. QED
      BY <1>5, <1>6, <1>7, <3>1, <3>2, <3>3
  <2>7. QED
    BY <1>3, <1>1, <2>4, <2>6 DEF Covered
<1>10. Ledger'
  BY <1>1, <1>5, <1>6, <1>7, <1>8, <1>9 DEF Ledger
<1>11. Alerts!LeftOut' = Alerts!LeftOut
  BY <1>1, <1>2, LeftOutStays
<1>12. Exact'
  <2> SUFFICES ASSUME ~replicas
               PROVE  /\ AloneAtWork'
                      /\ calm => /\ counted = Alerts!LeftOut
                                 /\ Paid' + Alerts!Waiting' = CountedRuns
    BY <1>1, <1>6, <1>11 DEF Exact
  <2>1. /\ AloneAtWork
        /\ calm => counted = Alerts!LeftOut /\ Paid + Alerts!Waiting = CountedRuns
    BY DEF LedgerInv, Exact
  <2>2. task[f].read = slot /\ OthersRest(f)
    BY <1>1, <2>1 DEF AloneAtWork, Works
  <2>3. Alerts!Told(f) = Alerts!Waiting
    BY <2>2 DEF Alerts!Told, Alerts!Waiting
  <2>4. AloneAtWork'
    BY <1>2, <2>1, <2>2, AloneStays
  <2>5. QED
    BY <1>5, <1>6, <1>7, <2>1, <2>3, <2>4
<1>13. QED
  BY <1>4, <1>10, <1>12 DEF LedgerInv

\* One more failure waits, and one more is counted.
LEMMA CountsTells ==
    ASSUME LedgerConstants, AlertsInv, AlertsInv', LedgerInv, NEW f \in Failures,
           Alerts!Counts(f)
    PROVE  LedgerInv'
<1>1. /\ task[f].at = "read" /\ alert[f] = "claimed" /\ slot \in Slots /\ slot # None
      /\ task' = [task EXCEPT ![f].at = "counted"]
      /\ counted' = counted \cup {f} /\ f \notin counted
      /\ UNCHANGED <<clock, alert, mails, replicas, calm>>
      /\ slot' = [slot EXCEPT !.grouped = @ + 1]
  BY DEF Alerts!Counts, LedgerInv, Answers, AlertsInv, AlertsTypeOK, Tasks
<1>2. /\ task'[f].at = "counted" /\ \A g \in Failures \ {f} : task'[g] = task[g]
      /\ alert' \in [Failures -> Outcomes]
  BY <1>1 DEF AlertsInv, AlertsTypeOK, TaskType, LedgerInv, Answers
<1>3. slot'.last = slot.last /\ slot'.grouped = slot.grouped + 1 /\ slot' # None
  <2>1. slot' \in Slots /\ slot'.last = slot.last /\ slot'.grouped = slot.grouped + 1
    BY <1>1 DEF Slots
  <2>2. QED
    BY <2>1 DEF LedgerConstants, AlertsConstants
<1>4. Answers'
  <2>1. Answers
    BY DEF LedgerInv
  <2>2. calm' \in BOOLEAN /\ IsFiniteSet(mails')
    BY <1>1, <2>1 DEF Answers
  <2>3. QED
    BY <1>1, <1>2, <2>1, <2>2, AnswersMove
<1>5. /\ Paid \in Nat /\ CountedRuns \in Nat /\ Alerts!Waiting \in Nat
  BY Amounts DEF LedgerInv
<1>6. Paid' = Paid
  <2>1. Paid' = Paid - Alerts!Leaving[f] + Alerts!Leaving'[f]
    BY <1>1, <1>2, PaidMoves DEF LedgerInv
  <2>2. Alerts!Leaving[f] = 0 /\ Alerts!Leaving'[f] = 0
    BY <1>1, <1>2 DEF Alerts!Leaving
  <2>3. QED
    BY <1>5, <2>1, <2>2
<1>7. CountedRuns' = CountedRuns + 1
  <2>1. IsFiniteSet(counted)
    BY FS_Subset DEF LedgerInv, Answers, LedgerConstants
  <2>2. QED
    BY <1>1, <2>1, FS_AddElement DEF CountedRuns
<1>8. Alerts!Waiting' = Alerts!Waiting + 1
  BY <1>1, <1>3 DEF Alerts!Waiting
<1>9. Ledger'
  <2>1. Paid + Alerts!Waiting <= CountedRuns
    BY DEF LedgerInv, Ledger
  <2>2. \A g \in Failures \ {f} : Reader(g)' => Covered(g)'
    <3>1. \A g \in Failures \ {f} : task'[g] = task[g]
      BY <1>2
    <3>2. /\ slot'.last = slot.last /\ clock' = clock /\ task'[f].at # "mail"
          /\ Paid' \in Nat /\ Paid' <= Paid
          /\ CountedRuns' \in Nat /\ CountedRuns' >= CountedRuns
      BY <1>1, <1>2, <1>3, <1>5, <1>6, <1>7
    <3>3. QED
      BY <3>1, <3>2, CoveredStays DEF LedgerInv
  <2>3. ~ Reader(f)'
    BY <1>2 DEF Reader
  <2>4. Paid' + Alerts!Waiting' <= CountedRuns'
    BY <1>5, <1>6, <1>7, <1>8, <2>1
  <2>5. QED
    BY <2>2, <2>3, <2>4 DEF Ledger
<1>10. Exact'
  <2> SUFFICES ASSUME ~replicas
               PROVE  /\ AloneAtWork'
                      /\ calm => /\ counted' = Alerts!LeftOut'
                                 /\ Paid' + Alerts!Waiting' = CountedRuns'
    BY <1>1 DEF Exact
  <2>1. /\ AloneAtWork
        /\ calm => counted = Alerts!LeftOut /\ Paid + Alerts!Waiting = CountedRuns
    BY DEF LedgerInv, Exact
  <2>2. OthersRest(f)
    BY <1>1, <2>1 DEF AloneAtWork, Works
  <2>3. AloneAtWork'
    BY <1>2, <2>1, <2>2, AloneStays
  <2>4. Alerts!LeftOut' = Alerts!LeftOut \cup {f}
    BY <1>1, <1>2 DEF Alerts!LeftOut
  <2>5. QED
    BY <1>1, <1>5, <1>6, <1>7, <1>8, <2>1, <2>3, <2>4
<1>11. QED
  BY <1>4, <1>9, <1>10 DEF LedgerInv

\* The mail that leaves tells what its task was about to tell.
LEMMA MailsTells ==
    ASSUME LedgerConstants, AlertsInv, AlertsInv', LedgerInv, NEW f \in Failures,
           Alerts!Mails(f)
    PROVE  LedgerInv'
<1> DEFINE mail == [of |-> f, at |-> task[f].now, told |-> Alerts!Told(f)]
<1>1. /\ task[f].at = "mail" /\ Alerts!Free(f) /\ alert[f] = "claimed"
      /\ UNCHANGED <<clock, alert, slot, counted, replicas, calm>>
      /\ mails' = mails \cup {mail}
  BY DEF Alerts!Mails, LedgerInv, Answers
<1>2. mail \notin mails /\ mail.told = Alerts!Told(f)
  BY <1>1 DEF AlertsInv, Tasks
<1> HIDE DEF mail
<1>3. PICK outcome \in {"sent", "failed"} :
          task' = [task EXCEPT ![f].at = "teams", ![f].read = outcome]
  BY DEF Alerts!Mails
<1> DEFINE moved == [task[f] EXCEPT !.at = "teams", !.read = outcome]
<1>4. /\ task'[f].at = "teams" /\ task'[f].read = outcome
      /\ \A g \in Failures \ {f} : task'[g] = task[g]
  <2>1. task' = [g \in Failures |-> IF g = f THEN moved ELSE task[g]]
    BY <1>3 DEF AlertsInv, AlertsTypeOK
  <2>2. task[f] \in TaskType
    BY DEF AlertsInv, AlertsTypeOK
  <2>3. moved.at = "teams" /\ moved.read = outcome
    BY <2>2 DEF TaskType
  <2> HIDE DEF moved
  <2>4. QED
    BY <2>1, <2>3
<1> HIDE DEF moved
<1>5. Answers /\ IsFiniteSet(mails)
  BY DEF LedgerInv, Answers
<1>6. Answers'
  <2>1. IsFiniteSet(mails')
    BY <1>1, <1>5, FS_AddElement
  <2>2. /\ alert' \in [Failures -> Outcomes] /\ alert'[f] = "claimed"
        /\ \A g \in Failures : alert'[g] = alert[g]
        /\ calm' \in BOOLEAN /\ counted' = counted /\ f \notin counted
    BY <1>1, <1>5 DEF Answers
  <2>3. QED
    BY <1>1, <1>4, <1>5, <2>1, <2>2, AnswersMove
<1>7. /\ Paid \in Nat /\ CountedRuns \in Nat /\ Alerts!Waiting \in Nat
      /\ Alerts!TotalTold \in Nat /\ Alerts!InMail \in Nat /\ Alerts!Told(f) \in Nat
  BY <1>1, Amounts DEF LedgerInv
<1>8. CountedRuns' = CountedRuns /\ Alerts!Waiting' = Alerts!Waiting
  BY <1>1 DEF CountedRuns, Alerts!Waiting
<1>9. Alerts!TotalTold' = Alerts!TotalTold + Alerts!Told(f)
  <2> DEFINE told == [m \in mails |-> m.told]
             retold == [m \in mails \cup {mail} |-> m.told]
  <2>1. /\ \A m \in mails : told[m] \in Nat /\ retold[m] = told[m]
        /\ retold[mail] = Alerts!Told(f)
    BY <1>2 DEF AlertsInv, AlertsTypeOK, MailType
  <2>2. /\ Alerts!TotalTold = Sum(told, mails)
        /\ Alerts!TotalTold' = Sum(retold, mails \cup {mail})
    BY <1>1 DEF Alerts!TotalTold, Sum
  <2> HIDE DEF told, retold
  <2>3. Sum(retold, mails \cup {mail}) = Sum(told, mails) + retold[mail]
    BY <1>2, <1>5, <1>7, <2>1, SumGrows
  <2>4. QED
    BY <2>1, <2>2, <2>3
<1>10. Alerts!InMail' = Alerts!InMail - Alerts!Told(f) /\ Alerts!InMail >= Alerts!Told(f)
  <2>1. /\ Alerts!InMail' = Alerts!InMail - Alerts!Leaving[f] + Alerts!Leaving'[f]
        /\ Alerts!InMail >= Alerts!Leaving[f]
    BY <1>4, <1>5, InMailMoves
  <2>2. Alerts!Leaving[f] = Alerts!Told(f) /\ Alerts!Leaving'[f] = 0
    BY <1>1, <1>4 DEF Alerts!Leaving
  <2>3. QED
    BY <1>7, <2>1, <2>2
<1>11. Paid' = Paid
  BY <1>7, <1>9, <1>10 DEF Paid
<1>12. Ledger'
  <2>1. Paid + Alerts!Waiting <= CountedRuns
    BY DEF LedgerInv, Ledger
  <2>2. \A g \in Failures \ {f} : Reader(g)' => Covered(g)'
    BY <1>1, <1>4, <1>7, <1>8, <1>11, CoveredStays DEF LedgerInv
  <2>3. ~ Reader(f)'
    BY <1>4 DEF Reader
  <2>4. QED
    BY <1>8, <1>11, <2>1, <2>2, <2>3 DEF Ledger
<1>13. Alerts!LeftOut' = Alerts!LeftOut
  BY <1>1, <1>4, LeftOutStays
<1>14. Exact'
  <2> SUFFICES ASSUME ~replicas
               PROVE  /\ AloneAtWork'
                      /\ calm => /\ counted = Alerts!LeftOut
                                 /\ Paid + Alerts!Waiting = CountedRuns
    BY <1>1, <1>8, <1>11, <1>13 DEF Exact
  <2>1. /\ AloneAtWork
        /\ calm => counted = Alerts!LeftOut /\ Paid + Alerts!Waiting = CountedRuns
    BY DEF LedgerInv, Exact
  <2>2. AloneAtWork'
    BY <1>1, <1>4, <2>1, AloneStays
  <2>3. QED
    BY <2>1, <2>2
<1>15. QED
  BY <1>6, <1>12, <1>14 DEF LedgerInv

\* What a mail that was cut would have told waits again, if the slot is still its own: the
\* tasks that have read a slot given back are covered for it.
LEMMA MailCutTells ==
    ASSUME LedgerConstants, AlertsInv, AlertsInv', LedgerInv, NEW f \in Failures,
           Alerts!MailCut(f)
    PROVE  LedgerInv'
<1>1. /\ task[f].at = "mail" /\ Alerts!Free(f) /\ alert[f] = "claimed"
      /\ UNCHANGED <<clock, mails, counted, replicas>> /\ calm' = FALSE
      /\ slot' = Alerts!Released(f)
      /\ task' = [task EXCEPT ![f].at = "over"] /\ alert' = [alert EXCEPT ![f] = None]
  BY DEF Alerts!MailCut, Alerts!Settle, LedgerInv, Answers
<1>2. /\ task'[f].at = "over" /\ \A g \in Failures \ {f} : task'[g] = task[g]
      /\ \A g \in Failures \ {f} : alert'[g] = alert[g]
      /\ alert' \in [Failures -> Outcomes]
  BY <1>1 DEF AlertsInv, AlertsTypeOK, TaskType, LedgerInv, Answers, Outcomes
<1>3. Answers /\ Answers'
  <2>1. Answers
    BY DEF LedgerInv
  <2>2. calm' \in BOOLEAN /\ IsFiniteSet(mails')
    BY <1>1, <2>1 DEF Answers
  <2>3. QED
    BY <1>1, <1>2, <2>1, <2>2, AnswersMove
<1>4. /\ Paid \in Nat /\ CountedRuns \in Nat /\ Alerts!Waiting \in Nat
      /\ \A g \in Failures : task[g].at \in {"read", "mail"} => Alerts!Told(g) \in Nat
  BY <1>3, Amounts
<1>5. Paid' = Paid - Alerts!Told(f) /\ Paid' \in Nat /\ Alerts!Told(f) \in Nat
  <2>1. Paid' = Paid - Alerts!Leaving[f] + Alerts!Leaving'[f] /\ Paid' \in Nat
    BY <1>1, <1>2, <1>3, PaidMoves
  <2>2. Alerts!Leaving[f] = Alerts!Told(f) /\ Alerts!Leaving'[f] = 0
    BY <1>1, <1>2 DEF Alerts!Leaving
  <2>3. QED
    BY <1>1, <1>4, <2>1, <2>2
<1>6. CountedRuns' = CountedRuns
  BY <1>1 DEF CountedRuns
<1>7. Paid + Alerts!Waiting <= CountedRuns
  BY DEF LedgerInv, Ledger
<1>8. ~ Reader(f)' /\ \A g \in Failures \ {f} : Alerts!Told(g)' = Alerts!Told(g)
  BY <1>2 DEF Reader, Alerts!Told
<1>9. ASSUME slot.last # task[f].now
      PROVE  Ledger'
  <2>1. slot' = slot
    BY <1>1, <1>9 DEF Alerts!Released
  <2>2. Alerts!Waiting' = Alerts!Waiting
    BY <2>1 DEF Alerts!Waiting
  <2>3. \A g \in Failures \ {f} : Reader(g)' => Covered(g)'
    <3>1. Paid' <= Paid
      BY <1>4, <1>5
    <3>2. QED
      BY <1>1, <1>2, <1>3, <1>4, <1>5, <1>6, <2>1, <3>1, CoveredStays DEF LedgerInv
  <2>4. QED
    BY <1>4, <1>5, <1>6, <1>7, <1>8, <2>2, <2>3 DEF Ledger
<1>10. ASSUME slot.last = task[f].now
       PROVE  Ledger'
  <2>1. /\ slot' = [last |-> Alerts!Never, grouped |-> Alerts!Told(f)]
        /\ slot' # None
    <3>1. slot' = [last |-> Alerts!Never, grouped |-> Alerts!Told(f)]
      BY <1>1, <1>10 DEF Alerts!Released
    <3>2. slot' \in Slots
      BY <1>5, <3>1 DEF Slots, Alerts!Never, LedgerConstants, AlertsConstants
    <3>3. QED
      BY <3>1, <3>2 DEF LedgerConstants, AlertsConstants
  <2>2. slot'.last = Alerts!Never /\ Alerts!Waiting' = Alerts!Told(f)
    BY <2>1 DEF Alerts!Waiting
  <2>3. Alerts!Never < 0 /\ Alerts!Never \in Int
    BY DEF Alerts!Never, LedgerConstants, AlertsConstants
  <2>4. ASSUME NEW g \in Failures \ {f}, Reader(g)'
        PROVE  Covered(g)'
    <3>1. Reader(g) /\ task[g].at = "read" /\ task'[g] = task[g] /\ Covered(g)
      BY <1>1, <1>2, <2>4 DEF Reader, Alerts!Elapsed, LedgerInv, Ledger
    <3>2. ASSUME task[g].read.last = Alerts!Never
          PROVE  Paid - Alerts!Told(f) + Alerts!Told(g) <= CountedRuns
      BY <1>1, <1>10, <3>1, <3>2 DEF Covered
    <3>3. \A h \in Failures : task'[h].now \in Nat
      <4>1. task' \in [Failures -> TaskType]
        BY DEF AlertsInv, AlertsTypeOK
      <4>2. QED
        BY <4>1 DEF TaskType
    <3>4. \A h \in Failures : slot'.last # task'[h].now
      BY <2>2, <2>3, <3>3
    <3>5. slot'.last \in {task'[g].read.last, Alerts!Never', clock'}
      BY <2>2 DEF Alerts!Never
    <3>6. slot'.last = task'[g].read.last =>
              Paid' + Alerts!Told(g)' <= CountedRuns'
      BY <1>4, <1>5, <1>6, <1>8, <2>2, <3>1, <3>2
    <3>7. QED
      BY <3>4, <3>5, <3>6 DEF Covered
  <2>5. Paid' + Alerts!Waiting' <= CountedRuns'
    BY <1>4, <1>5, <1>6, <1>7, <2>2
  <2>6. QED
    BY <1>8, <2>4, <2>5 DEF Ledger
<1>11. Exact'
  <2> SUFFICES ASSUME ~replicas
               PROVE  AloneAtWork'
    BY <1>1 DEF Exact
  <2>1. AloneAtWork
    BY DEF LedgerInv, Exact
  <2>2. OthersRest(f)
    BY <1>1, <1>3, <2>1, AloneIs
  <2>3. QED
    BY <1>2, <2>1, <2>2, AloneStays
<1>12. QED
  BY <1>3, <1>9, <1>10, <1>11 DEF LedgerInv

\* Nothing moves but the clock, when no task has read the slot.
LEMMA ClockTells ==
    ASSUME AlertsInv, LedgerInv,
           UNCHANGED <<alert, slot, task, mails, counted, replicas, calm>>,
           clock' = clock \/ \A f \in Failures : task[f].at \notin {"read", "again"}
    PROVE  LedgerInv'
<1>1. /\ Paid' = Paid /\ CountedRuns' = CountedRuns
      /\ Alerts!Waiting' = Alerts!Waiting /\ Alerts!LeftOut' = Alerts!LeftOut
      /\ \A f \in Failures : Alerts!Told(f)' = Alerts!Told(f)
  BY DEF Paid, Alerts!TotalTold, Alerts!InMail, Alerts!Leaving, CountedRuns,
         Alerts!Waiting, Alerts!LeftOut, Alerts!Told
<1>2. Answers'
  BY DEF LedgerInv, Answers
<1>3. AloneAtWork => AloneAtWork'
  BY DEF AloneAtWork, OthersRest, Works
<1>4. \A f \in Failures : Reader(f)' => Reader(f) /\ clock' = clock
  BY DEF Reader, Alerts!Elapsed
<1>5. ASSUME NEW f \in Failures, Reader(f)'
      PROVE  Covered(f)'
  BY <1>1, <1>4, <1>5 DEF LedgerInv, Ledger, Covered, Alerts!Never
<1>6. Ledger' /\ Exact'
  BY <1>1, <1>3, <1>5 DEF LedgerInv, Ledger, Exact
<1>7. QED
  BY <1>2, <1>6 DEF LedgerInv

LEMMA LedgerStart ==
    ASSUME LedgerConstants
    PROVE  Alerts!Init => AlertsInv /\ LedgerInv
<1> SUFFICES ASSUME Alerts!Init
             PROVE  AlertsInv /\ LedgerInv
  OBVIOUS
<1>1. AlertsInv
  BY AlertsStart DEF LedgerConstants
<1>2. /\ slot = None /\ mails = {} /\ counted = {} /\ \A f \in Failures : task[f].at = "idle"
      /\ replicas \in BOOLEAN /\ calm \in BOOLEAN
      /\ alert = [f \in Failures |-> None]
  BY DEF Alerts!Init, Alerts!Asleep
<1>3. Answers
  BY <1>2, FS_EmptySet DEF Answers, Outcomes
<1>4. Alerts!TotalTold = 0
  <2> DEFINE told == [m \in mails |-> m.told]
  <2>1. Alerts!TotalTold = Sum(told, {})
    BY <1>2 DEF Alerts!TotalTold, Sum
  <2> HIDE DEF told
  <2>2. QED
    BY <2>1, FS_EmptySet, SumUnfolds
<1>5. Alerts!InMail = 0
  <2>1. \A f \in Failures : Alerts!Leaving[f] = 0
    BY <1>2 DEF Alerts!Leaving
  <2>2. Sum(Alerts!Leaving, Failures) = 0
    BY <2>1, SumOfNothing DEF LedgerConstants
  <2>3. QED
    BY <2>2 DEF Alerts!InMail, Sum
<1>6. CountedRuns = 0 /\ Alerts!LeftOut = {}
  BY <1>2, FS_EmptySet DEF LedgerConstants, CountedRuns, Alerts!LeftOut
<1>7. Alerts!Waiting = 0 /\ Paid = 0
  BY <1>2, <1>4, <1>5 DEF Alerts!Waiting, Paid
<1>8. Ledger /\ Exact
  BY <1>2, <1>6, <1>7 DEF Ledger, Reader, Exact, AloneAtWork, Works
<1>9. QED
  BY <1>1, <1>3, <1>8 DEF LedgerInv

LEMMA LedgerSteps ==
    ASSUME LedgerConstants
    PROVE  AlertsInv /\ LedgerInv /\ [Alerts!Next]_Alerts!vars => AlertsInv' /\ LedgerInv'
<1> SUFFICES ASSUME AlertsInv, LedgerInv, [Alerts!Next]_Alerts!vars
             PROVE  AlertsInv' /\ LedgerInv'
  OBVIOUS
<1>1. AlertsInv'
  BY AlertsSteps DEF LedgerConstants
<1>2. CASE UNCHANGED Alerts!vars
  <2>1. UNCHANGED <<alert, slot, task, mails, counted, replicas, calm>> /\ clock' = clock
    BY <1>2 DEF Alerts!vars
  <2>2. QED
    BY <1>1, <2>1, ClockTells
<1>3. CASE Alerts!TimePasses
  <2>1. /\ UNCHANGED <<alert, slot, task, mails, counted, replicas, calm>>
        /\ \A f \in Failures : task[f].at \notin {"read", "again"}
    BY <1>3 DEF Alerts!TimePasses
  <2>2. QED
    BY <1>1, <2>1, ClockTells
<1>4. ASSUME NEW f \in Failures,
             \/ Alerts!Claims(f) \/ Alerts!TurnedOff(f)
             \/ Alerts!ReadsSlot(f) \/ Alerts!Takes(f) \/ Alerts!Overtaken(f)
             \/ Alerts!Counts(f) \/ Alerts!Groups(f) \/ Alerts!GivesUp(f)
             \/ Alerts!Mails(f) \/ Alerts!MailCut(f) \/ Alerts!Settles(f) \/ Alerts!Killed(f)
      PROVE  LedgerInv'
  BY <1>1, <1>4, ClaimsTells, ReadsSlotTells, TakesTells, OvertakenTells, CountsTells,
     GroupsTells, GivesUpTells, MailsTells, MailCutTells, SettlesTells, KilledTells
<1>5. QED
  BY <1>1, <1>2, <1>3, <1>4 DEF Alerts!Next

\* Whatever is read, taken, given back, counted or lost on any number of replicas, what the
\* mails have told or are about to tell, with what waits in the slot, is never more than
\* the failures counted, also for whoever takes the slot next (_take_slot, _release).
THEOREM LedgerInvariance ==
    ASSUME LedgerConstants
    PROVE  Alerts!Spec => [](AlertsInv /\ LedgerInv)
<1>1. Alerts!Init => AlertsInv /\ LedgerInv
  BY LedgerStart
<1>2. AlertsInv /\ LedgerInv /\ [Alerts!Next]_Alerts!vars => AlertsInv' /\ LedgerInv'
  BY LedgerSteps
<1>3. QED
  BY <1>1, <1>2, PTL DEF Alerts!Spec

\* No failure counted is told twice (_take_slot empties the count as it takes the slot); in
\* one process where no task is cut, each left out is counted, and is in a mail that has
\* left, in the slot, or in a mail being sent.
THEOREM GroupedTold ==
    ASSUME LedgerConstants
    PROVE  Alerts!Spec => []GroupedAreTold
<1>1. AlertsInv /\ LedgerInv => GroupedAreTold
  <2> SUFFICES ASSUME AlertsInv, LedgerInv
               PROVE  GroupedAreTold
    OBVIOUS
  <2>1. /\ Alerts!TotalTold \in Nat /\ Alerts!InMail \in Nat
        /\ CountedRuns \in Nat /\ Alerts!Waiting \in Nat
    BY Amounts DEF LedgerInv
  <2>2. Paid + Alerts!Waiting <= CountedRuns
    BY DEF LedgerInv, Ledger
  <2>3. ~replicas /\ calm => counted = Alerts!LeftOut /\ Paid + Alerts!Waiting = CountedRuns
    BY DEF LedgerInv, Exact
  <2>4. Alerts!Cardinality(counted) = CountedRuns
    BY Counted DEF CountedRuns
  <2>5. QED
    BY <2>1, <2>2, <2>3, <2>4 DEF Paid, GroupedAreTold, Alerts!GroupedAreTold
<1>2. QED
  BY <1>1, LedgerInvariance, PTL

-----------------------------------------------------------------------------
(* FilePolls.                                                               *)

\* What the constants are: a file may have a version.
PollsConstants == MaxVersion \in Nat \ {0}

PollType ==
    [at : {"idle", "due", "listing", "launching"}, due : Nat, moment : Nat,
     list : [Files -> Polls!Versions], todo : SUBSET Files]

PollsTypeOK ==
    /\ clock \in Nat /\ due \in Nat
    /\ folder \in [Files -> Polls!Versions]
    /\ last \in [Files -> Polls!Versions]
    /\ seen \in [Files -> Polls!Versions]
    /\ poll \in [Processes -> PollType]
    /\ fired \in [Files \X Polls!Versions -> Nat]
    /\ broken \in BOOLEAN

Busy(p) == poll[p].at \in {"listing", "launching"}

\* One process polls: next_run_at lies ahead until it is done.
Reserved ==
    /\ \A p \in Processes : poll[p].at = "due" =>
          poll[p].due <= clock /\ poll[p].moment = clock
    /\ \A p \in Processes : Busy(p) => due = clock + 1
    /\ \A p, q \in Processes : Busy(p) /\ Busy(q) => p = q

HasRun(f, v) == fired[<<f, v>>] >= 1
Recorded(f, v) == HasRun(f, v) \/ <<f, v>> \in waived

\* A version that was in the folder and never comes back.
Dead(f, v) == v <= last[f] /\ folder[f] # v

\* What is known of a file is a version it has had.
Known ==
    \A f \in Files :
        /\ folder[f] \in {0, last[f]} /\ seen[f] <= last[f]
        /\ \A v \in Polls!Versions : HasRun(f, v) => v <= last[f]

\* A poll that launches: where it differs from the memory, the memory is out of date;
\* what is left of it was not launched, the rest is recorded.
Underway(p) ==
    LET list == poll[p].list  left == poll[p].todo IN
    /\ ~Polls!Empty(seen)
    /\ \A f \in Files :
          /\ list[f] <= last[f]
          /\ seen[f] # list[f] => seen[f] = 0 \/ Dead(f, seen[f])
          /\ list[f] # 0 /\ f \notin left => Recorded(f, list[f])
          /\ f \in left => list[f] # 0
          /\ f \in left /\ ~broken => ~HasRun(f, list[f])

\* f was launched by a poll that is under way.
JustRun(f, v) ==
    \E p \in Processes :
        poll[p].at = "launching" /\ poll[p].list[f] = v /\ f \notin poll[p].todo

\* The memory holds what is recorded; what was launched is in the memory, will be once
\* the poll is over, never comes back, or the next listing is a first pass.
Memory(f, v) ==
    /\ seen[f] = v => Recorded(f, v)
    /\ HasRun(f, v) /\ ~broken =>
          /\ fired[<<f, v>>] = 1
          /\ seen[f] = v \/ Dead(f, v) \/ Polls!Empty(seen) \/ JustRun(f, v)

PollsInv ==
    /\ PollsTypeOK
    /\ Reserved
    /\ Known
    /\ \A p \in Processes : poll[p].at = "launching" => Underway(p)
    /\ \A f \in Files : \A v \in Polls!Versions \ {0} : Memory(f, v)

-----------------------------------------------------------------------------
(* The steps.                                                               *)

\* The folder changes: what was out of it stays out, what is in it is replaced.
LEMMA FolderKeeps ==
    ASSUME PollsConstants, PollsInv, NEW f \in Files, Polls!Saves(f) \/ Polls!Removes(f)
    PROVE  PollsInv'
<1>1. /\ folder \in [Files -> Polls!Versions] /\ last \in [Files -> Polls!Versions]
      /\ seen \in [Files -> Polls!Versions] /\ Polls!Versions \subseteq Nat
  BY DEF PollsInv, PollsTypeOK, Polls!Versions
<1>2. UNCHANGED <<clock, due, seen, poll, fired, waived, broken>>
  BY DEF Polls!Saves, Polls!Removes
<1>3. /\ folder' \in [Files -> Polls!Versions] /\ last' \in [Files -> Polls!Versions]
      /\ \A g \in Files :
            /\ last[g] <= last'[g] /\ folder'[g] \in {0, last'[g]}
            /\ folder'[g] # folder[g] => folder'[g] = 0 \/ last[g] < folder'[g]
  <2>1. CASE Polls!Saves(f)
    BY <1>1, <2>1 DEF Polls!Saves, Polls!Versions, PollsConstants, PollsInv, Known
  <2>2. CASE Polls!Removes(f)
    BY <1>1, <2>2 DEF Polls!Removes, Polls!Versions, PollsConstants, PollsInv, Known
  <2>3. QED
    BY <2>1, <2>2
<1>4. PollsTypeOK'
  BY <1>2, <1>3 DEF PollsInv, PollsTypeOK
<1>5. Reserved'
  BY <1>2 DEF PollsInv, Reserved, Busy
<1>6. \A g \in Files : \A v \in Polls!Versions \ {0} : Dead(g, v) => Dead(g, v)'
  <2> SUFFICES ASSUME NEW g \in Files, NEW v \in Polls!Versions \ {0}, Dead(g, v)
               PROVE  Dead(g, v)'
    OBVIOUS
  <2>1. /\ last[g] \in Nat /\ last'[g] \in Nat /\ folder'[g] \in Nat /\ v \in Nat /\ v # 0
        /\ last[g] <= last'[g]
        /\ folder'[g] # folder[g] => folder'[g] = 0 \/ last[g] < folder'[g]
    BY <1>1, <1>3
  <2>2. v <= last[g] /\ folder[g] # v
    BY DEF Dead
  <2>3. v <= last'[g] /\ folder'[g] # v
    BY <2>1, <2>2
  <2>4. QED
    BY <2>3 DEF Dead
<1>7. Known'
  <2>1. ASSUME NEW g \in Files, NEW v \in Nat, v <= last[g]
        PROVE  v <= last'[g]
    <3>1. last[g] \in Nat /\ last'[g] \in Nat /\ last[g] <= last'[g]
      BY <1>1, <1>3
    <3>2. QED
      BY <2>1, <3>1
  <2>2. QED
    BY <1>1, <1>2, <1>3, <2>1 DEF PollsInv, Known, HasRun
<1>8. ASSUME NEW p \in Processes, poll'[p].at = "launching"
      PROVE  Underway(p)'
  <2>1. Underway(p) /\ poll[p] \in PollType
    BY <1>2, <1>8 DEF PollsInv, PollsTypeOK
  <2>2. ASSUME NEW g \in Files
        PROVE  /\ poll[p].list[g] <= last'[g]
               /\ seen[g] # poll[p].list[g] => seen[g] = 0 \/ Dead(g, seen[g])'
    <3>1. poll[p].list[g] \in Nat /\ poll[p].list[g] <= last[g]
      BY <1>1, <2>1 DEF Underway, PollType
    <3>2. last[g] \in Nat /\ last'[g] \in Nat /\ last[g] <= last'[g]
      BY <1>1, <1>3
    <3>3. seen[g] # poll[p].list[g] => seen[g] = 0 \/ Dead(g, seen[g])
      BY <2>1 DEF Underway
    <3>4. seen[g] # 0 /\ Dead(g, seen[g]) => Dead(g, seen[g])'
      BY <1>1, <1>2, <1>6
    <3>5. QED
      BY <3>1, <3>2, <3>3, <3>4
  <2>3. QED
    BY <1>2, <2>1, <2>2 DEF Underway, Polls!Empty, Recorded, HasRun
<1>9. ASSUME NEW g \in Files, NEW v \in Polls!Versions \ {0}
      PROVE  Memory(g, v)'
  <2>1. Memory(g, v) /\ (Dead(g, v) => Dead(g, v)')
    BY <1>6 DEF PollsInv
  <2>2. QED
    BY <1>2, <2>1 DEF Memory, Recorded, HasRun, JustRun, Polls!Empty
<1>10. QED
  BY <1>4, <1>5, <1>7, <1>8, <1>9 DEF PollsInv

\* A process moves, without launching: it was not, or the poll is broken.
LEMMA MovesKeep ==
    ASSUME PollsInv, NEW p \in Processes, NEW moved \in PollType,
           poll' = [poll EXCEPT ![p] = moved], moved.at # "launching",
           poll[p].at = "launching" => broken', broken => broken', broken' \in BOOLEAN,
           due' \in Nat, UNCHANGED <<clock, folder, last, seen, fired, waived>>,
           Reserved'
    PROVE  PollsInv'
<1>1. \A q \in Processes : poll'[q] = IF q = p THEN moved ELSE poll[q]
  BY DEF PollsInv, PollsTypeOK
<1>2. PollsTypeOK'
  BY DEF PollsInv, PollsTypeOK
<1>3. Known'
  BY DEF PollsInv, Known, HasRun
<1>4. ASSUME NEW q \in Processes, poll'[q].at = "launching"
      PROVE  Underway(q)'
  <2>1. poll'[q] = poll[q] /\ Underway(q)
    BY <1>1, <1>4 DEF PollsInv
  <2>2. QED
    BY <2>1 DEF Underway, Polls!Empty, Recorded, HasRun, Dead
<1>5. ASSUME NEW g \in Files, NEW v \in Polls!Versions \ {0}
      PROVE  Memory(g, v)'
  <2>1. Memory(g, v)
    BY DEF PollsInv
  <2>2. ~broken' /\ JustRun(g, v) => JustRun(g, v)'
    BY <1>1 DEF JustRun
  <2>3. QED
    BY <2>1, <2>2 DEF Memory, Recorded, HasRun, Polls!Empty, Dead
<1>6. QED
  BY <1>2, <1>3, <1>4, <1>5 DEF PollsInv

LEMMA AsleepIs ==
    ASSUME PollsConstants
    PROVE  Polls!Asleep \in PollType /\ Polls!Asleep.at = "idle"
  BY DEF PollsConstants, Polls!Asleep, PollType, Polls!Versions

LEMMA TickReadsKeeps ==
    ASSUME PollsConstants, PollsInv, NEW p \in Processes, Polls!TickReads(p)
    PROVE  PollsInv'
<1> DEFINE moved == [Polls!Asleep EXCEPT !.at = "due", !.due = due, !.moment = clock]
<1>1. due \in Nat /\ clock \in Nat /\ poll \in [Processes -> PollType] /\ broken \in BOOLEAN
  BY DEF PollsInv, PollsTypeOK
<1>2. /\ moved \in PollType /\ moved.at = "due" /\ moved.due = due
      /\ moved.moment = clock
  BY <1>1, AsleepIs DEF PollType
<1> HIDE DEF moved
<1>3. /\ poll' = [poll EXCEPT ![p] = moved] /\ poll[p].at = "idle" /\ due <= clock
      /\ UNCHANGED <<clock, due, folder, last, seen, faults, fired, waived, broken>>
  BY DEF Polls!TickReads, moved
<1>4. Reserved'
  BY <1>1, <1>2, <1>3 DEF PollsInv, Reserved, Busy
<1>5. QED
  BY <1>1, <1>2, <1>3, <1>4, MovesKeep

\* Whoever reserves is alone: the others that poll would have moved due ahead.
LEMMA ReservesKeeps ==
    ASSUME PollsConstants, PollsInv, NEW p \in Processes, Polls!Reserves(p)
    PROVE  PollsInv'
<1>1. due \in Nat /\ clock \in Nat /\ poll \in [Processes -> PollType] /\ broken \in BOOLEAN
  BY DEF PollsInv, PollsTypeOK
<1>2. /\ poll[p].at = "due" /\ poll[p].due <= clock /\ poll[p].moment = clock
      /\ UNCHANGED <<clock, folder, last, seen, faults, fired, waived, broken>>
  BY DEF Polls!Reserves, PollsInv, Reserved
<1> DEFINE moved == [poll[p] EXCEPT !.at = "listing"]
<1>3. poll[p] \in PollType /\ poll[p].due \in Nat
  BY <1>1 DEF PollType
<1>4. moved \in PollType /\ moved.at = "listing"
  BY <1>3 DEF PollType
<1>5. /\ due' = due \/ (due = poll[p].due /\ due' = clock + 1)
      /\ \/ due = poll[p].due /\ due' = clock + 1 /\ poll' = [poll EXCEPT ![p] = moved]
         \/ poll' = [poll EXCEPT ![p] = Polls!Asleep]
  BY <1>1, <1>2 DEF Polls!Reserves
<1> HIDE DEF moved
<1>6. due' \in Nat
  BY <1>1, <1>5
<1>7. CASE due = poll[p].due /\ due' = clock + 1 /\ poll' = [poll EXCEPT ![p] = moved]
  <2>1. \A q \in Processes : ~Busy(q)
    BY <1>1, <1>2, <1>3, <1>7 DEF PollsInv, Reserved
  <2>2. Reserved'
    BY <1>1, <1>2, <1>4, <1>7, <2>1 DEF PollsInv, Reserved, Busy
  <2>3. QED
    BY <1>1, <1>2, <1>4, <1>6, <1>7, <2>2, MovesKeep
<1>8. CASE poll' = [poll EXCEPT ![p] = Polls!Asleep]
  <2>1. due' # due => \A q \in Processes : ~Busy(q)
    BY <1>1, <1>2, <1>3, <1>5 DEF PollsInv, Reserved
  <2>2. Reserved'
    BY <1>1, <1>2, <1>8, <2>1, AsleepIs DEF PollsInv, Reserved, Busy
  <2>3. QED
    BY <1>1, <1>2, <1>6, <1>8, <2>2, AsleepIs, MovesKeep
<1>9. QED
  BY <1>5, <1>7, <1>8

\* A process that leaves its poll, or that has nothing to launch.
LEMMA LeavesKeep ==
    ASSUME PollsConstants, PollsInv, NEW p \in Processes,
           Polls!ListingFails(p) \/ Polls!Breaks(p) \/ Polls!Dies(p)
    PROVE  PollsInv'
<1>1. /\ due \in Nat /\ clock \in Nat /\ poll \in [Processes -> PollType]
      /\ broken \in BOOLEAN
  BY DEF PollsInv, PollsTypeOK
<1>2. /\ poll' = [poll EXCEPT ![p] = Polls!Asleep]
      /\ UNCHANGED <<clock, due, folder, last, seen, fired, waived>>
  BY DEF Polls!ListingFails, Polls!Breaks, Polls!Dies
<1>3. /\ poll[p].at = "launching" => broken' 
      /\ broken => broken'
      /\ broken' \in BOOLEAN
  BY <1>1 DEF Polls!ListingFails, Polls!Breaks, Polls!Dies
<1>4. Reserved'
  BY <1>1, <1>2, AsleepIs DEF PollsInv, Reserved, Busy
<1>5. QED
  BY <1>1, <1>2, <1>3, <1>4, AsleepIs, MovesKeep

\* A listing with nothing new becomes the memory.
LEMMA NothingNewKeeps ==
    ASSUME PollsConstants, PollsInv, NEW p \in Processes, poll[p].at = "listing",
           NEW list, list = folder \/ list = [f \in Files |-> 0],
           poll' = [poll EXCEPT ![p] = Polls!Asleep], seen' = list,
           Polls!Empty(seen) \/ Polls!NewFiles(list) = {},
           waived' = IF Polls!Empty(seen) THEN waived \cup {<<f, list[f]>> : f \in Files}
                                    ELSE waived,
           UNCHANGED <<clock, due, folder, last, fired, broken>>
    PROVE  PollsInv'
<1>1. /\ list \in [Files -> Polls!Versions]
      /\ 0 \in Polls!Versions /\ Polls!Versions \subseteq Nat
      /\ poll \in [Processes -> PollType] /\ folder \in [Files -> Polls!Versions]
      /\ last \in [Files -> Polls!Versions]
  BY DEF PollsInv, PollsTypeOK, Polls!Versions, PollsConstants
<1>2. PollsTypeOK'
  BY <1>1, AsleepIs DEF PollsInv, PollsTypeOK
<1>3. Reserved'
  BY <1>1, AsleepIs DEF PollsInv, Reserved, Busy
<1>4. Known'
  <2>1. ASSUME NEW f \in Files
        PROVE  list[f] <= last[f]
    <3>1. last[f] \in Nat
      BY <1>1
    <3>2. list[f] \in {0, last[f]}
      BY DEF PollsInv, Known
    <3>3. QED
      BY <3>1, <3>2
  <2>2. QED
    BY <2>1 DEF PollsInv, Known, HasRun
<1>5. \A q \in Processes : poll[q].at # "launching" /\ poll'[q].at # "launching"
  BY <1>1, AsleepIs DEF PollsInv, Reserved, Busy
<1>6. ASSUME NEW f \in Files, NEW v \in Polls!Versions \ {0}
      PROVE  Memory(f, v)'
  <2>1. Memory(f, v)
    BY DEF PollsInv
  <2>2. ASSUME list[f] = v
        PROVE  Recorded(f, v)'
    <3>1. CASE Polls!Empty(seen)
      BY <2>2, <3>1 DEF Recorded
    <3>2. CASE ~Polls!Empty(seen)
      <4>1. seen[f] = v
        BY <2>2, <3>2 DEF Polls!NewFiles
      <4>2. QED
        BY <2>1, <3>2, <4>1 DEF Memory, Recorded, HasRun
    <3>3. QED
      BY <3>1, <3>2
  <2>3. ASSUME HasRun(f, v)
        PROVE  list[f] = v \/ Dead(f, v)' \/ Polls!Empty(list)
    BY <1>1, <2>3 DEF PollsInv, Known, Dead, Polls!Empty
  <2>4. fired' = fired /\ broken' = broken /\ (Polls!Empty(list) => Polls!Empty(seen)')
    BY DEF Polls!Empty
  <2>5. QED
    BY <2>1, <2>2, <2>3, <2>4 DEF Memory, HasRun
<1>7. QED
  BY <1>2, <1>3, <1>4, <1>5, <1>6 DEF PollsInv

\* A listing with new files: none of them was launched.
LEMMA FindsKeeps ==
    ASSUME PollsConstants, PollsInv, NEW p \in Processes, poll[p].at = "listing",
           NEW moved \in PollType, moved.at = "launching", moved.list = folder,
           moved.todo = Polls!NewFiles(folder), ~Polls!Empty(seen),
           poll' = [poll EXCEPT ![p] = moved],
           UNCHANGED <<clock, due, folder, last, seen, fired, waived, broken>>
    PROVE  PollsInv'
<1>1. /\ 0 \in Polls!Versions /\ Polls!Versions \subseteq Nat /\ poll \in [Processes -> PollType]
      /\ folder \in [Files -> Polls!Versions] /\ last \in [Files -> Polls!Versions]
      /\ seen \in [Files -> Polls!Versions]
  BY DEF PollsInv, PollsTypeOK, Polls!Versions, PollsConstants
<1>2. PollsTypeOK'
  BY <1>1 DEF PollsInv, PollsTypeOK
<1>3. Reserved'
  BY <1>1 DEF PollsInv, Reserved, Busy
<1>4. Known'
  BY DEF PollsInv, Known, HasRun
<1>5. \A q \in Processes : poll[q].at # "launching" /\ (poll'[q].at = "launching" => q = p)
  BY <1>1 DEF PollsInv, Reserved, Busy
<1>6. ~ \E f \in Files, v \in Polls!Versions : JustRun(f, v)
  BY <1>5 DEF JustRun
<1>7. Underway(p)'
  <2>1. poll'[p] = moved /\ ~Polls!Empty(seen)'
    BY <1>1 DEF Polls!Empty
  <2>2. ASSUME NEW f \in Files
        PROVE  /\ folder[f] <= last[f]
               /\ seen[f] # folder[f] => seen[f] = 0 \/ Dead(f, seen[f])'
               /\ folder[f] # 0 /\ f \notin Polls!NewFiles(folder) => Recorded(f, folder[f])'
               /\ f \in Polls!NewFiles(folder) => folder[f] # 0
               /\ f \in Polls!NewFiles(folder) /\ ~broken => ~HasRun(f, folder[f])'
    <3>1. /\ folder[f] \in Polls!Versions /\ last[f] \in Nat /\ folder[f] \in {0, last[f]}
          /\ seen[f] <= last[f]
      BY <1>1 DEF PollsInv, Known
    <3>2. folder[f] <= last[f]
      BY <3>1
    <3>3. seen[f] # folder[f] => Dead(f, seen[f])'
      BY <3>1 DEF Dead
    <3>4. folder[f] # 0 => Memory(f, folder[f])
      BY <3>1 DEF PollsInv
    <3>5. folder[f] # 0 /\ f \notin Polls!NewFiles(folder) => Recorded(f, folder[f])'
      BY <3>4 DEF Polls!NewFiles, Memory, Recorded, HasRun
    <3>6. f \in Polls!NewFiles(folder) => folder[f] # 0 /\ seen[f] # folder[f]
      BY DEF Polls!NewFiles
    <3>7. ~Dead(f, folder[f]) /\ ~JustRun(f, folder[f])
      BY <1>6, <3>1 DEF Dead
    <3>8. f \in Polls!NewFiles(folder) /\ ~broken => ~HasRun(f, folder[f])
      BY <3>4, <3>6, <3>7 DEF Memory
    <3>9. QED
      BY <3>2, <3>3, <3>5, <3>6, <3>8 DEF HasRun
  <2>3. QED
    BY <2>1, <2>2 DEF Underway
<1>8. ASSUME NEW f \in Files, NEW v \in Polls!Versions \ {0}
      PROVE  Memory(f, v)'
  <2>1. Memory(f, v) /\ ~JustRun(f, v)
    BY <1>6 DEF PollsInv
  <2>2. QED
    BY <2>1 DEF Memory, Recorded, HasRun, Dead, Polls!Empty
<1>9. QED
  BY <1>2, <1>3, <1>4, <1>5, <1>7, <1>8 DEF PollsInv

LEMMA ComparesKeeps ==
    ASSUME PollsConstants, PollsInv, NEW p \in Processes, Polls!Lists(p) \/ Polls!ListsNothing(p)
    PROVE  PollsInv'
<1>1. /\ poll[p].at = "listing" /\ poll \in [Processes -> PollType]
      /\ folder \in [Files -> Polls!Versions]
      /\ UNCHANGED <<clock, due, folder, last, fired, broken>>
  BY DEF Polls!Lists, Polls!ListsNothing, PollsInv, PollsTypeOK
<1>2. PICK list : Polls!Compares(p, list) /\ (list = folder \/ list = [f \in Files |-> 0])
  BY DEF Polls!Lists, Polls!ListsNothing
<1>3. CASE Polls!Empty(seen) \/ Polls!NewFiles(list) = {}
  <2>1. seen' = list /\ poll' = [poll EXCEPT ![p] = Polls!Asleep]
    BY <1>2, <1>3 DEF Polls!Compares
  <2>2. waived' = IF Polls!Empty(seen) THEN waived \cup {<<f, list[f]>> : f \in Files}
                                 ELSE waived
    BY <1>2 DEF Polls!Compares
  <2>3. QED
    BY <1>1, <1>2, <1>3, <2>1, <2>2, NothingNewKeeps
<1>4. CASE ~Polls!Empty(seen) /\ Polls!NewFiles(list) # {}
  <2>1. list = folder
    BY <1>2, <1>4 DEF Polls!NewFiles
  <2> DEFINE left == Polls!NewFiles(folder)
             moved == [poll[p] EXCEPT !.at = "launching", !.list = folder, !.todo = left]
  <2>2. poll' = [q \in Processes |-> IF q = p THEN moved ELSE poll[q]]
    BY <1>1, <1>2, <1>4, <2>1 DEF Polls!Compares
  <2>3. poll[p] \in PollType /\ left \subseteq Files
    BY <1>1 DEF Polls!NewFiles
  <2> HIDE DEF left
  <2>4. /\ moved \in PollType /\ moved.at = "launching" /\ moved.list = folder
        /\ moved.todo = left
    BY <1>1, <2>3 DEF PollType
  <2> HIDE DEF moved
  <2>5. poll' = [poll EXCEPT ![p] = moved]
    BY <1>1, <2>2
  <2>6. UNCHANGED <<seen, waived>>
    BY <1>2, <1>4 DEF Polls!Compares
  <2>7. QED
    BY <1>1, <1>4, <2>4, <2>5, <2>6, FindsKeeps DEF left
<1>5. QED
  BY <1>3, <1>4

\* What launching or waiving f does to the history.
Noted(f, v) ==
    /\ fired' \in [Files \X Polls!Versions -> Nat]
    /\ Recorded(f, v)'
    /\ \A g \in Files : \A w \in Polls!Versions : Recorded(g, w) => Recorded(g, w)'
    /\ \A g \in Files : \A w \in Polls!Versions :
          g # f \/ w # v => fired'[<<g, w>>] = fired[<<g, w>>]
    /\ fired'[<<f, v>>] \in {fired[<<f, v>>], fired[<<f, v>>] + 1}

\* A file was launched or waived: the poll goes on, or becomes the memory.
LEMMA NotedKeeps ==
    ASSUME PollsConstants, PollsInv, NEW p \in Processes, NEW f \in Files,
           NEW v \in Polls!Versions,
           poll[p].at = "launching", f \in poll[p].todo, v = poll[p].list[f],
           Polls!GoesOn(p, f), Noted(f, v),
           UNCHANGED <<clock, due, folder, last, broken>>
    PROVE  PollsInv'
<1> DEFINE list == poll[p].list
<1>1. /\ 0 \in Polls!Versions /\ Polls!Versions \subseteq Nat /\ poll \in [Processes -> PollType]
      /\ folder \in [Files -> Polls!Versions] /\ last \in [Files -> Polls!Versions]
      /\ seen \in [Files -> Polls!Versions] /\ fired \in [Files \X Polls!Versions -> Nat]
  BY DEF PollsInv, PollsTypeOK, Polls!Versions, PollsConstants
<1>2. Underway(p) /\ poll[p] \in PollType
  BY <1>1 DEF PollsInv
<1>3. list \in [Files -> Polls!Versions] /\ v \in Polls!Versions \ {0}
  BY <1>2 DEF PollType, Underway
<1>4. \A q \in Processes : poll[q].at = "launching" => q = p
  BY DEF PollsInv, Reserved, Busy
<1>5. /\ \A g \in Files : list[g] <= last[g]
      /\ \A g \in Files : seen[g] # list[g] => seen[g] = 0 \/ Dead(g, seen[g])
      /\ \A g \in Files : list[g] # 0 /\ g \notin poll[p].todo => Recorded(g, list[g])
      /\ \A g \in poll[p].todo : list[g] # 0 /\ (~broken => ~HasRun(g, list[g]))
      /\ ~Polls!Empty(seen) /\ poll[p].todo \subseteq Files
  BY <1>2 DEF Underway, PollType
<1>6. \A g \in Files : \A w \in Polls!Versions : HasRun(g, w)' => HasRun(g, w) \/ (g = f /\ w = v)
  BY DEF Noted, HasRun
<1>7. \A g \in Files : \A w \in Polls!Versions : Dead(g, w)' = Dead(g, w)
  BY DEF Dead
<1>8. \A g \in Files : \A w \in Polls!Versions : HasRun(g, w)' => w <= last[g]
  BY <1>5, <1>6 DEF PollsInv, Known
<1>9. ~broken => fired'[<<f, v>>] <= 1
  BY <1>1, <1>3, <1>5 DEF Noted, HasRun
<1>10. \A g \in Files : \A w \in Polls!Versions \ {0} :
          HasRun(g, w)' /\ ~broken => fired'[<<g, w>>] = 1
  <2> SUFFICES ASSUME NEW g \in Files, NEW w \in Polls!Versions \ {0}, HasRun(g, w)', ~broken
               PROVE  fired'[<<g, w>>] = 1
    OBVIOUS
  <2>1. CASE g = f /\ w = v
    <3>1. fired'[<<f, v>>] \in Nat
      BY <1>3 DEF Noted
    <3>2. fired'[<<f, v>>] >= 1
      BY <2>1 DEF HasRun
    <3>3. QED
      BY <1>9, <2>1, <3>1, <3>2
  <2>2. CASE g # f \/ w # v
    <3>1. HasRun(g, w) /\ Memory(g, w)
      BY <1>6, <2>2 DEF PollsInv
    <3>2. fired'[<<g, w>>] = fired[<<g, w>>]
      BY <2>2 DEF Noted
    <3>3. QED
      BY <3>1, <3>2 DEF Memory
  <2>3. QED
    BY <2>1, <2>2
<1>11. ASSUME NEW g \in Files, NEW w \in Polls!Versions \ {0}, HasRun(g, w)', ~broken
       PROVE  list[g] = w \/ Dead(g, w)
  <2>1. CASE g = f /\ w = v
    BY <2>1
  <2>2. CASE g # f \/ w # v
    <3>1. HasRun(g, w) /\ Memory(g, w)
      BY <1>6, <1>11, <2>2 DEF PollsInv
    <3>2. seen[g] = w \/ Dead(g, w) \/ JustRun(g, w)
      BY <1>5, <1>11, <3>1 DEF Memory
    <3>3. JustRun(g, w) => list[g] = w
      BY <1>4 DEF JustRun
    <3>4. QED
      BY <1>5, <3>2, <3>3
  <2>3. QED
    BY <2>1, <2>2
<1>12. CASE poll[p].todo = {f}
  <2>1. seen' = list /\ poll' = [poll EXCEPT ![p] = Polls!Asleep]
    BY <1>12 DEF Polls!GoesOn
  <2>2. PollsTypeOK'
    BY <1>1, <1>3, <2>1, AsleepIs DEF PollsInv, PollsTypeOK, Noted
  <2>3. Reserved'
    BY <1>1, <2>1, AsleepIs DEF PollsInv, Reserved, Busy
  <2>4. Known'
    BY <1>5, <1>8, <2>1 DEF PollsInv, Known
  <2>5. \A q \in Processes : poll'[q].at # "launching"
    BY <1>1, <1>4, <2>1, AsleepIs
  <2>6. ASSUME NEW g \in Files, NEW w \in Polls!Versions \ {0}
        PROVE  Memory(g, w)'
    <3>1. ASSUME list[g] = w
          PROVE  Recorded(g, w)'
      <4>1. CASE g = f
        BY <3>1, <4>1 DEF Noted
      <4>2. CASE g # f
        BY <1>5, <1>12, <3>1, <4>2 DEF Noted
      <4>3. QED
        BY <4>1, <4>2
    <3>2. QED
      BY <1>7, <1>10, <1>11, <2>1, <3>1 DEF Memory
  <2>7. QED
    BY <2>2, <2>3, <2>4, <2>5, <2>6 DEF PollsInv
<1>13. CASE poll[p].todo # {f}
  <2> DEFINE left == poll[p].todo \ {f}
             moved == [poll[p] EXCEPT !.todo = left]
  <2>1. seen' = seen /\ poll' = [poll EXCEPT ![p].todo = left]
    BY <1>13 DEF Polls!GoesOn
  <2>2. poll' = [q \in Processes |-> IF q = p THEN moved ELSE poll[q]]
    BY <1>1, <2>1
  <2>3. moved \in PollType /\ moved.at = "launching" /\ moved.list = list /\ moved.todo = left
    BY <1>2 DEF PollType
  <2> HIDE DEF moved
  <2>4. /\ poll' \in [Processes -> PollType] /\ poll'[p] = moved
        /\ \A q \in Processes \ {p} : poll'[q] = poll[q]
    BY <1>1, <2>2, <2>3
  <2>5. PollsTypeOK'
    BY <2>1, <2>4 DEF PollsInv, PollsTypeOK, Noted
  <2>6. Reserved'
    BY <1>1, <2>3, <2>4 DEF PollsInv, Reserved, Busy
  <2>7. Known'
    BY <1>8, <2>1 DEF PollsInv, Known
  <2>8. \A q \in Processes : poll'[q].at = "launching" => q = p
    BY <1>4, <2>4
  <2>9. Underway(p)'
    <3>1. ~Polls!Empty(seen)'
      BY <1>5, <2>1 DEF Polls!Empty
    <3>2. ASSUME NEW g \in Files, NEW w \in Polls!Versions, w = list[g]
          PROVE  /\ w <= last'[g]
                 /\ seen'[g] # w => seen'[g] = 0 \/ Dead(g, seen[g])'
                 /\ w # 0 /\ g \notin left => Recorded(g, w)'
                 /\ g \in left => w # 0
                 /\ g \in left /\ ~broken => ~HasRun(g, w)'
      <4>1. w <= last'[g] /\ (seen'[g] # w => seen'[g] = 0 \/ Dead(g, seen[g])')
        BY <1>5, <2>1, <3>2 DEF Dead
      <4>2. w # 0 /\ g \notin left => Recorded(g, w)'
        <5>1. CASE g = f
          BY <3>2, <5>1 DEF Noted
        <5>2. CASE g # f
          BY <1>5, <3>2, <5>2 DEF Noted
        <5>3. QED
          BY <5>1, <5>2
      <4>3. g \in left => w # 0
        BY <1>5, <3>2
      <4>4. g \in left /\ ~broken => ~HasRun(g, w)'
        BY <1>5, <1>6, <3>2
      <4>5. QED
        BY <4>1, <4>2, <4>3, <4>4
    <3>3. poll'[p].list = list /\ poll'[p].todo = left /\ broken' = broken
      BY <2>3, <2>4
    <3>4. \A g \in Files : list[g] \in Polls!Versions
      BY <1>3
    <3>5. QED
      BY <3>1, <3>2, <3>3, <3>4 DEF Underway
  <2>10. ASSUME NEW g \in Files, NEW w \in Polls!Versions \ {0}
         PROVE  Memory(g, w)'
    <3>1. seen'[g] = w => Recorded(g, w)'
      BY <2>1 DEF PollsInv, Memory, Noted
    <3>2. ASSUME HasRun(g, w)', ~broken
          PROVE  seen[g] = w \/ Dead(g, w) \/ JustRun(g, w)'
      <4>1. CASE g = f /\ w = v
        BY <2>3, <2>4, <4>1 DEF JustRun
      <4>2. CASE g # f \/ w # v
        <5>1. HasRun(g, w) /\ Memory(g, w)
          BY <1>6, <3>2, <4>2 DEF PollsInv
        <5>2. seen[g] = w \/ Dead(g, w) \/ JustRun(g, w)
          BY <1>5, <3>2, <5>1 DEF Memory
        <5>3. JustRun(g, w) => list[g] = w /\ g \notin left
          BY <1>4 DEF JustRun
        <5>4. list[g] = w /\ g \notin left => JustRun(g, w)'
          BY <2>3, <2>4 DEF JustRun
        <5>5. QED
          BY <5>2, <5>3, <5>4
      <4>3. QED
        BY <4>1, <4>2
    <3>3. QED
      BY <1>7, <1>10, <2>1, <3>1, <3>2 DEF Memory
  <2>11. QED
    BY <2>5, <2>6, <2>7, <2>8, <2>9, <2>10 DEF PollsInv
<1>14. QED
  BY <1>12, <1>13

LEMMA LaunchesKeeps ==
    ASSUME PollsConstants, PollsInv, NEW p \in Processes, NEW f \in Files,
           Polls!Launches(p, f) \/ Polls!LaunchRefused(p, f)
    PROVE  PollsInv'
<1>1. /\ fired \in [Files \X Polls!Versions -> Nat] /\ poll[p].list[f] \in Polls!Versions
      /\ poll[p].at = "launching" /\ f \in poll[p].todo /\ Polls!GoesOn(p, f)
      /\ UNCHANGED <<clock, due, folder, last, broken>>
  BY DEF PollsInv, PollsTypeOK, PollType, Polls!Launches, Polls!LaunchRefused
<1>2. PICK v \in Polls!Versions : v = poll[p].list[f]
  BY <1>1
<1>3. Noted(f, v)
  <2>1. CASE fired' = [fired EXCEPT ![<<f, v>>] = @ + 1] /\ waived' = waived
    <3>1. /\ fired' \in [Files \X Polls!Versions -> Nat]
          /\ fired[<<f, v>>] \in Nat /\ fired'[<<f, v>>] = fired[<<f, v>>] + 1
      BY <1>1, <2>1
    <3>2. \A g \in Files : \A w \in Polls!Versions :
              g # f \/ w # v => fired'[<<g, w>>] = fired[<<g, w>>]
      BY <1>1, <2>1
    <3>3. Recorded(f, v)'
      BY <3>1 DEF Recorded, HasRun
    <3>4. \A g \in Files : \A w \in Polls!Versions : Recorded(g, w) => Recorded(g, w)'
      BY <2>1, <3>2, <3>3 DEF Recorded, HasRun
    <3>5. QED
      BY <3>1, <3>2, <3>3, <3>4 DEF Noted
  <2>2. CASE fired' = fired /\ waived' = waived \cup {<<f, v>>}
    BY <1>1, <2>2 DEF Noted, Recorded, HasRun
  <2>3. QED
    BY <1>2, <2>1, <2>2 DEF Polls!Launches, Polls!LaunchRefused
<1>4. QED
  BY <1>1, <1>2, <1>3, NotedKeeps

LEMMA IntervalPassesKeeps ==
    ASSUME PollsInv, Polls!TimePasses
    PROVE  PollsInv'
<1>1. /\ UNCHANGED <<due, folder, last, seen, poll, fired, waived, broken>>
      /\ clock' = clock + 1 /\ \A p \in Processes : poll[p].at = "idle"
  BY DEF Polls!TimePasses
<1>2. PollsTypeOK' /\ Reserved' /\ Known'
  BY <1>1 DEF PollsInv, PollsTypeOK, Reserved, Busy, Known, HasRun
<1>3. ASSUME NEW f \in Files, NEW v \in Polls!Versions \ {0}
      PROVE  Memory(f, v)'
  <2>1. Memory(f, v)
    BY DEF PollsInv
  <2>2. JustRun(f, v) => JustRun(f, v)'
    BY <1>1 DEF JustRun
  <2>3. QED
    BY <1>1, <2>1, <2>2 DEF Memory, Recorded, HasRun, Dead, Polls!Empty
<1>4. QED
  BY <1>1, <1>2, <1>3 DEF PollsInv

LEMMA PollsStart ==
    ASSUME PollsConstants
    PROVE  Polls!Init => PollsInv
<1> SUFFICES ASSUME Polls!Init
             PROVE  PollsInv
  OBVIOUS
<1>1. 0 \in Polls!Versions /\ 1 \in Polls!Versions
  BY DEF PollsConstants, Polls!Versions
<1>2. /\ clock = 0 /\ due = 1 /\ broken = FALSE /\ last = folder
      /\ folder \in [Files -> {0, 1}]
      /\ seen = [f \in Files |-> 0] /\ fired = [x \in Files \X Polls!Versions |-> 0]
      /\ poll = [p \in Processes |-> Polls!Asleep]
  BY DEF Polls!Init
<1>3. PollsTypeOK
  BY <1>1, <1>2, AsleepIs DEF PollsTypeOK
<1>4. Reserved /\ Known
  BY <1>1, <1>2, AsleepIs DEF Reserved, Busy, Known, HasRun
<1>5. \A p \in Processes : poll[p].at # "launching"
  BY <1>2, AsleepIs
<1>6. \A f \in Files : \A v \in Polls!Versions \ {0} : Memory(f, v)
  BY <1>1, <1>2 DEF Memory, HasRun
<1>7. QED
  BY <1>3, <1>4, <1>5, <1>6 DEF PollsInv

LEMMA PollsStutter ==
    ASSUME PollsInv, UNCHANGED Polls!vars
    PROVE  PollsInv'
<1>1. UNCHANGED <<clock, due, folder, last, seen, poll, fired, waived, broken>>
  BY DEF Polls!vars
<1>2. PollsTypeOK' /\ Reserved' /\ Known'
  BY <1>1 DEF PollsInv, PollsTypeOK, Reserved, Busy, Known, HasRun
<1>3. ASSUME NEW p \in Processes, poll'[p].at = "launching"
      PROVE  Underway(p)'
  <2>1. Underway(p)
    BY <1>1, <1>3 DEF PollsInv
  <2>2. QED
    BY <1>1, <2>1 DEF Underway, Recorded, HasRun, Dead, Polls!Empty
<1>4. ASSUME NEW f \in Files, NEW v \in Polls!Versions \ {0}
      PROVE  Memory(f, v)'
  <2>1. Memory(f, v)
    BY DEF PollsInv
  <2>2. JustRun(f, v) => JustRun(f, v)'
    BY <1>1 DEF JustRun
  <2>3. QED
    BY <1>1, <2>1, <2>2 DEF Memory, Recorded, HasRun, Dead, Polls!Empty
<1>5. QED
  BY <1>2, <1>3, <1>4 DEF PollsInv

LEMMA PollsSteps ==
    ASSUME PollsConstants
    PROVE  PollsInv /\ [Polls!Next]_Polls!vars => PollsInv'
<1> SUFFICES ASSUME PollsInv, [Polls!Next]_Polls!vars
             PROVE  PollsInv'
  OBVIOUS
<1>1. CASE UNCHANGED Polls!vars
  BY <1>1, PollsStutter
<1>2. CASE Polls!TimePasses
  BY <1>2, IntervalPassesKeeps
<1>3. CASE \E f \in Files : Polls!Saves(f) \/ Polls!Removes(f)
  BY <1>3, FolderKeeps
<1>4. ASSUME NEW p \in Processes, Polls!Tick(p)
      PROVE  PollsInv'
  BY <1>4, TickReadsKeeps, ReservesKeeps, LeavesKeep, ComparesKeeps, LaunchesKeeps DEF Polls!Tick
<1>5. QED
  BY <1>1, <1>2, <1>3, <1>4 DEF Polls!Next

\* Whatever is saved and removed while processes poll, break and die, PollsInv holds: it
\* relates the folder, the memory, the poll under way and what was launched
\* (_tick_file_trigger, poll_file_trigger).
THEOREM PollsInvariance ==
    ASSUME PollsConstants
    PROVE  Polls!Spec => []PollsInv
<1>1. Polls!Init => PollsInv
  BY PollsStart
<1>2. PollsInv /\ [Polls!Next]_Polls!vars => PollsInv'
  BY PollsSteps
<1>3. QED
  BY <1>1, <1>2, PTL DEF Polls!Spec

\* One process polls a trigger at a time (reserve_next_poll moves next_run_at before the
\* listing, if it is the one that was read).
THEOREM OnePoll ==
    ASSUME PollsConstants
    PROVE  Polls!Spec => [](\A p, q \in Processes : Busy(p) /\ Busy(q) => p = q)
<1>1. PollsInv => \A p, q \in Processes : Busy(p) /\ Busy(q) => p = q
  BY DEF PollsInv, Reserved
<1>2. QED
  BY <1>1, PollsInvariance, PTL

\* A file new or modified launches one run and is in the memory only once it has, or was
\* there at a first pass (dedupe_new_files, _persist_seen_files); a poll that broke off
\* may launch twice.
THEOREM OneRun ==
    ASSUME PollsConstants
    PROVE  Polls!Spec => []OneRunPerFile
<1>1. ASSUME PollsInv
      PROVE  OneRunPerFile
  <2> SUFFICES ASSUME NEW f \in Files, NEW v \in Polls!Versions \ {0}
               PROVE  /\ seen[f] = v => fired[<<f, v>>] >= 1 \/ <<f, v>> \in waived
                      /\ ~broken => fired[<<f, v>>] <= 1
    BY DEF OneRunPerFile, Polls!OneRunPerFile
  <2>1. Memory(f, v) /\ fired[<<f, v>>] \in Nat
    BY <1>1 DEF PollsInv, PollsTypeOK
  <2>2. QED
    BY <2>1 DEF Memory, Recorded, HasRun
<1>2. QED
  BY <1>1, PollsInvariance, PTL
=============================================================================
