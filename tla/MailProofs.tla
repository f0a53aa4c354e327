------------------------------ MODULE MailProofs ------------------------------
(***************************************************************************)
(* Mails launch their workflows once; a retrigger is honoured and a split    *)
(* leaves no PDF out: for any mails, processes, faults and bounds.           *)
(***************************************************************************)
EXTENDS MCMail, TLAPS

-----------------------------------------------------------------------------
(* MailSubscription.                                                        *)

Line == [id : Nat, status : {"pending", "active", "error", "expired"}, token : Nat,
         graph : Nat, old : BOOLEAN, expiry : {"far", "near", "past"}]

\* No row is not a row.
OwnerConstants == None \notin Line

Reconciler ==
    [at : {"idle", "rows", "claim", "remove", "drop", "replace", "create", "write", "fail"},
     wanted : BOOLEAN, read : Line \cup {None}, token : Nat, drop : Nat]

Renewer == [at : {"idle", "due", "renewed", "gone", "failed"}, id : Nat, graph : Nat]

MailLog ==
    [box : {"none", "in", "gone"}, told : Nat, agent : {"none", "todo", "done"},
     wf : {"none", "told", "refused", "todo", "taken", "runs", "done", "erased"},
     copy : {"none", "kept", "lost"}, rows : Nat, launched : Nat,
     missed : BOOLEAN, excused : BOOLEAN]

OwnerTypeOK ==
    /\ wanted \in BOOLEAN /\ rows \in Nat /\ tokens \in Nat
    /\ row \in Line \cup {None}
    /\ rec \in [Reconcilers -> Reconciler]
    /\ ren \in [Renewers -> Renewer]
    /\ mail \in [Mails -> MailLog]

\* The log of the agent is older than the row, if there is one.
Older(l) == row = None \/ l.rows < row.id

\* What the two paths have launched for a mail that is neither missed nor excused:
\* the agent is yet to launch what the subscription has not, the subscription what
\* it is told of and has not handled.
AgentCounts(l) ==
    /\ l.agent # "done" => l.launched = 0
    /\ l.agent = "todo" => Older(l)
    /\ l.agent = "done" => l.launched = 1

SharedCounts(l) ==
    /\ l.wf = "told" => l.launched = 0 \/ (l.agent = "done" /\ l.launched = 1)
    /\ l.wf \in {"todo", "taken", "runs"} => l.launched = 0
    /\ l.wf = "done" => l.launched = 1

Counted(l) ==
    /\ l.rows <= rows
    /\ l.box = "none" => l.agent = "none" /\ l.wf = "none"
    /\ \/ l.missed \/ l.excused
       \/ l.wf \in {"none", "refused", "erased"} /\ AgentCounts(l)
       \/ l.wf \in {"told", "todo", "taken", "runs", "done"} /\ SharedCounts(l)

OwnerInv ==
    /\ OwnerTypeOK
    /\ row # None => row.id <= rows
    /\ \A p \in Reconcilers : rec[p].at = "remove" => rec[p].read # None
    /\ \A m \in Mails : Counted(mail[m])

LEMMA OwnerStarts ==
    ASSUME Owner!Init
    PROVE  OwnerInv
<1>1. OwnerTypeOK
  <2>1. Owner!Resting \in Reconciler /\ Owner!Asleep \in Renewer /\ Owner!NotCome \in MailLog
    BY DEF Owner!Resting, Owner!Asleep, Owner!NotCome, Reconciler, Renewer, MailLog
  <2>2. QED
    BY <2>1 DEF Owner!Init, OwnerTypeOK
<1>2. \A m \in Mails : Counted(mail[m])
  BY DEF Owner!Init, Counted, AgentCounts, Owner!NotCome
<1>3. QED
  BY <1>1, <1>2 DEF Owner!Init, OwnerInv, Owner!Resting

\* The row is the same one, or gone; no mail is handled.
LEMMA OwnerStays ==
    ASSUME OwnerInv, OwnerTypeOK', mail' = mail, rows' = rows,
           row' # None => row # None /\ row'.id = row.id,
           \A p \in Reconcilers : rec'[p].at = "remove" => rec'[p].read # None
    PROVE  OwnerInv'
<1>1. ASSUME NEW m \in Mails
      PROVE  Counted(mail[m])'
  <2>1. Counted(mail[m])
    BY DEF OwnerInv
  <2>2. QED
    BY <2>1 DEF Counted, AgentCounts, SharedCounts, Older
<1>2. QED
  BY <1>1 DEF OwnerInv

\* One process moves on, and keeps the row it has read or reads the one there is.
LEMMA RecMoves ==
    ASSUME OwnerInv, NEW p \in Reconcilers, NEW new \in Reconciler,
           rec' = [rec EXCEPT ![p] = new],
           new.at = "remove" => new.read # None,
           UNCHANGED <<wanted, row, rows, tokens, ren, mail>>
    PROVE  OwnerInv'
<1>1. rec' \in [Reconcilers -> Reconciler]
      /\ \A q \in Reconcilers : rec'[q] = IF q = p THEN new ELSE rec[q]
  BY DEF OwnerInv, OwnerTypeOK
<1>2. OwnerTypeOK'
  BY <1>1 DEF OwnerInv, OwnerTypeOK
<1>3. QED
  BY <1>1, <1>2, OwnerStays DEF OwnerInv

LEMMA RestingIsOne == Owner!Resting \in Reconciler /\ Owner!Resting.at = "idle"
  BY DEF Owner!Resting, Reconciler

LEMMA ReconcilesAlone ==
    ASSUME OwnerInv, NEW p \in Reconcilers,
           \/ Owner!ReadsWanted(p) \/ Owner!ReadsRow(p) \/ Owner!Forgets(p)
           \/ Owner!Yields(p) \/ Owner!Creates(p) \/ Owner!Dies(p)
    PROVE  OwnerInv'
<1>1. /\ rec[p] \in Reconciler /\ row \in Line \cup {None} /\ wanted \in BOOLEAN
      /\ rec[p].at = "remove" => rec[p].read # None
  BY DEF OwnerInv, OwnerTypeOK
<1>2. CASE Owner!ReadsWanted(p)
  <2> DEFINE new == [Owner!Resting EXCEPT !.at = "rows", !.wanted = wanted]
  <2>1. new \in Reconciler /\ new.at = "rows"
    BY <1>1 DEF Owner!Resting, Reconciler
  <2>2. rec' = [rec EXCEPT ![p] = new] /\ UNCHANGED <<wanted, row, rows, tokens, ren, mail>>
    BY <1>2 DEF Owner!ReadsWanted, Owner!sub
  <2> HIDE DEF new
  <2>3. QED
    BY <2>1, <2>2, RecMoves
<1>3. CASE Owner!ReadsRow(p)
  <2>1. PICK new \in Reconciler : rec' = [rec EXCEPT ![p] = new] /\ (new.at = "remove" => new.read # None)
    <3>1. CASE ~rec[p].wanted /\ row # None
      <4> DEFINE new == [rec[p] EXCEPT !.at = "remove", !.read = row]
      <4>1. new \in Reconciler /\ new.read # None
        BY <1>1, <3>1 DEF Reconciler
      <4>2. rec' = [rec EXCEPT ![p] = new]
        BY <1>3, <3>1 DEF Owner!ReadsRow
      <4> HIDE DEF new
      <4>3. QED
        BY <4>1, <4>2
    <3>2. CASE rec[p].wanted /\ (row = None \/ Owner!Retried(row))
      <4> DEFINE new == [rec[p] EXCEPT !.at = "claim", !.read = row]
      <4>1. new \in Reconciler /\ new.at = "claim"
        BY <1>1 DEF Reconciler
      <4>2. rec' = [rec EXCEPT ![p] = new]
        BY <1>3, <3>2 DEF Owner!ReadsRow
      <4> HIDE DEF new
      <4>3. QED
        BY <4>1, <4>2
    <3>3. CASE \/ ~rec[p].wanted /\ row = None
               \/ rec[p].wanted /\ row # None /\ ~Owner!Retried(row)
      <4>1. rec' = [rec EXCEPT ![p] = Owner!Resting]
        BY <1>3, <3>3 DEF Owner!ReadsRow
      <4>2. QED
        BY <4>1, RestingIsOne
    <3>4. QED
      BY <3>1, <3>2, <3>3
  <2>2. UNCHANGED <<wanted, row, rows, tokens, ren, mail>>
    BY <1>3 DEF Owner!ReadsRow, Owner!sub
  <2>3. QED
    BY <2>1, <2>2, RecMoves
<1>4. CASE Owner!Forgets(p) \/ Owner!Yields(p) \/ Owner!Creates(p)
  <2>1. PICK at \in {"idle", "create", "write", "fail"} : Owner!Goes(p, at)
    BY <1>4 DEF Owner!Forgets, Owner!Yields, Owner!Creates
  <2> DEFINE new == IF at = "idle" THEN Owner!Resting ELSE [rec[p] EXCEPT !.at = at]
  <2>2. new \in Reconciler /\ new.at # "remove"
    BY <1>1, <2>1, RestingIsOne DEF Reconciler
  <2>3. rec' = [rec EXCEPT ![p] = new]
    BY <2>1 DEF Owner!Goes
  <2>4. UNCHANGED <<wanted, row, rows, tokens, ren, mail>>
    BY <1>4 DEF Owner!Forgets, Owner!Yields, Owner!Creates, Owner!sub
  <2> HIDE DEF new
  <2>5. QED
    BY <2>2, <2>3, <2>4, RecMoves
<1>5. CASE Owner!Dies(p)
  BY <1>5, RestingIsOne, RecMoves DEF Owner!Dies, Owner!sub
<1>6. QED
  BY <1>2, <1>3, <1>4, <1>5

\* The row goes: its mails that were to be handled are not, by fault.
LEMMA RowGoes ==
    ASSUME OwnerInv, Owner!Deleted, rows' = rows, tokens' = tokens, wanted' = wanted,
           rec' \in [Reconcilers -> Reconciler], ren' \in [Renewers -> Renewer],
           \A p \in Reconcilers : rec'[p].at = "remove" => rec'[p].read # None
    PROVE  OwnerInv'
<1>1. row' = None
  BY DEF Owner!Deleted
<1>2. ASSUME NEW l \in MailLog, Counted(l)
      PROVE  /\ Owner!Erased(l) \in MailLog
             /\ Counted(Owner!Erased(l))'
  <2> DEFINE e == Owner!Erased(l)
  <2>1. CASE l.wf = "todo"
    <3>1. e = [l EXCEPT !.wf = "erased", !.copy = "none", !.missed = @ \/ l.agent = "done"]
      BY <2>1 DEF Owner!Erased
    <3>2. /\ e \in MailLog /\ e.wf = "erased" /\ (e.missed <=> l.missed \/ l.agent = "done")
          /\ e.excused = l.excused /\ e.agent = l.agent /\ e.box = l.box
          /\ e.rows = l.rows /\ e.launched = l.launched
      BY <3>1 DEF MailLog
    <3> HIDE DEF e
    <3>3. Counted(e)'
      BY <1>1, <1>2, <2>1, <3>2 DEF Counted, AgentCounts, SharedCounts, Older, MailLog
    <3>4. QED
      BY <3>2, <3>3 DEF e
  <2>2. CASE l.wf \in {"taken", "runs"}
    <3>1. e = [l EXCEPT !.copy = "lost"]
      BY <2>2 DEF Owner!Erased
    <3>2. /\ e \in MailLog /\ e.wf = l.wf /\ e.missed = l.missed
          /\ e.excused = l.excused /\ e.agent = l.agent /\ e.box = l.box
          /\ e.rows = l.rows /\ e.launched = l.launched
      BY <3>1 DEF MailLog
    <3> HIDE DEF e
    <3>3. Counted(e)'
      BY <1>1, <1>2, <2>2, <3>2 DEF Counted, AgentCounts, SharedCounts, Older, MailLog
    <3>4. QED
      BY <3>2, <3>3 DEF e
  <2>3. CASE l.wf \notin {"todo", "taken", "runs"}
    <3>1. e = l
      BY <2>3 DEF Owner!Erased
    <3> HIDE DEF e
    <3>2. Counted(e)'
      BY <1>1, <1>2, <2>3, <3>1 DEF Counted, AgentCounts, SharedCounts, Older
    <3>3. QED
      BY <1>2, <3>1, <3>2 DEF e
  <2>4. QED
    BY <2>1, <2>2, <2>3
<1>3. /\ mail' \in [Mails -> MailLog]
      /\ \A m \in Mails : Counted(mail[m])'
  <2>1. \A m \in Mails : mail[m] \in MailLog /\ Counted(mail[m])
    BY DEF OwnerInv, OwnerTypeOK
  <2>2. mail' = [m \in Mails |-> Owner!Erased(mail[m])]
    BY DEF Owner!Deleted
  <2>3. mail' \in [Mails -> MailLog] /\ \A m \in Mails : mail'[m] = Owner!Erased(mail[m])
    BY <1>2, <2>1, <2>2
  <2>4. ASSUME NEW m \in Mails
        PROVE  Counted(mail[m])'
    <3>1. PICK l \in MailLog : l = mail[m] /\ Counted(l)
      BY <2>1
    <3>2. Counted(Owner!Erased(l))' /\ mail'[m] = Owner!Erased(l)
      BY <1>2, <2>3, <3>1
    <3>3. QED
      BY <3>2
  <2>5. QED
    BY <2>3, <2>4
<1>4. OwnerTypeOK'
  BY <1>1, <1>3 DEF OwnerInv, OwnerTypeOK
<1>5. QED
  BY <1>1, <1>3, <1>4 DEF OwnerInv

\* The row is written in place.
LEMMA RowWritten ==
    ASSUME OwnerInv, row # None, row' \in Line, row'.id = row.id,
           UNCHANGED <<wanted, rows, mail>>, tokens' \in Nat,
           rec' \in [Reconcilers -> Reconciler], ren' \in [Renewers -> Renewer],
           \A p \in Reconcilers : rec'[p].at = "remove" => rec'[p].read # None
    PROVE  OwnerInv'
<1>1. OwnerTypeOK'
  BY DEF OwnerInv, OwnerTypeOK
<1>2. QED
  BY <1>1, OwnerStays

\* What a process has next is typed, and is not a removal.
LEMMA RecTyped ==
    ASSUME OwnerInv, NEW p \in Reconcilers, NEW new \in Reconciler, new.at # "remove",
           rec' = [rec EXCEPT ![p] = new]
    PROVE  /\ rec' \in [Reconcilers -> Reconciler]
           /\ \A q \in Reconcilers : rec'[q].at = "remove" => rec'[q].read # None
  BY DEF OwnerInv, OwnerTypeOK

LEMMA Went ==
    ASSUME OwnerInv, NEW p \in Reconcilers,
           NEW at \in {"idle", "create", "write", "fail"}, Owner!Goes(p, at)
    PROVE  /\ rec' \in [Reconcilers -> Reconciler]
           /\ \A q \in Reconcilers : rec'[q].at = "remove" => rec'[q].read # None
<1> DEFINE new == IF at = "idle" THEN Owner!Resting ELSE [rec[p] EXCEPT !.at = at]
<1>1. new \in Reconciler /\ new.at # "remove"
  BY RestingIsOne DEF Reconciler, OwnerInv, OwnerTypeOK
<1>2. rec' = [rec EXCEPT ![p] = new]
  BY DEF Owner!Goes
<1> HIDE DEF new
<1>3. QED
  BY <1>1, <1>2, RecTyped

LEMMA Dropped ==
    ASSUME OwnerInv, NEW p \in Reconcilers, NEW g \in Nat, Owner!Drops(p, g)
    PROVE  /\ rec' \in [Reconcilers -> Reconciler]
           /\ \A q \in Reconcilers : rec'[q].at = "remove" => rec'[q].read # None
<1> DEFINE new == IF g = 0 THEN Owner!Resting ELSE [rec[p] EXCEPT !.at = "drop", !.drop = g]
<1>1. new \in Reconciler /\ new.at # "remove"
  BY RestingIsOne DEF Reconciler, OwnerInv, OwnerTypeOK
<1>2. rec' = [rec EXCEPT ![p] = new]
  BY DEF Owner!Drops
<1> HIDE DEF new
<1>3. QED
  BY <1>1, <1>2, RecTyped

LEMMA ReconcilesRow ==
    ASSUME OwnerConstants, OwnerInv, NEW p \in Reconcilers,
           Owner!Removes(p) \/ Owner!Writes(p) \/ Owner!WritesFailure(p)
    PROVE  OwnerInv'
<1>1. /\ rec[p] \in Reconciler /\ row \in Line \cup {None} /\ wanted \in BOOLEAN
      /\ rec[p].token \in Nat /\ rows \in Nat /\ tokens \in Nat
      /\ ren \in [Renewers -> Renewer]
      /\ rec[p].at = "remove" => rec[p].read # None
  BY DEF OwnerInv, OwnerTypeOK, Reconciler
<1>2. CASE Owner!Removes(p)
  <2>1. rec[p].read.graph \in Nat
    BY <1>1, <1>2 DEF Owner!Removes, Reconciler, Line
  <2>2. /\ rec' \in [Reconcilers -> Reconciler]
        /\ \A q \in Reconcilers : rec'[q].at = "remove" => rec'[q].read # None
    BY <1>2, <2>1, Dropped DEF Owner!Removes
  <2>3. CASE Owner!Deleted
    BY <1>1, <1>2, <2>2, <2>3, RowGoes DEF Owner!Removes
  <2>4. CASE UNCHANGED <<row, mail>>
    <3>1. OwnerTypeOK'
      BY <1>2, <2>2, <2>4 DEF Owner!Removes, OwnerInv, OwnerTypeOK
    <3>2. QED
      BY <1>2, <2>2, <2>4, <3>1, OwnerStays DEF Owner!Removes
  <2>5. QED
    BY <1>2, <2>3, <2>4 DEF Owner!Removes
<1>3. CASE Owner!Writes(p) /\ Owner!Mine(p)
  <2>1. /\ rec' \in [Reconcilers -> Reconciler]
        /\ \A q \in Reconcilers : rec'[q].at = "remove" => rec'[q].read # None
    BY <1>3, Went DEF Owner!Writes
  <2>2. row # None /\ row' \in Line /\ row'.id = row.id
    BY <1>1, <1>3 DEF Owner!Writes, Owner!Mine, Owner!Updated, Line
  <2>3. QED
    BY <1>1, <1>3, <2>1, <2>2, RowWritten DEF Owner!Writes
<1>4. CASE Owner!Writes(p) /\ ~Owner!Mine(p)
  <2>1. /\ rec' \in [Reconcilers -> Reconciler]
        /\ \A q \in Reconcilers : rec'[q].at = "remove" => rec'[q].read # None
    BY <1>1, <1>4, Dropped DEF Owner!Writes
  <2>2. OwnerTypeOK'
    BY <1>4, <2>1 DEF Owner!Writes, OwnerInv, OwnerTypeOK
  <2>3. QED
    BY <1>4, <2>1, <2>2, OwnerStays DEF Owner!Writes
<1>5. CASE Owner!WritesFailure(p)
  <2>1. /\ rec' \in [Reconcilers -> Reconciler]
        /\ \A q \in Reconcilers : rec'[q].at = "remove" => rec'[q].read # None
    BY <1>5, Went DEF Owner!WritesFailure
  <2>2. CASE Owner!Mine(p)
    <3>1. row # None /\ row' \in Line /\ row'.id = row.id
      BY <1>1, <1>5, <2>2 DEF Owner!WritesFailure, Owner!Mine, Owner!Updated, Line
    <3>2. QED
      BY <1>1, <1>5, <2>1, <3>1, RowWritten DEF Owner!WritesFailure
  <2>3. CASE ~Owner!Mine(p)
    <3>1. OwnerTypeOK'
      BY <1>5, <2>1, <2>3 DEF Owner!WritesFailure, OwnerInv, OwnerTypeOK
    <3>2. QED
      BY <1>5, <2>1, <2>3, <3>1, OwnerStays DEF Owner!WritesFailure
  <2>4. QED
    BY <2>2, <2>3
<1>6. QED
  BY <1>2, <1>3, <1>4, <1>5

LEMMA ClaimsKeeps ==
    ASSUME OwnerConstants, OwnerInv, NEW p \in Reconcilers, Owner!Claims(p)
    PROVE  OwnerInv'
<1>1. /\ rec[p] \in Reconciler /\ row \in Line \cup {None} /\ wanted \in BOOLEAN
      /\ rows \in Nat /\ tokens' \in Nat /\ UNCHANGED <<wanted, mail, ren>>
      /\ ren' \in [Renewers -> Renewer]
  BY DEF OwnerInv, OwnerTypeOK, Owner!Claims
<1>2. CASE /\ row = None /\ rows' = rows + 1
           /\ row' = [id |-> rows', status |-> "pending", token |-> tokens',
                      graph |-> 0, old |-> FALSE, expiry |-> "far"]
           /\ rec' = [rec EXCEPT ![p].at = "create", ![p].token = tokens']
  <2> DEFINE new == [rec[p] EXCEPT !.at = "create", !.token = tokens']
  <2>1. new \in Reconciler /\ new.at # "remove"
    BY <1>1 DEF Reconciler
  <2>2. rec' = [rec EXCEPT ![p] = new]
    BY <1>2
  <2> HIDE DEF new
  <2>3. /\ rec' \in [Reconcilers -> Reconciler]
        /\ \A q \in Reconcilers : rec'[q].at = "remove" => rec'[q].read # None
    BY <2>1, <2>2, RecTyped
  <2>4. row' \in Line /\ row'.id = rows + 1 /\ rows' \in Nat
    BY <1>1, <1>2 DEF Line
  <2>5. OwnerTypeOK'
    BY <1>1, <2>3, <2>4 DEF OwnerInv, OwnerTypeOK
  <2>6. ASSUME NEW m \in Mails
        PROVE  Counted(mail[m])'
    <3>1. Counted(mail[m]) /\ mail[m] \in MailLog /\ mail[m].rows \in Nat
      BY DEF OwnerInv, OwnerTypeOK, MailLog
    <3>2. mail[m].rows <= rows' /\ mail[m].rows < row'.id
      BY <1>1, <1>2, <2>4, <3>1 DEF Counted
    <3>3. QED
      BY <1>1, <1>2, <3>1, <3>2 DEF Counted, AgentCounts, SharedCounts, Older
  <2>7. QED
    BY <1>2, <2>3, <2>4, <2>5, <2>6 DEF OwnerInv
<1>3. CASE /\ rec[p].read # None /\ Owner!Claimable(rec[p].read) /\ rows' = rows
           /\ row' = Owner!Updated([row EXCEPT !.status = "pending", !.token = tokens'])
           /\ rec' = [rec EXCEPT ![p].token = tokens', ![p].drop = rec[p].read.graph,
                                 ![p].at = IF rec[p].read.graph = 0 THEN "create" ELSE "replace"]
  <2> DEFINE new == [rec[p] EXCEPT !.token = tokens', !.drop = rec[p].read.graph,
                                   !.at = IF rec[p].read.graph = 0 THEN "create" ELSE "replace"]
  <2>1. rec[p].read.graph \in Nat
    BY <1>1, <1>3 DEF Reconciler, Line
  <2>2. new \in Reconciler /\ new.at # "remove"
    BY <1>1, <2>1 DEF Reconciler
  <2>3. rec' = [rec EXCEPT ![p] = new]
    BY <1>3
  <2> HIDE DEF new
  <2>4. /\ rec' \in [Reconcilers -> Reconciler]
        /\ \A q \in Reconcilers : rec'[q].at = "remove" => rec'[q].read # None
    BY <2>2, <2>3, RecTyped
  <2>5. row # None /\ row' \in Line /\ row'.id = row.id
    BY <1>1, <1>3 DEF Owner!Claimable, Owner!Updated, Line
  <2>6. QED
    BY <1>1, <1>3, <2>4, <2>5, RowWritten
<1>4. QED
  BY <1>2, <1>3 DEF Owner!Claims

LEMMA RenewsKeeps ==
    ASSUME OwnerConstants, OwnerInv, NEW n \in Renewers, Owner!Renew(n)
    PROVE  OwnerInv'
<1>1. /\ ren[n] \in Renewer /\ row \in Line \cup {None}
      /\ rows \in Nat /\ tokens \in Nat /\ wanted \in BOOLEAN
      /\ rec \in [Reconcilers -> Reconciler] /\ ren \in [Renewers -> Renewer]
      /\ \A p \in Reconcilers : rec[p].at = "remove" => rec[p].read # None
  BY DEF OwnerInv, OwnerTypeOK
<1>2. CASE Owner!PicksDue(n)
  <2> DEFINE new == [at |-> "due", id |-> row.id, graph |-> row.graph]
  <2>1. new \in Renewer
    BY <1>1, <1>2 DEF Owner!PicksDue, Owner!Active, Line, Renewer
  <2>2. ren' = [ren EXCEPT ![n] = new]
    BY <1>2 DEF Owner!PicksDue
  <2> HIDE DEF new
  <2>3. ren' \in [Renewers -> Renewer] /\ UNCHANGED <<wanted, row, rows, tokens, rec, mail>>
    BY <1>1, <1>2, <2>1, <2>2 DEF Owner!PicksDue, Owner!sub
  <2>4. OwnerTypeOK'
    BY <2>3 DEF OwnerInv, OwnerTypeOK
  <2>5. QED
    BY <1>1, <2>3, <2>4, OwnerStays
<1>3. CASE Owner!AsksGraph(n)
  <2>1. PICK at \in {"renewed", "gone", "failed"} : ren' = [ren EXCEPT ![n].at = at]
    BY <1>3 DEF Owner!AsksGraph
  <2> DEFINE new == [ren[n] EXCEPT !.at = at]
  <2>2. new \in Renewer
    BY <1>1 DEF Renewer
  <2>3. ren' = [ren EXCEPT ![n] = new]
    BY <2>1
  <2> HIDE DEF new
  <2>4. ren' \in [Renewers -> Renewer] /\ UNCHANGED <<wanted, row, rows, tokens, rec, mail>>
    BY <1>1, <1>3, <2>2, <2>3 DEF Owner!AsksGraph, Owner!sub
  <2>5. OwnerTypeOK'
    BY <2>4 DEF OwnerInv, OwnerTypeOK
  <2>6. QED
    BY <1>1, <2>4, <2>5, OwnerStays
<1>4. CASE Owner!Records(n)
  <2>1. ren' \in [Renewers -> Renewer]
    <3>1. Owner!Asleep \in Renewer
      BY DEF Owner!Asleep, Renewer
    <3>2. QED
      BY <1>1, <1>4, <3>1 DEF Owner!Records
  <2>2. UNCHANGED <<wanted, rows, tokens, rec>>
    BY <1>4 DEF Owner!Records
  <2>3. CASE UNCHANGED <<row, mail>>
    <3>1. OwnerTypeOK'
      BY <2>1, <2>2, <2>3 DEF OwnerInv, OwnerTypeOK
    <3>2. QED
      BY <1>1, <2>2, <2>3, <3>1, OwnerStays
  <2>4. CASE Owner!Deleted
    BY <1>1, <2>1, <2>2, <2>4, RowGoes
  <2>5. CASE /\ Owner!Same(n) /\ UNCHANGED mail
             /\ \/ row' = Owner!Updated([row EXCEPT !.status = "active", !.expiry = "far"])
                \/ row' = Owner!Updated([row EXCEPT !.status = "expired"])
    <3>1. row # None /\ row' \in Line /\ row'.id = row.id
      BY <1>1, <2>5 DEF Owner!Same, Owner!Updated, Line
    <3>2. QED
      BY <1>1, <2>1, <2>2, <2>5, <3>1, RowWritten
  <2>6. QED
    BY <1>4, <2>3, <2>4, <2>5 DEF Owner!Records
<1>5. CASE Owner!MarksPastDue(n)
  <2>1. row # None /\ row' \in Line /\ row'.id = row.id
    BY <1>1, <1>5 DEF Owner!MarksPastDue, Owner!Active, Owner!Updated, Line
  <2>2. QED
    BY <1>1, <1>5, <2>1, RowWritten DEF Owner!MarksPastDue
<1>6. QED
  BY <1>2, <1>3, <1>4, <1>5 DEF Owner!Renew

LEMMA WorldKeeps ==
    ASSUME OwnerConstants, OwnerInv,
           Owner!Time \/ Owner!Toggle \/ \E t \in Owner!Tokens : Owner!GraphDrops(t)
    PROVE  OwnerInv'
<1>1. /\ row \in Line \cup {None}
      /\ rows \in Nat /\ tokens \in Nat /\ wanted \in BOOLEAN
      /\ rec \in [Reconcilers -> Reconciler] /\ ren \in [Renewers -> Renewer]
      /\ \A p \in Reconcilers : rec[p].at = "remove" => rec[p].read # None
  BY DEF OwnerInv, OwnerTypeOK
<1>2. CASE Owner!Time
  <2>1. row # None /\ UNCHANGED <<wanted, rows, tokens, rec, ren, mail>>
    BY <1>2 DEF Owner!Time, Owner!Ages, Owner!NearsExpiry, Owner!Expires
  <2>2. row' \in Line /\ row'.id = row.id
    BY <1>1, <1>2, <2>1 DEF Owner!Time, Owner!Ages, Owner!NearsExpiry, Owner!Expires, Line
  <2>3. QED
    BY <1>1, <2>1, <2>2, RowWritten
<1>3. CASE Owner!Toggle \/ \E t \in Owner!Tokens : Owner!GraphDrops(t)
  <2>1. UNCHANGED <<row, rows, tokens, rec, ren, mail>> /\ wanted' \in BOOLEAN
    BY <1>1, <1>3 DEF Owner!Toggle, Owner!GraphDrops
  <2>2. OwnerTypeOK'
    BY <2>1 DEF OwnerInv, OwnerTypeOK
  <2>3. QED
    BY <1>1, <2>1, <2>2, OwnerStays
<1>4. QED
  BY <1>2, <1>3

\* One mail moves on, and is counted.
LEMMA MailMoves ==
    ASSUME OwnerInv, NEW m \in Mails, NEW new \in MailLog,
           mail' = [mail EXCEPT ![m] = new], Counted(new),
           UNCHANGED <<wanted, row, rows, tokens, rec, ren>>
    PROVE  OwnerInv'
<1>1. /\ mail' \in [Mails -> MailLog] /\ mail'[m] = new
      /\ \A l \in Mails \ {m} : mail'[l] = mail[l]
  BY DEF OwnerInv, OwnerTypeOK
<1>2. OwnerTypeOK'
  BY <1>1 DEF OwnerInv, OwnerTypeOK
<1>3. ASSUME NEW l \in Mails
      PROVE  Counted(mail[l])'
  <2>1. Counted(mail'[l])
    BY <1>1 DEF OwnerInv
  <2>2. QED
    BY <2>1 DEF Counted, AgentCounts, SharedCounts, Older
<1>4. QED
  BY <1>2, <1>3 DEF OwnerInv

\* What is known of a mail and of the row.
LEMMA MailTyped ==
    ASSUME OwnerInv, NEW m \in Mails
    PROVE  /\ mail[m] \in MailLog /\ Counted(mail[m])
           /\ mail[m].launched \in Nat /\ mail[m].rows \in Nat /\ rows \in Nat
           /\ row \in Line \cup {None} /\ (row # None => row.id <= rows)
  BY DEF OwnerInv, OwnerTypeOK, MailLog

LEMMA ComesKeeps ==
    ASSUME OwnerConstants, OwnerInv, NEW m \in Mails, Owner!Comes(m) \/ Owner!Leaves(m)
    PROVE  OwnerInv'
<1>1. /\ mail[m] \in MailLog /\ Counted(mail[m])
      /\ row \in Line \cup {None}
      /\ UNCHANGED <<wanted, row, rows, tokens, rec, ren>>
  BY MailTyped DEF Owner!Comes, Owner!Leaves, Owner!sub
<1>2. CASE Owner!Comes(m)
  <2> DEFINE has == row # None /\ row.token \in graph
             told == IF has THEN row.token ELSE 0
             wf == IF has THEN "told" ELSE "none"
             new == [mail[m] EXCEPT !.box = "in", !.wf = wf, !.told = told]
  <2>1. mail' = [mail EXCEPT ![m] = new]
    BY <1>2 DEF Owner!Comes
  <2>2. told \in Nat /\ wf \in {"told", "none"}
    BY <1>1 DEF Line
  <2> HIDE DEF told, wf, has
  <2>3. /\ new \in MailLog /\ new.box = "in" /\ new.wf = wf /\ new.agent = mail[m].agent
        /\ new.rows = mail[m].rows /\ new.launched = mail[m].launched
        /\ new.missed = mail[m].missed /\ new.excused = mail[m].excused
    BY <1>1, <2>2 DEF MailLog
  <2> HIDE DEF new
  <2>4. mail[m].box = "none"
    BY <1>2 DEF Owner!Comes
  <2>5. Counted(new)
    BY <1>1, <2>2, <2>3, <2>4 DEF Counted, AgentCounts, SharedCounts, Older
  <2>6. QED
    BY <1>1, <2>1, <2>3, <2>5, MailMoves
<1>3. CASE Owner!Leaves(m)
  <2> DEFINE new == [mail[m] EXCEPT !.box = "gone"]
  <2>1. mail' = [mail EXCEPT ![m] = new]
    BY <1>3 DEF Owner!Leaves
  <2>2. /\ new \in MailLog /\ new.box = "gone" /\ new.wf = mail[m].wf
        /\ new.agent = mail[m].agent /\ new.rows = mail[m].rows
        /\ new.launched = mail[m].launched
        /\ new.missed = mail[m].missed /\ new.excused = mail[m].excused
    BY <1>1 DEF MailLog
  <2> HIDE DEF new
  <2>3. Counted(new)
    BY <1>1, <2>2 DEF Counted, AgentCounts, SharedCounts, Older
  <2>4. QED
    BY <1>1, <2>1, <2>2, <2>3, MailMoves
<1>4. QED
  BY <1>2, <1>3

LEMMA DeliveredKeeps ==
    ASSUME OwnerConstants, OwnerInv, NEW m \in Mails,
           Owner!AgentDelivered(m) \/ Owner!WorkflowDelivered(m)
    PROVE  OwnerInv'
<1>1. /\ mail[m] \in MailLog /\ Counted(mail[m])
      /\ mail[m].launched \in Nat /\ mail[m].rows \in Nat /\ rows \in Nat
      /\ row \in Line \cup {None} /\ (row # None => row.id <= rows)
      /\ UNCHANGED <<wanted, row, rows, tokens, rec, ren>>
  BY MailTyped DEF Owner!AgentDelivered, Owner!WorkflowDelivered, Owner!sub
<1>2. CASE Owner!AgentDelivered(m)
  <2> DEFINE e == mail[m].excused \/ (row # None /\ ~Owner!Theirs(m))
             new == [mail[m] EXCEPT !.agent = "todo", !.rows = rows, !.excused = e]
  <2>1. mail' = [mail EXCEPT ![m] = new]
    BY <1>2 DEF Owner!AgentDelivered
  <2>2. /\ e \in BOOLEAN
        /\ e \/ (~mail[m].excused /\ (row = None \/ Owner!Theirs(m)))
    BY <1>1 DEF MailLog
  <2> HIDE DEF e
  <2>3. /\ new \in MailLog /\ new.box = mail[m].box /\ new.wf = mail[m].wf
        /\ new.agent = "todo" /\ new.rows = rows /\ new.launched = mail[m].launched
        /\ new.missed = mail[m].missed /\ new.excused = e
    BY <1>1, <2>2 DEF MailLog
  <2> HIDE DEF new
  <2>4. mail[m].box # "none" /\ mail[m].agent = "none"
    BY <1>2 DEF Owner!AgentDelivered
  <2>5. Counted(new)
    BY <1>1, <2>2, <2>3, <2>4 DEF Counted, AgentCounts, SharedCounts, Older, Owner!Theirs
  <2>6. QED
    BY <1>1, <2>1, <2>3, <2>5, MailMoves
<1>3. CASE Owner!WorkflowDelivered(m)
  <2> DEFINE hears == Owner!Hears(mail[m].told)
             wf == IF hears THEN "todo" ELSE "refused"
             e == mail[m].excused \/ IF hears THEN mail[m].launched > 0 ELSE Owner!LeftToRow(m)
             new == [mail[m] EXCEPT !.wf = wf, !.excused = e]
  <2>1. mail' = [mail EXCEPT ![m] = new] /\ mail[m].wf = "told"
    BY <1>3 DEF Owner!WorkflowDelivered
  <2>2. /\ e \in BOOLEAN
        /\ e \/ (/\ ~mail[m].excused
                 /\ wf = "todo" => mail[m].launched = 0
                 /\ wf = "refused" => ~Owner!LeftToRow(m))
    BY <1>1 DEF MailLog, Owner!LeftToRow
  <2>3. wf \in {"todo", "refused"}
    OBVIOUS
  <2> HIDE DEF e, wf, hears
  <2>4. /\ new \in MailLog /\ new.box = mail[m].box /\ new.wf = wf
        /\ new.agent = mail[m].agent /\ new.rows = mail[m].rows
        /\ new.launched = mail[m].launched
        /\ new.missed = mail[m].missed /\ new.excused = e
    BY <1>1, <2>2, <2>3 DEF MailLog
  <2> HIDE DEF new
  <2>5. row # None => row.id \in Nat
    BY <1>1 DEF Line
  <2>6. Counted(new)
    BY <1>1, <2>1, <2>2, <2>3, <2>4, <2>5
       DEF Counted, AgentCounts, SharedCounts, Older, Owner!LeftToRow
  <2>7. QED
    BY <1>1, <2>1, <2>4, <2>6, MailMoves
<1>4. QED
  BY <1>2, <1>3

LEMMA AgentKeeps ==
    ASSUME OwnerConstants, OwnerInv, NEW m \in Mails,
           Owner!AgentLeaves(m) \/ Owner!AgentLaunches(m) \/ Owner!AgentMisses(m)
    PROVE  OwnerInv'
<1>1. /\ mail[m] \in MailLog /\ Counted(mail[m]) /\ mail[m].agent = "todo"
      /\ mail[m].launched \in Nat /\ mail[m].rows \in Nat
      /\ row \in Line \cup {None}
      /\ UNCHANGED <<wanted, row, rows, tokens, rec, ren>>
  BY MailTyped DEF Owner!AgentLeaves, Owner!AgentLaunches, Owner!AgentMisses, Owner!sub
<1>2. CASE Owner!AgentLeaves(m)
  <2> DEFINE new == [mail[m] EXCEPT !.agent = "done"]
  <2>1. mail' = [mail EXCEPT ![m] = new] /\ Owner!Covers(m)
    BY <1>2 DEF Owner!AgentLeaves
  <2>2. /\ new \in MailLog /\ new.box = mail[m].box /\ new.wf = mail[m].wf
        /\ new.agent = "done" /\ new.rows = mail[m].rows
        /\ new.launched = mail[m].launched
        /\ new.missed = mail[m].missed /\ new.excused = mail[m].excused
    BY <1>1 DEF MailLog
  <2> HIDE DEF new
  <2>3. ~Older(mail[m])
    BY <1>1, <2>1 DEF Older, Owner!Covers, Owner!Active, Line
  <2>4. Counted(new)
    BY <1>1, <2>2, <2>3 DEF Counted, AgentCounts, SharedCounts
  <2>5. QED
    BY <1>1, <2>1, <2>2, <2>4, MailMoves
<1>3. CASE Owner!AgentLaunches(m)
  <2>1. PICK again \in BOOLEAN :
            mail' = [mail EXCEPT
              ![m].agent = IF again THEN "todo" ELSE "done",
              ![m].launched = @ + 1,
              ![m].excused = @ \/ again \/ mail[m].wf \in {"todo", "taken", "runs", "done"}]
    BY <1>3 DEF Owner!AgentLaunches
  <2> DEFINE e == mail[m].excused \/ again \/ mail[m].wf \in {"todo", "taken", "runs", "done"}
             n == mail[m].launched + 1
             agent == IF again THEN "todo" ELSE "done"
             new == [mail[m] EXCEPT !.agent = agent, !.launched = n, !.excused = e]
  <2>2. mail' = [mail EXCEPT ![m] = new]
    BY <2>1
  <2>3. /\ e \in BOOLEAN /\ agent \in {"todo", "done"}
        /\ e \/ (/\ ~mail[m].excused /\ agent = "done"
                 /\ mail[m].wf \notin {"todo", "taken", "runs", "done"})
        /\ n \in Nat /\ n = mail[m].launched + 1
    BY <1>1 DEF MailLog
  <2> HIDE DEF e, n, agent
  <2>4. /\ new \in MailLog /\ new.box = mail[m].box /\ new.wf = mail[m].wf
        /\ new.agent = agent /\ new.rows = mail[m].rows /\ new.launched = n
        /\ new.missed = mail[m].missed /\ new.excused = e
    BY <1>1, <2>3 DEF MailLog
  <2> HIDE DEF new
  <2>5. Counted(new)
    BY <1>1, <2>3, <2>4 DEF Counted, AgentCounts, SharedCounts
  <2>6. QED
    BY <1>1, <2>2, <2>4, <2>5, MailMoves
<1>4. CASE Owner!AgentMisses(m)
  <2> DEFINE missed == mail[m].missed \/ ~Owner!Theirs(m)
             new == [mail[m] EXCEPT !.agent = "done", !.missed = missed]
  <2>1. mail' = [mail EXCEPT ![m] = new]
    BY <1>4 DEF Owner!AgentMisses
  <2>2. missed \in BOOLEAN /\ (missed \/ (~mail[m].missed /\ Owner!Theirs(m)))
    BY <1>1 DEF MailLog
  <2> HIDE DEF missed
  <2>3. /\ new \in MailLog /\ new.box = mail[m].box /\ new.wf = mail[m].wf
        /\ new.agent = "done" /\ new.rows = mail[m].rows
        /\ new.launched = mail[m].launched
        /\ new.missed = missed /\ new.excused = mail[m].excused
    BY <1>1, <2>2 DEF MailLog
  <2> HIDE DEF new
  <2>4. Counted(new)
    BY <1>1, <2>2, <2>3 DEF Counted, AgentCounts, SharedCounts, Owner!Theirs
  <2>5. QED
    BY <1>1, <2>1, <2>3, <2>4, MailMoves
<1>5. QED
  BY <1>2, <1>3, <1>4

LEMMA WorkflowKeeps ==
    ASSUME OwnerInv, NEW m \in Mails,
           \/ Owner!WorkflowTakes(m) \/ Owner!WorkflowReads(m) \/ Owner!WorkflowMisses(m)
           \/ Owner!WorkflowLaunches(m) \/ Owner!WorkflowFails(m)
    PROVE  OwnerInv'
<1>1. /\ mail[m] \in MailLog /\ Counted(mail[m]) /\ mail[m].wf \in {"todo", "taken", "runs"}
      /\ mail[m].launched \in Nat
      /\ UNCHANGED <<wanted, row, rows, tokens, rec, ren>>
  BY MailTyped
     DEF Owner!WorkflowTakes, Owner!WorkflowReads, Owner!WorkflowMisses,
         Owner!WorkflowLaunches, Owner!WorkflowFails, Owner!sub
\* The log of the workflows moves on: one that ends has launched, or is missed.
<1>2. ASSUME NEW new \in MailLog, mail' = [mail EXCEPT ![m] = new],
             new.agent = mail[m].agent, new.rows = mail[m].rows, new.box = mail[m].box,
             new.wf \in {"todo", "taken", "runs", "done", "erased"},
             mail[m].missed => new.missed, mail[m].excused => new.excused,
             new.wf = "erased" => new.missed,
             \/ new.missed \/ new.excused
             \/ new.wf = "done" /\ new.launched = mail[m].launched + 1
             \/ new.wf # "done" /\ new.launched = mail[m].launched
      PROVE  OwnerInv'
  <2>1. Counted(new)
    BY <1>1, <1>2 DEF Counted, AgentCounts, SharedCounts
  <2>2. QED
    BY <1>1, <1>2, <2>1, MailMoves
<1>3. CASE Owner!WorkflowTakes(m)
  <2> DEFINE new == [mail[m] EXCEPT !.wf = "taken"]
  <2>1. mail' = [mail EXCEPT ![m] = new]
    BY <1>3 DEF Owner!WorkflowTakes
  <2>2. /\ new \in MailLog /\ new.agent = mail[m].agent /\ new.rows = mail[m].rows
        /\ new.box = mail[m].box /\ new.wf = "taken" /\ new.missed = mail[m].missed
        /\ new.excused = mail[m].excused /\ new.launched = mail[m].launched
    BY <1>1 DEF MailLog
  <2> HIDE DEF new
  <2>3. QED
    BY <1>2, <2>1, <2>2
<1>4. CASE Owner!WorkflowReads(m)
  <2> DEFINE copy == IF mail[m].copy = "none" THEN "kept" ELSE mail[m].copy
             new == [mail[m] EXCEPT !.wf = "runs", !.copy = copy]
  <2>1. mail' = [mail EXCEPT ![m] = new]
    BY <1>4 DEF Owner!WorkflowReads
  <2>2. copy \in {"none", "kept", "lost"}
    BY <1>1 DEF MailLog
  <2> HIDE DEF copy
  <2>3. /\ new \in MailLog /\ new.agent = mail[m].agent /\ new.rows = mail[m].rows
        /\ new.box = mail[m].box /\ new.wf = "runs" /\ new.missed = mail[m].missed
        /\ new.excused = mail[m].excused /\ new.launched = mail[m].launched
    BY <1>1, <2>2 DEF MailLog
  <2> HIDE DEF new
  <2>4. QED
    BY <1>2, <2>1, <2>3
<1>5. CASE Owner!WorkflowMisses(m)
  <2> DEFINE new == [mail[m] EXCEPT !.wf = "done", !.missed = TRUE]
  <2>1. mail' = [mail EXCEPT ![m] = new]
    BY <1>5 DEF Owner!WorkflowMisses
  <2>2. /\ new \in MailLog /\ new.agent = mail[m].agent /\ new.rows = mail[m].rows
        /\ new.box = mail[m].box /\ new.wf = "done" /\ new.missed
        /\ new.excused = mail[m].excused
    BY <1>1 DEF MailLog
  <2> HIDE DEF new
  <2>3. QED
    BY <1>2, <2>1, <2>2
<1>6. CASE Owner!WorkflowLaunches(m)
  <2> DEFINE n == mail[m].launched + 1
             new == [mail[m] EXCEPT !.wf = "done", !.launched = n]
  <2>1. mail' = [mail EXCEPT ![m] = new]
    BY <1>6 DEF Owner!WorkflowLaunches
  <2>2. n \in Nat /\ n = mail[m].launched + 1
    BY <1>1
  <2> HIDE DEF n
  <2>3. /\ new \in MailLog /\ new.agent = mail[m].agent /\ new.rows = mail[m].rows
        /\ new.box = mail[m].box /\ new.wf = "done" /\ new.missed = mail[m].missed
        /\ new.excused = mail[m].excused /\ new.launched = n
    BY <1>1, <2>2 DEF MailLog
  <2> HIDE DEF new
  <2>4. QED
    BY <1>2, <2>1, <2>2, <2>3
<1>7. CASE Owner!WorkflowFails(m)
  <2> DEFINE wf == IF mail[m].copy = "lost" THEN "erased" ELSE "todo"
             missed == mail[m].missed \/ mail[m].copy = "lost"
  <2>1. PICK some \in BOOLEAN :
            mail' = [mail EXCEPT ![m].wf = wf,
                         ![m].launched = IF some THEN @ + 1 ELSE @,
                         ![m].excused = @ \/ some, ![m].missed = missed]
    BY <1>7 DEF Owner!WorkflowFails
  <2> DEFINE n == IF some THEN mail[m].launched + 1 ELSE mail[m].launched
             e == mail[m].excused \/ some
             new == [mail[m] EXCEPT !.wf = wf, !.launched = n, !.excused = e,
                                    !.missed = missed]
  <2>2. mail' = [mail EXCEPT ![m] = new]
    BY <2>1
  <2>3. /\ wf \in {"todo", "erased"} /\ (wf = "erased" => missed)
        /\ missed \in BOOLEAN /\ (mail[m].missed => missed)
    BY <1>1 DEF MailLog
  <2>4. /\ e \in BOOLEAN /\ (mail[m].excused => e)
        /\ n \in Nat /\ (e \/ n = mail[m].launched)
    BY <1>1, <2>1 DEF MailLog
  <2> HIDE DEF n, e, wf, missed
  <2>5. /\ new \in MailLog /\ new.agent = mail[m].agent /\ new.rows = mail[m].rows
        /\ new.box = mail[m].box /\ new.wf = wf /\ new.missed = missed
        /\ new.excused = e /\ new.launched = n
    BY <1>1, <2>3, <2>4 DEF MailLog
  <2> HIDE DEF new
  <2>6. new.wf \in {"todo", "erased"} /\ new.wf # "done"
    BY <2>3, <2>5
  <2>7. QED
    BY <1>2, <2>2, <2>3, <2>4, <2>5, <2>6
<1>8. QED
  BY <1>3, <1>4, <1>5, <1>6, <1>7

LEMMA OwnerSteps ==
    ASSUME OwnerConstants, OwnerInv, [Owner!Next]_Owner!vars
    PROVE  OwnerInv'
<1>1. CASE UNCHANGED Owner!vars
  <2>1. UNCHANGED <<wanted, row, rows, tokens, rec, ren, mail>>
    BY <1>1 DEF Owner!vars, Owner!sub
  <2>2. OwnerTypeOK'
    BY <2>1 DEF OwnerInv, OwnerTypeOK
  <2>3. QED
    BY <2>1, <2>2, OwnerStays DEF OwnerInv
<1>2. CASE Owner!Next
  <2>1. ASSUME NEW p \in Reconcilers, Owner!Reconcile(p) \/ Owner!Dies(p)
        PROVE  OwnerInv'
    BY <2>1, ReconcilesAlone, ReconcilesRow, ClaimsKeeps DEF Owner!Reconcile
  <2>2. ASSUME NEW m \in Mails,
               Owner!Comes(m) \/ Owner!Leaves(m) \/ Owner!Delivered(m) \/ Owner!Handles(m)
        PROVE  OwnerInv'
    BY <2>2, ComesKeeps, DeliveredKeeps, AgentKeeps, WorkflowKeeps
       DEF Owner!Handles, Owner!Delivered
  <2>3. QED
    BY <1>2, <2>1, <2>2, RenewsKeeps, WorldKeeps DEF Owner!Next
<1>3. QED
  BY <1>1, <1>2

\* MailSubscription keeps its rows, its reservations and the count of what each path
\* launched for a mail (OwnerInv), whatever processes renew the subscription.
THEOREM OwnerInvariance ==
    ASSUME OwnerConstants
    PROVE  Owner!Spec => []OwnerInv
<1>1. OwnerInv /\ [Owner!Next]_Owner!vars => OwnerInv'
  BY OwnerSteps
<1>2. QED
  BY <1>1, OwnerStarts, PTL DEF Owner!Spec

LEMMA CountedIsOnce ==
    ASSUME OwnerInv
    PROVE  MailLaunchesOnce
<1>1. ASSUME NEW m \in Mails, Owner!Settled(m), ~mail[m].missed, ~mail[m].excused
      PROVE  mail[m].launched = 1
  <2>1. Counted(mail[m])
    BY DEF OwnerInv
  <2>2. QED
    BY <1>1, <2>1 DEF Owner!Settled, Counted, AgentCounts, SharedCounts
<1>2. QED
  BY <1>1 DEF MailLaunchesOnce, Owner!OneLaunchPerMail

\* A mail launches the workflows of its owner once, by the log of the agent or by that of
\* the workflows (_process_workflow_mail, has_active_workflow_subscription), in whatever order
\* they are inserted and handled, but for the mails that are missed or excused.
THEOREM LaunchedOnce ==
    ASSUME OwnerConstants
    PROVE  Owner!Spec => []MailLaunchesOnce
  BY OwnerInvariance, CountedIsOnce, PTL

-----------------------------------------------------------------------------
(* WebhookBacklog.                                                          *)

\* A mail that is split is a mail; its children are not.
BacklogConstants == Split \subseteq Letters /\ Letters \cap Children = {}

Mark == [status : {"absent", "pending", "retrying", "in_progress", "success", "error"},
         attempts : Nat, ready : BOOLEAN, old : BOOLEAN, force : BOOLEAN,
         copy : {"none", "whole", "bare"}, missed : SUBSET PDFs]

HeldAt == {"reads", "split", "runs", "done", "failed"}

Hand == [at : {"idle", "looks", "claims"} \cup HeldAt, id : Rows \cup {0}, attempts : Nat,
         force : BOOLEAN, todo : SUBSET PDFs, cool : BOOLEAN]

BacklogTypeOK ==
    /\ logs \in [Rows -> Mark]
    /\ queue \in Seq(Rows)
    /\ subscribed \in BOOLEAN
    /\ worker \in [Workers -> Hand]
    /\ asked \in [Rows -> BOOLEAN]

\* What a worker holds was delivered; only a worker that rests is held back.
Handed(w) ==
    /\ worker[w].cool => worker[w].at = "idle"
    /\ worker[w].at = "claims" => worker[w].id \in Rows
    /\ worker[w].at \in HeldAt => worker[w].id \in Rows /\ (subscribed => Exists(worker[w].id))
    /\ worker[w].at = "split" => worker[w].id \in Split

\* While the subscription is there, so is every row that was delivered, held or
\* retriggered; once it is gone, none is.
Stored ==
    /\ \A r \in Rows : Exists(r) => subscribed /\ r \in Range(queue)
    /\ \A r \in Rows : subscribed /\ asked[r] => Exists(r)
    /\ \A w \in Workers : Handed(w)

Holds(w, r) == worker[w].at \in HeldAt /\ worker[w].id = r

At(w, at, r) == worker[w].at = at /\ worker[w].id = r

\* Each PDF of the mail has its row, or is known to be missing.
Complete(m) == \A k \in PDFs \ logs[m].missed : Exists(<<m, k>>)

\* One worker holds the row, and the row says so.
Alone(r) ==
    /\ \A w, x \in Workers : Holds(w, r) /\ Holds(x, r) => w = x
    /\ \A w \in Workers : Holds(w, r) => logs[r].status = "in_progress" /\ ~logs[r].old

\* The request of an operator is on the row until it is processed as one.
Pending(r) ==
    /\ asked[r] => logs[r].status # "success" /\ (logs[r].force \/ logs[r].status = "error")
    /\ \A w \in Workers : At(w, "runs", r) => worker[w].force = logs[r].force
    /\ \A w \in Workers : At(w, "done", r) => ~asked[r]

\* What a split has gone through is complete.
Splitting(m) ==
    /\ logs[m].status = "success" /\ logs[m].copy = "whole" => Complete(m)
    /\ \A w \in Workers : At(w, "split", m) =>
          \A k \in PDFs \ logs[m].missed : k \notin worker[w].todo => Exists(<<m, k>>)
    /\ \A w \in Workers : At(w, "runs", m) \/ At(w, "done", m) =>
          Complete(m) \/ logs[m].copy # "whole"

RowOK(r) ==
    Exists(r) => IF r \in Split THEN (Alone(r) \/ Complete(r)) /\ Splitting(r)
                                ELSE Alone(r) /\ Pending(r)

BacklogInv == BacklogTypeOK /\ Stored /\ \A r \in Rows : RowOK(r)

LEMMA RowTypes ==
    ASSUME BacklogConstants
    PROVE  /\ Split \subseteq Rows
           /\ \A m \in Split, k \in PDFs :
                 <<m, k>> \in Rows /\ <<m, k>> \notin Split /\ <<m, k>> \notin Letters
  BY DEF BacklogConstants, Rows, Children

\* Nothing of the row changes, and it is held by no one who did not hold it.
LEMMA RowStays ==
    ASSUME BacklogConstants, NEW r \in Rows, RowOK(r),
           logs'[r] = logs[r], asked'[r] = asked[r],
           \A m \in Split, k \in PDFs : Exists(<<m, k>>) => Exists(<<m, k>>)',
           \A x \in Workers : worker'[x] = worker[x] \/ ~Holds(x, r)'
    PROVE  RowOK(r)'
<1>1. SUFFICES ASSUME Exists(r)'
               PROVE  IF r \in Split THEN (Alone(r) \/ Complete(r))' /\ Splitting(r)'
                                     ELSE Alone(r)' /\ Pending(r)'
  BY DEF RowOK
<1>2. Exists(r)
  BY <1>1 DEF Exists
<1>3. \A x \in Workers : Holds(x, r)' => Holds(x, r) /\ worker'[x] = worker[x]
  BY DEF Holds
<1>4. Alone(r) => Alone(r)'
  BY <1>3 DEF Alone
<1>5. \A x \in Workers : At(x, "runs", r)' \/ At(x, "done", r)' \/ At(x, "split", r)' =>
          Holds(x, r)'
  BY DEF At, Holds, HeldAt
<1>6. CASE r \in Split
  <2>1. (Alone(r) \/ Complete(r)) /\ Splitting(r)
    BY <1>2, <1>6 DEF RowOK
  <2>2. Complete(r) => Complete(r)'
    BY <1>6 DEF Complete
  <2>3. Splitting(r)'
    <3>1. logs'[r].status = "success" /\ logs'[r].copy = "whole" => Complete(r)'
      BY <2>1, <2>2 DEF Splitting
    <3>2. ASSUME NEW x \in Workers, At(x, "split", r)', NEW k \in PDFs \ logs'[r].missed,
                 k \notin worker'[x].todo
          PROVE  Exists(<<r, k>>)'
      <4>1. At(x, "split", r) /\ worker'[x] = worker[x]
        BY <1>3, <1>5, <3>2 DEF At
      <4>2. Exists(<<r, k>>)
        BY <2>1, <3>2, <4>1 DEF Splitting
      <4>3. QED
        BY <1>6, <4>2
    <3>3. ASSUME NEW x \in Workers, At(x, "runs", r)' \/ At(x, "done", r)'
          PROVE  Complete(r)' \/ logs'[r].copy # "whole"
      BY <1>3, <1>5, <2>1, <2>2, <3>3 DEF Splitting, At
    <3>4. QED
      BY <3>1, <3>2, <3>3 DEF Splitting
  <2>4. QED
    BY <1>4, <1>6, <2>1, <2>2, <2>3
<1>7. CASE r \notin Split
  <2>1. Alone(r) /\ Pending(r)
    BY <1>2, <1>7 DEF RowOK
  <2>2. Pending(r)'
    BY <1>3, <1>5, <2>1 DEF Pending, At
  <2>3. QED
    BY <1>4, <1>7, <2>1, <2>2
<1>8. QED
  BY <1>6, <1>7

LEMMA CompleteIsOK ==
    ASSUME NEW r \in Split, Complete(r)'
    PROVE  RowOK(r)'
  BY DEF RowOK, Splitting, Complete

LEMMA StillComplete ==
    ASSUME NEW r \in Split, Complete(r), logs[r].missed \subseteq logs'[r].missed,
           \A m \in Split, k \in PDFs : Exists(<<m, k>>) => Exists(<<m, k>>)'
    PROVE  RowOK(r)'
<1>1. Complete(r)'
  BY DEF Complete
<1>2. QED
  BY <1>1, CompleteIsOK

\* What is left to show of a row that one worker at most holds after the step.
LEMMA OneHolder ==
    ASSUME NEW r \in Rows, NEW w \in Workers,
           \A x \in Workers : x # w => ~Holds(x, r)',
           Holds(w, r)' => logs'[r].status = "in_progress" /\ ~logs'[r].old,
           r \notin Split =>
              /\ asked'[r] => /\ logs'[r].status # "success"
                             /\ (logs'[r].force \/ logs'[r].status = "error")
              /\ At(w, "runs", r)' => worker'[w].force = logs'[r].force
              /\ At(w, "done", r)' => ~asked'[r],
           r \in Split =>
              /\ logs'[r].status = "success" => logs'[r].copy # "whole"
              /\ At(w, "split", r)' =>
                    \A k \in PDFs \ logs'[r].missed : k \notin worker'[w].todo => Exists(<<r, k>>)'
              /\ At(w, "runs", r)' \/ At(w, "done", r)' => logs'[r].copy # "whole"
    PROVE  RowOK(r)'
<1>1. Alone(r)'
  BY DEF Alone
<1>2. \A x \in Workers : At(x, "runs", r)' \/ At(x, "done", r)' \/ At(x, "split", r)' => x = w
  BY DEF At, Holds, HeldAt
<1>3. r \notin Split => Pending(r)'
  BY <1>2 DEF Pending
<1>4. r \in Split => Splitting(r)'
  BY <1>2 DEF Splitting
<1>5. QED
  BY <1>1, <1>3, <1>4 DEF RowOK

\* A worker moves on and one row is written: if it is as it should be, all is.
LEMMA Acts ==
    ASSUME BacklogConstants, BacklogInv, NEW w \in Workers, NEW r \in Rows,
           worker' \in [Workers -> Hand], \A x \in Workers : x # w => worker'[x] = worker[x],
           logs' \in [Rows -> Mark], \A q \in Rows : q # r => logs'[q] = logs[q],
           asked' \in [Rows -> BOOLEAN], \A q \in Rows : q # r => asked'[q] = asked[q],
           UNCHANGED <<queue, subscribed>>,
           Exists(r)' <=> Exists(r), asked'[r] => asked[r] \/ Exists(r),
           worker'[w].cool => worker'[w].at = "idle",
           worker'[w].at = "claims" => worker'[w].id \in Rows,
           worker'[w].at \in HeldAt => worker'[w].id = r /\ (subscribed => Exists(r)),
           worker'[w].at = "split" => r \in Split,
           RowOK(r)'
    PROVE  BacklogInv'
<1>1. BacklogTypeOK'
  BY DEF BacklogInv, BacklogTypeOK
<1>2. \A q \in Rows : Exists(q)' <=> Exists(q)
  BY DEF Exists
<1>3. Stored'
  <2>1. \A q \in Rows : Exists(q)' => subscribed' /\ q \in Range(queue')
    BY <1>2 DEF BacklogInv, Stored
  <2>2. \A q \in Rows : subscribed' /\ asked'[q] => Exists(q)'
    BY <1>2 DEF BacklogInv, Stored
  <2>3. ASSUME NEW x \in Workers
        PROVE  Handed(x)'
    <3>1. CASE x = w
      BY <1>2, <3>1 DEF HeldAt, Handed
    <3>2. CASE x # w
      <4>1. Handed(x) /\ worker'[x] = worker[x]
        BY <3>2 DEF BacklogInv, Stored
      <4>2. QED
        BY <1>2, <4>1 DEF Handed
    <3>3. QED
      BY <3>1, <3>2
  <2>4. QED
    BY <2>1, <2>2, <2>3 DEF Stored
<1>4. ASSUME NEW q \in Rows, q # r
      PROVE  RowOK(q)'
  <2>1. \A m \in Split, k \in PDFs : Exists(<<m, k>>) => Exists(<<m, k>>)'
    BY <1>2, RowTypes
  <2>2. \A x \in Workers : worker'[x] = worker[x] \/ ~Holds(x, q)'
    BY <1>4 DEF Holds
  <2>3. QED
    BY <1>4, <2>1, <2>2, RowStays DEF BacklogInv
<1>5. QED
  BY <1>1, <1>3, <1>4 DEF BacklogInv

\* The worker that holds a row writes it, and keeps or leaves it.
LEMMA HolderMoves ==
    ASSUME BacklogConstants, BacklogInv, NEW w \in Workers, NEW r \in Rows, Holds(w, r),
           NEW hand \in Hand, worker' = [worker EXCEPT ![w] = hand],
           logs' \in [Rows -> Mark], \A q \in Rows : q # r => logs'[q] = logs[q],
           asked' \in [Rows -> BOOLEAN], \A q \in Rows : q # r => asked'[q] = asked[q],
           UNCHANGED <<queue, subscribed>>,
           Exists(r)' <=> Exists(r), asked'[r] => asked[r],
           logs[r].missed \subseteq logs'[r].missed,
           hand.at \in {"idle"} \cup HeldAt, hand.cool => hand.at = "idle",
           hand.at \in HeldAt => hand.id = r,
           hand.at = "split" => r \in Split,
           /\ Exists(r) /\ logs[r].status = "in_progress" /\ ~logs[r].old
           /\ r \in Split => Splitting(r)
           /\ r \notin Split => Pending(r)
           /\ \A x \in Workers : x # w => ~Holds(x, r)'
           => RowOK(r)'
    PROVE  BacklogInv'
<1>1. /\ worker' \in [Workers -> Hand] /\ worker'[w] = hand
      /\ \A x \in Workers : x # w => worker'[x] = worker[x]
  BY DEF BacklogInv, BacklogTypeOK
<1>2. subscribed => Exists(r)
  BY DEF BacklogInv, Stored, Handed, Holds
<1>3. RowOK(r)'
  <2>1. CASE ~Exists(r)
    BY <2>1 DEF RowOK
  <2>2. CASE r \in Split /\ Complete(r)
    <3>1. \A q \in Rows : Exists(q) => Exists(q)'
      BY DEF Exists
    <3>2. \A m \in Split, k \in PDFs : Exists(<<m, k>>) => Exists(<<m, k>>)'
      BY <3>1, RowTypes
    <3>3. QED
      BY <2>2, <3>2, StillComplete
  <2>3. CASE Exists(r) /\ ~(r \in Split /\ Complete(r))
    <3>1. Alone(r) /\ (r \in Split => Splitting(r)) /\ (r \notin Split => Pending(r))
      BY <2>3 DEF BacklogInv, RowOK
    <3>2. logs[r].status = "in_progress" /\ ~logs[r].old
      BY <3>1 DEF Alone
    <3>3. \A x \in Workers : x # w => ~Holds(x, r)'
      BY <1>1, <3>1 DEF Alone, Holds
    <3>4. QED
      BY <2>3, <3>1, <3>2, <3>3
  <2>4. QED
    BY <2>1, <2>2, <2>3
<1>4. hand.at # "claims"
  BY DEF HeldAt
<1>5. QED
  BY <1>1, <1>2, <1>3, <1>4, Acts

LEMMA NotHeld ==
    ASSUME NEW r \in Rows, \A x \in Workers : ~Holds(x, r)', logs'[r].status # "success",
           asked'[r] => logs'[r].force \/ logs'[r].status = "error"
    PROVE  RowOK(r)'
<1>1. Alone(r)'
  BY DEF Alone
<1>2. \A x \in Workers : ~(At(x, "runs", r)' \/ At(x, "done", r)' \/ At(x, "split", r)')
  BY DEF At, Holds, HeldAt
<1>3. QED
  BY <1>1, <1>2 DEF RowOK, Pending, Splitting

LEMMA SplitRowsExist ==
    ASSUME BacklogConstants, \A q \in Rows : Exists(q) => Exists(q)'
    PROVE  \A m \in Split, k \in PDFs : Exists(<<m, k>>) => Exists(<<m, k>>)'
  BY RowTypes

LEMMA HolderFacts ==
    ASSUME BacklogInv, NEW w \in Workers, worker[w].at \in HeldAt
    PROVE  /\ worker[w].id \in Rows /\ Holds(w, worker[w].id) /\ worker[w] \in Hand
           /\ logs[worker[w].id] \in Mark /\ ~worker[w].cool
           /\ subscribed => Exists(worker[w].id)
           /\ logs \in [Rows -> Mark] /\ asked \in [Rows -> BOOLEAN]
<1>1. Handed(w) /\ worker[w].at # "idle"
  BY DEF BacklogInv, Stored, HeldAt
<1>2. QED
  BY <1>1 DEF BacklogInv, BacklogTypeOK, Handed, Holds

\* A worker that holds nothing after the step.
LEMMA LetsGo ==
    ASSUME BacklogConstants, BacklogInv, NEW w \in Workers, NEW hand \in Hand,
           worker' = [worker EXCEPT ![w] = hand], hand.at \notin HeldAt,
           hand.cool => hand.at = "idle", hand.at = "claims" => hand.id \in Rows,
           UNCHANGED <<logs, queue, subscribed, asked>>
    PROVE  BacklogInv'
<1>1. /\ worker' \in [Workers -> Hand] /\ worker'[w] = hand
      /\ \A x \in Workers : x # w => worker'[x] = worker[x]
  BY DEF BacklogInv, BacklogTypeOK
<1>2. BacklogTypeOK'
  BY <1>1 DEF BacklogInv, BacklogTypeOK
<1>3. Stored'
  <2>1. ASSUME NEW x \in Workers
        PROVE  Handed(x)'
    <3>1. CASE x = w
      BY <1>1, <3>1 DEF Handed, HeldAt
    <3>2. CASE x # w
      <4>1. Handed(x) /\ worker'[x] = worker[x]
        BY <1>1, <3>2 DEF BacklogInv, Stored
      <4>2. QED
        BY <4>1 DEF Handed, Exists
    <3>3. QED
      BY <3>1, <3>2
  <2>2. QED
    BY <2>1 DEF BacklogInv, Stored, Exists
<1>4. ASSUME NEW q \in Rows
      PROVE  RowOK(q)'
  <2>1. \A m \in Split, k \in PDFs : Exists(<<m, k>>) => Exists(<<m, k>>)'
    BY DEF Exists
  <2>2. \A x \in Workers : worker'[x] = worker[x] \/ ~Holds(x, q)'
    BY <1>1 DEF Holds
  <2>3. QED
    BY <2>1, <2>2, RowStays DEF BacklogInv
<1>5. QED
  BY <1>2, <1>3, <1>4 DEF BacklogInv

\* One row is written by someone who holds none.
LEMMA Written ==
    ASSUME BacklogConstants, BacklogInv, NEW r \in Rows, worker' = worker,
           logs' \in [Rows -> Mark], \A q \in Rows : q # r => logs'[q] = logs[q],
           asked' \in [Rows -> BOOLEAN], \A q \in Rows : q # r => asked'[q] = asked[q],
           UNCHANGED <<queue, subscribed>>,
           Exists(r)' <=> Exists(r), asked'[r] => asked[r] \/ Exists(r),
           RowOK(r)'
    PROVE  BacklogInv'
<1>1. BacklogTypeOK'
  BY DEF BacklogInv, BacklogTypeOK
<1>2. \A q \in Rows : Exists(q)' <=> Exists(q)
  BY DEF Exists
<1>3. Stored'
  <2>1. ASSUME NEW x \in Workers
        PROVE  Handed(x)'
    <3>1. Handed(x)
      BY DEF BacklogInv, Stored
    <3>2. QED
      BY <1>2, <3>1 DEF Handed
  <2>2. QED
    BY <1>2, <2>1 DEF BacklogInv, Stored
<1>4. ASSUME NEW q \in Rows, q # r
      PROVE  RowOK(q)'
  BY <1>2, <1>4, SplitRowsExist, RowStays DEF BacklogInv
<1>5. QED
  BY <1>1, <1>3, <1>4 DEF BacklogInv

LEMMA AppendRange ==
    ASSUME NEW T, NEW q \in Seq(T), NEW e \in T
    PROVE  Append(q, e) \in Seq(T) /\ \A x : x \in Range(Append(q, e)) <=> x \in Range(q) \/ x = e
<1>1. Append(q, e) \in Seq(T) /\ Len(q) \in Nat
  OBVIOUS
<1>2. /\ DOMAIN Append(q, e) = 1..(Len(q) + 1) /\ DOMAIN q = 1..Len(q)
      /\ \A i \in 1..Len(q) : Append(q, e)[i] = q[i]
      /\ Append(q, e)[Len(q) + 1] = e
  OBVIOUS
<1>3. \A i : i \in 1..(Len(q) + 1) <=> i \in 1..Len(q) \/ i = Len(q) + 1
  BY <1>1
<1>4. QED
  BY <1>1, <1>2, <1>3 DEF Range

\* A row is inserted.
LEMMA RowArrives ==
    ASSUME BacklogConstants, BacklogInv, NEW r \in Rows, ~Exists(r), subscribed,
           logs' \in [Rows -> Mark], \A q \in Rows : q # r => logs'[q] = logs[q],
           logs'[r].status = "pending", queue' = Append(queue, r),
           UNCHANGED <<subscribed, asked>>, worker' \in [Workers -> Hand],
           \A x \in Workers : /\ worker'[x].at = worker[x].at /\ worker'[x].id = worker[x].id
                              /\ worker'[x].cool = worker[x].cool,
           \A q \in Rows : q # r => RowOK(q)'
    PROVE  BacklogInv'
<1>1. /\ queue' \in Seq(Rows) /\ \A q \in Rows : q \in Range(queue) => q \in Range(queue')
      /\ r \in Range(queue')
  BY AppendRange DEF BacklogInv, BacklogTypeOK
<1>2. BacklogTypeOK'
  BY <1>1 DEF BacklogInv, BacklogTypeOK
<1>3. \A q \in Rows : Exists(q)' <=> Exists(q) \/ q = r
  BY DEF Exists
<1>4. \A x \in Workers : Handed(x)
  BY DEF BacklogInv, Stored
<1>5. Stored'
  <2>1. ASSUME NEW x \in Workers
        PROVE  Handed(x)'
    BY <1>3, <1>4 DEF Handed
  <2>2. QED
    BY <1>1, <1>3, <2>1 DEF BacklogInv, Stored
<1>6. RowOK(r)'
  <2>1. \A x \in Workers : ~Holds(x, r)'
    BY <1>4 DEF Handed, Holds
  <2>2. ~asked'[r]
    BY DEF BacklogInv, Stored
  <2>3. QED
    BY <2>1, <2>2, NotHeld
<1>7. QED
  BY <1>2, <1>5, <1>6 DEF BacklogInv

-----------------------------------------------------------------------------
(* The steps of the queue that no worker takes.                             *)

LEMMA DeliversKeeps ==
    ASSUME BacklogConstants, BacklogInv, NEW m \in Letters, Delivers(m)
    PROVE  BacklogInv'
<1>1. /\ m \in Rows /\ logs \in [Rows -> Mark] /\ subscribed /\ worker' = worker
      /\ UNCHANGED <<subscribed, asked>>
      /\ logs' = [logs EXCEPT ![m].status = "pending"] /\ queue' = Append(queue, m)
  BY DEF BacklogInv, BacklogTypeOK, Delivers, Rows, world
<1>2. ~Exists(m)
  BY <1>1 DEF BacklogInv, Stored, Delivers
<1>3. /\ logs' \in [Rows -> Mark] /\ logs'[m].status = "pending"
      /\ \A q \in Rows : q # m => logs'[q] = logs[q]
  <2> DEFINE new == [logs[m] EXCEPT !.status = "pending"]
  <2>1. new \in Mark /\ new.status = "pending"
    BY <1>1 DEF Mark
  <2>2. logs' = [logs EXCEPT ![m] = new]
    BY <1>1
  <2> HIDE DEF new
  <2>3. QED
    BY <1>1, <2>1, <2>2
<1>4. \A q \in Rows : Exists(q) => Exists(q)'
  BY <1>3 DEF Exists
<1>5. \A q \in Rows : q # m => RowOK(q)'
  BY <1>1, <1>3, <1>4, SplitRowsExist, RowStays DEF BacklogInv
<1>6. worker' \in [Workers -> Hand]
  BY <1>1 DEF BacklogInv, BacklogTypeOK
<1>7. QED
  BY <1>1, <1>2, <1>3, <1>5, <1>6, RowArrives

\* A row that is waiting or over is held by no one, unless its split is complete.
LEMMA LooseRow ==
    ASSUME BacklogInv, NEW r \in Rows, Exists(r),
           logs[r].status # "in_progress" \/ logs[r].old
    PROVE  (r \in Split /\ Complete(r)) \/
              /\ \A x \in Workers : ~Holds(x, r)
              /\ r \notin Split => Pending(r)
  BY DEF BacklogInv, RowOK, Alone

LEMMA RetriggerKeeps ==
    ASSUME BacklogConstants, BacklogInv, NEW r \in Rows, Retrigger(r)
    PROVE  BacklogInv'
<1>1. /\ logs \in [Rows -> Mark] /\ asked \in [Rows -> BOOLEAN]
      /\ UNCHANGED <<subscribed, queue, worker>>
      /\ Exists(r) /\ logs[r].status # "in_progress"
  BY DEF BacklogInv, BacklogTypeOK, Retrigger, world
<1>2. /\ logs' \in [Rows -> Mark] /\ \A q \in Rows : q # r => logs'[q] = logs[q]
      /\ logs'[r].status = "pending" /\ logs'[r].force /\ logs'[r].missed = logs[r].missed
  <2> DEFINE new == [logs[r] EXCEPT !.status = "pending", !.attempts = 0, !.ready = TRUE,
                                    !.old = FALSE, !.force = TRUE]
  <2>1. /\ new \in Mark /\ new.status = "pending" /\ new.force
        /\ new.missed = logs[r].missed
    BY <1>1 DEF Mark
  <2>2. logs' = [logs EXCEPT ![r] = new]
    BY DEF Retrigger
  <2> HIDE DEF new
  <2>3. QED
    BY <1>1, <2>1, <2>2
<1>3. asked' \in [Rows -> BOOLEAN] /\ \A q \in Rows : q # r => asked'[q] = asked[q]
  BY <1>1 DEF Retrigger
<1>4. \A q \in Rows : Exists(q)' <=> Exists(q)
  BY <1>1, <1>2 DEF Exists
<1>5. RowOK(r)'
  <2>1. CASE r \in Split /\ Complete(r)
    BY <1>2, <1>4, <2>1, SplitRowsExist, StillComplete
  <2>2. CASE \A x \in Workers : ~Holds(x, r)
    BY <1>1, <1>2, <2>2, NotHeld DEF Holds
  <2>3. QED
    BY <1>1, <2>1, <2>2, LooseRow
<1>6. QED
  BY <1>1, <1>2, <1>3, <1>4, <1>5, Written

LEMMA TimeKeeps ==
    ASSUME BacklogConstants, BacklogInv, NEW r \in Rows, BecomesReady(r) \/ Ages(r)
    PROVE  BacklogInv'
<1>1. /\ logs \in [Rows -> Mark] /\ asked \in [Rows -> BOOLEAN]
      /\ UNCHANGED <<subscribed, queue, worker, asked>>
      /\ Exists(r)
  BY DEF BacklogInv, BacklogTypeOK, BecomesReady, Ages, world, Exists
<1>2. /\ logs' \in [Rows -> Mark] /\ \A q \in Rows : q # r => logs'[q] = logs[q]
      /\ logs'[r].status = logs[r].status /\ logs'[r].force = logs[r].force
      /\ logs'[r].missed = logs[r].missed
  <2>1. PICK new \in Mark :
            /\ logs' = [logs EXCEPT ![r] = new] /\ new.status = logs[r].status
            /\ new.force = logs[r].force /\ new.missed = logs[r].missed
    <3> DEFINE ready == [logs[r] EXCEPT !.ready = TRUE]
               old == [logs[r] EXCEPT !.old = TRUE]
    <3>1. /\ ready \in Mark /\ ready.status = logs[r].status /\ ready.force = logs[r].force
          /\ ready.missed = logs[r].missed
      BY <1>1 DEF Mark
    <3>2. /\ old \in Mark /\ old.status = logs[r].status /\ old.force = logs[r].force
          /\ old.missed = logs[r].missed
      BY <1>1 DEF Mark
    <3>3. logs' = [logs EXCEPT ![r] = ready] \/ logs' = [logs EXCEPT ![r] = old]
      BY DEF BecomesReady, Ages
    <3> HIDE DEF ready, old
    <3>4. QED
      BY <3>1, <3>2, <3>3
  <2>2. QED
    BY <1>1, <2>1
<1>3. \A q \in Rows : Exists(q)' <=> Exists(q)
  BY <1>2 DEF Exists
<1>4. logs[r].status \in {"retrying", "in_progress"}
  BY DEF BecomesReady, Ages
<1>5. (r \in Split /\ Complete(r)) \/
         /\ \A x \in Workers : ~Holds(x, r)
         /\ r \notin Split => Pending(r)
  <2>1. CASE BecomesReady(r)
    BY <1>1, <2>1, LooseRow DEF BecomesReady
  <2>2. CASE Ages(r)
    <3>1. \A x \in Workers : ~Holds(x, r)
      BY <2>2 DEF Ages, Held, Holds, HeldAt
    <3>2. QED
      BY <1>1, <3>1 DEF BacklogInv, RowOK
  <2>3. QED
    BY <2>1, <2>2
<1>6. RowOK(r)'
  <2>1. CASE r \in Split /\ Complete(r)
    BY <1>2, <1>3, <2>1, SplitRowsExist, StillComplete
  <2>2. CASE r \notin Split /\ (\A x \in Workers : ~Holds(x, r)) /\ Pending(r)
    BY <1>1, <1>2, <1>4, <2>2, NotHeld DEF Holds, Pending
  <2>3. CASE r \in Split /\ \A x \in Workers : ~Holds(x, r)
    <3>1. \A x \in Workers : ~Holds(x, r)'
      BY <1>1, <2>3 DEF Holds
    <3>2. Alone(r)'
      BY <3>1 DEF Alone
    <3>3. \A x \in Workers : ~(At(x, "runs", r)' \/ At(x, "done", r)' \/ At(x, "split", r)')
      BY <3>1 DEF At, Holds, HeldAt
    <3>4. QED
      BY <1>2, <1>4, <2>3, <3>2, <3>3 DEF RowOK, Splitting
  <2>4. QED
    BY <1>5, <2>1, <2>2, <2>3
<1>7. QED
  BY <1>1, <1>2, <1>3, <1>6, Written

LEMMA DeletesKeeps ==
    ASSUME BacklogInv, Deletes
    PROVE  BacklogInv'
<1>1. Absent \in Mark /\ Absent.status = "absent"
  BY DEF Absent, Mark
<1>2. BacklogTypeOK'
  BY <1>1 DEF Deletes, BacklogInv, BacklogTypeOK
<1>3. \A r \in Rows : ~Exists(r)'
  BY <1>1 DEF Deletes, Exists
<1>4. ASSUME NEW x \in Workers
      PROVE  Handed(x)'
  <2>1. Handed(x) /\ ~subscribed' /\ worker' = worker
    BY DEF BacklogInv, Stored, Deletes
  <2>2. QED
    BY <2>1 DEF Handed
<1>5. Stored'
  BY <1>3, <1>4 DEF Stored, Deletes
<1>6. QED
  BY <1>2, <1>3, <1>5 DEF BacklogInv, RowOK

-----------------------------------------------------------------------------
(* The steps of a worker that does not hold a row yet.                      *)

LEMMA TicksKeeps ==
    ASSUME BacklogConstants, BacklogInv, NEW w \in Workers, Ticks(w)
    PROVE  BacklogInv'
<1>1. /\ logs \in [Rows -> Mark] /\ asked \in [Rows -> BOOLEAN] /\ worker[w] \in Hand
      /\ worker \in [Workers -> Hand]
      /\ UNCHANGED <<subscribed, queue, asked>> /\ logs' = Reclaimed
  BY DEF BacklogInv, BacklogTypeOK, Ticks, world
<1>2. /\ worker' \in [Workers -> Hand] /\ worker'[w].at \in {"idle", "looks"}
      /\ \A x \in Workers : x # w => worker'[x] = worker[x]
      /\ worker'[w].cool => worker'[w].at = "idle"
  <2>1. PICK new \in Hand : /\ worker' = [worker EXCEPT ![w] = new]
                            /\ new.at \in {"idle", "looks"} /\ (new.cool => new.at = "idle")
    <3> DEFINE new(at) == [worker[w] EXCEPT !.at = at]
    <3>1. \A at \in {"idle", "looks"} :
              new(at) \in Hand /\ new(at).at = at /\ new(at).cool = worker[w].cool
      BY <1>1 DEF Hand
    <3>2. worker' = [worker EXCEPT ![w] = new(IF worker[w].cool THEN "idle" ELSE "looks")]
      BY DEF Ticks, Goes
    <3> HIDE DEF new
    <3>3. QED
      BY <3>1, <3>2
  <2>2. QED
    BY <1>1, <2>1
<1>3. ASSUME NEW q \in Rows
      PROVE  /\ logs'[q] \in Mark /\ (~Stale(q) => logs'[q] = logs[q])
             /\ Stale(q) => /\ logs'[q].status = "pending" /\ logs'[q].force = logs[q].force
                            /\ logs'[q].missed = logs[q].missed
  <2> DEFINE new == [logs[q] EXCEPT !.status = "pending"]
  <2>1. /\ new \in Mark /\ new.status = "pending" /\ new.force = logs[q].force
        /\ new.missed = logs[q].missed
    BY <1>1 DEF Mark
  <2>2. logs'[q] = IF Stale(q) THEN new ELSE logs[q]
    BY <1>1 DEF Reclaimed
  <2> HIDE DEF new
  <2>3. QED
    BY <1>1, <2>1, <2>2
<1>4. logs' \in [Rows -> Mark]
  BY <1>1, <1>3 DEF Reclaimed
<1>5. \A q \in Rows : Exists(q)' <=> Exists(q)
  BY <1>3 DEF Exists, Stale
<1>6. BacklogTypeOK'
  BY <1>1, <1>2, <1>4 DEF BacklogInv, BacklogTypeOK
<1>7. Stored'
  <2>1. ASSUME NEW x \in Workers
        PROVE  Handed(x)'
    <3>1. CASE x = w
      BY <1>2, <3>1 DEF Handed, HeldAt
    <3>2. CASE x # w
      <4>1. Handed(x) /\ worker'[x] = worker[x]
        BY <1>2, <3>2 DEF BacklogInv, Stored
      <4>2. QED
        BY <1>1, <1>5, <4>1 DEF Handed
    <3>3. QED
      BY <3>1, <3>2
  <2>2. QED
    BY <1>1, <1>5, <2>1 DEF BacklogInv, Stored
<1>8. ASSUME NEW q \in Rows
      PROVE  RowOK(q)'
  <2>1. \A x \in Workers : worker'[x] = worker[x] \/ ~Holds(x, q)'
    BY <1>2 DEF Holds, HeldAt
  <2>2. CASE ~Stale(q)
    BY <1>1, <1>3, <1>5, <2>1, <2>2, SplitRowsExist, RowStays DEF BacklogInv
  <2>3. CASE Stale(q)
    <3>1. Exists(q) /\ logs[q].old /\ logs[q].status = "in_progress"
      BY <2>3 DEF Stale, Exists
    <3>2. CASE q \in Split /\ Complete(q)
      BY <1>3, <1>5, <2>3, <3>2, SplitRowsExist, StillComplete
    <3>3. CASE (\A x \in Workers : ~Holds(x, q)) /\ (q \notin Split => Pending(q))
      <4>1. \A x \in Workers : ~Holds(x, q)'
        BY <2>1, <3>3 DEF Holds
      <4>2. logs'[q].status = "pending" /\ logs'[q].force = logs[q].force
        BY <1>3, <2>3
      <4>3. CASE q \notin Split
        BY <1>1, <3>1, <3>3, <4>1, <4>2, <4>3, NotHeld DEF Pending
      <4>4. CASE q \in Split
        BY <4>1, <4>2, <4>4 DEF RowOK, Alone, Splitting, At, Holds, HeldAt
      <4>5. QED
        BY <4>3, <4>4
    <3>4. QED
      BY <3>1, <3>2, <3>3, LooseRow
  <2>4. QED
    BY <2>2, <2>3
<1>9. QED
  BY <1>6, <1>7, <1>8 DEF BacklogInv

LEMMA LooksKeeps ==
    ASSUME BacklogConstants, BacklogInv, NEW w \in Workers, Looks(w)
    PROVE  BacklogInv'
<1>1. worker[w] \in Hand /\ UNCHANGED <<logs, queue, subscribed, asked>> /\ ~worker[w].cool
  <2>1. Handed(w) /\ worker[w] \in Hand
    BY DEF BacklogInv, BacklogTypeOK, Stored
  <2>2. QED
    BY <2>1 DEF Looks, store, world, Handed
<1>2. CASE \E r \in Rows : worker' = [worker EXCEPT ![w].at = "claims", ![w].id = r]
  <2>1. PICK r \in Rows : worker' = [worker EXCEPT ![w].at = "claims", ![w].id = r]
    BY <1>2
  <2> DEFINE new == [worker[w] EXCEPT !.at = "claims", !.id = r]
  <2>2. new \in Hand /\ new.at = "claims" /\ new.id = r /\ ~new.cool
    BY <1>1 DEF Hand
  <2>3. worker' = [worker EXCEPT ![w] = new]
    BY <2>1
  <2> HIDE DEF new
  <2>4. new.at \notin HeldAt
    BY <2>2 DEF HeldAt
  <2>5. QED
    BY <1>1, <2>2, <2>3, <2>4, LetsGo
<1>3. CASE worker' = [worker EXCEPT ![w].at = "idle", ![w].id = 0]
  <2> DEFINE new == [worker[w] EXCEPT !.at = "idle", !.id = 0]
  <2>1. new \in Hand /\ new.at = "idle"
    BY <1>1 DEF Hand
  <2>2. worker' = [worker EXCEPT ![w] = new]
    BY <1>3
  <2> HIDE DEF new
  <2>3. new.at \notin HeldAt
    BY <2>1 DEF HeldAt
  <2>4. QED
    BY <1>1, <2>1, <2>2, <2>3, LetsGo
<1>4. QED
  BY <1>2, <1>3 DEF Looks

LEMMA RestingHand ==
    ASSUME NEW cool \in BOOLEAN
    PROVE  LET new == [Resting EXCEPT !.cool = cool]
           IN  new \in Hand /\ new.at = "idle" /\ new.at \notin HeldAt
  BY DEF Resting, Hand, HeldAt

LEMMA RestsKeeps ==
    ASSUME BacklogConstants, BacklogInv, NEW w \in Workers,
           UNCHANGED <<logs, queue, subscribed, asked>>, Rests(w, FALSE)
    PROVE  BacklogInv'
<1> DEFINE new == [Resting EXCEPT !.cool = FALSE]
<1>1. new \in Hand /\ new.at = "idle" /\ new.at \notin HeldAt
  BY RestingHand
<1>2. worker' = [worker EXCEPT ![w] = new]
  BY DEF Rests
<1> HIDE DEF new
<1>3. QED
  BY <1>1, <1>2, LetsGo

LEMMA ClaimsRowKeeps ==
    ASSUME BacklogConstants, BacklogInv, NEW w \in Workers, Claims(w)
    PROVE  BacklogInv'
<1>1. /\ logs \in [Rows -> Mark] /\ asked \in [Rows -> BOOLEAN] /\ worker[w] \in Hand
      /\ worker \in [Workers -> Hand] /\ UNCHANGED <<queue, subscribed, asked>>
  BY DEF BacklogInv, BacklogTypeOK, Claims, world
<1>2. PICK r \in Rows : r = worker[w].id /\ ~worker[w].cool
  BY DEF BacklogInv, Stored, Handed, Claims
<1>3. CASE Queued(r)
  <2>1. /\ logs' \in [Rows -> Mark] /\ \A q \in Rows : q # r => logs'[q] = logs[q]
        /\ logs'[r].status = "in_progress" /\ ~logs'[r].old
        /\ logs'[r].force = logs[r].force /\ logs'[r].missed = logs[r].missed
    <3> DEFINE new == [logs[r] EXCEPT !.status = "in_progress", !.attempts = @ + 1,
                                      !.ready = TRUE, !.old = FALSE]
    <3>1. /\ new \in Mark /\ new.status = "in_progress" /\ ~new.old
          /\ new.force = logs[r].force /\ new.missed = logs[r].missed
      <4>1. logs[r] \in Mark /\ logs[r].attempts + 1 \in Nat
        BY <1>1 DEF Mark
      <4>2. QED
        BY <4>1 DEF Mark
    <3>2. logs' = [logs EXCEPT ![r] = new]
      BY <1>2, <1>3 DEF Claims
    <3> HIDE DEF new
    <3>3. QED
      BY <1>1, <1>2, <3>1, <3>2
  <2>2. /\ worker' \in [Workers -> Hand] /\ \A x \in Workers : x # w => worker'[x] = worker[x]
        /\ worker'[w].at = "reads" /\ worker'[w].id = r /\ ~worker'[w].cool
    <3> DEFINE new == [worker[w] EXCEPT !.at = "reads", !.attempts = logs[r].attempts + 1]
    <3>1. logs[r].attempts + 1 \in Nat
      BY <1>1, <1>2 DEF Mark
    <3>2. new \in Hand /\ new.at = "reads" /\ new.id = r /\ ~new.cool
      BY <1>1, <1>2, <3>1 DEF Hand, HeldAt
    <3>3. worker' = [worker EXCEPT ![w] = new]
      BY <1>2, <1>3 DEF Claims
    <3> HIDE DEF new
    <3>4. QED
      BY <1>1, <3>2, <3>3
  <2>3. Exists(r) /\ Exists(r)' /\ logs[r].status \in {"pending", "retrying"}
    BY <1>3, <2>1 DEF Queued, Exists
  <2>4. RowOK(r)'
    <3>1. CASE r \in Split /\ Complete(r)
      <4>1. \A q \in Rows : Exists(q) => Exists(q)'
        BY <2>1, <2>3 DEF Exists
      <4>2. QED
        BY <2>1, <3>1, <4>1, SplitRowsExist, StillComplete
    <3>2. CASE (\A x \in Workers : ~Holds(x, r)) /\ (r \notin Split => Pending(r))
      <4>1. \A x \in Workers : x # w => ~Holds(x, r)'
        BY <2>2, <3>2 DEF Holds
      <4>2. ~At(w, "runs", r)' /\ ~At(w, "done", r)' /\ ~At(w, "split", r)'
        BY <2>2 DEF At
      <4>3. r \notin Split /\ asked'[r] => logs'[r].force
        BY <1>1, <2>1, <2>3, <3>2 DEF Pending
      <4>4. QED
        BY <1>2, <2>1, <4>1, <4>2, <4>3, OneHolder
    <3>3. QED
      BY <1>2, <2>3, <3>1, <3>2, LooseRow
  <2>5. worker'[w].at \in HeldAt /\ worker'[w].at # "claims" /\ worker'[w].at # "split"
    BY <2>2 DEF HeldAt
  <2>6. QED
    BY <1>1, <1>2, <2>1, <2>2, <2>3, <2>4, <2>5, Acts
<1>4. CASE ~Queued(r)
  BY <1>1, <1>2, <1>4, RestsKeeps DEF Claims
<1>5. QED
  BY <1>3, <1>4

LEMMA CoolsKeeps ==
    ASSUME BacklogConstants, BacklogInv, NEW w \in Workers, Cools(w)
    PROVE  BacklogInv'
<1>1. /\ worker[w] \in Hand /\ UNCHANGED <<logs, queue, subscribed, asked>>
      /\ worker[w].at = "idle"
  BY DEF BacklogInv, BacklogTypeOK, Stored, Handed, Cools, store, world
<1> DEFINE new == [worker[w] EXCEPT !.cool = FALSE]
<1>2. new \in Hand /\ new.at = "idle" /\ ~new.cool
  BY <1>1 DEF Hand
<1>3. worker' = [worker EXCEPT ![w] = new]
  BY DEF Cools
<1> HIDE DEF new
<1>4. new.at \notin HeldAt
  BY <1>2 DEF HeldAt
<1>5. QED
  BY <1>1, <1>2, <1>3, <1>4, LetsGo

LEMMA DiesKeeps ==
    ASSUME BacklogConstants, BacklogInv, NEW w \in Workers, Dies(w)
    PROVE  BacklogInv'
<1>1. UNCHANGED <<logs, queue, subscribed, asked>> /\ Rests(w, FALSE)
  BY DEF Dies, store, world
<1>2. QED
  BY <1>1, RestsKeeps

-----------------------------------------------------------------------------
(* The steps of the worker that holds a row.                                *)

\* The capture: the copy is written, and the mail goes on whole or bare.
LEMMA ThenKeeps ==
    ASSUME BacklogConstants, BacklogInv, NEW w \in Workers, worker[w].at = "reads",
           NEW r \in Rows, r = worker[w].id, NEW copy \in {"whole", "bare"}, Then(w, copy),
           logs' \in [Rows -> Mark], \A q \in Rows : q # r => logs'[q] = logs[q],
           logs'[r].copy = copy, logs'[r].status = logs[r].status, logs'[r].old = logs[r].old,
           logs'[r].force = logs[r].force, logs'[r].missed = logs[r].missed,
           UNCHANGED <<queue, subscribed, asked>>
    PROVE  BacklogInv'
<1>1. /\ Holds(w, r) /\ worker[w] \in Hand /\ logs[r] \in Mark /\ ~worker[w].cool
      /\ logs \in [Rows -> Mark] /\ asked \in [Rows -> BOOLEAN]
  BY HolderFacts DEF HeldAt
<1> DEFINE splits == r \in Split /\ copy = "whole"
           hand == [worker[w] EXCEPT !.at = IF splits THEN "split" ELSE "runs",
                                     !.force = logs[r].force,
                                     !.todo = IF splits THEN PDFs ELSE {}]
<1>2. worker' = [worker EXCEPT ![w] = hand]
  BY DEF Then
<1>3. splits <=> r \in Split /\ copy = "whole"
  OBVIOUS
<1> HIDE DEF splits
<1>4. /\ hand \in Hand /\ hand.id = r /\ ~hand.cool /\ hand.force = logs[r].force
      /\ splits => hand.at = "split" /\ hand.todo = PDFs
      /\ ~splits => hand.at = "runs"
  <2>1. logs[r].force \in BOOLEAN
    BY <1>1 DEF Mark
  <2>2. QED
    BY <1>1, <2>1 DEF Hand, HeldAt
<1> HIDE DEF hand
<1>5. worker'[w] = hand
  BY <1>2 DEF BacklogInv, BacklogTypeOK
<1>6. /\ logs'[r].copy = copy /\ logs'[r].status = logs[r].status
      /\ logs'[r].old = logs[r].old /\ logs'[r].force = logs[r].force
  OBVIOUS
<1>7. ASSUME Exists(r), logs[r].status = "in_progress", ~logs[r].old,
             r \notin Split => Pending(r), \A x \in Workers : x # w => ~Holds(x, r)'
      PROVE  RowOK(r)'
  <2>1. Holds(w, r)' => logs'[r].status = "in_progress" /\ ~logs'[r].old
    BY <1>6, <1>7
  <2>2. ASSUME r \notin Split
        PROVE  /\ asked'[r] => /\ logs'[r].status # "success"
                               /\ (logs'[r].force \/ logs'[r].status = "error")
               /\ At(w, "runs", r)' => worker'[w].force = logs'[r].force
               /\ At(w, "done", r)' => ~asked'[r]
    BY <1>3, <1>4, <1>5, <1>6, <1>7, <2>2 DEF Pending, At
  <2>3. ASSUME r \in Split
        PROVE  /\ logs'[r].status = "success" => logs'[r].copy # "whole"
               /\ At(w, "split", r)' =>
                     \A k \in PDFs \ logs'[r].missed : k \notin worker'[w].todo => Exists(<<r, k>>)'
               /\ At(w, "runs", r)' \/ At(w, "done", r)' => logs'[r].copy # "whole"
    BY <1>3, <1>4, <1>5, <1>6, <1>7, <2>3 DEF At
  <2>4. QED
    BY <1>7, <2>1, <2>2, <2>3, OneHolder
<1>8. /\ hand.at \in {"idle"} \cup HeldAt /\ (hand.cool => hand.at = "idle")
      /\ (hand.at \in HeldAt => hand.id = r) /\ (hand.at = "split" => r \in Split)
  BY <1>3, <1>4 DEF HeldAt
<1>9. Exists(r)' <=> Exists(r)
  BY <1>6 DEF Exists
<1>10. QED
  BY <1>1, <1>2, <1>4, <1>6, <1>7, <1>8, <1>9, HolderMoves

LEMMA ReadsMailKeeps ==
    ASSUME BacklogConstants, BacklogInv, NEW w \in Workers, ReadsMail(w)
    PROVE  BacklogInv'
<1>1. worker[w].at = "reads" /\ UNCHANGED <<queue, subscribed, asked>>
  BY DEF ReadsMail, world
<1>2. PICK r \in Rows : r = worker[w].id /\ logs[r] \in Mark
  BY <1>1, HolderFacts DEF HeldAt
<1>3. PICK copy \in {"whole", "bare"} : logs' = [logs EXCEPT ![r].copy = copy] /\ Then(w, copy)
  BY <1>2 DEF ReadsMail
<1> DEFINE mark == [logs[r] EXCEPT !.copy = copy]
<1>4. /\ mark \in Mark /\ mark.copy = copy /\ mark.status = logs[r].status
      /\ mark.old = logs[r].old /\ mark.force = logs[r].force /\ mark.missed = logs[r].missed
  BY <1>2 DEF Mark
<1>5. logs' = [logs EXCEPT ![r] = mark]
  BY <1>3
<1> HIDE DEF mark
<1>6. /\ logs' \in [Rows -> Mark] /\ logs'[r] = mark
      /\ \A q \in Rows : q # r => logs'[q] = logs[q]
  BY <1>2, <1>4, <1>5 DEF BacklogInv, BacklogTypeOK
<1>7. QED
  BY <1>1, <1>2, <1>3, <1>4, <1>6, ThenKeeps

LEMMA ReplaysKeeps ==
    ASSUME BacklogConstants, BacklogInv, NEW w \in Workers, Replays(w)
    PROVE  BacklogInv'
<1>1. worker[w].at = "reads" /\ UNCHANGED <<logs, queue, subscribed, asked>>
  BY DEF Replays, store, world
<1>2. PICK r \in Rows : r = worker[w].id /\ logs[r] \in Mark /\ logs \in [Rows -> Mark]
  BY <1>1, HolderFacts DEF HeldAt
<1>3. logs[r].copy \in {"whole", "bare"} /\ Then(w, logs[r].copy)
  BY <1>2 DEF Replays, Mark
<1>4. QED
  BY <1>1, <1>2, <1>3, ThenKeeps

LEMMA ReadFailsKeeps ==
    ASSUME BacklogConstants, BacklogInv, NEW w \in Workers, ReadFails(w)
    PROVE  BacklogInv'
<1>1. worker[w].at = "reads" /\ UNCHANGED <<logs, queue, subscribed, asked>>
  BY DEF ReadFails, store, world
<1>2. PICK r \in Rows : /\ r = worker[w].id /\ Holds(w, r) /\ worker[w] \in Hand
                        /\ ~worker[w].cool /\ logs \in [Rows -> Mark] /\ logs[r] \in Mark
                        /\ asked \in [Rows -> BOOLEAN]
  BY <1>1, HolderFacts DEF HeldAt
<1> DEFINE hand == [worker[w] EXCEPT !.at = "failed"]
<1>3. hand \in Hand /\ hand.at = "failed" /\ hand.id = r /\ ~hand.cool
  BY <1>2 DEF Hand, HeldAt
<1>4. worker' = [worker EXCEPT ![w] = hand]
  BY DEF ReadFails, Goes
<1> HIDE DEF hand
<1>5. worker'[w] = hand
  BY <1>4 DEF BacklogInv, BacklogTypeOK
<1>6. ASSUME Exists(r), logs[r].status = "in_progress", ~logs[r].old,
             r \notin Split => Pending(r), \A x \in Workers : x # w => ~Holds(x, r)'
      PROVE  RowOK(r)'
  <2>1. ~At(w, "runs", r)' /\ ~At(w, "done", r)' /\ ~At(w, "split", r)'
    BY <1>3, <1>5 DEF At
  <2>2. r \notin Split /\ asked'[r] => logs'[r].force \/ logs'[r].status = "error"
    BY <1>1, <1>6 DEF Pending
  <2>3. QED
    BY <1>1, <1>6, <2>1, <2>2, OneHolder
<1>7. /\ hand.at \in {"idle"} \cup HeldAt /\ (hand.cool => hand.at = "idle")
      /\ (hand.at \in HeldAt => hand.id = r) /\ (hand.at = "split" => r \in Split)
  BY <1>3 DEF HeldAt
<1>8. Exists(r)' <=> Exists(r)
  BY <1>1 DEF Exists
<1>9. QED
  BY <1>1, <1>2, <1>3, <1>4, <1>6, <1>7, <1>8, HolderMoves

LEMMA SplitsOneKeeps ==
    ASSUME BacklogConstants, BacklogInv, NEW w \in Workers, NEW k \in PDFs, SplitsOne(w, k)
    PROVE  BacklogInv'
<1>1. worker[w].at = "split" /\ k \in worker[w].todo /\ UNCHANGED <<subscribed, asked>>
  BY DEF SplitsOne, world
<1>2. PICK m \in Split :
          /\ m = worker[w].id /\ m \in Rows /\ Holds(w, m) /\ worker[w] \in Hand
          /\ ~worker[w].cool /\ logs \in [Rows -> Mark] /\ logs[m] \in Mark
          /\ asked \in [Rows -> BOOLEAN] /\ (subscribed => Exists(m))
          /\ (Exists(m) => subscribed)
  <2>1. worker[w].at \in HeldAt /\ Handed(w)
    BY <1>1 DEF HeldAt, BacklogInv, Stored
  <2>2. worker[w].id \in Split
    BY <1>1, <2>1 DEF Handed
  <2>3. Exists(worker[w].id) => subscribed
    BY <2>1, HolderFacts DEF BacklogInv, Stored
  <2>4. QED
    BY <2>1, <2>2, <2>3, HolderFacts
<1>3. PICK r \in Rows : r = <<m, k>> /\ r \notin Split /\ r # m
  BY <1>2, RowTypes
<1> DEFINE hand == [worker[w] EXCEPT !.todo = @ \ {k}]
<1>4. /\ hand \in Hand /\ hand.at = "split" /\ hand.id = m /\ ~hand.cool
      /\ hand.todo = worker[w].todo \ {k}
  BY <1>1, <1>2 DEF Hand
<1>5. worker' = [worker EXCEPT ![w] = hand]
  BY DEF SplitsOne
<1> HIDE DEF hand
<1>6. /\ worker'[w] = hand /\ worker' \in [Workers -> Hand]
      /\ \A x \in Workers : x # w => worker'[x] = worker[x]
  BY <1>4, <1>5 DEF BacklogInv, BacklogTypeOK
\* Whatever becomes of the PDF, the split of its mail is still in order.
<1>7. ASSUME Splitting(m), logs[m].status = "in_progress", ~logs[m].old,
             logs'[m].status = logs[m].status, logs'[m].old = logs[m].old,
             logs[m].missed \subseteq logs'[m].missed, k \in logs'[m].missed \/ Exists(r)',
             \A q \in Rows : Exists(q) => Exists(q)',
             \A x \in Workers : x # w => ~Holds(x, m)'
      PROVE  RowOK(m)'
  <2>1. ASSUME NEW j \in PDFs \ logs'[m].missed, j \notin hand.todo
        PROVE  Exists(<<m, j>>)'
    <3>1. CASE j = k
      BY <1>3, <1>7, <2>1, <3>1
    <3>2. CASE j # k
      <4>1. j \notin worker[w].todo /\ At(w, "split", m) /\ j \in PDFs \ logs[m].missed
        BY <1>1, <1>2, <1>4, <1>7, <2>1, <3>2 DEF At
      <4>2. Exists(<<m, j>>)
        BY <1>7, <4>1 DEF Splitting
      <4>3. QED
        BY <1>7, <4>2, RowTypes
    <3>3. QED
      BY <3>1, <3>2
  <2>2. ~At(w, "runs", m)' /\ ~At(w, "done", m)'
    BY <1>4, <1>6 DEF At
  <2>3. QED
    BY <1>2, <1>6, <1>7, <2>1, <2>2, OneHolder
<1>8. /\ hand.at \in {"idle"} \cup HeldAt /\ (hand.cool => hand.at = "idle")
      /\ (hand.at \in HeldAt => hand.id = m) /\ (hand.at = "split" => m \in Split)
  BY <1>4 DEF HeldAt
<1>9. CASE (Exists(r) \/ ~subscribed) /\ UNCHANGED <<logs, queue>>
  <2>1. \A q \in Rows : Exists(q)' <=> Exists(q)
    BY <1>9 DEF Exists
  <2>2. Exists(m) => Exists(r)'
    BY <1>2, <1>9, <2>1
  <2>3. QED
    BY <1>1, <1>2, <1>5, <1>4, <1>7, <1>8, <1>9, <2>1, <2>2, HolderMoves
<1>10. CASE /\ Exists(m) /\ ~Exists(r) /\ subscribed /\ UNCHANGED queue
            /\ logs' = [logs EXCEPT ![m].missed = @ \cup {k}]
  <2> DEFINE mark == [logs[m] EXCEPT !.missed = @ \cup {k}]
  <2>1. /\ mark \in Mark /\ mark.status = logs[m].status /\ mark.old = logs[m].old
        /\ mark.missed = logs[m].missed \cup {k}
    BY <1>2 DEF Mark
  <2>2. logs' = [logs EXCEPT ![m] = mark]
    BY <1>10
  <2> HIDE DEF mark
  <2>3. /\ logs' \in [Rows -> Mark] /\ logs'[m] = mark
        /\ \A q \in Rows : q # m => logs'[q] = logs[q]
    BY <1>2, <2>1, <2>2
  <2>4. \A q \in Rows : Exists(q)' <=> Exists(q)
    BY <2>1, <2>3 DEF Exists
  <2>5. k \in logs'[m].missed /\ logs[m].missed \subseteq logs'[m].missed
    BY <2>1, <2>3
  <2>6. QED
    BY <1>1, <1>2, <1>4, <1>5, <1>7, <1>8, <1>10, <2>1, <2>3, <2>4, <2>5, HolderMoves
<1>11. CASE /\ ~Exists(r) /\ subscribed /\ queue' = Append(queue, r)
            /\ logs' = [logs EXCEPT ![r] = [Absent EXCEPT !.status = "pending", !.copy = "whole",
                                                          !.force = worker[w].force]]
  <2> DEFINE mark == [Absent EXCEPT !.status = "pending", !.copy = "whole", !.force = worker[w].force]
  <2>1. mark \in Mark /\ mark.status = "pending"
    <3>1. worker[w].force \in BOOLEAN
      BY <1>2 DEF Hand
    <3>2. QED
      BY <3>1 DEF Absent, Mark
  <2>2. logs' = [logs EXCEPT ![r] = mark]
    BY <1>11
  <2> HIDE DEF mark
  <2>3. /\ logs' \in [Rows -> Mark] /\ logs'[r].status = "pending"
        /\ \A q \in Rows : q # r => logs'[q] = logs[q]
    BY <1>2, <2>1, <2>2
  <2>4. Exists(r)' /\ \A q \in Rows : Exists(q) => Exists(q)'
    BY <2>3 DEF Exists
  <2>5. RowOK(m)'
    <3>1. logs'[m] = logs[m] /\ Exists(m)
      BY <1>2, <1>3, <1>11, <2>3
    <3>2. CASE Complete(m)
      BY <1>2, <2>4, <3>1, <3>2, SplitRowsExist, StillComplete
    <3>3. CASE ~Complete(m)
      <4>1. Alone(m) /\ Splitting(m)
        BY <1>2, <3>1, <3>3 DEF BacklogInv, RowOK
      <4>2. /\ logs[m].status = "in_progress" /\ ~logs[m].old
            /\ \A x \in Workers : x # w => ~Holds(x, m)'
        BY <1>2, <1>6, <4>1 DEF Alone, Holds
      <4>3. QED
        BY <1>7, <2>4, <3>1, <4>1, <4>2
    <3>4. QED
      BY <3>2, <3>3
  <2>6. ASSUME NEW q \in Rows, q # r
        PROVE  RowOK(q)'
    <3>1. CASE q = m
      BY <2>5, <3>1
    <3>2. CASE q # m
      <4>1. \A x \in Workers : worker'[x] = worker[x] \/ ~Holds(x, q)'
        BY <1>4, <1>6, <3>2 DEF Holds
      <4>2. QED
        BY <1>1, <2>3, <2>4, <2>6, <4>1, SplitRowsExist, RowStays DEF BacklogInv
    <3>3. QED
      BY <3>1, <3>2
  <2>7. \A x \in Workers : /\ worker'[x].at = worker[x].at /\ worker'[x].id = worker[x].id
                           /\ worker'[x].cool = worker[x].cool
    <3>1. hand.cool = worker[w].cool
      BY <1>2 DEF hand, Hand
    <3>2. QED
      BY <1>1, <1>2, <1>4, <1>6, <3>1
  <2>8. QED
    BY <1>1, <1>6, <1>11, <2>3, <2>6, <2>7, RowArrives
<1>12. QED
  BY <1>2, <1>3, <1>9, <1>10, <1>11 DEF SplitsOne

LEMMA SplitEndsKeeps ==
    ASSUME BacklogConstants, BacklogInv, NEW w \in Workers, SplitEnds(w)
    PROVE  BacklogInv'
<1>1. worker[w].at = "split" /\ worker[w].todo = {} /\ UNCHANGED <<queue, subscribed, asked>>
  BY DEF SplitEnds, SplitOver, world
<1>2. PICK m \in Split :
          /\ m = worker[w].id /\ m \in Rows /\ Holds(w, m) /\ worker[w] \in Hand
          /\ ~worker[w].cool /\ logs \in [Rows -> Mark] /\ logs[m] \in Mark
          /\ asked \in [Rows -> BOOLEAN]
  <2>1. worker[w].at \in HeldAt /\ Handed(w)
    BY <1>1 DEF HeldAt, BacklogInv, Stored
  <2>2. worker[w].id \in Split
    BY <1>1, <2>1 DEF Handed
  <2>3. QED
    BY <2>1, <2>2, HolderFacts
<1> DEFINE hand == [worker[w] EXCEPT !.at = "done"]
<1>3. hand \in Hand /\ hand.at = "done" /\ hand.id = m /\ ~hand.cool
  BY <1>2 DEF Hand, HeldAt
<1>4. worker' = [worker EXCEPT ![w] = hand]
  BY DEF SplitEnds, Goes
<1> HIDE DEF hand
<1> DEFINE mark == [logs[m] EXCEPT !.status = "success"]
<1>5. mark \in Mark /\ mark.status = "success" /\ mark.missed = logs[m].missed
  BY <1>2 DEF Mark
<1>6. logs' = IF Exists(m) THEN [logs EXCEPT ![m] = mark] ELSE logs
  BY <1>2 DEF SplitEnds
<1> HIDE DEF mark
<1>7. /\ logs' \in [Rows -> Mark] /\ logs'[m].missed = logs[m].missed
      /\ \A q \in Rows : q # m => logs'[q] = logs[q]
  BY <1>2, <1>5, <1>6
<1>8. \A q \in Rows : Exists(q)' <=> Exists(q)
  BY <1>2, <1>5, <1>6 DEF Exists
<1>9. ASSUME Splitting(m)
      PROVE  RowOK(m)'
  <2>1. Complete(m)
    BY <1>1, <1>2, <1>9 DEF Splitting, At, Complete
  <2>2. QED
    BY <1>7, <1>8, <2>1, SplitRowsExist, StillComplete
<1>10. /\ hand.at \in {"idle"} \cup HeldAt /\ (hand.cool => hand.at = "idle")
       /\ (hand.at \in HeldAt => hand.id = m) /\ (hand.at = "split" => m \in Split)
  BY <1>3 DEF HeldAt
<1>11. QED
  BY <1>1, <1>2, <1>3, <1>4, <1>7, <1>8, <1>9, <1>10, HolderMoves

LEMMA RunsKeeps ==
    ASSUME BacklogConstants, BacklogInv, NEW w \in Workers, Runs(w)
    PROVE  BacklogInv'
<1>1. worker[w].at = "runs" /\ UNCHANGED <<logs, queue, subscribed>>
  BY DEF Runs, store, world
<1>2. PICK r \in Rows : /\ r = worker[w].id /\ Holds(w, r) /\ worker[w] \in Hand
                        /\ ~worker[w].cool /\ logs \in [Rows -> Mark] /\ logs[r] \in Mark
                        /\ asked \in [Rows -> BOOLEAN]
  BY <1>1, HolderFacts DEF HeldAt
<1>3. PICK at \in {"done", "failed"} : Goes(w, at) /\ (at = "failed" => asked' = asked)
  BY DEF Runs
<1>4. /\ asked' \in [Rows -> BOOLEAN] /\ \A q \in Rows : q # r => asked'[q] = asked[q]
      /\ asked'[r] => asked[r]
      /\ at = "done" => (asked'[r] => asked[r] /\ ~worker[w].force)
  <2>1. CASE asked' = asked /\ at = "failed"
    BY <1>2, <2>1
  <2>2. CASE asked' = [asked EXCEPT ![r] = asked[r] /\ ~worker[w].force]
    BY <1>2, <2>2
  <2>3. \/ asked' = asked /\ at = "failed"
        \/ asked' = [asked EXCEPT ![r] = asked[r] /\ ~worker[w].force]
    <3>1. CASE at = "failed"
      BY <1>3, <3>1
    <3>2. CASE at = "done"
      <4>1. ~Goes(w, "failed")
        BY <1>2, <1>3, <3>2 DEF Goes, BacklogInv, BacklogTypeOK, Hand
      <4>2. QED
        BY <1>2, <4>1 DEF Runs
    <3>3. QED
      BY <3>1, <3>2
  <2>4. QED
    BY <2>1, <2>2, <2>3
<1> DEFINE hand == [worker[w] EXCEPT !.at = at]
<1>5. hand \in Hand /\ hand.at = at /\ hand.id = r /\ ~hand.cool
  BY <1>2 DEF Hand, HeldAt
<1>6. worker' = [worker EXCEPT ![w] = hand]
  BY <1>3 DEF Goes
<1> HIDE DEF hand
<1>7. worker'[w] = hand
  BY <1>6 DEF BacklogInv, BacklogTypeOK
<1>8. ASSUME Exists(r), logs[r].status = "in_progress", ~logs[r].old,
             r \in Split => Splitting(r),
             r \notin Split => Pending(r), \A x \in Workers : x # w => ~Holds(x, r)'
      PROVE  RowOK(r)'
  <2>1. ~At(w, "runs", r)' /\ ~At(w, "split", r)' /\ (At(w, "done", r)' => at = "done")
    BY <1>5, <1>7 DEF At
  <2>2. At(w, "runs", r)
    BY <1>1, <1>2 DEF At
  <2>3. ASSUME r \notin Split
        PROVE  /\ asked'[r] => logs'[r].force
               /\ at = "done" => ~asked'[r]
    <3>1. (asked[r] => logs[r].force) /\ worker[w].force = logs[r].force
      BY <1>8, <2>2, <2>3 DEF Pending
    <3>2. QED
      BY <1>1, <1>4, <3>1
  <2>4. CASE r \notin Split
    BY <1>1, <1>8, <2>1, <2>3, <2>4, OneHolder
  <2>5. CASE r \in Split /\ Complete(r)
    BY <1>1, <2>5, SplitRowsExist, StillComplete DEF Exists
  <2>6. CASE r \in Split /\ ~Complete(r)
    <3>1. logs'[r].copy # "whole"
      BY <1>1, <1>8, <2>2, <2>6 DEF Splitting
    <3>2. QED
      BY <1>1, <1>8, <2>1, <2>6, <3>1, OneHolder
  <2>7. QED
    BY <2>4, <2>5, <2>6
<1>9. /\ hand.at \in {"idle"} \cup HeldAt /\ (hand.cool => hand.at = "idle")
      /\ (hand.at \in HeldAt => hand.id = r) /\ (hand.at = "split" => r \in Split)
  BY <1>5 DEF HeldAt
<1>10. Exists(r)' <=> Exists(r)
  BY <1>1 DEF Exists
<1>11. QED
  BY <1>1, <1>2, <1>4, <1>5, <1>6, <1>8, <1>9, <1>10, HolderMoves

\* The row is marked and let go.
LEMMA MarkedKeeps ==
    ASSUME BacklogConstants, BacklogInv, NEW w \in Workers, NEW r \in Rows, Holds(w, r),
           NEW cool \in BOOLEAN, Rests(w, cool), NEW mark \in Mark,
           logs' = IF Exists(r) THEN [logs EXCEPT ![r] = mark] ELSE logs,
           mark.status # "absent", mark.missed = logs[r].missed, mark.copy = logs[r].copy,
           r \notin Split /\ Pending(r) /\ asked[r] /\ logs[r].status = "in_progress" =>
              mark.status # "success" /\ (mark.force \/ mark.status = "error"),
           r \in Split /\ Splitting(r) /\ mark.status = "success" =>
              Complete(r) \/ mark.copy # "whole",
           UNCHANGED <<queue, subscribed, asked>>
    PROVE  BacklogInv'
<1> DEFINE hand == [Resting EXCEPT !.cool = cool]
<1>1. hand \in Hand /\ hand.at = "idle" /\ hand.at \notin HeldAt
  BY RestingHand
<1>2. worker' = [worker EXCEPT ![w] = hand]
  BY DEF Rests
<1> HIDE DEF hand
<1>3. /\ logs \in [Rows -> Mark] /\ asked \in [Rows -> BOOLEAN] /\ worker'[w] = hand
  BY <1>2 DEF BacklogInv, BacklogTypeOK
<1>4. /\ logs' \in [Rows -> Mark] /\ logs'[r].missed = logs[r].missed
      /\ Exists(r) => logs'[r] = mark
      /\ \A q \in Rows : q # r => logs'[q] = logs[q]
  BY <1>3
<1>5. \A q \in Rows : Exists(q)' <=> Exists(q)
  BY <1>3 DEF Exists
<1>6. ASSUME Exists(r), logs[r].status = "in_progress", r \in Split => Splitting(r),
             r \notin Split => Pending(r), \A x \in Workers : x # w => ~Holds(x, r)'
      PROVE  RowOK(r)'
  <2>1. ~Holds(w, r)' /\ ~At(w, "runs", r)' /\ ~At(w, "split", r)' /\ ~At(w, "done", r)'
    BY <1>1, <1>3 DEF At, Holds
  <2>2. CASE r \notin Split
    <3>1. asked'[r] => /\ logs'[r].status # "success"
                       /\ (logs'[r].force \/ logs'[r].status = "error")
      BY <1>4, <1>6, <2>2
    <3>2. QED
      BY <1>6, <2>1, <2>2, <3>1, OneHolder
  <2>3. CASE r \in Split /\ Complete(r)
    BY <1>4, <1>5, <2>3, SplitRowsExist, StillComplete
  <2>4. CASE r \in Split /\ ~Complete(r)
    <3>1. logs'[r].status = "success" => logs'[r].copy # "whole"
      BY <1>4, <1>6, <2>4
    <3>2. QED
      BY <1>6, <2>1, <2>4, <3>1, OneHolder
  <2>5. QED
    BY <2>2, <2>3, <2>4
<1>7. /\ hand.at \in {"idle"} \cup HeldAt /\ (hand.cool => hand.at = "idle")
      /\ (hand.at \in HeldAt => hand.id = r) /\ (hand.at = "split" => r \in Split)
  BY <1>1
<1>8. QED
  BY <1>1, <1>2, <1>3, <1>4, <1>5, <1>6, <1>7, HolderMoves

LEMMA SucceedsKeeps ==
    ASSUME BacklogConstants, BacklogInv, NEW w \in Workers, Succeeds(w)
    PROVE  BacklogInv'
<1>1. /\ worker[w].at = "done" /\ UNCHANGED <<queue, subscribed, asked>> /\ Rests(w, FALSE)
  BY DEF Succeeds, world
<1>2. PICK r \in Rows : r = worker[w].id /\ Holds(w, r) /\ logs[r] \in Mark
  BY <1>1, HolderFacts DEF HeldAt
<1> DEFINE mark == [logs[r] EXCEPT !.status = "success", !.force = FALSE]
<1>3. /\ mark \in Mark /\ mark.status = "success" /\ mark.missed = logs[r].missed
      /\ mark.copy = logs[r].copy
  BY <1>2 DEF Mark
<1>4. logs' = IF Exists(r) THEN [logs EXCEPT ![r] = mark] ELSE logs
  BY <1>2 DEF Succeeds
<1> HIDE DEF mark
<1>5. At(w, "done", r)
  BY <1>1, <1>2 DEF At
<1>6. r \notin Split /\ Pending(r) => ~asked[r]
  BY <1>5 DEF Pending
<1>7. r \in Split /\ Splitting(r) => Complete(r) \/ mark.copy # "whole"
  BY <1>3, <1>5 DEF Splitting
<1>8. QED
  BY <1>1, <1>2, <1>3, <1>4, <1>6, <1>7, MarkedKeeps

LEMMA FailsKeeps ==
    ASSUME BacklogConstants, BacklogInv, NEW w \in Workers, Fails(w)
    PROVE  BacklogInv'
<1>1. worker[w].at = "failed" /\ UNCHANGED <<queue, subscribed, asked>>
  BY DEF Fails, world
<1>2. PICK cool \in BOOLEAN : Rests(w, cool)
  BY DEF Fails
<1>3. PICK r \in Rows : r = worker[w].id /\ Holds(w, r) /\ logs[r] \in Mark /\ logs \in [Rows -> Mark]
  BY <1>1, HolderFacts DEF HeldAt
<1> DEFINE last == worker[w].attempts >= MaxAttempts
           error == [logs[r] EXCEPT !.status = "error", !.force = FALSE]
           retrying == [logs[r] EXCEPT !.status = "retrying", !.ready = FALSE]
<1>4. /\ error \in Mark /\ error.status = "error" /\ error.missed = logs[r].missed
      /\ error.copy = logs[r].copy
  BY <1>3 DEF Mark
<1>5. /\ retrying \in Mark /\ retrying.status = "retrying"
      /\ retrying.missed = logs[r].missed /\ retrying.copy = logs[r].copy
      /\ retrying.force = logs[r].force
  BY <1>3 DEF Mark
<1>6. PICK mark \in {error, retrying} :
          logs' = IF Exists(r) THEN [logs EXCEPT ![r] = mark] ELSE logs
  <2>1. CASE ~Exists(r)
    BY <1>3, <2>1 DEF Fails
  <2>2. CASE Exists(r) /\ last
    <3>1. logs' = [logs EXCEPT ![r] = error]
      BY <1>3, <2>2 DEF Fails
    <3>2. QED
      BY <2>2, <3>1
  <2>3. CASE Exists(r) /\ ~last
    <3>1. logs' = [logs EXCEPT ![r] = retrying]
      BY <1>3, <2>3 DEF Fails, Retrying
    <3>2. QED
      BY <2>3, <3>1
  <2>4. QED
    BY <2>1, <2>2, <2>3
<1> HIDE DEF error, retrying
<1>7. /\ mark \in Mark /\ mark.status \in {"error", "retrying"} /\ mark.missed = logs[r].missed
      /\ mark.copy = logs[r].copy /\ (mark.status # "error" => mark.force = logs[r].force)
  BY <1>4, <1>5
<1>8. r \notin Split /\ Pending(r) /\ asked[r] /\ logs[r].status = "in_progress" => logs[r].force
  BY DEF Pending
<1>9. QED
  BY <1>1, <1>2, <1>3, <1>6, <1>7, <1>8, MarkedKeeps

LEMMA BacklogStarts ==
    ASSUME BacklogConstants, Init
    PROVE  BacklogInv
<1>1. /\ Absent \in Mark /\ Absent.status = "absent" /\ Absent.copy = "none"
      /\ Resting \in Hand /\ Resting.at = "idle"
  BY DEF Absent, Resting, Mark, Hand, HeldAt
<1>2. /\ logs = [r \in Rows |-> Absent] /\ queue = <<>> /\ subscribed = TRUE
      /\ worker = [w \in Workers |-> Resting] /\ asked = [r \in Rows |-> FALSE]
  BY DEF Init
<1>3. BacklogTypeOK
  BY <1>1, <1>2 DEF BacklogTypeOK
<1>4. \A r \in Rows : ~Exists(r) /\ ~asked[r]
  BY <1>1, <1>2 DEF Exists
<1>5. \A w \in Workers : Handed(w)
  <2>1. Resting.cool = FALSE
    BY DEF Resting
  <2>2. QED
    BY <1>1, <1>2, <2>1 DEF Handed, HeldAt
<1>6. QED
  BY <1>3, <1>4, <1>5 DEF BacklogInv, Stored, RowOK

LEMMA BacklogSteps ==
    ASSUME BacklogConstants
    PROVE  BacklogInv /\ [Next]_vars => BacklogInv'
<1> SUFFICES ASSUME BacklogInv, [Next]_vars
             PROVE  BacklogInv'
  OBVIOUS
<1>1. CASE UNCHANGED <<logs, queue, subscribed, worker, asked>>
  BY <1>1 DEF BacklogInv, BacklogTypeOK, Stored, Handed, RowOK, Alone, Complete, Pending,
              Splitting, Exists, Holds, At
<1>2. CASE UNCHANGED vars
  BY <1>1, <1>2 DEF vars, store, world
<1>3. ASSUME NEW m \in Letters, Delivers(m) \/ LeavesInbox(m)
      PROVE  BacklogInv'
  BY <1>1, <1>3, DeliversKeeps DEF LeavesInbox, store
<1>4. ASSUME NEW r \in Rows, Retrigger(r) \/ BecomesReady(r) \/ Ages(r)
      PROVE  BacklogInv'
  BY <1>4, RetriggerKeeps, TimeKeeps
<1>5. CASE Deletes
  BY <1>5, DeletesKeeps
<1>6. ASSUME NEW w \in Workers, Work(w) \/ Dies(w) \/ Cools(w)
      PROVE  BacklogInv'
  <2>1. CASE Ticks(w) \/ Looks(w) \/ Claims(w) \/ ReadsMail(w) \/ Replays(w) \/ ReadFails(w)
    BY <2>1, TicksKeeps, LooksKeeps, ClaimsRowKeeps, ReadsMailKeeps, ReplaysKeeps,
       ReadFailsKeeps
  <2>2. CASE (\E k \in PDFs : SplitsOne(w, k)) \/ SplitEnds(w)
    BY <2>2, SplitsOneKeeps, SplitEndsKeeps
  <2>3. CASE Runs(w) \/ Succeeds(w) \/ Fails(w)
    BY <2>3, RunsKeeps, SucceedsKeeps, FailsKeeps
  <2>4. CASE Dies(w) \/ Cools(w)
    BY <2>4, DiesKeeps, CoolsKeeps
  <2>5. QED
    BY <1>6, <2>1, <2>2, <2>3, <2>4 DEF Work
<1>7. QED
  BY <1>2, <1>3, <1>4, <1>5, <1>6 DEF Next

\* Whatever workers claim, split, run, fail and die, and whatever the operator retriggers,
\* BacklogInv holds: a row is held by one worker, or its split is complete; a request is on
\* its row until it is processed as one; a split has gone through the PDFs it has behind it.
THEOREM BacklogInvariance ==
    ASSUME BacklogConstants
    PROVE  Spec => []BacklogInv
<1>1. Init => BacklogInv
  BY BacklogStarts
<1>2. BacklogInv /\ [Next]_vars => BacklogInv'
  BY BacklogSteps
<1>3. QED
  BY <1>1, <1>2, PTL DEF Spec

\* A row that succeeds after a retrigger has been processed as one (force of
\* retrigger_webhook_log), whatever attempts, crashes and replays came between.
THEOREM RetriggerHonoured ==
    ASSUME BacklogConstants
    PROVE  Spec => []RetriggerReplaces
<1>1. BacklogInv => RetriggerReplaces
  BY DEF BacklogInv, RowOK, Pending, RetriggerReplaces, Exists
<1>2. QED
  BY <1>1, BacklogInvariance, PTL

\* A split mail is a success once each of its PDFs has a row, but for those that could not
\* be copied (_split_into_children), also when two workers split the same mail.
THEOREM NoneLeftOut ==
    ASSUME BacklogConstants
    PROVE  Spec => []SplitComplete
<1>1. BacklogInv => SplitComplete
  <2> SUFFICES ASSUME BacklogInv, NEW m \in Split, logs[m].status = "success",
                      logs[m].copy = "whole"
               PROVE  Complete(m)
    BY DEF SplitComplete, Complete
  <2>1. m \in Rows
    BY RowTypes
  <2>2. QED
    BY <2>1 DEF BacklogInv, RowOK, Splitting, Exists
<1>2. QED
  BY <1>1, BacklogInvariance, PTL
=============================================================================
