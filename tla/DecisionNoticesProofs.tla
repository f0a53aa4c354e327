------------------------ MODULE DecisionNoticesProofs ------------------------
(***************************************************************************)
(* DecisionNotices for any number of passes, decisions, shutdowns and kills. *)
(***************************************************************************)
EXTENDS DecisionNotices, FiniteSetTheorems, TLAPS

Messages == Kinds \cup {"end"}
Stages == {"read", "reserve", "send"}
Statuses == {"running", "awaiting", "claimed", "over", "unanswered"}

\* The passes that have reserved a message of a kind and not yet sent it.
Sending(kind) == {t \in Passes : pc[t] = <<"send", kind>>}

RowType == [status : Statuses, asks : 0..Decisions, mark : [Kinds -> Passes \cup {None}],
            soon : BOOLEAN, due : BOOLEAN, endNotice : {"none", "pending", "sent"}]
Types ==
    /\ row \in RowType
    /\ pc \in [Passes -> {Idle} \cup (Stages \X Messages)]
    /\ tries \in [Kinds -> Nat] /\ again \in [Kinds -> Nat]
    /\ told \in Nat

\* A decision that waits for its message has a message left.
Owed(kind) ==
    Tried(kind) + (IF row.mark[kind] = None /\ row.asks > 0 THEN 1 ELSE 0)
        <= row.asks + again[kind]

\* The end is told by one pass, of a run that nobody will answer.
EndTold ==
    /\ told + Cardinality(Sending("end")) <= 1
    /\ told + Cardinality(Sending("end")) > 0 => row.endNotice = "sent"
    /\ row.endNotice # "none" => row.status = "unanswered"

Live == row.status \in {"awaiting", "claimed"} => row.asks > 0

NInv == Types /\ Live /\ (\A kind \in Kinds : Owed(kind)) /\ EndTold

-----------------------------------------------------------------------------
(* Counting the passes that send.                                           *)

LEMMA SendingFinite ==
    ASSUME NEW kind
    PROVE  IsFiniteSet(Sending(kind)) /\ Cardinality(Sending(kind)) \in Nat
<1>1. Sending(kind) \subseteq Passes /\ IsFiniteSet(Passes)
  BY NoticesAssumption DEF Sending
<1>2. IsFiniteSet(Sending(kind))
  BY <1>1, FS_Subset
<1> QED BY <1>2, FS_CardinalityType

\* A pass that goes to a place sends what the place says, and nothing else.
LEMMA SendingMoves ==
    ASSUME Types, NEW t \in Passes, NEW place, Goes(t, place), NEW kind
    PROVE  Sending(kind)' = IF place = <<"send", kind>> THEN Sending(kind) \cup {t}
                            ELSE Sending(kind) \ {t}
BY DEF Types, Goes, Sending

LEMMA SendingCount ==
    ASSUME Types, NEW t \in Passes, NEW place, Goes(t, place), NEW kind
    PROVE  LET before == Cardinality(Sending(kind))
               after == Cardinality(Sending(kind)')
           IN  /\ before \in Nat /\ after \in Nat
               /\ place = <<"send", kind>> /\ pc[t] # <<"send", kind>> => after = before + 1
               /\ place # <<"send", kind>> /\ pc[t] = <<"send", kind>> => before = after + 1
               /\ (place = <<"send", kind>>) = (pc[t] = <<"send", kind>>) => after = before
<1>1. IsFiniteSet(Sending(kind)) /\ Cardinality(Sending(kind)) \in Nat
  BY SendingFinite
<1>2. Sending(kind)' = IF place = <<"send", kind>> THEN Sending(kind) \cup {t}
                       ELSE Sending(kind) \ {t}
  BY SendingMoves
<1>3. t \in Sending(kind) <=> pc[t] = <<"send", kind>>
  BY DEF Sending
<1>4. CASE place = <<"send", kind>> /\ pc[t] # <<"send", kind>>
  <2>1. Sending(kind)' = Sending(kind) \cup {t} /\ t \notin Sending(kind)
    BY <1>2, <1>3, <1>4
  <2>2. Cardinality(Sending(kind) \cup {t}) = Cardinality(Sending(kind)) + 1
    BY <1>1, <2>1, FS_AddElement
  <2> QED BY <1>1, <1>4, <2>1, <2>2
<1>5. CASE place # <<"send", kind>> /\ pc[t] = <<"send", kind>>
  <2>1. Sending(kind)' = Sending(kind) \ {t} /\ t \in Sending(kind)
    BY <1>2, <1>3, <1>5
  <2>2. /\ Cardinality(Sending(kind) \ {t}) = Cardinality(Sending(kind)) - 1
        /\ IsFiniteSet(Sending(kind) \ {t})
    BY <1>1, <2>1, FS_RemoveElement
  <2>3. Cardinality(Sending(kind) \ {t}) \in Nat
    BY <2>2, FS_CardinalityType
  <2> QED BY <1>1, <1>5, <2>1, <2>2, <2>3
<1>6. CASE (place = <<"send", kind>>) = (pc[t] = <<"send", kind>>)
  <2>1. Sending(kind)' = Sending(kind)
    BY <1>2, <1>3, <1>6
  <2> QED BY <1>1, <1>6, <2>1
<1> QED BY <1>4, <1>5, <1>6

-----------------------------------------------------------------------------
(* Steps of the run.                                                        *)

\* Nothing is sent: the row keeps its marks, or asks for one more decision.
LEMMA RowMoves ==
    ASSUME NInv, row' \in RowType, pc' \in [Passes -> {Idle} \cup (Stages \X Messages)],
           \A kind \in Messages : Sending(kind)' = Sending(kind),
           tries' = tries, again' = again, told' = told,
           \/ row'.asks = row.asks /\ row'.mark = row.mark
           \/ row'.asks = row.asks + 1,
           row'.status \in {"awaiting", "claimed"} => row'.asks > 0,
           row.endNotice = "sent" => row'.endNotice = "sent",
           row'.endNotice # "none" => row'.status = "unanswered"
    PROVE  NInv'
<1>1. Types'
  BY DEF NInv, Types
<1>2. Live'
  BY DEF Live
<1>3. ASSUME NEW kind \in Kinds PROVE Owed(kind)'
  <2>1. Tried(kind)' = Tried(kind) /\ Tried(kind) \in Nat
    <3>1. kind \in Messages
      BY DEF Messages
    <3>2. Cardinality(Sending(kind)) \in Nat /\ Sending(kind)' = Sending(kind)
      BY <3>1, SendingFinite
    <3>3. Tried(kind) = tries[kind] + Cardinality(Sending(kind))
          /\ Tried(kind)' = tries'[kind] + Cardinality(Sending(kind)')
      BY DEF Tried, Sending
    <3> QED BY <3>2, <3>3 DEF NInv, Types
  <2>2. Owed(kind) /\ row.asks \in Nat /\ row'.asks \in Nat /\ again[kind] \in Nat
    BY DEF NInv, Types, RowType
  <2> QED BY <2>1, <2>2 DEF Owed
<1>4. EndTold'
  <2>1. Sending("end")' = Sending("end") /\ EndTold
    BY DEF Messages, NInv
  <2> QED BY <2>1 DEF EndTold
<1> QED BY <1>1, <1>2, <1>3, <1>4 DEF NInv

LEMMA ClosedFacts ==
    ASSUME NEW r \in RowType
    PROVE  /\ Closed(r) \in RowType /\ Closed(r).status = "unanswered"
           /\ Closed(r).asks = r.asks /\ Closed(r).mark = r.mark
           /\ Closed(r).endNotice = "pending"
BY DEF Closed, RowType, Statuses

LEMMA ExpiredFacts ==
    ASSUME NInv, row' = Expired(row)
    PROVE  /\ row' \in RowType /\ row'.asks = row.asks /\ row'.mark = row.mark
           /\ row'.status \in {"awaiting", "claimed"} => row'.asks > 0
           /\ row.endNotice = "sent" => row'.endNotice = "sent"
           /\ row'.endNotice # "none" => row'.status = "unanswered"
<1>1. row \in RowType /\ Live /\ EndTold
  BY DEF NInv, Types
<1>2. CASE row' = Closed(row) /\ row.status = "awaiting"
  BY <1>1, <1>2, ClosedFacts DEF EndTold
<1>3. CASE row' = row
  BY <1>1, <1>3 DEF EndTold, Live
<1> QED BY <1>2, <1>3 DEF Expired

LEMMA RunStep == ASSUME NInv, Run PROVE NInv'
<1>1. row \in RowType /\ Live /\ EndTold
      /\ pc \in [Passes -> {Idle} \cup (Stages \X Messages)]
  BY DEF NInv, Types
<1>2. /\ pc' = pc /\ tries' = tries /\ again' = again /\ told' = told
      /\ \A kind \in Messages : Sending(kind)' = Sending(kind)
  BY DEF Run, RowStep, Pause, Claim, Release, Answer, Finish, Close, Read,
         ReminderComes, DeadlinePasses, Sending
<1>3. CASE Pause
  <2> DEFINE one == [row EXCEPT !.status = "awaiting", !.asks = @ + 1,
                                !.mark = [k \in Kinds |-> None],
                                !.soon = FALSE, !.due = FALSE, !.endNotice = "none"]
  <2>1. row.status = "running" /\ row.asks < Decisions /\ row' = one
    BY <1>3 DEF Pause
  <2>2. row.asks + 1 \in 0..Decisions
    BY <1>1, <2>1, NoticesAssumption DEF RowType
  <2>3. one \in RowType /\ one.asks = row.asks + 1 /\ one.endNotice = "none"
    BY <1>1, <2>2 DEF RowType, Statuses
  <2>4. row.endNotice # "sent" /\ row.asks + 1 > 0
    BY <1>1, <2>1 DEF EndTold, RowType
  <2> HIDE DEF one
  <2> QED BY <1>1, <1>2, <2>1, <2>3, <2>4, RowMoves
<1>4. CASE Claim \/ Release \/ Answer \/ Finish
  <2>1. PICK status \in Statuses : row' = [row EXCEPT !.status = status]
    BY <1>4 DEF Claim, Release, Answer, Finish, Statuses
  <2>2. row.status # "unanswered"
        /\ (status \in {"awaiting", "claimed"} => row.status \in {"awaiting", "claimed"})
    BY <1>1, <1>4, <2>1 DEF Claim, Release, Answer, Finish, RowType
  <2>3. /\ row' \in RowType /\ row'.status = status /\ row'.asks = row.asks
        /\ row'.mark = row.mark /\ row'.endNotice = row.endNotice
    BY <1>1, <2>1 DEF RowType
  <2> QED BY <1>1, <1>2, <2>2, <2>3, RowMoves DEF Live, EndTold
<1>5. CASE Close
  <2>1. row' = Closed(row) /\ row.status # "unanswered"
    BY <1>5 DEF Close
  <2>2. row.endNotice # "sent"
    BY <1>1, <2>1 DEF EndTold
  <2> QED BY <1>1, <1>2, <2>1, <2>2, ClosedFacts, RowMoves
<1>6. CASE Read
  BY <1>1, <1>2, <1>6, ExpiredFacts, RowMoves DEF Read
<1>7. CASE ReminderComes \/ DeadlinePasses
  <2>1. /\ row' \in RowType /\ row'.status = row.status /\ row'.asks = row.asks
        /\ row'.mark = row.mark /\ row'.endNotice = row.endNotice
    BY <1>1, <1>7 DEF ReminderComes, DeadlinePasses, RowType
  <2> QED BY <1>1, <1>2, <2>1, RowMoves DEF Live, EndTold
<1> QED BY <1>3, <1>4, <1>5, <1>6, <1>7 DEF Run

-----------------------------------------------------------------------------
(* Steps of a pass.                                                         *)

Places == {Idle} \cup (Stages \X Messages)

LEMMA AfterFacts ==
    ASSUME NEW kind \in Messages
    PROVE  After(kind) \in Places /\ \A k : After(kind) # <<"send", k>>
BY DEF After, Messages, Kinds, Places, Stages, Idle

LEMMA PlaceTypes ==
    ASSUME Types, NEW t \in Passes, NEW place \in Places, Goes(t, place)
    PROVE  pc' \in [Passes -> {Idle} \cup (Stages \X Messages)]
BY DEF Types, Goes, Places

\* A pass that looks, and sends neither before nor after.
LEMMA LookStep ==
    ASSUME NInv, NEW t \in Passes, NEW place \in Places, Goes(t, place),
           \A k \in Messages : pc[t] # <<"send", k>> /\ place # <<"send", k>>,
           row' \in RowType, row'.asks = row.asks, row'.mark = row.mark,
           row'.status \in {"awaiting", "claimed"} => row'.asks > 0,
           row.endNotice = "sent" => row'.endNotice = "sent",
           row'.endNotice # "none" => row'.status = "unanswered",
           tries' = tries, again' = again, told' = told
    PROVE  NInv'
<1>1. Types
  BY DEF NInv
<1>2. \A k \in Messages : Sending(k)' = Sending(k)
  <2> SUFFICES ASSUME NEW k \in Messages PROVE Sending(k)' = Sending(k)
    OBVIOUS
  <2>1. t \notin Sending(k)
    BY DEF Sending
  <2> QED BY <1>1, <2>1, SendingMoves
<1> QED BY <1>1, <1>2, PlaceTypes, RowMoves

LEMMA BeginStep == ASSUME NInv, NEW t \in Passes, Begin(t) PROVE NInv'
<1>1. pc[t] = Idle /\ row' = Expired(row) /\ Goes(t, <<"read", "notice">>)
      /\ tries' = tries /\ again' = again /\ told' = told
  BY DEF Begin
<1>2. <<"read", "notice">> \in Places
  BY DEF Places, Stages, Messages, Kinds
<1>3. \A k : pc[t] # <<"send", k>> /\ <<"read", "notice">> # <<"send", k>>
  BY <1>1 DEF Idle
<1> QED BY <1>1, <1>2, <1>3, ExpiredFacts, LookStep

LEMMA RowAsIs ==
    ASSUME NInv
    PROVE  /\ row \in RowType
           /\ row.status \in {"awaiting", "claimed"} => row.asks > 0
           /\ row.endNotice # "none" => row.status = "unanswered"
BY DEF NInv, Types, Live, EndTold

LEMMA ReadStep ==
    ASSUME NInv, NEW t \in Passes, NEW kind \in Messages, ReadRow(t, kind)
    PROVE  NInv'
<1>1. PICK place \in {<<"reserve", kind>>, After(kind)} : Goes(t, place)
  BY DEF ReadRow
<1>2. pc[t] = <<"read", kind>> /\ row' = row /\ tries' = tries /\ again' = again /\ told' = told
  BY DEF ReadRow
<1>3. place \in Places /\ \A k : pc[t] # <<"send", k>> /\ place # <<"send", k>>
  BY <1>1, <1>2, AfterFacts DEF Places, Stages
<1> QED BY <1>1, <1>2, <1>3, RowAsIs, LookStep

\* A pass that is killed, or cancelled while it sends nothing.
LEMMA LeaveStep ==
    ASSUME NInv, NEW t \in Passes, Goes(t, Idle), row' = row, tries' = tries,
           again' = again, told' = told
    PROVE  NInv'
<1>1. Types /\ Live /\ EndTold
  BY DEF NInv
<1>2. \A k : Idle # <<"send", k>>
  BY DEF Idle
<1>3. Types'
  BY <1>1, PlaceTypes DEF Types, Places
<1>4. ASSUME NEW k \in Messages
      PROVE  /\ Cardinality(Sending(k)') <= Cardinality(Sending(k))
             /\ Cardinality(Sending(k)) \in Nat /\ Cardinality(Sending(k)') \in Nat
  BY <1>1, <1>2, SendingCount
<1>5. ASSUME NEW k \in Kinds PROVE Owed(k)'
  <2>1. Tried(k)' <= Tried(k) /\ Tried(k) \in Nat /\ Tried(k)' \in Nat
    <3>1. k \in Messages
      BY DEF Messages
    <3>2. Tried(k) = tries[k] + Cardinality(Sending(k))
          /\ Tried(k)' = tries[k] + Cardinality(Sending(k)')
      BY DEF Tried, Sending
    <3> QED BY <1>1, <1>4, <3>1, <3>2 DEF Types
  <2>2. Owed(k) /\ row.asks \in Nat /\ again[k] \in Nat
    BY <1>1 DEF NInv, Types, RowType
  <2> QED BY <2>1, <2>2 DEF Owed
<1>6. EndTold'
  <2>1. "end" \in Messages
    BY DEF Messages
  <2> QED BY <1>1, <1>4, <2>1 DEF EndTold, Types
<1> QED BY <1>1, <1>3, <1>5, <1>6 DEF NInv, Live

\* The messages of the other kinds, when a pass reserves or sends one of kind.
LEMMA OtherKinds ==
    ASSUME Types, NEW t \in Passes, NEW kind, NEW place, Goes(t, place),
           pc[t] = <<"send", kind>> \/ pc[t][1] # "send",
           place = <<"send", kind>> \/ \A k : place # <<"send", k>>
    PROVE  \A k : k # kind => Sending(k)' = Sending(k)
<1> SUFFICES ASSUME NEW k, k # kind PROVE Sending(k)' = Sending(k)
  OBVIOUS
<1>1. pc[t] # <<"send", k>> /\ place # <<"send", k>>
  OBVIOUS
<1>2. t \notin Sending(k)
  BY <1>1 DEF Sending
<1> QED BY <1>1, <1>2, SendingMoves

\* Only kind's account moves.
LEMMA AccountsKeep ==
    ASSUME NInv, NEW kind \in Kinds, row' \in RowType,
           pc' \in [Passes -> {Idle} \cup (Stages \X Messages)],
           row'.asks = row.asks, row'.status = row.status, row'.endNotice = row.endNotice,
           \A k \in Kinds : k # kind => row'.mark[k] = row.mark[k] /\ tries'[k] = tries[k]
                                       /\ again'[k] = again[k],
           \A k : k # kind => Sending(k)' = Sending(k),
           tries' \in [Kinds -> Nat], again' \in [Kinds -> Nat], told' = told,
           Owed(kind)'
    PROVE  NInv'
<1>1. Types' /\ Live'
  BY DEF NInv, Types, Live
<1>2. ASSUME NEW k \in Kinds, k # kind PROVE Owed(k)'
  <2>1. Owed(k)
    BY DEF NInv
  <2>2. Tried(k) = tries[k] + Cardinality(Sending(k))
        /\ Tried(k)' = tries'[k] + Cardinality(Sending(k)')
    BY DEF Tried, Sending
  <2> QED BY <1>2, <2>1, <2>2 DEF Owed
<1>3. EndTold'
  <2>1. Sending("end")' = Sending("end") /\ EndTold
    BY DEF Kinds, NInv
  <2> QED BY <2>1 DEF EndTold
<1> QED BY <1>1, <1>2, <1>3 DEF NInv

LEMMA ReserveStep ==
    ASSUME NInv, NEW t \in Passes, NEW kind \in Messages, Reserve(t, kind)
    PROVE  NInv'
<1>1. /\ Types /\ Live /\ EndTold /\ row \in RowType /\ pc[t] = <<"reserve", kind>>
      /\ tries' = tries /\ again' = again /\ told' = told
  BY DEF NInv, Types, Reserve
<1>2. CASE ~Reservable(kind)
  <2>1. Goes(t, After(kind)) /\ row' = row
    BY <1>2 DEF Reserve
  <2>2. After(kind) \in Places /\ \A k : pc[t] # <<"send", k>> /\ After(kind) # <<"send", k>>
    BY <1>1, AfterFacts
  <2> QED BY <1>1, <2>1, <2>2, RowAsIs, LookStep
<1>3. CASE Reservable(kind)
  <2> DEFINE place == <<"send", kind>>
  <2>1. Goes(t, place) /\ place \in Places
    BY <1>3 DEF Reserve, Places, Stages
  <2>2. pc' \in [Passes -> {Idle} \cup (Stages \X Messages)]
    BY <1>1, <2>1, PlaceTypes
  <2>3. \A k : k # kind => Sending(k)' = Sending(k)
    BY <1>1, <2>1, OtherKinds
  <2>4. /\ Cardinality(Sending(kind)) \in Nat
        /\ Cardinality(Sending(kind)') = Cardinality(Sending(kind)) + 1
    BY <1>1, <2>1, SendingCount
  <2>5. CASE kind # "end"
    <3>1. kind \in Kinds /\ row' = [row EXCEPT !.mark[kind] = t]
          /\ row.status = "awaiting" /\ row.mark[kind] = None
      BY <1>3, <2>5 DEF Reserve, Reservable, Messages
    <3> DEFINE one == [row EXCEPT !.mark[kind] = t]
    <3>2. /\ one \in RowType /\ one.asks = row.asks /\ one.status = row.status
          /\ one.endNotice = row.endNotice /\ one.mark[kind] = t
          /\ \A k \in Kinds : k # kind => one.mark[k] = row.mark[k]
      BY <1>1, <3>1 DEF RowType
    <3> HIDE DEF one
    <3>3. Owed(kind)'
      <4>1. Owed(kind) /\ row.asks \in Nat /\ row.asks > 0 /\ again[kind] \in Nat
            /\ tries[kind] \in Nat /\ t # None
        BY <1>1, <3>1, NoticesAssumption DEF NInv, Types, RowType, Live
      <4>2. Tried(kind) = tries[kind] + Cardinality(Sending(kind))
            /\ Tried(kind)' = tries[kind] + Cardinality(Sending(kind)')
        BY <1>1 DEF Tried, Sending
      <4>3. Tried(kind) + 1 <= row.asks + again[kind]
        BY <3>1, <4>1 DEF Owed
      <4>4. row' = one
        BY <3>1 DEF one
      <4> QED BY <1>1, <2>4, <3>2, <4>1, <4>2, <4>3, <4>4 DEF Owed
    <3>4. row' = one
      BY <3>1 DEF one
    <3> QED BY <1>1, <2>2, <2>3, <3>1, <3>2, <3>3, <3>4, AccountsKeep DEF Types
  <2>6. CASE kind = "end"
    <3>1. row' = [row EXCEPT !.endNotice = "sent"] /\ row.endNotice = "pending"
      BY <1>3, <2>6 DEF Reserve, Reservable
    <3> DEFINE one == [row EXCEPT !.endNotice = "sent"]
    <3>2. /\ one \in RowType /\ one.asks = row.asks /\ one.status = row.status
          /\ one.endNotice = "sent" /\ one.mark = row.mark
      BY <1>1 DEF RowType
    <3>3. row' = one
      BY <3>1
    <3> HIDE DEF one
    <3>4. Types' /\ Live'
      BY <1>1, <2>2, <3>2, <3>3 DEF Types, Live
    <3>5. ASSUME NEW k \in Kinds PROVE Owed(k)'
      <4>1. k # kind /\ Owed(k)
        BY <2>6 DEF Kinds, NInv
      <4>2. Tried(k) = tries[k] + Cardinality(Sending(k))
            /\ Tried(k)' = tries[k] + Cardinality(Sending(k)')
        BY <1>1 DEF Tried, Sending
      <4> QED BY <1>1, <2>3, <3>2, <3>3, <4>1, <4>2 DEF Owed
    <3>6. EndTold'
      BY <1>1, <2>4, <2>6, <3>1, <3>2, <3>3 DEF EndTold, Types
    <3> QED BY <3>4, <3>5, <3>6 DEF NInv
  <2> QED BY <2>5, <2>6
<1> QED BY <1>2, <1>3

\* A message of kind left, or did not, and the pass goes on: a message tried is
\* one that was reserved, and a reservation given back is counted.
LEMMA SentStep ==
    ASSUME NInv, NEW t \in Passes, NEW kind \in Kinds, NEW place \in Places,
           Goes(t, place), pc[t] = <<"send", kind>>, \A k : place # <<"send", k>>,
           told' = told,
           (tries' = tries) \/ (tries' = [tries EXCEPT ![kind] = @ + 1]),
           \/ row' = row /\ again' = again
           \/ /\ row' = [row EXCEPT !.mark[kind] = None]
              /\ again' = [again EXCEPT ![kind] = @ + 1]
    PROVE  NInv'
<1>1. Types /\ row \in RowType
  BY DEF NInv, Types
<1>2. pc' \in [Passes -> {Idle} \cup (Stages \X Messages)]
  BY <1>1, PlaceTypes
<1>3. \A k : k # kind => Sending(k)' = Sending(k)
  BY <1>1, OtherKinds
<1>4. /\ Cardinality(Sending(kind)) \in Nat /\ Cardinality(Sending(kind)') \in Nat
      /\ Cardinality(Sending(kind)) = Cardinality(Sending(kind)') + 1
  BY <1>1, SendingCount
<1>5. /\ tries' \in [Kinds -> Nat] /\ tries'[kind] \in {tries[kind], tries[kind] + 1}
      /\ \A k \in Kinds : k # kind => tries'[k] = tries[k]
  BY <1>1 DEF Types
<1>6. /\ row' \in RowType /\ row'.asks = row.asks /\ row'.status = row.status
      /\ row'.endNotice = row.endNotice
      /\ \A k \in Kinds : k # kind => row'.mark[k] = row.mark[k]
      /\ row' # row => again'[kind] = again[kind] + 1
      /\ again' \in [Kinds -> Nat] /\ again'[kind] \in {again[kind], again[kind] + 1}
      /\ \A k \in Kinds : k # kind => again'[k] = again[k]
  BY <1>1 DEF Types, RowType
<1>7. Owed(kind)'
  <2>1. /\ Owed(kind) /\ row.asks \in Nat /\ again[kind] \in Nat /\ tries[kind] \in Nat
    BY <1>1 DEF NInv, Types, RowType
  <2>2. Tried(kind) = tries[kind] + Cardinality(Sending(kind))
        /\ Tried(kind)' = tries'[kind] + Cardinality(Sending(kind)')
    BY DEF Tried, Sending
  <2>3. Tried(kind)' <= Tried(kind) /\ Tried(kind) \in Nat /\ Tried(kind)' \in Nat
    BY <1>4, <1>5, <2>1, <2>2
  <2>4. CASE row' = row
    BY <1>6, <2>1, <2>3, <2>4 DEF Owed
  <2>5. CASE row' # row
    BY <1>6, <2>1, <2>3, <2>5 DEF Owed
  <2> QED BY <2>4, <2>5
<1> QED BY <1>2, <1>3, <1>5, <1>6, <1>7, AccountsKeep

LEMMA SendStep ==
    ASSUME NInv, NEW t \in Passes, NEW kind \in Kinds, Send(t, kind) PROVE NInv'
<1>1. kind \in Messages /\ pc[t] = <<"send", kind>> /\ Goes(t, After(kind))
      /\ row' = row /\ again' = again /\ told' = told
      /\ tries' = [tries EXCEPT ![kind] = @ + 1]
  BY DEF Send, Attempt, Messages
<1> QED BY <1>1, AfterFacts, SentStep

\* The end is told, or the reservation to tell it given back.
LEMMA EndStep ==
    ASSUME NInv, NEW t \in Passes, Goes(t, Idle), pc[t] = <<"send", "end">>,
           tries' = tries, again' = again,
           \/ row' = row /\ told' = told + 1
           \/ row' = GivenBack(t, "end") /\ told' = told
    PROVE  NInv'
<1>1. Types /\ Live /\ EndTold /\ row \in RowType
  BY DEF NInv, Types
<1>2. Idle \in Places /\ \A k : Idle # <<"send", k>>
  BY DEF Places, Idle
<1>3. pc' \in [Passes -> {Idle} \cup (Stages \X Messages)]
  BY <1>1, <1>2, PlaceTypes
<1>4. \A k : k # "end" => Sending(k)' = Sending(k)
  BY <1>1, <1>2, OtherKinds
<1>5. /\ Cardinality(Sending("end")) \in Nat /\ Cardinality(Sending("end")') \in Nat
      /\ Cardinality(Sending("end")) = Cardinality(Sending("end")') + 1
  BY <1>1, <1>2, SendingCount
<1>6. /\ row' \in RowType /\ row'.asks = row.asks /\ row'.status = row.status
      /\ row'.mark = row.mark /\ row'.endNotice \in {row.endNotice, "pending"}
      /\ row.endNotice = "sent" /\ (told' = told \/ row'.endNotice = "sent")
  BY <1>1, <1>5 DEF GivenBack, RowType, EndTold, Types
<1>7. Types' /\ Live'
  BY <1>1, <1>3, <1>6 DEF Types, Live
<1>8. ASSUME NEW k \in Kinds PROVE Owed(k)'
  <2>1. k # "end" /\ Owed(k)
    BY DEF Kinds, NInv
  <2>2. Tried(k) = tries[k] + Cardinality(Sending(k))
        /\ Tried(k)' = tries[k] + Cardinality(Sending(k)')
    BY DEF Tried, Sending
  <2> QED BY <1>4, <1>6, <2>1, <2>2 DEF Owed
<1>9. EndTold'
  <2>1. told \in Nat /\ told = 0 /\ Cardinality(Sending("end")') = 0
    BY <1>1, <1>5 DEF EndTold, Types
  <2> QED BY <1>1, <1>6, <2>1 DEF EndTold
<1> QED BY <1>7, <1>8, <1>9 DEF NInv

LEMMA CutStep == ASSUME NInv, NEW t \in Passes, Cut(t) PROVE NInv'
<1>1. Goes(t, Idle) /\ told' = told
  BY DEF Cut
<1>2. Idle \in Places /\ \A k : Idle # <<"send", k>>
  BY DEF Places, Idle
<1>3. CASE UNCHANGED <<row, sent, tries, again>>
  BY <1>1, <1>3, LeaveStep
<1>4. CASE pc[t] = <<"send", "end">> /\ row' = GivenBack(t, "end")
           /\ UNCHANGED <<sent, tries, again>>
  BY <1>1, <1>4, EndStep
<1>5. ASSUME NEW kind \in Kinds, pc[t] = <<"send", kind>>, row' = GivenBack(t, kind),
             again' = IF row.mark[kind] = t THEN [again EXCEPT ![kind] = @ + 1] ELSE again,
             UNCHANGED <<sent, tries>> \/ Attempt(t, kind)
      PROVE  NInv'
  <2>1. kind # "end"
    BY DEF Kinds
  <2>2. \/ row' = row /\ again' = again
        \/ /\ row' = [row EXCEPT !.mark[kind] = None]
           /\ again' = [again EXCEPT ![kind] = @ + 1]
    BY <1>5, <2>1 DEF GivenBack
  <2>3. tries' = tries \/ tries' = [tries EXCEPT ![kind] = @ + 1]
    BY <1>5 DEF Attempt
  <2> QED BY <1>1, <1>2, <1>5, <2>2, <2>3, SentStep
<1> QED BY <1>3, <1>4, <1>5 DEF Cut

-----------------------------------------------------------------------------
(* Theorems.                                                                *)

\* The inductive invariant: a decision whose column is free has a message left, and
\* the end is reserved, or told, by at most one pass.
THEOREM Invariance == Spec => []NInv
<1>1. ASSUME Init PROVE NInv
  <2>1. \A k : Sending(k) = {}
    BY <1>1 DEF Init, Sending, Idle
  <2>2. Cardinality({}) = 0
    BY FS_EmptySet
  <2>3. Types
    <3>1. 0 \in 0..Decisions
      BY NoticesAssumption
    <3>2. row \in RowType
      BY <1>1, <3>1 DEF Init, RowType, Statuses
    <3> QED BY <1>1, <3>2 DEF Init, Types
  <2>4. row.asks = 0 /\ row.status = "running" /\ row.endNotice = "none" /\ told = 0
        /\ \A k \in Kinds : tries[k] = 0 /\ again[k] = 0
    BY <1>1 DEF Init
  <2>5. ASSUME NEW k \in Kinds PROVE Owed(k)
    <3>1. Tried(k) = tries[k] + Cardinality(Sending(k))
      BY DEF Tried, Sending
    <3> QED BY <2>1, <2>2, <2>4, <3>1 DEF Owed
  <2> QED BY <2>1, <2>2, <2>3, <2>4, <2>5 DEF NInv, Live, EndTold
<1>2. ASSUME NInv, [Next]_vars PROVE NInv'
  <2>1. CASE Run
    BY <1>2, <2>1, RunStep
  <2>2. ASSUME NEW t \in Passes, Pass(t) PROVE NInv'
    <3>1. CASE Begin(t)
      BY <1>2, <3>1, BeginStep
    <3>2. CASE TellEnd(t)
      BY <1>2, <3>2, EndStep DEF TellEnd
    <3>3. ASSUME NEW kind \in Messages, ReadRow(t, kind) \/ Reserve(t, kind) \/ Send(t, kind)
          PROVE  NInv'
      BY <1>2, <3>3, ReadStep, ReserveStep, SendStep DEF Send
    <3> QED BY <2>2, <3>1, <3>2, <3>3 DEF Pass, Messages
  <2>3. ASSUME NEW t \in Passes, Cut(t) PROVE NInv'
    BY <1>2, <2>3, CutStep
  <2>4. ASSUME NEW t \in Passes, Killed(t) PROVE NInv'
    BY <1>2, <2>4, LeaveStep DEF Killed
  <2>5. CASE UNCHANGED vars
    <3>1. \A k : Sending(k)' = Sending(k)
      BY <2>5 DEF vars, Sending
    <3>2. row' = row /\ pc' = pc /\ tries' = tries /\ again' = again /\ told' = told
      BY <2>5 DEF vars
    <3> QED BY <1>2, <3>1, <3>2, RowAsIs, RowMoves DEF NInv, Types
  <2> QED BY <1>2, <2>1, <2>2, <2>3, <2>4, <2>5 DEF Next
<1> QED BY <1>1, <1>2, PTL DEF Spec

\* Whatever the passes of the replicas meet on the row, each pause is announced and
\* reminded at most once, but for the reservations their own pass gave back.
THEOREM OnePerPause == Spec => []OncePerPause
<1>1. NInv => OncePerPause
  <2> SUFFICES ASSUME NInv, NEW kind \in Kinds PROVE Tried(kind) <= row.asks + again[kind]
    BY DEF OncePerPause
  <2>1. Owed(kind) /\ row.asks \in Nat /\ again[kind] \in Nat /\ tries[kind] \in Nat
    BY DEF NInv, Types, RowType
  <2>2. Tried(kind) = tries[kind] + Cardinality(Sending(kind))
        /\ Cardinality(Sending(kind)) \in Nat
    BY SendingFinite DEF Tried, Sending
  <2> QED BY <2>1, <2>2 DEF Owed
<1> QED BY <1>1, Invariance, PTL

\* The listeners of an end without an answer are told of it by one pass, once.
THEOREM ToldOnce == Spec => []EndToldOnce
<1>1. NInv => EndToldOnce
  <2> SUFFICES ASSUME NInv PROVE EndToldOnce
    OBVIOUS
  <2>1. EndTold /\ told \in Nat /\ Cardinality(Sending("end")) \in Nat
    BY SendingFinite DEF NInv, Types
  <2>2. told + Cardinality({t \in Passes : pc[t] = <<"send", "end">>}) <= 1
    BY <2>1 DEF EndTold, Sending
  <2> QED BY <2>1, <2>2 DEF EndTold, EndToldOnce
<1> QED BY <1>1, Invariance, PTL
=============================================================================
