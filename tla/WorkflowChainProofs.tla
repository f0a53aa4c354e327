------------------------- MODULE WorkflowChainProofs -------------------------
(***************************************************************************)
(* WorkflowChain for every set of workflows, of listeners and of tools, and *)
(* every number of runs.                                                    *)
(***************************************************************************)
EXTENDS WorkflowChain, WellFoundedInduction, TLAPS

RunType ==
    [wf : Workflows \cup {None}, chain : Seq(Workflows), parent : Runs \cup {None},
     kind : {"user", "workflow_done", "agent_tool"},
     status : {"absent", "running", "awaiting"} \cup Ended]

TypeOK ==
    /\ run \in [Runs -> RunType]
    /\ pc \in [Runs -> {"none", "live", "telling"}]
    /\ todo \in [Runs -> SUBSET Listeners]
    /\ call \in [Runs -> Runs \cup {Answered, None}]
    /\ published \subseteq Workflows
    /\ owed \in [Runs -> SUBSET Workflows]
    /\ cut \subseteq Runs

\* A run is launched by one that is older, or by nobody.
Lineage ==
    /\ \A r, s \in Runs : run[r].status = "absent" /\ r < s => run[s].status = "absent"
    /\ \A r \in Runs : run[r].status = "absent" => run[r].kind = "user"
    /\ \A r \in Runs : run[r].status # "absent" => run[r].wf \in Workflows
    /\ \A r \in Runs : run[r].kind # "user" =>
          /\ run[r].parent \in Runs /\ run[r].parent < r
          /\ run[run[r].parent].status # "absent"

\* The chain a run carries is the chain of the run whose end launched it, and
\* its workflow; a run launched by a tool carries its own workflow.
Chained ==
    \A r \in Runs :
        /\ run[r].kind = "user" => run[r].chain = <<>>
        /\ run[r].kind = "agent_tool" => run[r].chain = <<run[r].wf>>
        /\ run[r].kind = "workflow_done" =>
              LET p == run[r].parent IN
              /\ run[p].kind # "agent_tool"
              /\ run[r].chain = Append(run[p].chain, run[p].wf)
        /\ run[r].kind # "agent_tool" =>
              Distinct(run[r].chain) /\ Len(run[r].chain) <= MaxChain

\* A task runs while its run does, then tells its end.
Tasks ==
    \A r \in Runs :
        /\ pc[r] = "live" <=> run[r].status = "running"
        /\ pc[r] = "telling" => run[r].status \in Ended
        /\ pc[r] # "telling" => todo[r] = {}

Child(c, r, w) ==
    run[c].kind = "workflow_done" /\ run[c].parent = r /\ run[c].wf = w

\* Whoever listened is launched, or still to be launched.
Heard(r) ==
    run[r].status \in Ended /\ r \notin cut /\ NextChain(run[r].chain, run[r].wf) # None
       => \A w \in owed[r] \cap published :
              \/ \E c \in Runs : Child(c, r, w)
              \/ \E l \in todo[r] : l.run = w

IInv ==
    /\ TypeOK
    /\ Lineage
    /\ Chained
    /\ Tasks
    /\ \A r \in Runs : Heard(r)

-----------------------------------------------------------------------------
(* The causes of a run are the chain it carries.                            *)

\* NextChain appends, or stops.
LEMMA NextChainIs ==
    ASSUME NEW prior \in Seq(Workflows), NEW w \in Workflows
    PROVE  /\ NextChain(prior, w) # None <=>
                 (\A k \in DOMAIN prior : prior[k] # w) /\ Len(prior) < MaxChain
           /\ NextChain(prior, w) # None => NextChain(prior, w) = Append(prior, w)
<1>1. Append(prior, w) \in Seq(Workflows) /\ Len(prior) \in Nat
  OBVIOUS
<1>2. Append(prior, w) # None
  BY <1>1, ChainAssumption
<1>3. QED
  BY <1>1, <1>2, ChainAssumption DEF NextChain

LEMMA DistinctAppend ==
    ASSUME NEW s \in Seq(Workflows), NEW w \in Workflows, Distinct(s),
           \A k \in DOMAIN s : s[k] # w
    PROVE  Distinct(Append(s, w))
  BY DEF Distinct

\* The only function that Causes may be.
CauseOf == [r \in Runs |-> IF run[r].kind # "workflow_done" THEN <<>> ELSE run[r].chain]

LEMMA CausesAre == IInv => Causes = CauseOf
<1> SUFFICES ASSUME IInv
             PROVE  Causes = CauseOf
  OBVIOUS
<1> DEFINE Step(f) == [r \in Runs |-> IF run[r].kind # "workflow_done" THEN <<>>
                          ELSE Append(f[run[r].parent], run[run[r].parent].wf)]
<1>1. CauseOf = Step(CauseOf)
  <2>1. ASSUME NEW r \in Runs, run[r].kind = "workflow_done"
        PROVE  CauseOf[r] = Append(CauseOf[run[r].parent], run[run[r].parent].wf)
    BY <2>1 DEF CauseOf, IInv, TypeOK, RunType, Lineage, Chained
  <2>2. QED
    BY <2>1 DEF CauseOf
<1>2. Causes = CHOOSE f : f = Step(f)
  BY DEF Causes
<1>3. PICK f : f = Step(f) /\ Causes = f
  BY <1>1, <1>2
<1>4. ASSUME NEW r \in Runs, \A q \in Runs : q < r => f[q] = CauseOf[q]
      PROVE  f[r] = CauseOf[r]
  <2> HIDE DEF Step
  <2>1. f[r] = Step(f)[r] /\ CauseOf[r] = Step(CauseOf)[r]
    BY <1>1, <1>3
  <2>2. CASE run[r].kind = "workflow_done"
    <3>1. run[r].parent \in Runs /\ run[r].parent < r
      BY <2>2 DEF IInv, Lineage
    <3>2. f[run[r].parent] = CauseOf[run[r].parent]
      BY <1>4, <3>1
    <3>3. QED
      BY <2>1, <2>2, <3>2 DEF Step
  <2>3. CASE run[r].kind # "workflow_done"
    BY <2>1, <2>3 DEF Step
  <2>4. QED
    BY <2>2, <2>3
<1>5. \A r \in Runs : f[r] = CauseOf[r]
  <2> DEFINE T == {r \in Runs : f[r] # CauseOf[r]}
  <2>1. SUFFICES ASSUME T # {}
                 PROVE  FALSE
    OBVIOUS
  <2>2. T \subseteq Nat
    BY DEF Runs
  <2>3. \E x \in T : \A y \in T : ~ (<<y, x>> \in OpToRel(<, Nat))
    BY <2>1, <2>2, NatLessThanWellFounded, WFMin
  <2>4. PICK x \in T : \A y \in T : ~ (y < x)
    BY <2>2, <2>3 DEF OpToRel
  <2>5. QED
    BY <1>4, <2>4
<1>6. QED
  BY <1>3, <1>5 DEF CauseOf

-----------------------------------------------------------------------------
(* The steps.                                                               *)

\* What a run was launched with.
Same(q) ==
    /\ run'[q].wf = run[q].wf /\ run'[q].chain = run[q].chain
    /\ run'[q].parent = run[q].parent /\ run'[q].kind = run[q].kind
    /\ (run'[q].status = "absent") = (run[q].status = "absent")

\* A step that launches no run.
LEMMA NoLaunch ==
    ASSUME IInv, \A q \in Runs : Same(q)
    PROVE  Lineage' /\ Chained'
<1>1. Lineage'
  BY DEF IInv, Lineage, Same
<1>2. Chained'
  <2>1. SUFFICES ASSUME NEW q \in Runs
                 PROVE  /\ run'[q].kind = "user" => run'[q].chain = <<>>
                        /\ run'[q].kind = "agent_tool" => run'[q].chain = <<run'[q].wf>>
                        /\ run'[q].kind = "workflow_done" =>
                              LET p == run'[q].parent IN
                              /\ run'[p].kind # "agent_tool"
                              /\ run'[q].chain = Append(run'[p].chain, run'[p].wf)
                        /\ run'[q].kind # "agent_tool" =>
                              Distinct(run'[q].chain) /\ Len(run'[q].chain) <= MaxChain
    BY DEF Chained, Distinct
  <2>2. run[q].kind = "workflow_done" => run[q].parent \in Runs
    BY DEF IInv, Lineage
  <2>3. /\ run'[q].wf = run[q].wf /\ run'[q].chain = run[q].chain
        /\ run'[q].parent = run[q].parent /\ run'[q].kind = run[q].kind
    BY DEF Same
  <2>4. CASE run[q].kind = "workflow_done"
    <3> DEFINE p == run[q].parent
    <3>1. run'[p].wf = run[p].wf /\ run'[p].chain = run[p].chain /\ run'[p].kind = run[p].kind
      BY <2>2, <2>4 DEF Same
    <3>2. /\ run[p].kind # "agent_tool" /\ run[q].chain = Append(run[p].chain, run[p].wf)
          /\ Distinct(run[q].chain) /\ Len(run[q].chain) <= MaxChain
      BY <2>4 DEF IInv, Chained
    <3>3. QED
      BY <2>3, <2>4, <3>1, <3>2
  <2>5. CASE run[q].kind # "workflow_done"
    BY <2>3, <2>5 DEF IInv, Chained
  <2>6. QED
    BY <2>4, <2>5
<1>3. QED
  BY <1>1, <1>2

\* A step that launches one, from a run that is there.
LEMMA LaunchStep ==
    ASSUME IInv, NEW new \in Runs, NEW r \in Runs, NEW w \in Workflows,
           NEW kind \in {"workflow_done", "agent_tool"}, NEW chain \in Seq(Workflows),
           Launched(new, w, kind, chain, r), run[r].status # "absent",
           kind = "agent_tool" => chain = <<w>>,
           kind = "workflow_done" =>
              /\ run[r].kind # "agent_tool" /\ chain = Append(run[r].chain, run[r].wf)
              /\ Distinct(chain) /\ Len(chain) <= MaxChain
    PROVE  /\ run' \in [Runs -> RunType]
           /\ \A q \in Runs \ {new} : run'[q] = run[q]
           /\ run[new].status = "absent" /\ run'[new].status = "running"
           /\ run'[new].wf = w /\ run'[new].parent = r /\ run'[new].kind = kind
           /\ Lineage' /\ Chained'
<1> DEFINE one == [wf |-> w, chain |-> chain, parent |-> r, kind |-> kind,
                   status |-> "running"]
<1>1. /\ run[new].status = "absent"
      /\ \A q \in Runs : run[q].status = "absent" => new <= q
      /\ run' = [run EXCEPT ![new] = one]
  BY DEF Launched, Free
<1>2. /\ one \in RunType /\ one.wf = w /\ one.parent = r /\ one.kind = kind
      /\ one.chain = chain /\ one.status = "running"
  BY DEF RunType
<1> HIDE DEF one
<1>3. /\ run' \in [Runs -> RunType] /\ run'[new] = one
      /\ \A q \in Runs \ {new} : run'[q] = run[q]
  BY <1>1, <1>2 DEF IInv, TypeOK
<1>4. r # new /\ r < new
  <2>1. r # new
    BY <1>1
  <2>2. ~(new < r)
    BY <1>1 DEF IInv, Lineage
  <2>3. QED
    BY <2>1, <2>2 DEF Runs
<1>5. Lineage'
  <2>1. ASSUME NEW q \in Runs, NEW s \in Runs, run'[q].status = "absent", q < s
        PROVE  run'[s].status = "absent"
    <3>1. q # new /\ run[q].status = "absent" /\ new <= q
      BY <1>1, <1>2, <1>3, <2>1
    <3>2. s # new
      BY <2>1, <3>1 DEF Runs
    <3>3. QED
      BY <1>3, <2>1, <3>1, <3>2 DEF IInv, Lineage
  <2>2. \A q \in Runs : run'[q].status # "absent" => run'[q].wf \in Workflows
    BY <1>2, <1>3 DEF IInv, Lineage
  <2>3. ASSUME NEW q \in Runs, run'[q].kind # "user"
        PROVE  /\ run'[q].parent \in Runs /\ run'[q].parent < q
               /\ run'[run'[q].parent].status # "absent"
    <3>1. CASE q = new
      BY <1>2, <1>3, <1>4, <3>1
    <3>2. CASE q # new
      BY <1>1, <1>2, <1>3, <2>3, <3>2 DEF IInv, Lineage
    <3>3. QED
      BY <3>1, <3>2
  <2>4. \A q \in Runs : run'[q].status = "absent" => run'[q].kind = "user"
    BY <1>2, <1>3 DEF IInv, Lineage
  <2>5. QED
    BY <2>1, <2>2, <2>3, <2>4 DEF Lineage
<1>6. Chained'
  <2>1. SUFFICES ASSUME NEW q \in Runs
                 PROVE  /\ run'[q].kind = "user" => run'[q].chain = <<>>
                        /\ run'[q].kind = "agent_tool" => run'[q].chain = <<run'[q].wf>>
                        /\ run'[q].kind = "workflow_done" =>
                              LET p == run'[q].parent IN
                              /\ run'[p].kind # "agent_tool"
                              /\ run'[q].chain = Append(run'[p].chain, run'[p].wf)
                        /\ run'[q].kind # "agent_tool" =>
                              Distinct(run'[q].chain) /\ Len(run'[q].chain) <= MaxChain
    BY DEF Chained, Distinct
  <2>2. CASE q = new
    BY <1>2, <1>3, <1>4, <2>2
  <2>3. CASE q # new
    <3>1. run[q].kind = "workflow_done" => run[q].parent \in Runs \ {new}
      BY <1>1 DEF IInv, Lineage
    <3>2. QED
      BY <1>3, <2>3, <3>1 DEF IInv, Chained
  <2>4. QED
    BY <2>2, <2>3
<1>7. QED
  BY <1>1, <1>2, <1>3, <1>5, <1>6

\* What a run whose end is not touched has told.
LEMMA HeardStays ==
    ASSUME NEW q \in Runs, Heard(q), run'[q].wf = run[q].wf, run'[q].chain = run[q].chain,
           run'[q].status = run[q].status, cut \subseteq cut', owed'[q] = owed[q],
           published' \subseteq published, todo'[q] = todo[q],
           \A c \in Runs : run[c].kind = "workflow_done" =>
              /\ run'[c].kind = "workflow_done" /\ run'[c].parent = run[c].parent
              /\ run'[c].wf = run[c].wf
    PROVE  Heard(q)'
  BY DEF Heard, Child, NextChain

\* The record of a run whose status changes.
LEMMA StatusRow ==
    ASSUME TypeOK, NEW r \in Runs, NEW status \in {"running", "awaiting"} \cup Ended,
           run' = [run EXCEPT ![r].status = status], run[r].status # "absent"
    PROVE  /\ run' \in [Runs -> RunType] /\ \A q \in Runs : Same(q)
           /\ run'[r].status = status /\ \A q \in Runs \ {r} : run'[q] = run[q]
<1> DEFINE one == [run[r] EXCEPT !.status = status]
<1>1. run[r] \in RunType /\ run' = [run EXCEPT ![r] = one]
  BY DEF TypeOK
<1>2. /\ one \in RunType /\ one.wf = run[r].wf /\ one.parent = run[r].parent
      /\ one.kind = run[r].kind /\ one.chain = run[r].chain /\ one.status = status
  BY <1>1 DEF RunType
<1> HIDE DEF one
<1>3. /\ run' \in [Runs -> RunType] /\ run'[r] = one
      /\ \A q \in Runs \ {r} : run'[q] = run[q]
  BY <1>1, <1>2 DEF TypeOK
<1>4. \A q \in Runs : Same(q)
  <2>1. status # "absent"
    BY DEF Ended
  <2>2. QED
    BY <1>2, <1>3, <2>1 DEF Same
<1>5. QED
  BY <1>2, <1>3, <1>4

LEMMA TellsKeeps ==
    ASSUME IInv, NEW r \in Runs, NEW status \in Ended, Tells(r, status),
           run[r].status \in {"running", "awaiting"},
           call' = call, published' = published, cut' = cut
    PROVE  IInv'
<1>1. /\ run' = [run EXCEPT ![r].status = status]
      /\ pc' = [pc EXCEPT ![r] = "telling"]
      /\ todo' = [todo EXCEPT ![r] = Listening(r, status)]
      /\ owed' = [owed EXCEPT ![r] = {l.run : l \in Listening(r, status)}]
  BY DEF Tells
<1>2. /\ run' \in [Runs -> RunType] /\ \A q \in Runs : Same(q)
      /\ run'[r].status = status /\ \A q \in Runs \ {r} : run'[q] = run[q]
  BY <1>1, StatusRow DEF IInv
<1>3. Listening(r, status) \subseteq Listeners
      /\ {l.run : l \in Listening(r, status)} \subseteq Workflows
  BY DEF Listening, IInv, TypeOK
<1>4. TypeOK'
  BY <1>1, <1>2, <1>3 DEF IInv, TypeOK
<1>5. Lineage' /\ Chained'
  BY <1>2, NoLaunch
<1>6. Tasks'
  BY <1>1, <1>2, <1>3 DEF IInv, TypeOK, Tasks, Ended
<1>7. ASSUME NEW q \in Runs
      PROVE  Heard(q)'
  <2>1. CASE q = r
    <3>1. \A w \in owed'[r] : \E l \in todo'[r] : l.run = w
      BY <1>1 DEF IInv, TypeOK
    <3>2. QED
      BY <2>1, <3>1 DEF Heard
  <2>2. CASE q # r
    <3>1. todo'[q] = todo[q] /\ owed'[q] = owed[q] /\ run'[q] = run[q]
      BY <1>1, <1>2, <2>2 DEF IInv, TypeOK
    <3>2. QED
      BY <1>2, <3>1, HeardStays DEF IInv, Same
  <2>3. QED
    BY <2>1, <2>2
<1>8. QED
  BY <1>4, <1>5, <1>6, <1>7 DEF IInv

LEMMA EndsKeeps ==
    ASSUME IInv, NEW r \in Runs,
           (\E status \in Ended : Ends(r, status)) \/ EndsUnanswered(r)
    PROVE  IInv'
<1>1. ASSUME NEW status \in Ended, Ends(r, status)
      PROVE  IInv'
  BY <1>1, TellsKeeps DEF Ends, Goes, IInv, Tasks
<1>2. CASE EndsUnanswered(r)
  BY <1>2, TellsKeeps DEF EndsUnanswered, Ended
<1>3. QED
  BY <1>1, <1>2

\* A run that waits, or goes on.
LEMMA StatusKeeps ==
    ASSUME IInv, NEW r \in Runs, NEW status \in {"running", "awaiting"},
           run' = [run EXCEPT ![r].status = status],
           run[r].status \in {"running", "awaiting"},
           pc' = [pc EXCEPT ![r] = IF status = "running" THEN "live" ELSE "none"],
           call' \in [Runs -> Runs \cup {Answered, None}],
           todo' = todo, published' = published, owed' = owed, cut' = cut
    PROVE  IInv'
<1>1. /\ run' \in [Runs -> RunType] /\ \A q \in Runs : Same(q)
      /\ run'[r].status = status /\ \A q \in Runs \ {r} : run'[q] = run[q]
  BY StatusRow DEF IInv
<1>2. TypeOK'
  BY <1>1 DEF IInv, TypeOK
<1>3. Lineage' /\ Chained'
  BY <1>1, NoLaunch
<1>4. Tasks'
  BY <1>1 DEF IInv, TypeOK, Tasks, Ended
<1>5. ASSUME NEW q \in Runs
      PROVE  Heard(q)'
  <2>1. CASE q = r
    BY <1>1, <2>1 DEF Heard, Ended
  <2>2. CASE q # r
    BY <1>1, <2>2, HeardStays DEF IInv, Same
  <2>3. QED
    BY <2>1, <2>2
<1>6. QED
  BY <1>2, <1>3, <1>4, <1>5 DEF IInv

\* The task of r is over, and a call that waited for it has its answer.
LEMMA EndOfTask ==
    ASSUME TypeOK, NEW r \in Runs, TaskEnds(r)
    PROVE  /\ call' \in [Runs -> Runs \cup {Answered, None}]
           /\ pc' = [pc EXCEPT ![r] = "none"]
  BY DEF TypeOK, TaskEnds

LEMMA PausesKeeps ==
    ASSUME IInv, NEW r \in Runs, Pauses(r) \/ Resumes(r)
    PROVE  IInv'
<1>1. CASE Pauses(r)
  <2>1. /\ call' \in [Runs -> Runs \cup {Answered, None}]
        /\ pc' = [pc EXCEPT ![r] = "none"]
    BY <1>1, EndOfTask DEF Pauses, IInv
  <2>2. QED
    BY <1>1, <2>1, StatusKeeps DEF Pauses, Goes, IInv, Tasks
<1>2. CASE Resumes(r)
  BY <1>2, StatusKeeps DEF Resumes, IInv, TypeOK
<1>3. QED
  BY <1>1, <1>2

\* A process that dies cuts the ends it was telling.
LEMMA DiesKeeps ==
    ASSUME IInv, NEW r \in Runs, Dies(r)
    PROVE  IInv'
<1> DEFINE dead == {r, call[r]} \cap Runs
<1>1. /\ pc' = [q \in Runs |-> IF q \in dead THEN "none" ELSE pc[q]]
      /\ todo' = [q \in Runs |-> IF q \in dead THEN {} ELSE todo[q]]
      /\ call' = [call EXCEPT ![r] = None]
      /\ cut' = cut \cup {r} \cup {q \in dead : pc[q] # "none"}
      /\ published' = published /\ owed' = owed
  BY DEF Dies
<1> DEFINE one(q) == [run[q] EXCEPT !.status = "error"]
<1>2. run' = [q \in Runs |-> IF q \in dead /\ run[q].status = "running" THEN one(q)
                                                                       ELSE run[q]]
  BY DEF Dies
<1>3. dead \subseteq Runs
  OBVIOUS
<1> HIDE DEF dead
<1>4. \A q \in Runs :
         /\ run[q] \in RunType
         /\ one(q) \in RunType /\ one(q).wf = run[q].wf /\ one(q).parent = run[q].parent
         /\ one(q).kind = run[q].kind /\ one(q).chain = run[q].chain
         /\ one(q).status = "error"
  BY DEF IInv, TypeOK, RunType, Ended
<1> HIDE DEF one
<1>5. /\ run' \in [Runs -> RunType] /\ \A q \in Runs : Same(q)
      /\ \A q \in Runs : run'[q].status =
           IF q \in dead /\ run[q].status = "running" THEN "error" ELSE run[q].status
  BY <1>2, <1>4 DEF Same
<1>6. TypeOK'
  BY <1>1, <1>3, <1>5, ChainAssumption DEF IInv, TypeOK
<1>7. Lineage' /\ Chained'
  BY <1>5, NoLaunch
<1>8. Tasks'
  BY <1>1, <1>3, <1>5 DEF IInv, Tasks, Ended
<1>9. ASSUME NEW q \in Runs
      PROVE  Heard(q)'
  <2>1. CASE q \in dead /\ pc[q] # "none"
    BY <1>1, <2>1 DEF Heard
  <2>2. CASE ~(q \in dead /\ pc[q] # "none")
    <3>1. todo'[q] = todo[q] /\ run'[q].status = run[q].status
      BY <1>1, <1>5, <2>2 DEF IInv, Tasks
    <3>2. QED
      BY <1>1, <1>5, <3>1, HeardStays DEF IInv, Same
  <2>3. QED
    BY <2>1, <2>2
<1>10. QED
  BY <1>6, <1>7, <1>8, <1>9 DEF IInv

\* A listener that no longer listens, or that the chain stops.
LEMMA SkipsKeeps ==
    ASSUME IInv, NEW r \in Runs, NEW l \in Listeners, Skips(r, l)
    PROVE  IInv'
<1>1. /\ pc[r] = "telling" /\ l \in todo[r]
      /\ NextChain(run[r].chain, run[r].wf) = None \/ l.run \notin published
      /\ todo' = [todo EXCEPT ![r] = @ \ {l}]
      /\ run' = run /\ pc' = pc /\ call' = call /\ published' = published
      /\ owed' = owed /\ cut' = cut
  BY DEF Skips, Without
<1>2. TypeOK'
  BY <1>1 DEF IInv, TypeOK
<1>3. Lineage' /\ Chained'
  BY <1>1, NoLaunch DEF Same
<1>4. Tasks'
  BY <1>1 DEF IInv, TypeOK, Tasks
<1>5. ASSUME NEW q \in Runs
      PROVE  Heard(q)'
  <2>1. CASE q = r
    <3>1. \A c \in Runs, w \in Workflows : Child(c, r, w)' <=> Child(c, r, w)
      BY <1>1 DEF Child
    <3>2. NextChain(run[r].chain, run[r].wf)' = NextChain(run[r].chain, run[r].wf)
      BY <1>1 DEF NextChain
    <3>3. todo'[r] = todo[r] \ {l}
      BY <1>1 DEF IInv, TypeOK
    <3>4. QED
      BY <1>1, <2>1, <3>1, <3>2, <3>3 DEF IInv, TypeOK, Heard
  <2>2. CASE q # r
    <3>1. todo'[q] = todo[q]
      BY <1>1, <2>2 DEF IInv, TypeOK
    <3>2. QED
      BY <1>1, <3>1, HeardStays DEF IInv
  <2>3. QED
    BY <2>1, <2>2
<1>6. QED
  BY <1>2, <1>3, <1>4, <1>5 DEF IInv

\* The end of r launches a listener: the chain grows by its workflow.
LEMMA LaunchesListenerKeeps ==
    ASSUME IInv, NEW r \in Runs, NEW l \in Listeners, LaunchesListener(r, l)
    PROVE  IInv'
<1> DEFINE chain == NextChain(run[r].chain, run[r].wf)
<1>1. PICK new \in Runs :
          /\ Launched(new, l.run, "workflow_done", chain, r)
          /\ pc' = [pc EXCEPT ![new] = "live"]
  BY DEF LaunchesListener
<1>2. /\ pc[r] = "telling" /\ l \in todo[r] /\ l.run \in published /\ l.run \in Workflows
      /\ todo' = [todo EXCEPT ![r] = @ \ {l}]
      /\ call' = call /\ published' = published /\ owed' = owed /\ cut' = cut
  BY DEF LaunchesListener, Without, IInv, TypeOK
<1>3. /\ run[r].status \in Ended /\ run[r].status # "absent"
      /\ run[r].wf \in Workflows /\ run[r].chain \in Seq(Workflows)
  BY <1>2 DEF IInv, TypeOK, RunType, Tasks, Lineage, Ended
<1>4. /\ chain # None /\ chain = Append(run[r].chain, run[r].wf)
      /\ \A k \in DOMAIN run[r].chain : run[r].chain[k] # run[r].wf
      /\ Len(run[r].chain) < MaxChain
  BY <1>3, NextChainIs DEF LaunchesListener
<1>5. run[r].kind # "agent_tool"
  <2>1. SUFFICES ASSUME run[r].chain = <<run[r].wf>>
                 PROVE  FALSE
    BY DEF IInv, Chained
  <2>2. 1 \in DOMAIN run[r].chain /\ run[r].chain[1] = run[r].wf
    BY <2>1
  <2>3. QED
    BY <1>4, <2>2
<1>6. Distinct(run[r].chain)
  BY <1>5 DEF IInv, Chained
<1>7. chain \in Seq(Workflows) /\ Distinct(chain) /\ Len(chain) <= MaxChain
  <2>1. Len(Append(run[r].chain, run[r].wf)) = Len(run[r].chain) + 1 /\ Len(run[r].chain) \in Nat
    BY <1>3
  <2>2. QED
    BY <1>3, <1>4, <1>6, <2>1, DistinctAppend, ChainAssumption
<1> HIDE DEF chain
<1>8. /\ run' \in [Runs -> RunType]
      /\ \A q \in Runs \ {new} : run'[q] = run[q]
      /\ run[new].status = "absent" /\ run'[new].status = "running"
      /\ run'[new].wf = l.run /\ run'[new].parent = r /\ run'[new].kind = "workflow_done"
      /\ Lineage' /\ Chained'
  BY <1>1, <1>2, <1>3, <1>4, <1>5, <1>7, LaunchStep
<1>9. TypeOK'
  BY <1>1, <1>2, <1>8 DEF IInv, TypeOK
<1>10. Tasks'
  BY <1>1, <1>2, <1>8 DEF IInv, TypeOK, Tasks, Ended
<1>11. ASSUME NEW q \in Runs
       PROVE  Heard(q)'
  <2>1. CASE q = new
    BY <1>8, <2>1 DEF Heard, Ended
  <2>2. CASE q # new
    <3>1. run'[q] = run[q]
      BY <1>8, <2>2
    <3>2. \A c \in Runs : run[c].kind = "workflow_done" => run'[c] = run[c]
      BY <1>8 DEF IInv, Lineage
    <3>3. CASE q # r
      <4>1. todo'[q] = todo[q]
        BY <1>2, <3>3 DEF IInv, TypeOK
      <4>2. QED
        BY <1>2, <3>1, <3>2, <4>1, HeardStays DEF IInv
    <3>4. CASE q = r
      <4>1. Child(new, r, l.run)'
        BY <1>8 DEF Child
      <4>2. \A c \in Runs, w \in Workflows : Child(c, r, w) => Child(c, r, w)'
        BY <3>2 DEF Child
      <4>3. todo'[r] = todo[r] \ {l} /\ owed[r] \subseteq Workflows
        BY <1>2 DEF IInv, TypeOK
      <4>4. NextChain(run[r].chain, run[r].wf)' = NextChain(run[r].chain, run[r].wf)
        BY <3>1, <3>4 DEF NextChain
      <4>5. QED
        BY <1>2, <3>1, <3>4, <4>1, <4>2, <4>3, <4>4 DEF IInv, Heard
    <3>5. QED
      BY <3>3, <3>4
  <2>3. QED
    BY <2>1, <2>2
<1>12. QED
  BY <1>8, <1>9, <1>10, <1>11 DEF IInv

\* A step that leaves the rows alone.
LEMMA RowsStay ==
    ASSUME IInv, TypeOK', Tasks', run' = run, owed' = owed, cut \subseteq cut',
           published' \subseteq published,
           \A q \in Runs : todo'[q] = todo[q] \/ q \in cut'
    PROVE  IInv'
<1>1. Lineage' /\ Chained'
  BY NoLaunch DEF Same
<1>2. ASSUME NEW q \in Runs
      PROVE  Heard(q)'
  <2>1. CASE q \in cut'
    BY <2>1 DEF Heard
  <2>2. CASE todo'[q] = todo[q]
    BY <2>2, HeardStays DEF IInv
  <2>3. QED
    BY <2>1, <2>2
<1>3. QED
  BY <1>1, <1>2 DEF IInv

\* The loop over the listeners breaks, or is over.
LEMMA LoopKeeps ==
    ASSUME IInv, NEW r \in Runs, LaunchBreaks(r) \/ Told(r)
    PROVE  IInv'
<1>1. CASE LaunchBreaks(r)
  <2>1. /\ todo' = [todo EXCEPT ![r] = {}] /\ cut' = cut \cup {r}
        /\ run' = run /\ pc' = pc /\ call' = call /\ published' = published /\ owed' = owed
    BY <1>1 DEF LaunchBreaks
  <2>2. TypeOK' /\ Tasks' /\ \A q \in Runs : todo'[q] = todo[q] \/ q \in cut'
    BY <2>1 DEF IInv, TypeOK, Tasks
  <2>3. QED
    BY <2>1, <2>2, RowsStay
<1>2. CASE Told(r)
  <2>1. /\ pc[r] = "telling" /\ todo[r] = {} /\ pc' = [pc EXCEPT ![r] = "none"]
        /\ call' \in [Runs -> Runs \cup {Answered, None}]
        /\ run' = run /\ todo' = todo /\ published' = published
        /\ owed' = owed /\ cut' = cut
    BY <1>2, EndOfTask DEF Told, IInv
  <2>2. TypeOK'
    BY <2>1 DEF IInv, TypeOK
  <2>3. Tasks'
    BY <2>1 DEF IInv, TypeOK, Tasks, Ended
  <2>4. QED
    BY <2>1, <2>2, <2>3, RowsStay
<1>3. QED
  BY <1>1, <1>2

\* An agent calls a workflow: its chain starts anew.
LEMMA CallsKeeps ==
    ASSUME IInv, NEW r \in Runs, NEW v \in Workflows, Calls(r, v)
    PROVE  IInv'
<1> DEFINE chain == NextChain(CurrentChain(r), v)
<1>1. PICK new \in Runs :
          /\ Launched(new, v, "agent_tool", chain, r)
          /\ pc' = [pc EXCEPT ![new] = "live"]
          /\ call' = [call EXCEPT ![r] = new]
  BY DEF Calls
<1>2. /\ pc[r] = "live" /\ chain # None
      /\ todo' = todo /\ published' = published /\ owed' = owed /\ cut' = cut
  BY DEF Calls, Goes
<1>3. <<>> \in Seq(Workflows) /\ <<v>> \in Seq(Workflows) /\ Append(<<>>, v) = <<v>>
  OBVIOUS
<1>4. chain = <<v>> /\ chain \in Seq(Workflows)
  <2>1. NextChain(<<>>, v) # None => NextChain(<<>>, v) = Append(<<>>, v)
    BY <1>3, NextChainIs
  <2>2. QED
    BY <1>2, <1>3, <2>1 DEF CurrentChain
<1>5. run[r].status # "absent"
  BY <1>2 DEF IInv, Tasks
<1> HIDE DEF chain
<1>6. /\ run' \in [Runs -> RunType]
      /\ \A q \in Runs \ {new} : run'[q] = run[q]
      /\ run[new].status = "absent" /\ run'[new].status = "running"
      /\ Lineage' /\ Chained'
  BY <1>1, <1>4, <1>5, LaunchStep
<1>7. TypeOK'
  BY <1>1, <1>2, <1>6 DEF IInv, TypeOK
<1>8. Tasks'
  BY <1>1, <1>2, <1>6 DEF IInv, TypeOK, Tasks, Ended
<1>9. ASSUME NEW q \in Runs
      PROVE  Heard(q)'
  <2>1. CASE q = new
    BY <1>6, <2>1 DEF Heard, Ended
  <2>2. CASE q # new
    <3>1. \A c \in Runs : run[c].kind = "workflow_done" => run'[c] = run[c]
      BY <1>6 DEF IInv, Lineage
    <3>2. QED
      BY <1>2, <1>6, <2>2, <3>1, HeardStays DEF IInv
  <2>3. QED
    BY <2>1, <2>2
<1>10. QED
  BY <1>6, <1>7, <1>8, <1>9 DEF IInv

LEMMA TimesOutKeeps ==
    ASSUME IInv, NEW r \in Runs, TimesOut(r)
    PROVE  IInv'
<1> DEFINE c == call[r]
<1>1. c \in Runs /\ call' = call /\ published' = published
  BY DEF TimesOut
<1>2. CASE pc[c] = "live" /\ Tells(c, "cancelled") /\ cut' = cut
  BY <1>1, <1>2, TellsKeeps DEF IInv, Tasks, Ended
<1>3. CASE /\ pc[c] = "telling" /\ todo' = [todo EXCEPT ![c] = {}] /\ cut' = cut \cup {c}
           /\ run' = run /\ pc' = pc /\ owed' = owed
  <2> HIDE DEF c
  <2>1. TypeOK' /\ Tasks' /\ \A q \in Runs : todo'[q] = todo[q] \/ q \in cut'
    BY <1>1, <1>3 DEF IInv, TypeOK, Tasks
  <2>2. QED
    BY <1>1, <1>3, <2>1, RowsStay
<1>4. QED
  BY <1>2, <1>3 DEF TimesOut

LEMMA ReturnsKeeps ==
    ASSUME IInv, NEW r \in Runs, Returns(r)
    PROVE  IInv'
<1>1. TypeOK' /\ Tasks'
  BY DEF Returns, IInv, TypeOK, Tasks
<1>2. QED
  BY <1>1, RowsStay DEF Returns

LEMMA WithdrawsKeeps ==
    ASSUME IInv, NEW w \in Workflows, Withdraws(w)
    PROVE  IInv'
<1>1. TypeOK' /\ Tasks'
  BY DEF Withdraws, IInv, TypeOK, Tasks
<1>2. QED
  BY <1>1, RowsStay DEF Withdraws

-----------------------------------------------------------------------------
LEMMA InitEstablishes == Init => IInv
<1> SUFFICES ASSUME Init
             PROVE  IInv
  OBVIOUS
<1>1. PICK w \in Workflows :
         run = [r \in Runs |-> IF r = 1 THEN [Absent EXCEPT !.wf = w, !.status = "running"]
                                        ELSE Absent]
  BY DEF Init
<1> DEFINE one == [Absent EXCEPT !.wf = w, !.status = "running"]
<1>2. 1 \in Runs /\ Runs \subseteq Nat
  BY ChainAssumption DEF Runs
<1>3. /\ Absent \in RunType /\ Absent.kind = "user" /\ Absent.chain = <<>>
      /\ Absent.status = "absent"
      /\ one \in RunType /\ one.kind = "user" /\ one.chain = <<>>
      /\ one.status = "running" /\ one.wf = w
  <2>1. <<>> \in Seq(Workflows)
    OBVIOUS
  <2>2. QED
    BY <2>1 DEF Absent, RunType
<1> HIDE DEF one
<1>4. /\ run \in [Runs -> RunType] /\ run[1] = one
      /\ \A r \in Runs \ {1} : run[r] = Absent
  BY <1>1, <1>2, <1>3 DEF one
<1>5. TypeOK
  BY <1>2, <1>4 DEF Init, TypeOK
<1>6. Lineage
  BY <1>2, <1>3, <1>4 DEF Lineage, Runs
<1>7. Chained
  <2>1. \A r \in Runs : run[r].kind = "user" /\ run[r].chain = <<>>
    BY <1>2, <1>3, <1>4
  <2>2. Distinct(<<>>) /\ Len(<<>>) <= MaxChain
    BY ChainAssumption DEF Distinct
  <2>3. QED
    BY <2>1, <2>2 DEF Chained
<1>8. Tasks
  BY <1>2, <1>3, <1>4 DEF Init, Tasks
<1>9. \A r \in Runs : Heard(r)
  BY <1>2, <1>3, <1>4 DEF Heard, Ended
<1>10. QED
  BY <1>5, <1>6, <1>7, <1>8, <1>9 DEF IInv

LEMMA StepKeeps == IInv /\ [Next]_vars => IInv'
<1> SUFFICES ASSUME IInv, [Next]_vars
             PROVE  IInv'
  OBVIOUS
<1>1. CASE UNCHANGED vars
  <2>1. TypeOK' /\ Tasks'
    BY <1>1 DEF vars, IInv, TypeOK, Tasks
  <2>2. QED
    BY <1>1, <2>1, RowsStay DEF vars
<1>2. ASSUME NEW r \in Runs, Work(r)
      PROVE  IInv'
  BY <1>2, EndsKeeps, PausesKeeps, DiesKeeps DEF Work
<1>3. ASSUME NEW r \in Runs, Tell(r)
      PROVE  IInv'
  BY <1>3, SkipsKeeps, LaunchesListenerKeeps, LoopKeeps DEF Tell
<1>4. ASSUME NEW r \in Runs, Tool(r)
      PROVE  IInv'
  BY <1>4, CallsKeeps, TimesOutKeeps, ReturnsKeeps DEF Tool
<1>5. ASSUME NEW w \in Workflows, Withdraws(w)
      PROVE  IInv'
  BY <1>5, WithdrawsKeeps
<1>6. QED
  BY <1>1, <1>2, <1>3, <1>4, <1>5 DEF Next

\* Whatever runs end, launch, wait or die, IInv holds: the chain a run carries is the
\* chain of the run that launched it, and an end has told, or has still to tell,
\* whoever listened.
THEOREM Invariance == Spec => []IInv
<1>1. QED
  BY InitEstablishes, StepKeeps, PTL DEF Spec

\* Ends that launch workflows stop (next_trigger_chain): no workflow is the cause of a
\* run twice, and no run has more than MAX_TRIGGER_CHAIN of them.
THEOREM LoopsStop == Spec => []ChainsStop
<1>1. IInv => ChainsStop
  <2> SUFFICES ASSUME IInv, NEW r \in Runs
               PROVE  Distinct(Causes[r]) /\ Len(Causes[r]) <= MaxChain
    BY DEF ChainsStop
  <2>1. Causes[r] = IF run[r].kind # "workflow_done" THEN <<>> ELSE run[r].chain
    BY CausesAre DEF CauseOf
  <2>2. Distinct(<<>>) /\ Len(<<>>) <= MaxChain
    BY ChainAssumption DEF Distinct
  <2>3. run[r].kind = "workflow_done" =>
           Distinct(run[r].chain) /\ Len(run[r].chain) <= MaxChain
    BY DEF IInv, Chained
  <2>4. QED
    BY <2>1, <2>2, <2>3
<1>2. QED
  BY <1>1, Invariance, PTL

\* An end that was not cut has launched whoever listened, but for the workflows withdrawn
\* and the chains that had to stop (fire_workflow_done_triggers).
THEOREM ListenersHear == Spec => []EveryListenerHears
<1>1. IInv => EveryListenerHears
  <2> SUFFICES ASSUME IInv, NEW r \in Runs, run[r].status \in Ended, pc[r] = "none",
                      r \notin cut, run[r].kind # "agent_tool", Lawful(r),
                      NEW w \in owed[r] \cap published
               PROVE  \E c \in Runs : Child(c, r, w)
    BY DEF EveryListenerHears, Child
  <2>1. Causes[r] = run[r].chain
    BY CausesAre DEF CauseOf, IInv, TypeOK, RunType, Chained
  <2>2. run[r].wf \in Workflows /\ run[r].chain \in Seq(Workflows)
    BY DEF IInv, TypeOK, RunType, Lineage, Ended
  <2>3. NextChain(run[r].chain, run[r].wf) # None
    BY <2>1, <2>2, NextChainIs DEF Lawful
  <2>4. todo[r] = {}
    BY DEF IInv, Tasks
  <2>5. QED
    BY <2>3, <2>4 DEF IInv, Heard
<1>2. QED
  BY <1>1, Invariance, PTL
=============================================================================
