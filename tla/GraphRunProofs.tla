--------------------------- MODULE GraphRunProofs ---------------------------
(***************************************************************************)
(* GraphRun for every set of valid graphs, every bound on the runs of a     *)
(* chain, with and without edits before a retry.                            *)
(***************************************************************************)
EXTENDS GraphRun, TLAPS

\* The nodes that ADK has still to call.
Pending(s) == UNION {s[i] : i \in DOMAIN s}

\* A run that pauses or fails knows at which node.
Located == phase \in {"pausing", "failing"} => at # 0

\* A run that waits, or has still to take the answer it was given, has its snapshot.
Waiting ==
    phase = "awaiting" \/ (phase \notin Settled /\ Untaken) => paused # NoSnapshot

\* A call or an output counts, and a body that runs has been called once more
\* than its node has been done.
Counted ==
    /\ \A n \in outputs : calls[n] >= 1
    /\ now # 0 => calls[now] >= 1
    /\ now \in outputs => calls[now] >= 2

\* What ADK holds comes from nodes that are done, along the routes they took.
Fed ==
    /\ \A n \in outputs : Called(n)
    /\ \A n \in Pending(ready) : Called(n)
    /\ now # 0 => Called(now)
    /\ \A m \in NodeIds : \A p \in joined[m] :
        p \in Parents(plan, m) \cap outputs /\ m \in Targets(plan, p, routes[p])

IInv == TypeOK /\ Located /\ Waiting /\ Counted /\ (CalledOnce => Fed)

-----------------------------------------------------------------------------
(* Graphs.                                                                  *)

LEMMA NodeFacts ==
    ASSUME NEW v \in Versions
    PROVE  /\ Graph[v].nodes \subseteq NodeIds
           /\ Graph[v].nodes \subseteq Nat \ {0}
           /\ Graph[v].nodes # {}
           /\ \A n \in Graph[v].nodes : Graph[v].routes[n] \subseteq Routes
BY GraphsAssumption DEF ValidGraph, NodeIds, Routes

LEMMA PlanFacts ==
    ASSUME NEW v \in Versions, NEW u \in Bounds(v)
    PROVE  /\ Plans[v][u] = Restrict(Graph[v], u)
           /\ Plans[v][u].nodes \subseteq Graph[v].nodes
           /\ Plans[v][u].edges \subseteq Graph[v].edges
           /\ Plans[v][u].routes = Graph[v].routes
           /\ Plans[v][u].kind = Graph[v].kind
           /\ Plans[v][u].onError = Graph[v].onError
           /\ \A e \in Plans[v][u].edges : {e[1], e[2]} \subseteq Plans[v][u].nodes
<1> DEFINE g == Graph[v]
<1>1. Plans[v][u] = Restrict(g, u)
  BY DEF Plans
<1>2. ValidGraph(g)
  BY GraphsAssumption
<1>3. Upstream(g, u) \subseteq g.nodes
  BY DEF Upstream
<1>4. CASE u = 0
  BY <1>1, <1>2, <1>4 DEF Restrict, ValidGraph
<1>5. CASE u # 0
  BY <1>1, <1>3, <1>5 DEF Restrict
<1> QED BY <1>1, <1>4, <1>5

\* The plan of the run: a part of its graph, whose edges are between its nodes.
LEMMA RunFacts ==
    ASSUME TypeOK
    PROVE  /\ plan.nodes \subseteq graph.nodes /\ graph.nodes \subseteq NodeIds
           /\ 0 \notin graph.nodes
           /\ plan.routes = graph.routes
           /\ \A n \in plan.nodes : plan.routes[n] \subseteq Routes
           /\ \A e \in plan.edges : e[1] \in plan.nodes /\ e[2] \in plan.nodes
           /\ \A n : Parents(plan, n) \subseteq plan.nodes
<1>1. version \in Versions /\ until \in Bounds(version)
  BY DEF TypeOK
<1>2. /\ plan.nodes \subseteq graph.nodes
      /\ plan.routes = graph.routes
      /\ \A e \in plan.edges : {e[1], e[2]} \subseteq plan.nodes
  BY <1>1, PlanFacts DEF plan, graph
<1>3. /\ graph.nodes \subseteq NodeIds /\ graph.nodes \subseteq Nat \ {0}
      /\ \A n \in graph.nodes : graph.routes[n] \subseteq Routes
  BY <1>1, NodeFacts DEF graph
<1>4. \A n : Parents(plan, n) \subseteq plan.nodes
  BY <1>2 DEF Parents
<1> QED BY <1>2, <1>3, <1>4

\* A graph without a cycle has a node to start with, and so has each part of it.
LEMMA StartFacts ==
    ASSUME NEW v \in Versions, NEW u \in Bounds(v)
    PROVE  Starts(Plans[v][u]) # {} /\ Starts(Plans[v][u]) \subseteq Plans[v][u].nodes
<1> DEFINE g == Graph[v]
           p == Plans[v][u]
<1>1. p = Restrict(g, u) /\ p.nodes \subseteq g.nodes /\ p.edges \subseteq g.edges
      /\ \A e \in p.edges : {e[1], e[2]} \subseteq p.nodes
  BY PlanFacts
<1>2. p.nodes # {}
  <2>1. CASE u = 0
    BY <1>1, <2>1, NodeFacts DEF Restrict
  <2>2. CASE u # 0
    <3>1. u \in g.nodes
      BY <2>2 DEF Bounds
    <3>2. u \in Upstream(g, u)
      BY <3>1 DEF Upstream
    <3> QED BY <1>1, <2>2, <3>2 DEF Restrict
  <2> QED BY <2>1, <2>2
<1>3. PICK n \in p.nodes : Parents(g, n) \cap p.nodes = {}
  <2>1. \A S \in SUBSET g.nodes : S # {} => \E n \in S : Parents(g, n) \cap S = {}
    BY GraphsAssumption DEF ValidGraph
  <2> QED BY <1>1, <1>2, <2>1
<1>4. Parents(p, n) = {}
  BY <1>1, <1>3 DEF Parents
<1> QED BY <1>3, <1>4 DEF Starts

-----------------------------------------------------------------------------
(* What ADK holds.                                                          *)

LEMMA PendingAppend ==
    ASSUME NEW T, NEW s \in Seq(T), NEW c \in T
    PROVE  Append(s, c) \in Seq(T) /\ Pending(Append(s, c)) = Pending(s) \cup c
<1>1. /\ Append(s, c) \in Seq(T)
      /\ DOMAIN Append(s, c) = 1..(Len(s) + 1) /\ DOMAIN s = 1..Len(s) /\ Len(s) \in Nat
      /\ \A i \in 1..Len(s) : Append(s, c)[i] = s[i]
      /\ Append(s, c)[Len(s) + 1] = c
  OBVIOUS
<1>2. 1..(Len(s) + 1) = (1..Len(s)) \cup {Len(s) + 1}
  BY <1>1
<1> QED BY <1>1, <1>2 DEF Pending

LEMMA PendingRest ==
    ASSUME TypeOK, NEW n, Turn(n)
    PROVE  /\ n \in plan.nodes /\ n \in Pending(ready)
           /\ Rest(n) \in Seq((SUBSET plan.nodes) \ {{}})
           /\ Pending(Rest(n)) \subseteq Pending(ready)
<1> DEFINE T == (SUBSET plan.nodes) \ {{}}
<1>1. ready \in Seq(T) /\ ready # <<>> /\ n \in ready[1]
  BY DEF TypeOK, Turn
<1>2. Len(ready) \in Nat \ {0} /\ DOMAIN ready = 1..Len(ready) /\ ready[1] \in T
  BY <1>1
<1>3. n \in plan.nodes /\ n \in Pending(ready)
  BY <1>1, <1>2 DEF Pending
<1>4. CASE Head(ready) = {n}
  <2>1. /\ Rest(n) = Tail(ready) /\ Tail(ready) \in Seq(T)
        /\ DOMAIN Tail(ready) = 1..(Len(ready) - 1)
        /\ \A i \in 1..(Len(ready) - 1) : Tail(ready)[i] = ready[i + 1]
    BY <1>1, <1>2, <1>4 DEF Rest
  <2>2. \A i \in 1..(Len(ready) - 1) : i + 1 \in DOMAIN ready
    BY <1>2
  <2> QED BY <1>3, <2>1, <2>2 DEF Pending
<1>5. CASE Head(ready) # {n}
  <2>1. Rest(n) = [ready EXCEPT ![1] = @ \ {n}]
    BY <1>5 DEF Rest
  <2>2. ready[1] \ {n} \in T
    BY <1>1, <1>2, <1>5
  <2>3. Rest(n) \in Seq(T)
    BY <1>1, <1>2, <2>1, <2>2
  <2>4. DOMAIN Rest(n) = DOMAIN ready
        /\ \A i \in DOMAIN ready : Rest(n)[i] \subseteq ready[i]
    BY <1>2, <2>1
  <2> QED BY <1>3, <2>3, <2>4 DEF Pending
<1> QED BY <1>4, <1>5

LEMMA TargetFacts ==
    ASSUME TypeOK, NEW n, NEW route
    PROVE  /\ Targets(plan, n, route) \subseteq plan.nodes
           /\ \A m \in Targets(plan, n, route) : n \in Parents(plan, m)
<1>1. \A e \in plan.edges : e[2] \in plan.nodes
  BY RunFacts
<1> QED BY <1>1 DEF Targets, Parents

\* A node that is done calls targets of its route: a merge only with all its inputs.
LEMMA HandOverFacts ==
    ASSUME TypeOK, NEW n \in plan.nodes, NEW route,
           NEW waiting \in Seq((SUBSET plan.nodes) \ {{}}),
           HandOver(n, route, waiting)
    PROVE  /\ ready' \in Seq((SUBSET plan.nodes) \ {{}})
           /\ joined' \in [NodeIds -> SUBSET plan.nodes]
           /\ \A m \in Pending(ready') :
                 \/ m \in Pending(waiting)
                 \/ /\ m \in Targets(plan, n, route)
                    /\ plan.kind[m] = "merge" => joined[m] \cup {n} = Parents(plan, m)
           /\ \A m \in NodeIds : \A p \in joined'[m] :
                 p \in joined[m] \/ (p = n /\ m \in Targets(plan, n, route))
<1> DEFINE T == (SUBSET plan.nodes) \ {{}}
           told == Targets(plan, n, route)
           merges == {m \in told : plan.kind[m] = "merge"}
           full == {m \in merges : joined[m] \cup {n} = Parents(plan, m)}
           called == (told \ merges) \cup full
<1>1. /\ ready' = IF called = {} THEN waiting ELSE Append(waiting, called)
      /\ joined' = [m \in NodeIds |-> IF m \in full THEN {}
                                      ELSE IF m \in merges THEN joined[m] \cup {n}
                                      ELSE joined[m]]
  BY DEF HandOver
<1>2. called \subseteq told /\ told \subseteq plan.nodes
  BY TargetFacts
<1>3. ready' \in Seq(T) /\ Pending(ready') \subseteq Pending(waiting) \cup called
  <2>1. CASE called = {}
    BY <1>1, <2>1
  <2>2. CASE called # {}
    <3>1. called \in T
      BY <1>2, <2>2
    <3>2. Append(waiting, called) \in Seq(T)
          /\ Pending(Append(waiting, called)) = Pending(waiting) \cup called
      BY <3>1, PendingAppend
    <3> QED BY <1>1, <2>2, <3>2
  <2> QED BY <2>1, <2>2
<1>4. \A m \in called : m \in told
                       /\ (plan.kind[m] = "merge" => joined[m] \cup {n} = Parents(plan, m))
  OBVIOUS
<1>5. joined \in [NodeIds -> SUBSET plan.nodes]
  BY DEF TypeOK
<1>6. joined' \in [NodeIds -> SUBSET plan.nodes]
  BY <1>1, <1>5
<1>7. \A m \in NodeIds : \A p \in joined'[m] : p \in joined[m] \/ (p = n /\ m \in told)
  BY <1>1
<1> QED BY <1>3, <1>4, <1>6, <1>7

\* A new output takes no call away, as long as it does not replace an older one.
LEMMA CalledStays ==
    ASSUME TypeOK, NEW n \in plan.nodes, NEW route, n \notin outputs,
           plan' = plan, outputs' = outputs \cup {n},
           routes' = [routes EXCEPT ![n] = route]
    PROVE  /\ \A m : Called(m) => Called(m)'
           /\ \A m, p : p \in Parents(plan, m) \cap outputs /\ m \in Targets(plan, p, routes[p])
                 => p \in Parents(plan, m) \cap outputs' /\ m \in Targets(plan, p, routes'[p])
           /\ routes'[n] = route
<1>1. routes \in [NodeIds -> Routes] /\ n \in NodeIds /\ outputs \subseteq NodeIds
  BY RunFacts DEF TypeOK
<1>2. routes'[n] = route /\ \A p \in outputs : routes'[p] = routes[p]
  BY <1>1
<1>3. SUFFICES ASSUME NEW m, Called(m)
               PROVE  Called(m)'
  BY <1>2
<1> DEFINE via == {p \in Parents(plan, m) \cap outputs : m \in Targets(plan, p, routes[p])}
           after == {p \in Parents(plan, m) \cap outputs' : m \in Targets(plan, p, routes'[p])}
<1>4. via \subseteq after /\ after \subseteq Parents(plan, m)
  BY <1>2
<1>5. Called(m) = IF Parents(plan, m) = {} THEN TRUE
                  ELSE IF plan.kind[m] = "merge" THEN via = Parents(plan, m)
                  ELSE via # {}
  BY DEF Called
<1>6. Called(m)' = IF Parents(plan, m) = {} THEN TRUE
                   ELSE IF plan.kind[m] = "merge" THEN after = Parents(plan, m)
                   ELSE after # {}
  BY DEF Called
<1> HIDE DEF via, after
<1>7. CASE Parents(plan, m) = {}
  BY <1>6, <1>7
<1>8. CASE Parents(plan, m) # {} /\ plan.kind[m] = "merge"
  <2>1. via = Parents(plan, m)
    BY <1>3, <1>5, <1>8
  <2>2. after = Parents(plan, m)
    BY <1>4, <2>1
  <2> QED BY <1>6, <1>8, <2>2
<1>9. CASE Parents(plan, m) # {} /\ plan.kind[m] # "merge"
  BY <1>3, <1>4, <1>5, <1>6, <1>9
<1> QED BY <1>7, <1>8, <1>9

-----------------------------------------------------------------------------
(* How Fed survives a step.                                                 *)

LEMMA FedAfterOutput ==
    ASSUME TypeOK, Fed, NEW n \in plan.nodes, NEW route \in Routes,
           NEW waiting \in Seq((SUBSET plan.nodes) \ {{}}),
           Pending(waiting) \subseteq Pending(ready), n \notin outputs, Called(n),
           plan' = plan, now' = 0, outputs' = outputs \cup {n},
           routes' = [routes EXCEPT ![n] = route],
           HandOver(n, route, waiting)
    PROVE  Fed'
<1>1. /\ \A m : Called(m) => Called(m)'
      /\ \A m, p : p \in Parents(plan, m) \cap outputs /\ m \in Targets(plan, p, routes[p])
            => p \in Parents(plan, m) \cap outputs' /\ m \in Targets(plan, p, routes'[p])
      /\ routes'[n] = route
  BY CalledStays
<1>2. /\ \A m \in Pending(ready') :
           \/ m \in Pending(waiting)
           \/ /\ m \in Targets(plan, n, route)
              /\ plan.kind[m] = "merge" => joined[m] \cup {n} = Parents(plan, m)
      /\ \A m \in NodeIds : \A p \in joined'[m] :
           p \in joined[m] \/ (p = n /\ m \in Targets(plan, n, route))
  BY HandOverFacts
<1>3. \A m \in Targets(plan, n, route) :
        /\ m \in NodeIds
        /\ n \in Parents(plan, m) \cap outputs' /\ m \in Targets(plan, n, routes'[n])
  BY <1>1, TargetFacts, RunFacts
<1>4. \A m \in NodeIds : \A p \in joined[m] :
        p \in Parents(plan, m) \cap outputs' /\ m \in Targets(plan, p, routes'[p])
  BY <1>1 DEF Fed
<1>5. (\A m \in outputs : Called(m))'
  BY <1>1 DEF Fed
<1>6. (\A m \in Pending(ready) : Called(m))'
  <2> SUFFICES ASSUME NEW m \in Pending(ready')
               PROVE  Called(m)'
    OBVIOUS
  <2>1. CASE m \in Pending(waiting)
    BY <1>1, <2>1 DEF Fed
  <2>2. CASE /\ m \in Targets(plan, n, route)
             /\ plan.kind[m] = "merge" => joined[m] \cup {n} = Parents(plan, m)
    <3> DEFINE via == {p \in Parents(plan, m) \cap outputs' : m \in Targets(plan, p, routes'[p])}
    <3>1. Called(m)' = IF Parents(plan, m) = {} THEN TRUE
                       ELSE IF plan.kind[m] = "merge" THEN via = Parents(plan, m)
                       ELSE via # {}
      BY DEF Called
    <3>2. n \in via
      BY <1>3, <2>2
    <3>3. CASE plan.kind[m] = "merge"
      <4>1. \A p \in Parents(plan, m) : p \in via
        BY <1>3, <1>4, <2>2, <3>3
      <4>2. via = Parents(plan, m)
        BY <4>1
      <4> QED BY <3>1, <3>3, <4>2
    <3>4. CASE plan.kind[m] # "merge"
      BY <3>1, <3>2, <3>4
    <3> QED BY <3>3, <3>4
  <2> QED BY <1>2, <2>1, <2>2
<1>7. (\A m \in NodeIds : \A p \in joined[m] :
         p \in Parents(plan, m) \cap outputs /\ m \in Targets(plan, p, routes[p]))'
  <2> SUFFICES ASSUME NEW m \in NodeIds, NEW p \in joined'[m]
               PROVE  p \in Parents(plan, m) \cap outputs' /\ m \in Targets(plan, p, routes'[p])
    OBVIOUS
  <2> QED BY <1>2, <1>3, <1>4
<1> QED BY <1>5, <1>6, <1>7 DEF Fed

LEMMA FedStays ==
    ASSUME Fed, UNCHANGED <<version, until, outputs, routes, joined>>,
           Pending(ready') \subseteq Pending(ready), now' \in {0, now} \cup Pending(ready)
    PROVE  Fed'
<1>1. plan' = plan
  BY DEF plan
<1>2. \A m : Called(m)' = Called(m)
  BY <1>1 DEF Called
<1>3. (\A m \in outputs : Called(m))' /\ (\A m \in Pending(ready) : Called(m))'
  BY <1>2 DEF Fed
<1>4. (now # 0 => Called(now))'
  BY <1>2 DEF Fed
<1>5. (\A m \in NodeIds : \A p \in joined[m] :
         p \in Parents(plan, m) \cap outputs /\ m \in Targets(plan, p, routes[p]))'
  BY <1>1 DEF Fed
<1> QED BY <1>3, <1>4, <1>5 DEF Fed

-----------------------------------------------------------------------------
(* Starting a run.                                                          *)

LEMMA Numbered == NoRoutes \in [NodeIds -> Routes] /\ NoCounts \in [NodeIds -> Nat]
BY DEF NoRoutes, NoCounts, Routes

LEMMA CompileStep ==
    ASSUME TypeOK, NEW v \in Versions, NEW u \in Bounds(v), NEW r, runs < MaxRuns,
           r.outputs \subseteq Graph[v].nodes, r.routes \in [NodeIds -> Routes],
           r.origin \in Graph[v].nodes \cup {0},
           r.answer \in [node : Graph[v].nodes \cup {0}, route : Routes],
           Compile(v, u, r), edited' \in BOOLEAN,
           \A s \in {paused', failure'} \ {NoSnapshot} : SnapshotOK(s),
           r.answer.node = 0 \/ paused' # NoSnapshot,
           execs' \in [NodeIds -> Nat]
    PROVE  IInv'
<1> DEFINE p == Plans[v][u]
<1>1. plan' = p /\ graph' = Graph[v]
  BY DEF Compile, plan, graph
<1>2. Starts(p) \in (SUBSET p.nodes) \ {{}} /\ \A n \in Starts(p) : Parents(p, n) = {}
  BY StartFacts DEF Starts
<1>3. ready' = <<Starts(p)>> /\ Pending(ready') = Starts(p)
  BY DEF Compile, Pending
<1>4. ready' \in Seq((SUBSET p.nodes) \ {{}})
  BY <1>2, <1>3
<1>5. runs + 1 \in 0..MaxRuns
  BY GraphsAssumption DEF TypeOK
<1>6. joined' \in [NodeIds -> SUBSET p.nodes]
  BY DEF Compile
<1>7. TypeOK'
  <2>1. (\A s \in {paused, failure} \ {NoSnapshot} : SnapshotOK(s))'
    OBVIOUS
  <2>2. converged' \in BOOLEAN
    BY DEF Compile
  <2> QED BY <1>1, <1>4, <1>5, <1>6, <2>1, <2>2, Numbered DEF TypeOK, Compile, Settled
<1>8. Located' /\ Waiting' /\ Counted'
  BY DEF Located, Waiting, Untaken, Counted, Compile
<1>9. Fed'
  <2>1. (\A n \in Pending(ready) : Called(n))'
    BY <1>1, <1>2, <1>3 DEF Called
  <2> QED BY <2>1 DEF Fed, Compile
<1> QED BY <1>7, <1>8, <1>9 DEF IInv

LEMMA InitStep == Init => IInv
<1> SUFFICES ASSUME Init PROVE IInv
  OBVIOUS
<1>1. ready \in Seq((SUBSET plan.nodes) \ {{}}) /\ Pending(ready) = {}
  BY DEF Init, Pending
<1>2. TypeOK
  <2>1. /\ Nothing.outputs = {} /\ Nothing.routes = NoRoutes /\ Nothing.origin = 0
        /\ Nothing.answer = [node |-> 0, route |-> Plain] /\ Plain \in Routes
    BY DEF Nothing, NoAnswer, Routes
  <2>2. \A s \in {paused, failure} \ {NoSnapshot} : SnapshotOK(s)
    BY DEF Init
  <2>3. joined \in [NodeIds -> SUBSET plan.nodes]
    BY DEF Init
  <2>4. 0 \in 0..MaxRuns /\ 0 \in Bounds(version)
    BY GraphsAssumption DEF Bounds
  <2>5. Nothing.answer \in [node : graph.nodes \cup {0}, route : Routes]
    BY <2>1
  <2>6. resume = Nothing /\ routes = NoRoutes
        /\ calls = NoCounts /\ execs = NoCounts /\ outputs = {} /\ until = 0
    BY DEF Init
  <2>7. phase = "new" /\ version \in Versions /\ now = 0 /\ taken = FALSE /\ at = 0
        /\ cancel = FALSE /\ runs = 0 /\ edited = FALSE /\ converged = FALSE /\ first = 0
    BY DEF Init
  <2> QED BY <1>1, <2>1, <2>2, <2>3, <2>4, <2>5, <2>6, <2>7, Numbered DEF TypeOK, Settled
<1>3. Located /\ Waiting /\ Counted /\ Fed
  BY <1>1 DEF Init, Located, Waiting, Settled, Counted, Fed
<1> QED BY <1>2, <1>3 DEF IInv

LEMMA LaunchStep == ASSUME IInv, NEW u \in Bounds(version), Launch(u) PROVE IInv'
<1>1. TypeOK /\ version \in Versions
  BY DEF IInv, TypeOK
<1>2. /\ Nothing.outputs = {} /\ Nothing.routes = NoRoutes /\ Nothing.origin = 0
      /\ Nothing.answer = [node |-> 0, route |-> Plain] /\ Plain \in Routes
  BY DEF Nothing, NoAnswer, Routes
<1>3. /\ edited' \in BOOLEAN /\ execs' \in [NodeIds -> Nat]
      /\ \A s \in {paused', failure'} \ {NoSnapshot} : SnapshotOK(s)
  BY <1>1 DEF Launch, TypeOK, kept
<1>4. runs < MaxRuns /\ Compile(version, u, Nothing)
  BY DEF Launch
<1> HIDE DEF Nothing
<1> QED BY <1>1, <1>2, <1>3, <1>4, CompileStep, Numbered

\* What a run is given from a snapshot has its types in the graph of the snapshot.
LEMMA SnapshotFacts ==
    ASSUME NEW s, SnapshotOK(s), NEW answer
    PROVE  /\ s.version \in Versions /\ s.until \in Bounds(s.version)
           /\ s.node \in Graph[s.version].nodes
           /\ s.outputs \subseteq Graph[s.version].nodes
           /\ FromSnapshot(s, answer).outputs = s.outputs
           /\ FromSnapshot(s, answer).routes \in [NodeIds -> Routes]
           /\ FromSnapshot(s, answer).origin = s.node
           /\ FromSnapshot(s, answer).answer = answer
           /\ s.execs \in [NodeIds -> Nat]
BY DEF SnapshotOK, SnapshotType, FromSnapshot

\* A run that waits for a decision holds its snapshot.
LEMMA ResumeStep == ASSUME IInv, NEW route \in Routes, Resume(route) PROVE IInv'
<1> DEFINE v == paused.version
           answer == [node |-> paused.node, route |-> route]
           r == FromSnapshot(paused, answer)
<1>1. TypeOK /\ SnapshotOK(paused)
  BY DEF IInv, Resume, Waiting, TypeOK
<1>2. /\ v \in Versions /\ paused.until \in Bounds(v) /\ paused.node \in Graph[v].nodes
      /\ r.outputs \subseteq Graph[v].nodes /\ r.routes \in [NodeIds -> Routes]
      /\ r.origin \in Graph[v].nodes /\ r.answer = answer
      /\ paused.execs \in [NodeIds -> Nat]
  BY <1>1, SnapshotFacts
<1>3. answer \in [node : Graph[v].nodes \cup {0}, route : Routes]
  BY <1>2
<1>4. /\ edited' \in BOOLEAN /\ execs' = paused.execs
      /\ \A s \in {paused', failure'} \ {NoSnapshot} : SnapshotOK(s)
  BY <1>1 DEF Resume, TypeOK, kept
<1>5. runs < MaxRuns /\ Compile(v, paused.until, r) /\ paused' # NoSnapshot
  BY DEF IInv, Waiting, Resume, kept
<1> HIDE DEF v, answer, r
<1> QED BY <1>1, <1>2, <1>3, <1>4, <1>5, CompileStep

LEMMA RetryStep == ASSUME IInv, NEW v \in Versions, Retry(v) PROVE IInv'
<1> DEFINE r == FromSnapshot(failure, NoAnswer)
<1>1. TypeOK /\ SnapshotOK(failure)
  BY DEF IInv, Retry, TypeOK
<1>2. /\ failure.outputs \subseteq Graph[failure.version].nodes
      /\ r.outputs = failure.outputs /\ r.routes \in [NodeIds -> Routes]
      /\ r.origin = failure.node /\ r.answer = NoAnswer
      /\ failure.execs \in [NodeIds -> Nat]
  BY <1>1, SnapshotFacts
<1>3. failure.outputs \subseteq Graph[v].nodes
  <2> SUFFICES ASSUME NEW n \in failure.outputs, n \notin Graph[v].nodes
               PROVE  FALSE
    OBVIOUS
  <2>1. Signature(Graph[failure.version], n) = Signature(Graph[v], n)
    BY DEF Retry, retry_mismatch
  <2>2. Signature(Graph[v], n) = <<>>
    BY DEF Signature
  <2>3. Signature(Graph[failure.version], n) # <<>>
    BY <1>2 DEF Signature
  <2> QED BY <2>1, <2>2, <2>3
<1>4. NoAnswer \in [node : Graph[v].nodes \cup {0}, route : Routes]
  BY DEF NoAnswer, Routes
<1>5. /\ runs < MaxRuns /\ Compile(v, failure.until, r)
      /\ failure.node \in Graph[v].nodes /\ failure.until \in Bounds(v)
  BY DEF Retry
<1>6. edited' \in BOOLEAN /\ execs' = failure.execs
  BY <1>1 DEF Retry, TypeOK
<1>7. \A s \in {paused', failure'} \ {NoSnapshot} : SnapshotOK(s)
  <2> DEFINE copy == [failure EXCEPT !.version = v]
  <2>1. SnapshotOK(copy)
    <3>1. /\ copy \in SnapshotType /\ copy.version = v /\ copy.node = failure.node
          /\ copy.until = failure.until /\ copy.outputs = failure.outputs
      BY <1>1 DEF SnapshotOK, SnapshotType
    <3> QED BY <1>3, <1>5, <3>1 DEF SnapshotOK
  <2>2. SnapshotOK(paused) \/ paused = NoSnapshot
    BY <1>1 DEF TypeOK
  <2> QED BY <2>1, <2>2 DEF Retry
<1>8. r.answer.node = 0
  BY <1>2 DEF NoAnswer
<1> HIDE DEF NoAnswer, r
<1> QED BY <1>1, <1>2, <1>3, <1>4, <1>5, <1>6, <1>7, <1>8, CompileStep

-----------------------------------------------------------------------------
(* A run goes on and ends.                                                  *)

LEMMA TypeStays ==
    ASSUME TypeOK, UNCHANGED given,
           phase' \in Settled \cup {"running", "pausing", "failing", "stopping"},
           ready' \in Seq((SUBSET plan.nodes) \ {{}}),
           joined' \in [NodeIds -> SUBSET plan.nodes], now' \in plan.nodes \cup {0},
           outputs' \subseteq plan.nodes, routes' \in [NodeIds -> Routes],
           taken' \in BOOLEAN, at' \in plan.nodes \cup {0}, cancel' \in BOOLEAN,
           \A s \in {paused', failure'} \ {NoSnapshot} : SnapshotOK(s),
           first' \in plan.nodes \cup {0}, calls' \in [NodeIds -> Nat],
           execs' \in [NodeIds -> Nat]
    PROVE  TypeOK' /\ plan' = plan
<1>1. plan' = plan /\ graph' = graph
  BY DEF given, plan, graph
<1>2. (\A s \in {paused, failure} \ {NoSnapshot} : SnapshotOK(s))'
  OBVIOUS
<1>3. /\ version' = version /\ until' = until /\ resume' = resume /\ runs' = runs
      /\ edited' = edited /\ converged' = converged
  BY DEF given
<1>4. TypeOK'
  BY <1>1, <1>2, <1>3 DEF TypeOK
<1> QED BY <1>1, <1>4

\* What a run has done is a snapshot of its graph.
LEMMA Snapshots ==
    ASSUME TypeOK, at # 0
    PROVE  SnapshotOK(Snapshot) /\ Snapshot # NoSnapshot
<1>1. /\ plan.nodes \subseteq Graph[version].nodes /\ Graph[version].nodes \subseteq NodeIds
      /\ at \in plan.nodes /\ outputs \subseteq plan.nodes
      /\ version \in Versions /\ until \in Bounds(version) /\ until \in NodeIds \cup {0}
      /\ routes \in [NodeIds -> Routes] /\ execs \in [NodeIds -> Nat]
  BY RunFacts DEF TypeOK, graph, Bounds
<1>2. /\ Snapshot.node = at /\ Snapshot.version = version /\ Snapshot.until = until
      /\ Snapshot.outputs = outputs /\ Snapshot \in SnapshotType
  BY <1>1 DEF Snapshot, SnapshotType
<1>3. Snapshot # NoSnapshot
  BY <1>2 DEF NoSnapshot
<1> QED BY <1>1, <1>2, <1>3 DEF SnapshotOK

\* A step that only changes where the run is, what is cancelled or what is saved.
LEMMA QuietStep ==
    ASSUME IInv, UNCHANGED <<given, engine, at, first, taken>>,
           phase' \in Settled \cup {"running", "pausing", "failing", "stopping"},
           phase' \in {"pausing", "failing"} => phase' = phase,
           cancel' \in BOOLEAN, Waiting',
           \A s \in {paused', failure'} \ {NoSnapshot} : SnapshotOK(s)
    PROVE  IInv'
<1>1. TypeOK /\ Located /\ Waiting /\ Counted /\ (CalledOnce => Fed)
  BY DEF IInv
<1>2. /\ ready' = ready /\ joined' = joined /\ now' = now /\ outputs' = outputs
      /\ routes' = routes /\ calls' = calls /\ execs' = execs
      /\ at' = at /\ first' = first /\ taken' = taken
      /\ version' = version /\ until' = until
  BY DEF engine, given
<1>3. TypeOK'
  <2>1. /\ ready \in Seq((SUBSET plan.nodes) \ {{}}) /\ joined \in [NodeIds -> SUBSET plan.nodes]
        /\ now \in plan.nodes \cup {0} /\ outputs \subseteq plan.nodes
        /\ routes \in [NodeIds -> Routes] /\ taken \in BOOLEAN /\ at \in plan.nodes \cup {0}
        /\ first \in plan.nodes \cup {0} /\ calls \in [NodeIds -> Nat]
        /\ execs \in [NodeIds -> Nat]
    BY <1>1 DEF TypeOK
  <2> QED BY <1>1, <1>2, <2>1, TypeStays
<1>4. Located' /\ Counted'
  BY <1>1, <1>2 DEF Located, Counted
<1>5. CalledOnce' => Fed'
  BY <1>1, <1>2, FedStays DEF CalledOnce
<1> QED BY <1>3, <1>4, <1>5 DEF IInv

\* The end of a run keeps the snapshot of a decision that waits.
LEMMA EndStep ==
    ASSUME IInv, UNCHANGED <<given, engine, at, first, taken, cancel>>, phase \notin Settled,
           NEW status \in {"done", "error", "cancelled"}, NEW held,
           held # NoSnapshot => SnapshotOK(held),
           \/ Settle(status, held)
           \/ phase' = "awaiting" /\ at # 0 /\ paused' = Snapshot /\ failure' = failure
           \/ phase' = "cancelled" /\ paused' = NoSnapshot /\ failure' = NoSnapshot
    PROVE  IInv'
<1>1. TypeOK /\ Waiting
  BY DEF IInv
<1>2. \A s \in {paused, failure} \ {NoSnapshot} : SnapshotOK(s)
  BY <1>1 DEF TypeOK
<1>3. at # 0 => SnapshotOK(Snapshot) /\ Snapshot # NoSnapshot
  BY <1>1, Snapshots
<1>4. /\ phase' \in {"awaiting", "done", "error", "cancelled"}
      /\ phase' = "awaiting" => paused' # NoSnapshot
      /\ \A s \in {paused', failure'} \ {NoSnapshot} : SnapshotOK(s)
  <2>1. CASE Settle(status, held) /\ Untaken
    BY <1>1, <1>2, <2>1 DEF Settle, Waiting
  <2>2. CASE Settle(status, held) /\ ~Untaken
    BY <1>2, <2>2 DEF Settle
  <2>3. CASE phase' = "awaiting" /\ at # 0 /\ paused' = Snapshot /\ failure' = failure
    BY <1>2, <1>3, <2>3
  <2>4. CASE phase' = "cancelled" /\ paused' = NoSnapshot /\ failure' = NoSnapshot
    BY <2>4
  <2> QED BY <2>1, <2>2, <2>3, <2>4
<1>5. Waiting' /\ phase' \in Settled /\ phase' \notin {"pausing", "failing"}
  BY <1>4 DEF Waiting, Settled
<1>6. cancel' \in BOOLEAN
  BY <1>1 DEF TypeOK
<1> QED BY <1>4, <1>5, <1>6, QuietStep

LEMMA EndSteps ==
    ASSUME IInv, Cancelled \/ Pause \/ SaveFailure \/ Finish
    PROVE  IInv'
<1>1. TypeOK /\ Located
  BY DEF IInv
<1>2. failure # NoSnapshot => SnapshotOK(failure)
  BY <1>1 DEF TypeOK
<1>3. CASE Cancelled
  <2>1. /\ UNCHANGED <<given, engine, at, first, taken, cancel>> /\ phase \notin Settled
        /\ \/ Settle("cancelled", failure)
           \/ phase' = "cancelled" /\ paused' = NoSnapshot /\ failure' = NoSnapshot
    BY <1>3 DEF Cancelled, Settled
  <2> QED BY <1>2, <2>1, EndStep
<1>4. CASE Pause
  <2>1. /\ UNCHANGED <<given, engine, at, first, taken, cancel>> /\ phase \notin Settled
        /\ \/ Settle("error", failure)
           \/ phase' = "awaiting" /\ at # 0 /\ paused' = Snapshot /\ failure' = failure
    BY <1>1, <1>4 DEF Pause, Located, Settled
  <2> QED BY <1>2, <2>1, EndStep
<1>5. CASE SaveFailure
  <2>1. /\ UNCHANGED <<given, engine, at, first, taken, cancel>> /\ phase \notin Settled
        /\ at # 0
    BY <1>1, <1>5 DEF SaveFailure, Located, Settled
  <2>2. PICK held \in {failure, Snapshot} : Settle("error", held)
    BY <1>5 DEF SaveFailure
  <2>3. held # NoSnapshot => SnapshotOK(held)
    BY <1>1, <1>2, <2>1, Snapshots
  <2> QED BY <2>1, <2>2, <2>3, EndStep
<1>6. CASE Finish
  <2>1. /\ UNCHANGED <<given, engine, at, first, taken, cancel>> /\ phase \notin Settled
        /\ \E status \in {"done", "error", "cancelled"} : Settle(status, failure)
    BY <1>6 DEF Finish, Settled
  <2> QED BY <1>2, <2>1, EndStep
<1> QED BY <1>3, <1>4, <1>5, <1>6

LEMMA StopSteps ==
    ASSUME IInv, Stop \/ Leave \/ Close
    PROVE  IInv'
<1>1. TypeOK /\ Waiting
  BY DEF IInv
<1>2. /\ cancel \in BOOLEAN
      /\ phase \in Settled \cup {"running", "pausing", "failing", "stopping"}
      /\ \A s \in {paused, failure} \ {NoSnapshot} : SnapshotOK(s)
  BY <1>1 DEF TypeOK
<1>3. CASE Stop
  <2>1. /\ UNCHANGED <<given, engine, at, first, taken>> /\ phase' = phase /\ cancel' = TRUE
        /\ paused' = paused /\ failure' = failure /\ resume' = resume /\ taken' = taken
    BY <1>3 DEF Stop, kept, given
  <2>2. Waiting'
    BY <1>1, <2>1 DEF Waiting, Untaken
  <2> QED BY <1>2, <2>1, <2>2, QuietStep
<1>4. CASE Leave
  <2>1. /\ UNCHANGED <<given, engine, at, first, taken>> /\ phase' = "stopping" /\ cancel' = cancel
        /\ paused' = paused /\ failure' = failure /\ resume' = resume /\ taken' = taken
        /\ phase = "running"
    BY <1>4 DEF Leave, kept, given
  <2>2. Waiting'
    BY <1>1, <2>1 DEF Waiting, Untaken, Settled
  <2> QED BY <1>2, <2>1, <2>2, QuietStep
<1>5. CASE Close
  <2>1. /\ UNCHANGED <<given, engine, at, first, taken>> /\ phase' \in {"error", "cancelled"}
        /\ cancel' = cancel /\ paused' = NoSnapshot /\ failure' \in {failure, NoSnapshot}
    BY <1>5 DEF Close
  <2>2. Waiting' /\ phase' \in Settled /\ phase' \notin {"pausing", "failing"}
    BY <2>1 DEF Waiting, Settled
  <2> QED BY <1>2, <2>1, <2>2, QuietStep
<1> QED BY <1>3, <1>4, <1>5

\* A node that ADK calls for the first time has no output yet.
LEMMA CallFacts ==
    ASSUME IInv, NEW n, Call(n)
    PROVE  /\ n \in plan.nodes /\ n \in NodeIds /\ n # 0 /\ n \in Pending(ready)
           /\ Rest(n) \in Seq((SUBSET plan.nodes) \ {{}})
           /\ Pending(Rest(n)) \subseteq Pending(ready)
           /\ now = 0 /\ phase = "running"
           /\ calls' \in [NodeIds -> Nat] /\ calls'[n] = calls[n] + 1
           /\ \A m \in NodeIds : calls'[m] >= calls[m]
           /\ CalledOnce' => CalledOnce /\ n \notin outputs
<1>1. TypeOK /\ Counted
  BY DEF IInv
<1>2. Turn(n) /\ calls' = [calls EXCEPT ![n] = @ + 1]
  BY DEF Call
<1>3. /\ n \in plan.nodes /\ n \in Pending(ready)
      /\ Rest(n) \in Seq((SUBSET plan.nodes) \ {{}})
      /\ Pending(Rest(n)) \subseteq Pending(ready)
  BY <1>1, <1>2, PendingRest
<1>4. n \in NodeIds /\ n # 0
  BY <1>1, <1>3, RunFacts
<1>5. calls \in [NodeIds -> Nat]
  BY <1>1 DEF TypeOK
<1>6. /\ calls' \in [NodeIds -> Nat] /\ calls'[n] = calls[n] + 1
      /\ \A m \in NodeIds : calls'[m] >= calls[m]
  BY <1>2, <1>4, <1>5
<1>7. CalledOnce' => CalledOnce /\ n \notin outputs
  <2> SUFFICES ASSUME CalledOnce' PROVE CalledOnce /\ n \notin outputs
    OBVIOUS
  <2>1. \A m \in NodeIds : calls'[m] <= 1 /\ calls'[m] \in Nat /\ calls[m] \in Nat
    BY <1>5, <1>6 DEF CalledOnce
  <2>2. CalledOnce
    BY <1>6, <2>1 DEF CalledOnce
  <2>3. calls[n] = 0
    BY <1>4, <1>6, <2>1
  <2> QED BY <1>1, <2>2, <2>3 DEF Counted
<1> QED BY <1>2, <1>3, <1>4, <1>6, <1>7 DEF Turn

LEMMA ReplayStep == ASSUME IInv, NEW n, Replay(n) PROVE IInv'
<1>1. TypeOK /\ Located /\ Waiting /\ Counted /\ (CalledOnce => Fed)
  BY DEF IInv
<1> DEFINE route == resume.routes[n]
<1>2. /\ n \in plan.nodes /\ n \in NodeIds /\ n # 0 /\ n \in Pending(ready)
      /\ Rest(n) \in Seq((SUBSET plan.nodes) \ {{}})
      /\ Pending(Rest(n)) \subseteq Pending(ready)
      /\ now = 0 /\ phase = "running"
      /\ calls' \in [NodeIds -> Nat] /\ calls'[n] = calls[n] + 1
      /\ \A m \in NodeIds : calls'[m] >= calls[m]
      /\ CalledOnce' => CalledOnce /\ n \notin outputs
  BY CallFacts DEF Replay
<1>3. route \in Routes
  BY <1>1, <1>2 DEF TypeOK
<1>4. /\ outputs' = outputs \cup {n} /\ routes' = [routes EXCEPT ![n] = route]
      /\ HandOver(n, route, Rest(n))
      /\ now' = now /\ phase' = phase /\ taken' = taken /\ at' = at /\ cancel' = cancel
      /\ paused' = paused /\ failure' = failure /\ first' = first /\ execs' = execs
      /\ UNCHANGED given /\ resume' = resume
  BY DEF Replay, given, kept
<1> HIDE DEF route
<1>5. /\ ready' \in Seq((SUBSET plan.nodes) \ {{}})
      /\ joined' \in [NodeIds -> SUBSET plan.nodes]
  BY <1>1, <1>2, <1>4, HandOverFacts
<1>6. TypeOK' /\ plan' = plan
  <2>1. /\ phase' \in Settled \cup {"running", "pausing", "failing", "stopping"}
        /\ now' \in plan.nodes \cup {0} /\ outputs' \subseteq plan.nodes
        /\ routes' \in [NodeIds -> Routes] /\ taken' \in BOOLEAN
        /\ at' \in plan.nodes \cup {0} /\ cancel' \in BOOLEAN
        /\ first' \in plan.nodes \cup {0} /\ execs' \in [NodeIds -> Nat]
        /\ \A s \in {paused', failure'} \ {NoSnapshot} : SnapshotOK(s)
    BY <1>1, <1>2, <1>3, <1>4 DEF TypeOK
  <2> QED BY <1>1, <1>2, <1>4, <1>5, <2>1, TypeStays
<1>7. Located' /\ Waiting'
  BY <1>1, <1>2, <1>4 DEF Located, Waiting, Untaken, Settled
<1>8. Counted'
  <2>1. calls \in [NodeIds -> Nat] /\ outputs \subseteq NodeIds
    BY <1>1, RunFacts DEF TypeOK
  <2>2. \A m \in outputs' : calls'[m] >= 1
    BY <1>1, <1>2, <1>4, <2>1 DEF Counted
  <2>3. 0 \notin outputs'
    BY <1>1, <1>2, <1>4, RunFacts DEF TypeOK
  <2> QED BY <1>2, <1>4, <2>2, <2>3 DEF Counted
<1>9. CalledOnce' => Fed'
  <2> SUFFICES ASSUME CalledOnce' PROVE Fed'
    OBVIOUS
  <2>1. Fed /\ n \notin outputs
    BY <1>1, <1>2
  <2>2. Called(n)
    BY <1>2, <2>1 DEF Fed
  <2> QED BY <1>1, <1>2, <1>3, <1>4, <1>6, <2>1, <2>2, FedAfterOutput
<1> QED BY <1>6, <1>7, <1>8, <1>9 DEF IInv

LEMMA CompleteStep == ASSUME IInv, NEW route \in Routes, Complete(route) PROVE IInv'
<1>1. TypeOK /\ Located /\ Waiting /\ Counted /\ (CalledOnce => Fed)
  BY DEF IInv
<1>2. /\ now \in plan.nodes /\ now \in NodeIds /\ now # 0 /\ phase = "running"
      /\ 0 \notin plan.nodes /\ ready \in Seq((SUBSET plan.nodes) \ {{}})
      /\ calls \in [NodeIds -> Nat] /\ execs \in [NodeIds -> Nat]
  BY <1>1, RunFacts DEF Complete, TypeOK
<1>3. /\ outputs' = outputs \cup {now} /\ routes' = [routes EXCEPT ![now] = route]
      /\ HandOver(now, route, ready)
      /\ now' = 0 /\ phase' = phase /\ taken' = taken /\ at' = at /\ cancel' = cancel
      /\ paused' = paused /\ failure' = failure /\ first' = first /\ calls' = calls
      /\ UNCHANGED given /\ resume' = resume
      /\ execs' = [execs EXCEPT ![now] = @ + 1]
  BY DEF Complete, given, kept
<1>4. /\ ready' \in Seq((SUBSET plan.nodes) \ {{}})
      /\ joined' \in [NodeIds -> SUBSET plan.nodes]
  BY <1>1, <1>2, <1>3, HandOverFacts
<1>5. TypeOK' /\ plan' = plan
  <2>1. execs' \in [NodeIds -> Nat]
    BY <1>2, <1>3
  <2>2. /\ phase' \in Settled \cup {"running", "pausing", "failing", "stopping"}
        /\ now' \in plan.nodes \cup {0} /\ outputs' \subseteq plan.nodes
        /\ routes' \in [NodeIds -> Routes] /\ taken' \in BOOLEAN
        /\ at' \in plan.nodes \cup {0} /\ cancel' \in BOOLEAN
        /\ first' \in plan.nodes \cup {0} /\ calls' \in [NodeIds -> Nat]
        /\ \A s \in {paused', failure'} \ {NoSnapshot} : SnapshotOK(s)
    BY <1>1, <1>2, <1>3 DEF TypeOK
  <2> QED BY <1>1, <1>3, <1>4, <2>1, <2>2, TypeStays
<1>6. Located' /\ Waiting'
  BY <1>1, <1>2, <1>3 DEF Located, Waiting, Untaken, Settled
<1>7. Counted'
  <2>1. 0 \notin outputs'
    BY <1>1, <1>2, <1>3 DEF TypeOK
  <2> QED BY <1>1, <1>2, <1>3, <2>1 DEF Counted
<1>8. CalledOnce' => Fed'
  <2> SUFFICES ASSUME CalledOnce' PROVE Fed'
    OBVIOUS
  <2>1. CalledOnce
    BY <1>3 DEF CalledOnce
  <2>2. now \notin outputs
    <3>1. calls[now] \in Nat /\ calls[now] <= 1
      BY <1>2, <2>1 DEF CalledOnce
    <3> QED BY <1>1, <3>1 DEF Counted
  <2>3. Fed /\ Called(now)
    BY <1>1, <1>2, <2>1 DEF Fed
  <2> QED BY <1>1, <1>2, <1>3, <1>5, <2>2, <2>3, FedAfterOutput
<1> QED BY <1>5, <1>6, <1>7, <1>8 DEF IInv

\* A node called for the first time in the run: its body begins, or does not.
LEMMA FreshStep ==
    ASSUME IInv, NEW n, Fresh(n), ready' = Rest(n), now' \in {0, n},
           phase' \in {"running", "pausing", "failing"}, at' \in {at, n},
           phase' # "running" => at' = n,
           failure' = failure,
           \/ taken' = taken /\ paused' = paused
           \/ taken' = TRUE /\ paused' = NoSnapshot
    PROVE  IInv'
<1>1. TypeOK /\ Located /\ Waiting /\ Counted /\ (CalledOnce => Fed)
  BY DEF IInv
<1>2. /\ n \in plan.nodes /\ n \in NodeIds /\ n # 0 /\ n \in Pending(ready)
      /\ Rest(n) \in Seq((SUBSET plan.nodes) \ {{}})
      /\ Pending(Rest(n)) \subseteq Pending(ready)
      /\ now = 0 /\ phase = "running"
      /\ calls' \in [NodeIds -> Nat] /\ calls'[n] = calls[n] + 1
      /\ \A m \in NodeIds : calls'[m] >= calls[m]
      /\ CalledOnce' => CalledOnce /\ n \notin outputs
  BY CallFacts DEF Fresh
<1>3. /\ first' \in {first, n} /\ UNCHANGED given /\ version' = version /\ until' = until
      /\ joined' = joined /\ outputs' = outputs /\ routes' = routes
      /\ cancel' = cancel /\ execs' = execs /\ resume' = resume
  BY DEF Fresh, given
<1>4. TypeOK'
  <2>1. /\ phase' \in Settled \cup {"running", "pausing", "failing", "stopping"}
        /\ ready' \in Seq((SUBSET plan.nodes) \ {{}})
        /\ joined' \in [NodeIds -> SUBSET plan.nodes]
        /\ now' \in plan.nodes \cup {0} /\ outputs' \subseteq plan.nodes
        /\ routes' \in [NodeIds -> Routes]
        /\ at' \in plan.nodes \cup {0} /\ cancel' \in BOOLEAN
        /\ first' \in plan.nodes \cup {0} /\ execs' \in [NodeIds -> Nat]
        /\ taken' \in BOOLEAN
        /\ \A s \in {paused', failure'} \ {NoSnapshot} : SnapshotOK(s)
    BY <1>1, <1>2, <1>3 DEF TypeOK
  <2> QED BY <1>1, <1>2, <1>3, <2>1, TypeStays
<1>5. Located' /\ Waiting'
  BY <1>1, <1>2, <1>3 DEF Located, Waiting, Untaken, Settled
<1>6. Counted'
  <2>1. calls \in [NodeIds -> Nat] /\ outputs \subseteq NodeIds /\ 0 \notin outputs
    BY <1>1, RunFacts DEF TypeOK
  <2>2. \A m \in outputs : calls[m] >= 1 /\ calls'[m] \in Nat /\ calls[m] \in Nat
    BY <1>1, <1>2, <2>1 DEF Counted
  <2>3. \A m \in outputs : calls'[m] >= 1
    BY <1>2, <2>1, <2>2
  <2>4. calls'[n] >= 1 /\ (n \in outputs => calls'[n] >= 2)
    BY <1>2, <2>1, <2>2
  <2> QED BY <1>3, <2>1, <2>3, <2>4 DEF Counted
<1>7. CalledOnce' => Fed'
  BY <1>1, <1>2, <1>3, FedStays
<1> QED BY <1>4, <1>5, <1>6, <1>7 DEF IInv

LEMMA BodySteps ==
    ASSUME IInv, Fail \/ \E n \in NodeIds : Begin(n) \/ Ask(n)
    PROVE  IInv'
<1>1. TypeOK /\ Located /\ Waiting /\ Counted /\ (CalledOnce => Fed)
  BY DEF IInv
<1>2. ASSUME NEW n \in NodeIds, Begin(n)
      PROVE  IInv'
  <2>1. /\ failure' = failure
        /\ (taken' = taken /\ paused' = paused) \/ (taken' = TRUE /\ paused' = NoSnapshot)
    BY <1>2 DEF Begin
  <2>2. phase' = "running"
    BY <1>2 DEF Begin, Fresh, Call, Turn
  <2>3. Fresh(n) /\ ready' = Rest(n) /\ now' = n /\ at' = at
    BY <1>2 DEF Begin
  <2> QED BY <2>1, <2>2, <2>3, FreshStep
<1>3. ASSUME NEW n \in NodeIds, Ask(n)
      PROVE  IInv'
  <2>1. /\ taken' = taken /\ paused' = paused /\ failure' = failure /\ at' = n /\ ready' = Rest(n)
        /\ phase' \in {"pausing", "failing"} /\ now' = now /\ Fresh(n)
    BY <1>3 DEF Ask, kept
  <2>2. now' = 0
    BY <2>1 DEF Fresh, Call, Turn
  <2> QED BY <2>1, <2>2, FreshStep
<1>4. CASE Fail
  <2>1. /\ now # 0 /\ phase' = "failing" /\ at' = now /\ now' = 0 /\ UNCHANGED given
        /\ ready' = ready /\ joined' = joined /\ outputs' = outputs /\ routes' = routes
        /\ taken' = taken /\ cancel' = cancel /\ paused' = paused /\ failure' = failure
        /\ first' = first /\ resume' = resume /\ phase = "running" /\ calls' = calls
        /\ execs' = execs /\ version' = version /\ until' = until
    BY <1>4 DEF Fail, given, kept
  <2>2. TypeOK'
    <3>1. /\ phase' \in Settled \cup {"running", "pausing", "failing", "stopping"}
          /\ ready' \in Seq((SUBSET plan.nodes) \ {{}})
          /\ joined' \in [NodeIds -> SUBSET plan.nodes]
          /\ now' \in plan.nodes \cup {0} /\ outputs' \subseteq plan.nodes
          /\ routes' \in [NodeIds -> Routes] /\ taken' \in BOOLEAN
          /\ at' \in plan.nodes \cup {0} /\ cancel' \in BOOLEAN
          /\ first' \in plan.nodes \cup {0} /\ calls' \in [NodeIds -> Nat]
          /\ execs' \in [NodeIds -> Nat]
          /\ \A s \in {paused', failure'} \ {NoSnapshot} : SnapshotOK(s)
      BY <1>1, <2>1 DEF TypeOK
    <3> QED BY <1>1, <2>1, <3>1, TypeStays
  <2>3. Located' /\ Waiting'
    BY <1>1, <2>1 DEF Located, Waiting, Untaken, Settled
  <2>4. Counted'
    <3>1. 0 \notin outputs'
      BY <1>1, <2>1, RunFacts DEF TypeOK
    <3> QED BY <1>1, <2>1, <3>1 DEF Counted
  <2>5. CalledOnce' => Fed'
    BY <1>1, <2>1, FedStays DEF CalledOnce
  <2> QED BY <2>2, <2>3, <2>4, <2>5 DEF IInv
<1> QED BY <1>2, <1>3, <1>4

-----------------------------------------------------------------------------
(* The first theorems.                                                      *)

LEMMA StutterStep == ASSUME IInv, UNCHANGED vars PROVE IInv'
<1>1. /\ UNCHANGED <<given, engine, at, first, taken>> /\ phase' = phase /\ cancel' = cancel
      /\ paused' = paused /\ failure' = failure /\ resume' = resume /\ taken' = taken
  BY DEF vars, given, engine
<1>2. /\ cancel \in BOOLEAN
      /\ phase \in Settled \cup {"running", "pausing", "failing", "stopping"}
      /\ \A s \in {paused, failure} \ {NoSnapshot} : SnapshotOK(s)
  BY DEF IInv, TypeOK
<1>3. Waiting'
  BY <1>1 DEF IInv, Waiting, Untaken
<1> QED BY <1>1, <1>2, <1>3, QuietStep

\* The inductive invariant: types, where a run stopped, what ADK has called, and
\* that all it holds comes along the recorded routes of nodes that are done.
THEOREM Invariance == Spec => []IInv
<1>1. Init => IInv
  BY InitStep
<1>2. IInv /\ [Next]_vars => IInv'
  <2> SUFFICES ASSUME IInv, [Next]_vars PROVE IInv'
    OBVIOUS
  <2>1. CASE \E u \in Bounds(version) : Launch(u)
    BY <2>1, LaunchStep
  <2>2. CASE \E r \in Routes : Resume(r)
    BY <2>2, ResumeStep
  <2>3. CASE \E v \in Versions : Retry(v)
    BY <2>3, RetryStep
  <2>4. CASE Run
    <3>1. CASE \E n \in NodeIds : Replay(n)
      BY <3>1, ReplayStep
    <3>2. CASE \E n \in NodeIds : Begin(n) \/ Ask(n)
      BY <3>2, BodySteps
    <3>3. CASE \E r \in Routes : Complete(r)
      BY <3>3, CompleteStep
    <3>4. CASE Fail
      BY <3>4, BodySteps
    <3>5. CASE Leave
      BY <3>5, StopSteps
    <3>6. CASE Cancelled \/ Pause \/ SaveFailure \/ Finish
      BY <3>6, EndSteps
    <3> QED BY <2>4, <3>1, <3>2, <3>3, <3>4, <3>5, <3>6 DEF Run
  <2>5. CASE Stop \/ Close
    BY <2>5, StopSteps
  <2>6. CASE Over
    BY <2>6, StutterStep DEF Over
  <2>7. CASE UNCHANGED vars
    BY <2>7, StutterStep
  <2> QED BY <2>1, <2>2, <2>3, <2>4, <2>5, <2>6, <2>7 DEF Next
<1> QED BY <1>1, <1>2, PTL DEF Spec

\* Every variable keeps its type; the snapshot a run leaves is one of its graph.
THEOREM TypeCorrect == Spec => []TypeOK
<1>1. IInv => TypeOK
  BY DEF IInv
<1> QED BY <1>1, Invariance, PTL

\* For every valid graph: a node that is done was called along the routes recorded
\* before it, however often the chain paused, failed, was stopped and resumed.
THEOREM OnePath == Spec => []PathJustified
<1>1. IInv => PathJustified
  BY DEF IInv, Fed, PathJustified
<1> QED BY <1>1, Invariance, PTL

-----------------------------------------------------------------------------
(* What a resumed run does, as a walk over what ADK holds.                  *)

\* The node ADK calls next, what it holds then, and what n's route adds to it.
Due(held, n) == held # <<>> /\ n \in Head(held) /\ \A m \in Head(held) : n <= m
Rested(held, n) == IF Head(held) = {n} THEN Tail(held)
                   ELSE [held EXCEPT ![1] = @ \ {n}]
Handed(p, n, route, waiting, inputs) ==
    LET told == Targets(p, n, route)
        merges == {m \in told : p.kind[m] = "merge"}
        full == {m \in merges : inputs[m] \cup {n} = Parents(p, m)}
        called == (told \ merges) \cup full
    IN  <<IF called = {} THEN waiting ELSE Append(waiting, called),
          [m \in NodeIds |-> IF m \in full THEN {}
                             ELSE IF m \in merges THEN inputs[m] \cup {n}
                             ELSE inputs[m]]>>

\* A place of a run: what ADK holds between two calls, and the nodes that are done.
Place == <<ready, joined, outputs>>
Outset(p) == <<<<Starts(p)>>, [n \in NodeIds |-> {}], {}>>
After(p, c, n, route) ==
    LET held == Handed(p, n, route, Rested(c[1], n), c[2])
    IN  <<held[1], held[2], c[3] \cup {n}>>

\* The places from the first one to last, along the routes rt of the nodes done there.
Walk(V, p, rt, last) ==
    /\ Outset(p) \in V
    /\ \A c \in V : c = last \/ \E n \in last[3] :
                        Due(c[1], n) /\ After(p, c, n, rt[n]) \in V

\* No body ran twice, and only bodies of nodes of done ran.
Once(counts, done) ==
    \A n \in NodeIds : counts[n] = 0 \/ (counts[n] = 1 /\ n \in done)

\* A snapshot was taken where its routes lead, before its node was done.
Sound(s) ==
    /\ s.node \notin s.outputs
    /\ Once(s.execs, s.outputs)
    /\ \E V, last : /\ Walk(V, Plans[s.version][s.until], s.routes, last)
                    /\ last[3] = s.outputs /\ Due(last[1], s.node)
AllSound == \A s \in {paused, failure} \ {NoSnapshot} : Sound(s)

\* The place where n was called, and the run has not moved since.
CalledFrom(V, c, n) ==
    /\ Walk(V, plan, routes, c) /\ Due(c[1], n) /\ c[3] = outputs
    /\ ready = Rested(c[1], n) /\ joined = c[2]
Walked ==
    /\ phase = "running" /\ now = 0 => \E V : Walk(V, plan, routes, Place)
    /\ phase = "running" /\ now # 0 =>
            now \notin outputs \cup resume.outputs /\ \E V, c : CalledFrom(V, c, now)
    /\ phase \in {"pausing", "failing"} =>
            at \notin outputs /\ \E V, c : CalledFrom(V, c, at)

\* Until it calls a new node, a resumed run is at a place of the walk it was given.
Follows(V, last) ==
    /\ Walk(V, plan, resume.routes, last) /\ last[3] = resume.outputs
    /\ Due(last[1], resume.origin) /\ Place \in V
Replaying ==
    resume.origin # 0 /\ first = 0 =>
        resume.origin \notin resume.outputs /\ \E V, last : Follows(V, last)

\* From then on it is where the last run stopped, with all that was done there.
Past ==
    /\ Once(execs, outputs \cup resume.outputs)
    /\ resume.origin # 0 => first \in {0, resume.origin}
    /\ first # 0 => resume.outputs \subseteq outputs
    /\ phase \in {"awaiting", "done", "error"} /\ ~cancel /\ resume.origin # 0 => first # 0

Entered ==
    /\ now # 0 \/ phase \in {"pausing", "failing"} => first # 0
    /\ phase = "stopping" => cancel
    /\ phase = "done" => ~cancel
    /\ phase = "new" => execs = NoCounts
    /\ resume.origin = 0 => resume.outputs = {}

Chain == AllSound /\ Walked /\ Replaying /\ Past
RInv == Entered /\ (Faithful => Chain)

LEMMA Numbers ==
    ASSUME TypeOK
    PROVE  graph.nodes \subseteq Nat /\ plan.nodes \subseteq Nat /\ resume.outputs \subseteq Nat
           /\ resume.origin \in Nat
<1>1. version \in Versions
  BY DEF TypeOK
<1>2. graph.nodes \subseteq Nat
  BY <1>1, NodeFacts DEF graph
<1> QED BY <1>2, RunFacts DEF TypeOK

\* ADK calls the nodes of a set in the order of the graph: there is one next node.
LEMMA DueOnce ==
    ASSUME NEW held, NEW n \in Nat, NEW m \in Nat, Due(held, n), Due(held, m)
    PROVE  n = m
BY DEF Due

LEMMA TurnIsDue ==
    ASSUME NEW n, Turn(n)
    PROVE  Due(ready, n) /\ Rest(n) = Rested(ready, n)
BY DEF Turn, Due, Rest, Rested

\* A call that hands over moves the run to the place after it.
LEMMA HandOverMoves ==
    ASSUME NEW c, NEW n, NEW route, NEW waiting, waiting = Rested(c[1], n),
           joined = c[2], outputs = c[3],
           HandOver(n, route, waiting), outputs' = outputs \cup {n}
    PROVE  Place' = After(plan, c, n, route)
<1>1. ready' = Handed(plan, n, route, waiting, joined)[1]
  BY DEF HandOver, Handed
<1>2. joined' = Handed(plan, n, route, waiting, joined)[2]
  BY DEF HandOver, Handed
<1> QED BY <1>1, <1>2 DEF After, Place

\* One more node that is done leads the walk one place further.
LEMMA WalkGrows ==
    ASSUME NEW V, NEW p, NEW rt \in [NodeIds -> Routes], NEW c, NEW n \in NodeIds,
           NEW route \in Routes, Walk(V, p, rt, c), Due(c[1], n), n \notin c[3]
    PROVE  Walk(V \cup {After(p, c, n, route)}, p, [rt EXCEPT ![n] = route],
                After(p, c, n, route))
<1> DEFINE next == After(p, c, n, route)
           after == [rt EXCEPT ![n] = route]
           W == V \cup {next}
<1>1. next[3] = c[3] \cup {n}
  BY DEF After
<1>2. after[n] = route /\ \A m \in c[3] : after[m] = rt[m]
  OBVIOUS
<1>3. Outset(p) \in W
  BY DEF Walk
<1>4. ASSUME NEW d \in W, d # next
      PROVE  \E m \in next[3] : Due(d[1], m) /\ After(p, d, m, after[m]) \in W
  <2>1. CASE d = c
    BY <1>1, <1>2, <2>1
  <2>2. CASE d # c
    <3>1. PICK m \in c[3] : Due(d[1], m) /\ After(p, d, m, rt[m]) \in V
      BY <1>4, <2>2 DEF Walk
    <3> QED BY <1>1, <1>2, <3>1
  <2> QED BY <2>1, <2>2
<1> HIDE DEF next, after, W
<1>5. Walk(W, p, after, next)
  BY <1>3, <1>4 DEF Walk
<1> QED BY <1>5 DEF next, after, W

\* A run that still replays is about to call a node of the snapshot, or is where
\* the last run stopped; and it is not at an end.
LEMMA NextOfReplay ==
    ASSUME TypeOK, Replaying, resume.origin # 0, first = 0
    PROVE  /\ ready # <<>>
           /\ \A n \in Nat : Due(ready, n) =>
                 (n = resume.origin /\ outputs = resume.outputs) \/ n \in resume.outputs
<1>1. PICK V, last : Follows(V, last)
  BY DEF Replaying
<1>2. Place = last \/ \E n \in last[3] : Due(ready, n)
  BY <1>1 DEF Follows, Walk, Place
<1>3. CASE Place = last
  <2>1. Due(ready, resume.origin) /\ outputs = resume.outputs
    BY <1>1, <1>3 DEF Follows, Place
  <2> QED BY <2>1, Numbers, DueOnce DEF Due
<1>4. CASE \E n \in last[3] : Due(ready, n)
  <2>1. PICK m \in resume.outputs : Due(ready, m)
    BY <1>1, <1>4 DEF Follows
  <2> QED BY <2>1, Numbers, DueOnce DEF Due
<1> QED BY <1>2, <1>3, <1>4

-----------------------------------------------------------------------------
(* How a resumed run follows the walk it was given.                         *)

\* A run starts at the first place, with what a sound snapshot gives it.
LEMMA CompileKeeps ==
    ASSUME NEW v \in Versions, NEW u \in Bounds(v), NEW r, Compile(v, u, r),
           ~edited' => ~edited,
           Faithful => AllSound' /\ Once(execs', r.outputs)
                       /\ (r.origin # 0 => r.origin \notin r.outputs),
           Faithful => r.origin = 0 \/ \E V, last :
                Walk(V, Plans[v][u], r.routes, last) /\ last[3] = r.outputs
                /\ Due(last[1], r.origin),
           r.origin = 0 => r.outputs = {}
    PROVE  RInv'
<1>1. /\ phase' = "running" /\ now' = 0 /\ resume' = r /\ first' = 0 /\ outputs' = {}
      /\ plan' = Plans[v][u] /\ Place' = Outset(plan')
      /\ converged' = (converged \/ ~CalledOnce)
  BY DEF Compile, plan, Place, Outset
<1>2. Entered'
  BY <1>1 DEF Entered
<1>3. ASSUME Faithful' PROVE Chain'
  <2>1. Faithful
    BY <1>1, <1>3 DEF Faithful
  <2>2. Walk({Outset(plan')}, plan', routes', Outset(plan'))
    BY DEF Walk
  <2>3. (\E V : Walk(V, plan, routes, Place))'
    BY <1>1, <2>2
  <2>4. Walked'
    BY <1>1, <2>3 DEF Walked
  <2>5. Replaying'
    <3> SUFFICES ASSUME r.origin # 0
                 PROVE  r.origin \notin r.outputs /\ (\E V, last : Follows(V, last))'
      BY <1>1 DEF Replaying
    <3>1. PICK V, last : Walk(V, plan', r.routes, last) /\ last[3] = r.outputs
                         /\ Due(last[1], r.origin)
      BY <1>1, <2>1
    <3>2. Follows(V, last)'
      BY <1>1, <3>1 DEF Follows, Walk
    <3> QED BY <2>1, <3>2
  <2>6. Past'
    <3>1. outputs' \cup resume'.outputs = r.outputs
      BY <1>1
    <3>2. Once(execs, outputs \cup resume.outputs)'
      BY <2>1, <3>1
    <3> QED BY <1>1, <3>2 DEF Past
  <2> QED BY <2>1, <2>4, <2>5, <2>6 DEF Chain
<1> QED BY <1>2, <1>3 DEF RInv

LEMMA LaunchKeeps ==
    ASSUME IInv, RInv, NEW u \in Bounds(version), Launch(u) PROVE RInv'
<1>1. version \in Versions /\ Compile(version, u, Nothing) /\ phase = "new"
      /\ execs' = execs /\ edited' = edited /\ paused' = paused /\ failure' = failure
  BY DEF IInv, TypeOK, Launch, kept
<1>2. Nothing.outputs = {} /\ Nothing.origin = 0
  BY DEF Nothing
<1>3. Once(execs', Nothing.outputs)
  BY <1>1 DEF RInv, Entered, Once, NoCounts
<1>4. Faithful => AllSound'
  BY <1>1 DEF RInv, Chain, AllSound
<1> HIDE DEF Nothing
<1> QED BY <1>1, <1>2, <1>3, <1>4, CompileKeeps

\* What a snapshot gives the run that starts from it.
LEMMA SoundGives ==
    ASSUME NEW s, NEW answer, Sound(s)
    PROVE  LET r == FromSnapshot(s, answer)
           IN  /\ r.origin \notin r.outputs /\ Once(s.execs, r.outputs)
               /\ \E V, last : Walk(V, Plans[s.version][s.until], r.routes, last)
                               /\ last[3] = r.outputs /\ Due(last[1], r.origin)
BY DEF Sound, FromSnapshot

LEMMA ResumeKeeps ==
    ASSUME IInv, RInv, NEW route \in Routes, Resume(route) PROVE RInv'
<1> DEFINE answer == [node |-> paused.node, route |-> route]
           r == FromSnapshot(paused, answer)
<1>1. SnapshotOK(paused) /\ paused # NoSnapshot
  BY DEF IInv, Resume, Waiting, TypeOK
<1>2. /\ Compile(paused.version, paused.until, r) /\ execs' = paused.execs
      /\ edited' = edited /\ paused' = paused /\ failure' = failure
  BY DEF Resume, kept
<1>3. /\ paused.version \in Versions /\ paused.until \in Bounds(paused.version)
      /\ r.origin # 0
  BY <1>1, SnapshotFacts, NodeFacts
<1>4. Faithful => AllSound' /\ Sound(paused)
  BY <1>1, <1>2 DEF RInv, Chain, AllSound
<1>5. Faithful => /\ r.origin \notin r.outputs /\ Once(execs', r.outputs)
                  /\ \E V, last : Walk(V, Plans[paused.version][paused.until], r.routes, last)
                                  /\ last[3] = r.outputs /\ Due(last[1], r.origin)
  BY <1>2, <1>4, SoundGives
<1> HIDE DEF r, answer
<1> QED BY <1>2, <1>3, <1>4, <1>5, CompileKeeps

LEMMA RetryKeeps ==
    ASSUME IInv, RInv, NEW v \in Versions, Retry(v) PROVE RInv'
<1> DEFINE r == FromSnapshot(failure, NoAnswer)
           copy == [failure EXCEPT !.version = v]
<1>1. SnapshotOK(failure) /\ failure # NoSnapshot
  BY DEF IInv, Retry, TypeOK
<1>2. /\ Compile(v, failure.until, r) /\ failure.until \in Bounds(v)
      /\ execs' = failure.execs /\ edited' = (edited \/ v # failure.version)
      /\ failure' \in {copy, NoSnapshot} /\ paused' = paused
  BY DEF Retry
<1>3. r.origin # 0
  BY <1>1, SnapshotFacts, NodeFacts
<1>4. edited' \in BOOLEAN /\ edited \in BOOLEAN
  BY <1>2 DEF IInv, TypeOK
<1>5. CASE edited'
  <2>1. ~Faithful'
    BY <1>5 DEF Faithful
  <2>2. Entered'
    BY <1>2, <1>3 DEF Entered, Compile
  <2> QED BY <2>1, <2>2 DEF RInv
<1>6. CASE ~edited'
  <2>1. v = failure.version /\ ~edited
    BY <1>2, <1>4, <1>6
  <2>2. copy = failure
    BY <1>1, <2>1 DEF SnapshotOK, SnapshotType
  <2>3. Faithful => AllSound' /\ Sound(failure)
    BY <1>1, <1>2, <2>2 DEF RInv, Chain, AllSound
  <2>4. Faithful => /\ r.origin \notin r.outputs /\ Once(execs', r.outputs)
                    /\ \E V, last : Walk(V, Plans[v][failure.until], r.routes, last)
                                    /\ last[3] = r.outputs /\ Due(last[1], r.origin)
    BY <1>2, <2>1, <2>3, SoundGives
  <2> HIDE DEF r, copy
  <2> QED BY <1>2, <1>3, <2>1, <2>3, <2>4, CompileKeeps
<1> QED BY <1>5, <1>6

LEMMA OnceGrows ==
    ASSUME NEW counts, NEW A, NEW B, A \subseteq B, Once(counts, A)
    PROVE  Once(counts, B)
BY DEF Once

LEMMA ReplayKeeps ==
    ASSUME IInv, RInv, NEW n, Replay(n) PROVE RInv'
<1>1. TypeOK
  BY DEF IInv
<1>2. /\ n \in plan.nodes /\ n \in NodeIds /\ n # 0 /\ now = 0 /\ phase = "running"
      /\ CalledOnce' => CalledOnce /\ n \notin outputs
  BY CallFacts DEF Replay
<1>3. /\ outputs' = outputs \cup {n} /\ HandOver(n, resume.routes[n], Rest(n))
      /\ routes' = [routes EXCEPT ![n] = resume.routes[n]] /\ n \in resume.outputs
      /\ now' = now /\ phase' = phase /\ at' = at /\ cancel' = cancel /\ first' = first
      /\ paused' = paused /\ failure' = failure /\ execs' = execs
      /\ resume' = resume /\ edited' = edited /\ converged' = converged
      /\ plan' = plan
  BY DEF Replay, given, kept, plan
<1>4. Entered'
  BY <1>3 DEF RInv, Entered
<1>5. ASSUME Faithful' PROVE Chain'
  <2>1. Faithful /\ Chain /\ n \notin outputs
    BY <1>2, <1>3, <1>5 DEF Faithful, RInv
  <2>2. Due(ready, n) /\ Rest(n) = Rested(ready, n)
    BY TurnIsDue DEF Replay, Call
  <2>3. Place' = After(plan, Place, n, resume.routes[n])
    BY <1>3, <2>2, HandOverMoves DEF Place
  <2>4. AllSound'
    BY <1>3, <2>1 DEF Chain, AllSound
  <2>5. Walked'
    <3>1. PICK V : Walk(V, plan, routes, Place)
      BY <1>2, <2>1 DEF Chain, Walked
    <3>2. routes \in [NodeIds -> Routes] /\ resume.routes[n] \in Routes
      BY <1>1, <1>2 DEF TypeOK
    <3>3. n \notin Place[3] /\ Due(Place[1], n)
      BY <2>1, <2>2 DEF Place
    <3>4. Walk(V \cup {Place'}, plan, routes', Place')
      BY <1>2, <1>3, <2>3, <3>1, <3>2, <3>3, WalkGrows
    <3> QED BY <1>2, <1>3, <3>4 DEF Walked
  <2>6. Replaying'
    <3> SUFFICES ASSUME resume.origin # 0, first = 0
                 PROVE  resume.origin \notin resume.outputs /\ (\E V, last : Follows(V, last))'
      BY <1>3 DEF Replaying
    <3>1. PICK V, last : Follows(V, last)
      BY <2>1 DEF Chain, Replaying
    <3>2. resume.origin \notin resume.outputs
      BY <2>1 DEF Chain, Replaying
    <3>3. n # resume.origin /\ n \in Nat
      BY <1>1, <1>3, <3>2, Numbers
    <3>4. Place # last
      BY <1>1, <2>2, <3>1, <3>3, Numbers, DueOnce DEF Follows, Place
    <3>5. PICK m \in resume.outputs :
            Due(ready, m) /\ After(plan, Place, m, resume.routes[m]) \in V
      BY <3>1, <3>4 DEF Follows, Walk, Place
    <3>6. m = n
      BY <1>1, <2>2, <3>3, <3>5, Numbers, DueOnce
    <3>7. Follows(V, last)'
      BY <1>3, <2>3, <3>1, <3>5, <3>6 DEF Follows
    <3> QED BY <3>2, <3>7
  <2>7. Past'
    BY <1>2, <1>3, <2>1, OnceGrows DEF Chain, Past
  <2> QED BY <2>4, <2>5, <2>6, <2>7 DEF Chain
<1> QED BY <1>4, <1>5 DEF RInv

\* The first node a resumed run calls itself is the one where the last run stopped.
LEMMA FreshKeeps ==
    ASSUME IInv, RInv, NEW n, Fresh(n), ready' = Rest(n), failure' = failure,
           paused' \in {paused, NoSnapshot},
           \/ phase' = "running" /\ now' = n
           \/ phase' \in {"pausing", "failing"} /\ now' = 0 /\ at' = n
    PROVE  RInv'
<1>1. TypeOK
  BY DEF IInv
<1>2. /\ n \in plan.nodes /\ n \in NodeIds /\ n # 0 /\ now = 0 /\ phase = "running"
      /\ CalledOnce' => CalledOnce /\ n \notin outputs
  BY CallFacts DEF Fresh
<1>3. /\ n \notin resume.outputs /\ first' = (IF first = 0 THEN n ELSE first)
      /\ outputs' = outputs /\ routes' = routes /\ joined' = joined /\ cancel' = cancel
      /\ execs' = execs /\ resume' = resume /\ edited' = edited /\ converged' = converged
      /\ plan' = plan
  BY DEF Fresh, given, plan
<1>4. first' # 0
  BY <1>2, <1>3
<1>5. Entered'
  BY <1>3, <1>4 DEF RInv, Entered
<1>6. ASSUME Faithful' PROVE Chain'
  <2>1. Faithful /\ Chain /\ n \notin outputs
    BY <1>2, <1>3, <1>6 DEF Faithful, RInv
  <2>2. Due(ready, n) /\ Rest(n) = Rested(ready, n)
    BY TurnIsDue DEF Fresh, Call
  <2>3. AllSound'
    BY <2>1 DEF Chain, AllSound
  <2>4. (\E V, c : CalledFrom(V, c, n))'
    <3>1. PICK V : Walk(V, plan, routes, Place)
      BY <1>2, <2>1 DEF Chain, Walked
    <3>2. Place[1] = ready /\ Place[2] = joined /\ Place[3] = outputs
      BY DEF Place
    <3>3. PICK c : c = Place
      OBVIOUS
    <3>4. CalledFrom(V, c, n)'
      BY <1>3, <2>2, <3>1, <3>2, <3>3 DEF CalledFrom
    <3> QED BY <3>4
  <2>5. Walked'
    <3>1. CASE phase' = "running" /\ now' = n
      <4>1. (\E V, c : CalledFrom(V, c, now))'
        BY <2>4, <3>1 DEF CalledFrom
      <4> QED BY <1>2, <1>3, <2>1, <3>1, <4>1 DEF Walked
    <3>2. CASE phase' \in {"pausing", "failing"} /\ now' = 0 /\ at' = n
      <4>1. (\E V, c : CalledFrom(V, c, at))'
        BY <2>4, <3>2 DEF CalledFrom
      <4> QED BY <1>3, <2>1, <3>2, <4>1 DEF Walked
    <3> QED BY <3>1, <3>2
  <2>6. Replaying'
    BY <1>4 DEF Replaying
  <2>7. resume.origin # 0 /\ first = 0 => n = resume.origin /\ outputs = resume.outputs
    BY <1>1, <1>2, <1>3, <2>1, <2>2, Numbers, NextOfReplay DEF Chain
  <2>8. resume.origin = 0 => resume.outputs = {}
    BY DEF RInv, Entered
  <2>9. Past'
    <3>1. first # 0 => resume.outputs \subseteq outputs
          /\ (resume.origin # 0 => first = resume.origin)
      BY <2>1 DEF Chain, Past
    <3>2. resume.outputs \subseteq outputs
      BY <2>7, <2>8, <3>1
    <3>3. resume.origin # 0 => first' = resume.origin
      BY <1>3, <2>7, <3>1
    <3>4. Once(execs, outputs \cup resume.outputs)
      BY <2>1 DEF Chain, Past
    <3> QED BY <1>3, <1>4, <3>2, <3>3, <3>4 DEF Past
  <2> QED BY <2>3, <2>5, <2>6, <2>9 DEF Chain
<1> QED BY <1>5, <1>6 DEF RInv

LEMMA CompleteKeeps ==
    ASSUME IInv, RInv, NEW route \in Routes, Complete(route) PROVE RInv'
<1>1. TypeOK
  BY DEF IInv
<1>2. /\ now \in plan.nodes /\ now \in NodeIds /\ now # 0 /\ phase = "running"
      /\ execs \in [NodeIds -> Nat] /\ routes \in [NodeIds -> Routes]
  BY <1>1, RunFacts DEF Complete, TypeOK
<1>3. /\ outputs' = outputs \cup {now} /\ HandOver(now, route, ready)
      /\ routes' = [routes EXCEPT ![now] = route]
      /\ now' = 0 /\ phase' = phase /\ at' = at /\ cancel' = cancel /\ first' = first
      /\ paused' = paused /\ failure' = failure /\ calls' = calls
      /\ execs' = [execs EXCEPT ![now] = @ + 1]
      /\ resume' = resume /\ edited' = edited /\ converged' = converged
      /\ plan' = plan
  BY DEF Complete, given, kept, plan
<1>4. Entered' /\ first # 0
  BY <1>2, <1>3 DEF RInv, Entered
<1>5. ASSUME Faithful' PROVE Chain'
  <2>1. Faithful /\ Chain
    BY <1>3, <1>5 DEF Faithful, RInv, CalledOnce
  <2>2. now \notin outputs \cup resume.outputs
    BY <1>2, <2>1 DEF Chain, Walked
  <2>3. AllSound'
    BY <1>3, <2>1 DEF Chain, AllSound
  <2>4. Walked'
    <3>1. PICK V, c : CalledFrom(V, c, now)
      BY <1>2, <2>1 DEF Chain, Walked
    <3>2. /\ Walk(V, plan, routes, c) /\ Due(c[1], now) /\ c[3] = outputs
          /\ ready = Rested(c[1], now) /\ joined = c[2]
      BY <3>1 DEF CalledFrom
    <3>3. Place' = After(plan, c, now, route)
      BY <1>3, <3>2, HandOverMoves
    <3>4. Walk(V \cup {Place'}, plan, routes', Place')
      BY <1>2, <1>3, <2>2, <3>2, <3>3, WalkGrows
    <3> QED BY <1>2, <1>3, <3>4 DEF Walked
  <2>5. Replaying'
    BY <1>3, <1>4 DEF Replaying
  <2>6. Once(execs, outputs \cup resume.outputs)'
    <3>1. execs[now] = 0
      BY <1>2, <2>1, <2>2 DEF Chain, Past, Once
    <3>2. \A m \in NodeIds : m # now => execs'[m] = execs[m]
      BY <1>2, <1>3
    <3>3. execs'[now] = 1
      BY <1>2, <1>3, <3>1
    <3>4. \A m \in NodeIds : execs'[m] = 0
            \/ (execs'[m] = 1 /\ m \in outputs' \cup resume'.outputs)
      BY <1>3, <2>1, <3>2, <3>3 DEF Chain, Past, Once
    <3> QED BY <3>4 DEF Once
  <2>7. Past'
    BY <1>2, <1>3, <2>1, <2>6 DEF Chain, Past
  <2> QED BY <2>3, <2>4, <2>5, <2>7 DEF Chain
<1> QED BY <1>4, <1>5 DEF RInv

LEMMA FailKeeps ==
    ASSUME IInv, RInv, Fail PROVE RInv'
<1>1. /\ phase = "running" /\ now # 0 /\ phase' = "failing" /\ at' = now /\ now' = 0
      /\ ready' = ready /\ joined' = joined /\ outputs' = outputs /\ routes' = routes
      /\ cancel' = cancel /\ first' = first /\ calls' = calls /\ execs' = execs
      /\ paused' = paused /\ failure' = failure
      /\ resume' = resume /\ edited' = edited /\ converged' = converged
      /\ plan' = plan
  BY DEF Fail, given, kept, plan
<1>2. Entered' /\ first # 0
  BY <1>1 DEF RInv, Entered
<1>3. ASSUME Faithful' PROVE Chain'
  <2>1. Faithful /\ Chain
    BY <1>1, <1>3 DEF Faithful, RInv, CalledOnce
  <2>2. AllSound'
    BY <1>1, <2>1 DEF Chain, AllSound
  <2>3. now \notin outputs /\ \E V, c : CalledFrom(V, c, now)
    BY <1>1, <2>1 DEF Chain, Walked
  <2>4. (\E V, c : CalledFrom(V, c, at))'
    BY <1>1, <2>3 DEF CalledFrom
  <2>5. Walked'
    BY <1>1, <2>3, <2>4 DEF Walked
  <2>6. Replaying'
    BY <1>1, <1>2 DEF Replaying
  <2>7. Past'
    BY <1>1, <2>1 DEF Chain, Past
  <2> QED BY <2>2, <2>5, <2>6, <2>7 DEF Chain
<1> QED BY <1>2, <1>3 DEF RInv

\* Steps that move nothing in the engine: a stop, what is left of a stop, a stutter.
LEMMA QuietKeeps ==
    ASSUME RInv, UNCHANGED <<given, engine, at, first>>,
           paused' = paused, failure' = failure,
           \/ phase' = phase /\ cancel' = cancel
           \/ phase' = phase /\ cancel' = TRUE /\ phase # "done"
           \/ phase' = "stopping" /\ cancel /\ cancel' = cancel
    PROVE  RInv'
<1>1. /\ ready' = ready /\ joined' = joined /\ outputs' = outputs /\ routes' = routes
      /\ first' = first /\ calls' = calls /\ execs' = execs /\ now' = now /\ at' = at
      /\ resume' = resume /\ edited' = edited /\ converged' = converged
      /\ plan' = plan
  BY DEF given, engine, plan
<1>2. Entered'
  BY <1>1 DEF RInv, Entered
<1>3. ASSUME Faithful' PROVE Chain'
  <2>1. Faithful /\ Chain
    BY <1>1, <1>3 DEF Faithful, RInv, CalledOnce
  <2>2. AllSound'
    BY <2>1 DEF Chain, AllSound
  <2>3. Walked'
    BY <1>1, <2>1 DEF Chain, Walked, CalledFrom, Place
  <2>4. Replaying'
    BY <1>1, <2>1 DEF Chain, Replaying, Follows, Place
  <2>5. Past'
    BY <1>1, <2>1 DEF Chain, Past
  <2> QED BY <2>2, <2>3, <2>4, <2>5 DEF Chain
<1> QED BY <1>2, <1>3 DEF RInv

\* A run that pauses or fails leaves a sound snapshot.
LEMMA SnapshotIsSound ==
    ASSUME IInv, RInv, Faithful, phase \in {"pausing", "failing"}
    PROVE  Sound(Snapshot) /\ resume.outputs \subseteq Snapshot.outputs
<1>1. Chain /\ first # 0
  BY DEF RInv, Entered
<1>2. /\ Snapshot.node = at /\ Snapshot.outputs = outputs /\ Snapshot.routes = routes
      /\ Snapshot.execs = execs /\ Plans[Snapshot.version][Snapshot.until] = plan
  BY DEF Snapshot, plan
<1>3. resume.outputs \subseteq outputs /\ Once(execs, outputs \cup resume.outputs)
  BY <1>1 DEF Chain, Past
<1>4. Once(execs, outputs)
  BY <1>3 DEF Once
<1>5. PICK V, c : CalledFrom(V, c, at)
  BY <1>1 DEF Chain, Walked
<1>6. at \notin outputs
  BY <1>1 DEF Chain, Walked
<1>7. Walk(V, plan, routes, c) /\ c[3] = outputs /\ Due(c[1], at)
  BY <1>5 DEF CalledFrom
<1> HIDE DEF Snapshot
<1> QED BY <1>2, <1>3, <1>4, <1>6, <1>7 DEF Sound

\* The end of a run, or of its wait: what the row keeps is sound.
LEMMA EndKeeps ==
    ASSUME IInv, RInv, UNCHANGED <<given, engine, at, first, cancel>>,
           phase' \in {"awaiting", "done", "error", "cancelled"},
           paused' \in {paused, NoSnapshot, Snapshot},
           failure' \in {failure, NoSnapshot, Snapshot},
           \/ phase \in {"pausing", "failing"}
           \/ {paused', failure'} \subseteq {paused, failure, NoSnapshot},
           phase' = "done" => ~cancel,
           \/ phase \in {"pausing", "failing", "awaiting"}
           \/ cancel
           \/ phase = "running" /\ ready = <<>>
    PROVE  RInv'
<1>1. /\ ready' = ready /\ joined' = joined /\ outputs' = outputs /\ routes' = routes
      /\ first' = first /\ calls' = calls /\ execs' = execs /\ now' = now /\ at' = at
      /\ resume' = resume /\ edited' = edited /\ converged' = converged
      /\ plan' = plan /\ cancel' = cancel
  BY DEF given, engine, plan
<1>2. Entered'
  BY <1>1 DEF RInv, Entered
<1>3. ASSUME Faithful' PROVE Chain'
  <2>1. Faithful /\ Chain
    BY <1>1, <1>3 DEF Faithful, RInv, CalledOnce
  <2>2. AllSound'
    BY <2>1, SnapshotIsSound DEF Chain, AllSound
  <2>3. Walked'
    BY <1>1 DEF Walked
  <2>4. Replaying'
    BY <1>1, <2>1 DEF Chain, Replaying, Follows, Place
  <2>5. ~cancel /\ resume.origin # 0 => first # 0
    <3>1. CASE phase \in {"pausing", "failing"}
      BY <3>1 DEF RInv, Entered
    <3>2. CASE phase = "awaiting"
      BY <2>1, <3>2 DEF Chain, Past
    <3>3. CASE ready = <<>>
      BY <2>1, <3>3, NextOfReplay DEF Chain, IInv
    <3> QED BY <3>1, <3>2, <3>3
  <2>6. Past'
    BY <1>1, <2>1, <2>5 DEF Chain, Past
  <2> QED BY <2>2, <2>3, <2>4, <2>6 DEF Chain
<1> QED BY <1>2, <1>3 DEF RInv

LEMMA EndsKeep ==
    ASSUME IInv, RInv, Cancelled \/ Pause \/ SaveFailure \/ Finish \/ Close
    PROVE  RInv'
<1>1. CASE Cancelled
  <2>1. /\ UNCHANGED <<given, engine, at, first, cancel>>
        /\ phase' \in {"awaiting", "cancelled"}
        /\ paused' \in {paused, NoSnapshot} /\ failure' \in {failure, NoSnapshot}
    BY <1>1 DEF Cancelled, Settle
  <2>2. cancel
    BY <1>1 DEF Cancelled, RInv, Entered
  <2> QED BY <2>1, <2>2, EndKeeps
<1>2. CASE Pause
  <2>1. /\ UNCHANGED <<given, engine, at, first, cancel>>
        /\ phase' \in {"awaiting", "error"} /\ phase = "pausing"
        /\ paused' \in {paused, NoSnapshot, Snapshot} /\ failure' = failure
    BY <1>2 DEF Pause, Settle
  <2> QED BY <2>1, EndKeeps
<1>3. CASE SaveFailure
  <2>1. /\ UNCHANGED <<given, engine, at, first, cancel>>
        /\ phase' \in {"awaiting", "error"} /\ phase = "failing"
        /\ paused' \in {paused, NoSnapshot} /\ failure' \in {failure, Snapshot}
    BY <1>3 DEF SaveFailure, Settle
  <2> QED BY <2>1, EndKeeps
<1>4. CASE Finish
  <2>1. /\ UNCHANGED <<given, engine, at, first, cancel>>
        /\ phase' \in {"awaiting", "done", "error"} /\ phase = "running" /\ ready = <<>>
        /\ ~cancel
        /\ paused' \in {paused, NoSnapshot} /\ failure' \in {failure, NoSnapshot}
    BY <1>4 DEF Finish, Settle
  <2> QED BY <2>1, EndKeeps
<1>5. CASE Close
  <2>1. /\ UNCHANGED <<given, engine, at, first, cancel>>
        /\ phase' \in {"error", "cancelled"} /\ phase = "awaiting"
        /\ paused' = NoSnapshot /\ failure' \in {failure, NoSnapshot}
    BY <1>5 DEF Close
  <2> QED BY <2>1, EndKeeps
<1> QED BY <1>1, <1>2, <1>3, <1>4, <1>5

LEMMA ResumeInvStep == ASSUME IInv, RInv, [Next]_vars PROVE RInv'
<1>1. CASE \E u \in Bounds(version) : Launch(u)
  BY <1>1, LaunchKeeps
<1>2. CASE \E r \in Routes : Resume(r)
  BY <1>2, ResumeKeeps
<1>3. CASE \E v \in Versions : Retry(v)
  BY <1>3, RetryKeeps
<1>4. CASE Run
  <2>1. CASE \E n \in NodeIds : Replay(n)
    BY <2>1, ReplayKeeps
  <2>2. ASSUME NEW n \in NodeIds, Begin(n)
        PROVE  RInv'
    <3>1. /\ Fresh(n) /\ ready' = Rest(n) /\ failure' = failure
          /\ paused' \in {paused, NoSnapshot} /\ phase' = phase /\ now' = n
      BY <2>2 DEF Begin
    <3>2. phase = "running"
      BY <2>2 DEF Begin, Fresh, Call, Turn
    <3> QED BY <3>1, <3>2, FreshKeeps
  <2>3. ASSUME NEW n \in NodeIds, Ask(n)
        PROVE  RInv'
    <3>1. /\ Fresh(n) /\ ready' = Rest(n) /\ failure' = failure /\ paused' = paused
          /\ phase' \in {"pausing", "failing"} /\ now' = now /\ at' = n
      BY <2>3 DEF Ask, kept
    <3>2. now = 0
      BY <2>3 DEF Ask, Fresh, Call, Turn
    <3> QED BY <3>1, <3>2, FreshKeeps
  <2>4. CASE \E r \in Routes : Complete(r)
    BY <2>4, CompleteKeeps
  <2>5. CASE Fail
    BY <2>5, FailKeeps
  <2>6. CASE Leave
    <3>1. /\ UNCHANGED <<given, engine, at, first>> /\ paused' = paused
          /\ failure' = failure /\ phase' = "stopping" /\ cancel /\ cancel' = cancel
      BY <2>6 DEF Leave, kept
    <3> QED BY <3>1, QuietKeeps
  <2>7. CASE Cancelled \/ Pause \/ SaveFailure \/ Finish
    BY <2>7, EndsKeep
  <2> QED BY <1>4, <2>1, <2>2, <2>3, <2>4, <2>5, <2>6, <2>7 DEF Run
<1>5. CASE Stop
  <2>1. /\ UNCHANGED <<given, engine, at, first>> /\ paused' = paused
        /\ failure' = failure /\ phase' = phase /\ cancel' = TRUE /\ phase # "done"
    BY <1>5 DEF Stop, kept
  <2> QED BY <2>1, QuietKeeps
<1>6. CASE Close
  BY <1>6, EndsKeep
<1>7. CASE Over \/ UNCHANGED vars
  <2>1. /\ UNCHANGED <<given, engine, at, first>> /\ paused' = paused
        /\ failure' = failure /\ phase' = phase /\ cancel' = cancel
    BY <1>7 DEF Over, vars, given, engine
  <2> QED BY <2>1, QuietKeeps
<1> QED BY <1>1, <1>2, <1>3, <1>4, <1>5, <1>6, <1>7 DEF Next

\* The second inductive invariant: every snapshot was taken where its routes lead,
\* and a run that resumes from it goes the same way until it is there again.
THEOREM ResumeInvariance == Spec => []RInv
<1>1. Init => RInv
  <2> SUFFICES ASSUME Init PROVE RInv
    OBVIOUS
  <2>1. /\ resume = Nothing /\ Nothing.outputs = {} /\ Nothing.origin = 0
        /\ paused = NoSnapshot /\ failure = NoSnapshot /\ phase = "new" /\ now = 0
        /\ first = 0 /\ execs = NoCounts /\ outputs = {}
    BY DEF Init, Nothing
  <2>2. Entered /\ AllSound /\ Walked /\ Replaying
    BY <2>1 DEF Entered, AllSound, Walked, Replaying
  <2>3. Once(execs, outputs \cup resume.outputs)
    BY <2>1 DEF Once, NoCounts
  <2>4. Past
    BY <2>1, <2>3 DEF Past
  <2> QED BY <2>2, <2>4 DEF RInv, Chain
<1>2. IInv /\ RInv /\ [Next]_vars => RInv'
  BY ResumeInvStep
<1> QED BY <1>1, <1>2, Invariance, PTL DEF Spec

\* For every valid graph: on an unedited graph in which no node was called twice, a
\* resumed run calls first the node where the last one stopped.
THEOREM ResumesThere == Spec => []ResumesWhereItStopped
<1>1. RInv => ResumesWhereItStopped
  BY DEF RInv, Chain, Past, ResumesWhereItStopped
<1> QED BY <1>1, ResumeInvariance, PTL

\* No body runs again in a replay: what a chain that ends well ran, its last run called.
THEOREM NothingTwice == Spec => []OncePerCall
<1>1. IInv /\ RInv => OncePerCall
  <2> SUFFICES ASSUME IInv, RInv, phase = "done", Faithful, NEW n \in NodeIds
               PROVE  execs[n] <= calls[n]
    BY DEF OncePerCall
  <2>1. Chain /\ ~cancel /\ (resume.origin = 0 => resume.outputs = {})
    BY DEF RInv, Entered
  <2>2. resume.outputs \subseteq outputs
    BY <2>1 DEF Chain, Past
  <2>3. execs[n] = 0 \/ (execs[n] = 1 /\ n \in outputs)
    BY <2>1, <2>2 DEF Chain, Past, Once
  <2>4. calls[n] \in Nat /\ (n \in outputs => calls[n] >= 1)
    BY DEF IInv, TypeOK, Counted
  <2> QED BY <2>3, <2>4
<1> QED BY <1>1, Invariance, ResumeInvariance, PTL

\* What was done before a run resumed is in every snapshot that run leaves.
THEOREM KeepsWhatIsDone == Spec => DoneStaysDone
<1>1. ASSUME IInv, RInv, [Next]_vars, NEW s \in {paused', failure'} \ {paused, failure, NoSnapshot},
             phase' # "running", Faithful
      PROVE  resume.outputs \subseteq s.outputs
  <2>1. s = Snapshot /\ phase \in {"pausing", "failing"}
    <3>1. CASE Run
      <4>1. CASE \E n \in NodeIds : Replay(n) \/ Begin(n) \/ Ask(n)
        BY <1>1, <4>1 DEF Replay, Begin, Ask, kept
      <4>2. CASE (\E r \in Routes : Complete(r)) \/ Fail \/ Leave
        BY <1>1, <4>2 DEF Complete, Fail, Leave, kept
      <4>3. CASE Cancelled \/ Finish
        BY <1>1, <4>3 DEF Cancelled, Finish, Settle
      <4>4. CASE Pause \/ SaveFailure
        BY <1>1, <4>4 DEF Pause, SaveFailure, Settle
      <4> QED BY <3>1, <4>1, <4>2, <4>3, <4>4 DEF Run
    <3>2. CASE (\E u \in Bounds(version) : Launch(u)) \/ (\E r \in Routes : Resume(r))
                \/ \E v \in Versions : Retry(v)
      BY <1>1, <3>2 DEF Launch, Resume, Retry, Compile
    <3>3. CASE Stop \/ Close
      BY <1>1, <3>3 DEF Stop, Close, kept
    <3>4. CASE Over \/ UNCHANGED vars
      BY <1>1, <3>4 DEF Over, vars
    <3> QED BY <1>1, <3>1, <3>2, <3>3, <3>4 DEF Next
  <2> QED BY <1>1, <2>1, SnapshotIsSound
<1>2. IInv /\ RInv /\ [Next]_vars =>
        [\A s \in {paused', failure'} \ {paused, failure, NoSnapshot} :
            phase' # "running" /\ Faithful => resume.outputs \subseteq s.outputs]_kept
  BY <1>1
<1> QED BY <1>2, Invariance, ResumeInvariance, PTL DEF Spec, DoneStaysDone
=============================================================================
