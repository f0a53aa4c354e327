------------------------------ MODULE GraphRun ------------------------------
(***************************************************************************)
(* run_graph: the nodes of a workflow graph run one at a time, from the     *)
(* START nodes along the routes taken.  A run that meets an unanswered      *)
(* approval, or fails, leaves a snapshot of what is done; the next run of   *)
(* the chain (an answer, or "Reprendre ici") replays it without running it  *)
(* again.  ADK, which is external, calls the nodes in the order they were   *)
(* triggered.  An operator Name_Slip is Name with one line of its code gone *)
(* wrong.                                                                   *)
(***************************************************************************)
EXTENDS Naturals, Sequences, FiniteSets

CONSTANTS
    Versions,   \* the versions of one workflow
    Graph,      \* the graph each version saves, nodes numbered from 1
    MaxRuns,    \* bound: runs of one chain
    Edits       \* the workflow may be edited before a retry

Plain == "no route"
Error == "error"
Success == "__success__"

-----------------------------------------------------------------------------
(* Graphs: WorkflowGraph and validate_graph.                               *)

Parents(g, n) == {e[1] : e \in {e \in g.edges : e[2] = n}}
Upstream(g, u) ==
    {n \in g.nodes : \A S \in SUBSET g.nodes :
        (u \in S /\ \A m \in S : Parents(g, m) \subseteq S) => n \in S}
Restrict(g, u) ==               \* 0: the whole graph
    IF u = 0 THEN g
    ELSE [nodes |-> Upstream(g, u),
          edges |-> {e \in g.edges : {e[1], e[2]} \subseteq Upstream(g, u)},
          kind |-> g.kind, routes |-> g.routes, onError |-> g.onError]

IsRouted(g, n) == g.routes[n] # {}
RoutesOnError(g, n) == g.onError[n] = "route"
Declared(g, n) == g.routes[n] \cup (IF RoutesOnError(g, n) THEN {Error} ELSE {})

ValidGraph(g) ==
    /\ g.nodes # {} /\ g.nodes \subseteq Nat \ {0}
    /\ g.kind \in [g.nodes -> {"step", "merge", "approval"}]
    /\ g.onError \in [g.nodes -> {"fail", "continue", "route"}]
    /\ \A e \in g.edges : {e[1], e[2]} \subseteq g.nodes
    /\ \A e \in g.edges :
        IF IsRouted(g, e[1]) THEN e[3] \in Declared(g, e[1])
        ELSE e[3] \in {Plain} \cup Declared(g, e[1])
    /\ \A n \in g.nodes : /\ Plain \notin g.routes[n]
                          /\ RoutesOnError(g, n) =>
                                /\ Error \notin g.routes[n]
                                /\ \E e \in g.edges : e[1] = n /\ e[3] = Error
                          /\ g.kind[n] # "step" => g.onError[n] = "fail"
                          /\ IsRouted(g, n) => g.onError[n] # "continue"
                          /\ g.kind[n] = "merge" => ~IsRouted(g, n)
    /\ \A S \in SUBSET g.nodes :          \* no cycle
        S # {} => \E n \in S : Parents(g, n) \cap S = {}

ASSUME GraphsAssumption ==
    /\ \A v \in Versions : ValidGraph(Graph[v])
    /\ MaxRuns \in Nat /\ Edits \in BOOLEAN

NodeIds == UNION {Graph[v].nodes : v \in Versions}
Routes == {Plain, Error} \cup
    UNION {UNION {Graph[v].routes[n] : n \in Graph[v].nodes} : v \in Versions}

\* What the compiler gets: the graph of a version, or what is above a node of it.
Bounds(v) == Graph[v].nodes \cup {0}
Plans == [v \in Versions |-> [u \in Bounds(v) |-> Restrict(Graph[v], u)]]

\* The route ADK is given, and the one of an edge: a node that may fail along
\* a route has its success edges on a route of their own.
Given(g, n, route) ==
    IF route = Plain /\ RoutesOnError(g, n) /\ ~IsRouted(g, n) THEN Success
    ELSE route
Fires(g, e, route) == Given(g, e[1], e[3]) \in {Plain, Given(g, e[1], route)}
Targets(g, n, route) == {e[2] : e \in {e \in g.edges : e[1] = n /\ Fires(g, e, route)}}

\* The replayed nodes that changed since the snapshot.
Signature(g, n) ==
    IF n \notin g.nodes THEN <<>>
    ELSE <<g.kind[n], g.onError[n], g.routes[n],
           {<<e[1], e[3]>> : e \in {e \in g.edges : e[2] = n}}>>
retry_mismatch(before, after, done) ==
    {n \in done : Signature(before, n) # Signature(after, n)}

-----------------------------------------------------------------------------
VARIABLES
    phase,      \* where run_graph is
    version,    \* the version of the graph that the run executes
    until,      \* the bound of "Tester jusqu'ici", or 0
    ready,      \* external: the triggers ADK holds, a set per node that ended
    joined,     \* external: the inputs each JoinNode has received
    now,        \* the node whose body runs, or 0
    outputs,    \* the nodes whose output is known
    routes,     \* the route each of them took
    resume,     \* outputs, routes and answer the run was given
    taken,      \* on_answered has been called
    at,         \* failed_node, or the node of _AwaitingDecision
    cancel,     \* cancel_event
    paused,     \* paused_state of the row, the snapshot of on_await
    failure,    \* failure_state of the row, the snapshot of on_fail or a copy
    runs,       \* runs of the chain so far
    edited,     \* history: a retry ran on another graph
    converged,  \* history: a run of the chain, before this one, called a node twice
    first,      \* history: the first node of the run that was not replayed
    calls,      \* history: how often ADK called each node in this run
    execs       \* history: how often each body ran in the chain of snapshots

vars == <<phase, version, until, ready, joined, now, outputs, routes, resume,
          taken, at, cancel, paused, failure, runs, edited, converged, first, calls, execs>>
engine == <<ready, joined, now, outputs, routes, calls, execs>>
given == <<version, until, resume, runs, edited, converged>>
kept == <<paused, failure>>

graph == Graph[version]
plan == Plans[version][until]

NoRoutes == [n \in NodeIds |-> Plain]
NoCounts == [n \in NodeIds |-> 0]
NoSnapshot == [node |-> 0, version |-> 0, until |-> 0, outputs |-> {},
               routes |-> NoRoutes, execs |-> NoCounts]
NoAnswer == [node |-> 0, route |-> Plain]
Nothing == [outputs |-> {}, routes |-> NoRoutes, origin |-> 0, answer |-> NoAnswer]

Settled == {"new", "awaiting", "done", "error", "cancelled"}

SnapshotType ==
    [node : NodeIds, version : Versions, until : NodeIds \cup {0},
     outputs : SUBSET NodeIds, routes : [NodeIds -> Routes], execs : [NodeIds -> Nat]]
SnapshotOK(s) ==
    /\ s \in SnapshotType
    /\ s.outputs \cup {s.node} \subseteq Graph[s.version].nodes
    /\ s.until \in Bounds(s.version)

TypeOK ==
    /\ phase \in Settled \cup {"running", "pausing", "failing", "stopping"}
    /\ version \in Versions /\ until \in Bounds(version)
    /\ ready \in Seq((SUBSET plan.nodes) \ {{}})
    /\ joined \in [NodeIds -> SUBSET plan.nodes]
    /\ now \in plan.nodes \cup {0}
    /\ outputs \subseteq plan.nodes /\ routes \in [NodeIds -> Routes]
    /\ resume.outputs \subseteq graph.nodes /\ resume.routes \in [NodeIds -> Routes]
    /\ resume.origin \in graph.nodes \cup {0}
    /\ resume.answer \in [node : graph.nodes \cup {0}, route : Routes]
    /\ taken \in BOOLEAN /\ at \in plan.nodes \cup {0} /\ cancel \in BOOLEAN
    /\ \A s \in {paused, failure} \ {NoSnapshot} : SnapshotOK(s)
    /\ runs \in 0..MaxRuns /\ edited \in BOOLEAN /\ converged \in BOOLEAN
    /\ first \in plan.nodes \cup {0}
    /\ calls \in [NodeIds -> Nat] /\ execs \in [NodeIds -> Nat]

-----------------------------------------------------------------------------
(* Starting a run of the chain.                                            *)

\* Below branches that no merge joins, ADK calls a node once per branch; the
\* second output and route replace the first, and both calls are replayed alike.
CalledOnce == \A n \in NodeIds : calls[n] <= 1

\* _Compiler, build: ADK starts with the nodes that have no incoming edge.
Starts(p) == {n \in p.nodes : Parents(p, n) = {}}
Compile(v, u, r) ==
    /\ version' = v /\ until' = u
    /\ ready' = <<Starts(Plans[v][u])>>
    /\ joined' = [n \in NodeIds |-> {}]
    /\ now' = 0 /\ outputs' = {} /\ routes' = NoRoutes
    /\ resume' = r /\ taken' = FALSE /\ at' = 0 /\ cancel' = FALSE
    /\ phase' = "running"
    /\ runs' = runs + 1
    /\ first' = 0 /\ calls' = NoCounts
    /\ converged' = (converged \/ ~CalledOnce)

Init ==
    /\ phase = "new" /\ version \in Versions /\ until = 0
    /\ ready = <<>> /\ joined = [n \in NodeIds |-> {}] /\ now = 0
    /\ outputs = {} /\ routes = NoRoutes /\ resume = Nothing
    /\ taken = FALSE /\ at = 0 /\ cancel = FALSE
    /\ paused = NoSnapshot /\ failure = NoSnapshot
    /\ runs = 0 /\ edited = FALSE /\ converged = FALSE /\ first = 0
    /\ calls = NoCounts /\ execs = NoCounts

Launch(u) ==
    /\ phase = "new" /\ runs < MaxRuns
    /\ Compile(version, u, Nothing)
    /\ UNCHANGED <<kept, edited, execs>>

\* The snapshot is read back without its routes.
FromSnapshot_Slip(s, answer) == [outputs |-> s.outputs, routes |-> NoRoutes,
                                 origin |-> s.node, answer |-> answer]
FromSnapshot(s, answer) == [outputs |-> s.outputs, routes |-> s.routes,
                            origin |-> s.node, answer |-> answer]

\* The answer of a choice is its route; the others leave by the only way out.
Answers(g, n) == IF IsRouted(g, n) THEN g.routes[n] ELSE {Plain}

Resume(route) ==
    /\ phase = "awaiting" /\ runs < MaxRuns
    /\ route \in Answers(Graph[paused.version], paused.node)
    /\ Compile(paused.version, paused.until,
               FromSnapshot(paused, [node |-> paused.node, route |-> route]))
    /\ execs' = paused.execs
    /\ UNCHANGED <<kept, edited>>

\* prepare_retry, _retry_runner: on the graph as it is saved now.  The new run
\* holds a copy of the failure, unless the copy fails, until it has an end.
Retry(v) ==
    /\ phase \in {"error", "cancelled"} /\ failure # NoSnapshot
    /\ runs < MaxRuns
    /\ Edits \/ v = failure.version
    /\ retry_mismatch(Graph[failure.version], Graph[v], failure.outputs) = {}
    /\ failure.node \in Graph[v].nodes /\ failure.until \in Bounds(v)
    /\ Compile(v, failure.until, FromSnapshot(failure, NoAnswer))
    /\ edited' = (edited \/ v # failure.version)
    /\ execs' = failure.execs
    /\ failure' \in {[failure EXCEPT !.version = v], NoSnapshot}
    /\ UNCHANGED paused

\* abandon_paused_run, or the deadline of the decision
Close ==
    /\ phase = "awaiting"
    /\ paused' = NoSnapshot
    /\ \/ phase' = "error" /\ UNCHANGED failure
       \/ phase' = "cancelled" /\ failure' = NoSnapshot
    /\ UNCHANGED <<given, engine, taken, at, cancel, first>>

-----------------------------------------------------------------------------
(* Running: ADK calls the nodes, one at a time (max_concurrency=1).         *)

Turn(n) == /\ phase = "running" /\ now = 0 /\ ready # <<>>
            /\ n \in Head(ready) /\ \A m \in Head(ready) : n <= m
Rest(n) == IF Head(ready) = {n} THEN Tail(ready)
           ELSE [ready EXCEPT ![1] = @ \ {n}]

\* What n hands over calls its targets; a merge once all its inputs are there.
HandOver(n, route, waiting) ==
    LET told == Targets(plan, n, route)
        merges == {m \in told : plan.kind[m] = "merge"}
        full == {m \in merges : joined[m] \cup {n} = Parents(plan, m)}
        called == (told \ merges) \cup full
    IN  /\ ready' = IF called = {} THEN waiting ELSE Append(waiting, called)
        /\ joined' = [m \in NodeIds |->
                          IF m \in full THEN {}
                          ELSE IF m \in merges THEN joined[m] \cup {n}
                          ELSE joined[m]]

Stop ==                         \* Stop, or the client of the stream left
    /\ phase \in {"running", "pausing", "failing"} /\ ~cancel
    /\ cancel' = TRUE
    /\ UNCHANGED <<given, engine, phase, taken, at, kept, first>>

\* WorkflowCancelled: before a node, or raised by the body that runs.
Leave ==
    /\ phase = "running" /\ cancel
    /\ now # 0 \/ ready # <<>>
    /\ phase' = "stopping"
    /\ UNCHANGED <<given, engine, taken, at, cancel, kept, first>>

Call(n) ==
    /\ Turn(n) /\ ~cancel
    /\ calls' = [calls EXCEPT ![n] = @ + 1]

\* The compiler forgets the route of a node it replays.
Replay_Slip(n) ==
    /\ Call(n) /\ n \in resume.outputs
    /\ outputs' = outputs \cup {n}
    /\ HandOver(n, resume.routes[n], Rest(n))
    /\ UNCHANGED <<given, phase, now, routes, taken, at, cancel, kept, first, execs>>

\* _replay
Replay(n) ==
    /\ Call(n) /\ n \in resume.outputs
    /\ outputs' = outputs \cup {n}
    /\ routes' = [routes EXCEPT ![n] = resume.routes[n]]
    /\ HandOver(n, resume.routes[n], Rest(n))
    /\ UNCHANGED <<given, phase, now, taken, at, cancel, kept, first, execs>>

Fresh(n) ==
    /\ Call(n) /\ n \notin resume.outputs
    /\ first' = IF first = 0 THEN n ELSE first
    /\ UNCHANGED <<given, joined, outputs, routes, cancel, execs>>

Unanswered(n) == plan.kind[n] = "approval" /\ resume.answer.node # n

Begin(n) ==                     \* an answered approval calls on_answered
    /\ Fresh(n) /\ ~Unanswered(n)
    /\ now' = n /\ ready' = Rest(n)
    /\ IF plan.kind[n] = "approval"
       THEN taken' = TRUE /\ paused' = NoSnapshot
       ELSE UNCHANGED <<taken, paused>>
    /\ UNCHANGED <<phase, at, failure>>

Ask(n) ==                       \* _AwaitingDecision; on_answered may fail too
    /\ Fresh(n) /\ plan.kind[n] = "approval"
    /\ phase' = IF Unanswered(n) THEN "pausing" ELSE "failing"
    /\ at' = n /\ ready' = Rest(n)
    /\ UNCHANGED <<now, taken, kept>>

\* The body of the node that runs has returned, or failed in a way on_error absorbs.
BodyRoutes(n) ==
    IF plan.kind[n] = "approval" THEN {resume.answer.route}
    ELSE IF IsRouted(plan, n) THEN plan.routes[n]
    ELSE {Plain}
Handled(n) ==
    CASE plan.onError[n] = "fail" -> {}
      [] plan.onError[n] = "continue" -> {Plain}
      [] plan.onError[n] = "route" -> {Error}

Complete(route) ==
    /\ phase = "running" /\ now # 0
    /\ route \in BodyRoutes(now) \cup Handled(now)
    /\ outputs' = outputs \cup {now}
    /\ routes' = [routes EXCEPT ![now] = route]
    /\ HandOver(now, route, ready)
    /\ execs' = [execs EXCEPT ![now] = @ + 1]
    /\ now' = 0
    /\ UNCHANGED <<given, phase, taken, at, cancel, kept, first, calls>>

\* on_error: fail, a tool that raises under "continue", or an output too large.
Fail ==
    /\ phase = "running" /\ now # 0
    /\ phase' = "failing" /\ at' = now /\ now' = 0
    /\ UNCHANGED <<given, ready, joined, outputs, routes, taken, cancel, kept,
                   first, calls, execs>>

-----------------------------------------------------------------------------
(* The end of run_graph, and of the stream of the run.                      *)

\* finish_run; or release_paused_run when the answer was not taken.  held is the
\* failure that the row holds: only an error keeps it, a cancelled retry gives
\* it back to the run it was taken from.
Untaken == resume.answer.node # 0 /\ ~taken
Settle(status, held) ==
    IF Untaken
    THEN phase' = "awaiting" /\ failure' = held /\ UNCHANGED paused
    ELSE /\ phase' = status /\ paused' = NoSnapshot
         /\ failure' = IF status = "done" THEN NoSnapshot ELSE held

Cancelled ==                    \* also stop_unanswered_resume
    /\ \/ phase = "stopping"
       \/ cancel /\ \/ phase \in {"pausing", "failing"}
                    \/ phase = "running" /\ now = 0 /\ ready = <<>>
    /\ \/ Settle("cancelled", failure)
       \/ Untaken /\ phase' = "cancelled" /\ paused' = NoSnapshot /\ failure' = NoSnapshot
    /\ UNCHANGED <<given, engine, taken, at, cancel, first>>

\* Only what ran in this run, or not the node where it stopped.
Snapshot_Fresh == [node |-> at, version |-> version, until |-> until,
                   outputs |-> outputs \ resume.outputs, routes |-> routes, execs |-> execs]
Snapshot_Nowhere == [node |-> 0, version |-> version, until |-> until,
                     outputs |-> outputs, routes |-> routes, execs |-> execs]
Snapshot == [node |-> at, version |-> version, until |-> until,
             outputs |-> outputs, routes |-> routes, execs |-> execs]

Pause ==                        \* _pause: an error if it is too large or not kept
    /\ phase = "pausing" /\ ~cancel
    /\ \/ phase' = "awaiting" /\ paused' = Snapshot /\ UNCHANGED failure
       \/ Settle("error", failure)
    /\ UNCHANGED <<given, engine, taken, at, cancel, first>>

SaveFailure ==                  \* _save_failure: the row stays as it is then
    /\ phase = "failing" /\ ~cancel
    /\ \E held \in {failure, Snapshot} : Settle("error", held)
    /\ UNCHANGED <<given, engine, taken, at, cancel, first>>

\* The run waits for the inputs of its merges.
Finish_Slip ==
    /\ phase = "running" /\ ~cancel /\ now = 0 /\ ready = <<>>
    /\ \A m \in NodeIds : joined[m] = {}
    /\ Settle(IF until \in outputs \cup {0} THEN "done" ELSE "error", failure)
    /\ UNCHANGED <<given, engine, taken, at, cancel, first>>
Finish ==                       \* done, or until_not_reached
    /\ phase = "running" /\ ~cancel /\ now = 0 /\ ready = <<>>
    /\ Settle(IF until \in outputs \cup {0} THEN "done" ELSE "error", failure)
    /\ UNCHANGED <<given, engine, taken, at, cancel, first>>

Over == /\ \/ phase = "done"
           \/ phase \in Settled /\ runs = MaxRuns
           \/ phase \in {"error", "cancelled"} /\ failure = NoSnapshot
        /\ UNCHANGED vars

Run == \/ \E n \in NodeIds : Replay(n) \/ Begin(n) \/ Ask(n)
       \/ \E r \in Routes : Complete(r)
       \/ Fail \/ Leave \/ Cancelled \/ Pause \/ SaveFailure \/ Finish

Next == \/ \E u \in Bounds(version) : Launch(u)
        \/ \E r \in Routes : Resume(r)
        \/ \E v \in Versions : Retry(v)
        \/ Run \/ Stop \/ Close \/ Over

Spec == Init /\ [][Next]_vars
FairSpec == Spec /\ WF_vars(Run)

-----------------------------------------------------------------------------
(* Properties.                                                              *)

\* A node that is done was called along the routes recorded for the nodes before
\* it, in a run as in its replays: what a snapshot holds is one path of its graph.
Called(n) ==
    LET via == {p \in Parents(plan, n) \cap outputs : n \in Targets(plan, p, routes[p])}
    IN  IF Parents(plan, n) = {} THEN TRUE
        ELSE IF plan.kind[n] = "merge" THEN via = Parents(plan, n)
        ELSE via # {}
PathJustified == CalledOnce => \A n \in outputs : Called(n)

\* No graph was edited and no node was called twice, in this run or before.
Faithful == ~edited /\ ~converged /\ CalledOnce

\* A chain of runs that ends well has run no body more often than its last run
\* called the node: a replay never runs anything again.
OncePerCall ==
    phase = "done" /\ Faithful => \A n \in NodeIds : execs[n] <= calls[n]

\* A run that resumes on the same graph runs nothing before the node where the
\* last one stopped, and does not end by itself without having reached it: an
\* answer is taken first, and a retry starts again at the failed node.
ResumesWhereItStopped ==
    resume.origin # 0 /\ Faithful =>
        /\ first \in {0, resume.origin}
        /\ phase \in {"awaiting", "done", "error"} /\ ~cancel => first = resume.origin

\* What was done before a run resumed is still done in the snapshot it leaves.
DoneStaysDone ==
    [][\A s \in {paused', failure'} \ {paused, failure, NoSnapshot} :
        phase' # "running" /\ Faithful
            => resume.outputs \subseteq s.outputs]_kept

\* A run ends, also when a route went round one of the inputs of a merge.
RunEnds == [](phase = "running" => <>(phase \in Settled))
=============================================================================
