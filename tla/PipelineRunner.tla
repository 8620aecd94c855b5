--------------------------- MODULE PipelineRunner ---------------------------
(***************************************************************************)
(* One request against the pandas runner (runner.py): PipelineRunner is    *)
(* built, which is Kahn, and then run() or preview() is called.            *)
(*                                                                         *)
(* A graph carries, besides nodes and edges, the node each id stands for   *)
(* (field def), as PipelineService.build_runner made it.  The connector is *)
(* a dict from keys to frames; the request is the only one working on it.  *)
(* The request may be made again when it has ended (Retry).                *)
(***************************************************************************)
EXTENDS Integers, Kahn, NodeSemantics

CONSTANTS
    Calls,          \* the calls made: [op, target, limit]
    Stores,         \* what the connector may hold at first
    MaxPreview,     \* the API's bound on a preview (100 in app.py)
    MaxRuns         \* bound: how often the request is made

\* The runner is given what build_runner made (a kind it does not know and a
\* condition that does not parse it refuses, see TransformApi); a connector
\* holds frames.
ASSUME RunnerAssumption ==
    /\ MaxPreview \in Nat /\ MaxRuns \in Nat \ {0}
    /\ \A c \in Calls : c.limit \in Int
    /\ \A s \in Stores : s \in [DOMAIN s -> FrameSet]
    /\ \A g \in Graphs :
         /\ \A n \in Range(g.nodes) : Built(g.def[n])
         /\ DOMAIN g.edges \subseteq DOMAIN InputName

VARIABLES
    call,           \* the request
    step,           \* where it is
    toVisit,        \* preview's stack
    upstream,       \* preview's set of ancestors
    at,             \* position in the order of the node to execute next
    results,        \* dict from node ids to frames
    logs,           \* the NodeLogs of run()
    output,         \* what preview() returns
    store,          \* the connector
    before,         \* the connector when the request started
    runs            \* how often the request was started

runVars ==
    <<call, step, toVisit, upstream, at, results, logs, output, store, before, runs>>

vars == <<kahnVars, runVars>>

-----------------------------------------------------------------------------

NoRows == <<>>
NoDict == [x \in {} |-> NoRows]

Sources(n) == {Source(k) : k \in InEdges(n)}

\* The list self.parents[n], its ports and the frames of its sources in d.
Ports(n) == Taken([k \in EdgeIndices |-> graph.edges[k].port], InEdges(n))
Gathered(n, d) ==
    FlattenSeq([k \in EdgeIndices |-> IF k \in InEdges(n) THEN <<d[Source(k)]>> ELSE <<>>])
Frames(n) == Gathered(n, results)

Inputs(n) == Route(Ports(n), Frames(n))

\* What node n comes to now.  A set of one, so that TLC makes the inputs once.
Executed(n) ==
    {Execute(graph.def[n], inputs, store) :
        inputs \in {Route(ports, Frames(n)) : ports \in {Ports(n)}}}

Previewing == call.op = "preview"

\* Deviation: the order is cut at the target, not filtered.
AskedAlways(n) == TRUE

\* run() executes the whole order, preview() the target's ancestors.
Asked(n) == Previewing => n \in upstream

Current == order[at]

Init ==
    /\ KahnInit
    /\ caller = "runner"
    /\ call \in Calls
    /\ step = "idle"
    /\ toVisit = {}
    /\ upstream = {}
    /\ at = 1
    /\ results = NoDict
    /\ logs = <<>>
    /\ output = NoRows
    /\ store \in Stores
    /\ before = store
    /\ runs = 1

Build == KahnNext /\ UNCHANGED runVars

StartRun ==
    /\ phase = "accepted"
    /\ step = "idle"
    /\ ~Previewing
    /\ step' = "executing"
    /\ UNCHANGED <<kahnVars, call, toVisit, upstream, at, results, logs, output,
                   store, before, runs>>

RejectUnknownTarget ==
    /\ phase = "accepted"
    /\ step = "idle"
    /\ Previewing
    /\ call.target \notin Nodes
    /\ step' = "refused"
    /\ UNCHANGED <<kahnVars, call, toVisit, upstream, at, results, logs, output,
                   store, before, runs>>

StartPreview ==
    /\ phase = "accepted"
    /\ step = "idle"
    /\ Previewing
    /\ call.target \in Nodes
    /\ toVisit' = {call.target}
    /\ step' = "visiting"
    /\ UNCHANGED <<kahnVars, call, upstream, at, results, logs, output, store,
                   before, runs>>

\* One turn of the loop over the stack; the order of the stack is left open.
Visit ==
    /\ step = "visiting"
    /\ \E curr \in toVisit :
        /\ upstream' = upstream \cup {curr}
        /\ toVisit' = (toVisit \ {curr})
                        \cup (Sources(curr) \ upstream')
    /\ UNCHANGED <<kahnVars, call, step, at, results, logs, output, store,
                   before, runs>>

\* Deviation: the parents are walked through only once.
EndVisitEarly ==
    /\ step = "visiting"
    /\ call.target \in upstream
    /\ step' = "executing"
    /\ toVisit' = {}
    /\ UNCHANGED <<kahnVars, call, upstream, at, results, logs, output, store,
                   before, runs>>

EndVisit ==
    /\ step = "visiting"
    /\ toVisit = {}
    /\ step' = "executing"
    /\ UNCHANGED <<kahnVars, call, toVisit, upstream, at, results, logs, output,
                   store, before, runs>>

\* Deviation: the loop continues without going on to the next node.
SkipInPlace ==
    /\ step = "executing"
    /\ at <= Len(order)
    /\ ~Asked(Current)
    /\ UNCHANGED vars

SkipNode ==
    /\ step = "executing"
    /\ at <= Len(order)
    /\ ~Asked(Current)
    /\ at' = at + 1
    /\ UNCHANGED <<kahnVars, call, step, toVisit, upstream, results, logs, output,
                   store, before, runs>>

NodeLog(n, status, rows) == [node |-> n, status |-> status, rows |-> rows]

\* Deviation: a write adds to what is there.
AppendThrough(n, frame) ==
    IF graph.def[n].kind = "output"
    THEN LET k == graph.def[n].key
         IN  store' = Put(store, k, IF k \in DOMAIN store THEN [frame EXCEPT !.rows = store[k].rows \o @] ELSE frame)
    ELSE UNCHANGED store

\* An output node's write is part of its execution.
WriteThrough(n, frame) ==
    IF graph.def[n].kind = "output"
    THEN store' = Put(store, graph.def[n].key, frame)
    ELSE UNCHANGED store

\* Deviation: the bound of the API is not applied.
LimitAsAsked == call.limit

Limit == Min({call.limit, MaxPreview})

ExecuteNode ==
    /\ step = "executing"
    /\ at <= Len(order)
    /\ Asked(Current)
    /\ \E outcome \in Executed(Current) :
       LET n == Current
       IN  /\ outcome.ok
           /\ results' = Put(results, n, outcome.frame)
           /\ WriteThrough(n, outcome.frame)
           /\ logs' = IF Previewing THEN logs
                      ELSE Append(logs, NodeLog(n, "succeeded", Len(outcome.frame.rows)))
           /\ IF Previewing /\ n = call.target
              THEN /\ step' = "done"
                   /\ output' = HeadRows(outcome.frame.rows, Limit)
              ELSE UNCHANGED <<step, output>>
    /\ at' = at + 1
    /\ UNCHANGED <<kahnVars, call, toVisit, upstream, before, runs>>

\* Deviation: the failure is raised before it is logged.
FailUnlogged ==
    /\ step = "executing"
    /\ at <= Len(order)
    /\ Asked(Current)
    /\ \E outcome \in Executed(Current) : ~outcome.ok
    /\ step' = "failed"
    /\ UNCHANGED <<kahnVars, call, toVisit, upstream, at, results, logs, output,
                   store, before, runs>>

\* run() logs the failure and wraps it; preview() lets it through.
FailNode ==
    /\ step = "executing"
    /\ at <= Len(order)
    /\ Asked(Current)
    /\ \E outcome \in Executed(Current) : ~outcome.ok
    /\ step' = "failed"
    /\ logs' = IF Previewing THEN logs
               ELSE Append(logs, NodeLog(Current, "failed", 0))
    /\ UNCHANGED <<kahnVars, call, toVisit, upstream, at, results, output, store,
                   before, runs>>

\* preview() has returned from the loop before it comes to the end.
FinishRun ==
    /\ step = "executing"
    /\ ~Previewing
    /\ at > Len(order)
    /\ step' = "done"
    /\ UNCHANGED <<kahnVars, call, toVisit, upstream, at, results, logs, output,
                   store, before, runs>>

\* The same request once more; building the runner again gives the same order.
Retry ==
    /\ step \in {"done", "failed"}
    /\ runs < MaxRuns
    /\ step' = "idle"
    /\ toVisit' = {}
    /\ upstream' = {}
    /\ at' = 1
    /\ results' = NoDict
    /\ logs' = <<>>
    /\ output' = NoRows
    /\ before' = store
    /\ runs' = runs + 1
    /\ UNCHANGED <<kahnVars, call, store>>

RunStep ==
    \/ StartRun
    \/ RejectUnknownTarget
    \/ StartPreview
    \/ Visit
    \/ EndVisit
    \/ SkipNode
    \/ ExecuteNode
    \/ FailNode
    \/ FinishRun

Next == Build \/ RunStep \/ Retry

Spec == Init /\ [][Next]_vars

\* The thread serving the request takes its next statement as long as it
\* has one; nothing makes a client try again.
FairSpec == Spec /\ WF_vars(Build \/ RunStep)

-----------------------------------------------------------------------------
(***************************************************************************)
(* Properties                                                              *)
(***************************************************************************)

Steps == {"idle", "visiting", "executing", "done", "failed", "refused"}

\* The variables keep their types.
TypeOK ==
    /\ call \in Calls
    /\ step \in Steps
    /\ toVisit \in SUBSET Nodes
    /\ upstream \in SUBSET Nodes
    /\ at \in 1 .. Len(order) + 1
    /\ DOMAIN results \in SUBSET Nodes
    /\ \A i \in DOMAIN logs :
         logs[i].node \in Nodes /\ logs[i].status \in {"succeeded", "failed"}
    /\ runs \in 1 .. MaxRuns

\* When a node is executed the frames of all its sources exist: run() and
\* preview() read results[e.source] outside their try, a missing one would
\* be a bare KeyError.
InputsAvailable ==
    step = "executing" /\ at <= Len(order) =>
        (Asked(Current) => Sources(Current) \subseteq DOMAIN results)

\* A node and everything it is computed from.
Ancestors(t) ==
    {n \in Nodes :
        \A S \in SUBSET Nodes :
            /\ t \in S
            /\ \A m \in S : Sources(m) \subseteq S
            => n \in S}

\* "The /preview endpoint executes only the ancestors of the inspected node"
\* (docs/ARCHITECTURE.md), and all of them once the rows are returned.
PreviewExecutesAncestors ==
    Previewing =>
        /\ DOMAIN results \subseteq Ancestors(call.target)
        /\ step = "done" => DOMAIN results = Ancestors(call.target)

\* The log of a run tells exactly which nodes have results, in order; only
\* the last entry may be a failure, and it is one exactly when the run failed.
LogExact ==
    ~Previewing =>
        /\ {logs[i].node : i \in {j \in DOMAIN logs : logs[j].status = "succeeded"}}
             = DOMAIN results
        /\ \A i \in DOMAIN logs : logs[i].node = order[i]
        /\ \A i \in DOMAIN logs : logs[i].status = "failed" <=>
                                  i = Len(logs) /\ step = "failed"
        /\ step = "done" => Len(logs) = Len(order)

\* The part of the invariant about preview's walk over the parents.
WalkExact ==
    /\ ~Previewing => upstream = {} /\ toVisit = {} /\ step \notin {"visiting", "refused"}
    /\ step \in {"idle", "refused"} => upstream = {} /\ toVisit = {}
    /\ step \in {"executing", "done", "failed"} => toVisit = {}
    /\ Previewing /\ step \in {"visiting", "executing", "done", "failed"} =>
         /\ call.target \in Nodes
         /\ call.target \in upstream \cup toVisit
         /\ \A n \in upstream : Sources(n) \subseteq upstream \cup toVisit
         /\ upstream \cup toVisit \subseteq Ancestors(call.target)

\* The part about the results: they are those of the asked nodes before at.
ResultsExact ==
    /\ DOMAIN results = {n \in Nodes : Asked(n) /\ \E i \in 1 .. at - 1 : order[i] = n}
    /\ step \notin {"executing", "done", "failed"} => at = 1
    /\ step = "executing" /\ Previewing => call.target \notin DOMAIN results
    /\ step = "done" => DOMAIN results = IF Previewing THEN upstream ELSE Nodes
    /\ step = "failed" => at <= Len(order) /\ Asked(Current)

\* The inductive invariant of a request.
RunInv ==
    /\ KahnInv
    /\ caller = "runner"
    /\ step \in Steps
    /\ step # "idle" => phase = "accepted"
    /\ at \in 1 .. Len(order) + 1
    /\ upstream \in SUBSET Nodes
    /\ toVisit \in SUBSET Nodes
    /\ WalkExact
    /\ ResultsExact

-----------------------------------------------------------------------------
(***************************************************************************)
(* Graphs that are meant to compute something: no key is both read and     *)
(* written, no two edges into one node end at the same port, and no key is *)
(* written twice.                                                          *)
(***************************************************************************)
OfKind(kind) == {n \in Nodes : graph.def[n].kind = kind}
KeysOf(kind) == {graph.def[n].key : n \in OfKind(kind)}

NoFeedback == KeysOf("input") \cap KeysOf("output") = {}

DistinctPorts ==
    \A n \in Nodes : Keyed(Ports(n)) =>
        \A i \in DOMAIN Ports(n) : SameName(Ports(n), i) = {i}

\* What node n makes of its sources' results and of what the request found
\* in the store, every incoming edge contributing its frame.
Meaning(n) ==
    Execute(graph.def[n], [names |-> Ports(n), frames |-> Frames(n)], before)

\* The results solve the graph's equations, whatever order Kahn chose and
\* whatever else the request has written meanwhile (as the graph has no cycle
\* they are the only solution), and a run fails only at a node that has no
\* meaning.
OutcomeHasMeaning ==
    NoFeedback /\ DistinctPorts =>
        /\ \A n \in DOMAIN results :
              Meaning(n).ok /\ results[n] = Meaning(n).frame
        /\ step = "failed" => ~Meaning(Current).ok

\* The positions of the nodes that have written key k when those in r are
\* through, and what they have made of a store b.
Writers(r, k) ==
    {i \in DOMAIN order : /\ order[i] \in OfKind("output") \cap DOMAIN r
                         /\ graph.def[order[i]].key = k}

Written(r, b) ==
    [k \in DOMAIN b \cup {graph.def[n].key : n \in OfKind("output") \cap DOMAIN r} |->
        IF Writers(r, k) = {} THEN b[k] ELSE r[order[Max(Writers(r, k))]]]

LastWriter(k) == Writers(results, k)

\* The store holds what output nodes wrote in this request, last write last,
\* and is otherwise as the request found it.
StoreExact == store = Written(results, before)

\* "Deterministic results on every re-run without duplicate rows or ghost
\* state" (.agents/rules): a request made again leaves the store as it is,
\* whether it comes to its end or fails half way.
RetryChangesNothing ==
    runs > 1 /\ step \in {"done", "failed"} => store = before

RetryIsIdempotent == NoFeedback => RetryChangesNothing

\* "leaving zero dirty or half-written states upon failure"
\* (docs/ARCHITECTURE.md): a failed run has written nothing.
FailureLeavesNoWrites == step = "failed" => store = before

\* A preview is bounded by the limit asked for and by the API's own.
PreviewBounded ==
    /\ Len(output) <= MaxPreview
    /\ call.limit >= 0 => Len(output) <= call.limit

\* Every edge into an executed union contributes its rows.
UnionComplete ==
    \A n \in DOMAIN results :
        graph.def[n].kind = "union" =>
            results[n] = Concat(Frames(n))

\* A request that is not refused ends, with a result or an error.
Ends == <>(step \in {"done", "failed", "refused"} \/ phase \in {"cycle", "unknown_node"})

-----------------------------------------------------------------------------
(***************************************************************************)
(* The inductive invariant about what a request computes, besides RunInv   *)
(* and StoreExact.                                                         *)
(***************************************************************************)

\* Wherever frames are kept they are frames.
FramesTyped ==
    /\ \A n \in DOMAIN results : results[n] \in FrameSet
    /\ store \in [DOMAIN store -> FrameSet]
    /\ before \in [DOMAIN before -> FrameSet]
    /\ output \in Seq(Row)

\* A run has an entry per node before at, and one more when it has failed.
LogGrows ==
    /\ logs \in Seq([node : Nodes, status : {"succeeded", "failed"}, rows : Nat])
    /\ IF Previewing THEN logs = <<>>
       ELSE Len(logs) = IF step = "failed" THEN at ELSE at - 1
    /\ \A i \in DOMAIN logs :
         /\ logs[i].node = order[i]
         /\ logs[i].status = IF step = "failed" /\ i = Len(logs) THEN "failed" ELSE "succeeded"
    /\ ~Previewing /\ step = "done" => at = Len(order) + 1

\* What node n comes to in the frames d over the store b.
Computed(n, d, b) == Execute(graph.def[n], Route(Ports(n), Gathered(n, d)), b)

\* A node whose outcome no write of this request can have changed.
Settled(n) == NoFeedback \/ graph.def[n].kind # "input"

\* A settled node came to what it would have come to before the request.
ResultsComputed ==
    /\ \A n \in DOMAIN results : Settled(n) =>
         /\ Computed(n, results, before).ok
         /\ results[n] = Computed(n, results, before).frame
    /\ step = "failed" /\ Settled(Current) => ~Computed(Current, results, before).ok

\* The request is one of those made, no more often than the bound allows.
RequestKnown == call \in Calls /\ runs \in 1 .. MaxRuns

ValueInv == RequestKnown /\ FramesTyped /\ LogGrows /\ StoreExact /\ ResultsComputed

-----------------------------------------------------------------------------
(***************************************************************************)
(* The runner keeps the promise of DagRun.                                 *)
(***************************************************************************)
Dag == [n \in Nodes |-> Sources(n)]

Wanted == IF Previewing THEN Ancestors(call.target) ELSE Nodes

Status ==
    IF phase \in {"cycle", "unknown_node"} THEN "refused"
    ELSE CASE step \in {"idle", "visiting"} -> "submitted"
           [] step = "executing" -> "running"
           [] step = "done" -> "succeeded"
           [] step = "failed" -> "failed"
           [] step = "refused" -> "refused"

Promise ==
    INSTANCE DagRun WITH dag <- Dag, wanted <- Wanted, done <- DOMAIN results,
                         status <- Status

KeepsPromise == Promise!DagSpec

=============================================================================
