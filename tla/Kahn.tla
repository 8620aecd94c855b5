-------------------------------- MODULE Kahn --------------------------------
(***************************************************************************)
(* How a pipeline graph becomes an execution order.                        *)
(*                                                                         *)
(* The repository builds the order three times with the same algorithm:    *)
(* PipelineRunner (runner.py), PySparkPipelineRunner (pyspark_engine.py)   *)
(* and PipelineGraph.validate_acyclic (schemas.py), which the API calls    *)
(* before it stores a graph.  The two runners work on a dict of nodes, so  *)
(* a repeated id is one node; validate_acyclic counts against the raw list *)
(* of nodes.  The variable caller says which of the two is running.        *)
(*                                                                         *)
(* The loop of Kahn's algorithm is modelled statement by statement: the    *)
(* scan that collects the first ready nodes, the pop of the queue, and the *)
(* relaxation of each outgoing edge of the popped node.                    *)
(***************************************************************************)
EXTENDS Naturals, Sequences, FiniteSets, Functions

CONSTANTS
    Id,         \* the ids a graph may mention
    Port,       \* target ports of edges, NoPort among them
    Graphs      \* the graphs submitted: records with fields nodes and edges

Edge == [source : Id, target : Id, port : Port]

ASSUME GraphsAssumption ==
    \A g \in Graphs : g.nodes \in Seq(Id) /\ g.edges \in Seq(Edge)

Callers == {"runner", "validate_acyclic"}

VARIABLES
    graph,      \* the graph as submitted
    caller,     \* which of the two checks runs
    phase,      \* where the code is
    indegree,   \* unfulfilled in-edges per node
    scan,       \* position in the node list of the scan for ready nodes
    ready,      \* the queue
    order,      \* the nodes popped so far
    relaxing    \* indices of the popped node's edges still to be relaxed

kahnVars == <<graph, caller, phase, indegree, scan, ready, order, relaxing>>

-----------------------------------------------------------------------------

Nodes == Range(graph.nodes)
EdgeIndices == DOMAIN graph.edges
Source(k) == graph.edges[k].source
Target(k) == graph.edges[k].target
InEdges(n) == {k \in EdgeIndices : Target(k) = n}
OutEdges(n) == {k \in EdgeIndices : Source(k) = n}

EndpointsKnown ==
    \A k \in EdgeIndices : Source(k) \in Nodes /\ Target(k) \in Nodes

\* A dict keeps the position at which a key was first inserted.
FirstAt(i) == \A j \in 1 .. i - 1 : graph.nodes[j] # graph.nodes[i]

\* Deviation: the runner counts the list, repeated ids included.
ListLength == Len(graph.nodes)

\* The number the length of the order is compared with.
Expected ==
    IF caller = "runner" THEN Cardinality(Nodes) ELSE Len(graph.nodes)

KahnInit ==
    /\ graph \in Graphs
    /\ caller \in Callers
    /\ phase = "count"
    /\ indegree = [n \in Nodes |-> 0]
    /\ scan = 1
    /\ ready = <<>>
    /\ order = <<>>
    /\ relaxing = {}

RejectUnknownNode ==
    /\ phase = "count"
    /\ ~EndpointsKnown
    /\ phase' = "unknown_node"
    /\ UNCHANGED <<graph, caller, indegree, scan, ready, order, relaxing>>

\* Deviation: parallel edges are counted once.
CountSources ==
    /\ phase = "count"
    /\ EndpointsKnown
    /\ indegree' = [n \in Nodes |-> Cardinality({Source(k) : k \in InEdges(n)})]
    /\ phase' = "scan"
    /\ UNCHANGED <<graph, caller, scan, ready, order, relaxing>>

CountIndegrees ==
    /\ phase = "count"
    /\ EndpointsKnown
    /\ indegree' = [n \in Nodes |-> Cardinality(InEdges(n))]
    /\ phase' = "scan"
    /\ UNCHANGED <<graph, caller, scan, ready, order, relaxing>>

\* Deviation: a repeated id is skipped before the position advances.
ScanWithoutAdvance ==
    /\ phase = "scan"
    /\ scan <= Len(graph.nodes)
    /\ FirstAt(scan)
    /\ ready' = IF indegree[graph.nodes[scan]] = 0
                THEN Append(ready, graph.nodes[scan])
                ELSE ready
    /\ scan' = scan + 1
    /\ UNCHANGED <<graph, caller, phase, indegree, order, relaxing>>

ScanNode ==
    /\ phase = "scan"
    /\ scan <= Len(graph.nodes)
    /\ LET n == graph.nodes[scan] IN
       ready' = IF FirstAt(scan) /\ indegree[n] = 0
                THEN Append(ready, n)
                ELSE ready
    /\ scan' = scan + 1
    /\ UNCHANGED <<graph, caller, phase, indegree, order, relaxing>>

EndScan ==
    /\ phase = "scan"
    /\ scan > Len(graph.nodes)
    /\ phase' = "loop"
    /\ UNCHANGED <<graph, caller, indegree, scan, ready, order, relaxing>>

PopReady ==
    /\ phase = "loop"
    /\ relaxing = {}
    /\ ready # <<>>
    /\ order' = Append(order, Head(ready))
    /\ ready' = Tail(ready)
    /\ relaxing' = OutEdges(Head(ready))
    /\ UNCHANGED <<graph, caller, phase, indegree, scan>>

\* Deviation: a child is queued when its last edge is still pending.
RelaxEarly(k) ==
    /\ phase = "loop"
    /\ k \in relaxing
    /\ \A j \in relaxing : k <= j
    /\ indegree' = [indegree EXCEPT ![Target(k)] = @ - 1]
    /\ ready' = IF indegree'[Target(k)] = 1 THEN Append(ready, Target(k)) ELSE ready
    /\ relaxing' = relaxing \ {k}
    /\ UNCHANGED <<graph, caller, phase, scan, order>>

RelaxEdge(k) ==
    /\ phase = "loop"
    /\ k \in relaxing
    /\ \A j \in relaxing : k <= j
    /\ LET child == Target(k) IN
       /\ indegree' = [indegree EXCEPT ![child] = @ - 1]
       /\ ready' = IF indegree'[child] = 0 THEN Append(ready, child) ELSE ready
    /\ relaxing' = relaxing \ {k}
    /\ UNCHANGED <<graph, caller, phase, scan, order>>

\* Deviation: an empty queue is taken for success.
AcceptAnyway ==
    /\ phase = "loop"
    /\ relaxing = {}
    /\ ready = <<>>
    /\ phase' = "accepted"
    /\ UNCHANGED <<graph, caller, indegree, scan, ready, order, relaxing>>

Accept ==
    /\ phase = "loop"
    /\ relaxing = {}
    /\ ready = <<>>
    /\ Len(order) = Expected
    /\ phase' = "accepted"
    /\ UNCHANGED <<graph, caller, indegree, scan, ready, order, relaxing>>

RaiseCycleError ==
    /\ phase = "loop"
    /\ relaxing = {}
    /\ ready = <<>>
    /\ Len(order) # Expected
    /\ phase' = "cycle"
    /\ UNCHANGED <<graph, caller, indegree, scan, ready, order, relaxing>>

KahnNext ==
    \/ RejectUnknownNode
    \/ CountIndegrees
    \/ ScanNode
    \/ EndScan
    \/ PopReady
    \/ \E k \in relaxing : RelaxEdge(k)
    \/ Accept
    \/ RaiseCycleError

KahnSpec == KahnInit /\ [][KahnNext]_kahnVars

\* One thread runs straight through the loop: it takes its next statement
\* as long as it has one.
KahnFairSpec == KahnSpec /\ WF_kahnVars(KahnNext)

-----------------------------------------------------------------------------
(***************************************************************************)
(* Properties                                                              *)
(***************************************************************************)

Phases == {"count", "scan", "loop", "accepted", "cycle", "unknown_node"}
Verdicts == {"accepted", "cycle", "unknown_node"}

\* The variables keep their types; a count never falls below zero.
KahnTypeOK ==
    /\ graph \in Graphs
    /\ caller \in Callers
    /\ phase \in Phases
    /\ indegree \in [Nodes -> Nat]
    /\ scan \in 1 .. Len(graph.nodes) + 1
    /\ ready \in Seq(Nodes)
    /\ order \in Seq(Nodes)
    /\ relaxing \in SUBSET EdgeIndices

\* A node is ordered only after every source of its edges: whatever the
\* runner executes, the results of its inputs exist (runner.py, run).
OrderTopological ==
    \A i \in DOMAIN order : \A k \in InEdges(order[i]) :
        \E j \in 1 .. i - 1 : order[j] = Source(k)

\* No node is ordered or queued twice, parallel edges and repeated ids
\* included: a node executed twice would write its output twice.
NoNodeTwice ==
    /\ \A i, j \in DOMAIN order : order[i] = order[j] => i = j
    /\ \A i, j \in DOMAIN ready : ready[i] = ready[j] => i = j
    /\ Range(order) \cap Range(ready) = {}

\* The in-edges of n whose contribution is still in its indegree.
Pending(n) ==
    {k \in InEdges(n) : Source(k) \notin Range(order) \/ k \in relaxing}

\* The loop's invariant: the counters of runner.py's _build_order count the
\* pending edges exactly, and a node is queued or ordered exactly when it has
\* none left.
CountersExact ==
    phase \notin {"count", "unknown_node"} =>
        /\ EndpointsKnown
        /\ \A n \in Nodes : indegree[n] = Cardinality(Pending(n))

BeforeLoop ==
    phase \in {"count", "unknown_node", "scan"} =>
        /\ order = <<>>
        /\ relaxing = {}
        /\ phase # "scan" => scan = 1
        /\ Range(ready) =
              {n \in Nodes : phase = "scan" /\ indegree[n] = 0 /\
                             \E i \in 1 .. scan - 1 : graph.nodes[i] = n}

QueueExact ==
    phase \in {"loop", "accepted", "cycle"} =>
        \A n \in Nodes : n \in Range(ready) \cup Range(order) <=> Pending(n) = {}

RelaxingFromLast ==
    \A k \in relaxing : order # <<>> /\ Source(k) = order[Len(order)]

AfterLoop ==
    /\ phase \in {"accepted", "cycle"} => relaxing = {} /\ ready = <<>>
    /\ phase = "accepted" => Len(order) = Expected
    /\ phase = "cycle" => Len(order) # Expected

\* The inductive invariant of the algorithm.
KahnInv ==
    /\ KahnTypeOK
    /\ CountersExact
    /\ BeforeLoop
    /\ QueueExact
    /\ RelaxingFromLast
    /\ AfterLoop
    /\ NoNodeTwice
    /\ OrderTopological

\* An accepted graph is ordered completely.
AcceptedIsComplete == phase = "accepted" => Range(order) = Nodes

\* A set of nodes in which every member has a predecessor: it exists
\* exactly when the graph has a cycle.
PredecessorClosed(S) ==
    S # {} /\ \A n \in S : \E k \in InEdges(n) : Source(k) \in S

Cyclic == \E S \in SUBSET Nodes : PredecessorClosed(S)

\* Neither check accepts a cyclic graph (no false acceptance).
AcceptedIsAcyclic == phase = "accepted" => ~Cyclic

\* The runner raises CycleError only for a cyclic graph (no false alarm).
RunnerCycleErrorIsReal == phase = "cycle" /\ caller = "runner" => Cyclic

\* Every construction of a runner ends with an order or an error.
ReachesVerdict == <>(phase \in Verdicts)

=============================================================================
