----------------------------- MODULE KahnProofs -----------------------------
(***************************************************************************)
(* Proofs about Kahn, for every set of ids, every set of graphs and both   *)
(* callers: the inductive invariant, and from it that an order is          *)
(* topological, complete and given to every acyclic graph and to no other. *)
(***************************************************************************)
EXTENDS Kahn, FiniteSetTheorems, WellFoundedInduction, TLAPS

-----------------------------------------------------------------------------
(***************************************************************************)
(* Sequences used as queues                                                *)
(***************************************************************************)

\* Appending adds one element at the end and nothing else (the queue and the
\* order of _build_order).
LEMMA AppendFacts ==
    ASSUME NEW S, NEW s \in Seq(S), NEW e \in S
    PROVE  /\ Append(s, e) \in Seq(S)
           /\ Len(Append(s, e)) = Len(s) + 1
           /\ DOMAIN Append(s, e) = 1 .. Len(s) + 1
           /\ \A i \in 1 .. Len(s) : Append(s, e)[i] = s[i]
           /\ Append(s, e)[Len(s) + 1] = e
           /\ Range(Append(s, e)) = Range(s) \cup {e}
<1>1. /\ Append(s, e) \in Seq(S)
      /\ Len(Append(s, e)) = Len(s) + 1
      /\ DOMAIN Append(s, e) = 1 .. Len(s) + 1
      /\ \A i \in 1 .. Len(s) : Append(s, e)[i] = s[i]
      /\ Append(s, e)[Len(s) + 1] = e
      /\ DOMAIN s = 1 .. Len(s)
      /\ Len(s) \in Nat
  OBVIOUS
<1>2. Range(Append(s, e)) = Range(s) \cup {e}
  BY <1>1 DEF Range
<1> QED BY <1>1, <1>2

\* Popping the head removes the head and nothing else (ready.pop(0)).
LEMMA TailFacts ==
    ASSUME NEW S, NEW s \in Seq(S), s # <<>>
    PROVE  /\ Head(s) \in S
           /\ Tail(s) \in Seq(S)
           /\ DOMAIN Tail(s) = 1 .. Len(s) - 1
           /\ \A i \in 1 .. Len(s) - 1 : Tail(s)[i] = s[i + 1]
           /\ Range(s) = {Head(s)} \cup Range(Tail(s))
<1>1. /\ Head(s) \in S
      /\ Tail(s) \in Seq(S)
      /\ Len(Tail(s)) = Len(s) - 1
      /\ DOMAIN Tail(s) = 1 .. Len(s) - 1
      /\ \A i \in 1 .. Len(s) - 1 : Tail(s)[i] = s[i + 1]
      /\ Head(s) = s[1]
      /\ DOMAIN s = 1 .. Len(s)
      /\ Len(s) \in Nat \ {0}
  OBVIOUS
<1>2. Range(s) \subseteq {Head(s)} \cup Range(Tail(s))
  <2> SUFFICES ASSUME NEW i \in 1 .. Len(s), i # 1
               PROVE  s[i] \in Range(Tail(s))
    BY <1>1 DEF Range
  <2>1. i - 1 \in 1 .. Len(s) - 1 /\ i = (i - 1) + 1
    BY <1>1
  <2> QED BY <2>1, <1>1 DEF Range
<1>3. {Head(s)} \cup Range(Tail(s)) \subseteq Range(s)
  BY <1>1 DEF Range
<1> QED BY <1>1, <1>2, <1>3

-----------------------------------------------------------------------------
(***************************************************************************)
(* The graph                                                               *)
(***************************************************************************)

\* A node list and an edge list are finite.
LEMMA GraphFacts ==
    ASSUME graph \in Graphs
    PROVE  /\ graph.nodes \in Seq(Id)
           /\ Nodes \in SUBSET Id
           /\ IsFiniteSet(Nodes)
           /\ EdgeIndices = 1 .. Len(graph.edges)
           /\ Len(graph.edges) \in Nat
           /\ IsFiniteSet(EdgeIndices)
<1>1. graph.nodes \in Seq(Id) /\ graph.edges \in Seq(Edge)
  BY GraphsAssumption
<1>2. EdgeIndices = 1 .. Len(graph.edges) /\ Len(graph.edges) \in Nat
  BY <1>1 DEF EdgeIndices
<1>3. IsFiniteSet(EdgeIndices)
  BY <1>2, FS_Interval
<1>4. Nodes \in SUBSET Id /\ DOMAIN graph.nodes = 1 .. Len(graph.nodes)
  BY <1>1 DEF Nodes, Range
<1>5. graph.nodes \in Surjection(1 .. Len(graph.nodes), Nodes)
  BY <1>1, <1>4 DEF Surjection, Nodes, Range
<1>6. IsFiniteSet(Nodes)
  BY <1>1, <1>5, FS_Surjection, FS_Interval
<1> QED BY <1>1, <1>2, <1>3, <1>4, <1>6

\* The pending edges of a node are finitely many: they can be counted.
LEMMA PendingFinite ==
    ASSUME graph \in Graphs, NEW n
    PROVE  IsFiniteSet(Pending(n)) /\ IsFiniteSet(InEdges(n))
<1>1. Pending(n) \subseteq EdgeIndices /\ InEdges(n) \subseteq EdgeIndices
  BY DEF Pending, InEdges
<1> QED BY <1>1, GraphFacts, FS_Subset

-----------------------------------------------------------------------------
(***************************************************************************)
(* The invariant                                                           *)
(***************************************************************************)

\* The invariant holds before the first statement.
LEMMA InitInv == KahnInit => KahnInv
<1> SUFFICES ASSUME KahnInit PROVE KahnInv
  OBVIOUS
<1> USE DEF KahnInit
<1>1. graph.nodes \in Seq(Id) /\ Len(graph.nodes) \in Nat
  BY GraphsAssumption
<1>2. KahnTypeOK
  BY <1>1 DEF KahnTypeOK, Phases
<1>3. CountersExact /\ QueueExact /\ RelaxingFromLast /\ AfterLoop
  BY DEF CountersExact, QueueExact, RelaxingFromLast, AfterLoop
<1>4. BeforeLoop /\ NoNodeTwice /\ OrderTopological
  BY DEF BeforeLoop, NoNodeTwice, OrderTopological, Range
<1> QED BY <1>2, <1>3, <1>4 DEF KahnInv

\* Once the counters are right, a node whose indegree is zero has no pending
\* edge left, and the other way round.
LEMMA ZeroIndegree ==
    ASSUME KahnInv, phase \notin {"count", "unknown_node"}, NEW n \in Nodes
    PROVE  indegree[n] = 0 <=> Pending(n) = {}
<1>1. IsFiniteSet(Pending(n))
  BY PendingFinite DEF KahnInv, KahnTypeOK
<1>2. indegree[n] = Cardinality(Pending(n))
  BY DEF KahnInv, CountersExact
<1> QED BY <1>1, <1>2, FS_EmptySet

\* A step that only moves the phase, to the verdict its guard allows.
LEMMA RejectInv == KahnInv /\ RejectUnknownNode => KahnInv'
<1> SUFFICES ASSUME KahnInv, RejectUnknownNode PROVE KahnInv'
  OBVIOUS
<1> USE DEF RejectUnknownNode
<1>1. KahnTypeOK'
  BY DEF KahnInv, KahnTypeOK, Phases, Nodes, EdgeIndices
<1>2. CountersExact' /\ QueueExact' /\ AfterLoop' /\ RelaxingFromLast'
  BY DEF KahnInv, CountersExact, QueueExact, AfterLoop, RelaxingFromLast, Source
<1>3. BeforeLoop' /\ NoNodeTwice' /\ OrderTopological'
  BY DEF KahnInv, BeforeLoop, NoNodeTwice, OrderTopological, InEdges, EdgeIndices, Source, Target, Nodes
<1> QED BY <1>1, <1>2, <1>3 DEF KahnInv

\* Counting the in-edges starts the counters exactly.
LEMMA CountIndegreesInv == KahnInv /\ CountIndegrees => KahnInv'
<1> SUFFICES ASSUME KahnInv, CountIndegrees PROVE KahnInv'
  OBVIOUS
<1> USE DEF CountIndegrees
<1>1. /\ graph \in Graphs /\ order = <<>> /\ relaxing = {} /\ scan = 1
      /\ Range(ready) = {}
  BY DEF KahnInv, KahnTypeOK, BeforeLoop
<1>2. \A n \in Nodes : IsFiniteSet(InEdges(n)) /\ Cardinality(InEdges(n)) \in Nat
  BY <1>1, PendingFinite, FS_CardinalityType
<1>3. KahnTypeOK'
  BY <1>2 DEF KahnInv, KahnTypeOK, Phases, Nodes, EdgeIndices
<1>4. \A n : Pending(n)' = InEdges(n)
  BY <1>1 DEF Pending, InEdges, Source, Target, EdgeIndices, Range
<1>5. CountersExact'
  BY <1>4 DEF CountersExact, EndpointsKnown, Nodes, Source, Target, EdgeIndices
<1>6. BeforeLoop'
  BY <1>1 DEF BeforeLoop, Nodes
<1>7. QueueExact' /\ AfterLoop' /\ RelaxingFromLast'
  BY <1>1 DEF QueueExact, AfterLoop, RelaxingFromLast
<1>8. NoNodeTwice' /\ OrderTopological'
  BY DEF KahnInv, NoNodeTwice, OrderTopological, InEdges, EdgeIndices, Source, Target
<1> QED BY <1>3, <1>5, <1>6, <1>7, <1>8 DEF KahnInv

\* The scan queues a node at its first position and only there.
LEMMA ScanNodeInv == KahnInv /\ ScanNode => KahnInv'
<1> SUFFICES ASSUME KahnInv, ScanNode PROVE KahnInv'
  OBVIOUS
<1> DEFINE n == graph.nodes[scan]
<1>0. /\ phase = "scan" /\ scan <= Len(graph.nodes) /\ scan' = scan + 1
      /\ ready' = IF FirstAt(scan) /\ indegree[n] = 0 THEN Append(ready, n) ELSE ready
      /\ UNCHANGED <<graph, caller, phase, indegree, order, relaxing>>
  BY DEF ScanNode
<1>1. /\ graph \in Graphs /\ graph.nodes \in Seq(Id) /\ scan \in 1 .. Len(graph.nodes)
      /\ ready \in Seq(Nodes) /\ order = <<>> /\ relaxing = {} /\ n \in Nodes
      /\ Len(graph.nodes) \in Nat
  BY <1>0, GraphFacts DEF KahnInv, KahnTypeOK, BeforeLoop, Nodes, Range
<1>2. Range(ready) = {m \in Nodes : indegree[m] = 0 /\ \E i \in 1 .. scan - 1 : graph.nodes[i] = m}
  BY <1>0 DEF KahnInv, BeforeLoop
<1>3. ready' \in Seq(Nodes)
  BY <1>0, <1>1, AppendFacts
<1>4. KahnTypeOK'
  BY <1>0, <1>1, <1>3 DEF KahnInv, KahnTypeOK, Nodes, EdgeIndices
<1>5. Range(ready') = {m \in Nodes : indegree[m] = 0 /\ \E i \in 1 .. scan : graph.nodes[i] = m}
  <2>1. CASE FirstAt(scan) /\ indegree[n] = 0
    <3>1. Range(ready') = Range(ready) \cup {n}
      BY <2>1, <1>0, <1>1, AppendFacts
    <3> QED BY <3>1, <2>1, <1>1, <1>2
  <2>2. CASE indegree[n] # 0
    BY <2>2, <1>0, <1>1, <1>2
  <2>3. CASE ~FirstAt(scan)
    <3>1. PICK j \in 1 .. scan - 1 : graph.nodes[j] = n
      BY <2>3 DEF FirstAt
    <3> QED BY <3>1, <2>3, <1>0, <1>1, <1>2
  <2> QED BY <2>1, <2>2, <2>3
<1>6. BeforeLoop'
  BY <1>0, <1>1, <1>5 DEF BeforeLoop, Nodes
<1>7. NoNodeTwice'
  <2>1. CASE FirstAt(scan) /\ indegree[n] = 0
    <3>1. n \notin Range(ready)
      BY <2>1, <1>2 DEF FirstAt
    <3>2. /\ DOMAIN ready' = 1 .. Len(ready) + 1
          /\ \A i \in 1 .. Len(ready) : ready'[i] = ready[i] /\ ready'[i] # n
          /\ ready'[Len(ready) + 1] = n
          /\ DOMAIN ready = 1 .. Len(ready) /\ Len(ready) \in Nat
      BY <2>1, <3>1, <1>0, <1>1, AppendFacts DEF Range
    <3>3. \A i, j \in DOMAIN ready : ready[i] = ready[j] => i = j
      BY DEF KahnInv, NoNodeTwice
    <3>4. \A i, j \in DOMAIN ready' : ready'[i] = ready'[j] => i = j
      BY <3>2, <3>3
    <3> QED BY <3>4, <1>0, <1>1 DEF NoNodeTwice, Range
  <2>2. CASE ~(FirstAt(scan) /\ indegree[n] = 0)
    BY <2>2, <1>0 DEF KahnInv, NoNodeTwice
  <2> QED BY <2>1, <2>2
<1>8. QueueExact' /\ AfterLoop' /\ RelaxingFromLast' /\ OrderTopological'
  BY <1>0, <1>1 DEF QueueExact, AfterLoop, RelaxingFromLast, OrderTopological
<1>9. CountersExact'
  <2>1. \A m : Pending(m)' = Pending(m)
    BY <1>0 DEF Pending, InEdges, Source, Target, EdgeIndices
  <2>2. Nodes' = Nodes /\ EndpointsKnown' = EndpointsKnown
    BY <1>0 DEF EndpointsKnown, Nodes, Source, Target, EdgeIndices
  <2> QED BY <2>1, <2>2, <1>0 DEF KahnInv, CountersExact
<1> QED BY <1>4, <1>6, <1>7, <1>8, <1>9 DEF KahnInv

\* When the scan is over, exactly the nodes without pending edges are queued.
LEMMA EndScanInv == KahnInv /\ EndScan => KahnInv'
<1> SUFFICES ASSUME KahnInv, EndScan PROVE KahnInv'
  OBVIOUS
<1> USE DEF EndScan
<1>1. /\ graph \in Graphs /\ graph.nodes \in Seq(Id) /\ scan = Len(graph.nodes) + 1
      /\ order = <<>> /\ relaxing = {} /\ Len(graph.nodes) \in Nat
  BY GraphFacts DEF KahnInv, KahnTypeOK, BeforeLoop
<1>2. Range(ready) = {m \in Nodes : indegree[m] = 0}
  <2>1. \A m \in Nodes : \E i \in 1 .. scan - 1 : graph.nodes[i] = m
    BY <1>1 DEF Nodes, Range
  <2> QED BY <2>1 DEF KahnInv, BeforeLoop
<1>3. QueueExact'
  <2>1. \A m \in Nodes : m \in Range(ready) <=> Pending(m) = {}
    BY <1>2, ZeroIndegree
  <2>2. \A m : Pending(m)' = Pending(m)
    BY DEF Pending, InEdges, Source, Target, EdgeIndices
  <2>3. Nodes' = Nodes /\ Range(ready)' = Range(ready) /\ Range(order)' = {}
    BY <1>1 DEF Nodes, Range
  <2> QED BY <2>1, <2>2, <2>3 DEF QueueExact
<1>4. KahnTypeOK' /\ BeforeLoop' /\ AfterLoop' /\ RelaxingFromLast'
  BY <1>1 DEF KahnInv, KahnTypeOK, Phases, BeforeLoop, AfterLoop, RelaxingFromLast, Nodes, EdgeIndices
<1>5. CountersExact'
  <2>1. CountersExact
    BY DEF KahnInv
  <2>2. \A n : Pending(n)' = Pending(n)
    BY DEF Pending, InEdges, Source, Target, EdgeIndices
  <2>3. Nodes' = Nodes /\ EndpointsKnown' = EndpointsKnown
    BY DEF EndpointsKnown, Nodes, Source, Target, EdgeIndices
  <2> QED BY <2>1, <2>2, <2>3 DEF CountersExact
<1>6. NoNodeTwice'
  BY DEF KahnInv, NoNodeTwice
<1>7. OrderTopological'
  BY DEF KahnInv, OrderTopological, InEdges, Source, Target, EdgeIndices
<1> QED BY <1>3, <1>4, <1>5, <1>6, <1>7 DEF KahnInv

\* Popping a node orders it after all sources of its edges and marks its
\* outgoing edges for relaxation; no edge stops being pending.
LEMMA PopReadyInv == KahnInv /\ PopReady => KahnInv'
<1> SUFFICES ASSUME KahnInv, PopReady PROVE KahnInv'
  OBVIOUS
<1> DEFINE h == Head(ready)
<1>0. /\ phase = "loop" /\ relaxing = {} /\ ready # <<>>
      /\ order' = Append(order, h) /\ ready' = Tail(ready) /\ relaxing' = OutEdges(h)
      /\ UNCHANGED <<graph, caller, phase, indegree, scan>>
  BY DEF PopReady
<1>1. /\ graph \in Graphs /\ ready \in Seq(Nodes) /\ order \in Seq(Nodes)
  BY DEF KahnInv, KahnTypeOK
<1>2. /\ h \in Nodes /\ ready' \in Seq(Nodes)
      /\ DOMAIN ready' = 1 .. Len(ready) - 1
      /\ \A i \in 1 .. Len(ready) - 1 : ready'[i] = ready[i + 1]
      /\ Range(ready) = {h} \cup Range(ready')
      /\ DOMAIN ready = 1 .. Len(ready) /\ Len(ready) \in Nat /\ h = ready[1]
  BY <1>0, <1>1, TailFacts
<1>3. /\ order' \in Seq(Nodes)
      /\ Len(order') = Len(order) + 1
      /\ DOMAIN order' = 1 .. Len(order) + 1
      /\ \A i \in 1 .. Len(order) : order'[i] = order[i]
      /\ order'[Len(order) + 1] = h
      /\ Range(order') = Range(order) \cup {h}
      /\ DOMAIN order = 1 .. Len(order) /\ Len(order) \in Nat
  BY <1>0, <1>1, <1>2, AppendFacts
<1>4. /\ \A i, j \in DOMAIN order : order[i] = order[j] => i = j
      /\ \A i, j \in DOMAIN ready : ready[i] = ready[j] => i = j
      /\ Range(order) \cap Range(ready) = {}
  BY DEF KahnInv, NoNodeTwice
<1>5. h \notin Range(order) /\ h \notin Range(ready')
  <2>1. h \notin Range(order)
    BY <1>2, <1>4
  <2>2. h \notin Range(ready')
    <3>1. \A i \in 1 .. Len(ready) - 1 : i + 1 \in DOMAIN ready /\ i + 1 # 1 /\ 1 \in DOMAIN ready
      BY <1>2
    <3>2. \A i \in DOMAIN ready' : ready'[i] # h
      BY <3>1, <1>2, <1>4
    <3> QED BY <3>2 DEF Range
  <2> QED BY <2>1, <2>2
<1>6. Pending(h) = {}
  BY <1>0, <1>2 DEF KahnInv, QueueExact
<1>7. \A m : InEdges(m)' = InEdges(m)
  BY <1>0 DEF InEdges, Target, EdgeIndices
<1>8. Nodes' = Nodes /\ EndpointsKnown' = EndpointsKnown /\ \A k : Source(k)' = Source(k)
  BY <1>0 DEF EndpointsKnown, Nodes, Source, Target, EdgeIndices
<1>9. \A m : Pending(m)' = Pending(m)
  <2> TAKE m
  <2>1. Pending(m)' = {k \in InEdges(m) : Source(k) \notin Range(order') \/ k \in relaxing'}
    BY <1>7, <1>8 DEF Pending
  <2>2. \A k \in InEdges(m) : k \in relaxing' <=> Source(k) = h
    BY <1>0 DEF OutEdges, InEdges
  <2>3. Pending(m) = {k \in InEdges(m) : Source(k) \notin Range(order)}
    BY <1>0 DEF Pending
  <2> QED BY <2>1, <2>2, <2>3, <1>3, <1>5
<1>10. KahnTypeOK'
  <2>1. relaxing' \in SUBSET EdgeIndices /\ EdgeIndices' = EdgeIndices
    BY <1>0 DEF OutEdges, EdgeIndices
  <2> QED BY <2>1, <1>0, <1>2, <1>3, <1>8 DEF KahnInv, KahnTypeOK
<1>11. CountersExact'
  BY <1>0, <1>8, <1>9 DEF KahnInv, CountersExact
<1>12. QueueExact'
  BY <1>0, <1>2, <1>3, <1>8, <1>9 DEF KahnInv, QueueExact
<1>13. RelaxingFromLast'
  <2>1. \A k \in relaxing' : Source(k) = h
    BY <1>0 DEF OutEdges
  <2>2. order' # <<>>
    BY <1>3
  <2> QED BY <2>1, <2>2, <1>3, <1>8 DEF RelaxingFromLast
<1>14. NoNodeTwice'
  <2>1. \A i, j \in DOMAIN order' : order'[i] = order'[j] => i = j
    <3>1. \A i \in 1 .. Len(order) : order'[i] # h
      BY <1>3, <1>5 DEF Range
    <3> QED BY <3>1, <1>3, <1>4
  <2>2. ASSUME NEW i \in DOMAIN ready', NEW j \in DOMAIN ready', ready'[i] = ready'[j]
        PROVE  i = j
    <3>1. ready[i + 1] = ready[j + 1] /\ i + 1 \in DOMAIN ready /\ j + 1 \in DOMAIN ready
      BY <2>2, <1>2
    <3>2. i + 1 = j + 1
      BY <3>1, <1>4
    <3> QED BY <3>2, <1>2
  <2>3. Range(order') \cap Range(ready') = {}
    BY <1>2, <1>3, <1>4, <1>5
  <2> QED BY <2>1, <2>2, <2>3 DEF NoNodeTwice
<1>15. OrderTopological'
  <2>1. \A k \in InEdges(h) : \E j \in 1 .. Len(order) : order[j] = Source(k)
    BY <1>6, <1>3 DEF Pending, Range
  <2>2. \A i \in DOMAIN order' : \A k \in InEdges(order'[i]) :
          \E j \in 1 .. i - 1 : order'[j] = Source(k)
    <3> TAKE i \in DOMAIN order'
    <3>1. CASE i = Len(order) + 1
      BY <3>1, <2>1, <1>3
    <3>2. CASE i \in 1 .. Len(order)
      BY <3>2, <1>3 DEF KahnInv, OrderTopological
    <3> QED BY <3>1, <3>2, <1>3
  <2> QED BY <2>2, <1>7, <1>8 DEF OrderTopological
<1>16. BeforeLoop' /\ AfterLoop'
  BY <1>0 DEF BeforeLoop, AfterLoop
<1> QED BY <1>10, <1>11, <1>12, <1>13, <1>14, <1>15, <1>16 DEF KahnInv

\* Relaxing one edge takes exactly that edge out of its target's count.
LEMMA RelaxEdgeInv ==
    ASSUME KahnInv, NEW k \in relaxing, RelaxEdge(k)
    PROVE  KahnInv'
<1>. PICK child : child = Target(k)
  OBVIOUS
<1>0. /\ phase = "loop" /\ relaxing' = relaxing \ {k}
      /\ indegree' = [indegree EXCEPT ![child] = @ - 1]
      /\ ready' = IF indegree'[child] = 0 THEN Append(ready, child) ELSE ready
      /\ UNCHANGED <<graph, caller, phase, scan, order>>
  BY DEF RelaxEdge
<1>1. /\ graph \in Graphs /\ ready \in Seq(Nodes) /\ order \in Seq(Nodes)
      /\ indegree \in [Nodes -> Nat] /\ relaxing \in SUBSET EdgeIndices
  BY DEF KahnInv, KahnTypeOK
<1>2. child \in Nodes /\ k \in InEdges(child)
  BY <1>0, <1>1 DEF KahnInv, CountersExact, EndpointsKnown, InEdges
<1>3. k \in Pending(child) /\ Pending(child) # {}
  BY <1>2 DEF Pending
<1>4. child \notin Range(ready) /\ child \notin Range(order)
  BY <1>0, <1>2, <1>3 DEF KahnInv, QueueExact
<1>5. Source(k) \in Range(order)
  BY <1>1 DEF KahnInv, RelaxingFromLast, Range
<1>6. \A m : InEdges(m)' = InEdges(m)
  BY <1>0 DEF InEdges, Target, EdgeIndices
<1>7. /\ Nodes' = Nodes /\ EndpointsKnown' = EndpointsKnown /\ EdgeIndices' = EdgeIndices
      /\ \A j : Source(j)' = Source(j)
  BY <1>0 DEF EndpointsKnown, Nodes, Source, Target, EdgeIndices
<1>8. \A m : Pending(m)' = {j \in InEdges(m) : Source(j) \notin Range(order) \/ j \in relaxing \ {k}}
  BY <1>0, <1>6, <1>7 DEF Pending
<1>9. Pending(child)' = Pending(child) \ {k}
  BY <1>5, <1>8 DEF Pending
<1>10. \A m : m # child => Pending(m)' = Pending(m)
  BY <1>8 DEF Pending, InEdges
<1>11. /\ IsFiniteSet(Pending(child)) /\ indegree[child] = Cardinality(Pending(child))
       /\ Cardinality(Pending(child)) \in Nat
  BY <1>0, <1>1, <1>2, PendingFinite, FS_CardinalityType DEF KahnInv, CountersExact
<1>12. /\ indegree'[child] = Cardinality(Pending(child)')
       /\ indegree'[child] \in Nat
       /\ indegree'[child] = 0 <=> Pending(child)' = {}
  <2>1. /\ IsFiniteSet(Pending(child) \ {k})
        /\ Cardinality(Pending(child) \ {k}) = Cardinality(Pending(child)) - 1
    BY <1>3, <1>11, FS_RemoveElement
  <2>2. indegree'[child] = Cardinality(Pending(child)) - 1
    BY <1>0, <1>1, <1>2, <1>11
  <2>3. Cardinality(Pending(child) \ {k}) \in Nat
    BY <2>1, FS_CardinalityType
  <2> QED BY <2>1, <2>2, <2>3, <1>9, FS_EmptySet
<1>13. CountersExact'
  <2>1. \A m \in Nodes : indegree'[m] = Cardinality(Pending(m)')
    <3> TAKE m \in Nodes
    <3>1. CASE m = child
      BY <3>1, <1>12
    <3>2. CASE m # child
      BY <3>2, <1>0, <1>1, <1>10 DEF KahnInv, CountersExact
    <3> QED BY <3>1, <3>2
  <2> QED BY <2>1, <1>0, <1>7 DEF KahnInv, CountersExact
<1>14. ready' \in Seq(Nodes)
  BY <1>0, <1>1, <1>2, AppendFacts
<1>15. KahnTypeOK'
  <2>1. indegree' \in [Nodes -> Nat]
    BY <1>0, <1>1, <1>2, <1>12
  <2> QED BY <2>1, <1>0, <1>1, <1>7, <1>14 DEF KahnInv, KahnTypeOK
<1>16. Range(ready') = IF Pending(child)' = {} THEN Range(ready) \cup {child} ELSE Range(ready)
  <2>1. Range(Append(ready, child)) = Range(ready) \cup {child}
    BY <1>1, <1>2, AppendFacts
  <2> QED BY <2>1, <1>0, <1>12
<1>17. QueueExact'
  <2>1. \A m \in Nodes : m \in Range(ready') \cup Range(order) <=> Pending(m)' = {}
    <3> TAKE m \in Nodes
    <3>1. CASE m = child
      BY <3>1, <1>4, <1>16
    <3>2. CASE m # child
      BY <3>2, <1>0, <1>10, <1>16 DEF KahnInv, QueueExact
    <3> QED BY <3>1, <3>2
  <2> QED BY <2>1, <1>0, <1>7 DEF QueueExact
<1>18. NoNodeTwice'
  <2>1. CASE indegree'[child] = 0
    <3>1. /\ DOMAIN ready' = 1 .. Len(ready) + 1
          /\ \A i \in 1 .. Len(ready) : ready'[i] = ready[i]
          /\ ready'[Len(ready) + 1] = child
          /\ DOMAIN ready = 1 .. Len(ready) /\ Len(ready) \in Nat
          /\ Range(ready') = Range(ready) \cup {child}
      BY <2>1, <1>0, <1>1, <1>2, AppendFacts
    <3>2. \A i \in 1 .. Len(ready) : ready[i] # child
      BY <3>1, <1>4 DEF Range
    <3>3. \A i, j \in DOMAIN ready' : ready'[i] = ready'[j] => i = j
      BY <3>1, <3>2 DEF KahnInv, NoNodeTwice
    <3> QED BY <3>1, <3>3, <1>0, <1>4 DEF KahnInv, NoNodeTwice
  <2>2. CASE indegree'[child] # 0
    BY <2>2, <1>0 DEF KahnInv, NoNodeTwice
  <2> QED BY <2>1, <2>2
<1>19. OrderTopological' /\ RelaxingFromLast'
  BY <1>0, <1>6, <1>7 DEF KahnInv, OrderTopological, RelaxingFromLast
<1>20. BeforeLoop' /\ AfterLoop'
  BY <1>0 DEF BeforeLoop, AfterLoop
<1> QED BY <1>13, <1>15, <1>17, <1>18, <1>19, <1>20 DEF KahnInv

\* The verdict is given when the queue is empty and every edge relaxed.
LEMMA VerdictInv == KahnInv /\ (Accept \/ RaiseCycleError) => KahnInv'
<1> SUFFICES ASSUME KahnInv, Accept \/ RaiseCycleError PROVE KahnInv'
  OBVIOUS
<1>0. /\ phase = "loop" /\ relaxing = {} /\ ready = <<>>
      /\ phase' \in {"accepted", "cycle"}
      /\ phase' = "accepted" <=> Len(order) = Expected
      /\ UNCHANGED <<graph, caller, indegree, scan, ready, order, relaxing>>
  BY DEF Accept, RaiseCycleError
<1>1. Expected' = Expected /\ Nodes' = Nodes /\ EdgeIndices' = EdgeIndices
  BY <1>0 DEF Expected, Nodes, EdgeIndices
<1>2. \A m : Pending(m)' = Pending(m) /\ InEdges(m)' = InEdges(m)
  BY <1>0 DEF Pending, InEdges, Source, Target, EdgeIndices
<1>3. \A j : Source(j)' = Source(j) /\ Target(j)' = Target(j)
  BY <1>0 DEF Source, Target
<1>4. KahnTypeOK' /\ BeforeLoop' /\ AfterLoop'
  BY <1>0, <1>1 DEF KahnInv, KahnTypeOK, Phases, BeforeLoop, AfterLoop
<1>5. CountersExact' /\ QueueExact'
  BY <1>0, <1>1, <1>2, <1>3 DEF KahnInv, CountersExact, EndpointsKnown, QueueExact
<1>6. RelaxingFromLast' /\ NoNodeTwice' /\ OrderTopological'
  BY <1>0, <1>2, <1>3 DEF KahnInv, RelaxingFromLast, NoNodeTwice, OrderTopological
<1> QED BY <1>4, <1>5, <1>6 DEF KahnInv

\* A stuttering step changes nothing the invariant reads.
LEMMA StutterInv == KahnInv /\ UNCHANGED kahnVars => KahnInv'
  BY DEF KahnInv, kahnVars, KahnTypeOK, CountersExact, BeforeLoop, QueueExact,
     RelaxingFromLast, AfterLoop, NoNodeTwice, OrderTopological, EndpointsKnown,
     Pending, InEdges, Source, Target, EdgeIndices, Nodes, Expected, Callers, Phases

\* Every step of the algorithm keeps the invariant.
LEMMA NextInv == KahnInv /\ [KahnNext]_kahnVars => KahnInv'
  BY RejectInv, CountIndegreesInv, ScanNodeInv, EndScanInv, PopReadyInv,
     RelaxEdgeInv, VerdictInv, StutterInv DEF KahnNext

\* The counters of the algorithm are exact at every step, for every graph.
THEOREM KahnInvariant == KahnSpec => []KahnInv
<1>1. KahnInit => KahnInv
  BY InitInv
<1>2. KahnInv /\ [KahnNext]_kahnVars => KahnInv'
  BY NextInv
<1> QED BY <1>1, <1>2, PTL DEF KahnSpec
-----------------------------------------------------------------------------
(***************************************************************************)
(* What the order is worth                                                 *)
(***************************************************************************)

\* The types, and with them the counters that never fall below zero.
THEOREM KahnTypeCorrect == KahnSpec => []KahnTypeOK
<1>1. KahnInv => KahnTypeOK
  BY DEF KahnInv
<1> QED BY <1>1, KahnInvariant, PTL

\* Every node of every order comes after the sources of all its edges.
THEOREM OrderIsTopological == KahnSpec => []OrderTopological
<1>1. KahnInv => OrderTopological
  BY DEF KahnInv
<1> QED BY <1>1, KahnInvariant, PTL

\* No node is ordered or queued twice.
THEOREM OrderHasNoRepeats == KahnSpec => []NoNodeTwice
<1>1. KahnInv => NoNodeTwice
  BY DEF KahnInv
<1> QED BY <1>1, KahnInvariant, PTL

\* An order is never longer than the node list has distinct ids.
LEMMA OrderLength ==
    ASSUME KahnInv
    PROVE  /\ Len(order) <= Cardinality(Nodes)
           /\ Len(order) = Cardinality(Nodes) => Range(order) = Nodes
           /\ Range(order) = Nodes => Len(order) = Cardinality(Nodes)
           /\ Len(order) \in Nat /\ Cardinality(Nodes) \in Nat
<1>1. /\ order \in Seq(Nodes) /\ IsFiniteSet(Nodes) /\ Cardinality(Nodes) \in Nat
  BY GraphFacts, FS_CardinalityType DEF KahnInv, KahnTypeOK
<1>2. /\ order \in [1 .. Len(order) -> Nodes] /\ Len(order) \in Nat
      /\ DOMAIN order = 1 .. Len(order)
  BY <1>1
<1>3. order \in Injection(1 .. Len(order), Nodes)
  BY <1>2 DEF KahnInv, NoNodeTwice, Injection, IsInjective
<1>4. Cardinality(1 .. Len(order)) = Len(order)
  <2>1. Len(order) \in Nat /\ 1 \in Int /\ Len(order) \in Int
    BY <1>2
  <2>2. Cardinality(1 .. Len(order)) = IF 1 > Len(order) THEN 0 ELSE Len(order) - 1 + 1
    BY <2>1, FS_Interval
  <2> QED BY <2>1, <2>2
<1>5. /\ Len(order) <= Cardinality(Nodes)
      /\ Len(order) = Cardinality(Nodes) <=> order \in Surjection(1 .. Len(order), Nodes)
  BY <1>1, <1>3, <1>4, FS_Injection
<1>6. order \in Surjection(1 .. Len(order), Nodes) <=> Range(order) = Nodes
  BY <1>1, <1>2 DEF Surjection, Range
<1> QED BY <1>1, <1>2, <1>5, <1>6

\* The raw node list has at least as many entries as it has distinct ids.
LEMMA RawListLength ==
    ASSUME graph \in Graphs
    PROVE  Cardinality(Nodes) <= Len(graph.nodes) /\ Len(graph.nodes) \in Nat
<1>1. /\ graph.nodes \in Seq(Id) /\ Len(graph.nodes) \in Nat
      /\ DOMAIN graph.nodes = 1 .. Len(graph.nodes)
  BY GraphFacts
<1>2. graph.nodes \in Surjection(1 .. Len(graph.nodes), Nodes)
  BY <1>1 DEF Surjection, Nodes, Range
<1>3. /\ IsFiniteSet(1 .. Len(graph.nodes))
      /\ Cardinality(1 .. Len(graph.nodes)) = Len(graph.nodes)
  BY <1>1, FS_Interval
<1> QED BY <1>1, <1>2, <1>3, FS_Surjection

\* Both checks accept only when every node is ordered; validate_acyclic,
\* which counts against the raw list, accepts no list with a repeated id.
LEMMA AcceptedComplete == KahnInv => AcceptedIsComplete
<1> SUFFICES ASSUME KahnInv, phase = "accepted" PROVE Range(order) = Nodes
  BY DEF AcceptedIsComplete
<1>1. Len(order) = Expected /\ graph \in Graphs
  BY DEF KahnInv, AfterLoop, KahnTypeOK
<1>2. Expected = Cardinality(Nodes) \/ Expected = Len(graph.nodes)
  BY DEF Expected
<1> QED BY <1>1, <1>2, OrderLength, RawListLength

\* An accepted graph is ordered completely: no node of a pipeline is left out of
\* a run.
THEOREM OrderIsComplete == KahnSpec => []AcceptedIsComplete
<1> QED BY AcceptedComplete, KahnInvariant, PTL

\* A set in which every node has a predecessor has no first member in the
\* order, so none of its members is ordered.
LEMMA OrderedNodesAreAcyclic ==
    ASSUME KahnInv, NEW S \in SUBSET Nodes, PredecessorClosed(S)
    PROVE  Range(order) \cap S = {}
<1> SUFFICES ASSUME Range(order) \cap S # {} PROVE FALSE
  OBVIOUS
<1> DEFINE Positions == {i \in DOMAIN order : order[i] \in S}
<1>1. order \in Seq(Nodes) /\ DOMAIN order = 1 .. Len(order) /\ Len(order) \in Nat
  BY DEF KahnInv, KahnTypeOK
<1>2. Positions # {} /\ Positions \subseteq Nat
  BY <1>1 DEF Range
<1>3. PICK i \in Positions : \A j \in Positions : ~(<<j, i>> \in OpToRel(<, Nat))
  BY <1>2, WFMin, NatLessThanWellFounded
<1>4. \A j \in Positions : ~(j < i)
  BY <1>2, <1>3 DEF OpToRel
<1>5. PICK k \in InEdges(order[i]) : Source(k) \in S
  BY DEF PredecessorClosed
<1>6. PICK j \in 1 .. i - 1 : order[j] = Source(k)
  BY <1>5 DEF KahnInv, OrderTopological
<1>7. j \in Positions /\ j < i
  BY <1>1, <1>2, <1>5, <1>6
<1> QED BY <1>4, <1>7

\* A graph with a cycle is accepted by neither check.
LEMMA AcceptedAcyclic == KahnInv => AcceptedIsAcyclic
<1> SUFFICES ASSUME KahnInv, phase = "accepted",
                    NEW S \in SUBSET Nodes, PredecessorClosed(S)
             PROVE  FALSE
  BY DEF AcceptedIsAcyclic, Cyclic
<1>1. Range(order) = Nodes
  BY AcceptedComplete DEF AcceptedIsComplete
<1>2. S # {}
  BY DEF PredecessorClosed
<1> QED BY <1>1, <1>2, OrderedNodesAreAcyclic

\* No cyclic graph gets past the runners or the API.
THEOREM NoCycleAccepted == KahnSpec => []AcceptedIsAcyclic
<1> QED BY AcceptedAcyclic, KahnInvariant, PTL

\* When the runner raises CycleError the nodes left over all have a
\* predecessor among themselves: the graph does have a cycle.
LEMMA CycleErrorReal == KahnInv => RunnerCycleErrorIsReal
<1> SUFFICES ASSUME KahnInv, phase = "cycle", caller = "runner" PROVE Cyclic
  BY DEF RunnerCycleErrorIsReal
<1> DEFINE S == Nodes \ Range(order)
<1>1. /\ relaxing = {} /\ ready = <<>> /\ Len(order) # Cardinality(Nodes)
      /\ order \in Seq(Nodes) /\ EndpointsKnown
  BY DEF KahnInv, AfterLoop, Expected, KahnTypeOK, CountersExact
<1>2. Range(order) # Nodes /\ Range(order) \subseteq Nodes
  BY <1>1, OrderLength DEF Range
<1>3. ASSUME NEW n \in S PROVE \E k \in InEdges(n) : Source(k) \in S
  <2>1. n \notin Range(ready) \cup Range(order)
    BY <1>1 DEF Range
  <2>2. PICK k \in InEdges(n) : Source(k) \notin Range(order)
    BY <2>1, <1>1 DEF KahnInv, QueueExact, Pending
  <2> QED BY <2>2, <1>1 DEF EndpointsKnown, InEdges
<1>4. PredecessorClosed(S)
  BY <1>2, <1>3 DEF PredecessorClosed
<1> QED BY <1>4 DEF Cyclic

\* A runner raises CycleError only on a graph that has a cycle.
THEOREM NoFalseCycleError == KahnSpec => []RunnerCycleErrorIsReal
<1> QED BY CycleErrorReal, KahnInvariant, PTL

=============================================================================
