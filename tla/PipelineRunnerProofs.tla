------------------------ MODULE PipelineRunnerProofs ------------------------
(***************************************************************************)
(* Proofs about PipelineRunner, for every graph, connector and request:    *)
(* frames are there when a node needs them, a preview executes exactly the *)
(* ancestors of its target, the runner implements DagRun, its results      *)
(* solve the graph's equations, the connector has what the output nodes    *)
(* wrote, and a request made again changes nothing.                        *)
(***************************************************************************)
EXTENDS PipelineRunner, KahnProofs, FrameProofs

-----------------------------------------------------------------------------
(***************************************************************************)
(* Routing                                                                 *)
(***************************************************************************)

\* The runner hands over frames it was given, each under a name.
LEMMA RouteTyped ==
    ASSUME NEW P, NEW ports \in Seq(P), NEW F, NEW frames \in Seq(F), Len(ports) = Len(frames)
    PROVE  /\ Route(ports, frames).frames \in Seq(F)
           /\ DOMAIN Route(ports, frames).names = DOMAIN Route(ports, frames).frames
<1>1. /\ DOMAIN ports = 1 .. Len(ports) /\ Len(ports) \in Nat /\ DOMAIN frames = DOMAIN ports
      /\ \A i \in DOMAIN frames : frames[i] \in F
  OBVIOUS
<1>2. CASE ~Keyed(ports)
  <2>1. Route(ports, frames) = [names |-> ports, frames |-> frames]
    BY <1>2 DEF Route
  <2> QED BY <1>1, <2>1
<1>3. CASE Keyed(ports)
  <2> DEFINE k == DictPositions(ports)
             fs == [p \in DOMAIN k |-> frames[Max(SameName(ports, k[p]))]]
             ns == [p \in DOMAIN k |-> PortName(ports, k[p])]
  <2>1. Route(ports, frames) = [names |-> ns, frames |-> fs]
    BY <1>3 DEF Route
  <2>2. Positions(ports) \in Seq(DOMAIN ports)
    BY <1>1 DEF Positions
  <2>3. k \in Seq(DOMAIN ports)
    BY <2>2, TakenTyped DEF DictPositions
  <2> HIDE DEF k
  <2>4. ASSUME NEW p \in DOMAIN k PROVE frames[Max(SameName(ports, k[p]))] \in F
    <3>1. k[p] \in DOMAIN ports
      BY <2>3
    <3>2. SameName(ports, k[p]) \in SUBSET (1 .. Len(ports)) /\ k[p] \in SameName(ports, k[p])
      BY <1>1, <3>1 DEF SameName
    <3>3. Max(SameName(ports, k[p])) \in DOMAIN ports
      BY <1>1, <3>2, MaxOfPositions
    <3> QED BY <1>1, <3>3
  <2>5. DOMAIN k = 1 .. Len(k) /\ Len(k) \in Nat
    BY <2>3
  <2>6. fs \in Seq(F)
    BY <2>4, <2>5
  <2>7. DOMAIN ns = DOMAIN fs
    OBVIOUS
  <2> HIDE DEF fs, ns
  <2> QED BY <2>1, <2>6, <2>7
<1> QED BY <1>2, <1>3

\* Ports whose names are distinct lose no frame.
LEMMA RouteDistinct ==
    ASSUME NEW P, NEW ports \in Seq(P), NEW F, NEW frames \in Seq(F), Len(ports) = Len(frames),
           Keyed(ports), \A i \in DOMAIN ports : SameName(ports, i) = {i}
    PROVE  Route(ports, frames) =
             [names |-> [p \in DOMAIN ports |-> PortName(ports, p)], frames |-> frames]
<1>1. DOMAIN ports = 1 .. Len(ports) /\ Len(ports) \in Nat /\ DOMAIN frames = DOMAIN ports
  OBVIOUS
<1>2. ASSUME NEW i \in DOMAIN ports
      PROVE  Min(SameName(ports, i)) = i /\ Max(SameName(ports, i)) = i
  <2>1. {i} \in SUBSET (1 .. Len(ports)) /\ {i} # {} /\ {i} \in SUBSET Nat
    BY <1>1
  <2>2. Min({i}) \in {i} /\ Max({i}) \in {i}
    BY <1>1, <2>1, MinOfPositions, MaxOfPositions
  <2> QED BY <2>2
<1>3. DictPositions(ports) = Positions(ports)
  <2>1. Positions(ports) \in Seq(DOMAIN ports) /\ DOMAIN Positions(ports) = DOMAIN ports
    BY <1>1 DEF Positions
  <2>2. DOMAIN Positions(ports) \subseteq {i \in DOMAIN ports : i = Min(SameName(ports, i))}
    BY <1>2, <2>1
  <2> QED BY <2>1, <2>2, TakenAll DEF DictPositions
<1>4. [p \in DOMAIN Positions(ports) |-> frames[Max(SameName(ports, Positions(ports)[p]))]] = frames
  BY <1>1, <1>2 DEF Positions
<1>5. [p \in DOMAIN Positions(ports) |-> PortName(ports, Positions(ports)[p])]
        = [p \in DOMAIN ports |-> PortName(ports, p)]
  BY DEF Positions
<1> QED BY <1>3, <1>4, <1>5 DEF Route

-----------------------------------------------------------------------------
(***************************************************************************)
(* Nodes                                                                   *)
(***************************************************************************)

\* Only an input node looks at the store, and only at its key.
LEMMA ExecuteStore ==
    ASSUME NEW node, node.kind \in Kinds, NEW inputs, NEW b, NEW c,
           node.kind = "input" => /\ node.key \in DOMAIN b <=> node.key \in DOMAIN c
                                  /\ node.key \in DOMAIN b => b[node.key] = c[node.key]
    PROVE  Execute(node, inputs, b) = Execute(node, inputs, c)
  BY DEF Execute, Kinds, ReadInput

\* Of the names a node was given only left and right matter.
LEMMA ExecuteNames ==
    ASSUME NEW node, node.kind \in Kinds, NEW a, NEW c, NEW b,
           a.frames = c.frames,
           Named(a, "left") = Named(c, "left"), Named(a, "right") = Named(c, "right")
    PROVE  Execute(node, a, b) = Execute(node, c, b)
<1>1. Sides(a) = Sides(c)
  BY DEF Sides, BothNamed
<1> QED BY <1>1 DEF Execute, Kinds, ReadInput, Filter, Transform, Union, Join, WriteOutput

\* What is matched are rows of the frame that is matched.
LEMMA MatchedTyped ==
    ASSUME NEW f \in Seq(Row), NEW g \in Seq(Row), NEW all
    PROVE  Matched(f, g, all) \in Seq(Row)
<1> DEFINE m(i) == Matches(f[i], g)
           count(i) == IF all /\ m(i) = 0 THEN 1 ELSE m(i)
           fs == [i \in DOMAIN f |-> [j \in 1 .. count(i) |-> f[i]]]
<1>1. ASSUME NEW i \in DOMAIN f PROVE count(i) \in Nat
  <2>1. DOMAIN g = 1 .. Len(g) /\ Len(g) \in Nat
    OBVIOUS
  <2>2. IsFiniteSet(1 .. Len(g))
    BY <2>1, FS_Interval
  <2>3. IsFiniteSet({j \in DOMAIN g : JoinValue[g[j]] = JoinValue[f[i]]})
    BY <2>1, <2>2, FS_Subset
  <2>4. m(i) \in Nat
    BY <2>3, FS_CardinalityType DEF Matches
  <2> QED BY <2>4
<1>2. ASSUME NEW i \in DOMAIN f PROVE [j \in 1 .. count(i) |-> f[i]] \in Seq(Row)
  <2> HIDE DEF count
  <2> QED BY <1>1
<1>3. fs \in Seq(Seq(Row))
  <2>1. DOMAIN f = 1 .. Len(f) /\ Len(f) \in Nat
    OBVIOUS
  <2> HIDE DEF count
  <2> QED BY <1>2, <2>1
<1>4. FlattenSeq(fs) \in Seq(Row)
  <2> HIDE DEF fs
  <2> QED BY <1>3, FlattenTyped
<1>5. Matched(f, g, all) = FlattenSeq(fs)
  BY DEF Matched
<1> QED BY <1>4, <1>5

\* A merge of frames is a frame.
LEMMA MergeTyped ==
    ASSUME NEW l \in FrameSet, NEW r \in FrameSet, NEW how \in MergeKinds
    PROVE  Merge(l, r, how) \in FrameSet
<1>1. l.rows \in Seq(Row) /\ r.rows \in Seq(Row) /\ l.columns \subseteq Column /\ r.columns \subseteq Column
  BY DEF FrameSet
<1>2. \A all : Matched(l.rows, r.rows, all) \in Seq(Row) /\ Matched(r.rows, l.rows, all) \in Seq(Row)
  BY <1>1, MatchedTyped
<1>3. Unmatched(r.rows, l.rows) \in Seq(Row)
  BY <1>1, TakenTyped DEF Unmatched
<1>4. Matched(l.rows, r.rows, TRUE) \o Unmatched(r.rows, l.rows) \in Seq(Row)
  <2> DEFINE a == Matched(l.rows, r.rows, TRUE)
             b == Unmatched(r.rows, l.rows)
  <2>1. a \in Seq(Row) /\ b \in Seq(Row)
    BY <1>2, <1>3
  <2> HIDE DEF a, b
  <2>2. a \o b \in Seq(Row)
    BY <2>1
  <2> QED BY <2>2 DEF a, b
<1>5. MergedRows(l.rows, r.rows, how) \in Seq(Row)
  BY <1>2, <1>4, Zenon DEF MergedRows, MergeKinds
<1>6. MergedColumns(l.columns, r.columns) \subseteq Column
  BY <1>1, NodeAssumption DEF MergedColumns
<1> QED BY <1>5, <1>6 DEF Merge, DataFrame, FrameSet

\* A concatenation of frames is a frame.
LEMMA ConcatTyped ==
    ASSUME NEW fs \in Seq(FrameSet)
    PROVE  Concat(fs) \in FrameSet
<1> DEFINE columns == UNION {fs[i].columns : i \in DOMAIN fs}
           parts == [i \in DOMAIN fs |-> Aligned(fs[i], columns)]
<1>1. DOMAIN fs = 1 .. Len(fs) /\ Len(fs) \in Nat /\ \A i \in DOMAIN fs : fs[i] \in FrameSet
  OBVIOUS
<1>2. columns \subseteq Column
  BY <1>1 DEF FrameSet
<1>3. ASSUME NEW i \in DOMAIN fs, NEW c PROVE Aligned(fs[i], c) \in Seq(Row)
  <2> DEFINE f == fs[i].rows
  <2>1. f \in Seq(Row)
    BY <1>1 DEF FrameSet
  <2>2. DOMAIN f = 1 .. Len(f) /\ Len(f) \in Nat /\ \A j \in DOMAIN f : f[j] \in Row /\ Padded[f[j]] \in Row
    BY <2>1, NodeAssumption
  <2> HIDE DEF f
  <2>3. [j \in DOMAIN f |-> IF fs[i].columns = c THEN f[j] ELSE Padded[f[j]]] \in Seq(Row)
    BY <2>2
  <2> QED BY <2>3 DEF Aligned, f
<1> HIDE DEF columns
<1>4. parts \in Seq(Seq(Row))
  BY <1>1, <1>3
<1>5. FlattenSeq(parts) \in Seq(Row)
  <2> HIDE DEF parts
  <2> QED BY <1>4, FlattenTyped
<1>6. Concat(fs) = DataFrame(columns, FlattenSeq(parts))
  BY DEF Concat, columns
<1> QED BY <1>2, <1>5, <1>6 DEF DataFrame, FrameSet

\* A projection of rows are rows.
LEMMA ProjectionTyped ==
    ASSUME NEW rows \in Seq(Row)
    PROVE  Projection(rows) \in Seq(Row)
<1>1. \A i \in DOMAIN rows : Projected[rows[i]] \in Row
  BY NodeAssumption
<1> QED BY <1>1 DEF Projection

\* What is selected and renamed are columns.
LEMMA BeforeDropTyped ==
    ASSUME NEW node, Built(node), NEW columns \in SUBSET Column
    PROVE  BeforeDrop(node, columns) \subseteq Column
<1>1. Selected(node, columns) \subseteq Column
  BY DEF Selected, Built
<1>2. \A c \in DOMAIN node.rename : node.rename[c] \in Column
  BY DEF Built, Range
<1> QED BY <1>1, <1>2 DEF BeforeDrop, Renamed

\* The two frames a join looks at are frames it was given.
LEMMA SidesTyped ==
    ASSUME NEW inputs, NEW F, inputs.frames \in Seq(F), NEW n \in Nat,
           DOMAIN inputs.names = 1 .. n, DOMAIN inputs.frames = 1 .. n,
           Sides(inputs) # <<>>
    PROVE  Sides(inputs)[1] \in F /\ Sides(inputs)[2] \in F
<1> DEFINE f == inputs.frames
           sides == Sides(inputs)
<1>1. \A i \in DOMAIN f : f[i] \in F
  OBVIOUS
<1>2. CASE BothNamed(inputs)
  <2>1. \A name : Named(inputs, name) \in SUBSET (1 .. n)
    BY DEF Named
  <2>2. /\ Min(Named(inputs, "left")) \in DOMAIN f
        /\ Min(Named(inputs, "right")) \in DOMAIN f
    <3>1. /\ Named(inputs, "left") \in SUBSET Nat /\ Named(inputs, "right") \in SUBSET Nat
          /\ Named(inputs, "left") # {} /\ Named(inputs, "right") # {}
      BY <1>2, <2>1 DEF BothNamed
    <3>2. /\ Min(Named(inputs, "left")) \in Named(inputs, "left")
          /\ Min(Named(inputs, "right")) \in Named(inputs, "right")
      BY <3>1, MinOfPositions
    <3> QED BY <2>1, <3>2
  <2>3. sides = <<f[Min(Named(inputs, "left"))], f[Min(Named(inputs, "right"))]>>
    BY <1>2 DEF Sides
  <2> HIDE DEF f, sides
  <2>4. sides[1] \in F /\ sides[2] \in F
    BY <1>1, <2>2, <2>3
  <2> QED BY <2>4 DEF sides
<1>3. CASE ~BothNamed(inputs)
  <2>1. Len(f) = 2 /\ sides = f
    BY <1>3 DEF Sides
  <2> QED BY <1>1, <2>1
<1> QED BY <1>2, <1>3

\* A node makes frames of frames.
LEMMA ExecuteTyped ==
    ASSUME NEW node, Built(node), NEW inputs, inputs.frames \in Seq(FrameSet),
           NEW n \in Nat, DOMAIN inputs.names = 1 .. n, DOMAIN inputs.frames = 1 .. n,
           NEW b, b \in [DOMAIN b -> FrameSet],
           Execute(node, inputs, b).ok
    PROVE  Execute(node, inputs, b).frame \in FrameSet
<1> DEFINE f == inputs.frames
<1>1. \A i \in DOMAIN f : f[i] \in FrameSet
  OBVIOUS
<1>2. CASE node.kind = "input"
  BY <1>2 DEF Execute, ReadInput, Returned, Raised
<1>3. CASE node.kind = "filter"
  <2>1. Len(f) = 1 /\ Execute(node, inputs, b).frame = DataFrame(f[1].columns, Kept(f[1].rows))
    BY <1>3 DEF Execute, Filter, Returned, Raised
  <2>2. f[1].rows \in Seq(Row) /\ f[1].columns \subseteq Column
    BY <1>1, <2>1 DEF FrameSet
  <2>3. Kept(f[1].rows) \in Seq(Row)
    BY <2>2, TakenTyped DEF Kept
  <2> QED BY <2>1, <2>2, <2>3 DEF DataFrame, FrameSet
<1>4. CASE node.kind = "transform"
  <2>1. /\ Len(f) = 1
        /\ Execute(node, inputs, b).frame
             = DataFrame(BeforeDrop(node, f[1].columns) \ node.drop, Projection(f[1].rows))
    BY <1>4 DEF Execute, Transform, Returned, Raised
  <2>2. f[1].rows \in Seq(Row) /\ f[1].columns \subseteq Column
    BY <1>1, <2>1 DEF FrameSet
  <2>3. Projection(f[1].rows) \in Seq(Row) /\ BeforeDrop(node, f[1].columns) \subseteq Column
    BY <2>2, ProjectionTyped, BeforeDropTyped
  <2> QED BY <2>1, <2>3 DEF DataFrame, FrameSet
<1>5. CASE node.kind = "union"
  <2>1. Execute(node, inputs, b).frame = Concat(f)
    BY <1>5 DEF Execute, Union, Returned, Raised
  <2> QED BY <2>1, ConcatTyped
<1>6. CASE node.kind = "join"
  <2> DEFINE sides == Sides(inputs)
  <2>1. /\ sides # <<>> /\ node.how \in MergeKinds
        /\ Execute(node, inputs, b).frame = Merge(sides[1], sides[2], node.how)
    BY <1>6 DEF Execute, Join, Returned, Raised
  <2> QED BY <2>1, SidesTyped, MergeTyped
<1>7. CASE node.kind = "output"
  <2>1. Len(f) = 1 /\ Execute(node, inputs, b).frame = f[1]
    BY <1>7 DEF Execute, WriteOutput, Returned, Raised
  <2> QED BY <1>1, <2>1
<1> QED BY <1>2, <1>3, <1>4, <1>5, <1>6, <1>7 DEF Kinds, Built

-----------------------------------------------------------------------------
(***************************************************************************)
(* Facts that hold as long as the graph stays                              *)
(***************************************************************************)

\* Everything defined from the graph stays as it is when the graph does.
LEMMA GraphStays ==
    ASSUME UNCHANGED graph
    PROVE  /\ Nodes' = Nodes
           /\ \A n : InEdges(n)' = InEdges(n)
           /\ \A n : Sources(n)' = Sources(n)
           /\ \A n : Ancestors(n)' = Ancestors(n)
<1>1. Nodes' = Nodes /\ EdgeIndices' = EdgeIndices /\ \A k : Source(k)' = Source(k)
  BY DEF Nodes, EdgeIndices, Source
<1>2. \A n : InEdges(n)' = InEdges(n)
  BY DEF InEdges, Target, EdgeIndices
<1>3. \A n : Sources(n)' = Sources(n)
  BY <1>1, <1>2 DEF Sources
<1>4. \A n : Ancestors(n)' = Ancestors(n)
  BY <1>1, <1>3 DEF Ancestors
<1> QED BY <1>1, <1>2, <1>3, <1>4

\* What an accepted graph's order is known for.
LEMMA AcceptedOrder ==
    ASSUME RunInv, phase = "accepted"
    PROVE  /\ order \in Seq(Nodes)
           /\ Range(order) = Nodes
           /\ \A i, j \in DOMAIN order : order[i] = order[j] => i = j
           /\ \A n \in Nodes : Sources(n) \subseteq Nodes
           /\ \A i \in 1 .. Len(order) : \A s \in Sources(order[i]) :
                \E j \in 1 .. i - 1 : order[j] = s
<1>1. KahnInv
  BY DEF RunInv
<1>2. order \in Seq(Nodes) /\ \A i, j \in DOMAIN order : order[i] = order[j] => i = j
  BY <1>1 DEF KahnInv, KahnTypeOK, NoNodeTwice
<1>3. Range(order) = Nodes
  BY <1>1, AcceptedComplete DEF AcceptedIsComplete
<1>4. \A n \in Nodes : Sources(n) \subseteq Nodes
  BY <1>1 DEF KahnInv, CountersExact, EndpointsKnown, Sources, InEdges
<1>5. \A i \in 1 .. Len(order) : \A s \in Sources(order[i]) :
        \E j \in 1 .. i - 1 : order[j] = s
  BY <1>1, <1>2 DEF KahnInv, OrderTopological, Sources
<1> QED BY <1>2, <1>3, <1>4, <1>5

\* A node's sources are ancestors of whatever the node is an ancestor of.
LEMMA AncestorsClosed ==
    ASSUME NEW t, NEW n \in Ancestors(t), Sources(n) \subseteq Nodes
    PROVE  Sources(n) \subseteq Ancestors(t)
  BY DEF Ancestors

\* Ancestors are the least such set.
LEMMA AncestorsLeast ==
    ASSUME NEW t, NEW S \in SUBSET Nodes, t \in S,
           \A m \in S : Sources(m) \subseteq S
    PROVE  Ancestors(t) \subseteq S
  BY DEF Ancestors

\* A node of the graph is its own ancestor.
LEMMA AncestorsSelf ==
    ASSUME NEW t \in Nodes
    PROVE  t \in Ancestors(t)
  BY DEF Ancestors

-----------------------------------------------------------------------------
(***************************************************************************)
(* The invariant of a request                                              *)
(***************************************************************************)

\* A request starts with the invariant.
LEMMA RunInitInv == Init => RunInv
<1> SUFFICES ASSUME Init PROVE RunInv
  OBVIOUS
<1>1. KahnInv /\ order = <<>>
  BY InitInv DEF Init, KahnInit
<1>2. DOMAIN results = {}
  BY DEF Init, NoDict
<1> QED BY <1>1, <1>2 DEF Init, RunInv, WalkExact, ResultsExact, Steps, Asked, Previewing

\* While the runner is built the request waits.
LEMMA BuildInv == RunInv /\ Build => RunInv'
<1> SUFFICES ASSUME RunInv, Build PROVE RunInv'
  OBVIOUS
<1>1. KahnInv' /\ UNCHANGED runVars /\ UNCHANGED <<graph, caller>> /\ phase # "accepted"
  BY NextInv DEF RunInv, Build, KahnNext, kahnVars, RejectUnknownNode, CountIndegrees,
     ScanNode, EndScan, PopReady, RelaxEdge, Accept, RaiseCycleError
<1>2. step = "idle" /\ at = 1 /\ at' = 1 /\ step' = "idle"
  BY <1>1 DEF RunInv, ResultsExact, runVars
<1>3. order' \in Seq(Nodes') /\ Len(order') \in Nat
  BY <1>1 DEF KahnInv, KahnTypeOK
<1>4. at' \in 1 .. Len(order') + 1
  BY <1>2, <1>3
<1>5. WalkExact'
  BY <1>1, <1>2, GraphStays DEF RunInv, WalkExact, Previewing, runVars
<1>6. ResultsExact'
  BY <1>1, <1>2, GraphStays DEF RunInv, ResultsExact, Previewing, runVars
<1> QED BY <1>1, <1>2, <1>4, <1>5, <1>6, GraphStays DEF RunInv, runVars

\* A step that leaves the runner's construction alone keeps its invariant.
LEMMA BuiltInv ==
    ASSUME RunInv, UNCHANGED kahnVars
    PROVE  /\ KahnInv' /\ caller' = "runner"
           /\ UNCHANGED graph /\ UNCHANGED order /\ UNCHANGED phase
           /\ order \in Seq(Nodes) /\ Len(order) \in Nat
  BY StutterInv DEF RunInv, kahnVars, KahnInv, KahnTypeOK

\* Starting a run, or refusing a preview of an unknown node.
LEMMA StartInv == RunInv /\ (StartRun \/ RejectUnknownTarget) => RunInv'
<1> SUFFICES ASSUME RunInv, StartRun \/ RejectUnknownTarget PROVE RunInv'
  OBVIOUS
<1>1. /\ phase = "accepted" /\ step = "idle"
      /\ step' = IF Previewing THEN "refused" ELSE "executing"
      /\ UNCHANGED <<kahnVars, call, toVisit, upstream, at, results>>
  BY DEF StartRun, RejectUnknownTarget
<1>2. /\ KahnInv' /\ caller' = "runner" /\ UNCHANGED <<graph, order, phase>>
  BY <1>1, BuiltInv
<1>3. WalkExact'
  BY <1>1, <1>2, GraphStays DEF RunInv, WalkExact, Previewing
<1>4. ResultsExact'
  BY <1>1, <1>2, GraphStays DEF RunInv, ResultsExact, Previewing, Asked
<1> QED BY <1>1, <1>2, <1>3, <1>4, GraphStays DEF RunInv, Steps

\* preview's walk starts at its target.
LEMMA StartPreviewInv == RunInv /\ StartPreview => RunInv'
<1> SUFFICES ASSUME RunInv, StartPreview PROVE RunInv'
  OBVIOUS
<1>1. /\ phase = "accepted" /\ step = "idle" /\ step' = "visiting"
      /\ Previewing /\ call.target \in Nodes /\ toVisit' = {call.target}
      /\ UNCHANGED <<kahnVars, call, upstream, at, results>>
  BY DEF StartPreview
<1>2. /\ KahnInv' /\ caller' = "runner" /\ UNCHANGED <<graph, order, phase>>
  BY <1>1, BuiltInv
<1>3. WalkExact'
  BY <1>1, <1>2, GraphStays, AncestorsSelf DEF RunInv, WalkExact, Previewing
<1>4. ResultsExact'
  BY <1>1, <1>2, GraphStays DEF RunInv, ResultsExact, Previewing, Asked
<1> QED BY <1>1, <1>2, <1>3, <1>4, GraphStays DEF RunInv, Steps

\* A turn of the walk moves one node and adds its sources.
LEMMA VisitInv == RunInv /\ Visit => RunInv'
<1> SUFFICES ASSUME RunInv, Visit PROVE RunInv'
  OBVIOUS
<1>1. /\ step = "visiting" /\ UNCHANGED <<kahnVars, call, step, at, results>>
  BY DEF Visit
<1>2. PICK curr \in toVisit :
        /\ upstream' = upstream \cup {curr}
        /\ toVisit' = (toVisit \ {curr}) \cup (Sources(curr) \ upstream')
  BY DEF Visit
<1>3. /\ KahnInv' /\ caller' = "runner" /\ UNCHANGED <<graph, order, phase>>
  BY <1>1, BuiltInv
<1>4. /\ phase = "accepted" /\ Previewing /\ toVisit \in SUBSET Nodes
      /\ upstream \in SUBSET Nodes /\ upstream \cup toVisit \subseteq Ancestors(call.target)
  BY <1>1 DEF RunInv, WalkExact
<1>5. Sources(curr) \subseteq Nodes /\ Sources(curr) \subseteq Ancestors(call.target)
  BY <1>2, <1>4, AcceptedOrder, AncestorsClosed
<1>6. /\ upstream \cup toVisit \subseteq upstream' \cup toVisit'
      /\ Sources(curr) \subseteq upstream' \cup toVisit'
      /\ upstream' \cup toVisit' \subseteq Ancestors(call.target)
  BY <1>2, <1>4, <1>5
<1>7. WalkExact'
  BY <1>1, <1>2, <1>3, <1>4, <1>6, GraphStays DEF RunInv, WalkExact, Previewing
<1>8. ResultsExact'
  BY <1>1, <1>3, GraphStays DEF RunInv, ResultsExact, Previewing
<1> QED BY <1>1, <1>2, <1>3, <1>4, <1>5, <1>7, <1>8, GraphStays DEF RunInv

\* The walk ends when nothing is left to visit.
LEMMA EndVisitInv == RunInv /\ EndVisit => RunInv'
<1> SUFFICES ASSUME RunInv, EndVisit PROVE RunInv'
  OBVIOUS
<1>1. /\ step = "visiting" /\ toVisit = {} /\ step' = "executing"
      /\ UNCHANGED <<kahnVars, call, toVisit, upstream, at, results>>
  BY DEF EndVisit
<1>2. /\ KahnInv' /\ caller' = "runner" /\ UNCHANGED <<graph, order, phase>>
  BY <1>1, BuiltInv
<1>3. WalkExact'
  BY <1>1, <1>2, GraphStays DEF RunInv, WalkExact, Previewing
<1>4. ResultsExact'
  BY <1>1, <1>2, GraphStays DEF RunInv, ResultsExact, Previewing, Asked
<1> QED BY <1>1, <1>2, <1>3, <1>4, GraphStays DEF RunInv, Steps

\* A node that is not asked for adds no result.
LEMMA SkipNodeInv == RunInv /\ SkipNode => RunInv'
<1> SUFFICES ASSUME RunInv, SkipNode PROVE RunInv'
  OBVIOUS
<1>1. /\ step = "executing" /\ at <= Len(order) /\ ~Asked(Current) /\ at' = at + 1
      /\ UNCHANGED <<kahnVars, call, step, toVisit, upstream, results>>
  BY DEF SkipNode
<1>2. /\ KahnInv' /\ caller' = "runner" /\ UNCHANGED <<graph, order, phase>>
      /\ Len(order) \in Nat
  BY <1>1, BuiltInv
<1>3. WalkExact'
  BY <1>1, <1>2, GraphStays DEF RunInv, WalkExact, Previewing
<1>4. at \in Nat \ {0} /\ at' \in 1 .. Len(order) + 1
  BY <1>1, <1>2 DEF RunInv
<1>5. \A n : Asked(n)' <=> Asked(n)
  BY <1>1 DEF Asked, Previewing
<1>6. DOMAIN results = {n \in Nodes : Asked(n) /\ \E i \in 1 .. at' - 1 : order[i] = n}
  <2>1. \A i \in 1 .. at' - 1 : i \in 1 .. at - 1 \/ i = at
    BY <1>1, <1>4
  <2>2. \A i \in 1 .. at - 1 : i \in 1 .. at' - 1
    BY <1>1, <1>4
  <2> QED BY <2>1, <2>2, <1>1 DEF RunInv, ResultsExact, Current
<1>7. ResultsExact'
  <2>1. Nodes' = Nodes /\ results' = results /\ order' = order /\ step' = "executing"
    BY <1>1, <1>2, GraphStays
  <2>2. DOMAIN results' = {n \in Nodes' : Asked(n)' /\ \E i \in 1 .. at' - 1 : order'[i] = n}
    BY <2>1, <1>5, <1>6
  <2>3. Previewing' => call'.target \notin DOMAIN results'
    BY <1>1, <2>1 DEF RunInv, ResultsExact, Previewing
  <2> QED BY <2>1, <2>2, <2>3 DEF ResultsExact
<1>8. /\ step' \in Steps /\ (step' # "idle" => phase' = "accepted")
      /\ at' \in 1 .. Len(order') + 1
      /\ upstream' \in SUBSET Nodes' /\ toVisit' \in SUBSET Nodes'
  BY <1>1, <1>2, <1>4, GraphStays DEF RunInv
<1> QED BY <1>2, <1>3, <1>7, <1>8 DEF RunInv

\* The ancestors of an ordered node are ordered before it.
LEMMA AncestorsBefore ==
    ASSUME RunInv, phase = "accepted", NEW p \in 1 .. Len(order)
    PROVE  \A n \in Ancestors(order[p]) : \E i \in 1 .. p : order[i] = n
<1> DEFINE S == {n \in Nodes : \E i \in 1 .. p : order[i] = n}
<1>1. order \in Seq(Nodes) /\ Len(order) \in Nat /\ p \in Nat \ {0}
  BY AcceptedOrder
<1>2. order[p] \in S
  BY <1>1
<1>3. ASSUME NEW m \in S PROVE Sources(m) \subseteq S
  <2> SUFFICES ASSUME NEW s \in Sources(m) PROVE s \in S
    OBVIOUS
  <2>1. PICK i \in 1 .. p : order[i] = m
    OBVIOUS
  <2>4. i \in 1 .. Len(order) /\ s \in Sources(order[i])
    BY <2>1, <1>1
  <2>2. PICK j \in 1 .. i - 1 : order[j] = s
    BY <2>4, AcceptedOrder
  <2>3. j \in 1 .. p /\ order[j] \in Nodes
    BY <2>1, <2>2, <1>1
  <2> QED BY <2>2, <2>3
<1>4. Ancestors(order[p]) \subseteq S
  BY <1>2, <1>3, AncestorsLeast
<1> QED BY <1>4

\* What an executed and what a failing node changes, whatever the engine and
\* whatever the frames.
NodeDone ==
    /\ step = "executing" /\ at <= Len(order) /\ Asked(Current) /\ at' = at + 1
    /\ UNCHANGED <<kahnVars, call, toVisit, upstream>>
    /\ DOMAIN results' = DOMAIN results \cup {Current}
    /\ IF Previewing /\ Current = call.target THEN step' = "done" ELSE UNCHANGED step

NodeRaised ==
    /\ step = "executing" /\ step' = "failed" /\ at <= Len(order) /\ Asked(Current)
    /\ UNCHANGED <<kahnVars, call, toVisit, upstream, at, results>>

\* A node of the pandas engine is one that is done.
LEMMA PandasNodeDone == ExecuteNode => NodeDone
  BY DEF ExecuteNode, Put, NodeDone

\* One of its failing nodes is one that has raised.
LEMMA PandasNodeRaised == FailNode => NodeRaised
  BY DEF FailNode, NodeRaised

\* Executing a node adds its result and no other; preview is over when it
\* was the target's turn, and then has a result for every node it visited.
LEMMA NodeDoneInv == RunInv /\ NodeDone => RunInv'
<1> SUFFICES ASSUME RunInv, NodeDone PROVE RunInv'
  OBVIOUS
<1>1. /\ step = "executing" /\ at <= Len(order) /\ Asked(Current) /\ at' = at + 1
      /\ UNCHANGED <<kahnVars, call, toVisit, upstream>>
  BY DEF NodeDone
<1>2. /\ DOMAIN results' = DOMAIN results \cup {Current}
      /\ IF Previewing /\ Current = call.target THEN step' = "done" ELSE UNCHANGED step
  BY DEF NodeDone
<1>3. /\ KahnInv' /\ caller' = "runner" /\ UNCHANGED <<graph, order, phase>>
      /\ Len(order) \in Nat /\ order \in Seq(Nodes)
  BY <1>1, BuiltInv
<1>4. /\ at \in Nat \ {0} /\ at' \in 1 .. Len(order) + 1 /\ phase = "accepted"
      /\ at \in 1 .. Len(order) /\ Current \in Nodes
  BY <1>1, <1>3 DEF RunInv, Current
<1>5. \A n : Asked(n)' <=> Asked(n)
  BY <1>1 DEF Asked, Previewing
<1>6. DOMAIN results' = {n \in Nodes : Asked(n) /\ \E i \in 1 .. at' - 1 : order[i] = n}
  <2>1. \A i \in 1 .. at' - 1 : i \in 1 .. at - 1 \/ i = at
    BY <1>1, <1>4
  <2>2. \A i \in 1 .. at - 1 : i \in 1 .. at' - 1
    BY <1>1, <1>4
  <2>3. at \in 1 .. at' - 1
    BY <1>1, <1>4
  <2> QED BY <2>1, <2>2, <2>3, <1>1, <1>2, <1>4 DEF RunInv, ResultsExact, Current
<1>7. WalkExact'
  BY <1>1, <1>2, <1>3, GraphStays DEF RunInv, WalkExact, Previewing
<1>8. ASSUME Previewing, Current = call.target
      PROVE  DOMAIN results' = upstream
  <2>1. /\ toVisit = {} /\ upstream \subseteq Ancestors(call.target)
        /\ upstream \in SUBSET Nodes
    BY <1>1, <1>8 DEF RunInv, WalkExact
  <2>2. \A n \in upstream : \E i \in 1 .. at : order[i] = n
    BY <2>1, <1>4, <1>8, AncestorsBefore DEF Current
  <2>3. at' - 1 = at
    BY <1>1, <1>4
  <2> QED BY <2>1, <2>2, <2>3, <1>6, <1>8 DEF Asked
<1>9. ResultsExact'
  <2>1. Previewing' = Previewing /\ call' = call /\ upstream' = upstream
    BY <1>1 DEF Previewing
  <2>2. (DOMAIN results)' = {n \in Nodes' : Asked(n)' /\ \E i \in 1 .. at' - 1 : order'[i] = n}
    BY <1>3, <1>5, <1>6, GraphStays
  <2>3. step' \in {"executing", "done"}
    BY <1>1, <1>2
  <2>4. step' = "done" => DOMAIN results' = IF Previewing THEN upstream ELSE Nodes
    BY <1>1, <1>2, <1>8
  <2>5. step' = "executing" /\ Previewing => call.target \notin DOMAIN results'
    BY <1>1, <1>2 DEF RunInv, ResultsExact
  <2> QED BY <2>1, <2>2, <2>3, <2>4, <2>5, <1>3, GraphStays DEF ResultsExact
<1> QED BY <1>1, <1>2, <1>3, <1>4, <1>7, <1>9, GraphStays DEF RunInv, Steps

\* A failing node leaves the results as they are.
LEMMA NodeRaisedInv == RunInv /\ NodeRaised => RunInv'
<1> SUFFICES ASSUME RunInv, NodeRaised PROVE RunInv'
  OBVIOUS
<1>1. /\ step = "executing" /\ step' = "failed" /\ at <= Len(order) /\ Asked(Current)
      /\ UNCHANGED <<kahnVars, call, toVisit, upstream, at, results>>
  BY DEF NodeRaised
<1>2. /\ KahnInv' /\ caller' = "runner" /\ UNCHANGED <<graph, order, phase>>
  BY <1>1, BuiltInv
<1>3. WalkExact'
  BY <1>1, <1>2, GraphStays DEF RunInv, WalkExact, Previewing
<1>4. ResultsExact'
  BY <1>1, <1>2, GraphStays DEF RunInv, ResultsExact, Previewing, Asked, Current
<1> QED BY <1>1, <1>2, <1>3, <1>4, GraphStays DEF RunInv, Steps

\* At the end of the order run() has a result for every node.
LEMMA FinishRunInv == RunInv /\ FinishRun => RunInv'
<1> SUFFICES ASSUME RunInv, FinishRun PROVE RunInv'
  OBVIOUS
<1>1. /\ step = "executing" /\ step' = "done" /\ ~Previewing /\ at > Len(order)
      /\ UNCHANGED <<kahnVars, call, toVisit, upstream, at, results>>
  BY DEF FinishRun
<1>2. /\ KahnInv' /\ caller' = "runner" /\ UNCHANGED <<graph, order, phase>>
      /\ Len(order) \in Nat /\ order \in Seq(Nodes)
  BY <1>1, BuiltInv
<1>3. WalkExact'
  BY <1>1, <1>2, GraphStays DEF RunInv, WalkExact, Previewing
<1>4. DOMAIN results = Nodes
  <2>1. at - 1 = Len(order) /\ Range(order) = Nodes /\ DOMAIN order = 1 .. Len(order)
    BY <1>1, <1>2, AcceptedOrder DEF RunInv
  <2>2. \A n \in Nodes : \E i \in 1 .. at - 1 : order[i] = n
    BY <2>1 DEF Range
  <2> QED BY <2>2, <1>1 DEF RunInv, ResultsExact, Asked
<1>5. ResultsExact'
  BY <1>1, <1>2, <1>4, GraphStays DEF RunInv, ResultsExact, Previewing, Asked
<1> QED BY <1>1, <1>2, <1>3, <1>5, GraphStays DEF RunInv, Steps

\* A retry starts from nothing.
LEMMA RetryInv == RunInv /\ Retry => RunInv'
<1> SUFFICES ASSUME RunInv, Retry PROVE RunInv'
  OBVIOUS
<1>1. /\ step' = "idle" /\ toVisit' = {} /\ upstream' = {} /\ at' = 1
      /\ DOMAIN results' = {} /\ UNCHANGED <<kahnVars, call>>
  BY DEF Retry, NoDict
<1>2. /\ KahnInv' /\ caller' = "runner" /\ UNCHANGED <<graph, order, phase>>
      /\ Len(order) \in Nat
  BY <1>1, BuiltInv
<1>3. WalkExact' /\ ResultsExact'
  BY <1>1 DEF WalkExact, ResultsExact
<1>4. at' \in 1 .. Len(order') + 1
  BY <1>1, <1>2
<1> QED BY <1>1, <1>2, <1>3, <1>4 DEF RunInv, Steps

\* Stuttering changes nothing.
LEMMA RunStutterInv == RunInv /\ UNCHANGED vars => RunInv'
<1> SUFFICES ASSUME RunInv, UNCHANGED vars PROVE RunInv'
  OBVIOUS
<1>1. UNCHANGED kahnVars /\ UNCHANGED <<call, step, toVisit, upstream, at, results>>
  BY DEF vars, runVars
<1>2. /\ KahnInv' /\ caller' = "runner" /\ UNCHANGED <<graph, order, phase>>
  BY <1>1, BuiltInv
<1>3. WalkExact'
  BY <1>1, <1>2, GraphStays DEF RunInv, WalkExact, Previewing
<1>4. ResultsExact'
  BY <1>1, <1>2, GraphStays DEF RunInv, ResultsExact, Previewing, Asked, Current
<1> QED BY <1>1, <1>2, <1>3, <1>4, GraphStays DEF RunInv, Steps

\* Every step of a request keeps the invariant.
LEMMA RunNextInv == RunInv /\ [Next]_vars => RunInv'
  BY BuildInv, StartInv, StartPreviewInv, VisitInv, EndVisitInv, SkipNodeInv,
     PandasNodeDone, NodeDoneInv, PandasNodeRaised, NodeRaisedInv, FinishRunInv,
     RetryInv, RunStutterInv
  DEF Next, RunStep

\* The inductive invariant of a request holds for every graph and connector.
THEOREM RunInvariant == Spec => []RunInv
<1>1. Init => RunInv
  BY RunInitInv
<1>2. RunInv /\ [Next]_vars => RunInv'
  BY RunNextInv
<1> QED BY <1>1, <1>2, PTL DEF Spec

-----------------------------------------------------------------------------
(***************************************************************************)
(* What a request may rely on                                              *)
(***************************************************************************)

\* The node the loop is at is one of the graph and has no result yet, but
\* all its sources have.
LEMMA SourcesThere ==
    ASSUME RunInv, step \in {"executing", "failed"}, at <= Len(order), Asked(Current)
    PROVE  /\ phase = "accepted" /\ at \in 1 .. Len(order) /\ Current \in Nodes
           /\ Current \notin DOMAIN results
           /\ Sources(Current) \subseteq DOMAIN results
<1>1. /\ phase = "accepted" /\ at \in 1 .. Len(order) /\ order \in Seq(Nodes)
      /\ Len(order) \in Nat /\ Current \in Nodes
  BY AcceptedOrder DEF RunInv, Current
<1>2. Current \notin DOMAIN results
  BY <1>1, AcceptedOrder DEF RunInv, ResultsExact, Current
<1>3. ASSUME NEW s \in Sources(Current) PROVE s \in DOMAIN results
  <2>1. PICK j \in 1 .. at - 1 : order[j] = s
    BY <1>1, AcceptedOrder DEF Current
  <2>2. s \in Nodes
    BY <1>1, AcceptedOrder
  <2>3. Asked(s)
    BY DEF RunInv, WalkExact, Asked
  <2> QED BY <2>1, <2>2, <2>3 DEF RunInv, ResultsExact
<1> QED BY <1>1, <1>2, <1>3

\* A node's sources have results when it is executed.
LEMMA InputsThere == RunInv => InputsAvailable
  BY SourcesThere DEF InputsAvailable

\* run() and preview() never meet a missing results[e.source].
THEOREM InputsAlwaysAvailable == Spec => []InputsAvailable
<1> QED BY InputsThere, RunInvariant, PTL

\* A preview's walk, once over, has found exactly the ancestors.
LEMMA UpstreamIsAncestors ==
    ASSUME RunInv, Previewing, step \in {"executing", "done", "failed"}
    PROVE  upstream = Ancestors(call.target)
<1>1. /\ upstream \in SUBSET Nodes /\ upstream \subseteq Ancestors(call.target)
      /\ call.target \in upstream /\ \A n \in upstream : Sources(n) \subseteq upstream
  BY DEF RunInv, WalkExact
<1>2. Ancestors(call.target) \subseteq upstream
  BY <1>1, AncestorsLeast
<1> QED BY <1>1, <1>2

\* So its results are those of the ancestors, all of them at the end.
LEMMA PreviewAncestors == RunInv => PreviewExecutesAncestors
<1> SUFFICES ASSUME RunInv, Previewing
             PROVE  /\ DOMAIN results \subseteq Ancestors(call.target)
                    /\ step = "done" => DOMAIN results = Ancestors(call.target)
  BY DEF PreviewExecutesAncestors
<1>1. CASE step \in {"executing", "done", "failed"}
  BY <1>1, UpstreamIsAncestors DEF RunInv, ResultsExact, Asked
<1>2. CASE step \notin {"executing", "done", "failed"}
  <2>1. at = 1 /\ 1 .. at - 1 = {}
    BY <1>2 DEF RunInv, ResultsExact
  <2> QED BY <2>1, <1>2 DEF RunInv, ResultsExact
<1> QED BY <1>1, <1>2

\* A preview executes the ancestors of its target and nothing else.
THEOREM PreviewIsExact == Spec => []PreviewExecutesAncestors
<1> QED BY PreviewAncestors, RunInvariant, PTL
-----------------------------------------------------------------------------
(***************************************************************************)
(* The runner implements DagRun                                            *)
(***************************************************************************)

\* What is wanted is settled when the request is made.
LEMMA WantedStays ==
    ASSUME UNCHANGED <<graph, call>>
    PROVE  Dag' = Dag /\ Wanted' = Wanted
<1>1. Nodes' = Nodes /\ (\A n : Sources(n)' = Sources(n)) /\ (\A n : Ancestors(n)' = Ancestors(n))
  BY GraphStays
<1>2. Dag' = Dag
  BY <1>1 DEF Dag
<1>3. Wanted' = Wanted
  BY <1>1 DEF Wanted, Previewing
<1> QED BY <1>2, <1>3

\* What a request wants is a self-contained graph without a cycle.
LEMMA WantedIsDag ==
    ASSUME RunInv, phase = "accepted"
    PROVE  Promise!SelfContained /\ Promise!Acyclic
<1>1. /\ Wanted \subseteq Nodes
      /\ \A n \in Wanted : Sources(n) \subseteq Wanted
  BY AcceptedOrder, AncestorsClosed DEF Wanted, Ancestors
<1>2. Promise!SelfContained
  BY <1>1 DEF Promise!SelfContained, Dag
<1>3. ASSUME NEW S \in SUBSET Wanted, S # {}
      PROVE  \E n \in S : Dag[n] \cap S = {}
  <2>1. ~PredecessorClosed(S)
    BY <1>1, <1>3, AcceptedAcyclic DEF RunInv, AcceptedIsAcyclic, Cyclic
  <2>2. PICK n \in S : \A k \in InEdges(n) : Source(k) \notin S
    BY <2>1, <1>3 DEF PredecessorClosed
  <2> QED BY <2>2, <1>1, <1>3 DEF Dag, Sources
<1>4. Promise!Acyclic
  BY <1>3 DEF Promise!Acyclic
<1> QED BY <1>2, <1>4

\* The node whose turn it is is wanted, new, and has its predecessors done.
LEMMA CurrentEnabled ==
    ASSUME RunInv, step = "executing", at <= Len(order), Asked(Current)
    PROVE  Current \in Wanted /\ Promise!Enabled(Current)
<1>1. /\ phase = "accepted" /\ at \in 1 .. Len(order) /\ order \in Seq(Nodes)
      /\ Len(order) \in Nat /\ Current \in Nodes
  BY AcceptedOrder DEF RunInv, Current
<1>2. Current \in Wanted
  BY <1>1, UpstreamIsAncestors DEF Wanted, Asked
<1>3. Current \notin DOMAIN results
  BY <1>1, AcceptedOrder DEF RunInv, ResultsExact, Current
<1>4. Dag[Current] \subseteq DOMAIN results
  BY <1>1, InputsThere DEF InputsAvailable, Dag
<1> QED BY <1>2, <1>3, <1>4 DEF Promise!Enabled

\* A request begins as a submitted one.
LEMMA PromiseInit == Init => Promise!DagInit
  BY DEF Init, KahnInit, NoDict, Promise!DagInit, Status

\* Building the runner is refusing the request or no step at all.
LEMMA PromiseBuild == RunInv /\ Build => [Promise!DagNext]_(Promise!dagVars)
<1> SUFFICES ASSUME RunInv, Build PROVE [Promise!DagNext]_(Promise!dagVars)
  OBVIOUS
<1>1. /\ UNCHANGED <<graph, call, step, results>>
      /\ phase \notin {"accepted", "cycle", "unknown_node"}
  BY DEF Build, runVars, KahnNext, RejectUnknownNode, CountIndegrees, ScanNode, EndScan,
     PopReady, RelaxEdge, Accept, RaiseCycleError
<1>2. step = "idle" /\ step' = "idle" /\ Dag' = Dag /\ Wanted' = Wanted
      /\ (DOMAIN results)' = DOMAIN results
  BY <1>1, WantedStays DEF RunInv
<1>3. Status = "submitted" /\ Status' \in {"submitted", "refused"}
  BY <1>1, <1>2 DEF Status
<1> QED BY <1>2, <1>3 DEF Promise!DagNext, Promise!Refuse, Promise!dagVars

\* Starting is starting, refusing is refusing, the walk is no step.
LEMMA PromiseStart ==
    RunInv /\ (StartRun \/ RejectUnknownTarget \/ StartPreview \/ Visit \/ EndVisit)
        => [Promise!DagNext]_(Promise!dagVars)
<1> SUFFICES ASSUME RunInv,
                    StartRun \/ RejectUnknownTarget \/ StartPreview \/ Visit \/ EndVisit
             PROVE  [Promise!DagNext]_(Promise!dagVars)
  OBVIOUS
<1>1. /\ phase = "accepted" /\ phase' = phase
      /\ UNCHANGED <<graph, call, results>>
      /\ \/ step = "idle" /\ step' \in {"executing", "refused", "visiting"}
         \/ step = "visiting" /\ step' \in {"visiting", "executing"}
  BY DEF StartRun, RejectUnknownTarget, StartPreview, Visit, EndVisit, kahnVars, RunInv
<1>2. Dag' = Dag /\ Wanted' = Wanted /\ (DOMAIN results)' = DOMAIN results
  BY <1>1, WantedStays
<1>3. /\ Status = "submitted"
      /\ Status' \in {"submitted", "running", "refused"}
  BY <1>1 DEF Status
<1> QED BY <1>1, <1>2, <1>3, WantedIsDag
    DEF Promise!DagNext, Promise!Refuse, Promise!Start, Promise!dagVars

\* Executing a node finishes its task.
LEMMA PromiseExecute == RunInv /\ NodeDone => [Promise!DagNext]_(Promise!dagVars)
<1> SUFFICES ASSUME RunInv, NodeDone PROVE Promise!FinishTask
  BY DEF Promise!DagNext
<1>1. /\ step = "executing" /\ at <= Len(order) /\ Asked(Current)
      /\ UNCHANGED <<kahnVars, call, toVisit, upstream>>
      /\ DOMAIN results' = DOMAIN results \cup {Current}
      /\ IF Previewing /\ Current = call.target THEN step' = "done" ELSE UNCHANGED step
  BY DEF NodeDone
<1>2. /\ UNCHANGED <<graph, phase>> /\ phase = "accepted"
  BY <1>1 DEF kahnVars, RunInv
<1>3. Dag' = Dag /\ Wanted' = Wanted
  BY <1>1, <1>2, WantedStays
<1>4. Status = "running" /\ Status' = IF step' = "done" THEN "succeeded" ELSE "running"
  BY <1>1, <1>2 DEF Status
<1>5. step' = "done" => DOMAIN results' = Wanted
  <2>1. RunInv'
    BY NodeDoneInv
  <2>2. step' = "done" => DOMAIN results' = upstream /\ Previewing
    BY <2>1, <1>1 DEF RunInv, ResultsExact, Previewing
  <2> QED BY <2>2, <1>1, UpstreamIsAncestors DEF Wanted
<1>6. Current \in Wanted /\ Promise!Enabled(Current)
  BY <1>1, CurrentEnabled
<1> QED BY <1>1, <1>3, <1>4, <1>5, <1>6 DEF Promise!FinishTask

\* A failing node is a failing task.
LEMMA PromiseFail == RunInv /\ NodeRaised => [Promise!DagNext]_(Promise!dagVars)
<1> SUFFICES ASSUME RunInv, NodeRaised PROVE Promise!FailTask
  BY DEF Promise!DagNext
<1>1. /\ step = "executing" /\ step' = "failed" /\ at <= Len(order) /\ Asked(Current)
      /\ UNCHANGED <<kahnVars, call, results>>
  BY DEF NodeRaised
<1>2. UNCHANGED <<graph, phase>> /\ phase = "accepted"
  BY <1>1 DEF kahnVars, RunInv
<1>3. Dag' = Dag /\ Wanted' = Wanted /\ (DOMAIN results)' = DOMAIN results
  BY <1>1, <1>2, WantedStays
<1>4. Status = "running" /\ Status' = "failed"
  BY <1>1, <1>2 DEF Status
<1> QED BY <1>1, <1>3, <1>4, CurrentEnabled DEF Promise!FailTask

\* The end of the order is the end of the wanted tasks.
LEMMA PromiseFinish == RunInv /\ FinishRun => [Promise!DagNext]_(Promise!dagVars)
<1> SUFFICES ASSUME RunInv, FinishRun PROVE Promise!Succeed
  BY DEF Promise!DagNext
<1>1. /\ step = "executing" /\ step' = "done" /\ ~Previewing
      /\ UNCHANGED <<kahnVars, call, results>>
  BY DEF FinishRun
<1>2. UNCHANGED <<graph, phase>> /\ phase = "accepted"
  BY <1>1 DEF kahnVars, RunInv
<1>3. Dag' = Dag /\ Wanted' = Wanted /\ (DOMAIN results)' = DOMAIN results
  BY <1>1, <1>2, WantedStays
<1>4. Status = "running" /\ Status' = "succeeded"
  BY <1>1, <1>2 DEF Status
<1>5. DOMAIN results = Wanted
  <2>1. RunInv'
    BY FinishRunInv
  <2>2. (DOMAIN results)' = Nodes'
    BY <2>1, <1>1 DEF RunInv, ResultsExact, Previewing
  <2> QED BY <2>2, <1>1, <1>2, <1>3, GraphStays DEF Wanted
<1> QED BY <1>3, <1>4, <1>5 DEF Promise!Succeed

\* Trying again is submitting again.
LEMMA PromiseRetry == RunInv /\ Retry => [Promise!DagNext]_(Promise!dagVars)
<1> SUFFICES ASSUME RunInv, Retry PROVE Promise!Resubmit
  BY DEF Promise!DagNext
<1>1. /\ step \in {"done", "failed"} /\ step' = "idle" /\ DOMAIN results' = {}
      /\ UNCHANGED <<kahnVars, call>>
  BY DEF Retry, NoDict
<1>2. UNCHANGED <<graph, phase>> /\ phase = "accepted"
  BY <1>1 DEF kahnVars, RunInv
<1>3. Dag' = Dag /\ Wanted' = Wanted
  BY <1>1, <1>2, WantedStays
<1>4. Status \in {"succeeded", "failed"} /\ Status' = "submitted"
  BY <1>1, <1>2 DEF Status
<1> QED BY <1>1, <1>3, <1>4 DEF Promise!Resubmit

\* A skipped node and a stuttering step are no step of DagRun.
LEMMA PromiseSkip == RunInv /\ (SkipNode \/ UNCHANGED vars) => UNCHANGED Promise!dagVars
<1> SUFFICES ASSUME RunInv, SkipNode \/ UNCHANGED vars PROVE UNCHANGED Promise!dagVars
  OBVIOUS
<1>1. UNCHANGED <<graph, phase, call, step, results>>
  BY DEF SkipNode, vars, kahnVars, runVars
<1> QED BY <1>1, WantedStays DEF Promise!dagVars, Status

\* Every step of a request is a step of DagRun or none.
LEMMA PromiseNext == RunInv /\ [Next]_vars => [Promise!DagNext]_(Promise!dagVars)
  BY PromiseBuild, PromiseStart, PandasNodeDone, PromiseExecute, PandasNodeRaised,
     PromiseFail, PromiseFinish, PromiseRetry, PromiseSkip DEF Next, RunStep

\* The runner implements the abstract promise.
THEOREM RunnerKeepsPromise == Spec => KeepsPromise
<1>1. Init => Promise!DagInit
  BY PromiseInit
<1>2. RunInv /\ [Next]_vars => [Promise!DagNext]_(Promise!dagVars)
  BY PromiseNext
<1> QED BY <1>1, <1>2, RunInvariant, PTL DEF Spec, KeepsPromise, Promise!DagSpec

-----------------------------------------------------------------------------
(***************************************************************************)
(* Frames keep their type                                                  *)
(***************************************************************************)

\* What is known of a graph that was submitted.
LEMMA GraphKnown ==
    ASSUME RunInv
    PROVE  /\ graph.edges \in Seq(Edge)
           /\ DOMAIN graph.edges \subseteq DOMAIN InputName
           /\ \A n \in Nodes : Built(graph.def[n]) /\ graph.def[n].kind \in Kinds
<1>1. graph \in Graphs
  BY DEF RunInv, KahnInv, KahnTypeOK
<1>2. \A n \in Nodes : Built(graph.def[n])
  BY <1>1, RunnerAssumption DEF Nodes
<1> QED BY <1>1, <1>2, GraphsAssumption, RunnerAssumption DEF Built

\* What a node is handed is as many frames as it has ports, of the type of
\* the frames they are taken from.
LEMMA GatheredTyped ==
    ASSUME RunInv, NEW n, NEW F, NEW d, \A s \in Sources(n) : d[s] \in F
    PROVE  /\ Ports(n) \in Seq(Port) /\ Gathered(n, d) \in Seq(F)
           /\ Len(Ports(n)) = Len(Gathered(n, d))
<1> DEFINE N == Len(graph.edges)
           p == [k \in EdgeIndices |-> graph.edges[k].port]
           f == [k \in EdgeIndices |-> d[Source(k)]]
<1>1. EdgeIndices = 1 .. N /\ N \in Nat
  BY GraphKnown DEF EdgeIndices
<1>2. \A k \in 1 .. N : graph.edges[k].port \in Port
  <2>1. \A k \in 1 .. N : graph.edges[k] \in Edge
    BY GraphKnown
  <2> QED BY <2>1 DEF Edge
<1>3. \A k \in 1 .. N : k \in InEdges(n) => d[Source(k)] \in F
  BY DEF Sources
<1>4. Ports(n) = FlattenSeq([k \in 1 .. N |-> IF k \in InEdges(n) THEN <<p[k]>> ELSE <<>>])
  BY <1>1 DEF Ports, Taken
<1>5. Gathered(n, d) = FlattenSeq([k \in 1 .. N |-> IF k \in InEdges(n) THEN <<f[k]>> ELSE <<>>])
  <2>1. [k \in 1 .. N |-> IF k \in InEdges(n) THEN <<f[k]>> ELSE <<>>]
          = [k \in EdgeIndices |-> IF k \in InEdges(n) THEN <<d[Source(k)]>> ELSE <<>>]
    BY <1>1
  <2> QED BY <2>1 DEF Gathered
<1>6. \A k \in 1 .. N : p[k] \in Port /\ (k \in InEdges(n) => f[k] \in F)
  BY <1>1, <1>2, <1>3
<1> HIDE DEF p, f, N
<1>7. Ports(n) \in Seq(Port)
  BY <1>1, <1>4, <1>6, ChosenTyped
<1>8. Gathered(n, d) \in Seq(F)
  BY <1>1, <1>5, <1>6, ChosenTyped
<1>9. Len(Ports(n)) = Len(Gathered(n, d))
  <2>1. Len(FlattenSeq([k \in 1 .. N |-> IF k \in InEdges(n) THEN <<p[k]>> ELSE <<>>]))
          = Len(FlattenSeq([k \in 1 .. N |-> IF k \in InEdges(n) THEN <<f[k]>> ELSE <<>>]))
    BY ONLY <1>1, ChosenLen
  <2> QED BY ONLY <2>1, <1>4, <1>5
<1> QED BY <1>7, <1>8, <1>9

\* The frames a node is handed are its sources', every source's among them,
\* at places that do not depend on what the frames are.
GathersSources(n) ==
    \E m \in Nat : \E s \in [1 .. m -> Sources(n)] :
        /\ \A x \in Sources(n) : \E p \in 1 .. m : s[p] = x
        /\ \A d : Gathered(n, d) = [p \in 1 .. m |-> d[s[p]]]

\* That is so for every node.
LEMMA GatheredIs ==
    ASSUME RunInv, NEW n
    PROVE  GathersSources(n)
<1> DEFINE N == Len(graph.edges)
           In == InEdges(n)
           id == [k \in 1 .. N |-> k]
           places == Chosen(N, In, id)
           m == Len(places)
           s == [p \in 1 .. m |-> Source(places[p])]
<1>1. EdgeIndices = 1 .. N /\ In \subseteq 1 .. N
  BY GraphKnown DEF EdgeIndices, InEdges
<1>0. N \in Nat
  BY GraphKnown
<1>9. \A k \in 1 .. N : id[k] = k
  OBVIOUS
<1> HIDE DEF N, In, id
<1>2. places \in Seq(In \cap 1 .. N) /\ \A k \in In \cap 1 .. N : \E p \in DOMAIN places : places[p] = k
  <2>1. Enumerates(places, In \cap 1 .. N)
    BY ONLY <1>0, <1>9, ChosenPositions
  <2> QED BY <2>1 DEF Enumerates
<1> USE DEF N, In
<1>3. ASSUME NEW d PROVE Gathered(n, d) = [p \in DOMAIN places |-> d[Source(places[p])]]
  <2> DEFINE v == [k \in 1 .. N |-> d[Source(k)]]
  <2>1. [k \in 1 .. N |-> IF k \in In THEN <<v[k]>> ELSE <<>>]
          = [k \in EdgeIndices |-> IF k \in In THEN <<d[Source(k)]>> ELSE <<>>]
    BY <1>1
  <2>2. Gathered(n, d) = Chosen(N, In, v)
    BY <2>1 DEF Gathered, Chosen
  <2>3. \A k \in 1 .. N : v[k] = d[Source(k)]
    OBVIOUS
  <2> HIDE DEF N, In, v
  <2>4. Chosen(N, In, v) = [p \in DOMAIN places |-> v[places[p]]]
    <3>1. Chosen(N, In, v) = Through(v, places)
      BY ONLY <1>0, <1>9, ChosenPositions
    <3> QED BY <3>1 DEF Through
  <2> HIDE DEF places
  <2>5. \A p \in DOMAIN places : places[p] \in 1 .. N
    BY <1>2
  <2> QED BY <2>2, <2>3, <2>4, <2>5
<1> HIDE DEF places
<1>4. DOMAIN places = 1 .. m /\ m \in Nat
  BY <1>2
<1>5. \A p \in 1 .. m : places[p] \in In
  BY <1>2, <1>4
<1> HIDE DEF m
<1>6. s \in [1 .. m -> Sources(n)]
  BY <1>5 DEF Sources
<1>7. ASSUME NEW x \in Sources(n) PROVE \E p \in 1 .. m : s[p] = x
  <2>1. PICK k \in In : Source(k) = x
    BY DEF Sources
  <2>2. PICK p \in 1 .. m : places[p] = k
    BY <1>1, <1>2, <1>4
  <2> QED BY <2>1, <2>2
<1>8. \A d : Gathered(n, d) = [p \in 1 .. m |-> d[s[p]]]
  BY <1>3, <1>4
<1> HIDE DEF s
<1> QED BY <1>4, <1>6, <1>7, <1>8 DEF GathersSources

\* A node makes a frame of frames and of a store of frames.
LEMMA ComputedTyped ==
    ASSUME RunInv, NEW n \in Nodes, NEW d, \A s \in Sources(n) : d[s] \in FrameSet,
           NEW b, b \in [DOMAIN b -> FrameSet], Computed(n, d, b).ok
    PROVE  Computed(n, d, b).frame \in FrameSet
<1> DEFINE inputs == Route(Ports(n), Gathered(n, d))
<1>1. inputs.frames \in Seq(FrameSet) /\ DOMAIN inputs.names = DOMAIN inputs.frames
  BY GatheredTyped, RouteTyped
<1>2. PICK m \in Nat : DOMAIN inputs.frames = 1 .. m
  <2> HIDE DEF inputs
  <2> QED BY <1>1
<1>3. Built(graph.def[n])
  BY GraphKnown
<1>4. Computed(n, d, b) = Execute(graph.def[n], inputs, b)
  BY DEF Computed
<1> HIDE DEF inputs
<1> QED BY <1>1, <1>2, <1>3, <1>4, ExecuteTyped

\* Where the loop is when a node's turn has come.
LEMMA AtTurn ==
    ASSUME RunInv, step = "executing", at <= Len(order), Asked(Current)
    PROVE  /\ phase = "accepted" /\ at \in 1 .. Len(order) /\ Current \in Nodes
           /\ Sources(Current) \subseteq DOMAIN results
           /\ Sources(Current) \subseteq Nodes
           /\ Current \notin DOMAIN results
           /\ Len(order) \in Nat /\ order \in Seq(Nodes)
<1>1. /\ phase = "accepted" /\ at \in 1 .. Len(order) /\ Current \in Nodes
      /\ Current \notin DOMAIN results /\ Sources(Current) \subseteq DOMAIN results
  BY SourcesThere
<1>2. order \in Seq(Nodes) /\ Len(order) \in Nat /\ Sources(Current) \subseteq Nodes
  BY <1>1, AcceptedOrder
<1> QED BY <1>1, <1>2

\* A node comes to what its sources' results and the store make of it.
LEMMA ExecutedIs == \A n : Executed(n) = {Computed(n, results, store)}
  BY DEF Executed, Computed, Frames

\* The outcome of the node whose turn it is, in the words of the invariant.
LEMMA ExecuteNodeFacts ==
    ASSUME ExecuteNode
    PROVE  /\ step = "executing" /\ at <= Len(order) /\ Asked(Current) /\ at' = at + 1
           /\ UNCHANGED <<kahnVars, call, toVisit, upstream, before, runs>>
           /\ Computed(Current, results, store).ok
           /\ results' = Put(results, Current, Computed(Current, results, store).frame)
           /\ WriteThrough(Current, Computed(Current, results, store).frame)
           /\ logs' = IF Previewing THEN logs
                      ELSE Append(logs, NodeLog(Current, "succeeded", Len(Computed(Current, results, store).frame.rows)))
           /\ IF Previewing /\ Current = call.target
              THEN step' = "done" /\ output' = HeadRows(Computed(Current, results, store).frame.rows, Limit)
              ELSE UNCHANGED <<step, output>>
  BY ExecutedIs DEF ExecuteNode

\* The same for a node that raises.
LEMMA FailNodeFacts ==
    ASSUME FailNode
    PROVE  /\ step = "executing" /\ at <= Len(order) /\ Asked(Current)
           /\ ~Computed(Current, results, store).ok
           /\ step' = "failed"
           /\ logs' = IF Previewing THEN logs ELSE Append(logs, NodeLog(Current, "failed", 0))
           /\ UNCHANGED <<kahnVars, call, toVisit, upstream, at, results, output, store, before, runs>>
  BY ExecutedIs DEF FailNode

\* The steps that are not about frames.
Quiet ==
    \/ Build \/ StartRun \/ RejectUnknownTarget \/ StartPreview
    \/ Visit \/ EndVisit \/ SkipNode \/ FinishRun \/ UNCHANGED vars

\* What a quiet step leaves alone.
LEMMA QuietFacts ==
    ASSUME RunInv, Quiet
    PROVE  /\ UNCHANGED <<graph, call, results, logs, output, store, before, runs>>
           /\ step' = "failed" => step = "failed"
           /\ step \in {"done", "failed"} => UNCHANGED <<order, at, step>>
           /\ DOMAIN results = {} \/ UNCHANGED order
           /\ ~Previewing => UNCHANGED at
           /\ ~Previewing /\ step' = "done" => step = "done" \/ at > Len(order)
<1>1. CASE Build
  <2>1. /\ UNCHANGED runVars /\ UNCHANGED graph /\ phase # "accepted"
    BY <1>1 DEF Build, KahnNext, RejectUnknownNode, CountIndegrees,
       ScanNode, EndScan, PopReady, RelaxEdge, Accept, RaiseCycleError
  <2>2. step = "idle" /\ at = 1 /\ 1 .. at - 1 = {}
    BY <2>1 DEF RunInv, ResultsExact
  <2>3. DOMAIN results = {}
    BY <2>2 DEF RunInv, ResultsExact
  <2> QED BY <2>1, <2>2, <2>3 DEF runVars
<1>2. CASE StartRun \/ RejectUnknownTarget \/ StartPreview \/ Visit \/ EndVisit
  BY <1>2 DEF StartRun, RejectUnknownTarget, StartPreview, Visit, EndVisit, kahnVars
<1>3. CASE SkipNode
  BY <1>3 DEF SkipNode, kahnVars, Asked
<1>4. CASE FinishRun
  BY <1>4 DEF FinishRun, kahnVars
<1>5. CASE UNCHANGED vars
  BY <1>5 DEF vars, kahnVars, runVars
<1> QED BY <1>1, <1>2, <1>3, <1>4, <1>5 DEF Quiet

\* A step is quiet, or executes a node, or fails at one, or starts again.
LEMMA StepKinds == [Next]_vars => Quiet \/ ExecuteNode \/ FailNode \/ Retry
  BY DEF Next, RunStep, Quiet

\* A connector holds frames when the request starts.
LEMMA FramesInit == Init => FramesTyped
<1> SUFFICES ASSUME Init PROVE FramesTyped
  OBVIOUS
<1>1. store \in [DOMAIN store -> FrameSet] /\ before = store
  BY RunnerAssumption DEF Init
<1>2. DOMAIN results = {} /\ output = <<>>
  BY DEF Init, NoDict, NoRows
<1> QED BY <1>1, <1>2 DEF FramesTyped

\* A request stays the one it is, and is made within the bound.
LEMMA RequestNext == RequestKnown /\ [Next]_vars => RequestKnown'
<1> SUFFICES ASSUME RequestKnown, [Next]_vars PROVE RequestKnown'
  OBVIOUS
<1>1. CASE UNCHANGED <<call, runs>>
  BY <1>1 DEF RequestKnown
<1>2. CASE Retry
  BY <1>2, RunnerAssumption DEF Retry, RequestKnown
<1>3. Retry \/ UNCHANGED <<call, runs>>
  BY DEF Next, RunStep, Build, runVars, vars, StartRun, RejectUnknownTarget, StartPreview,
     Visit, EndVisit, SkipNode, ExecuteNode, FailNode, FinishRun
<1> QED BY <1>1, <1>2, <1>3

\* Frames are made of frames, and kept where frames are kept.
LEMMA FramesNext == RunInv /\ RequestKnown /\ FramesTyped /\ [Next]_vars => FramesTyped'
<1> SUFFICES ASSUME RunInv, RequestKnown, FramesTyped, [Next]_vars PROVE FramesTyped'
  OBVIOUS
<1>1. CASE Quiet
  BY <1>1, QuietFacts DEF FramesTyped
<1>2. CASE ExecuteNode
  <2> DEFINE n == Current
             frame == Computed(n, results, store).frame
  <2>1. frame \in FrameSet
    <3>1. n \in Nodes /\ \A s \in Sources(n) : results[s] \in FrameSet
      BY <1>2, ExecuteNodeFacts, AtTurn DEF FramesTyped
    <3> QED BY <3>1, <1>2, ExecuteNodeFacts, ComputedTyped DEF FramesTyped
  <2> HIDE DEF frame
  <2>2. \A m \in DOMAIN results' : results'[m] \in FrameSet
    <3>1. results' = Put(results, n, frame)
      BY <1>2, ExecuteNodeFacts DEF frame
    <3> QED BY <2>1, <3>1 DEF FramesTyped, Put
  <2>3. store' \in [DOMAIN store' -> FrameSet]
    <3>1. store' = store \/ \E k : store' = Put(store, k, frame)
      BY <1>2, ExecuteNodeFacts DEF frame, WriteThrough
    <3> QED BY <2>1, <3>1 DEF FramesTyped, Put
  <2>4. output' \in Seq(Row)
    <3>1. output' = output \/ output' = HeadRows(frame.rows, Limit)
      BY <1>2, ExecuteNodeFacts DEF frame
    <3>2. Limit \in Int
      <4>1. call.limit \in Int /\ MaxPreview \in Int
        BY RunnerAssumption DEF RequestKnown
      <4> QED BY <4>1, MinOfTwo DEF Limit
    <3>3. frame.rows \in Seq(Row)
      BY <2>1 DEF FrameSet
    <3> QED BY <3>1, <3>2, <3>3, HeadRowsTyped DEF FramesTyped
  <2>5. before' = before
    BY <1>2, ExecuteNodeFacts
  <2> QED BY <2>2, <2>3, <2>4, <2>5 DEF FramesTyped
<1>3. CASE FailNode
  BY <1>3, FailNodeFacts DEF FramesTyped
<1>4. CASE Retry
  BY <1>4 DEF FramesTyped, Retry, NoDict, NoRows
<1> QED BY <1>1, <1>2, <1>3, <1>4, StepKinds

-----------------------------------------------------------------------------
(***************************************************************************)
(* The log                                                                 *)
(***************************************************************************)

\* The request is one of those made.
LEMMA RequestInit == Init => RequestKnown
  BY RunnerAssumption DEF Init, RequestKnown

\* A log starts empty.
LEMMA LogInit == Init => LogGrows
  BY DEF Init, LogGrows

\* What a node adds to the log, whatever the engine and whatever the frames.
LogsNode(status) ==
    \E m \in Nat : logs' = IF Previewing THEN logs ELSE Append(logs, NodeLog(Current, status, m))

\* A node adds its entry, at its place in the order.
LEMMA LogNode ==
    ASSUME RunInv, LogGrows, NEW status \in {"succeeded", "failed"}, LogsNode(status),
           step = "executing", at <= Len(order), Asked(Current), UNCHANGED <<kahnVars, call>>,
           at' = IF status = "failed" THEN at ELSE at + 1,
           step' = "failed" <=> status = "failed",
           step' = "done" => Previewing
    PROVE  LogGrows'
<1> DEFINE Entry == [node : Nodes, status : {"succeeded", "failed"}, rows : Nat]
<1>1. /\ Nodes' = Nodes /\ order' = order /\ call' = call /\ Previewing' = Previewing
  BY GraphStays DEF kahnVars, Previewing
<1>2. logs \in Seq(Entry)
  BY DEF LogGrows
<1>3. PICK m \in Nat : logs' = IF Previewing THEN logs ELSE Append(logs, NodeLog(Current, status, m))
  BY DEF LogsNode
<1>4. NodeLog(Current, status, m) \in Entry /\ at \in Nat
  BY AtTurn DEF NodeLog
<1>5. CASE Previewing
  BY <1>1, <1>2, <1>3, <1>5 DEF LogGrows
<1>6. CASE ~Previewing
  <2> DEFINE e == NodeLog(Current, status, m)
  <2>1. e.node = order[at] /\ e.status = status
    BY DEF NodeLog, Current
  <2>2. Len(logs) = at - 1
    BY <1>6 DEF LogGrows
  <2>3. \A i \in DOMAIN logs : logs[i].node = order[i] /\ logs[i].status = "succeeded"
    BY DEF LogGrows
  <2>4. logs' = Append(logs, e)
    BY <1>3, <1>6
  <2>5. e \in Entry
    BY <1>4
  <2> HIDE DEF e, Entry
  <2>6. /\ logs' \in Seq(Entry) /\ Len(logs') = at /\ DOMAIN logs' = 1 .. at /\ logs'[at] = e
        /\ \A i \in 1 .. at - 1 : logs'[i] = logs[i] /\ i \in DOMAIN logs
    BY <1>2, <1>4, <2>2, <2>4, <2>5, AppendFacts
  <2>7. ASSUME NEW i \in DOMAIN logs'
        PROVE  /\ logs'[i].node = order[i]
               /\ logs'[i].status = IF step' = "failed" /\ i = Len(logs') THEN "failed" ELSE "succeeded"
    <3>1. CASE i = at
      BY <2>1, <2>6, <3>1
    <3>2. CASE i # at
      <4>1. i \in 1 .. at - 1
        BY <1>4, <2>6, <3>2
      <4> QED BY <2>3, <2>6, <4>1, <3>2
    <3> QED BY <3>1, <3>2
  <2>8. Len(logs') = IF step' = "failed" THEN at' ELSE at' - 1
    BY <1>4, <2>6
  <2> QED BY <1>1, <1>6, <2>6, <2>7, <2>8 DEF LogGrows, Entry
<1> QED BY <1>5, <1>6

\* Nothing else adds one.
LEMMA LogQuiet == RunInv /\ LogGrows /\ Quiet => LogGrows'
<1> SUFFICES ASSUME RunInv, LogGrows, Quiet PROVE LogGrows'
  OBVIOUS
<1>1. /\ Nodes' = Nodes /\ logs' = logs /\ Previewing' = Previewing
      /\ (step' = "failed" => step = "failed")
      /\ (step = "failed" => UNCHANGED <<at, step>>)
  BY QuietFacts, GraphStays DEF Previewing
<1>2. CASE Previewing
  BY <1>1, <1>2 DEF LogGrows
<1>3. CASE ~Previewing
  <2>1. at' = at
    BY <1>3, QuietFacts
  <2>2. Len(logs) # 0 => order' = order
    <3>1. ASSUME DOMAIN results = {} PROVE at = 1 \/ order' = order
      <4>1. at # 1 => step \in {"executing", "done", "failed"}
        BY DEF RunInv, ResultsExact
      <4>2. phase = "accepted" => UNCHANGED order
        BY DEF Quiet, Build, KahnNext, RejectUnknownNode, CountIndegrees, ScanNode, EndScan,
           PopReady, RelaxEdge, Accept, RaiseCycleError, kahnVars, StartRun, StartPreview,
           RejectUnknownTarget, Visit, EndVisit, SkipNode, FinishRun, vars
      <4> QED BY <4>1, <4>2 DEF RunInv
    <3>2. step # "failed" /\ at = 1 => Len(logs) = 0
      BY <1>3 DEF LogGrows
    <3>3. step = "failed" => UNCHANGED order
      BY QuietFacts
    <3> QED BY <3>1, <3>2, <3>3, QuietFacts
  <2>3. \A i \in DOMAIN logs : order'[i] = order[i]
    <3>1. Len(logs) = 0 => DOMAIN logs = {}
      BY DEF LogGrows
    <3> QED BY <2>2, <3>1
  <2>4. step' = "done" => at' = Len(order') + 1
    <3>1. step' = "done" => step = "done" \/ at > Len(order)
      BY <1>3, QuietFacts
    <3>2. step = "done" => at = Len(order) + 1 /\ UNCHANGED order
      BY <1>3, QuietFacts DEF LogGrows
    <3>3. at > Len(order) => at = Len(order) + 1
      <4>1. order \in Seq(Nodes)
        BY DEF RunInv, KahnInv, KahnTypeOK
      <4> QED BY <4>1 DEF RunInv
    <3>4. step' = "done" /\ step # "done" => UNCHANGED order
      BY DEF Quiet, Build, runVars, StartRun, StartPreview, kahnVars,
           RejectUnknownTarget, Visit, EndVisit, SkipNode, FinishRun, vars
    <3> QED BY <2>1, <3>1, <3>2, <3>3, <3>4
  <2> QED BY <1>1, <1>3, <2>1, <2>3, <2>4 DEF LogGrows
<1> QED BY <1>2, <1>3

\* A log grows with the order.
LEMMA LogNext ==
    RunInv /\ RequestKnown /\ FramesTyped /\ LogGrows /\ [Next]_vars => LogGrows'
<1> SUFFICES ASSUME RunInv, RequestKnown, FramesTyped, LogGrows, [Next]_vars PROVE LogGrows'
  OBVIOUS
<1>1. CASE Quiet
  BY <1>1, LogQuiet
<1>2. CASE ExecuteNode
  <2> DEFINE frame == Computed(Current, results, store).frame
  <2>1. results' = Put(results, Current, frame)
    BY <1>2, ExecuteNodeFacts
  <2>2. results'[Current] = frame /\ Current \in DOMAIN results'
    BY <2>1 DEF Put
  <2>3. FramesTyped'
    BY FramesNext
  <2>4. \A n \in DOMAIN results' : results'[n] \in FrameSet
    BY <2>3 DEF FramesTyped
  <2>5. Len(frame.rows) \in Nat
    BY <2>2, <2>4 DEF FrameSet
  <2>6. logs' = IF Previewing THEN logs ELSE Append(logs, NodeLog(Current, "succeeded", Len(frame.rows)))
    BY <1>2, ExecuteNodeFacts
  <2>7. LogsNode("succeeded")
    BY <2>5, <2>6 DEF LogsNode
  <2>8. /\ step = "executing" /\ at <= Len(order) /\ Asked(Current) /\ at' = at + 1
        /\ UNCHANGED <<kahnVars, call>>
        /\ step' # "failed" /\ (step' = "done" => Previewing)
    BY <1>2, ExecuteNodeFacts
  <2> QED BY <2>7, <2>8, LogNode
<1>3. CASE FailNode
  <2>1. LogsNode("failed")
    BY <1>3, FailNodeFacts DEF LogsNode
  <2> QED BY <1>3, <2>1, FailNodeFacts, LogNode
<1>4. CASE Retry
  <2>1. /\ logs' = <<>> /\ step' = "idle" /\ at' = 1
    BY <1>4 DEF Retry
  <2> QED BY <2>1 DEF LogGrows
<1> QED BY <1>1, <1>2, <1>3, <1>4, StepKinds

\* Such a log tells which nodes have results.
LEMMA LogIsExact == RunInv /\ LogGrows => LogExact
<1> SUFFICES ASSUME RunInv, LogGrows, ~Previewing
             PROVE  /\ {logs[i].node : i \in {j \in DOMAIN logs : logs[j].status = "succeeded"}}
                         = DOMAIN results
                    /\ \A i \in DOMAIN logs : logs[i].node = order[i]
                    /\ \A i \in DOMAIN logs : logs[i].status = "failed" <=>
                                              i = Len(logs) /\ step = "failed"
                    /\ step = "done" => Len(logs) = Len(order)
  BY DEF LogExact
<1>1. /\ logs \in Seq([node : Nodes, status : {"succeeded", "failed"}, rows : Nat])
      /\ Len(logs) = IF step = "failed" THEN at ELSE at - 1
      /\ \A i \in DOMAIN logs :
           /\ logs[i].node = order[i]
           /\ logs[i].status = IF step = "failed" /\ i = Len(logs) THEN "failed" ELSE "succeeded"
      /\ step = "done" => at = Len(order) + 1
  BY DEF LogGrows
<1>2. at \in Nat \ {0} /\ Len(order) \in Nat /\ order \in Seq(Nodes) /\ at \in 1 .. Len(order) + 1
  BY DEF RunInv, KahnInv, KahnTypeOK
<1>3. DOMAIN logs = 1 .. Len(logs)
  BY <1>1
<1>4. {j \in DOMAIN logs : logs[j].status = "succeeded"} = 1 .. at - 1
  <2>1. CASE step = "failed"
    BY <1>1, <1>2, <1>3, <2>1
  <2>2. CASE step # "failed"
    BY <1>1, <1>2, <1>3, <2>2
  <2> QED BY <2>1, <2>2
<1>5. DOMAIN results = {n \in Nodes : \E i \in 1 .. at - 1 : order[i] = n}
  BY DEF RunInv, ResultsExact, Asked
<1>6. {logs[i].node : i \in 1 .. at - 1} = DOMAIN results
  <2>1. \A i \in 1 .. at - 1 : i \in DOMAIN logs /\ logs[i].node = order[i] /\ order[i] \in Nodes
    BY <1>1, <1>2, <1>4
  <2> QED BY <1>5, <2>1
<1>7. step = "done" => Len(logs) = Len(order)
  BY <1>1, <1>2
<1> QED BY <1>1, <1>4, <1>6, <1>7

\* The variables have their types.
LEMMA TypesKept == RunInv /\ RequestKnown /\ LogGrows => TypeOK
<1> SUFFICES ASSUME RunInv, RequestKnown, LogGrows PROVE TypeOK
  OBVIOUS
<1>1. \A i \in DOMAIN logs : logs[i].node \in Nodes /\ logs[i].status \in {"succeeded", "failed"}
  <2> DEFINE Entry == [node : Nodes, status : {"succeeded", "failed"}, rows : Nat]
  <2>1. logs \in Seq(Entry)
    BY DEF LogGrows
  <2>2. \A e \in Entry : e.node \in Nodes /\ e.status \in {"succeeded", "failed"}
    OBVIOUS
  <2> HIDE DEF Entry
  <2>3. \A i \in DOMAIN logs : logs[i] \in Entry
    BY <2>1
  <2> QED BY <2>2, <2>3
<1>2. DOMAIN results \in SUBSET Nodes
  BY DEF RunInv, ResultsExact
<1> QED BY <1>1, <1>2 DEF TypeOK, RunInv, RequestKnown

-----------------------------------------------------------------------------
(***************************************************************************)
(* The store                                                               *)
(***************************************************************************)

\* A node that is executed at p is the last writer of what it writes.
LEMMA LastOf ==
    ASSUME NEW n \in Nat, NEW p \in 1 .. n, NEW S \in SUBSET (1 .. p - 1)
    PROVE  Max(S \cup {p}) = p
<1>1. S \cup {p} \in SUBSET (1 .. n) /\ S \cup {p} # {}
  OBVIOUS
<1>2. Max(S \cup {p}) \in S \cup {p} /\ p <= Max(S \cup {p})
  BY <1>1, MaxOfPositions
<1>3. \A i \in S : ~(p <= i)
  OBVIOUS
<1> QED BY <1>2, <1>3

\* What nobody has written to is as it was.
LEMMA NothingWritten ==
    ASSUME NEW r, DOMAIN r = {}, NEW b, NEW T, b \in [DOMAIN b -> T]
    PROVE  Written(r, b) = b
<1>1. \A k : Writers(r, k) = {}
  BY DEF Writers
<1>2. DOMAIN b \cup {graph.def[n].key : n \in OfKind("output") \cap DOMAIN r} = DOMAIN b
  OBVIOUS
<1> QED BY <1>1, <1>2 DEF Written

\* Nothing is written before the request starts.
LEMMA StoreInit == Init => StoreExact
<1> SUFFICES ASSUME Init PROVE StoreExact
  OBVIOUS
<1>1. store \in [DOMAIN store -> FrameSet] /\ before = store /\ DOMAIN results = {}
  BY RunnerAssumption DEF Init, NoDict
<1> QED BY <1>1, NothingWritten DEF StoreExact

\* With the graph, the order and the dicts the writes stay.
LEMMA WrittenStays ==
    ASSUME UNCHANGED <<graph, order, results, store, before>>, StoreExact
    PROVE  StoreExact'
<1>1. OfKind("output")' = OfKind("output")
  BY GraphStays DEF OfKind
<1>2. \A k : Writers(results, k)' = Writers(results, k)
  BY <1>1 DEF Writers
<1>3. Written(results, before)' = Written(results, before)
  BY <1>1, <1>2 DEF Written
<1> QED BY <1>3 DEF StoreExact

\* A step that is not about frames writes nothing.
LEMMA StoreQuiet == RunInv /\ FramesTyped /\ StoreExact /\ Quiet => StoreExact'
<1> SUFFICES ASSUME RunInv, FramesTyped, StoreExact, Quiet PROVE StoreExact'
  OBVIOUS
<1>1. UNCHANGED <<graph, results, store, before>> /\ (DOMAIN results = {} \/ UNCHANGED order)
  BY QuietFacts
<1>2. CASE DOMAIN results = {}
  <2>1. Written(results, before) = before
    BY <1>2, NothingWritten DEF FramesTyped
  <2>2. DOMAIN results' = {} /\ before' \in [DOMAIN before' -> FrameSet]
    BY <1>1, <1>2 DEF FramesTyped
  <2>3. (\A k : Writers(results, k)' = {})
    BY <2>2 DEF Writers
  <2>4. Written(results, before)' = before'
    BY <2>2, <2>3 DEF Written
  <2> QED BY <1>1, <2>1, <2>4 DEF StoreExact
<1>3. CASE UNCHANGED order
  BY <1>1, <1>3, WrittenStays
<1> QED BY <1>1, <1>2, <1>3

\* The writers that came before the node whose turn it is.
LEMMA WritersBefore ==
    ASSUME RunInv, step = "executing", at <= Len(order), Asked(Current),
           NEW r, DOMAIN r = DOMAIN results, NEW k
    PROVE  Writers(r, k) \in SUBSET (1 .. at - 1)
<1> SUFFICES ASSUME NEW i \in Writers(r, k) PROVE i \in 1 .. at - 1
  OBVIOUS
<1>1. i \in DOMAIN order /\ order[i] \in DOMAIN results /\ DOMAIN order = 1 .. Len(order)
  BY AtTurn DEF Writers
<1>2. PICK j \in 1 .. at - 1 : order[j] = order[i]
  BY <1>1 DEF RunInv, ResultsExact
<1>3. j \in DOMAIN order
  BY <1>1, <1>2, AtTurn
<1>4. i = j
  BY <1>1, <1>2, <1>3, AtTurn, AcceptedOrder
<1> QED BY <1>2, <1>4

\* An output node writes over what was at its key, any other node nothing,
\* whatever a dict d of the results says of their frames.
LEMMA WriteAdds ==
    ASSUME RunInv, step = "executing", at <= Len(order), Asked(Current),
           NEW d, DOMAIN d = DOMAIN results, NEW e, NEW frame, e = Put(d, Current, frame),
           store = Written(d, before), WriteThrough(Current, frame)
    PROVE  store' = Written(e, before)
<1> DEFINE out == OfKind("output")
           key == graph.def[Current].key
<1>1. /\ phase = "accepted" /\ at \in 1 .. Len(order) /\ Current \in Nodes
      /\ Current \notin DOMAIN d /\ Len(order) \in Nat /\ DOMAIN order = 1 .. Len(order)
      /\ \A i, j \in DOMAIN order : order[i] = order[j] => i = j
  BY AtTurn, AcceptedOrder
<1>2. /\ DOMAIN e = DOMAIN d \cup {Current} /\ e[Current] = frame
      /\ \A n \in DOMAIN d : e[n] = d[n]
  BY <1>1 DEF Put
<1>3. \A k : Writers(e, k) =
               IF Current \in out /\ key = k THEN Writers(d, k) \cup {at} ELSE Writers(d, k)
  <2>1. \A i \in DOMAIN order : order[i] = Current <=> i = at
    BY <1>1 DEF Current
  <2> QED BY <1>1, <1>2, <2>1 DEF Writers
<1>4. ASSUME NEW k, Writers(d, k) # {}
      PROVE  LET i == Max(Writers(d, k))
             IN  order[i] \in DOMAIN d /\ e[order[i]] = d[order[i]]
  <2>1. Writers(d, k) \in SUBSET (1 .. Len(order))
    BY <1>1 DEF Writers
  <2>2. Max(Writers(d, k)) \in Writers(d, k)
    BY <1>1, <1>4, <2>1, MaxOfPositions
  <2> QED BY <1>2, <2>2 DEF Writers
<1>5. CASE Current \notin out
  <2>1. store' = store
    BY <1>1, <1>5 DEF WriteThrough, OfKind
  <2>2. out \cap DOMAIN e = out \cap DOMAIN d
    BY <1>2, <1>5
  <2>3. \A k : Writers(e, k) = Writers(d, k)
    BY <1>3, <1>5
  <2>4. Written(e, before) = Written(d, before)
    BY <1>4, <2>2, <2>3 DEF Written
  <2> QED BY <2>1, <2>4
<1>6. CASE Current \in out
  <2> DEFINE K(r) == DOMAIN before \cup {graph.def[n].key : n \in out \cap DOMAIN r}
             new == Written(e, before)
  <2>1. store' = [x \in DOMAIN store \cup {key} |-> IF x = key THEN frame ELSE store[x]]
    BY <1>6 DEF WriteThrough, Put, OfKind
  <2>2. K(e) = K(d) \cup {key}
    <3>1. out \cap DOMAIN e = (out \cap DOMAIN d) \cup {Current}
      BY <1>2, <1>6
    <3> QED BY <3>1
  <2>3. DOMAIN store = K(d) /\ DOMAIN new = K(e)
    BY DEF Written
  <2>4. new[key] = frame
    <3>1. Writers(e, key) = Writers(d, key) \cup {at}
      BY <1>3, <1>6
    <3>2. Writers(d, key) \in SUBSET (1 .. at - 1)
      BY WritersBefore
    <3>3. Max(Writers(e, key)) = at
      BY <1>1, <3>1, <3>2, LastOf
    <3>4. Writers(e, key) # {}
      BY <3>1
    <3> QED BY <1>2, <2>2, <2>3, <3>3, <3>4 DEF Written, Current
  <2>5. ASSUME NEW x \in K(e), x # key PROVE new[x] = store[x]
    <3>1. Writers(e, x) = Writers(d, x) /\ x \in K(d)
      BY <1>3, <2>2, <2>5
    <3>2. store[x] = IF Writers(d, x) = {} THEN before[x] ELSE d[order[Max(Writers(d, x))]]
      BY <3>1 DEF Written
    <3>3. new[x] = IF Writers(d, x) = {} THEN before[x] ELSE e[order[Max(Writers(d, x))]]
      BY <3>1, <2>5 DEF Written
    <3> QED BY <1>4, <3>2, <3>3
  <2>6. new = [x \in K(d) \cup {key} |-> IF x = key THEN frame ELSE store[x]]
    <3>1. new = [x \in K(e) |-> new[x]]
      BY DEF Written
    <3> HIDE DEF new, K
    <3> QED BY <2>2, <2>4, <2>5, <3>1
  <2> QED BY <2>1, <2>3, <2>6
<1> QED BY <1>5, <1>6

\* Executing a node writes what its frame is.
LEMMA StoreExecute ==
    ASSUME RunInv, StoreExact, ExecuteNode
    PROVE  StoreExact'
<1> DEFINE frame == Computed(Current, results, store).frame
<1>1. /\ step = "executing" /\ at <= Len(order) /\ Asked(Current)
      /\ UNCHANGED <<graph, order, before>>
      /\ results' = Put(results, Current, frame)
      /\ WriteThrough(Current, frame)
  BY ExecuteNodeFacts DEF kahnVars
<1> HIDE DEF frame
<1>2. store' = Written(results', before)
  BY <1>1, WriteAdds DEF StoreExact
<1>3. OfKind("output")' = OfKind("output")
  BY <1>1, GraphStays DEF OfKind
<1>4. \A k : Writers(results, k)' = Writers(results', k)
  BY <1>1, <1>3 DEF Writers
<1>5. Written(results, before)' = Written(results', before)
  BY <1>1, <1>3, <1>4 DEF Written
<1> QED BY <1>2, <1>5 DEF StoreExact

\* The store is what the output nodes made of it.
LEMMA StoreNext == RunInv /\ FramesTyped /\ StoreExact /\ [Next]_vars => StoreExact'
<1> SUFFICES ASSUME RunInv, FramesTyped, StoreExact, [Next]_vars PROVE StoreExact'
  OBVIOUS
<1>1. CASE Quiet
  BY <1>1, StoreQuiet
<1>2. CASE ExecuteNode
  BY <1>2, StoreExecute
<1>3. CASE FailNode
  BY <1>3, FailNodeFacts, WrittenStays DEF kahnVars
<1>4. CASE Retry
  <2>1. /\ DOMAIN results' = {} /\ store' = store /\ before' = store
        /\ before' \in [DOMAIN before' -> FrameSet]
    BY <1>4 DEF Retry, NoDict, FramesTyped
  <2>2. \A k : Writers(results, k)' = {}
    BY <2>1 DEF Writers
  <2>3. Written(results, before)' = before'
    BY <2>1, <2>2 DEF Written
  <2> QED BY <2>1, <2>3 DEF StoreExact
<1> QED BY <1>1, <1>2, <1>3, <1>4, StepKinds

-----------------------------------------------------------------------------
(***************************************************************************)
(* What the nodes computed                                                 *)
(***************************************************************************)

\* Whatever has a result had its sources' results.
LEMMA ResultsClosed == RunInv => \A n \in DOMAIN results : Sources(n) \subseteq DOMAIN results
<1> SUFFICES ASSUME RunInv, NEW n \in DOMAIN results, NEW s \in Sources(n) PROVE s \in DOMAIN results
  OBVIOUS
<1>1. at \in 1 .. Len(order) + 1 /\ Len(order) \in Nat
  BY DEF RunInv, KahnInv, KahnTypeOK
<1>2. PICK i \in 1 .. at - 1 : order[i] = n
  BY DEF RunInv, ResultsExact
<1>3. at # 1 /\ Asked(n) /\ n \in Nodes
  BY <1>1, <1>2 DEF RunInv, ResultsExact
<1>4. step \in {"executing", "done", "failed"} /\ phase = "accepted"
  BY <1>3 DEF RunInv, ResultsExact
<1>5. i \in 1 .. Len(order)
  BY <1>1, <1>2
<1>6. PICK j \in 1 .. i - 1 : order[j] = s
  BY <1>2, <1>4, <1>5, AcceptedOrder
<1>7. s \in Nodes /\ j \in 1 .. at - 1
  BY <1>1, <1>2, <1>3, <1>4, <1>6, AcceptedOrder
<1>8. Asked(s)
  BY <1>3, <1>4 DEF RunInv, WalkExact, Asked
<1> QED BY <1>6, <1>7, <1>8 DEF RunInv, ResultsExact

\* What a node comes to depends on its sources' results only.
LEMMA ComputedAgrees ==
    ASSUME NEW n, NEW d, NEW e, \A s \in Sources(n) : d[s] = e[s], NEW b
    PROVE  Computed(n, d, b) = Computed(n, e, b)
<1>1. \A k \in InEdges(n) : d[Source(k)] = e[Source(k)]
  BY DEF Sources
<1>2. [k \in EdgeIndices |-> IF k \in InEdges(n) THEN <<d[Source(k)]>> ELSE <<>>]
        = [k \in EdgeIndices |-> IF k \in InEdges(n) THEN <<e[Source(k)]>> ELSE <<>>]
  BY <1>1
<1>3. Gathered(n, d) = Gathered(n, e)
  BY <1>2 DEF Gathered
<1> QED BY <1>3 DEF Computed

\* What a node is and is handed is up to the graph.
LEMMA NodeStays ==
    ASSUME UNCHANGED graph
    PROVE  /\ Nodes' = Nodes /\ EdgeIndices' = EdgeIndices
           /\ \A k : Source(k)' = Source(k)
           /\ \A n : InEdges(n)' = InEdges(n) /\ Ports(n)' = Ports(n)
           /\ \A kind : OfKind(kind)' = OfKind(kind)
           /\ NoFeedback' = NoFeedback
<1>1. /\ Nodes' = Nodes /\ EdgeIndices' = EdgeIndices
      /\ (\A k : Source(k)' = Source(k)) /\ (\A n : InEdges(n)' = InEdges(n))
  BY GraphStays DEF EdgeIndices, Source
<1>2. \A n : Ports(n)' = Ports(n)
  BY <1>1 DEF Ports
<1>3. \A kind : OfKind(kind)' = OfKind(kind)
  BY <1>1 DEF OfKind
<1>4. NoFeedback' = NoFeedback
  BY <1>3 DEF NoFeedback, KeysOf
<1> QED BY <1>1, <1>2, <1>3, <1>4

\* What it comes to is up to the graph, the results and what was found.
LEMMA ComputedStays ==
    ASSUME UNCHANGED graph
    PROVE  /\ \A n : Computed(n, results, before)' = Computed(n, results', before')
           /\ \A n : Settled(n)' = Settled(n)
<1>1. \A n : Gathered(n, results)' = Gathered(n, results')
  BY NodeStays DEF Gathered
<1>2. \A n : Computed(n, results, before)' = Computed(n, results', before')
  BY <1>1, NodeStays DEF Computed
<1>3. \A n : Settled(n)' = Settled(n)
  BY NodeStays DEF Settled
<1> QED BY <1>2, <1>3

\* A settled node finds in the store what the request found there.
LEMMA SettledStore ==
    ASSUME RunInv, StoreExact, NEW n \in Nodes, Settled(n), NEW d
    PROVE  Computed(n, d, store) = Computed(n, d, before)
<1> DEFINE key == graph.def[n].key
<1>1. graph.def[n].kind \in Kinds
  BY GraphKnown
<1>2. ASSUME graph.def[n].kind = "input"
      PROVE  /\ key \in DOMAIN store <=> key \in DOMAIN before
             /\ key \in DOMAIN store => store[key] = before[key]
  <2>1. key \notin KeysOf("output")
    BY <1>2 DEF Settled, NoFeedback, KeysOf, OfKind
  <2>2. Writers(results, key) = {} /\ key \notin {graph.def[m].key : m \in OfKind("output") \cap DOMAIN results}
    BY <2>1 DEF Writers, KeysOf
  <2> QED BY <2>2 DEF StoreExact, Written
<1> QED BY <1>1, <1>2, ExecuteStore DEF Computed

\* No node has computed anything at first.
LEMMA ComputedInit == Init => ResultsComputed
<1> SUFFICES ASSUME Init PROVE ResultsComputed
  OBVIOUS
<1>1. DOMAIN results = {} /\ step = "idle"
  BY DEF Init, NoDict
<1> QED BY <1>1 DEF ResultsComputed

\* A step that is not about frames computes nothing.
LEMMA ComputedQuiet == RunInv /\ ResultsComputed /\ Quiet => ResultsComputed'
<1> SUFFICES ASSUME RunInv, ResultsComputed, Quiet PROVE ResultsComputed'
  OBVIOUS
<1>1. /\ UNCHANGED <<graph, results, before>> /\ (step' = "failed" => step = "failed")
      /\ (step = "failed" => UNCHANGED <<order, at>>)
  BY QuietFacts
<1>2. /\ \A n : Computed(n, results, before)' = Computed(n, results, before)
      /\ \A n : Settled(n)' = Settled(n)
  BY <1>1, ComputedStays
<1>3. step' = "failed" => Current' = Current
  BY <1>1 DEF Current
<1> QED BY <1>1, <1>2, <1>3 DEF ResultsComputed

\* A node's result is that of its sources' results.
LEMMA ComputedExecute ==
    ASSUME RunInv, StoreExact, ResultsComputed, ExecuteNode
    PROVE  ResultsComputed'
<1> DEFINE frame == Computed(Current, results, store).frame
<1>1. /\ step = "executing" /\ at <= Len(order) /\ Asked(Current)
      /\ UNCHANGED <<graph, before>> /\ step' # "failed"
      /\ Computed(Current, results, store).ok
      /\ results' = Put(results, Current, frame)
  BY ExecuteNodeFacts DEF kahnVars
<1>2. /\ Current \in Nodes /\ Current \notin DOMAIN results
      /\ Sources(Current) \subseteq DOMAIN results
  BY <1>1, AtTurn
<1>3. Settled(Current) => Computed(Current, results, before) = Computed(Current, results, store)
  BY <1>2, SettledStore
<1> HIDE DEF frame
<1>4. /\ DOMAIN results' = DOMAIN results \cup {Current} /\ results'[Current] = frame
      /\ \A n \in DOMAIN results : results'[n] = results[n]
  BY <1>1, <1>2 DEF Put
<1>5. ASSUME NEW n \in DOMAIN results'
      PROVE  Computed(n, results, before)' = Computed(n, results, before)
  <2>1. Sources(n) \subseteq DOMAIN results
    BY <1>2, <1>4, ResultsClosed
  <2>2. Computed(n, results', before) = Computed(n, results, before)
    BY <1>4, <2>1, ComputedAgrees
  <2> QED BY <1>1, <2>2, ComputedStays
<1>6. \A n : Settled(n)' = Settled(n)
  BY <1>1, ComputedStays
<1>7. ASSUME NEW n \in DOMAIN results', Settled(n)
      PROVE  Computed(n, results, before).ok /\ results'[n] = Computed(n, results, before).frame
  <2>1. CASE n = Current
    BY <1>1, <1>3, <1>4, <1>7, <2>1 DEF frame
  <2>2. CASE n \in DOMAIN results
    BY <1>4, <1>7, <2>2 DEF ResultsComputed
  <2> QED BY <1>4, <2>1, <2>2
<1> QED BY <1>1, <1>5, <1>6, <1>7 DEF ResultsComputed

\* A run fails at a node that cannot be computed.
LEMMA ComputedFail ==
    ASSUME RunInv, StoreExact, ResultsComputed, FailNode
    PROVE  ResultsComputed'
<1>1. /\ step = "executing" /\ at <= Len(order) /\ Asked(Current)
      /\ UNCHANGED <<graph, order, at, results, before>>
      /\ ~Computed(Current, results, store).ok
  BY FailNodeFacts DEF kahnVars
<1>2. Current \in Nodes /\ Current' = Current
  BY <1>1, AtTurn DEF Current
<1>3. Settled(Current) => ~Computed(Current, results, before).ok
  BY <1>1, <1>2, SettledStore
<1>4. /\ \A n : Computed(n, results, before)' = Computed(n, results, before)
      /\ \A n : Settled(n)' = Settled(n)
  BY <1>1, ComputedStays
<1> QED BY <1>1, <1>2, <1>3, <1>4 DEF ResultsComputed

\* The results are those of the graph.
LEMMA ComputedNext == RunInv /\ StoreExact /\ ResultsComputed /\ [Next]_vars => ResultsComputed'
<1> SUFFICES ASSUME RunInv, StoreExact, ResultsComputed, [Next]_vars PROVE ResultsComputed'
  OBVIOUS
<1>1. CASE Retry
  <2>1. DOMAIN results' = {} /\ step' = "idle"
    BY <1>1 DEF Retry, NoDict
  <2> QED BY <2>1 DEF ResultsComputed
<1> QED BY <1>1, ComputedQuiet, ComputedExecute, ComputedFail, StepKinds

-----------------------------------------------------------------------------
\* Every step keeps the invariant about frames.
LEMMA ValueNext == RunInv /\ ValueInv /\ [Next]_vars => ValueInv'
  BY RequestNext, FramesNext, LogNext, StoreNext, ComputedNext DEF ValueInv

\* The inductive invariant about what a request computes holds for every graph,
\* connector and request.
THEOREM ValueInvariant == Spec => []ValueInv
<1>1. Init => ValueInv
  BY RequestInit, FramesInit, LogInit, StoreInit, ComputedInit DEF ValueInv
<1>2. RunInv /\ ValueInv /\ [Next]_vars => ValueInv'
  BY ValueNext
<1> QED BY <1>1, <1>2, RunInvariant, PTL DEF Spec

\* The variables of the runner keep their types.
THEOREM RunTypes == Spec => []TypeOK
<1>1. RunInv /\ ValueInv => TypeOK
  BY TypesKept DEF ValueInv
<1> QED BY <1>1, RunInvariant, ValueInvariant, PTL

\* The NodeLogs that run() returns or attaches to its error name exactly the
\* nodes that have results, in order, and the one that failed.
THEOREM LogsAreExact == Spec => []LogExact
<1>1. RunInv /\ ValueInv => LogExact
  BY LogIsExact DEF ValueInv
<1> QED BY <1>1, RunInvariant, ValueInvariant, PTL

\* The connector is what the output nodes executed so far made of what the
\* request found: nothing else is written, and the last write to a key stays.
THEOREM StoreIsExact == Spec => []StoreExact
<1>1. ValueInv => StoreExact
  BY DEF ValueInv
<1> QED BY <1>1, ValueInvariant, PTL

-----------------------------------------------------------------------------
\* No default name is one that a join looks for.
LEMMA DefaultNames ==
    ASSUME RunInv, NEW n, NEW p \in DOMAIN Ports(n), NEW side \in {"left", "right"}
    PROVE  PortName(Ports(n), p) = side <=> Ports(n)[p] = side
<1> DEFINE N == Len(graph.edges)
           v == [k \in EdgeIndices |-> graph.edges[k].port]
<1>1. EdgeIndices = 1 .. N /\ N \in Nat /\ 1 .. N \subseteq DOMAIN InputName
  BY GraphKnown DEF EdgeIndices
<1>2. Ports(n) = FlattenSeq([k \in 1 .. N |-> IF k \in InEdges(n) THEN <<v[k]>> ELSE <<>>])
  BY <1>1 DEF Ports, Taken
<1>3. Len(Ports(n)) <= N
  <2> HIDE DEF N, v
  <2> QED BY <1>1, <1>2, ChosenShort
<1>4. Ports(n) \in Seq(Port)
  <2> DEFINE d == [s \in Sources(n) |-> 0]
  <2>1. \A s \in Sources(n) : d[s] \in {0}
    OBVIOUS
  <2> HIDE DEF d
  <2> QED BY <2>1, GatheredTyped
<1>5. p \in DOMAIN InputName
  <2>1. p \in 1 .. Len(Ports(n)) /\ Len(Ports(n)) \in Nat
    BY <1>4
  <2> QED BY <1>1, <1>3, <2>1
<1> QED BY <1>5, NodeAssumption DEF PortName

\* With distinct ports routing keeps every frame, and the names that matter.
LEMMA RoutedPlain ==
    ASSUME RunInv, DistinctPorts, NEW n \in Nodes, NEW d
    PROVE  LET routed == Route(Ports(n), Gathered(n, d))
           IN  /\ routed.frames = Gathered(n, d)
               /\ \A side \in {"left", "right"} :
                    Named(routed, side) = {p \in DOMAIN Ports(n) : Ports(n)[p] = side}
<1> DEFINE F == {d[s] : s \in Sources(n)}
           frames == Gathered(n, d)
           routed == Route(Ports(n), frames)
<1>1. /\ Ports(n) \in Seq(Port) /\ frames \in Seq(F) /\ Len(Ports(n)) = Len(frames)
  <2>1. \A s \in Sources(n) : d[s] \in F
    OBVIOUS
  <2> HIDE DEF F
  <2> QED BY <2>1, GatheredTyped
<1> HIDE DEF F, frames
<1>2. CASE Keyed(Ports(n))
  <2>1. routed = [names |-> [p \in DOMAIN Ports(n) |-> PortName(Ports(n), p)], frames |-> frames]
    <3>1. \A i \in DOMAIN Ports(n) : SameName(Ports(n), i) = {i}
      BY <1>2 DEF DistinctPorts
    <3> QED BY <1>1, <1>2, <3>1, RouteDistinct
  <2>2. \A side \in {"left", "right"} : \A p \in DOMAIN Ports(n) :
          PortName(Ports(n), p) = side <=> Ports(n)[p] = side
    BY DefaultNames
  <2> QED BY <2>1, <2>2 DEF Named, frames
<1>3. CASE ~Keyed(Ports(n))
  BY <1>3 DEF Route, Named, frames
<1> QED BY <1>2, <1>3

\* With distinct ports a node computes what it means.
LEMMA ComputedMeans ==
    ASSUME RunInv, DistinctPorts, NEW n \in Nodes
    PROVE  /\ Computed(n, results, before) = Meaning(n)
           /\ Route(Ports(n), Frames(n)).frames = Frames(n)
<1> DEFINE plain == [names |-> Ports(n), frames |-> Frames(n)]
           routed == Route(Ports(n), Frames(n))
<1>1. /\ routed.frames = plain.frames
      /\ \A side \in {"left", "right"} : Named(routed, side) = Named(plain, side)
  BY RoutedPlain DEF Frames, Named
<1>2. graph.def[n].kind \in Kinds
  BY GraphKnown
<1>3. Execute(graph.def[n], routed, before) = Execute(graph.def[n], plain, before)
  <2> HIDE DEF routed, plain
  <2> QED BY <1>1, <1>2, ExecuteNames
<1>4. Computed(n, results, before) = Meaning(n)
  BY <1>3 DEF Computed, Meaning, Frames
<1> QED BY <1>1, <1>4

\* With distinct ports a result is what the node means.
LEMMA MeaningReached == RunInv /\ ResultsComputed => OutcomeHasMeaning
<1> SUFFICES ASSUME RunInv, ResultsComputed, NoFeedback, DistinctPorts
             PROVE  /\ \A n \in DOMAIN results :
                         Meaning(n).ok /\ results[n] = Meaning(n).frame
                    /\ step = "failed" => ~Meaning(Current).ok
  BY DEF OutcomeHasMeaning
<1>1. DOMAIN results \subseteq Nodes /\ \A n : Settled(n)
  BY DEF RunInv, ResultsExact, Settled
<1>2. step = "failed" => Current \in Nodes
  BY AcceptedOrder DEF RunInv, ResultsExact, Current
<1> QED BY <1>1, <1>2, ComputedMeans DEF ResultsComputed

\* When no key is both read and written and no node's ports share a name, the
\* results solve the graph's equations, and a request fails only at a node that
\* has no meaning.
THEOREM OutcomesHaveMeaning == Spec => []OutcomeHasMeaning
<1>1. RunInv /\ ValueInv => OutcomeHasMeaning
  BY MeaningReached DEF ValueInv
<1> QED BY <1>1, RunInvariant, ValueInvariant, PTL

\* With distinct ports a union has the rows of every incoming edge; the run
\* port_collision shows that it loses some when two edges share a port.
THEOREM UnionsLoseNothing == Spec => [](DistinctPorts => UnionComplete)
<1>1. RunInv /\ ValueInv => (DistinctPorts => UnionComplete)
  <2> SUFFICES ASSUME RunInv, ResultsComputed, DistinctPorts,
                      NEW n \in DOMAIN results, graph.def[n].kind = "union"
               PROVE  results[n] = Concat(Frames(n))
    BY DEF ValueInv, UnionComplete
  <2>1. n \in Nodes /\ Settled(n)
    BY DEF RunInv, ResultsExact, Settled
  <2>2. Computed(n, results, before).ok /\ results[n] = Computed(n, results, before).frame
    BY <2>1 DEF ResultsComputed
  <2>3. Computed(n, results, before) = Union(Route(Ports(n), Frames(n)))
    BY DEF Computed, Execute, Frames
  <2>4. Route(Ports(n), Frames(n)).frames = Frames(n)
    BY <2>1, ComputedMeans
  <2> QED BY <2>2, <2>3, <2>4 DEF Union, Returned, Raised
<1> QED BY <1>1, RunInvariant, ValueInvariant, PTL

\* No preview shows more rows than were asked for, nor more than the API's own
\* bound, when no limit is negative.
THEOREM PreviewsAreBounded ==
    ASSUME \A c \in Calls : c.limit \in Nat
    PROVE  Spec => []PreviewBounded
<1>1. Init => PreviewBounded
  <2> SUFFICES ASSUME Init PROVE Len(<<>>) <= MaxPreview /\ Len(<<>>) <= call.limit
    BY DEF Init, NoRows, PreviewBounded
  <2> QED BY RunnerAssumption DEF Init
<1>2. RunInv /\ ValueInv /\ PreviewBounded /\ [Next]_vars => PreviewBounded'
  <2> SUFFICES ASSUME RunInv, ValueInv, PreviewBounded, [Next]_vars PROVE PreviewBounded'
    OBVIOUS
  <2>0. call.limit \in Nat /\ MaxPreview \in Nat
    BY RunnerAssumption DEF ValueInv, RequestKnown
  <2>1. CASE Quiet \/ FailNode
    BY <2>1, QuietFacts, FailNodeFacts DEF PreviewBounded
  <2>2. CASE Retry
    <3>1. output' = <<>> /\ call' = call /\ Len(<<>>) = 0
      BY <2>2 DEF Retry, NoRows
    <3> QED BY <2>0, <3>1 DEF PreviewBounded
  <2>3. CASE ExecuteNode
    <3> DEFINE frame == Computed(Current, results, store).frame
    <3>1. output' = output \/ output' = HeadRows(frame.rows, Limit)
      BY <2>3, ExecuteNodeFacts
    <3>2. frame \in FrameSet
      <4>1. Current \in Nodes /\ \A s \in Sources(Current) : results[s] \in FrameSet
        BY <2>3, ExecuteNodeFacts, AtTurn DEF ValueInv, FramesTyped
      <4> QED BY <4>1, <2>3, ExecuteNodeFacts, ComputedTyped DEF ValueInv, FramesTyped
    <3>3. Limit \in Nat /\ Limit <= MaxPreview /\ Limit <= call.limit
      <4>1. call.limit \in Int /\ MaxPreview \in Int
        BY <2>0
      <4>2. Limit \in {call.limit, MaxPreview} /\ Limit <= MaxPreview /\ Limit <= call.limit
        BY <4>1, MinOfTwo DEF Limit
      <4> QED BY <2>0, <4>2
    <3> HIDE DEF frame
    <3>4. HeadRows(frame.rows, Limit) \in Seq(Row) /\ Len(HeadRows(frame.rows, Limit)) <= Limit
      <4>1. frame.rows \in Seq(Row)
        BY <3>2 DEF FrameSet
      <4> QED BY <3>3, <4>1, HeadRowsTyped
    <3>5. /\ Len(HeadRows(frame.rows, Limit)) <= MaxPreview
          /\ Len(HeadRows(frame.rows, Limit)) <= call.limit
      <4> DEFINE rows == HeadRows(frame.rows, Limit)
      <4>1. Len(rows) \in Nat /\ Len(rows) <= Limit
        BY <3>4
      <4> HIDE DEF rows
      <4>2. Len(rows) <= MaxPreview /\ Len(rows) <= call.limit
        BY <2>0, <3>3, <4>1
      <4> QED BY <4>2 DEF rows
    <3>6. call' = call
      BY <2>3, ExecuteNodeFacts
    <3> QED BY <3>1, <3>5, <3>6 DEF PreviewBounded
  <2> QED BY <2>1, <2>2, <2>3, StepKinds
<1> QED BY <1>1, <1>2, RunInvariant, ValueInvariant, PTL DEF Spec

-----------------------------------------------------------------------------
(***************************************************************************)
(* Making a request again                                                  *)
(***************************************************************************)

\* The dict r solves the graph's equations over b for the nodes it has, which
\* are wanted ones with all their sources.
Solves(r, b) ==
    /\ DOMAIN r \subseteq Wanted
    /\ \A n \in DOMAIN r :
         /\ Sources(n) \subseteq DOMAIN r
         /\ Computed(n, r, b).ok
         /\ r[n] = Computed(n, r, b).frame

\* The i-th node of the order is the first wanted one it lacks and cannot be
\* computed from it.
StoppedAt(i, r, b) ==
    /\ order[i] \in Wanted
    /\ DOMAIN r = {n \in Wanted : \E j \in 1 .. i - 1 : order[j] = n}
    /\ Sources(order[i]) \subseteq DOMAIN r
    /\ ~Computed(order[i], r, b).ok

\* It has all wanted nodes, or was stopped at one.
Ended(r, b) ==
    \/ DOMAIN r = Wanted
    \/ \E i \in 1 .. Len(order) : StoppedAt(i, r, b)

\* A request made again finds what an earlier attempt has left.
Repeats ==
    runs > 1 /\ NoFeedback =>
        /\ phase = "accepted"
        /\ \E r : Solves(r, before) /\ Ended(r, before) /\ before = Written(r, before)

\* Two solutions agree where both are defined, as the graph has no cycle.
LEMMA OneSolution ==
    ASSUME RunInv, phase = "accepted", NEW b, NEW r, NEW d, Solves(r, b), Solves(d, b)
    PROVE  \A n \in DOMAIN r \cap DOMAIN d : r[n] = d[n]
<1> DEFINE T == {i \in 1 .. Len(order) : order[i] \in DOMAIN r \cap DOMAIN d
                                         /\ r[order[i]] # d[order[i]]}
<1>1. Wanted \subseteq Nodes
  BY DEF Wanted, Ancestors
<1>2. order \in Seq(Nodes) /\ Range(order) = Nodes /\ Len(order) \in Nat
  BY AcceptedOrder
<1>3. ASSUME T # {} PROVE FALSE
  <2>1. T \in SUBSET Nat
    OBVIOUS
  <2>2. PICK i \in T : \A j \in T : i <= j
    BY <1>3, <2>1, Least
  <2>3. i \in 1 .. Len(order)
    OBVIOUS
  <2>4. ASSUME NEW s \in Sources(order[i]) PROVE r[s] = d[s]
    <3>1. PICK j \in 1 .. i - 1 : order[j] = s
      BY <2>3, AcceptedOrder
    <3>2. j \notin T /\ j \in 1 .. Len(order)
      BY <1>2, <2>2, <2>3, <3>1
    <3>3. s \in DOMAIN r /\ s \in DOMAIN d
      BY <2>2 DEF Solves
    <3> QED BY <3>1, <3>2, <3>3
  <2>5. Computed(order[i], r, b) = Computed(order[i], d, b)
    BY <2>4, ComputedAgrees
  <2>6. r[order[i]] = d[order[i]]
    BY <2>2, <2>5 DEF Solves
  <2> QED BY <2>2, <2>6
<1> SUFFICES ASSUME NEW n \in DOMAIN r, n \in DOMAIN d PROVE r[n] = d[n]
  OBVIOUS
<1>4. n \in Range(order)
  BY <1>1, <1>2 DEF Solves
<1>5. PICK i \in DOMAIN order : order[i] = n
  BY <1>4 DEF Range
<1>6. i \in 1 .. Len(order)
  BY <1>2
<1> QED BY <1>3, <1>5, <1>6

\* What one solution is stopped at no solution has.
LEMMA StoppedForAll ==
    ASSUME RunInv, phase = "accepted", NEW b, NEW r, NEW d, Solves(r, b), Solves(d, b),
           NEW i, StoppedAt(i, r, b)
    PROVE  order[i] \notin DOMAIN d
<1> SUFFICES ASSUME order[i] \in DOMAIN d PROVE FALSE
  OBVIOUS
<1>1. Sources(order[i]) \subseteq DOMAIN r \cap DOMAIN d
  BY DEF StoppedAt, Solves
<1>2. \A n \in DOMAIN r \cap DOMAIN d : r[n] = d[n]
  BY OneSolution
<1>3. Computed(order[i], r, b) = Computed(order[i], d, b)
  BY <1>1, <1>2, ComputedAgrees
<1> QED BY <1>3 DEF StoppedAt, Solves

\* Two solutions that have ended are the same.
LEMMA AllOrNothing ==
    ASSUME RunInv, phase = "accepted", NEW b, NEW r, NEW d,
           Solves(r, b), Ended(r, b), Solves(d, b), Ended(d, b)
    PROVE  DOMAIN r = DOMAIN d /\ \A n \in DOMAIN r : r[n] = d[n]
<1>1. DOMAIN r = DOMAIN d
  <2>1. CASE DOMAIN r = Wanted /\ DOMAIN d = Wanted
    BY <2>1
  <2>2. ASSUME DOMAIN r = Wanted, NEW i \in 1 .. Len(order), StoppedAt(i, d, b) PROVE FALSE
    <3>1. order[i] \notin DOMAIN r
      BY <2>2, StoppedForAll
    <3> QED BY <2>2, <3>1 DEF StoppedAt
  <2>3. ASSUME DOMAIN d = Wanted, NEW i \in 1 .. Len(order), StoppedAt(i, r, b) PROVE FALSE
    <3>1. order[i] \notin DOMAIN d
      BY <2>3, StoppedForAll
    <3> QED BY <2>3, <3>1 DEF StoppedAt
  <2>4. ASSUME NEW i \in 1 .. Len(order), StoppedAt(i, r, b),
               NEW k \in 1 .. Len(order), StoppedAt(k, d, b)
        PROVE  DOMAIN r = DOMAIN d
    <3>1. order[i] \notin DOMAIN d /\ order[k] \notin DOMAIN r
      BY <2>4, StoppedForAll
    <3>2. Len(order) \in Nat
      BY AcceptedOrder
    <3>3. ~(i < k)
      <4>1. ASSUME i < k PROVE i \in 1 .. k - 1
        BY <3>2, <4>1
      <4> QED BY <2>4, <3>1, <4>1 DEF StoppedAt
    <3>4. ~(k < i)
      <4>1. ASSUME k < i PROVE k \in 1 .. i - 1
        BY <3>2, <4>1
      <4> QED BY <2>4, <3>1, <4>1 DEF StoppedAt
    <3>5. i = k
      BY <3>2, <3>3, <3>4
    <3> QED BY <2>4, <3>5 DEF StoppedAt
  <2> QED BY <2>1, <2>2, <2>3, <2>4 DEF Ended
<1> QED BY <1>1, OneSolution

\* The same results write the same.
LEMMA SameWrites ==
    ASSUME RunInv, NEW b, NEW r, NEW d, DOMAIN r = DOMAIN d, \A n \in DOMAIN r : r[n] = d[n]
    PROVE  Written(r, b) = Written(d, b)
<1>1. \A k : Writers(r, k) = Writers(d, k)
  BY DEF Writers
<1>2. ASSUME NEW k, Writers(r, k) # {}
      PROVE  r[order[Max(Writers(r, k))]] = d[order[Max(Writers(r, k))]]
  <2>1. order \in Seq(Nodes)
    BY DEF RunInv, KahnInv, KahnTypeOK
  <2>2. Len(order) \in Nat /\ Writers(r, k) \in SUBSET (1 .. Len(order))
    BY <2>1 DEF Writers
  <2>3. Max(Writers(r, k)) \in Writers(r, k)
    BY <1>2, <2>2, MaxOfPositions
  <2> QED BY <2>3 DEF Writers
<1> QED BY <1>1, <1>2 DEF Written

\* Writing the same twice is writing it once.
LEMMA WrittenTwice ==
    ASSUME NEW b, NEW r
    PROVE  Written(r, Written(r, b)) = Written(r, b)
<1> DEFINE w == Written(r, b)
           K == {graph.def[n].key : n \in OfKind("output") \cap DOMAIN r}
<1>1. DOMAIN w = DOMAIN b \cup K
  BY DEF Written
<1>2. \A k \in DOMAIN w : w[k] = IF Writers(r, k) = {} THEN b[k] ELSE r[order[Max(Writers(r, k))]]
  BY DEF Written
<1>3. DOMAIN w \cup K = DOMAIN w
  BY <1>1
<1>4. w = [k \in DOMAIN w |-> w[k]]
  BY DEF Written
<1>5. Written(r, w) = [k \in DOMAIN w \cup K |->
                          IF Writers(r, k) = {} THEN w[k] ELSE r[order[Max(Writers(r, k))]]]
  BY DEF Written
<1> HIDE DEF w, K
<1>6. Written(r, w) = [k \in DOMAIN w |-> w[k]]
  BY <1>2, <1>3, <1>5
<1> QED BY <1>4, <1>6 DEF w

\* What an attempt has left when it ended.
LEMMA AttemptSolves ==
    ASSUME RunInv, ValueInv, NoFeedback
    PROVE  /\ Solves(results, before) /\ Solves(results, store)
           /\ step = "done" => DOMAIN results = Wanted
           /\ step \in {"done", "failed"} => Ended(results, store)
<1>1. DOMAIN results \subseteq Wanted /\ DOMAIN results \subseteq Nodes
  BY PreviewAncestors DEF PreviewExecutesAncestors, Wanted, RunInv, ResultsExact
<1>2. \A n : Settled(n)
  BY DEF Settled
<1>3. \A n \in Nodes : Computed(n, results, store) = Computed(n, results, before)
  BY <1>2, SettledStore DEF ValueInv
<1>4. Solves(results, before)
  BY <1>1, <1>2, ResultsClosed DEF Solves, ValueInv, ResultsComputed
<1>5. Solves(results, store)
  BY <1>1, <1>3, <1>4 DEF Solves
<1>6. step = "done" => DOMAIN results = Wanted
  BY UpstreamIsAncestors DEF Wanted, RunInv, ResultsExact
<1>7. ASSUME step = "failed" PROVE Ended(results, store)
  <2>1. /\ phase = "accepted" /\ Current \in Nodes /\ Current \notin DOMAIN results
        /\ Sources(Current) \subseteq DOMAIN results /\ Asked(Current)
    BY <1>7, SourcesThere DEF RunInv, ResultsExact
  <2>2. Current \in Wanted
    BY <1>7, <2>1, UpstreamIsAncestors DEF Wanted, Asked
  <2>3. ~Computed(Current, results, store).ok
    BY <1>2, <1>3, <1>7, <2>1 DEF ValueInv, ResultsComputed
  <2>4. DOMAIN results = {n \in Wanted : \E j \in 1 .. at - 1 : order[j] = n}
    <3>1. \A n \in Nodes : Asked(n) <=> n \in Wanted
      BY <1>7, UpstreamIsAncestors DEF Wanted, Asked
    <3>2. Wanted \subseteq Nodes
      BY DEF Wanted, Ancestors
    <3> QED BY <3>1, <3>2 DEF RunInv, ResultsExact
  <2>5. at \in 1 .. Len(order)
    <3>1. at \in 1 .. Len(order) + 1 /\ at <= Len(order)
      BY <1>7 DEF RunInv, ResultsExact
    <3>2. Len(order) \in Nat
      BY <2>1, AcceptedOrder
    <3> QED BY <3>1, <3>2
  <2> QED BY <2>1, <2>2, <2>3, <2>4, <2>5 DEF Ended, StoppedAt, Current
<1> QED BY <1>4, <1>5, <1>6, <1>7 DEF Ended

\* The same for results remembered from an earlier attempt.
LEMMA ComputedRigid ==
    ASSUME UNCHANGED graph, NEW r
    PROVE  \A n : Computed(n, r, before)' = Computed(n, r, before')
<1>1. \A n : Gathered(n, r)' = Gathered(n, r)
  BY NodeStays DEF Gathered
<1> QED BY <1>1, NodeStays DEF Computed

\* Whether a dict is a solution and what it writes is up to the graph, the
\* request and the order.
LEMMA SolvesStays ==
    ASSUME UNCHANGED <<graph, call, order>>, NEW r
    PROVE  /\ Solves(r, before)' <=> Solves(r, before')
           /\ Ended(r, before)' <=> Ended(r, before')
           /\ Written(r, before)' = Written(r, before')
           /\ NoFeedback' = NoFeedback
<1>1. Wanted' = Wanted /\ \A n : Sources(n)' = Sources(n)
  BY WantedStays, GraphStays
<1>2. \A n : Computed(n, r, before)' = Computed(n, r, before')
  BY ComputedRigid
<1>3. \A kind : OfKind(kind)' = OfKind(kind)
  BY NodeStays
<1>4. \A k : Writers(r, k)' = Writers(r, k)
  BY <1>3 DEF Writers
<1>5. Solves(r, before)' <=> Solves(r, before')
  BY <1>1, <1>2 DEF Solves
<1>6. Ended(r, before)' <=> Ended(r, before')
  <2>1. \A i : StoppedAt(i, r, before)' <=> StoppedAt(i, r, before')
    BY <1>1, <1>2 DEF StoppedAt
  <2> QED BY <1>1, <2>1 DEF Ended
<1>7. Written(r, before)' = Written(r, before')
  BY <1>3, <1>4 DEF Written
<1>8. NoFeedback' = NoFeedback
  BY NodeStays
<1> QED BY <1>5, <1>6, <1>7, <1>8

\* Starting again is remembering what was computed.
LEMMA RepeatsNext == RunInv /\ ValueInv /\ Repeats /\ [Next]_vars => Repeats'
<1> SUFFICES ASSUME RunInv, ValueInv, Repeats, [Next]_vars, runs' > 1, NoFeedback'
             PROVE  /\ phase' = "accepted"
                    /\ \E r : (Solves(r, before) /\ Ended(r, before) /\ before = Written(r, before))'
  BY DEF Repeats
<1>1. UNCHANGED <<graph, call>>
  BY DEF Next, RunStep, Build, Retry, vars, kahnVars, runVars, KahnNext, RejectUnknownNode,
     CountIndegrees, ScanNode, EndScan, PopReady, RelaxEdge, Accept, RaiseCycleError,
     StartRun, RejectUnknownTarget, StartPreview, Visit, EndVisit, SkipNode, ExecuteNode,
     FailNode, FinishRun
<1>2. NoFeedback
  BY <1>1, NodeStays
<1>3. CASE Retry
  <2>1. /\ step \in {"done", "failed"} /\ before' = store /\ UNCHANGED <<order, phase>>
    BY <1>3 DEF Retry, kahnVars
  <2>2. phase = "accepted"
    BY <2>1 DEF RunInv
  <2>3. PICK r : r = results
    OBVIOUS
  <2>4. Solves(r, store) /\ Ended(r, store)
    BY <1>2, <2>1, <2>3, AttemptSolves
  <2>5. store = Written(r, store)
    BY <2>3, WrittenTwice DEF ValueInv, StoreExact
  <2>6. (Solves(r, before) /\ Ended(r, before) /\ before = Written(r, before))'
    BY <1>1, <2>1, <2>4, <2>5, SolvesStays
  <2> QED BY <2>1, <2>2, <2>6
<1>4. CASE UNCHANGED <<before, runs>> /\ (phase = "accepted" => UNCHANGED <<phase, order>>)
  <2>1. phase = "accepted"
    BY <1>2, <1>4 DEF Repeats
  <2>2. PICK r : Solves(r, before) /\ Ended(r, before) /\ before = Written(r, before)
    BY <1>2, <1>4 DEF Repeats
  <2>3. (Solves(r, before) /\ Ended(r, before) /\ before = Written(r, before))'
    BY <1>1, <1>4, <2>1, <2>2, SolvesStays
  <2> QED BY <1>4, <2>1, <2>3
<1>5. \/ Retry
      \/ UNCHANGED <<before, runs>> /\ (phase = "accepted" => UNCHANGED <<phase, order>>)
  BY DEF Next, RunStep, Build, vars, kahnVars, runVars, KahnNext, RejectUnknownNode,
     CountIndegrees, ScanNode, EndScan, PopReady, RelaxEdge, Accept, RaiseCycleError,
     StartRun, RejectUnknownTarget, StartPreview, Visit, EndVisit, SkipNode, ExecuteNode,
     FailNode, FinishRun
<1> QED BY <1>3, <1>4, <1>5

\* An attempt ends as the one before it did.
LEMMA RepeatsIdempotent == RunInv /\ ValueInv /\ Repeats => RetryIsIdempotent
<1> SUFFICES ASSUME RunInv, ValueInv, Repeats, NoFeedback, runs > 1,
                    step = "done" \/ step = "failed"
             PROVE  store = before
  BY DEF RetryIsIdempotent, RetryChangesNothing
<1>1. PICK r : Solves(r, before) /\ Ended(r, before) /\ before = Written(r, before)
  BY DEF Repeats
<1>2. phase = "accepted"
  BY DEF Repeats
<1>3. Solves(results, before) /\ Ended(results, before)
  <2>1. Solves(results, before) /\ Solves(results, store) /\ Ended(results, store)
    BY AttemptSolves
  <2>2. \A n \in Nodes : Computed(n, results, store) = Computed(n, results, before)
    BY SettledStore DEF ValueInv, Settled
  <2>3. \A i \in 1 .. Len(order) : StoppedAt(i, results, store) => StoppedAt(i, results, before)
    <3>1. Wanted \subseteq Nodes
      BY DEF Wanted, Ancestors
    <3> QED BY <2>2, <3>1 DEF StoppedAt
  <2> QED BY <2>1, <2>3 DEF Ended
<1>4. DOMAIN r = DOMAIN results /\ \A n \in DOMAIN r : r[n] = results[n]
  BY <1>1, <1>2, <1>3, AllOrNothing
<1>5. Written(r, before) = Written(results, before)
  BY <1>4, SameWrites
<1> QED BY <1>1, <1>5 DEF ValueInv, StoreExact

\* A request that is made again after any number of attempts leaves the store
\* as it found it, unless a key is both read and written.
THEOREM RetriesAreIdempotent == Spec => []RetryIsIdempotent
<1>1. Init => Repeats
  <2> SUFFICES ASSUME Init PROVE ~(runs > 1)
    BY DEF Repeats
  <2> QED BY DEF Init
<1>2. RunInv /\ ValueInv /\ Repeats /\ [Next]_vars => Repeats'
  BY RepeatsNext
<1>3. RunInv /\ ValueInv /\ Repeats => RetryIsIdempotent
  BY RepeatsIdempotent
<1> QED BY <1>1, <1>2, <1>3, RunInvariant, ValueInvariant, PTL DEF Spec

=============================================================================
