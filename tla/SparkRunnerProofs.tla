-------------------------- MODULE SparkRunnerProofs --------------------------
(***************************************************************************)
(* Proofs about SparkRunner, for every graph, connector and request and    *)
(* whatever Spark makes of the frames: the loop over the nodes keeps the   *)
(* invariant of PipelineRunner, with the consequences it has there.        *)
(***************************************************************************)
EXTENDS SparkRunner, PipelineRunnerProofs

\* An executed or failing node changes the loop's variables as with pandas.
LEMMA SparkNodeDone == SparkExecuteNode => NodeDone
  BY DEF SparkExecuteNode, AtNode, AtTarget, Put, NodeDone

\* A node that fails, or has no session, fails its request.
LEMMA SparkNodeRaised == SparkFailNode => NodeRaised
  BY DEF SparkFailNode, AtNode, NodeRaised

\* A step that changes no variable of the request is a stutter of it.
LEMMA SparkStutter == UNCHANGED sparkVars => UNCHANGED vars
  BY DEF sparkVars

\* Every step of a Spark request keeps the invariant.
LEMMA SparkNextInv == RunInv /\ [SparkNext]_sparkVars => RunInv'
<1> SUFFICES ASSUME RunInv, [SparkNext]_sparkVars PROVE RunInv'
  OBVIOUS
<1>1. CASE Shared
  BY <1>1, BuildInv, StartInv, StartPreviewInv, VisitInv, EndVisitInv, SkipNodeInv,
     FinishRunInv DEF Shared
<1>2. CASE SparkExecuteNode
  BY <1>2, SparkNodeDone, NodeDoneInv
<1>3. CASE SparkFailNode
  BY <1>3, SparkNodeRaised, NodeRaisedInv
<1>4. CASE UNCHANGED sparkVars
  BY <1>4, SparkStutter, RunStutterInv
<1> QED BY <1>1, <1>2, <1>3, <1>4 DEF SparkNext

\* The inductive invariant of a request, under the Spark runner.
THEOREM SparkRunInvariant == SparkSpec => []RunInv
<1>1. SparkInit => RunInv
  BY RunInitInv DEF SparkInit
<1>2. RunInv /\ [SparkNext]_sparkVars => RunInv'
  BY SparkNextInv
<1> QED BY <1>1, <1>2, PTL DEF SparkSpec

\* The Spark runner never meets a missing spark_dfs[e.source].
THEOREM SparkInputsAvailable == SparkSpec => []InputsAvailable
<1> QED BY InputsThere, SparkRunInvariant, PTL

\* A Spark preview builds plans for the target's ancestors only, and for all
\* of them before it returns.
THEOREM SparkPreviewIsExact == SparkSpec => []PreviewExecutesAncestors
<1> QED BY PreviewAncestors, SparkRunInvariant, PTL

\* Every step of a Spark request is a step of DagRun or none.
LEMMA SparkPromiseNext ==
    RunInv /\ [SparkNext]_sparkVars => [Promise!DagNext]_(Promise!dagVars)
<1> SUFFICES ASSUME RunInv, [SparkNext]_sparkVars
             PROVE  [Promise!DagNext]_(Promise!dagVars)
  OBVIOUS
<1>1. CASE Shared
  BY <1>1, PromiseBuild, PromiseStart, PromiseSkip, PromiseFinish DEF Shared
<1>2. CASE SparkExecuteNode
  BY <1>2, SparkNodeDone, PromiseExecute
<1>3. CASE SparkFailNode
  BY <1>3, SparkNodeRaised, PromiseFail
<1>4. CASE UNCHANGED sparkVars
  BY <1>4, SparkStutter, PromiseSkip
<1> QED BY <1>1, <1>2, <1>3, <1>4 DEF SparkNext

\* The Spark runner implements the same abstract promise.
THEOREM SparkKeepsPromise == SparkSpec => KeepsPromise
<1>1. SparkInit => Promise!DagInit
  BY PromiseInit DEF SparkInit
<1>2. RunInv /\ [SparkNext]_sparkVars => [Promise!DagNext]_(Promise!dagVars)
  BY SparkPromiseNext
<1> QED BY <1>1, <1>2, SparkRunInvariant, PTL DEF SparkSpec, KeepsPromise, Promise!DagSpec

-----------------------------------------------------------------------------
(***************************************************************************)
(* What the nodes make of plans                                            *)
(***************************************************************************)

\* The rows before the first misfit are rows; without a misfit they are all
\* there are.
LEMMA FittingFacts ==
    ASSUME NEW rows \in Seq(Row)
    PROVE  /\ FittingRows(rows) \in Seq(Row)
           /\ (\A i \in DOMAIN rows : rows[i] \notin BrokenRows) => FittingRows(rows) = rows
<1> DEFINE misfits == {i \in DOMAIN rows : rows[i] \in BrokenRows}
<1>1. DOMAIN rows = 1 .. Len(rows) /\ Len(rows) \in Nat /\ misfits \in SUBSET Nat
  OBVIOUS
<1>2. CASE misfits = {}
  BY <1>2 DEF FittingRows
<1>3. CASE misfits # {}
  <2>1. Min(misfits) \in misfits
    BY <1>1, <1>3, MinOfPositions
  <2>2. FittingRows(rows) = SubSeq(rows, 1, Min(misfits) - 1)
    BY <1>3 DEF FittingRows
  <2> DEFINE m == Min(misfits) - 1
  <2>3. m \in Int /\ m <= Len(rows)
    BY <1>1, <2>1
  <2>4. rows[Min(misfits)] \in BrokenRows /\ Min(misfits) \in DOMAIN rows
    BY <2>1
  <2> HIDE DEF m, misfits
  <2>5. SubSeq(rows, 1, m) \in Seq(Row)
    BY <2>3, SubSeqFacts
  <2> QED BY <2>2, <2>4, <2>5 DEF m
<1> QED BY <1>2, <1>3

\* What a plan-building function returns is its plan.
LEMMA OutcomesOf ==
    ASSUME NEW fits, NEW plan, NEW outcome \in Outcomes(fits, plan), outcome.ok
    PROVE  outcome.frame = plan
  BY DEF Outcomes, Returned, Raised

\* Spark refuses only what does not fit.
LEMMA OutcomeRefused ==
    ASSUME NEW fits, NEW plan, NEW outcome \in Outcomes(fits, plan), ~outcome.ok
    PROVE  ~fits
  BY DEF Outcomes, Returned

\* What is cast to null did not fit.
LEMMA CastsOf ==
    ASSUME NEW fits, NEW plan, NEW outcome \in Casts(fits, plan)
    PROVE  ~fits /\ outcome.ok /\ outcome.frame = plan
  BY DEF Casts, Returned

\* What a plan is made of.
LEMMA PlanIs ==
    ASSUME NEW data, NEW sound
    PROVE  /\ Plan(data, sound).data = data /\ Plan(data, sound).sound = sound
           /\ data \in FrameSet /\ sound \in BOOLEAN => Plan(data, sound) \in PlanSet
  BY DEF Plan, PlanSet

\* A frame and its parts.
LEMMA FrameIs ==
    ASSUME NEW columns \in SUBSET Column, NEW rows \in Seq(Row)
    PROVE  DataFrame(columns, rows) \in FrameSet
  BY DEF DataFrame, FrameSet

\* What Spark does not resolve has no frame, if it returns at all.
LEMMA NotResolvedIs ==
    ASSUME NEW outcome \in NotResolved, outcome.ok
    PROVE  outcome.frame \in PlanSet /\ ~outcome.frame.sound
<1>1. outcome.frame = Unresolved
  BY DEF NotResolved, Raised, Returned
<1> DEFINE none == DataFrame({}, <<>>)
<1>2. none \in FrameSet
  BY DEF DataFrame, FrameSet
<1>3. Unresolved = Plan(none, FALSE)
  BY DEF Unresolved
<1> HIDE DEF none
<1>4. Plan(none, FALSE) \in PlanSet /\ ~Plan(none, FALSE).sound
  BY <1>2 DEF Plan, PlanSet
<1> QED BY <1>1, <1>3, <1>4

\* Every kind of join of frames is a frame, without any the columns are.
LEMMA SparkMergeTyped ==
    ASSUME NEW l \in FrameSet, NEW r \in FrameSet, NEW how \in MergeKinds \cup SparkKinds
    PROVE  /\ SparkMerge(l, r, how) \in FrameSet
           /\ DataFrame(SparkMerge(l, r, how).columns, <<>>) \in FrameSet
<1>1. SparkMerge(l, r, how) \in FrameSet
  <2>1. CASE how \in SparkKinds
    <3> DEFINE rows == Taken(l.rows, {i \in DOMAIN l.rows : (Matches(l.rows[i], r.rows) > 0) = (how = "semi")})
    <3>1. l.columns \in SUBSET Column /\ l.rows \in Seq(Row)
      BY DEF FrameSet
    <3>2. rows \in Seq(Row)
      BY <3>1, TakenTyped
    <3>3. SparkMerge(l, r, how) = DataFrame(l.columns, rows)
      BY <2>1 DEF SparkMerge, SemiJoined
    <3> HIDE DEF rows
    <3> QED BY ONLY <3>1, <3>2, <3>3, FrameIs
  <2>2. CASE how \notin SparkKinds
    <3>1. how \in MergeKinds
      BY <2>2
    <3> QED BY <2>2, <3>1, MergeTyped DEF SparkMerge
  <2> QED BY <2>1, <2>2
<1>2. SparkMerge(l, r, how).columns \in SUBSET Column
  BY <1>1 DEF FrameSet
<1>3. <<>> \in Seq(Row)
  OBVIOUS
<1> QED BY ONLY <1>1, <1>2, <1>3, FrameIs

\* A node makes a plan of plans.
LEMMA PlanMade ==
    ASSUME RunInv, PlansTyped, NEW node, Built(node), NEW inputs, inputs.frames \in Seq(PlanSet),
           NEW n \in Nat, DOMAIN inputs.names = 1 .. n, DOMAIN inputs.frames = 1 .. n,
           NEW outcome \in SparkOutcomes(node, inputs), outcome.ok
    PROVE  outcome.frame \in PlanSet
<1> DEFINE f == inputs.frames
<1>1. ASSUME NEW p \in PlanSet
      PROVE  /\ p.data \in FrameSet /\ p.data.rows \in Seq(Row) /\ p.data.columns \in SUBSET Column
             /\ p.sound \in BOOLEAN /\ Usable(p) \in BOOLEAN
  BY DEF PlanSet, FrameSet, Usable, Fits
<1>2. ~Raised.ok /\ \A x : Returned(x).frame = x
  BY DEF Raised, Returned
<1>3. CASE node.kind = "input"
  <2>1. outcome \in LazyRead(inputs, node.key)
    BY <1>3 DEF SparkOutcomes
  <2>2. node.key \in DOMAIN store /\ outcome.frame = Plan(store[node.key], TRUE)
    BY <2>1, <1>2, OutcomesOf DEF LazyRead
  <2>3. store[node.key] \in FrameSet /\ TRUE \in BOOLEAN
    BY <2>2 DEF PlansTyped
  <2> QED BY ONLY <2>2, <2>3, PlanIs
<1>4. CASE node.kind = "filter"
  <2>1. Len(f) = 1 /\ outcome \in LazyFilter(f[1])
    BY <1>2, <1>4 DEF SparkOutcomes
  <2> DEFINE p == f[1]
  <2>2. p \in PlanSet
    BY <2>1
  <2> HIDE DEF p
  <2>3. \/ outcome.frame = FilterPlan(p, FittingRows(p.data.rows), Usable(p))
        \/ outcome.frame = FilterPlan(p, p.data.rows, p.sound)
    BY <1>2, <2>1, OutcomesOf, CastsOf DEF LazyFilter, p
  <2>4. FittingRows(p.data.rows) \in Seq(Row) /\ p.data.rows \in Seq(Row)
    BY <1>1, <2>2, FittingFacts
  <2>5. ASSUME NEW rows \in Seq(Row), NEW sound \in BOOLEAN
        PROVE  FilterPlan(p, rows, sound) \in PlanSet
    <3>1. Kept(rows) \in Seq(Row)
      BY TakenTyped DEF Kept
    <3>2. p.data.columns \in SUBSET Column
      BY <1>1, <2>2
    <3>3. DataFrame(p.data.columns, Kept(rows)) \in FrameSet
      BY ONLY <3>1, <3>2, FrameIs
    <3> QED BY <3>3, PlanIs DEF FilterPlan
  <2>6. p.sound \in BOOLEAN /\ Usable(p) \in BOOLEAN
    BY <1>1, <2>2
  <2> QED BY ONLY <2>3, <2>4, <2>5, <2>6
<1>5. CASE node.kind = "transform"
  <2>1. Len(f) = 1 /\ outcome \in LazyTransform(node, f[1])
    BY <1>2, <1>5 DEF SparkOutcomes
  <2> DEFINE p == f[1]
  <2>2. p \in PlanSet
    BY <2>1
  <2> HIDE DEF p
  <2>3. outcome.frame = TransformPlan(node, p) \/ outcome \in NotResolved
    BY <2>1, OutcomesOf DEF LazyTransform, p
  <2>4. TransformPlan(node, p) \in PlanSet
    <3> DEFINE columns == BeforeDrop(node, p.data.columns) \ node.drop
    <3>1. columns \in SUBSET Column /\ Projection(p.data.rows) \in Seq(Row) /\ p.sound \in BOOLEAN
      BY <1>1, <2>2, BeforeDropTyped, ProjectionTyped
    <3> HIDE DEF columns
    <3>2. DataFrame(columns, Projection(p.data.rows)) \in FrameSet
      BY ONLY <3>1, FrameIs
    <3> QED BY <3>1, <3>2, PlanIs DEF TransformPlan, columns
  <2> QED BY <2>3, <2>4, NotResolvedIs
<1>6. CASE node.kind = "union"
  <2> DEFINE unsound == {i \in DOMAIN f : ~f[i].sound}
             last == IF unsound = {} THEN Len(f) ELSE Min(unsound)
             parts == [i \in 1 .. last |-> f[i].data.rows]
  <2>1. Len(f) >= 2 /\ outcome \in LazyUnion(f)
    BY <1>2, <1>6 DEF SparkOutcomes
  <2>2. \/ outcome.frame = Plan(DataFrame(f[1].data.columns, FlattenSeq(parts)), unsound = {})
        \/ outcome \in NotResolved
    BY <2>1, OutcomesOf DEF LazyUnion
  <2>3. 1 \in DOMAIN f
    BY <2>1
  <2>4. last \in Nat /\ 1 .. last \subseteq DOMAIN f
    <3>1. DOMAIN f = 1 .. Len(f) /\ Len(f) \in Nat /\ unsound \in SUBSET Nat
      OBVIOUS
    <3>2. CASE unsound = {}
      BY <3>1, <3>2
    <3>3. CASE unsound # {}
      <4>1. Min(unsound) \in DOMAIN f
        <5> HIDE DEF f
        <5> QED BY <3>1, <3>3, MinOfPositions
      <4>2. last = Min(unsound)
        BY <3>3
      <4> HIDE DEF f, last, unsound
      <4> QED BY ONLY <3>1, <4>1, <4>2
    <3> QED BY <3>2, <3>3
  <2>5. parts \in Seq(Seq(Row))
    <3>1. \A i \in DOMAIN f : f[i].data.rows \in Seq(Row)
      BY <1>1
    <3> HIDE DEF last, f
    <3> QED BY <2>4, <3>1
  <2>6. FlattenSeq(parts) \in Seq(Row)
    <3> HIDE DEF parts
    <3> QED BY <2>5, FlattenTyped
  <2>7. f[1].data.columns \in SUBSET Column /\ (unsound = {}) \in BOOLEAN
    BY <1>1, <2>3
  <2> HIDE DEF parts, unsound
  <2>8. DataFrame(f[1].data.columns, FlattenSeq(parts)) \in FrameSet
    BY ONLY <2>6, <2>7, FrameIs
  <2>9. Plan(DataFrame(f[1].data.columns, FlattenSeq(parts)), unsound = {}) \in PlanSet
    BY ONLY <2>7, <2>8, PlanIs
  <2> QED BY <2>2, <2>9, NotResolvedIs
<1>7. CASE node.kind = "join"
  <2> DEFINE l == Sides(inputs)[1]
             r == Sides(inputs)[2]
             fits == Usable(l) /\ Usable(r)
             joined == SparkMerge(l.data, r.data, node.how)
  <2>1. Sides(inputs) # <<>> /\ outcome \in LazyJoin(Sides(inputs), node.how)
    BY <1>2, <1>7 DEF SparkOutcomes
  <2>2. l \in PlanSet /\ r \in PlanSet
    BY <2>1, SidesTyped
  <2>3. \/ /\ node.how \in MergeKinds \cup SparkKinds
           /\ \/ outcome.frame = Plan(joined, TRUE)
              \/ outcome.frame = Plan(DataFrame(joined.columns, <<>>), FALSE)
              \/ outcome.frame = Plan(joined, l.sound /\ r.sound)
        \/ outcome \in NotResolved
    <3> HIDE DEF l, r
    <3>1. outcome \in LazyJoin(<<l, r>>, node.how) \/ outcome \in LazyJoin(Sides(inputs), node.how)
      BY <2>1
    <3> USE DEF l, r
    <3>2. \/ /\ node.how \in MergeKinds \cup SparkKinds
             /\ \/ outcome \in Outcomes(fits, IF fits THEN Plan(joined, TRUE)
                                              ELSE Plan(DataFrame(joined.columns, <<>>), FALSE))
                \/ outcome \in Casts(Fits(l.data) /\ Fits(r.data), Plan(joined, l.sound /\ r.sound))
          \/ outcome \in NotResolved
      BY <2>1 DEF LazyJoin
    <3> HIDE DEF l, r, joined, fits
    <3> QED BY <3>2, OutcomesOf, CastsOf
  <2> HIDE DEF l, r
  <2>4. node.how \in MergeKinds \cup SparkKinds =>
          joined \in FrameSet /\ DataFrame(joined.columns, <<>>) \in FrameSet
    BY <1>1, <2>2, SparkMergeTyped
  <2>5. TRUE \in BOOLEAN /\ FALSE \in BOOLEAN /\ (l.sound /\ r.sound) \in BOOLEAN
    BY <1>1, <2>2
  <2> HIDE DEF joined
  <2>6. CASE outcome \in NotResolved
    BY <2>6, NotResolvedIs
  <2>7. CASE outcome \notin NotResolved
    <3>1. joined \in FrameSet /\ DataFrame(joined.columns, <<>>) \in FrameSet
      BY <2>3, <2>4, <2>7
    <3>2. /\ Plan(joined, TRUE) \in PlanSet
          /\ Plan(DataFrame(joined.columns, <<>>), FALSE) \in PlanSet
          /\ Plan(joined, l.sound /\ r.sound) \in PlanSet
      BY ONLY <2>5, <3>1, PlanIs
    <3> QED BY <2>3, <2>7, <3>2
  <2> QED BY <2>6, <2>7
<1>8. CASE node.kind = "output"
  <2>1. Len(f) = 1 /\ outcome.frame = f[1]
    BY <1>2, <1>8 DEF SparkOutcomes, Collect
  <2> QED BY <2>1
<1> QED BY <1>3, <1>4, <1>5, <1>6, <1>7, <1>8 DEF Kinds, Built

-----------------------------------------------------------------------------
(***************************************************************************)
(* The invariant about the plans of a request                              *)
(***************************************************************************)

\* What a node is handed are plans.
LEMMA PlansGiven ==
    ASSUME RunInv, PlansTyped, AtNode
    PROVE  \E m \in Nat : /\ Inputs(Current).frames \in Seq(PlanSet)
                          /\ DOMAIN Inputs(Current).frames = 1 .. m
                          /\ DOMAIN Inputs(Current).names = 1 .. m
<1>1. \A s \in Sources(Current) : results[s] \in PlanSet
  BY AtTurn DEF AtNode, PlansTyped
<1>2. /\ Inputs(Current).frames \in Seq(PlanSet)
      /\ DOMAIN Inputs(Current).names = DOMAIN Inputs(Current).frames
  BY <1>1, GatheredTyped, RouteTyped DEF Inputs, Frames
<1> DEFINE m == Len(Inputs(Current).frames)
<1>3. m \in Nat /\ DOMAIN Inputs(Current).frames = 1 .. m
  BY <1>2
<1> QED BY <1>2, <1>3

\* What it adds is a plan.
LEMMA PlanAdded ==
    ASSUME RunInv, PlansTyped, AtNode,
           NEW outcome \in SparkOutcomes(graph.def[Current], Inputs(Current)), outcome.ok
    PROVE  outcome.frame \in PlanSet
<1>1. PICK m \in Nat : /\ Inputs(Current).frames \in Seq(PlanSet)
                       /\ DOMAIN Inputs(Current).frames = 1 .. m
                       /\ DOMAIN Inputs(Current).names = 1 .. m
  BY PlansGiven
<1>2. Built(graph.def[Current])
  BY AtTurn, GraphKnown DEF AtNode
<1> QED BY <1>1, <1>2, PlanMade

\* The steps the two engines share are not about frames.
LEMMA SharedQuiet == Shared \/ UNCHANGED sparkVars => Quiet /\ UNCHANGED session
  BY SparkStutter DEF Shared, Quiet, sparkVars

\* What an executed node changes.
LEMMA SparkExecuteFacts ==
    ASSUME SparkExecuteNode
    PROVE  /\ AtNode /\ step = "executing" /\ at <= Len(order) /\ Asked(Current)
           /\ \E outcome \in SparkOutcomes(graph.def[Current], Inputs(Current)) :
                /\ outcome.ok
                /\ AtTarget => MayShow(outcome.frame)
                /\ results' = Put(results, Current, outcome.frame)
                /\ WriteThrough(Current, outcome.frame.data)
                /\ IF AtTarget
                   THEN step' = "done" /\ output' = HeadRows(outcome.frame.data.rows, call.limit)
                   ELSE UNCHANGED <<step, output>>
           /\ LogsNode("succeeded")
           /\ at' = at + 1 /\ session' = "open"
           /\ UNCHANGED <<kahnVars, call, toVisit, upstream, before, runs>>
<1>1. LogsNode("succeeded")
  BY DEF SparkExecuteNode, LogsNode
<1> QED BY <1>1 DEF SparkExecuteNode, AtNode

\* What a failing node changes.
LEMMA SparkFailFacts ==
    ASSUME SparkFailNode
    PROVE  /\ AtNode /\ step = "executing" /\ at <= Len(order) /\ Asked(Current)
           /\ LogsNode("failed")
           /\ step' = "failed"
           /\ UNCHANGED <<kahnVars, call, toVisit, upstream, at, results, output, store,
                          before, runs, session>>
<1>1. LogsNode("failed")
  BY DEF SparkFailNode, LogsNode
<1> QED BY <1>1 DEF SparkFailNode, AtNode

\* A request starts without a plan.
LEMMA SparkStart == SparkInit => SparkInv
<1> SUFFICES ASSUME SparkInit PROVE SparkInv
  OBVIOUS
<1>1. Init
  BY DEF SparkInit
<1>2. RequestKnown /\ LogGrows
  BY <1>1, RequestInit, LogInit
<1>3. store \in [DOMAIN store -> FrameSet] /\ before = store /\ results = NoDict
  BY <1>1, RunnerAssumption DEF Init
<1>4. DOMAIN results = {} /\ DOMAIN DataOf = {}
  BY <1>3 DEF NoDict, DataOf
<1>5. PlansTyped
  BY <1>3, <1>4 DEF PlansTyped, SparkInit
<1>6. DataWritten
  BY <1>3, <1>4, NothingWritten DEF DataWritten
<1> QED BY <1>2, <1>5, <1>6 DEF SparkInv

\* The request stays known.
LEMMA SparkRequestNext == RequestKnown /\ [SparkNext]_sparkVars => RequestKnown'
<1> SUFFICES ASSUME RequestKnown, [SparkNext]_sparkVars PROVE RequestKnown'
  OBVIOUS
<1>1. UNCHANGED <<call, runs>>
  BY DEF SparkNext, Shared, Build, runVars, vars, sparkVars, StartRun, RejectUnknownTarget,
     StartPreview, Visit, EndVisit, SkipNode, FinishRun, SparkExecuteNode, SparkFailNode
<1> QED BY <1>1 DEF RequestKnown

\* The log grows as with pandas, but for the numbers of rows.
LEMMA SparkLogNext == RunInv /\ LogGrows /\ [SparkNext]_sparkVars => LogGrows'
<1> SUFFICES ASSUME RunInv, LogGrows, [SparkNext]_sparkVars PROVE LogGrows'
  OBVIOUS
<1>1. CASE Shared \/ UNCHANGED sparkVars
  BY <1>1, SharedQuiet, LogQuiet
<1>2. CASE SparkExecuteNode
  <2>1. /\ LogsNode("succeeded") /\ step = "executing" /\ at <= Len(order) /\ Asked(Current)
        /\ UNCHANGED <<kahnVars, call>> /\ at' = at + 1
    BY <1>2, SparkExecuteFacts
  <2>2. step' # "failed" /\ (step' = "done" => Previewing)
    BY <1>2, SparkExecuteFacts DEF AtTarget
  <2> QED BY <2>1, <2>2, LogNode
<1>3. CASE SparkFailNode
  <2>1. /\ LogsNode("failed") /\ step = "executing" /\ at <= Len(order) /\ Asked(Current)
        /\ UNCHANGED <<kahnVars, call>> /\ at' = at /\ step' = "failed"
    BY <1>3, SparkFailFacts
  <2> QED BY <2>1, LogNode
<1> QED BY <1>1, <1>2, <1>3 DEF SparkNext

\* Plans are made of plans, in a session.
LEMMA PlansNext == RunInv /\ PlansTyped /\ [SparkNext]_sparkVars => PlansTyped'
<1> SUFFICES ASSUME RunInv, PlansTyped, [SparkNext]_sparkVars PROVE PlansTyped'
  OBVIOUS
<1>1. CASE Shared \/ UNCHANGED sparkVars
  <2>1. UNCHANGED <<results, store, before, session>>
    BY <1>1, SharedQuiet, QuietFacts
  <2> QED BY <2>1 DEF PlansTyped
<1>2. CASE SparkExecuteNode
  <2>1. PICK outcome \in SparkOutcomes(graph.def[Current], Inputs(Current)) :
          /\ outcome.ok /\ results' = Put(results, Current, outcome.frame)
          /\ WriteThrough(Current, outcome.frame.data)
    BY <1>2, SparkExecuteFacts
  <2> DEFINE plan == outcome.frame
  <2>2. plan \in PlanSet
    BY <1>2, <2>1, SparkExecuteFacts, PlanAdded
  <2> HIDE DEF plan
  <2>3. \A m \in DOMAIN results' : results'[m] \in PlanSet
    BY <2>1, <2>2 DEF PlansTyped, Put, plan
  <2>4. plan.data \in FrameSet
    BY <2>2 DEF PlanSet
  <2>5. store' \in [DOMAIN store' -> FrameSet]
    <3>1. store' = store \/ \E k : store' = Put(store, k, plan.data)
      BY <2>1 DEF WriteThrough, plan
    <3> QED BY <2>4, <3>1 DEF PlansTyped, Put
  <2>6. before' = before /\ session' = "open"
    BY <1>2, SparkExecuteFacts
  <2> QED BY <2>3, <2>5, <2>6 DEF PlansTyped
<1>3. CASE SparkFailNode
  BY <1>3, SparkFailFacts DEF PlansTyped
<1> QED BY <1>1, <1>2, <1>3 DEF SparkNext

\* What is written follows from graph and order.
LEMMA DataWrittenStays ==
    ASSUME UNCHANGED <<graph, order>>
    PROVE  Written(DataOf, before)' = Written(DataOf', before')
<1>1. OfKind("output")' = OfKind("output")
  BY GraphStays DEF OfKind
<1>2. \A k : Writers(DataOf, k)' = Writers(DataOf', k)
  BY <1>1 DEF Writers
<1> QED BY <1>1, <1>2 DEF Written

\* The frame of a plan is written when its node is executed.
LEMMA DataNext == RunInv /\ PlansTyped /\ DataWritten /\ [SparkNext]_sparkVars => DataWritten'
<1> SUFFICES ASSUME RunInv, PlansTyped, DataWritten, [SparkNext]_sparkVars PROVE DataWritten'
  OBVIOUS
<1>1. CASE Shared \/ UNCHANGED sparkVars
  <2>1. UNCHANGED <<graph, results, store, before>> /\ (DOMAIN results = {} \/ UNCHANGED order)
    BY <1>1, SharedQuiet, QuietFacts
  <2>2. DataOf' = DataOf
    BY <2>1 DEF DataOf
  <2>3. CASE UNCHANGED order
    BY <2>1, <2>2, <2>3, DataWrittenStays DEF DataWritten
  <2>4. CASE DOMAIN results = {}
    <3>1. DOMAIN DataOf = {} /\ DOMAIN DataOf' = {}
      BY <2>1, <2>4 DEF DataOf
    <3>2. Written(DataOf, before) = before
      BY <3>1, NothingWritten DEF PlansTyped
    <3>3. \A k : Writers(DataOf, k)' = {}
      BY <3>1 DEF Writers
    <3>4. before' \in [DOMAIN before' -> FrameSet]
      BY <2>1 DEF PlansTyped
    <3>5. Written(DataOf, before)' = before'
      BY <3>1, <3>3, <3>4 DEF Written
    <3> QED BY <2>1, <3>2, <3>5 DEF DataWritten
  <2> QED BY <2>1, <2>3, <2>4
<1>2. CASE SparkExecuteNode
  <2>1. PICK outcome \in SparkOutcomes(graph.def[Current], Inputs(Current)) :
          /\ results' = Put(results, Current, outcome.frame)
          /\ WriteThrough(Current, outcome.frame.data)
    BY <1>2, SparkExecuteFacts
  <2> DEFINE data == outcome.frame.data
  <2>2. DataOf' = Put(DataOf, Current, data) /\ DOMAIN DataOf = DOMAIN results
    BY <2>1 DEF DataOf, Put
  <2> HIDE DEF data
  <2>3. /\ step = "executing" /\ at <= Len(order) /\ Asked(Current)
        /\ UNCHANGED <<graph, order, before>>
    BY <1>2, SparkExecuteFacts DEF kahnVars
  <2>4. store' = Written(DataOf', before)
    BY <2>1, <2>2, <2>3, WriteAdds DEF DataWritten, data
  <2> QED BY <2>3, <2>4, DataWrittenStays DEF DataWritten
<1>3. CASE SparkFailNode
  <2>1. UNCHANGED <<graph, order, results, store, before>>
    BY <1>3, SparkFailFacts DEF kahnVars
  <2>2. DataOf' = DataOf
    BY <2>1 DEF DataOf
  <2> QED BY <2>1, <2>2, DataWrittenStays DEF DataWritten
<1> QED BY <1>1, <1>2, <1>3 DEF SparkNext

\* The inductive invariant about the plans of a request.
THEOREM PlanInvariant == SparkSpec => []SparkInv
<1>1. RunInv /\ SparkInv /\ [SparkNext]_sparkVars => SparkInv'
  BY SparkRequestNext, SparkLogNext, PlansNext, DataNext DEF SparkInv
<1> QED BY <1>1, SparkStart, SparkRunInvariant, PTL DEF SparkSpec

\* The variables of a Spark request keep their types.
THEOREM SparkTypes == SparkSpec => []SparkTypeOK
<1>1. RunInv /\ SparkInv => SparkTypeOK
  <2> SUFFICES ASSUME RunInv, SparkInv PROVE SparkTypeOK
    OBVIOUS
  <2>1. TypeOK
    BY TypesKept DEF SparkInv
  <2>2. \A n \in DOMAIN results : results[n].sound \in BOOLEAN
    BY DEF SparkInv, PlansTyped, PlanSet
  <2> QED BY <2>1, <2>2 DEF SparkTypeOK, SparkInv, PlansTyped
<1> QED BY <1>1, SparkRunInvariant, PlanInvariant, PTL

\* The log of a Spark run tells which nodes have been planned, in order.
THEOREM SparkLogsAreExact == SparkSpec => []LogExact
<1>1. RunInv /\ SparkInv => LogExact
  BY LogIsExact DEF SparkInv
<1> QED BY <1>1, SparkRunInvariant, PlanInvariant, PTL

-----------------------------------------------------------------------------
(***************************************************************************)
(* Plans against frames                                                    *)
(***************************************************************************)

\* A node gets plans from its sources in one engine and frames in the other,
\* at the same places and with the same names where names matter.
Alike(a, e, m) ==
    /\ a.frames \in Seq(PlanSet) /\ Len(a.frames) = m /\ DOMAIN a.names = 1 .. m
    /\ e.frames = [p \in 1 .. m |-> e.frames[p]]
    /\ \A p \in 1 .. m : a.frames[p].sound => e.frames[p] = a.frames[p].data
    /\ Named(a, "left") = Named(e, "left") /\ Named(a, "right") = Named(e, "right")

\* A sound plan of a node has the frame pandas computes, which is there unless
\* Spark let something through.
Means(plan, node, e, b) ==
    IF Execute(node, e, b).ok THEN plan.data = Execute(node, e, b).frame ELSE Lenient(node, e)

\* What pandas computes Spark plans soundly, if what the plan is made of is
\* sound and no union stands against it.
Follows(outcome, node, a, e, b) ==
    /\ outcome.ok /\ outcome.frame.sound => Means(outcome.frame, node, e, b)
    /\ Execute(node, e, b).ok =>
         \/ outcome.ok /\ outcome.frame.sound
         \/ \E p \in DOMAIN a.frames : ~a.frames[p].sound
         \/ node.kind = "union" /\ ~UnionFits(a.frames)

\* The engines find the same two sides of a join.
LEMMA SidesAlike ==
    ASSUME NEW a, NEW e, NEW m \in Nat, Alike(a, e, m)
    PROVE  \/ Sides(a) = <<>> /\ Sides(e) = <<>>
           \/ /\ Sides(a) # <<>> /\ Sides(e) # <<>>
              /\ \E i, j \in 1 .. m :
                   /\ Sides(a)[1] = a.frames[i] /\ Sides(a)[2] = a.frames[j]
                   /\ Sides(e)[1] = e.frames[i] /\ Sides(e)[2] = e.frames[j]
<1>1. Named(a, "left") \in SUBSET (1 .. m) /\ Named(a, "right") \in SUBSET (1 .. m)
  BY DEF Named, Alike
<1>2. BothNamed(a) <=> BothNamed(e)
  BY DEF BothNamed, Alike
<1>3. Len(a.frames) = m /\ Len(e.frames) = m
  BY DEF Alike
<1>4. CASE BothNamed(a)
  <2> DEFINE i == Min(Named(a, "left"))
             j == Min(Named(a, "right"))
  <2>1. Named(a, "left") \in SUBSET Nat /\ Named(a, "right") \in SUBSET Nat
    BY <1>1
  <2>2. i \in Named(a, "left") /\ j \in Named(a, "right")
    BY <1>4, <2>1, MinOfPositions DEF BothNamed
  <2>3. i \in 1 .. m /\ j \in 1 .. m
    BY <1>1, <2>2
  <2>4. Sides(a) = <<a.frames[i], a.frames[j]>> /\ Sides(e) = <<e.frames[i], e.frames[j]>>
    BY <1>2, <1>4 DEF Sides, Alike
  <2> HIDE DEF i, j
  <2> QED BY <2>3, <2>4
<1>5. CASE ~BothNamed(a)
  <2>1. CASE m = 2
    <3>1. Sides(a) = a.frames /\ Sides(e) = e.frames
      BY <1>2, <1>3, <1>5, <2>1 DEF Sides
    <3>2. Sides(a) # <<>> /\ Sides(e) # <<>>
      BY <1>3, <2>1, <3>1
    <3>3. 1 \in 1 .. m /\ 2 \in 1 .. m
      BY <2>1
    <3> QED BY <3>1, <3>2, <3>3
  <2>2. CASE m # 2
    BY <1>2, <1>3, <1>5, <2>2 DEF Sides
  <2> QED BY <2>1, <2>2
<1> QED BY <1>4, <1>5

\* A filter follows pandas.
LEMMA FilterFollows ==
    ASSUME NEW node, node.kind = "filter", NEW a, NEW e, Alike(a, e, 1), NEW b,
           NEW outcome \in LazyFilter(a.frames[1])
    PROVE  Follows(outcome, node, a, e, b)
<1> DEFINE f == a.frames[1]
           g == e.frames[1]
<1>1. Len(e.frames) = 1 /\ 1 \in DOMAIN a.frames /\ (f.sound => g = f.data)
  BY DEF Alike
<1>2. f \in PlanSet
  BY <1>1 DEF Alike
<1>3. f.data.rows \in Seq(Row) /\ f.sound \in BOOLEAN
  BY <1>2 DEF PlanSet, FrameSet
<1> HIDE DEF f, g
<1>4. Execute(node, e, b) = IF ConditionColumns \subseteq g.columns /\ Fits(g)
                            THEN Returned(DataFrame(g.columns, Kept(g.rows))) ELSE Raised
  BY <1>1 DEF Execute, Filter, g
<1>5. ~Raised.ok /\ \A x : Returned(x).ok /\ Returned(x).frame = x
  BY DEF Raised, Returned
<1>6. CASE f.sound /\ ConditionColumns \subseteq f.data.columns /\ Fits(f.data)
  <2>1. Usable(f) /\ FittingRows(f.data.rows) = f.data.rows
    BY <1>3, <1>6, FittingFacts DEF Usable, Fits
  <2>2. outcome \in Outcomes(TRUE, FilterPlan(f, f.data.rows, TRUE)) \cup Casts(TRUE, FilterPlan(f, f.data.rows, TRUE))
    BY <1>3, <1>6, <2>1 DEF LazyFilter, f
  <2>3. outcome = Returned(FilterPlan(f, f.data.rows, TRUE))
    BY <2>2 DEF Outcomes, Casts
  <2>4. /\ FilterPlan(f, f.data.rows, TRUE).sound
        /\ FilterPlan(f, f.data.rows, TRUE).data = DataFrame(f.data.columns, Kept(f.data.rows))
    BY PlanIs DEF FilterPlan
  <2>5. Execute(node, e, b) = Returned(DataFrame(f.data.columns, Kept(f.data.rows)))
    BY <1>1, <1>4, <1>6
  <2> QED BY <1>5, <2>3, <2>4, <2>5 DEF Follows, Means
<1>7. CASE f.sound /\ ~(ConditionColumns \subseteq f.data.columns /\ Fits(f.data))
  <2>1. ~Execute(node, e, b).ok
    BY <1>1, <1>4, <1>5, <1>7
  <2>2. CASE ConditionColumns \subseteq f.data.columns
    <3>1. Lenient(node, e)
      BY <1>1, <1>7, <2>2 DEF Lenient, g
    <3> QED BY <2>1, <3>1 DEF Follows, Means
  <2>3. CASE ~(ConditionColumns \subseteq f.data.columns)
    <3>1. outcome = Raised
      BY <2>3 DEF LazyFilter, f
    <3> QED BY <1>5, <2>1, <3>1 DEF Follows
  <2> QED BY <2>2, <2>3
<1>8. CASE ~f.sound
  <2>1. ~(outcome.ok /\ outcome.frame.sound)
    <3>1. ~Usable(f)
      BY <1>8 DEF Usable
    <3>2. ~outcome.ok \/ outcome.frame = FilterPlan(f, FittingRows(f.data.rows), Usable(f))
            \/ outcome.frame = FilterPlan(f, f.data.rows, f.sound)
      BY <1>5, OutcomesOf, CastsOf DEF LazyFilter, f
    <3>3. \A rows, s : FilterPlan(f, rows, s).sound = s
      BY PlanIs DEF FilterPlan
    <3> QED BY <1>8, <3>1, <3>2, <3>3
  <2> QED BY <1>1, <1>8, <2>1 DEF Follows, f
<1> QED BY <1>6, <1>7, <1>8

\* A transformation follows pandas.
LEMMA TransformFollows ==
    ASSUME NEW node, node.kind = "transform", NEW a, NEW e, Alike(a, e, 1), NEW b,
           NEW outcome \in LazyTransform(node, a.frames[1])
    PROVE  Follows(outcome, node, a, e, b)
<1> DEFINE f == a.frames[1]
           g == e.frames[1]
<1>1. Len(e.frames) = 1 /\ 1 \in DOMAIN a.frames /\ (f.sound => g = f.data)
  BY DEF Alike
<1> HIDE DEF f, g
<1>2. ~Raised.ok /\ \A x : Returned(x).ok /\ Returned(x).frame = x
  BY DEF Raised, Returned
<1>3. Execute(node, e, b) =
        IF node.select \subseteq g.columns /\ node.drop \subseteq BeforeDrop(node, g.columns)
        THEN Returned(DataFrame(BeforeDrop(node, g.columns) \ node.drop, Projection(g.rows)))
        ELSE Raised
  BY <1>1 DEF Execute, Transform, g
<1>4. /\ TransformPlan(node, f).sound = f.sound
      /\ TransformPlan(node, f).data
           = DataFrame(BeforeDrop(node, f.data.columns) \ node.drop, Projection(f.data.rows))
  BY PlanIs DEF TransformPlan
<1>5. outcome \in NotResolved => ~(outcome.ok /\ outcome.frame.sound)
  BY NotResolvedIs
<1>6. CASE f.sound /\ node.select \subseteq f.data.columns
  <2>1. outcome = Returned(TransformPlan(node, f))
    BY <1>6 DEF LazyTransform, Outcomes, f
  <2>2. CASE node.drop \subseteq BeforeDrop(node, f.data.columns)
    BY <1>1, <1>2, <1>3, <1>4, <1>6, <2>1, <2>2 DEF Follows, Means
  <2>3. CASE ~(node.drop \subseteq BeforeDrop(node, f.data.columns))
    <3>1. Lenient(node, e)
      BY <1>1, <1>6, <2>3 DEF Lenient, g
    <3> QED BY <1>1, <1>2, <1>3, <1>6, <2>3, <3>1 DEF Follows, Means
  <2> QED BY <2>2, <2>3
<1>7. CASE f.sound /\ ~(node.select \subseteq f.data.columns)
  <2>1. outcome \in NotResolved
    BY <1>7 DEF LazyTransform, f
  <2> QED BY <1>1, <1>2, <1>3, <1>5, <1>7, <2>1 DEF Follows
<1>8. CASE ~f.sound
  <2>1. outcome \in NotResolved \/ ~outcome.ok \/ outcome.frame = TransformPlan(node, f)
    BY OutcomesOf DEF LazyTransform, f
  <2>2. ~(outcome.ok /\ outcome.frame.sound)
    BY <1>4, <1>5, <1>8, <2>1
  <2> QED BY <1>1, <1>8, <2>2 DEF Follows, f
<1> QED BY <1>6, <1>7, <1>8

\* Frames with the same columns are concatenated as they are.
LEMMA ConcatAligned ==
    ASSUME NEW m \in Nat \ {0}, NEW g, DOMAIN g = 1 .. m, \A p \in 1 .. m : g[p] \in FrameSet,
           \A p \in 1 .. m : g[p].columns = g[1].columns
    PROVE  Concat(g) = DataFrame(g[1].columns, FlattenSeq([p \in 1 .. m |-> g[p].rows]))
<1> DEFINE columns == UNION {g[p].columns : p \in DOMAIN g}
<1>1. columns = g[1].columns
  <2>1. 1 \in 1 .. m
    OBVIOUS
  <2> QED BY <2>1
<1> HIDE DEF columns
<1>2. ASSUME NEW p \in 1 .. m PROVE Aligned(g[p], columns) = g[p].rows
  <2>1. g[p].columns = columns /\ g[p].rows \in Seq(Row)
    BY <1>1 DEF FrameSet
  <2>2. Aligned(g[p], columns) = [i \in DOMAIN g[p].rows |-> g[p].rows[i]]
    BY <2>1 DEF Aligned
  <2>3. g[p].rows = [i \in 1 .. Len(g[p].rows) |-> g[p].rows[i]]
    BY <2>1, SequenceIs
  <2>4. DOMAIN g[p].rows = 1 .. Len(g[p].rows)
    BY <2>1
  <2> QED BY ONLY <2>2, <2>3, <2>4
<1>3. [p \in DOMAIN g |-> Aligned(g[p], columns)] = [p \in 1 .. m |-> g[p].rows]
  BY <1>2
<1>4. Concat(g) = DataFrame(columns, FlattenSeq([p \in DOMAIN g |-> Aligned(g[p], columns)]))
  BY DEF Concat, columns
<1> QED BY <1>1, <1>3, <1>4

\* A union follows pandas, where Spark takes it.
LEMMA UnionFollows ==
    ASSUME NEW node, node.kind = "union", NEW a, NEW e, NEW m \in Nat, Alike(a, e, m), m >= 2,
           NEW b, NEW outcome \in LazyUnion(a.frames)
    PROVE  Follows(outcome, node, a, e, b)
<1> DEFINE f == a.frames
           g == e.frames
           unsound == {i \in DOMAIN f : ~f[i].sound}
           last == IF unsound = {} THEN Len(f) ELSE Min(unsound)
           parts == [i \in 1 .. last |-> f[i].data.rows]
           plan == Plan(DataFrame(f[1].data.columns, FlattenSeq(parts)), unsound = {})
<1>1. /\ Len(f) = m /\ DOMAIN f = 1 .. m /\ f \in Seq(PlanSet)
      /\ Len(g) = m /\ g = [p \in 1 .. m |-> g[p]] /\ DOMAIN g = 1 .. m
      /\ \A p \in 1 .. m : f[p].sound => g[p] = f[p].data
  BY DEF Alike
<1>2. \A x : Returned(x).ok /\ Returned(x).frame = x
  BY DEF Returned
<1>3. outcome \in NotResolved => ~(outcome.ok /\ outcome.frame.sound)
  BY NotResolvedIs
<1>4. IF UnionFits(f) THEN outcome \in Outcomes(unsound = {}, plan) ELSE outcome \in NotResolved
  BY DEF LazyUnion
<1>5. plan.sound = (unsound = {}) /\ plan.data = DataFrame(f[1].data.columns, FlattenSeq(parts))
  <2> HIDE DEF parts, unsound
  <2> QED BY PlanIs
<1>6. CASE unsound = {} /\ UnionFits(f)
  <2>1. outcome = Returned(plan)
    <3> HIDE DEF plan
    <3> QED BY <1>4, <1>6 DEF Outcomes
  <2>2. \A p \in 1 .. m : g[p] = f[p].data /\ f[p] \in PlanSet
    BY <1>1, <1>6
  <2>3. /\ \A p \in 1 .. m : g[p] \in FrameSet /\ g[p].columns = f[1].data.columns
        /\ 1 \in 1 .. m
    BY <1>1, <1>6, <2>2 DEF UnionFits, PlanSet
  <2>4. parts = [p \in 1 .. m |-> g[p].rows]
    <3>1. last = m
      BY <1>1, <1>6
    <3> HIDE DEF last, f, g
    <3> QED BY <2>2, <3>1
  <2>5. Concat(g) = DataFrame(f[1].data.columns, FlattenSeq(parts))
    <3> HIDE DEF parts, f, g
    <3>1. \A p \in 1 .. m : g[p].columns = g[1].columns
      BY <2>3
    <3>2. m \in Nat \ {0}
      OBVIOUS
    <3>3. Concat(g) = DataFrame(g[1].columns, FlattenSeq([p \in 1 .. m |-> g[p].rows]))
      BY <1>1, <2>3, <3>1, <3>2, ConcatAligned
    <3> QED BY <2>3, <2>4, <3>3
  <2>6. Execute(node, e, b) = Returned(Concat(g))
    BY <1>1 DEF Execute, Union
  <2>7. plan.sound /\ plan.data = Concat(g)
    BY <1>5, <1>6, <2>5
  <2> HIDE DEF plan, f, g, parts, unsound
  <2>8. outcome.ok /\ outcome.frame = plan
    BY <1>2, <2>1
  <2>9. outcome.frame.sound /\ outcome.frame.data = Concat(g)
    BY ONLY <2>7, <2>8
  <2>10. Execute(node, e, b).ok /\ Execute(node, e, b).frame = Concat(g)
    BY <1>2, <2>6
  <2>11. Means(outcome.frame, node, e, b)
    BY <2>9, <2>10 DEF Means
  <2> QED BY <2>8, <2>9, <2>11 DEF Follows
<1>7. CASE ~(unsound = {} /\ UnionFits(f))
  <2>1. ~(outcome.ok /\ outcome.frame.sound)
    <3> HIDE DEF plan
    <3>1. UnionFits(f) /\ outcome.ok => outcome.frame = plan
      BY <1>4, OutcomesOf
    <3> QED BY <1>3, <1>4, <1>5, <1>7, <3>1
  <2> QED BY <1>7, <2>1 DEF Follows
<1> QED BY <1>6, <1>7

\* A join follows pandas.
LEMMA JoinFollows ==
    ASSUME NEW node, node.kind = "join", NEW a, NEW e, NEW m \in Nat, Alike(a, e, m),
           Sides(a) # <<>>, NEW b, NEW outcome \in LazyJoin(Sides(a), node.how)
    PROVE  Follows(outcome, node, a, e, b)
<1>1. PICK i, j \in 1 .. m :
        /\ Sides(a)[1] = a.frames[i] /\ Sides(a)[2] = a.frames[j]
        /\ Sides(e)[1] = e.frames[i] /\ Sides(e)[2] = e.frames[j] /\ Sides(e) # <<>>
  BY SidesAlike
<1> DEFINE l == Sides(a)[1]
           r == Sides(a)[2]
           u == Sides(e)[1]
           v == Sides(e)[2]
           fits == Usable(l) /\ Usable(r)
           how == node.how
           joined == SparkMerge(l.data, r.data, how)
           known == /\ how \in MergeKinds \cup SparkKinds
                    /\ JoinColumns \subseteq l.data.columns \cap r.data.columns
<1>2. (l.sound => u = l.data) /\ (r.sound => v = r.data)
  BY <1>1 DEF Alike
<1>3. ~(l.sound /\ r.sound) => \E p \in DOMAIN a.frames : ~a.frames[p].sound
  BY <1>1 DEF Alike
<1>4. Execute(node, e, b) = IF Keyable(u) /\ Keyable(v) /\ how \in MergeKinds
                            THEN Returned(Merge(u, v, how)) ELSE Raised
  BY <1>1 DEF Execute, Join
<1>5. ~Raised.ok /\ \A x : Returned(x).ok /\ Returned(x).frame = x
  BY DEF Raised, Returned
<1>6. Lenient(node, e) <=> how \in SparkKinds \/ ~Fits(u) \/ ~Fits(v)
  BY DEF Lenient
<1>7. IF known
      THEN \/ outcome \in Outcomes(fits, IF fits THEN Plan(joined, TRUE)
                                         ELSE Plan(DataFrame(joined.columns, <<>>), FALSE))
           \/ outcome \in Casts(Fits(l.data) /\ Fits(r.data), Plan(joined, l.sound /\ r.sound))
      ELSE outcome \in NotResolved
  BY DEF LazyJoin
<1>8. outcome \in NotResolved => ~(outcome.ok /\ outcome.frame.sound)
  BY NotResolvedIs
<1>9. how \in MergeKinds => how \notin SparkKinds
  BY Zenon DEF MergeKinds, SparkKinds
<1>10. joined = IF how \in SparkKinds THEN SemiJoined(l.data, r.data, how) ELSE Merge(l.data, r.data, how)
  BY DEF SparkMerge
<1>11. \A d, s : Plan(d, s).data = d /\ Plan(d, s).sound = s
  BY PlanIs
<1> HIDE DEF l, r, u, v, how, joined, fits
<1>12. CASE ~known
  <2>1. ~(outcome.ok /\ outcome.frame.sound)
    BY <1>7, <1>8, <1>12
  <2>2. Execute(node, e, b).ok => ~(l.sound /\ r.sound)
    BY <1>2, <1>4, <1>5, <1>12 DEF Keyable
  <2> QED BY <1>3, <2>1, <2>2 DEF Follows
<1>13. CASE known
  <2>1. CASE ~(l.sound /\ r.sound)
    <3>1. ~fits
      BY <2>1 DEF fits, Usable
    <3>2. outcome.ok => \/ outcome.frame = Plan(DataFrame(joined.columns, <<>>), FALSE)
                        \/ outcome.frame = Plan(joined, l.sound /\ r.sound)
      BY <1>7, <1>13, <3>1, OutcomesOf, CastsOf
    <3>3. ~(outcome.ok /\ outcome.frame.sound)
      BY <1>11, <2>1, <3>2
    <3> QED BY <1>3, <2>1, <3>3 DEF Follows
  <2>2. CASE l.sound /\ r.sound /\ Fits(l.data) /\ Fits(r.data)
    <3>1. fits
      BY <2>2 DEF fits, Usable
    <3>2. outcome = Returned(Plan(joined, TRUE))
      BY <1>7, <1>13, <2>2, <3>1 DEF Outcomes, Casts
    <3>3. outcome.ok /\ outcome.frame.sound /\ outcome.frame.data = joined
      <4>1. Plan(joined, TRUE).sound /\ Plan(joined, TRUE).data = joined
        BY DEF Plan
      <4> QED BY <1>5, <3>2, <4>1
    <3>4. CASE how \in MergeKinds
      <4>1. Execute(node, e, b) = Returned(joined)
        BY <1>2, <1>4, <1>9, <1>10, <1>13, <2>2, <3>4 DEF Keyable
      <4> QED BY <1>5, <3>3, <4>1 DEF Follows, Means
    <3>5. CASE how \notin MergeKinds
      <4>1. how \in SparkKinds
        BY <1>13, <3>5
      <4> QED BY <1>4, <1>5, <1>6, <3>3, <3>5, <4>1 DEF Follows, Means
    <3> QED BY <3>4, <3>5
  <2>3. CASE l.sound /\ r.sound /\ ~(Fits(l.data) /\ Fits(r.data))
    <3>1. Lenient(node, e) /\ ~Execute(node, e, b).ok
      BY <1>2, <1>4, <1>5, <1>6, <2>3 DEF Keyable
    <3> QED BY <3>1 DEF Follows, Means
  <2> QED BY <2>1, <2>2, <2>3
<1> QED BY <1>12, <1>13

\* Every node that has inputs follows pandas, and an output node takes plans
\* only that can be evaluated.
LEMMA NodeFollows ==
    ASSUME NEW node, node.kind \in Kinds \ {"input"}, NEW a, NEW e, NEW m \in Nat,
           Alike(a, e, m), NEW b, NEW outcome \in SparkOutcomes(node, a)
    PROVE  /\ Follows(outcome, node, a, e, b)
           /\ node.kind = "output" /\ outcome.ok => outcome.frame.sound
<1>1. Len(a.frames) = m /\ Len(e.frames) = m
  BY DEF Alike
<1>2. ~Raised.ok /\ \A x : Returned(x).ok /\ Returned(x).frame = x
  BY DEF Raised, Returned
<1>3. CASE node.kind = "filter"
  <2>1. CASE m = 1
    <3>1. outcome \in LazyFilter(a.frames[1])
      BY <1>1, <1>3, <2>1 DEF SparkOutcomes
    <3> QED BY <1>3, <2>1, <3>1, FilterFollows
  <2>2. CASE m # 1
    <3>1. ~outcome.ok /\ ~Execute(node, e, b).ok
      BY <1>1, <1>2, <1>3, <2>2 DEF SparkOutcomes, Execute, Filter
    <3> QED BY <1>3, <3>1 DEF Follows
  <2> QED BY <2>1, <2>2
<1>4. CASE node.kind = "transform"
  <2>1. CASE m = 1
    <3>1. outcome \in LazyTransform(node, a.frames[1])
      BY <1>1, <1>4, <2>1 DEF SparkOutcomes
    <3> QED BY <1>4, <2>1, <3>1, TransformFollows
  <2>2. CASE m # 1
    <3>1. ~outcome.ok /\ ~Execute(node, e, b).ok
      BY <1>1, <1>2, <1>4, <2>2 DEF SparkOutcomes, Execute, Transform
    <3> QED BY <1>4, <3>1 DEF Follows
  <2> QED BY <2>1, <2>2
<1>5. CASE node.kind = "output"
  <2>1. CASE m = 1
    <3> DEFINE f == a.frames[1]
               g == e.frames[1]
    <3>1. outcome \in Collect(f, node.key)
      BY <1>1, <1>5, <2>1 DEF SparkOutcomes
    <3>2. Execute(node, e, b) = IF node.key # InvalidKey THEN Returned(g) ELSE Raised
      BY <1>1, <1>5, <2>1 DEF Execute, WriteOutput
    <3>3. (f.sound => g = f.data) /\ 1 \in DOMAIN a.frames
      BY <2>1 DEF Alike
    <3>4. /\ outcome.ok => outcome.frame = f /\ f.sound /\ node.key # InvalidKey
          /\ ~outcome.ok => ~f.sound \/ node.key = InvalidKey
      BY <1>2, <3>1 DEF Collect
    <3>5. ~f.sound => \E p \in DOMAIN a.frames : ~a.frames[p].sound
      BY <3>3
    <3> HIDE DEF f, g
    <3> QED BY <1>2, <3>2, <3>3, <3>4, <3>5 DEF Follows, Means
  <2>2. CASE m # 1
    <3>1. ~outcome.ok /\ ~Execute(node, e, b).ok
      BY <1>1, <1>2, <1>5, <2>2 DEF SparkOutcomes, Execute, WriteOutput
    <3> QED BY <3>1 DEF Follows
  <2> QED BY <2>1, <2>2
<1>6. CASE node.kind = "union"
  <2>1. CASE m >= 2
    <3>1. outcome \in LazyUnion(a.frames)
      BY <1>1, <1>6, <2>1 DEF SparkOutcomes
    <3> QED BY <1>6, <2>1, <3>1, UnionFollows
  <2>2. CASE ~(m >= 2)
    <3>1. ~outcome.ok /\ ~Execute(node, e, b).ok
      BY <1>1, <1>2, <1>6, <2>2 DEF SparkOutcomes, Execute, Union
    <3> QED BY <1>6, <3>1 DEF Follows
  <2> QED BY <2>1, <2>2
<1>7. CASE node.kind = "join"
  <2>1. CASE Sides(a) # <<>>
    <3>1. outcome \in LazyJoin(Sides(a), node.how)
      BY <1>7, <2>1 DEF SparkOutcomes
    <3> QED BY <1>7, <2>1, <3>1, JoinFollows
  <2>2. CASE Sides(a) = <<>>
    <3>1. Sides(e) = <<>>
      BY <2>2, SidesAlike
    <3>2. ~outcome.ok /\ ~Execute(node, e, b).ok
      BY <1>2, <1>7, <2>2, <3>1 DEF SparkOutcomes, Execute, Join
    <3> QED BY <1>7, <3>2 DEF Follows
  <2> QED BY <2>1, <2>2
<1> QED BY <1>3, <1>4, <1>5, <1>6, <1>7 DEF Kinds

-----------------------------------------------------------------------------
(***************************************************************************)
(* The two engines mean the same.  Whatever frames d solve the equations   *)
(* of the pandas runner as far as they can be solved, the plans agree with *)
(* them; PandasResults is such a d.                                        *)
(***************************************************************************)
Solution(d) ==
    /\ DOMAIN d \subseteq Nodes
    /\ \A n \in Nodes :
         /\ n \in DOMAIN d <=> Sources(n) \subseteq DOMAIN d /\ Computed(n, d, before).ok
         /\ n \in DOMAIN d => d[n] = Computed(n, d, before).frame

\* The plan p of node n agrees with d.
PlanAgrees(n, p, d) ==
    /\ n \in DOMAIN d /\ p.sound => p.data = d[n]
    /\ n \in DOMAIN d /\ ~p.sound => UnsoundSource(n) \/ Misaligned(n)
    /\ n \notin DOMAIN d /\ p.sound =>
         \/ ~(Sources(n) \subseteq DOMAIN d)
         \/ Lenient(graph.def[n], Route(Ports(n), Gathered(n, d)))
    /\ graph.def[n].kind = "output" => p.sound

ResultsAgree(d) == \A n \in DOMAIN results : PlanAgrees(n, results[n], d)

FailureAgrees(d) ==
    step = "failed" => Current \notin DOMAIN d \/ SparkOnly(Current) \/ UnsoundSource(Current)

\* What a preview has returned are the first rows of its target's plan, which
\* is sound unless they were enough.
PreviewShown ==
    step = "done" /\ Previewing =>
        LET plan == results[call.target]
        IN  /\ call.limit >= 0 /\ call.target \in DOMAIN results
            /\ output = HeadRows(plan.data.rows, call.limit)

Comparable == NoFeedback /\ DistinctPorts

EnginesAgree ==
    /\ PreviewShown
    /\ Comparable => \A d : Solution(d) => ResultsAgree(d) /\ FailureAgrees(d)

\* What a node gets from its sources in the two engines is alike, where pandas
\* has frames for them.
LEMMA GivenAlike ==
    ASSUME RunInv, PlansTyped, DistinctPorts, AtNode, NEW d, Sources(Current) \subseteq DOMAIN d,
           \A x \in Sources(Current) : PlanAgrees(x, results[x], d)
    PROVE  \E m \in Nat :
             LET a == Inputs(Current)
                 e == Route(Ports(Current), Gathered(Current, d))
             IN  /\ Alike(a, e, m)
                 /\ a.frames = Frames(Current)
                 /\ (\E p \in DOMAIN a.frames : ~a.frames[p].sound) => UnsoundSource(Current)
<1> DEFINE n == Current
           a == Inputs(n)
           e == Route(Ports(n), Gathered(n, d))
<1>1. n \in Nodes /\ Sources(n) \subseteq DOMAIN results
  BY AtTurn DEF AtNode
<1>0. GathersSources(n)
  BY GatheredIs
<1>2. PICK m \in Nat : \E s \in [1 .. m -> Sources(n)] :
             /\ \A x \in Sources(n) : \E p \in 1 .. m : s[p] = x
             /\ \A c : Gathered(n, c) = [p \in 1 .. m |-> c[s[p]]]
  BY ONLY <1>0 DEF GathersSources
<1>3. PICK s \in [1 .. m -> Sources(n)] :
             /\ \A x \in Sources(n) : \E p \in 1 .. m : s[p] = x
             /\ \A c : Gathered(n, c) = [p \in 1 .. m |-> c[s[p]]]
  BY <1>2
<1>4. Frames(n) = [p \in 1 .. m |-> results[s[p]]] /\ Gathered(n, d) = [p \in 1 .. m |-> d[s[p]]]
  BY <1>3 DEF Frames
<1>5. /\ a.frames = Frames(n) /\ e.frames = Gathered(n, d)
      /\ Named(a, "left") = Named(e, "left") /\ Named(a, "right") = Named(e, "right")
  <2>1. /\ a.frames = Frames(n)
        /\ \A side \in {"left", "right"} :
             Named(a, side) = {p \in DOMAIN Ports(n) : Ports(n)[p] = side}
    BY <1>1, RoutedPlain DEF Inputs, Frames
  <2>2. /\ e.frames = Gathered(n, d)
        /\ \A side \in {"left", "right"} :
             Named(e, side) = {p \in DOMAIN Ports(n) : Ports(n)[p] = side}
    BY <1>1, RoutedPlain
  <2> QED BY <2>1, <2>2
<1>6. \A x \in Sources(n) : results[x] \in PlanSet
  BY <1>1 DEF PlansTyped
<1>7. /\ Frames(n) \in Seq(PlanSet) /\ Len(Ports(n)) = Len(Frames(n))
      /\ DOMAIN a.names = DOMAIN a.frames
  BY <1>6, GatheredTyped, RouteTyped DEF Inputs, Frames
<1>8. Len(Frames(n)) = m /\ DOMAIN Frames(n) = 1 .. m
  BY <1>4
<1>9. \A p \in 1 .. m : /\ s[p] \in Sources(n)
                        /\ a.frames[p] = results[s[p]] /\ e.frames[p] = d[s[p]]
  BY <1>3, <1>4, <1>5
<1> HIDE DEF a, e
<1>10. Alike(a, e, m)
  <2>1. \A p \in 1 .. m : a.frames[p].sound => e.frames[p] = a.frames[p].data
    BY <1>9 DEF PlanAgrees
  <2>2. e.frames = [p \in 1 .. m |-> e.frames[p]]
    BY <1>4, <1>5
  <2> QED BY <1>5, <1>7, <1>8, <2>1, <2>2 DEF Alike
<1>11. (\E p \in DOMAIN a.frames : ~a.frames[p].sound) => UnsoundSource(n)
  BY <1>5, <1>8, <1>9 DEF UnsoundSource
<1>12. /\ Alike(a, e, m) /\ a.frames = Frames(n)
       /\ (\E p \in DOMAIN a.frames : ~a.frames[p].sound) => UnsoundSource(n)
  BY <1>5, <1>10, <1>11
<1> USE DEF a, e
<1> WITNESS m \in Nat
<1> QED BY <1>12

\* The store an input reads is the one the request found.
LEMMA InputUnwritten ==
    ASSUME DataWritten, NoFeedback, NEW n \in OfKind("input")
    PROVE  LET key == graph.def[n].key
           IN  /\ key \in DOMAIN store <=> key \in DOMAIN before
               /\ key \in DOMAIN store => store[key] = before[key]
<1> DEFINE key == graph.def[n].key
<1>1. key \notin KeysOf("output")
  BY DEF NoFeedback, KeysOf
<1>2. Writers(DataOf, key) = {} /\ key \notin {graph.def[m].key : m \in OfKind("output") \cap DOMAIN DataOf}
  BY <1>1 DEF Writers, KeysOf
<1> QED BY <1>2 DEF DataWritten, Written

\* Where Spark refuses a node whose turn it is and pandas would not.
Refuses(n) ==
    \/ graph.def[n].kind = "input" /\ ~(before[graph.def[n].key].rows # <<>> /\ Fits(before[graph.def[n].key]))
    \/ Misaligned(n)
    \/ UnsoundSource(n)

\* The node whose turn it is follows pandas.
LEMMA CurrentFollows ==
    ASSUME RunInv, PlansTyped, DataWritten, Comparable, AtNode, NEW d, Solution(d),
           \A x \in Sources(Current) : PlanAgrees(x, results[x], d),
           NEW outcome \in SparkOutcomes(graph.def[Current], Inputs(Current))
    PROVE  /\ outcome.ok => PlanAgrees(Current, outcome.frame, d)
           /\ ~outcome.ok => Current \notin DOMAIN d \/ Refuses(Current)
<1> DEFINE n == Current
           node == graph.def[n]
           a == Inputs(n)
           e == Route(Ports(n), Gathered(n, d))
<1>1. n \in Nodes /\ node.kind \in Kinds
  BY AtTurn, GraphKnown DEF AtNode
<1>2. ~Raised.ok /\ \A x : Returned(x).ok /\ Returned(x).frame = x
  BY DEF Raised, Returned
<1>3. Computed(n, d, before) = Execute(node, e, before)
  BY DEF Computed
<1>4. CASE ~(Sources(n) \subseteq DOMAIN d)
  <2>1. n \notin DOMAIN d
    BY <1>1, <1>4 DEF Solution
  <2>2. node.kind = "output" /\ outcome.ok => outcome.frame.sound
    BY <1>2 DEF SparkOutcomes, Collect
  <2> QED BY <1>4, <2>1, <2>2 DEF PlanAgrees
<1>5. CASE Sources(n) \subseteq DOMAIN d
  <2>1. PICK m \in Nat :
          /\ Alike(a, e, m) /\ a.frames = Frames(n)
          /\ (\E p \in DOMAIN a.frames : ~a.frames[p].sound) => UnsoundSource(n)
    BY <1>5, GivenAlike DEF Comparable
  <2>2. /\ n \in DOMAIN d <=> Execute(node, e, before).ok
        /\ n \in DOMAIN d => d[n] = Execute(node, e, before).frame
    BY <1>1, <1>3, <1>5 DEF Solution
  <2>3. CASE node.kind = "input"
    <3> DEFINE key == node.key
               data == store[key]
               fits == data.rows # <<>> /\ Fits(data)
    <3>1. outcome \in LazyRead(a, key)
      BY <2>3 DEF SparkOutcomes
    <3>2. /\ key \in DOMAIN store <=> key \in DOMAIN before
          /\ key \in DOMAIN store => store[key] = before[key]
      BY <1>1, <2>3, InputUnwritten DEF OfKind, Comparable
    <3>3. a.frames = <<>> <=> e.frames = <<>>
      <4>1. Len(a.frames) = m /\ Len(e.frames) = m /\ e.frames = [p \in 1 .. m |-> e.frames[p]]
            /\ a.frames \in Seq(PlanSet)
        BY <2>1 DEF Alike
      <4> QED BY <4>1
    <3>4. Execute(node, e, before) = IF e.frames = <<>> /\ key # InvalidKey /\ key \in DOMAIN before
                                     THEN Returned(before[key]) ELSE Raised
      BY <2>3 DEF Execute, ReadInput
    <3>5. CASE a.frames = <<>> /\ key # InvalidKey /\ key \in DOMAIN store
      <4>1. outcome \in Outcomes(fits, Plan(data, TRUE))
        BY <3>1, <3>5 DEF LazyRead
      <4>2. n \in DOMAIN d /\ d[n] = data
        BY <1>2, <2>2, <3>2, <3>3, <3>4, <3>5
      <4>3. CASE outcome.ok
        <5>1. outcome.frame = Plan(data, TRUE)
          BY <4>1, <4>3, OutcomesOf
        <5>2. outcome.frame.sound /\ outcome.frame.data = data
          BY <5>1 DEF Plan
        <5> QED BY <2>3, <4>2, <4>3, <5>2 DEF PlanAgrees
      <4>4. CASE ~outcome.ok
        <5>1. ~fits
          <6> HIDE DEF fits, data, key
          <6> QED BY ONLY <4>1, <4>4, OutcomeRefused
        <5>2. Refuses(n)
          BY <2>3, <3>2, <3>5, <5>1 DEF Refuses
        <5> QED BY <4>4, <5>2
      <4> QED BY <4>3, <4>4
    <3>6. CASE ~(a.frames = <<>> /\ key # InvalidKey /\ key \in DOMAIN store)
      <4>1. ~outcome.ok
        <5> HIDE DEF a, key
        <5>1. LazyRead(a, key) = {Raised}
          BY <3>6 DEF LazyRead
        <5> QED BY <1>2, <3>1, <5>1
      <4>2. n \notin DOMAIN d
        BY <1>2, <2>2, <3>2, <3>3, <3>4, <3>6
      <4> QED BY <4>1, <4>2
    <3> QED BY <3>5, <3>6
  <2>4. CASE node.kind # "input"
    <3>1. node.kind \in Kinds \ {"input"}
      BY <1>1, <2>4
    <3>2. /\ Follows(outcome, node, a, e, before)
          /\ node.kind = "output" /\ outcome.ok => outcome.frame.sound
      <4> HIDE DEF node, a, e
      <4>1. outcome \in SparkOutcomes(node, a)
        BY DEF node, a
      <4> QED BY <2>1, <3>1, <4>1, NodeFollows
    <3>3. node.kind = "union" /\ ~UnionFits(a.frames) => Misaligned(n)
      BY <2>1 DEF Misaligned
    <3>4. outcome.ok => PlanAgrees(n, outcome.frame, d)
      <4>1. outcome.ok /\ outcome.frame.sound => Means(outcome.frame, node, e, before)
        BY <3>2 DEF Follows
      <4>2. n \in DOMAIN d /\ outcome.frame.sound /\ outcome.ok => outcome.frame.data = d[n]
        BY <2>2, <4>1 DEF Means
      <4>3. n \notin DOMAIN d /\ outcome.ok /\ outcome.frame.sound => Lenient(node, e)
        BY <2>2, <4>1 DEF Means
      <4>4. n \in DOMAIN d /\ outcome.ok /\ ~outcome.frame.sound => UnsoundSource(n) \/ Misaligned(n)
        BY <2>1, <2>2, <3>2, <3>3 DEF Follows
      <4> QED BY <3>2, <4>2, <4>3, <4>4 DEF PlanAgrees
    <3>5. ~outcome.ok => n \notin DOMAIN d \/ Refuses(n)
      BY <2>1, <2>2, <3>2, <3>3 DEF Follows, Refuses
    <3> QED BY <3>4, <3>5
  <2> QED BY <2>3, <2>4
<1> QED BY <1>4, <1>5

\* What the graph and the store found say does not change.
LEMMA EnginesStay ==
    ASSUME UNCHANGED <<graph, before>>
    PROVE  /\ Comparable' <=> Comparable
           /\ \A d : Solution(d)' <=> Solution(d)
<1>1. /\ Nodes' = Nodes /\ NoFeedback' = NoFeedback
      /\ (\A n : Ports(n)' = Ports(n)) /\ (\A n : Sources(n)' = Sources(n))
      /\ \A kind : OfKind(kind)' = OfKind(kind)
  BY NodeStays, GraphStays
<1>2. Comparable' <=> Comparable
  BY <1>1 DEF Comparable, DistinctPorts
<1>3. ASSUME NEW d PROVE Solution(d)' <=> Solution(d)
  <2>1. \A n : Computed(n, d, before)' = Computed(n, d, before)
    BY ComputedRigid
  <2> QED BY <1>1, <2>1 DEF Solution
<1> QED BY <1>2, <1>3

\* What a node is handed depends on its sources' results only.
LEMMA GatheredAgrees ==
    ASSUME NEW n, NEW d, NEW e, \A s \in Sources(n) : d[s] = e[s]
    PROVE  Gathered(n, d) = Gathered(n, e)
<1>1. \A k \in InEdges(n) : d[Source(k)] = e[Source(k)]
  BY DEF Sources
<1>2. [k \in EdgeIndices |-> IF k \in InEdges(n) THEN <<d[Source(k)]>> ELSE <<>>]
        = [k \in EdgeIndices |-> IF k \in InEdges(n) THEN <<e[Source(k)]>> ELSE <<>>]
  BY <1>1
<1> QED BY <1>2 DEF Gathered

\* A plan's agreement is up to the graph and its sources' plans.
LEMMA AgreementStays ==
    ASSUME UNCHANGED graph, NEW n, \A s \in Sources(n) : results'[s] = results[s]
    PROVE  /\ UnsoundSource(n)' <=> UnsoundSource(n)
           /\ Misaligned(n)' <=> Misaligned(n)
           /\ \A p, d : PlanAgrees(n, p, d)' <=> PlanAgrees(n, p, d)
<1>1. /\ Sources(n)' = Sources(n) /\ Ports(n)' = Ports(n)
      /\ \A d : Gathered(n, d)' = Gathered(n, d)
  <2>1. \A d : Gathered(n, d)' = Gathered(n, d)
    BY NodeStays DEF Gathered
  <2> QED BY <2>1, NodeStays, GraphStays
<1>2. Frames(n)' = Frames(n)
  <2>1. Gathered(n, results)' = Gathered(n, results')
    BY NodeStays DEF Gathered
  <2>2. Gathered(n, results') = Gathered(n, results)
    BY GatheredAgrees
  <2> QED BY <2>1, <2>2 DEF Frames
<1>3. UnsoundSource(n)' <=> UnsoundSource(n)
  BY <1>1 DEF UnsoundSource
<1>4. Misaligned(n)' <=> Misaligned(n)
  BY <1>2 DEF Misaligned
<1>5. ASSUME NEW p, NEW d PROVE PlanAgrees(n, p, d)' <=> PlanAgrees(n, p, d)
  BY <1>1, <1>3, <1>4 DEF PlanAgrees
<1> QED BY <1>3, <1>4, <1>5

\* A failure stays what it is.
LEMMA RefusalStays ==
    ASSUME UNCHANGED <<graph, call, order, at, results, before, session>>
    PROVE  /\ Current' = Current
           /\ \A n : SparkOnly(n)' <=> SparkOnly(n)
           /\ \A n : UnsoundSource(n)' <=> UnsoundSource(n)
<1>1. \A n : (UnsoundSource(n)' <=> UnsoundSource(n)) /\ (Misaligned(n)' <=> Misaligned(n))
  BY AgreementStays
<1>2. \A n : SparkOnly(n)' <=> SparkOnly(n)
  BY <1>1 DEF SparkOnly, Previewing
<1> QED BY <1>1, <1>2 DEF Current
\* Nothing has been planned at first.
LEMMA AgreeInit == SparkInit => EnginesAgree
<1> SUFFICES ASSUME SparkInit PROVE EnginesAgree
  OBVIOUS
<1>1. DOMAIN results = {} /\ step = "idle"
  BY DEF SparkInit, Init, NoDict
<1> QED BY <1>1 DEF EnginesAgree, PreviewShown, ResultsAgree, FailureAgrees

\* A step that is not about frames leaves the agreement.
LEMMA AgreeQuiet == RunInv /\ EnginesAgree /\ Quiet /\ UNCHANGED session => EnginesAgree'
<1> SUFFICES ASSUME RunInv, EnginesAgree, Quiet, UNCHANGED session PROVE EnginesAgree'
  OBVIOUS
<1>1. /\ UNCHANGED <<graph, call, results, output, before>>
      /\ step' = "failed" => step = "failed"
      /\ step \in {"done", "failed"} => UNCHANGED <<order, at, step>>
  BY QuietFacts
<1>2. PreviewShown'
  <2>1. step' = "done" /\ Previewing' => step = "done" /\ Previewing
    BY <1>1 DEF Quiet, Build, runVars, StartRun, RejectUnknownTarget, StartPreview, Visit,
       EndVisit, SkipNode, FinishRun, vars, Previewing
  <2> QED BY <1>1, <2>1 DEF EnginesAgree, PreviewShown
<1>3. ASSUME Comparable', NEW d, Solution(d)' PROVE ResultsAgree(d)' /\ FailureAgrees(d)'
  <2>1. ResultsAgree(d) /\ FailureAgrees(d)
    BY <1>1, <1>3, EnginesStay DEF EnginesAgree
  <2>2. ResultsAgree(d)'
    BY <1>1, <2>1, AgreementStays DEF ResultsAgree
  <2>3. FailureAgrees(d)'
    BY <1>1, <2>1, RefusalStays DEF FailureAgrees
  <2> QED BY <2>2, <2>3
<1> QED BY <1>2, <1>3 DEF EnginesAgree

\* The sources of the node whose turn it is agree.
LEMMA SourcesAgree ==
    ASSUME RunInv, AtNode, NEW d, ResultsAgree(d)
    PROVE  \A x \in Sources(Current) : PlanAgrees(x, results[x], d)
  BY AtTurn DEF AtNode, ResultsAgree

\* The plan of an executed node agrees, and is shown where a preview ends.
LEMMA AgreeExecute ==
    ASSUME RunInv, PlansTyped, DataWritten, EnginesAgree, SparkExecuteNode
    PROVE  EnginesAgree'
<1>1. PICK outcome \in SparkOutcomes(graph.def[Current], Inputs(Current)) :
        /\ outcome.ok
        /\ AtTarget => MayShow(outcome.frame)
        /\ results' = Put(results, Current, outcome.frame)
        /\ IF AtTarget
           THEN step' = "done" /\ output' = HeadRows(outcome.frame.data.rows, call.limit)
           ELSE UNCHANGED <<step, output>>
  BY SparkExecuteFacts
<1> DEFINE plan == outcome.frame
           n == Current
<1>2. AtNode /\ step = "executing" /\ UNCHANGED <<graph, call, before>> /\ step' # "failed"
  BY <1>1, SparkExecuteFacts DEF kahnVars
<1>3. /\ DOMAIN results' = DOMAIN results \cup {n} /\ results'[n] = plan
      /\ \A x \in DOMAIN results : results'[x] = results[x]
  BY <1>1, <1>2, AtTurn DEF AtNode, Put
<1>4. PreviewShown'
  <2> SUFFICES ASSUME step' = "done", Previewing'
               PROVE  LET p == results'[call'.target]
                      IN  /\ call'.limit >= 0 /\ call'.target \in DOMAIN results'
                          /\ output' = HeadRows(p.data.rows, call'.limit)
    BY DEF PreviewShown
  <2>1. AtTarget
    BY <1>1, <1>2
  <2>2. call.target = n /\ call' = call
    BY <1>2, <2>1 DEF AtTarget
  <2>3. MayShow(plan) /\ output' = HeadRows(plan.data.rows, call.limit)
    BY <1>1, <2>1
  <2> HIDE DEF n, plan
  <2> QED BY <1>3, <2>2, <2>3 DEF MayShow
<1>5. ASSUME Comparable', NEW d, Solution(d)' PROVE ResultsAgree(d)' /\ FailureAgrees(d)'
  <2>1. Comparable /\ Solution(d) /\ ResultsAgree(d)
    BY <1>2, <1>5, EnginesStay DEF EnginesAgree
  <2>2. PlanAgrees(n, plan, d)
    BY <1>1, <1>2, <2>1, SourcesAgree, CurrentFollows
  <2> HIDE DEF n, plan
  <2>3. \A x \in DOMAIN results' : PlanAgrees(x, results'[x], d)
    BY <1>3, <2>1, <2>2 DEF ResultsAgree
  <2>4. \A x \in DOMAIN results' : \A s \in Sources(x) : results'[s] = results[s]
    <3>1. Sources(n) \subseteq DOMAIN results
      BY <1>2, AtTurn DEF AtNode, n
    <3> QED BY <1>3, <3>1, ResultsClosed
  <2>5. ResultsAgree(d)'
    BY <1>2, <2>3, <2>4, AgreementStays DEF ResultsAgree
  <2> QED BY <1>2, <2>5 DEF FailureAgrees
<1> QED BY <1>4, <1>5 DEF EnginesAgree

\* A node that fails has no frame in pandas, or Spark has its reasons.
LEMMA AgreeFail ==
    ASSUME RunInv, RequestKnown, PlansTyped, DataWritten, EnginesAgree, SparkFailNode
    PROVE  EnginesAgree'
<1>1. /\ AtNode /\ step' = "failed"
      /\ UNCHANGED <<graph, call, order, at, results, output, before, session>>
  BY SparkFailFacts DEF kahnVars
<1>2. PreviewShown'
  BY <1>1 DEF PreviewShown
<1>3. ASSUME Comparable', NEW d, Solution(d)' PROVE ResultsAgree(d)' /\ FailureAgrees(d)'
  <2>1. Comparable /\ Solution(d) /\ ResultsAgree(d)
    BY <1>1, <1>3, EnginesStay DEF EnginesAgree
  <2>2. ResultsAgree(d)'
    BY <1>1, <2>1, AgreementStays DEF ResultsAgree
  <2>3. Current \notin DOMAIN d \/ SparkOnly(Current) \/ UnsoundSource(Current)
    <3>1. CASE session = "none"
      BY <3>1 DEF SparkOnly
    <3>2. CASE session # "none"
      <4>1. PICK outcome \in SparkOutcomes(graph.def[Current], Inputs(Current)) :
              outcome.ok => AtTarget /\ ~SurelyShows(outcome.frame)
        BY <3>2 DEF SparkFailNode
      <4>2. /\ outcome.ok => PlanAgrees(Current, outcome.frame, d)
            /\ ~outcome.ok => Current \notin DOMAIN d \/ Refuses(Current)
        BY <1>1, <2>1, SourcesAgree, CurrentFollows
      <4>3. CASE ~outcome.ok
        BY <4>2, <4>3 DEF Refuses, SparkOnly
      <4>4. CASE outcome.ok /\ call.limit < 0
        BY <4>1, <4>4 DEF AtTarget, SparkOnly
      <4>5. CASE outcome.ok /\ ~(call.limit < 0)
        <5>1. call.limit >= 0
          BY <4>5, RunnerAssumption DEF RequestKnown
        <5>2. ~outcome.frame.sound
          BY <4>1, <4>5, <5>1 DEF SurelyShows
        <5> QED BY <4>2, <4>5, <5>2 DEF PlanAgrees, SparkOnly
      <4> QED BY <4>3, <4>4, <4>5
    <3> QED BY <3>1, <3>2
  <2>4. FailureAgrees(d)'
    BY <1>1, <2>3, RefusalStays DEF FailureAgrees
  <2> QED BY <2>2, <2>4
<1> QED BY <1>2, <1>3 DEF EnginesAgree

\* Every step keeps the agreement of the engines.
LEMMA AgreeNext == RunInv /\ SparkInv /\ EnginesAgree /\ [SparkNext]_sparkVars => EnginesAgree'
  BY SharedQuiet, AgreeQuiet, AgreeExecute, AgreeFail DEF SparkNext, SparkInv

-----------------------------------------------------------------------------
(***************************************************************************)
(* What the pandas runner would compute is a solution                      *)
(***************************************************************************)

\* d solves the equations of the first i nodes of the order, and has no other.
SolvesUpTo(d, i) ==
    /\ \A n \in DOMAIN d : \E j \in 1 .. i : order[j] = n
    /\ \A j \in 1 .. i :
         LET n == order[j]
         IN  /\ n \in DOMAIN d <=> Sources(n) \subseteq DOMAIN d /\ Computed(n, d, before).ok
             /\ n \in DOMAIN d => d[n] = Computed(n, d, before).frame

\* The next node of the order adds its equation.
LEMMA StepSolves ==
    ASSUME RunInv, phase = "accepted", NEW i \in 1 .. Len(order), NEW d, SolvesUpTo(d, i - 1)
    PROVE  SolvesUpTo(PandasStep(d, order[i]), i)
<1> DEFINE n == order[i]
           e == PandasStep(d, n)
           frame == Computed(n, d, before).frame
           fit == Sources(n) \subseteq DOMAIN d /\ Computed(n, d, before).ok
<1>0. order \in Seq(Nodes)
  BY AcceptedOrder
<1>1. /\ Len(order) \in Nat
      /\ \A j, k \in DOMAIN order : order[j] = order[k] => j = k
      /\ \A j \in 1 .. Len(order) : \A s \in Sources(order[j]) : \E k \in 1 .. j - 1 : order[k] = s
  <2>1. Len(order) \in Nat
    BY <1>0
  <2>2. \A j, k \in DOMAIN order : order[j] = order[k] => j = k
    BY AcceptedOrder
  <2>3. \A j \in 1 .. Len(order) : \A s \in Sources(order[j]) : \E k \in 1 .. j - 1 : order[k] = s
    BY AcceptedOrder
  <2> QED BY ONLY <2>1, <2>2, <2>3
<1>2. DOMAIN order = 1 .. Len(order)
  BY <1>0
<1>3. n \notin DOMAIN d
  <2>1. \A j \in 1 .. i - 1 : j \in DOMAIN order /\ j # i
    BY <1>1, <1>2
  <2> QED BY <1>1, <1>2, <2>1 DEF SolvesUpTo
<1>4. ASSUME NEW j \in 1 .. i PROVE n \notin Sources(order[j])
  <2>1. j \in 1 .. Len(order) /\ \A k \in 1 .. j - 1 : k \in DOMAIN order /\ k # i
    BY <1>1, <1>2
  <2> QED BY <1>1, <1>2, <2>1
<1>5. /\ DOMAIN e = IF fit THEN DOMAIN d \cup {n} ELSE DOMAIN d
      /\ \A x \in DOMAIN d : e[x] = d[x]
      /\ fit => e[n] = frame
  BY <1>3 DEF PandasStep, Put
<1> HIDE DEF e
<1>6. ASSUME NEW j \in 1 .. i, Sources(order[j]) \subseteq DOMAIN d
      PROVE  Computed(order[j], e, before) = Computed(order[j], d, before)
  BY <1>5, <1>6, ComputedAgrees
<1>7. \A j \in 1 .. i : Sources(order[j]) \subseteq DOMAIN e <=> Sources(order[j]) \subseteq DOMAIN d
  BY <1>4, <1>5
<1>8. \A x \in DOMAIN e : \E j \in 1 .. i : order[j] = x
  <2>1. i \in 1 .. i /\ 1 .. i - 1 \subseteq 1 .. i
    OBVIOUS
  <2>2. \A x \in DOMAIN e : x = n \/ x \in DOMAIN d
    BY <1>5
  <2> QED BY <2>1, <2>2 DEF SolvesUpTo
<1>9. ASSUME NEW j \in 1 .. i
      PROVE  /\ order[j] \in DOMAIN e <=>
                  Sources(order[j]) \subseteq DOMAIN e /\ Computed(order[j], e, before).ok
             /\ order[j] \in DOMAIN e => e[order[j]] = Computed(order[j], e, before).frame
  <2> DEFINE x == order[j]
  <2>1. CASE j = i
    <3>1. x = n
      BY <2>1
    <3>2. x \in DOMAIN e <=> fit
      BY <1>3, <1>5, <3>1
    <3> QED BY <1>5, <1>6, <1>7, <3>1, <3>2
  <2>2. CASE j # i
    <3>1. j \in 1 .. i - 1 /\ j \in DOMAIN order /\ i \in DOMAIN order
      BY <1>1, <1>2, <2>2
    <3>2. x # n
      BY <1>1, <2>2, <3>1
    <3>3. /\ x \in DOMAIN d <=> Sources(x) \subseteq DOMAIN d /\ Computed(x, d, before).ok
          /\ x \in DOMAIN d => d[x] = Computed(x, d, before).frame
      BY <3>1 DEF SolvesUpTo
    <3>4. x \in DOMAIN e <=> x \in DOMAIN d
      BY <1>5, <3>2
    <3>5. Sources(x) \subseteq DOMAIN e <=> Sources(x) \subseteq DOMAIN d
      BY <1>7
    <3>6. Sources(x) \subseteq DOMAIN d => Computed(x, e, before) = Computed(x, d, before)
      BY <1>6
    <3>7. x \in DOMAIN d => e[x] = d[x]
      BY <1>5
    <3> HIDE DEF x
    <3>8. /\ x \in DOMAIN e <=> Sources(x) \subseteq DOMAIN e /\ Computed(x, e, before).ok
          /\ x \in DOMAIN e => e[x] = Computed(x, e, before).frame
      BY <3>3, <3>4, <3>5, <3>6, <3>7
    <3> QED BY <3>8 DEF x
  <2> QED BY <2>1, <2>2
<1> QED BY <1>8, <1>9 DEF e, SolvesUpTo

\* There is a function that goes through the order as PandasResults does.
LEMMA WalkExists ==
    ASSUME NEW k \in Nat
    PROVE  \E w : \A i \in 0 .. k : w[i] = IF i = 0 THEN NoDict ELSE PandasStep(w[i - 1], order[i])
<1> DEFINE Walks(w, j) == \A i \in 0 .. j : w[i] = IF i = 0 THEN NoDict ELSE PandasStep(w[i - 1], order[i])
           S == {j \in Nat : \E w : Walks(w, j)}
<1>1. 0 \in S
  <2> DEFINE w == [i \in 0 .. 0 |-> NoDict]
  <2>1. Walks(w, 0)
    OBVIOUS
  <2> QED BY <2>1
<1>2. ASSUME NEW j \in Nat, j \in S PROVE j + 1 \in S
  <2>1. PICK w : Walks(w, j)
    BY <1>2
  <2> DEFINE v == [i \in 0 .. j + 1 |-> IF i <= j THEN w[i] ELSE PandasStep(w[j], order[i])]
  <2>2. ASSUME NEW i \in 0 .. j + 1
        PROVE  v[i] = IF i = 0 THEN NoDict ELSE PandasStep(v[i - 1], order[i])
    <3>1. CASE i <= j
      <4>1. i \in 0 .. j /\ v[i] = w[i] /\ (i # 0 => v[i - 1] = w[i - 1])
        BY <3>1
      <4>2. w[i] = IF i = 0 THEN NoDict ELSE PandasStep(w[i - 1], order[i])
        BY <2>1, <4>1
      <4> HIDE DEF v
      <4> QED BY <4>1, <4>2
    <3>2. CASE ~(i <= j)
      <4>1. i # 0 /\ i - 1 = j /\ v[j] = w[j] /\ v[i] = PandasStep(w[j], order[i])
        BY <3>2
      <4> HIDE DEF v
      <4> QED BY <4>1
    <3> QED BY <3>1, <3>2
  <2>3. Walks(v, j + 1)
    <3> HIDE DEF v
    <3> QED BY <2>2
  <2> HIDE DEF Walks
  <2> QED BY <2>3
<1>3. k \in S
  <2> HIDE DEF S
  <2> QED BY <1>1, <1>2, SetInduction
<1> QED BY <1>3

\* What the pandas runner would compute solves its equations as far as they
\* can be solved.
LEMMA PandasSolves ==
    ASSUME RunInv, phase = "accepted"
    PROVE  Solution(PandasResults)
<1> DEFINE N == Len(order)
           Equation(w) == w = [i \in 0 .. N |-> IF i = 0 THEN NoDict ELSE PandasStep(w[i - 1], order[i])]
           walk == CHOOSE w : Equation(w)
<1>1. N \in Nat /\ order \in Seq(Nodes) /\ Range(order) = Nodes
  BY AcceptedOrder
<1>2. PandasResults = walk[N]
  BY DEF PandasResults
<1>3. Equation(walk)
  <2>1. PICK w : \A i \in 0 .. N : w[i] = IF i = 0 THEN NoDict ELSE PandasStep(w[i - 1], order[i])
    BY <1>1, WalkExists
  <2> DEFINE v == [i \in 0 .. N |-> w[i]]
  <2>2. ASSUME NEW i \in 0 .. N
        PROVE  v[i] = IF i = 0 THEN NoDict ELSE PandasStep(v[i - 1], order[i])
    <3>1. i # 0 => i - 1 \in 0 .. N
      BY <1>1
    <3>2. v[i] = w[i] /\ (i # 0 => v[i - 1] = w[i - 1])
      BY <3>1
    <3> HIDE DEF v
    <3> QED BY <2>1, <3>2
  <2>3. Equation(v)
    BY <2>2
  <2> HIDE DEF Equation, v
  <2> QED BY <2>3
<1> HIDE DEF walk
<1>4. walk[0] = NoDict /\ \A i \in 1 .. N : walk[i] = PandasStep(walk[i - 1], order[i])
  <2>1. \A i \in 0 .. N : walk[i] = IF i = 0 THEN NoDict ELSE PandasStep(walk[i - 1], order[i])
    BY <1>3
  <2>2. 0 \in 0 .. N /\ \A i \in 1 .. N : i \in 0 .. N /\ i # 0
    BY <1>1
  <2> QED BY <2>1, <2>2
<1>5. SolvesUpTo(walk[N], N)
  <2> DEFINE S == {k \in Nat : k <= N => SolvesUpTo(walk[k], k)}
  <2>1. 0 \in S
    <3>1. SolvesUpTo(NoDict, 0)
      BY DEF SolvesUpTo, NoDict
    <3> QED BY <1>4, <3>1
  <2>2. ASSUME NEW k \in Nat, k \in S PROVE k + 1 \in S
    <3> SUFFICES ASSUME k + 1 <= N PROVE SolvesUpTo(walk[k + 1], k + 1)
      OBVIOUS
    <3>1. k <= N /\ k + 1 \in 1 .. N /\ (k + 1) - 1 = k
      BY <1>1
    <3>2. SolvesUpTo(walk[k], k)
      BY <2>2, <3>1
    <3>3. walk[k + 1] = PandasStep(walk[k], order[k + 1])
      BY <1>4, <3>1
    <3> QED BY <3>1, <3>2, <3>3, StepSolves
  <2>3. N \in S
    <3> HIDE DEF S
    <3> QED BY <1>1, <2>1, <2>2, SetInduction
  <2> QED BY <1>1, <2>3
<1>6. \A n \in Nodes : \E j \in 1 .. N : order[j] = n
  BY <1>1 DEF Range
<1>7. \A j \in 1 .. N : order[j] \in Nodes
  BY <1>1
<1> HIDE DEF N
<1> QED BY <1>2, <1>5, <1>6, <1>7 DEF SolvesUpTo, Solution

-----------------------------------------------------------------------------

\* Agreement with every solution is agreement with what pandas would compute.
LEMMA MeaningShared == RunInv /\ SparkInv /\ EnginesAgree => SparkMeansPandas
<1> SUFFICES ASSUME RunInv, SparkInv, EnginesAgree, Comparable PROVE SparkMeansPandas
  BY DEF SparkMeansPandas, Comparable
<1> DEFINE pandas == PandasResults
           Sound(n) == n \in DOMAIN pandas /\ results[n].sound => SameFrame(results[n].data, pandas[n])
           Unsound(n) == n \in DOMAIN pandas /\ ~results[n].sound => UnsoundSource(n) \/ Misaligned(n)
           Passed(n) == n \notin DOMAIN pandas /\ results[n].sound =>
                          \/ ~(Sources(n) \subseteq DOMAIN pandas)
                          \/ Lenient(graph.def[n], Route(Ports(n), Gathered(n, pandas)))
           Stored(k) == LET plan == results[order[Max(LastWriter(k))]]
                        IN  plan.sound /\ store[k] = plan.data
           Shown == /\ Len(output) <= call.limit
                    /\ call.target \in DOMAIN pandas /\ results[call.target].sound =>
                         Len(output) = Min({call.limit, Len(pandas[call.target].rows)})
           Failed == Current \notin DOMAIN pandas \/ SparkOnly(Current) \/ UnsoundSource(Current)
<1>1. SUFFICES /\ \A n \in DOMAIN results : Sound(n) /\ Unsound(n) /\ Passed(n)
               /\ \A k \in DOMAIN store : LastWriter(k) # {} => Stored(k)
               /\ step = "done" /\ Previewing => Shown
               /\ step = "failed" => Failed
  BY DEF SparkMeansPandas
<1>2. CASE step = "idle"
  <2>1. DOMAIN results = {}
    BY <1>2 DEF RunInv, ResultsExact
  <2>2. \A k : LastWriter(k) = {}
    BY <2>1 DEF LastWriter, Writers
  <2> QED BY <1>2, <2>1, <2>2
<1>3. CASE step # "idle"
  <2>1. Solution(pandas)
    BY <1>3, PandasSolves DEF RunInv
  <2>2. ResultsAgree(pandas) /\ FailureAgrees(pandas)
    BY <2>1 DEF EnginesAgree
  <2> HIDE DEF pandas
  <2>3. ASSUME NEW n \in DOMAIN results PROVE Sound(n) /\ Unsound(n) /\ Passed(n)
    <3>1. PlanAgrees(n, results[n], pandas)
      BY <2>2 DEF ResultsAgree
    <3>2. \A f : SameFrame(f, f)
      BY DEF SameFrame, SameRows
    <3> QED BY <3>1, <3>2 DEF PlanAgrees
  <2>4. ASSUME NEW k \in DOMAIN store, LastWriter(k) # {} PROVE Stored(k)
    <3> DEFINE writer == order[Max(LastWriter(k))]
    <3>1. LastWriter(k) \in SUBSET (1 .. Len(order)) /\ Len(order) \in Nat
      BY DEF LastWriter, Writers, RunInv, KahnInv, KahnTypeOK
    <3>2. Max(LastWriter(k)) \in LastWriter(k)
      BY <2>4, <3>1, MaxOfPositions
    <3>3. writer \in DOMAIN results /\ graph.def[writer].kind = "output"
      BY <3>2 DEF LastWriter, Writers, OfKind
    <3>4. results[writer].sound
      BY <2>2, <3>3 DEF ResultsAgree, PlanAgrees
    <3>5. Writers(DataOf, k) = LastWriter(k)
      BY DEF DataOf, LastWriter, Writers
    <3>6. store[k] = DataOf[writer]
      BY <2>4, <3>5 DEF SparkInv, DataWritten, Written
    <3>7. store[k] = results[writer].data
      BY <3>3, <3>6 DEF DataOf
    <3> QED BY <3>4, <3>7
  <2>5. ASSUME step = "done", Previewing PROVE Shown
    <3> DEFINE plan == results[call.target]
               rows == plan.data.rows
               m == Min({Len(rows), call.limit})
    <3>1. /\ call.limit >= 0 /\ call.target \in DOMAIN results
          /\ output = HeadRows(rows, call.limit)
      BY <2>5 DEF EnginesAgree, PreviewShown
    <3>2. rows \in Seq(Row) /\ Len(rows) \in Nat /\ call.limit \in Int
      <4>1. plan.data \in FrameSet /\ call.limit \in Int
        BY <3>1, RunnerAssumption DEF SparkInv, PlansTyped, PlanSet, RequestKnown
      <4> QED BY <4>1 DEF FrameSet
    <3>3. m \in {Len(rows), call.limit} /\ m <= Len(rows) /\ m <= call.limit
      <4>1. Len(rows) \in Int /\ call.limit \in Int
        BY <3>2
      <4> QED BY ONLY <4>1, MinOfTwo
    <3>4. output = SubSeq(rows, 1, m)
      BY <3>1 DEF HeadRows
    <3> HIDE DEF m
    <3>5. Len(output) = m
      BY <3>1, <3>2, <3>3, <3>4, SubSeqFacts
    <3>6. ASSUME call.target \in DOMAIN pandas, plan.sound
          PROVE  m = Min({call.limit, Len(pandas[call.target].rows)})
      <4>1. PlanAgrees(call.target, plan, pandas)
        BY <2>2, <3>1 DEF ResultsAgree
      <4>2. rows = pandas[call.target].rows
        BY <3>6, <4>1 DEF PlanAgrees
      <4>3. {Len(rows), call.limit} = {call.limit, Len(pandas[call.target].rows)}
        BY <4>2
      <4> QED BY <4>3 DEF m
    <3> QED BY <3>3, <3>5, <3>6
  <2>6. step = "failed" => Failed
    BY <2>2 DEF FailureAgrees
  <2> HIDE DEF Sound, Unsound, Passed, Stored, Shown, Failed
  <2> QED BY <2>3, <2>4, <2>5, <2>6
<1> QED BY <1>2, <1>3

\* The two engines mean the same by a pipeline that does not read what it
\* writes and gives every edge of a node a port of its own, whatever Spark may
\* notice early or late, cast to null or not notice at all: a plan that will
\* evaluate has the columns and the rows pandas computes, unless pandas raises
\* at what Spark lets through, there or further up; a plan that will not
\* belongs to a node pandas fails at or after, or stands behind a union that
\* only pandas fills up; and only plans that were evaluated are written.
THEOREM SparkAndPandasAgree == SparkSpec => []SparkMeansPandas
<1>1. SparkInit => EnginesAgree
  BY AgreeInit
<1>2. RunInv /\ SparkInv /\ EnginesAgree /\ [SparkNext]_sparkVars => EnginesAgree'
  BY AgreeNext
<1>3. RunInv /\ SparkInv /\ EnginesAgree => SparkMeansPandas
  BY MeaningShared
<1> QED BY <1>1, <1>2, <1>3, SparkRunInvariant, PlanInvariant, PTL DEF SparkSpec

=============================================================================
