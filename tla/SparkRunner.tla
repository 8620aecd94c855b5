----------------------------- MODULE SparkRunner -----------------------------
(***************************************************************************)
(* One request against the Spark runner (PySparkPipelineRunner, and the    *)
(* loop of PipelineRunner.run_spark): graph, order, walk and routing are   *)
(* those of PipelineRunner; what differs is that a node only adds to a     *)
(* plan.  The plan is evaluated by an output node (the in-memory connector *)
(* collects it) or at the target of a preview, so a row that does not fit  *)
(* an operation may show long after the operation was logged as succeeded. *)
(*                                                                         *)
(* Spark itself is external.  What it cannot resolve (a column, a kind of  *)
(* join) it refuses while the plan is built (a classic session) or when it *)
(* is evaluated (Spark Connect); a value that does not fit is refused at   *)
(* either time (ANSI mode) or cast to null; a frame without rows or of     *)
(* mixed types, whose schema it would have to infer, is taken or not.  All *)
(* this is left open.  Joined rows keep an order that no property looks    *)
(* at.                                                                     *)
(***************************************************************************)
EXTENDS PipelineRunner

VARIABLE session    \* the Spark session, made when it is first asked for

sparkVars == <<vars, session>>

\* A plan: the frame it yields before evaluation meets what it refuses, and
\* whether it meets nothing of the kind.
Plan(data, sound) == [data |-> data, sound |-> sound]

Unresolved == Plan(DataFrame({}, <<>>), FALSE)
NotResolved == {Raised, Returned(Unresolved)}

\* A plan that may be refused while it is built unless it fits.
Outcomes(fits, plan) == {Returned(plan)} \cup IF fits THEN {} ELSE {Raised}

\* What does not fit is cast to null.
Casts(fits, plan) == IF fits THEN {} ELSE {Returned(plan)}

\* The rows before the first that does not fit.
FittingRows(rows) ==
    LET misfits == {i \in DOMAIN rows : rows[i] \in BrokenRows}
    IN  IF misfits = {} THEN rows ELSE SubSeq(rows, 1, Min(misfits) - 1)

Usable(f) == f.sound /\ Fits(f.data)

LazyRead(inputs, key) ==
    IF inputs.frames = <<>> /\ key # InvalidKey /\ key \in DOMAIN store
    THEN Outcomes(store[key].rows # <<>> /\ Fits(store[key]), Plan(store[key], TRUE))
    ELSE {Raised}

\* Where the condition is true; null is not.
FilterPlan(f, rows, sound) == Plan(DataFrame(f.data.columns, Kept(rows)), sound)

\* df.columns is asked for, so the names are checked while the plan is built.
LazyFilter(f) ==
    IF ConditionColumns \subseteq f.data.columns
    THEN Outcomes(Usable(f), FilterPlan(f, FittingRows(f.data.rows), Usable(f)))
           \cup Casts(Fits(f.data), FilterPlan(f, f.data.rows, f.sound))
    ELSE {Raised}

\* Dropping a column that is not there does nothing.
TransformPlan(node, f) ==
    Plan(DataFrame(BeforeDrop(node, f.data.columns) \ node.drop, Projection(f.data.rows)), f.sound)

LazyTransform(node, f) ==
    IF node.select \subseteq f.data.columns
    THEN Outcomes(f.sound, TransformPlan(node, f))
    ELSE NotResolved

\* Kinds of joins that Spark knows and pandas does not.
SparkKinds == {"semi", "anti"}

SemiJoined(l, r, how) ==
    DataFrame(l.columns,
              Taken(l.rows, {i \in DOMAIN l.rows : (Matches(l.rows[i], r.rows) > 0) = (how = "semi")}))

SparkMerge(l, r, how) == IF how \in SparkKinds THEN SemiJoined(l, r, how) ELSE Merge(l, r, how)

LazyJoin(sides, how) ==
    LET l == sides[1]
        r == sides[2]
        fits == Usable(l) /\ Usable(r)
        joined == SparkMerge(l.data, r.data, how)
    IN  IF /\ how \in MergeKinds \cup SparkKinds
           /\ JoinColumns \subseteq l.data.columns \cap r.data.columns
        THEN Outcomes(fits, IF fits THEN Plan(joined, TRUE)
                            ELSE Plan(DataFrame(joined.columns, <<>>), FALSE))
               \cup Casts(Fits(l.data) /\ Fits(r.data), Plan(joined, l.sound /\ r.sound))
        ELSE NotResolved

\* unionByName wants the same columns in all frames, no two of one name.
UnionFits(fs) ==
    /\ \A i \in DOMAIN fs : fs[i].data.columns = fs[1].data.columns
    /\ Suffixed \notin fs[1].data.columns

\* Evaluation goes through the frames one after the other, up to a misfit.
LazyUnion(fs) ==
    LET unsound == {i \in DOMAIN fs : ~fs[i].sound}
        last == IF unsound = {} THEN Len(fs) ELSE Min(unsound)
        rows == FlattenSeq([i \in 1 .. last |-> fs[i].data.rows])
    IN  IF UnionFits(fs)
        THEN Outcomes(unsound = {}, Plan(DataFrame(fs[1].data.columns, rows), unsound = {}))
        ELSE NotResolved

\* Deviation: the plan is taken as it is, up to its first misfit.
CollectPart(f, key) == IF key # InvalidKey THEN {Returned(f)} ELSE {Raised}

\* write_spark collects the whole plan.
Collect(f, key) ==
    IF f.sound /\ key # InvalidKey THEN {Returned(f)} ELSE {Raised}

\* What execute_spark may come to, every branch with its check of the inputs.
SparkOutcomes(node, inputs) ==
    LET fs == inputs.frames
    IN  CASE node.kind = "input" -> LazyRead(inputs, node.key)
          [] node.kind = "filter" /\ Len(fs) = 1 -> LazyFilter(fs[1])
          [] node.kind = "transform" /\ Len(fs) = 1 -> LazyTransform(node, fs[1])
          [] node.kind = "output" /\ Len(fs) = 1 -> Collect(fs[1], node.key)
          [] node.kind = "union" /\ Len(fs) >= 2 -> LazyUnion(fs)
          [] node.kind = "join" /\ Sides(inputs) # <<>> -> LazyJoin(Sides(inputs), node.how)
          [] OTHER -> {Raised}

-----------------------------------------------------------------------------

SparkInit == Init /\ session = "none"

\* What is not about frames is as in the pandas runner.
Shared ==
    /\ \/ Build \/ StartRun \/ RejectUnknownTarget \/ StartPreview
       \/ Visit \/ EndVisit \/ SkipNode \/ FinishRun
    /\ UNCHANGED session

AtNode == step = "executing" /\ at <= Len(order) /\ Asked(Current)

AtTarget == Previewing /\ Current = call.target

\* limit(n) asks for no row beyond the n-th; Spark may yet look further.
MayShow(f) ==
    /\ call.limit >= 0
    /\ f.sound \/ (f # Unresolved /\ Len(f.data.rows) >= call.limit)

SurelyShows(f) == call.limit >= 0 /\ f.sound

SparkExecuteNode ==
    /\ AtNode
    /\ \E outcome \in SparkOutcomes(graph.def[Current], Inputs(Current)) :
        /\ outcome.ok
        /\ AtTarget => MayShow(outcome.frame)
        /\ results' = Put(results, Current, outcome.frame)
        /\ WriteThrough(Current, outcome.frame.data)
        /\ logs' = IF Previewing THEN logs
                   ELSE Append(logs, NodeLog(Current, "succeeded", 0))
        /\ IF AtTarget
           THEN step' = "done" /\ output' = HeadRows(outcome.frame.data.rows, call.limit)
           ELSE UNCHANGED <<step, output>>
    /\ at' = at + 1
    /\ session' = "open"
    /\ UNCHANGED <<kahnVars, call, toVisit, upstream, before, runs>>

\* execute_spark raises, a preview's collection of its target does, or the
\* session cannot be made.
SparkFailNode ==
    /\ AtNode
    /\ \/ session = "none"
       \/ \E outcome \in SparkOutcomes(graph.def[Current], Inputs(Current)) :
            outcome.ok => AtTarget /\ ~SurelyShows(outcome.frame)
    /\ logs' = IF Previewing THEN logs ELSE Append(logs, NodeLog(Current, "failed", 0))
    /\ step' = "failed"
    /\ UNCHANGED <<kahnVars, call, toVisit, upstream, at, results, output, store,
                   before, runs, session>>

SparkNext == Shared \/ SparkExecuteNode \/ SparkFailNode

SparkSpec == SparkInit /\ [][SparkNext]_sparkVars

-----------------------------------------------------------------------------
(***************************************************************************)
(* Properties                                                              *)
(***************************************************************************)

\* The variables keep their types, a run without a session has executed
\* nothing, and a log entry belongs to a node of the order.
SparkTypeOK ==
    /\ TypeOK
    /\ session \in {"none", "open"}
    /\ session = "none" => results = NoDict
    /\ \A n \in DOMAIN results : results[n].sound \in BOOLEAN

\* What the pandas runner makes of node n when it has the frames d.
PandasStep(d, n) ==
    LET outcome == Computed(n, d, before)
    IN  IF Sources(n) \subseteq DOMAIN d /\ outcome.ok THEN Put(d, n, outcome.frame) ELSE d

\* The frames the pandas runner would compute, node after node.
PandasResults ==
    LET walk[i \in 0 .. Len(order)] ==
          IF i = 0 THEN NoDict ELSE PandasStep(walk[i - 1], order[i])
    IN  walk[Len(order)]

\* Every row is in f as often as in g.
SameRows(f, g) ==
    /\ Len(f) = Len(g)
    /\ \A i \in DOMAIN f : Cardinality({j \in DOMAIN f : f[j] = f[i]})
                             = Cardinality({j \in DOMAIN g : g[j] = f[i]})

\* What pandas raises on and Spark may let through: values that do not fit, a
\* column to drop that is not there, a kind of join that pandas lacks.
Lenient(node, inputs) ==
    LET f == inputs.frames[1]
        sides == Sides(inputs)
    IN  \/ node.kind = "filter" /\ ~Fits(f)
        \/ node.kind = "transform" /\ ~(node.drop \subseteq BeforeDrop(node, f.columns))
        \/ node.kind = "join" /\ (node.how \in SparkKinds \/ ~Fits(sides[1]) \/ ~Fits(sides[2]))

\* A union that Spark refuses and pandas fills up.
Misaligned(n) == graph.def[n].kind = "union" /\ ~UnionFits(Frames(n))

UnsoundSource(n) == \E s \in Sources(n) : ~results[s].sound

\* Where Spark has a reason of its own to refuse a node at once.
SparkOnly(n) ==
    \/ session = "none"
    \/ graph.def[n].kind = "input" /\ ~(before[graph.def[n].key].rows # <<>> /\ Fits(before[graph.def[n].key]))
    \/ Misaligned(n)
    \/ Previewing /\ call.limit < 0

\* The columns and the rows, in any order.
SameFrame(f, g) == f.columns = g.columns /\ SameRows(f.rows, g.rows)

\* How far two engines mean the same by a pipeline that does not read what it
\* writes.  A plan that will evaluate has the frame pandas computes, or no such
\* frame exists because pandas raises on what Spark lets through, here or
\* further up; one that will not evaluate belongs to a node pandas fails at or
\* after, or that comes to a union Spark refuses.  What was written is a plan
\* evaluated to its end.  A preview shows as many rows as pandas' where both
\* have a frame, and never more than asked for.  A failure is one pandas has
\* too, one noticed late, or one of the few that only Spark knows.
SparkMeansPandas ==
    NoFeedback /\ DistinctPorts =>
        LET pandas == PandasResults
        IN  /\ \A n \in DOMAIN results :
                 /\ n \in DOMAIN pandas /\ results[n].sound => SameFrame(results[n].data, pandas[n])
                 /\ n \in DOMAIN pandas /\ ~results[n].sound => UnsoundSource(n) \/ Misaligned(n)
                 /\ n \notin DOMAIN pandas /\ results[n].sound =>
                      \/ ~(Sources(n) \subseteq DOMAIN pandas)
                      \/ Lenient(graph.def[n], Route(Ports(n), Gathered(n, pandas)))
            /\ \A k \in DOMAIN store : LastWriter(k) # {} =>
                 LET plan == results[order[Max(LastWriter(k))]]
                 IN  plan.sound /\ store[k] = plan.data
            /\ step = "done" /\ Previewing =>
                 /\ Len(output) <= call.limit
                 /\ call.target \in DOMAIN pandas /\ results[call.target].sound =>
                      Len(output) = Min({call.limit, Len(pandas[call.target].rows)})
            /\ step = "failed" =>
                 Current \notin DOMAIN pandas \/ SparkOnly(Current) \/ UnsoundSource(Current)

-----------------------------------------------------------------------------
(***************************************************************************)
(* The inductive invariant about the plans of a request, besides RunInv.   *)
(***************************************************************************)
PlanSet == [data : FrameSet, sound : BOOLEAN]

\* A result is a plan, made in a session; what is stored are frames.
PlansTyped ==
    /\ session \in {"none", "open"}
    /\ session = "none" => results = NoDict
    /\ \A n \in DOMAIN results : results[n] \in PlanSet
    /\ store \in [DOMAIN store -> FrameSet]
    /\ before \in [DOMAIN before -> FrameSet]

\* The store holds the frames of what output nodes wrote, last write last.
DataOf == [n \in DOMAIN results |-> results[n].data]

DataWritten == store = Written(DataOf, before)

SparkInv == RequestKnown /\ LogGrows /\ PlansTyped /\ DataWritten

=============================================================================
