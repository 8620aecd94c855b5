# OpenFlow in TLA+

OpenFlow is a small ELT platform in Python. Pipelines are directed acyclic
graphs of nodes (read, filter, join, union, transform, write) over data frames.
They are drawn in a browser studio, stored and run through a FastAPI service or
by Celery workers, and executed by a pandas or a PySpark runner. This directory
holds TLA+ modules of its parts, TLC configurations that check them on small
instances, and TLAPS proofs of what the execution of a graph must guarantee.

Paths below are relative to the repository (`src/openflow_engine/...` is
`src/src/openflow_engine/...` in PROJECT.json).

## 1. Inventory

### Graph validation and execution order
`openflow_engine/runner.py`, `openflow_engine/pyspark_engine.py`,
`openflow_api/schemas.py`

- State: the list of nodes and the list of edges as submitted; in-degrees, the
  queue of ready nodes, the order built so far.
- Operations: normalise edges, build the parent map (an edge with an unknown end
  is a `ValueError`), Kahn's algorithm, `CycleError`. The same algorithm is
  written three times. The runners work on a dict of nodes, in which a repeated id
  is one node. `PipelineGraph.validate_acyclic` counts against the raw list.
- Hard: parallel edges, self loops, repeated ids, a cycle that is reachable only
  in part. Each of these moves a counter.
- Correct when: an order lists sources before targets and every node once, no
  cyclic graph is accepted, no acyclic one refused, the loop ends.

### Pandas runner and nodes
`openflow_engine/runner.py`, `openflow_engine/nodes.py`, `openflow_api/service.py`

- State: `results` (node to frame), `logs`, the connector it reads and writes,
  and for a preview the stack and the set of ancestors.
- Operations: `run` executes the whole order, `preview` only the ancestors of a
  target. The frames of a node's sources are handed over in a list, or in a dict
  keyed by port as soon as one edge names a port. An output node writes to the
  connector at once. A node that raises ends the request.
- Hard: a failure after earlier nodes have written, a request made again,
  port names that meet, a preview below an output node, a negative limit.
- Correct when: inputs exist when a node runs, a preview executes exactly the
  ancestors, log, results and store tell the same story, a retry changes nothing.

### PySpark runner
`openflow_engine/pyspark_engine.py`, `PipelineRunner.run_spark`, the
`execute_spark` methods of the nodes

- State: `spark_dfs` (node to lazy frame), `logs`, the session, the connector.
- Operations: the same graph code over lazy frames; a write to the in-memory
  connector collects a plan, a preview collects `limit` rows of its target.
- Hard: an error surfaces where a frame is collected and not where it was made,
  after other nodes were logged as succeeded and other outputs written.
- Correct when: a pipeline means what it means in pandas, but for what Spark is
  known to let through or to refuse.

### FastAPI service
`openflow_api/app.py`, `service.py`, `deps.py`

- State, shared by all threads without a lock: `shared_connector` (scoped key to
  frame), `_PIPELINES_DB` (id to record), the medallion catalog.
- Operations: load a preset, upload, execute a transform (with automatic loading
  of a preset), create, get, run and preview a pipeline, register and promote
  medallion tables, test connectors.
- Hard: plain `def` endpoints run in a thread pool, so every read-check-write is
  split by other requests; two projects use the same keys; ids and keys may
  have slashes, and a scoped key is their concatenation.
- Correct when: projects whose homes are apart stay apart, a client finds what it
  was told of, every request is answered.

### Celery worker
`openflow_api/worker.py`, `models.py`

- State: the broker's queue, the `executions` table, a database session per task.
- Operations: fetch the pipeline, insert a row "running", run, settle the row,
  return. Every one is a call that may fail.
- Hard: a commit that fails before or after it took effect, a process that dies
  between two calls, a message delivered again, an exception in the handler of an
  exception.
- Correct when: a row and the report of its task agree, a row tells what the run
  did, no row stays "running" without a cause, every message is answered.

### Studio server, desktop shell and studio client
`openflow_ui/app.py`, `openflow_ui/static/index.html`

- State: `active_dfs` (name to frame), a class attribute shared by the threads of
  `ThreadingHTTPServer`; in the page, `currentPreset`, `activeColumns`,
  `activeRows` and what is shown.
- Operations: load a preset, execute a transform (stored as `{preset}_output`),
  statistics, aggregates and plots (which prefer `{preset}_output`), promotion.
- Hard: answers of overlapping fetches arrive in any order; an output stays when
  its preset is loaded again; a check, a fill and a store are separate steps.
- Correct when: frames stay with their preset, a plot shows what was executed,
  the table belongs to the preset the page names, the status does not stay
  RUNNING.

### Code executor, filter expressions
`openflow_api/code_executor.py`, `openflow_engine/ast_compiler.py`

- State: the frame passed in, which the caller keeps, and the copies made of it.
- Operations: run a condition, Python over pandas, Python over Spark, or SQL;
  report the result, or any `Exception` as a failed output. The compiler validates a
  condition and evaluates it in pandas or turns it into a Spark column.
- Hard: code that changes its frame in place; `&`, `|` and `~` on bits where a
  condition means truth; missing values, which the engines treat differently.
- Correct when: a condition keeps the rows it is true for, in both engines; the
  validator catches whatever the evaluators cannot take; the caller's frame stays.

### Connectors
`openflow_engine/connectors.py` (a dict in memory, files and object stores),
`cloud_connectors.py` (SQL and S3 through drivers)

- State: scoped key to frame. Hard: the same instance is shared by threads, and a
  worker has an instance of its own.

### Medallion catalog, capacity metering, governance, analytics, guards, secrets
`medallion.py`, `fabric_capacity.py`, `governance.py`, `openflow_ui/analytics.py`,
`security.py`, `crypto.py`

- The catalog keeps one table per stage for the whole process; it is read while
  it changes. Metering is arithmetic on row counts, sizes and durations; correct
  when a job kept off the cluster is not charged more than the cluster. The others
  are functions on strings and frames without state.

How they interact: the client posts to the studio server or to the API; the API
and the worker build a runner through `PipelineService.build_runner`; the runner
calls nodes, nodes call a connector; API threads share one connector, a worker
makes its own; the worker and Celery share the database and the broker.

## 2. Plan

Modules in the order they are written, the most important behaviour first.
Done means modelled, checked and, where named, proved.

| Module | Of what | Composes | State |
| --- | --- | --- | --- |
| `Kahn` | graph validation and order | | done, proved |
| `Frames` | what is done with frames whatever their rows are | | done, proved |
| `NodeSemantics` | routing and nodes as operators | `Frames` | done, proved |
| `DagRun` | what a runner promises (abstract) | | done |
| `PipelineRunner` | a run or preview, and its retry | `Kahn`, `NodeSemantics`, implements `DagRun` | done, proved |
| `ExecutionRecords` | what the table of executions promises (abstract) | | done |
| `Worker` | the Celery task with faults | implements `ExecutionRecords` | done, proved |
| `TransformApi` | the API and its medallion catalog under concurrency | | done, proved |
| `Studio` | studio server and client, overlapping fetches | | done, proved |
| `SparkRunner` | lazy frames over the order of `Kahn` | `PipelineRunner`, implements `DagRun` | done, proved |
| `FilterExpr` | conditions in pandas and in Spark, as functions on trees | | done, proved |
| `CodeEngines` | one execution of user code by any engine | `Frames` | done, proved |
| `CodeExecutor` | what a condition means to it | `CodeEngines`, `FilterExpr` | done, proved |
| `Capacity` | tiers and capacity units | | done, proved |

Abstract specifications worth stating: `DagRun`, which both runners implement
(done); `ExecutionRecords`, which `Worker` implements whatever fails (done). For
the API one is not written: what a store per project would promise is stated as
the properties `ScopesSeparate` and `ToldIsFound`.

Theorems worth proving, in this order: the invariant of Kahn's loop and what
follows from it, the invariant of a request, availability of inputs, exactness
of previews and the refinement of `DagRun`, for both runners; what a request
computes, logs and stores, what a retry changes, and that Spark and pandas mean
the same; the code executor and what the capacity tiers promise; the safety
properties of `Worker`, `TransformApi` and `Studio`, and the refinement of
`ExecutionRecords`. All of these are done. What
is left is in reach of TLC only (end of section 5).

## 3. The modules and the code

### Kahn
One behaviour is one construction of a runner, or one call of
`validate_acyclic` (variable `caller`). `CountIndegrees` is the comprehension
and the loop that fill `indegree` and `children`; `ScanNode` is one turn of the
comprehension that collects ready nodes; `PopReady` is `ready.pop(0)` and
`order.append`; `RelaxEdge` is one turn of the inner loop, in the order of the
edge list; `Accept` and `RaiseCycleError` are the comparison at the end.
`Expected` is where the callers differ. A dict keeps the first position of a
key, hence `FirstAt`.

### Frames and NodeSemantics
Pure operators. `Taken` is what a loop with a condition, or pandas' indexing by a
mask, collects of a sequence; `HeadRows` is `DataFrame.head`. `Route` is the
routing of `run` and `preview`: with no port the frames keep the order of the
edges; with one, a dict of names in which a later edge replaces the frame of an
earlier one at the earlier position.

A frame is a set of column names and a sequence of rows. Columns are there for
the errors they cause: a condition, a selection, a drop or a join that names a
column its frame has not fails, whether the frame has rows or not, and a
transform or a join decides which columns the next node finds (`MergedColumns`;
the columns that both sides have get suffixes and become the one name
`Suffixed`). Rows are model values: which rows a condition keeps, which hold
values that no comparison fits (`BrokenRows`), the join key, and what a row
becomes when columns go or come (`Projected`, `Padded`) are constants. The four
kinds of joins are those `pd.merge` knows; another name fails. `Built` leaves
out configurations that name the columns a join makes up, or rename a column to
one that is renamed in turn. A joined row keeps the identity of the row it was
made for, outer joins are not sorted, and a join is on at least one column.

### PipelineRunner
Extends `Kahn`: `Build` is the constructor; then `StartRun`, or `StartPreview`,
`Visit` (a turn of the loop over the stack) and `EndVisit`; then `ExecuteNode`,
`FailNode` and `SkipNode` along the order. `Ports(n)` and `Gathered(n, results)`
are the list `parents[n]`: the ports of its edges and the frames of their
sources, in the order of the edges. An output's write is part of its
`ExecuteNode`. `Retry` is the client making the same request again, with the
store as it was left. `logs` is kept by `run` only. The runner's stack is a set:
the order in which ancestors are found makes no difference to the set found, and
the model allows every order.

`DagRun` says what this is for: of the wanted tasks each is finished once, after
its predecessors, until all are finished or one fails, and nothing starts whose
graph has a cycle. `Dag`, `Wanted` and `Status` are the refinement mapping,
`KeepsPromise` the property.

### SparkRunner
Extends `PipelineRunner`: graph, order, walk and routing are the same code twice
and the same definitions here. `Build`, `StartRun`, `StartPreview`,
`Visit`, `EndVisit`, `SkipNode` and `FinishRun` are shared; `SparkExecuteNode`
and `SparkFailNode` replace `ExecuteNode` and `FailNode`. A lazy frame is a
`Plan`: the frame it yields before evaluation meets something Spark refuses, and
whether it meets nothing of the kind. `SparkOutcomes` leaves open all that
depends on the build of Spark or on its configuration:
- A column or a kind of join that cannot be resolved is refused while the plan is
  built (a classic session) or when it is evaluated (Spark Connect, which
  `SPARK_CONNECT_URL` selects): `NotResolved`. The columns of a condition are
  checked by the compiler, at once.
- A value that does not fit a comparison is refused, at once or late (ANSI mode),
  or cast to null, and then a filter drops its row: `Outcomes` and `Casts`.
- `df.drop` of a column that is not there does nothing, where pandas raises
  (`TransformPlan`), and Spark knows kinds of joins that pandas does not
  (`SparkKinds`; its many synonyms for the four common kinds are left out).
- `unionByName` refuses frames with different columns, which `pd.concat` fills up
  (`UnionFits`), and a frame without rows or with mixed values may not become a
  Spark frame at all (`LazyRead`).

`Collect` is the evaluation by a write to the in-memory connector, `MayShow` and
`SurelyShows` that of a preview. `SparkFailNode` also is the session that cannot
be made. `SparkMeansPandas` compares with `PandasResults`, the frames the pandas
runner computes: a function that executes the nodes along the order. It does not
claim that the two agree on everything, because they do not. It says where they
may differ and that they differ nowhere else: `Lenient` are the nodes at which
pandas raises and Spark may go on, `Misaligned` the unions that Spark alone
refuses, `SparkOnly` the other reasons of its own. A plan that will evaluate has
pandas' columns and rows, or pandas has no frame for that node because of such a
leniency at it or further up. A join that ignores a third input is such a case: the
pandas runner has computed that input as well and failed where it does not fit,
Spark never evaluates it (the graph `ThirdInput` of `MCSparkRunner`).

### FilterExpr, CodeEngines and CodeExecutor
A condition is a tree of records as `ast.parse` makes it (`WellFormed`). The trees
there are are the domain of the constant `Height`, which gives each a number
larger than those of its parts, because a parse tree is finite. The recursive
methods of the compiler are recursive functions on this set, each with one
operator for what a node makes of the values of its parts: `Nodes` are the nodes
the validator visits, `Allowed` what it asks of each and `Valid` its verdict;
`EvalPandas` (`PandasOf`) and `EvalSpark` (`SparkOf`) are the two evaluators, for
one row at a time. A value carries the type pandas or Python gives it, as `~True`
is -2 for a Python scalar and False for an element of a Series. `Bitwise_` works
on three bits, enough for the integers that occur. `Means` is not code: it is the
truth of the condition as Python would evaluate it, on a row without missing
values, and what the others are compared with.

`CodeEngines` is `CodeExecutor.execute`. What the validator says of a condition
and the evaluator makes of a row are its parameters `Accepts` and `Mask`.
`CodeExecutor` adds `FilterExpr` and the properties about conditions, and the
configurations give the parameters the values `Valid` and `MaskPandas`
(`ConditionAssumption`). What is proved of the engines alone holds for every
evaluator of conditions. `CodeEngines` keeps the frames in a heap, so that the
caller's frame and a copy of it are two things; cells hold plain values, as
`DataFrame.copy` does not copy the objects in cells. A program is the effect its
execution has on its scope: whether it changes a frame in place, how it ends
(`Endings`), whether it deletes `df`, binds `transform` or `df_out`, and yields a
frame, and how the report on what it made ends. What is raised is an `Exception`,
which becomes a failed output, or `escapes`: `except Exception` does not catch the
`SystemExit` of an `exit()` in user code, and then there is no output and no audit
record (`Escape`). The report is made inside the `try`, of an object user code may
have made, so it may raise as well (`ReportRaises`). In the pandas engine
`transform` comes before `df_out` before `df`, each on the copy the code hands it.
`ExecutePyspark` may always raise, as no session may be had and plans fail when
they are collected.

### Capacity
Operators: `EvaluateTier` and `WithinBounds` of the router, `EmbeddedUnits` and
`SparkEquivalent` of `calculate_metrics`, in millionths of a unit so that they are
whole numbers, and `ReportsTier0` for the rounded numbers of a report. The
service's executor does not ask the router: it takes the tier from the engine's
name, so nothing here is a transition of `CodeEngines`.

### Worker
One action per call of the task (`Fetch`, `Insert`, `Refresh`, `RunPipeline`,
`Commit`, `Return`) and one per way it can fail. `InsertFails` and
`CommitFails` leave open whether the row got to the database. `inTry` says
whether `except Exception` still catches; `session` is "broken" after a failed
commit, because nobody rolls back. `Return` needs `execution.id`, which the
commit has expired, so it is a call as well (`ReloadFails`). The broker follows
Celery's defaults for Redis: early acknowledgement, a visibility timeout for
messages a worker has reserved but not started, no retries. `Visible` is empty
because the task makes a connector of its own. Broker, database and process
death are marked external.

`ExecutionRecords` says what the rows are for, without tasks, sessions or a
broker: a row appears as "running", its pipeline is run at most once, "succeeded"
is written only after a good run, and a settled status is told at most once. A
failed row stays failed; a success may be taken back, but only before anyone was
told of it: that is what a failed reading of `execution.id` does to a row
(`ReloadFails`, or `CommitFails` with a commit that did reach the database). The
mapping is `rows` and `outcome` as they are and, for `told`, the reports with a
status (`Reported`); `KeepsRecords` is the property.

### TransformApi
One action per access of shared state; the steps between two accesses belong to
the action that follows, as no other thread can see them. A frame is the set of
ingested datasets its rows come from, which is what isolation is about. A
pipeline is the list of the accesses its nodes make, in the runner's order,
which `PipelineRunner` is responsible for. Endpoint errors are distinguished:
`bad request`, `not found`, `server error` (an exception nobody catches).
`answeredBefore` is a history variable: what the clients of the project had been
told when the request began.

A string is the sequence of what it has between its slashes, so that `ScopedKey`
is the concatenation the code makes, of `Clean`ed parts (`lstrip("/")`).
`validate_and_scope_key` refuses empty keys and the segments `.` and `..`
(`Refused`) and nothing else: ids and keys may have slashes, and scoped keys are not
injective. The organisation `a` with the project `b/c` writes into what `a` with
`b` sees under `c/`. `ScopesSeparate` is therefore about workloads in which no
project's home begins another's (`HomesApart`), as is the case where ids have no
slash; slashes in keys do not matter then. `NestedCalls` of `MCTransformApi` are
projects of which one is inside the other.

`build_runner` raises a `ValueError` for a kind of node it does not know or a
condition that does not parse, which `run_pipeline` does not catch and
`preview_pipeline_node` does (`Starts`). Whether a filter, transform, join or
union fits its data is left open (`ComputeNode`, `FailNode`); what was written
before it stays. User code that exits ends its request with a server error.

A promotion reads the connector (`ReadSource`, or
`MissSource` and the default preset, which it does not write back) and then
registers the table (`RegisterTable`). A listing goes over the catalog once per
stage; `BeginStage` and `EndStage` are the begin and the end of one iteration, in
between which the dict may grow, and then the iteration may raise. Only the
first registration of a stage makes the dict grow, which is why `ToldIsFound`
asks for lists that succeed once all three stages were told of.

### Studio
One page and the threads behind it. `Click` is what the user does: each of the
four functions of the page that post something sets its part of the page and
sends a fetch; `Serve` is the thread of the fetch, one action per access of
`active_dfs`; `Handle` is what follows the awaits, or the catch block. Fetches
are numbered in the order of the clicks, the first is the load at the end of the
script. A frame is told by the preset its rows stem from, the fetch that
computed it and whether the code succeeded, so that a failed transform's empty
frame is a frame like any other. `request[f].after` is a history variable: the
fetches the page had been answered when it sent `f`. So is `calm`: no preset was
chosen while rows were on their way, and no load has failed. `Draw` may raise on
a frame with rows, as on a column it does not have, and then the fetch fails
without a reply. So does an execution whose code exits: the thread of the handler
ends, nothing is stored and no reply is sent (`AbandonExecution`).

### Deviations
Next to some definitions stands a variant marked "Deviation". No specification
uses them. Each is the definition as a plausible bug would have it, and shows
for one property that the property would notice.

## 4. The runs

| Run | Checks | On |
| --- | --- | --- |
| `kahn` | loop invariant (types and no node twice among its parts), topological order, completeness, acyclicity, no false alarm by a runner, a verdict is reached | every list of up to 3 edges over 3 ids on 5 node lists (repeated, missing and no ids), every simple graph on 3 nodes, every sub-graph of a diamond with a shortcut and back edges on 4 |
| `runner` | invariant of a request, inputs, ancestors, log, meaning of results and failures, store, invariant of what is computed, bounded previews, retries, end, refinement of `DagRun` | fans over all pairs of 6 ports and 3 source pairs into join, left join, union and filter, three-edge unions, diamonds, every other kind of join and one pandas does not know, changes of columns before filters and transforms, several outputs, feedback, faulty graphs; 6 stores (good, with misfits, without rows, without columns, with other columns, with a key missing); a run and three previews; twice |
| `spark` | Spark's plans are what pandas computes, except where Spark is known to be more lenient or stricter, whenever it notices a misfit; invariant of plans; refinement of `DagRun` | the crafted graphs, fans over 4 port pairs, chains, branches and diamonds of filters and transforms that rename, drop or select columns, joins of 5 kinds and unions below them; 7 stores with misfits in front and behind; a run and five previews |
| `worker` | report and row agree, the row tells the outcome, a stuck row has met a fault, executed once, every message answered, refinement of `ExecutionRecords` | 2 processes, 2 messages, good, refused, failing and missing pipelines, any call failing, 1 death, 1 redelivery per message |
| `api` | projects whose homes are apart separate, what was told of is found, every request answered | up to 7 concurrent requests of two projects (ids with slashes, one inside the other) for ingestion, for a pipeline, for promotions, for a listing while tables are registered, for refusals of keys, graphs and ids |
| `executor` | a condition keeps the rows it is true for in both engines, the validator suffices, every `Exception` is reported and only what is none escapes, the caller's frame is untouched | 18 rows alone and in pairs (floats, a missing value, integers, booleans); comparisons with all operators, chains, connectives, negations, numbers in place of conditions, refused syntax in every position; all 288 programs; limits 1 and -1 |
| `studio` | frames stay with their preset, plots are fresh, the table fits the named preset on a calm page, the status settles | the first load and 3 clicks on 2 presets, a transform may fail or end its thread, any reply may be lost |
| `partial_writes` | **violated**: a failed run leaves what it has written | crafted graphs of `runner` |
| `negative_limit` | **violated**: a negative limit is not a bound | as `runner` |
| `port_collision` | **violated**: a union loses the rows of an edge whose port name is taken | as `runner` |
| `filter_not` | **violated**: in pandas `not True` keeps every row | as `executor` |

A run marked *violated* states what a document or a docstring says of the
program and finds the behaviour that contradicts it; the finding in PROJECT.json
quotes the line.

What the code does and no property denies: `validate_acyclic` refuses a list that
repeats an id as cyclic (it counts the raw list; `RunnerCycleErrorIsReal` is about
the runners). A dataset uploaded between the failed read and the write of a
transform is overwritten with the preset. A worker's connector is its own and
always empty (`Visible`), so a pipeline with an input node fails there. Each
promotion reads the raw dataset and not the table of the stage below. A listing
may fail while a stage is registered for the first time. A worker whose database
fails at the wrong call leaves a row "running" (`StuckOnlyByFault` names the
faults). Spark writes what pandas raises on: rows less, where a value did not fit,
or all of them, where a column to drop was not there. Projects of which one's id
begins with the other's and a slash share keys.

Bounds and why they are enough. Kahn's counters can go wrong by parallel edges, by
a node with two sources, by a node reached before another source, by a cycle
behind an acyclic part: the diamond with a back edge has them all, and the proofs
lift the results to every graph. `MaxRuns = 2` is one retry; a second retry starts
from a store a retry has left, which the passing property says is the same store.
Routing compares names pairwise, so fans of two edges and unions of three show
every collision. `MaxPreview = 2` (100 in the code) is below and above the frames
that occur. In `worker`, rows belong to one task each and tasks share only the
queue, so two processes and two messages show every interaction; `MaxCrashes = 1`
and `MaxRedeliveries = 1` let each fault meet every other step, and four execution
ids are one for each time a message can be started. In `api`, two requests contend
for a key in each way (write and write, read and write, read-miss and write), a
third and fourth observe. In `studio`, `MaxFetches = 4` is two transforms and a
plot that has to choose between their outputs, over the first load, which may
still fill the dict after them; one stage is enough, as no handler reads what a
promotion stores. In `spark`, a misfit in front of, behind and without a fitting
row, below one and two lazy operations, in one and in both branches, and a column
that is missing in one input, meet every way Spark can notice or pass over them;
requests are made once, as a retry that finds the store a run has left is the
subject of `runner`. In `executor`, a condition of two connectives around
comparisons has every operator below every other; rows are evaluated one by one,
so pairs only show that a later row can fail a frame. A frame has a row at least,
as pandas decides nothing on an empty one that a condition could get wrong.

`CHECK_DEADLOCK FALSE` is set everywhere because every one of these systems
comes to rest: a construction ends with a verdict, a request with an answer, a
queue runs empty. The liveness properties say that this is the rest they reach.

Fairness. A thread that runs straight through its code takes its next statement
(`KahnFairSpec`, `FairSpec` of `PipelineRunner`; a retry is never owed). A
worker process that lives reserves messages and makes its next call
(`WF_vars(Reserve(w) \/ TaskStep(w))` for each worker); failures, timeouts and
deaths are never owed, and deaths are bounded. In the API only
`WF_vars(Next)`: some request that can go on does, as no request waits for
another. In the studio each fetch (`WF_vars(Serve(f) \/ Handle(f))`): it has a
thread of its own, and the page's event loop passes over no reply; a click is
never owed, nor a lost reply. Strong fairness is nowhere assumed. User code is
one step in all of these, so `EveryMessageAnswered`, `EveryRequestAnswered` and
`StatusSettles` say that nothing but user code that does not terminate keeps an
answer back; there is no timeout in the code that would end it.

## 5. The proofs

`KahnProofs` proves, for every set of graphs, that `KahnSpec` implies `KahnInv`
always and, from it, the other properties of the run `kahn` but the last.
`OrderTopological` is not inductive. The invariant says why it holds: each
in-degree is the number of *pending* in-edges, those whose source is not yet
ordered or whose relaxation is still to come (`CountersExact`), and inside the
loop a node is queued or ordered exactly when it has none (`QueueExact`). Both
are needed: the first turns "the counter came to zero" into "all sources are
ordered", the second says that no node is queued again. `RelaxingFromLast` and
`BeforeLoop` carry them over the inner loop and the scan. `Accept` then gives
completeness by counting, acyclicity because the first node of the order in a
closed set has a source before it, and reality of a runner's `CycleError`
because the unordered nodes are closed under a pending predecessor.

`PipelineRunnerProofs` proves `RunInv` for every set of graphs, calls and stores
and every semantics of nodes. `WalkExact` says that what the walk has collected
is closed under sources but for what it still has to visit, and contained in
every closed set around the target; `ResultsExact` that results are those of the
asked nodes before the current position. With `OrderTopological` this gives
`InputsAvailable` (no `KeyError` outside the try), `PreviewExecutesAncestors`
and that every step is a step of `DagRun` or a stutter (`RunnerKeepsPromise`).

What a request computes needs a second invariant, `ValueInv`: frames are
sequences of rows, the log has an entry for each node before the position
(`LogGrows`), the store is what the executed output nodes have made of the one
the request found (`StoreExact`), and every result is what its node computes from
the results of its sources and from the store *as the request found it*
(`ResultsComputed`). The last is true of a node that reads only when no output of
the same pipeline writes the key it reads, hence `Settled`. It says of a result
that it still is right, not only that it was when it was made: no later step may
change the frame of a source, which is where `InputsAvailable` and the topological
order come in (`ResultsClosed`, `ComputedAgrees`). `LogExact`, `StoreExact` and
`TypeOK` follow (no run checks `TypeOK`, which `RunInv` and `ValueInv` contain);
`OutcomeHasMeaning` follows because with distinct ports `Route` loses no frame.
`UnionsLoseNothing` turns that round: colliding ports, which the run
`port_collision` exhibits, are the only way for a union to lose rows.
`PreviewsAreBounded` gives both bounds, the limit asked for and the API's, from
the hypothesis that limits are no negative numbers; the run `negative_limit`
shows what happens otherwise.

`RetriesAreIdempotent` compares a request with an earlier one, of which nothing is
left but the store. Its invariant, `Repeats`, says what that store looks like:
some dict of frames solves the graph's equations over it as far as the earlier
attempt got (`Solves`, `Ended`), and what its output nodes write is in the store
already. Which dict that was is forgotten, but two solutions agree wherever both
are defined (`OneSolution`), because the order lists sources before targets. So a
retry, whether it succeeds or fails at the same node, computes the same frames
(`AllOrNothing`: a node that had none has none again) and writes what is there
(`SameWrites`). `Repeats` quantifies over dicts of frames without a bound, so TLC
cannot evaluate it; `RetryIsIdempotent` itself is checked.

`FrameProofs` has the lemmas about `Taken`, `Gathered` and `Route` that all this
rests on, `FlattenSeq` among them: a loop with a condition enumerates the
positions it keeps, in order, and how many it keeps does not depend on what it
finds there; so the ports of a node, the frames of its sources and the sources
themselves are lists of one length in one order (`GatheredIs`).
Induction over the length of a sequence or along the order is done on sets of
natural numbers, by the well-founded relation `<` (`WellFoundedInduction`).

`SparkRunnerProofs` proves the same four facts of `SparkSpec`. Both runners take
steps of one kind: `NodeDone` and `NodeRaised` say what a node that succeeds or
fails does to the position, the results and the status, and the lemmas about
them (`NodeDoneInv`, `NodeRaisedInv`, `PromiseExecute`, `PromiseFail`) serve
both. What Spark leaves open changes plans and logs, which that invariant does not
speak of, so no assumption about Spark is needed.

`SparkInv` adds what the plans are: typed, logged, and the rows of the
executed outputs in the store. It gives `LogExact` and `SparkTypeOK`, which
therefore no run checks, and carries the proof of `SparkMeansPandas`. That one is
again about solutions: `d` is one when it has, for the nodes pandas succeeds at
and for no others, the frame pandas computes (`Solution`). `EnginesAgree` says
that every plan of the request agrees with every solution (`PlanAgrees`), that a
failure is one of the solution's too or Spark's own (`FailureAgrees`), and what a
preview has shown. A plan is one of a few forms, whatever Spark leaves open
(`PlanIs`, `FrameIs`, `CastsOf`, `NotResolvedIs`); then the nodes are taken kind by
kind: a node whose inputs are alike in both engines makes what is alike of them,
or is lenient, or refuses (`FilterFollows`, `TransformFollows`, `UnionFollows`,
`JoinFollows`, put together in `NodeFollows`). A union is alike because it is
refused unless the columns are the same, when `Concat` pads nothing
(`ConcatAligned`). That a later node cannot undo the agreement of an earlier one
is `AgreementStays`. Independently, `PandasSolves` shows that `PandasResults`
is a solution, by induction along the order (`StepSolves`, `WalkExists`), and
`MeaningShared` puts the two together. `EnginesAgree` quantifies over all
solutions and is not evaluated by TLC either; `SparkMeansPandas` is.

`ExecutorProofs` proves, for every validator, evaluator, program and frame, that
the caller's frame is never changed (`DatasetsUntouched`) and that a call has an
output and an audit record, which agree, exactly when it has returned, and
escapes only in the pandas and Spark engines and by code or a result that
escapes (`ExecutorTypeCorrect`). The invariant `ExecutorInv` says
beside these that the caller's frame is in the heap, alone until an engine has
run, so that whatever a program changes is a copy made for it.

It also proves what conditions mean, for expressions of every height and frames of
every length. The provers have no induction over data, but a set of expressions
that contains each expression whose parts it contains has them all
(`ExprInduction`, from the induction on sets of numbers in `FrameProofs` and the
heights). A recursive function on trees has to be shown to exist before its
equation may be used: `FoldsExist` does it once for the four of them together, by
building the function height by height, and `PandasSteps`, `SparkSteps`,
`TruthSteps` and `NodesStep` read each off. `ValidationIsEnough` is then that no
node the validator allows is unsupported while its parts are not
(`PandasOfSupported`, `SparkOfSupported`). `FiltersMean` rests on `Agree`, the
relation between what a condition comes to in pandas, in Spark and in Python: the
truths are the same, unknown in Spark only where something is missing, and pandas
has a Series unless the condition is a literal. Comparisons have it comparison by
comparison of their chain (`CompareValue`), literals and columns too
(`LeafValue`), "and" and "or" keep it (`BoolAgrees`), and "not" keeps it where
nothing is missing and its part is no literal (`NotAgrees`): the two exceptions
that `FilterMeans` makes are where this step fails. That bits are combined right
is shown for 0 and 1 (`BitwiseTruths`), the only ones conditions have. `FilterInv`
carries the result through the execution: what is reported is the rows that are
kept, counted (`TakenLen`), and a failure has a row or a validator that failed.

The theorems about capacity: a job the router keeps off the cluster passes the
check of the resource bounds (`RoutedFits`) and is never reported to have consumed
more than a cluster would have (`RoutedIsEconomical`), for all sizes and
durations and with both numbers rounded: the units grow with the megabytes, the
ceiling is below 2500 (`CapacityAssumption`), and a cluster is charged for a
second at least, which leaves room for the rounding. `CapacitySample` has TLC
evaluate the same inequality around the bounds.

`WorkerProofs` proves all safety properties of the worker, for any number of
workers, messages, failures, deaths and redeliveries. None is inductive. What is
reported agrees with a row because the row is final by then: `RowsOwned` says
that a row is touched by the one task that made it, `VerdictsTell` what each
place in the task has already committed, and `ReportsFinal` that no task holds a
row that was reported. `ExecutedOnce` needs that a message never redelivered is
either in the queue or with one worker, and has no execution before that worker
has inserted one (`MessagesOnce`).

That `Worker` implements `ExecutionRecords` (`WorkerKeepsRecords`) needs one
invariant more, `RunsOnce`: no run has happened for a row that does not exist or
whose task is still in front of `RunPipeline`, and a row whose task is about to
commit a success is still "running". The first makes every `RunPipeline` the
first run of its row; the second rules out that a row goes from failed to
succeeded when a commit is tried a second time. With `ReportsFinal` no row that
was told of has a task left, so that a success is taken back only while it is
untold. Each step is then one of `ExecutionRecords` or changes no row, outcome
or report of a status.

`TransformApiProofs` proves `ScopesSeparate` and `ToldIsFound` for any set of
clients and calls. The frame of a request stays in its project because every key
that its scope can form holds a frame of that project (`Separate`). Scoped keys
are not injective; those of two projects differ when neither's home begins the
other's (`KeysSeparate`, from `OneBegins`: two strings that become equal by
appending to each, one begins the other), which is where `HomesApart` is used.
`Told` says that what was answered is there and stays there (nothing removes a
dataset, a pipeline or a table), and `Found` carries it to the places where a
request acts on having found nothing, between its check and its answer. When a
client was told of a table in every stage, the dict has all its keys, so that no
registration makes it grow while it is listed.

`StudioProofs` proves the safety properties of the studio for any number of
fetches on any presets. `Held` says that what a thread of the server holds is of
the preset it was asked for, `Fresh` that an output in the dict is always that of
a transform which did not precede one known to have replied, so that a thread about
to draw holds one as well, and `Calm` what is on its way while the page is calm.

Assumptions: `GraphsAssumption`, that node lists and edge lists are finite
sequences; `NodeAssumption`, that rows are made of rows, that no condition or join
names the columns a join makes up, and that no default name is `left` or `right`;
`RunnerAssumption`, that nodes are what `build_runner` makes (`Built`), stores
hold frames, limits are integers and there is a default name for each edge;
`EngineAssumption`, the same of what is passed to the executor, whose frames have
a row at least; `ExprAssumption`, that expressions are well-formed trees of finite
height, that columns have one of three types and that a missing value is no
number; `ConditionAssumption`, that rows have the columns' types and that the
executor's validator and evaluator are those of `FilterExpr`;
`CapacityAssumption`; `WorkerAssumption`, that the values standing for no message
and no execution are none, and the bounds numbers; `ApiAssumption`, that calls are
of the endpoints' forms, name presets and stages there are, and have strings for
ids and keys (nothing is assumed of the scopes); `StudioAssumption`, that the page
opens with a preset there is and a stage's suffix is none of the two the server
uses itself. TLC evaluates them and the other modules' assumptions in every run.

Left to TLC: liveness (`ReachesVerdict`, `Ends`, `EveryMessageAnswered`,
`EveryRequestAnswered`, `StatusSettles`), because proofs under fairness and
`ENABLED` are out of the prover's reach. Every other property of a passing run is
a theorem.

## 6. Not modelled

- The studio's statistics and aggregate endpoints (they look up a frame as the
  plot does, and the page does not call them), its connector tests and the
  opening of its window; pyplot's figures, which threads share; the page of the
  API service.
- Governance, guards, secrets, analytics: string and number functions without
  state. The audit record is in `CodeExecutor` as the status it is made with.
- Writing the catalog to a directory, `get_table` and `transition_stage`: the
  service uses none of them. Dollars saved and the estimate of a frame's size.
- In Spark: reading from object storage, which is lazy as well, so that a plan
  may see a later write; how pandas' missing values come over without Arrow. In
  conditions: strings (they compare as numbers do), `None` as a literal, a list
  elsewhere than right of `in`, `in` a column.
- Object storage, SQL and S3 connectors: input and output through drivers.
- Timing, logging, durations in logs, wording of errors; authentication beyond
  the scope a request carries.
- Frames: the order of columns and columns of one name twice, types of columns,
  the suffixes of a join, the order of rows after an outer join; objects in cells,
  which `DataFrame.copy` shares.
- How long a session or an engine lives after a task that did not close it:
  that is up to the garbage collector and the driver.
