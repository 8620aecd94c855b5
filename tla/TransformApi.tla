---------------------------- MODULE TransformApi ----------------------------
(***************************************************************************)
(* The FastAPI service (app.py): its endpoints are plain functions, which  *)
(* the server runs in a pool of threads, and they share one in-memory      *)
(* connector, one dict of pipelines and one medallion catalog without a    *)
(* lock.                                                                   *)
(*                                                                         *)
(* A request goes from one access of shared state to the next; what it     *)
(* does between two of them nobody else sees.  A frame is the set of       *)
(* ingested datasets its rows come from: the name of the request that      *)
(* uploaded it, or of a preset.  A pipeline is the sequence of the reads,  *)
(* computations and writes its nodes do in the runner's order.             *)
(*                                                                         *)
(* Ids and keys are strings the service splits and joins at "/": a string  *)
(* is the sequence of its segments.                                        *)
(***************************************************************************)
EXTENDS Frames

CONSTANTS
    Workloads,      \* what clients may ask for: request names -> calls
    Preset,         \* the presets of _generate_preset_dataframe
    PresetKey,      \* preset -> the key load_preset writes it under
    DefaultPreset,  \* the preset execute_transform loads by itself
    Segment         \* what ids and keys have between two slashes

\* A string, split at the slashes; the empty one has one empty segment.
Path == Seq(Segment) \ {<<>>}

AccessSet == [op : {"read", "compute", "write"}, key : Path]

Stages == <<"bronze", "silver", "gold">>
StageNames == {Stages[i] : i \in DOMAIN Stages}

Operations ==
    {"load_preset", "upload", "transform", "create", "get", "run", "preview",
     "promote", "tables", "test_connector"}

ASSUME ApiAssumption ==
    /\ \A calls \in Workloads :
         /\ \A r \in DOMAIN calls : calls[r].op \in Operations
         /\ \A r \in DOMAIN calls : calls[r].op = "load_preset" => calls[r].preset \in Preset
         /\ \A r \in DOMAIN calls : calls[r].op = "promote" => calls[r].stage \in StageNames
         /\ \A r \in DOMAIN calls : calls[r].scope \in [org : Path, project : Path]
         /\ \A r \in DOMAIN calls :
              calls[r].op \in {"upload", "transform", "promote"} => calls[r].key \in Path
         /\ \A r \in DOMAIN calls :
              calls[r].op = "transform" => calls[r].code \in {"returns", "raises", "exits"}
         /\ \A r \in DOMAIN calls :
              calls[r].op = "create" => calls[r].pipeline.accesses \in Seq(AccessSet)
         /\ Preset \cap DOMAIN calls = {}
    /\ DefaultPreset \in Preset
    /\ PresetKey \in [Preset -> Path]

VARIABLES
    call,           \* the requests made and what each asks for
    pc,             \* per request, its next access of shared state
    frame,          \* per request, the frame it works on
    at,             \* per request, the position in its pipeline
    answer,         \* per request, the response
    store,          \* shared_connector: scoped key -> frame
    db,             \* _PIPELINES_DB: id -> record
    answeredBefore, \* per request, what its project was told when it began
    catalog,        \* medallion_catalog: stage -> frame
    size            \* per request, how many tables it began to iterate over

lakehouse == <<catalog, size>>

vars == <<call, pc, frame, at, answer, store, db, answeredBefore, lakehouse>>

Request == DOMAIN call

Frame == SUBSET (Request \cup Preset)

Scope(r) == call[r].scope

\* lstrip("/"): without the empty segments in front, but not without any.
Clean(path) ==
    LET named == {i \in DOMAIN path : path[i] # ""}
    IN  SubSeq(path, Min(named \cup {Len(path)}), Len(path))

\* What validate_and_scope_key raises a ValueError for.
Refused(key) == Clean(key) = <<"">> \/ Range(Clean(key)) \cap {".", ".."} # {}

\* Where a project keeps its datasets.
Home(scope) == scope.org \o Clean(scope.project)

\* Deviation: the project is left out of the key.
OrgKey(scope, key) == scope.org \o Clean(key)

\* BaseConnector.validate_and_scope_key: tenant, project and key, joined.
ScopedKey(scope, key) == Home(scope) \o Clean(key)

Put(d, k, v) == [x \in DOMAIN d \cup {k} |-> IF x = k THEN v ELSE d[x]]

Init ==
    /\ call \in Workloads
    /\ pc = [r \in Request |-> "waiting"]
    /\ frame = [r \in Request |-> {}]
    /\ at = [r \in Request |-> 1]
    /\ answer = [r \in Request |-> "none"]
    /\ store = [k \in {} |-> {}]
    /\ db = [id \in {} |-> {}]
    /\ answeredBefore = [r \in Request |-> {}]
    /\ catalog = [stage \in {} |-> {}]
    /\ size = [r \in Request |-> 0]

Goto(r, label) == pc' = [pc EXCEPT ![r] = label]

Answer(r, a) ==
    /\ answer' = [answer EXCEPT ![r] = a]
    /\ Goto(r, "answered")

Entry ==
    [op \in Operations |->
        CASE op = "transform" -> "read"
          [] op \in {"get", "run", "preview"} -> "get"
          [] op = "promote" -> "source"
          [] OTHER -> op]

\* The requests of r's project whose success the client has been told of.
ToldOf(r) == {q \in Request : Scope(q) = Scope(r) /\ answer[q] \in {"ingested", "created", "registered"}}

\* A thread of the pool takes the request.
Begin(r) ==
    /\ pc[r] = "waiting"
    /\ Goto(r, Entry[call[r].op])
    /\ answeredBefore' = [answeredBefore EXCEPT ![r] = ToldOf(r)]
    /\ UNCHANGED <<call, frame, at, answer, store, db, lakehouse>>

-----------------------------------------------------------------------------
(* Ingestion *)

\* Deviation: the project is not passed on to the connector.
LoadPresetForOrg(r) ==
    /\ pc[r] = "load_preset"
    /\ store' = Put(store, Scope(r).org \o PresetKey[call[r].preset], {call[r].preset})
    /\ Answer(r, "ingested")
    /\ UNCHANGED <<call, frame, at, db, answeredBefore>>

LoadPreset(r) ==
    /\ pc[r] = "load_preset"
    /\ store' = Put(store, ScopedKey(Scope(r), PresetKey[call[r].preset]), {call[r].preset})
    /\ Answer(r, "ingested")
    /\ UNCHANGED <<call, frame, at, db, answeredBefore>>

UploadDataset(r) ==
    /\ pc[r] = "upload"
    /\ call[r].parses
    /\ ~Refused(call[r].key)
    /\ store' = Put(store, ScopedKey(Scope(r), call[r].key), {r})
    /\ Answer(r, "ingested")
    /\ UNCHANGED <<call, frame, at, db, answeredBefore>>

\* A parse error is a 400; the connector's ValueError is caught nowhere.
RefuseUpload(r) ==
    /\ pc[r] = "upload"
    /\ \/ ~call[r].parses /\ Answer(r, "bad request")
       \/ call[r].parses /\ Refused(call[r].key) /\ Answer(r, "server error")
    /\ UNCHANGED <<call, frame, at, store, db, answeredBefore>>

-----------------------------------------------------------------------------
(* The transformation studio *)

Key(r) == ScopedKey(Scope(r), call[r].key)

ReadDataset(r) ==
    /\ pc[r] = "read"
    /\ ~Refused(call[r].key)
    /\ Key(r) \in DOMAIN store
    /\ frame' = [frame EXCEPT ![r] = store[Key(r)]]
    /\ Goto(r, "execute")
    /\ UNCHANGED <<call, at, answer, store, db, answeredBefore>>

\* The KeyError of read() is caught, and the preset generated.
MissDataset(r) ==
    /\ pc[r] = "read"
    /\ ~Refused(call[r].key)
    /\ Key(r) \notin DOMAIN store
    /\ frame' = [frame EXCEPT ![r] = {DefaultPreset}]
    /\ Goto(r, "autoload")
    /\ UNCHANGED <<call, at, answer, store, db, answeredBefore>>

RefuseKey(r) ==
    /\ pc[r] = "read"
    /\ Refused(call[r].key)
    /\ Answer(r, "server error")
    /\ UNCHANGED <<call, frame, at, store, db, answeredBefore>>

\* Deviation: the preset goes under its own key, and the read is done again.
AutoLoadElsewhere(r) ==
    /\ pc[r] = "autoload"
    /\ store' = Put(store, ScopedKey(Scope(r), PresetKey[DefaultPreset]), frame[r])
    /\ Goto(r, "read")
    /\ UNCHANGED <<call, frame, at, answer, db, answeredBefore>>

AutoLoad(r) ==
    /\ pc[r] = "autoload"
    /\ store' = Put(store, Key(r), frame[r])
    /\ Goto(r, "execute")
    /\ UNCHANGED <<call, frame, at, answer, db, answeredBefore>>

CodeAnswer == [returns |-> "succeeded", raises |-> "failed", exits |-> "server error"]

\* CodeExecutor.execute works on a copy and turns every Exception into a
\* result; a SystemExit of the code passes, and the server answers for it.
ExecuteCode(r) ==
    /\ pc[r] = "execute"
    /\ Answer(r, CodeAnswer[call[r].code])
    /\ UNCHANGED <<call, frame, at, store, db, answeredBefore>>

-----------------------------------------------------------------------------
(* Pipelines *)

\* The id is a new one; the request's name serves.
CreatePipeline(r) ==
    /\ pc[r] = "create"
    /\ IF call[r].pipeline.acyclic
       THEN /\ db' = Put(db, r, [scope |-> Scope(r), pipeline |-> call[r].pipeline])
            /\ Answer(r, "created")
       ELSE /\ Answer(r, "bad request")
            /\ UNCHANGED db
    /\ UNCHANGED <<call, frame, at, store, answeredBefore>>

OwnRecord(r) ==
    /\ call[r].id \in DOMAIN db
    /\ db[call[r].id].scope = Scope(r)

NotFound(r) ==
    /\ pc[r] = "get"
    /\ ~OwnRecord(r)
    /\ Answer(r, "not found")
    /\ UNCHANGED <<call, frame, at, store, db, answeredBefore>>

\* The runner can be built, and knows the target of a preview.
Starts(r) ==
    /\ db[call[r].id].pipeline.builds
    /\ call[r].op = "preview" => call[r].known

\* Deviation: the run becomes a background task and is answered at once.
RunInBackground(r) ==
    /\ pc[r] = "get"
    /\ OwnRecord(r)
    /\ answer' = [answer EXCEPT ![r] = IF call[r].op = "get" THEN "found" ELSE "succeeded"]
    /\ Goto(r, IF call[r].op # "get" /\ Starts(r) THEN "node" ELSE "answered")
    /\ UNCHANGED <<call, frame, at, store, db, answeredBefore>>

\* preview_pipeline_node catches every exception, run_pipeline only
\* PipelineExecutionError: a ValueError of build_runner is not one.
GetPipeline(r) ==
    /\ pc[r] = "get"
    /\ OwnRecord(r)
    /\ IF call[r].op = "get" THEN Answer(r, "found")
       ELSE IF Starts(r) THEN Goto(r, "node") /\ UNCHANGED answer
       ELSE Answer(r, IF call[r].op = "run" THEN "server error" ELSE "bad request")
    /\ UNCHANGED <<call, frame, at, store, db, answeredBefore>>

\* A preview does the accesses of its target and the target's ancestors.
Accesses(r) ==
    LET all == db[call[r].id].pipeline.accesses
    IN  IF call[r].op = "run" THEN all ELSE Taken(all, call[r].ancestors)

Access(r) == Accesses(r)[at[r]]
AccessKey(r) == ScopedKey(Scope(r), Access(r).key)
AtAccess(r, op) == pc[r] = "node" /\ at[r] <= Len(Accesses(r)) /\ Access(r).op = op

ReadNode(r) ==
    /\ AtAccess(r, "read")
    /\ ~Refused(Access(r).key)
    /\ AccessKey(r) \in DOMAIN store
    /\ frame' = [frame EXCEPT ![r] = @ \cup store[AccessKey(r)]]
    /\ at' = [at EXCEPT ![r] = @ + 1]
    /\ UNCHANGED <<call, pc, answer, store, db, answeredBefore>>

\* Filters, transforms, joins and unions, and every node's check of its inputs.
ComputeNode(r) ==
    /\ AtAccess(r, "compute")
    /\ at' = [at EXCEPT ![r] = @ + 1]
    /\ UNCHANGED <<call, pc, frame, answer, store, db, answeredBefore>>

\* Whether a computation fits its data is left open.  What the nodes before
\* it have written stays written.
FailNode(r) ==
    /\ \/ AtAccess(r, "compute")
       \/ AtAccess(r, "read") /\ (Refused(Access(r).key) \/ AccessKey(r) \notin DOMAIN store)
       \/ AtAccess(r, "write") /\ Refused(Access(r).key)
    /\ Answer(r, IF call[r].op = "run" THEN "failed" ELSE "bad request")
    /\ UNCHANGED <<call, frame, at, store, db, answeredBefore>>

WriteNode(r) ==
    /\ AtAccess(r, "write")
    /\ ~Refused(Access(r).key)
    /\ store' = Put(store, AccessKey(r), frame[r])
    /\ at' = [at EXCEPT ![r] = @ + 1]
    /\ UNCHANGED <<call, pc, frame, answer, db, answeredBefore>>

EndPipeline(r) ==
    /\ pc[r] = "node"
    /\ at[r] > Len(Accesses(r))
    /\ Answer(r, "succeeded")
    /\ UNCHANGED <<call, frame, at, store, db, answeredBefore>>

\* The drivers' answer is all there is to the connector tests.
CheckConnector(r) ==
    /\ pc[r] = "test_connector"
    /\ Answer(r, IF call[r].works THEN "connected" ELSE "bad request")
    /\ UNCHANGED <<call, frame, at, store, db, answeredBefore>>

ServeData(r) ==
    \/ LoadPreset(r)
    \/ UploadDataset(r)
    \/ RefuseUpload(r)
    \/ ReadDataset(r)
    \/ MissDataset(r)
    \/ RefuseKey(r)
    \/ AutoLoad(r)
    \/ ExecuteCode(r)
    \/ CreatePipeline(r)
    \/ NotFound(r)
    \/ GetPipeline(r)
    \/ ReadNode(r)
    \/ ComputeNode(r)
    \/ FailNode(r)
    \/ WriteNode(r)
    \/ EndPipeline(r)
    \/ CheckConnector(r)

-----------------------------------------------------------------------------
(***************************************************************************)
(* The medallion catalog: one table per stage, for all projects.           *)
(***************************************************************************)

ReadSource(r) ==
    /\ pc[r] = "source"
    /\ ~Refused(call[r].key)
    /\ Key(r) \in DOMAIN store
    /\ frame' = [frame EXCEPT ![r] = store[Key(r)]]
    /\ Goto(r, "register")
    /\ UNCHANGED <<call, at, answer, store, db, answeredBefore, lakehouse>>

\* Unlike a transform, a promotion does not write the preset it falls back to.
MissSource(r) ==
    /\ pc[r] = "source"
    /\ ~Refused(call[r].key)
    /\ Key(r) \notin DOMAIN store
    /\ frame' = [frame EXCEPT ![r] = {DefaultPreset}]
    /\ Goto(r, "register_preset")
    /\ UNCHANGED <<call, at, answer, store, db, answeredBefore, lakehouse>>

\* What is done to the frame for its stage may raise (describe of a frame
\* without columns), and so may the connector.
FailPromotion(r) ==
    /\ \/ pc[r] = "source" /\ Refused(call[r].key)
       \/ pc[r] \in {"register", "register_preset"} /\ ~call[r].works
    /\ Answer(r, "server error")
    /\ UNCHANGED <<call, frame, at, store, db, answeredBefore, lakehouse>>

RegisterTable(r) ==
    /\ pc[r] \in {"register", "register_preset"}
    /\ call[r].works
    /\ catalog' = Put(catalog, call[r].stage, frame[r])
    /\ Answer(r, "registered")
    /\ UNCHANGED <<call, frame, at, store, db, answeredBefore, size>>

\* get_medallion_tables goes over the dict once per stage.
BeginStage(r) ==
    /\ pc[r] = "tables"
    /\ size' = [size EXCEPT ![r] = Cardinality(DOMAIN catalog)]
    /\ Goto(r, "listing")
    /\ UNCHANGED <<call, frame, at, answer, store, db, answeredBefore, catalog>>

\* A dict that has grown since may raise ("changed size during iteration");
\* an iteration that has its last item already does not notice.
EndStage(r) ==
    /\ pc[r] = "listing"
    /\ \/ /\ size[r] # Cardinality(DOMAIN catalog)
          /\ Answer(r, "server error")
          /\ UNCHANGED at
       \/ /\ at' = [at EXCEPT ![r] = @ + 1]
          /\ IF at[r] = Len(Stages) THEN Answer(r, "listed")
             ELSE Goto(r, "tables") /\ UNCHANGED answer
    /\ UNCHANGED <<call, frame, store, db, answeredBefore, lakehouse>>

Serve(r) ==
    \/ ServeData(r) /\ UNCHANGED lakehouse
    \/ ReadSource(r)
    \/ MissSource(r)
    \/ FailPromotion(r)
    \/ RegisterTable(r)
    \/ BeginStage(r)
    \/ EndStage(r)

Next == \E r \in Request : Begin(r) \/ Serve(r)

Spec == Init /\ [][Next]_vars

\* As long as some request can go on, one of them does; nothing more is
\* asked of the pool, for no request waits for another.
FairSpec == Spec /\ WF_vars(Next)

-----------------------------------------------------------------------------
(***************************************************************************)
(* Properties                                                              *)
(***************************************************************************)

Labels ==
    {"waiting", "load_preset", "upload", "read", "autoload", "execute",
     "create", "get", "node", "source", "register", "register_preset",
     "tables", "listing", "test_connector", "answered"}

Answers ==
    {"none", "ingested", "created", "found", "succeeded", "failed",
     "bad request", "not found", "server error", "registered", "listed", "connected"}

\* The variables keep their types, and exactly the answered requests have an
\* answer.
ApiTypeOK ==
    /\ call \in Workloads
    /\ pc \in [Request -> Labels]
    /\ frame \in [Request -> Frame]
    /\ at \in [Request -> Nat \ {0}]
    /\ answer \in [Request -> Answers]
    /\ \A r \in Request : answer[r] # "none" <=> pc[r] = "answered"
    /\ \A k \in DOMAIN store : store[k] \in Frame
    /\ DOMAIN db \in SUBSET Request
    /\ answeredBefore \in [Request -> SUBSET Request]
    /\ \A stage \in DOMAIN catalog : catalog[stage] \in Frame

\* No project keeps its datasets inside the home of another.  So it is when
\* no id has a slash; tenant "a" with project "b/c" is inside "a" with "b".
HomesApart ==
    \A q, r \in Request : Scope(q) # Scope(r) => ~IsPrefix(Home(Scope(q)), Home(Scope(r)))

\* Whatever a request works on was uploaded in its own project, directly or
\* through any number of pipeline runs, or is a preset: "guarantees isolation
\* under tenant/project namespace" (connectors.py), for projects whose homes
\* are apart and keys with any number of slashes.
ScopesSeparate ==
    HomesApart =>
        \A r \in Request : \A x \in frame[r] \cap Request : Scope(x) = Scope(r)

IngestedKey(q) == IF call[q].op = "upload" THEN call[q].key ELSE PresetKey[call[q].preset]

\* The datasets a request was told of before r began.
IngestedBefore(r, key) ==
    \E q \in answeredBefore[r] :
        /\ answer[q] = "ingested"
        /\ Clean(key) = Clean(IngestedKey(q))

\* What a client was told of it finds afterwards, whatever other requests run
\* at the same time: for a dataset told of as ingested neither a transform nor
\* a promotion falls back to the preset and no pipeline fails at its read; a
\* pipeline told of as created can be used in its project; and once all stages
\* were told of as registered, listing them does not fail.
ToldIsFound ==
    \A r \in Request :
        /\ pc[r] \in {"autoload", "register_preset"} => ~IngestedBefore(r, call[r].key)
        /\ pc[r] = "node" /\ at[r] <= Len(Accesses(r)) /\ Access(r).op = "read"
           /\ IngestedBefore(r, Access(r).key)
              => AccessKey(r) \in DOMAIN store
        /\ answer[r] = "not found" =>
             ~ \E q \in answeredBefore[r] : q = call[r].id /\ answer[q] = "created"
        /\ answer[r] = "server error" /\ call[r].op = "tables" =>
             \E i \in DOMAIN Stages : \A q \in answeredBefore[r] :
                 ~(answer[q] = "registered" /\ call[q].stage = Stages[i])

\* Every request is answered.
EveryRequestAnswered == <>(\A r \in Request : pc[r] = "answered")

=============================================================================
