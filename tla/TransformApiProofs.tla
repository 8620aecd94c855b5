-------------------------- MODULE TransformApiProofs --------------------------
(***************************************************************************)
(* Proofs about TransformApi, for any clients, presets and keys: projects  *)
(* stay separate, and what a client was told of it finds afterwards.       *)
(***************************************************************************)
EXTENDS TransformApi, FrameProofs, TLAPS

-----------------------------------------------------------------------------
(* The invariant *)

\* Where a request may be depends on what it asks for.
Places(op) ==
    {"waiting", "answered"} \cup
    CASE op = "transform" -> {"read", "autoload", "execute"}
      [] op \in {"get", "run", "preview"} -> {"get", "node"}
      [] op = "promote" -> {"source", "register", "register_preset"}
      [] op = "tables" -> {"tables", "listing"}
      [] OTHER -> {op}

\* Calls are as the assumption has them, and requests are where they can be.
CallsOK ==
    /\ \A r \in Request : call[r].op \in Operations /\ pc[r] \in Places(call[r].op)
    /\ \A r \in Request : call[r].op = "load_preset" => call[r].preset \in Preset
    /\ \A r \in Request : call[r].op = "promote" => call[r].stage \in StageNames
    /\ Preset \cap Request = {}
    /\ DefaultPreset \in Preset
    /\ size = [r \in Request |-> size[r]]

\* Ids and keys are strings.
StringsOK ==
    /\ \A r \in Request : Scope(r) \in [org : Path, project : Path]
    /\ \A r \in Request : call[r].op \in {"upload", "transform", "promote"} => call[r].key \in Path
    /\ \A r \in Request :
         call[r].op = "transform" => call[r].code \in {"returns", "raises", "exits"}
    /\ \A r \in Request : call[r].op = "create" => call[r].pipeline.accesses \in Seq(AccessSet)

\* A frame of the project of r, where that makes a difference.
Own(r, df) ==
    /\ df \in Frame
    /\ HomesApart => \A x \in df \cap Request : Scope(x) = Scope(r)

\* The store and the requests keep to their projects.
Separate ==
    /\ \A r \in Request : Own(r, frame[r])
    /\ \A r \in Request : \A key \in Path :
         ScopedKey(Scope(r), key) \in DOMAIN store => Own(r, store[ScopedKey(Scope(r), key)])

\* What was answered is so, and stays so: datasets are in the store, pipelines
\* in the dict and stages in the catalog.
Told ==
    /\ \A q \in Request : answer[q] = "ingested" =>
         ScopedKey(Scope(q), IngestedKey(q)) \in DOMAIN store
    /\ \A q \in Request : answer[q] = "created" => q \in DOMAIN db
    /\ \A q \in DOMAIN db : db[q].scope = Scope(q)
    /\ \A q \in Request : answer[q] = "registered" => call[q].stage \in DOMAIN catalog
    /\ DOMAIN catalog \subseteq StageNames
    /\ \A r \in Request : \A q \in answeredBefore[r] :
         Scope(q) = Scope(r) /\ answer[q] \in {"ingested", "created", "registered"}

\* The pipelines of the dict are those they were created with.
Kept == \A q \in DOMAIN db : db[q].pipeline = call[q].pipeline /\ call[q].op = "create"

AllToldBefore(r) ==
    \A s \in StageNames : \E q \in answeredBefore[r] : answer[q] = "registered" /\ call[q].stage = s

\* What a request does about it.
Found ==
    \A r \in Request :
        /\ pc[r] = "node" => call[r].id \in DOMAIN db
        /\ pc[r] \in {"autoload", "register_preset"} => ~IngestedBefore(r, call[r].key)
        /\ pc[r] = "listing" /\ AllToldBefore(r) => size[r] = Cardinality(DOMAIN catalog)
        /\ answer[r] = "not found" =>
             ~ \E q \in answeredBefore[r] : q = call[r].id /\ answer[q] = "created"
        /\ answer[r] = "server error" /\ call[r].op = "tables" => ~AllToldBefore(r)

ApiInv == ApiTypeOK /\ CallsOK /\ StringsOK /\ Separate /\ Told /\ Kept /\ Found

-----------------------------------------------------------------------------
(* The shapes of the steps *)

Step(r) == Begin(r) \/ Serve(r)

\* An operation begins at a place it has, before any listing or node.
LEMMA EntryFacts ==
    ASSUME NEW op \in Operations
    PROVE  Entry[op] \in Places(op) \cap Labels /\ Entry[op] \notin {"waiting", "answered"}
           /\ Entry[op] \notin {"autoload", "register_preset", "listing", "node"}
BY DEF Entry, Operations, Places, Labels

\* What is asked is told by where the request is.
LEMMA PlaceFacts ==
    ASSUME CallsOK, NEW r \in Request
    PROVE  /\ pc[r] = "load_preset" => call[r].op = "load_preset"
           /\ pc[r] = "upload" => call[r].op = "upload"
           /\ pc[r] = "create" => call[r].op = "create"
           /\ pc[r] = "test_connector" => call[r].op = "test_connector"
           /\ pc[r] \in {"read", "autoload", "execute"} => call[r].op = "transform"
           /\ pc[r] \in {"get", "node"} => call[r].op \in {"get", "run", "preview"}
           /\ pc[r] \in {"source", "register", "register_preset"} => call[r].op = "promote"
           /\ pc[r] \in {"tables", "listing"} => call[r].op = "tables"
BY DEF CallsOK, Places, Operations

\* What is told of code, whether it returns, raises or exits.
LEMMA CodeFacts ==
    ASSUME ApiInv, NEW r \in Request, ExecuteCode(r)
    PROVE  /\ answer'[r] \in {"succeeded", "failed", "server error"} /\ pc'[r] = "answered"
           /\ call[r].op = "transform"
<1>1. /\ pc \in [Request -> Labels] /\ answer \in [Request -> Answers]
      /\ pc[r] = "execute" /\ CallsOK
  BY DEF ApiInv, ApiTypeOK, ExecuteCode
<1>2. call[r].op = "transform"
  BY <1>1, PlaceFacts
<1>3. call[r].code \in {"returns", "raises", "exits"}
  BY <1>2 DEF ApiInv, StringsOK
<1>4. CodeAnswer[call[r].code] \in {"succeeded", "failed", "server error"}
  <2>1. /\ CodeAnswer["returns"] = "succeeded" /\ CodeAnswer["raises"] = "failed"
        /\ CodeAnswer["exits"] = "server error"
    BY DEF CodeAnswer
  <2> QED BY <1>3, <2>1, Zenon
<1> QED BY <1>1, <1>2, <1>4 DEF ExecuteCode, Answer, Goto

\* A step answers its request or moves it on, and leaves the others alone.
LEMMA StepFacts ==
    ASSUME ApiInv, NEW r \in Request, Step(r)
    PROVE  /\ call' = call /\ pc[r] # "answered"
           /\ pc' \in [Request -> Labels] /\ pc'[r] # "waiting"
           /\ pc'[r] \in Places(call[r].op)
           /\ answer' \in [Request -> Answers]
           /\ answer'[r] # "none" <=> pc'[r] = "answered"
           /\ at' \in [Request -> Nat \ {0}]
           /\ size' = [q \in Request |-> size'[q]]
           /\ \A q \in Request \ {r} :
                /\ pc'[q] = pc[q] /\ answer'[q] = answer[q]
                /\ frame'[q] = frame[q] /\ size'[q] = size[q]
<1>a. /\ pc \in [Request -> Labels] /\ answer \in [Request -> Answers]
      /\ at \in [Request -> Nat \ {0}] /\ frame \in [Request -> Frame]
      /\ answer[r] # "none" <=> pc[r] = "answered"
      /\ size = [q \in Request |-> size[q]]
  BY DEF ApiInv, ApiTypeOK, CallsOK
<1>c. at[r] + 1 \in Nat \ {0} /\ [at EXCEPT ![r] = @ + 1] \in [Request -> Nat \ {0}]
  BY <1>a
<1>b. call[r].op \in Operations
  BY DEF ApiInv, CallsOK
<1>1. CASE Begin(r)
  <2>1. /\ Entry[call[r].op] \in Places(call[r].op) \cap Labels
        /\ Entry[call[r].op] \notin {"waiting", "answered"}
    BY <1>b, EntryFacts
  <2> QED BY <1>a, <1>1, <2>1 DEF Begin, Goto, lakehouse
<1> USE PlaceFacts DEF ApiInv, Goto, Answer, Labels, Answers, Places, lakehouse
<1>2. CASE ServeData(r) /\ UNCHANGED lakehouse
  <2>1. CASE LoadPreset(r)
    BY <1>a, <1>2, <2>1 DEF LoadPreset
  <2>2. CASE UploadDataset(r)
    BY <1>a, <1>2, <2>2 DEF UploadDataset
  <2>3. CASE RefuseUpload(r)
    BY <1>a, <1>2, <2>3 DEF RefuseUpload
  <2>4. CASE ReadDataset(r)
    BY <1>a, <1>2, <2>4 DEF ReadDataset
  <2>5. CASE MissDataset(r)
    BY <1>a, <1>2, <2>5 DEF MissDataset
  <2>6. CASE RefuseKey(r)
    BY <1>a, <1>2, <2>6 DEF RefuseKey
  <2>7. CASE AutoLoad(r)
    BY <1>a, <1>2, <2>7 DEF AutoLoad
  <2>8. CASE ExecuteCode(r)
    BY <1>a, <1>2, <2>8, CodeFacts DEF ExecuteCode
  <2>9. CASE CreatePipeline(r)
    BY <1>a, <1>2, <2>9 DEF CreatePipeline
  <2>10. CASE NotFound(r)
    BY <1>a, <1>2, <2>10 DEF NotFound
  <2>11. CASE GetPipeline(r)
    BY <1>a, <1>2, <2>11 DEF GetPipeline, Starts
  <2>12. CASE ReadNode(r)
    BY <1>a, <1>c, <1>2, <2>12 DEF ReadNode, AtAccess
  <2>13. CASE FailNode(r)
    BY <1>a, <1>2, <2>13 DEF FailNode, AtAccess
  <2>17. CASE ComputeNode(r)
    BY <1>a, <1>c, <1>2, <2>17 DEF ComputeNode, AtAccess
  <2>14. CASE WriteNode(r)
    BY <1>a, <1>c, <1>2, <2>14 DEF WriteNode, AtAccess
  <2>15. CASE EndPipeline(r)
    BY <1>a, <1>2, <2>15 DEF EndPipeline
  <2>16. CASE CheckConnector(r)
    BY <1>a, <1>2, <2>16 DEF CheckConnector
  <2> QED
    BY <1>2, <2>1, <2>2, <2>3, <2>4, <2>5, <2>6, <2>7, <2>8, <2>9, <2>10, <2>11, <2>12, <2>13,
       <2>14, <2>15, <2>16, <2>17
    DEF ServeData
<1>3. CASE ReadSource(r)
  BY <1>a, <1>3 DEF ReadSource
<1>4. CASE MissSource(r)
  BY <1>a, <1>4 DEF MissSource
<1>5. CASE FailPromotion(r)
  BY <1>a, <1>5 DEF FailPromotion
<1>6. CASE RegisterTable(r)
  BY <1>a, <1>6 DEF RegisterTable
<1>7. CASE BeginStage(r)
  BY <1>a, <1>7 DEF BeginStage
<1>8. CASE EndStage(r)
  <2>1. /\ pc[r] = "listing" /\ call[r].op = "tables" /\ answer[r] = "none"
        /\ UNCHANGED <<call, frame, size>>
    BY <1>a, <1>8 DEF EndStage
  <2>2. CASE Answer(r, "server error") /\ UNCHANGED at
    BY <1>a, <2>1, <2>2
  <2>3. CASE Answer(r, "listed") /\ at' = [at EXCEPT ![r] = @ + 1]
    BY <1>a, <1>c, <2>1, <2>3
  <2>4. CASE Goto(r, "tables") /\ UNCHANGED answer /\ at' = [at EXCEPT ![r] = @ + 1]
    BY <1>a, <1>c, <2>1, <2>4
  <2> QED BY <1>8, <2>2, <2>3, <2>4 DEF EndStage
<1> QED BY <1>1, <1>2, <1>3, <1>4, <1>5, <1>6, <1>7, <1>8 DEF Step, Serve

\* Who asks, and under which keys, never changes.
LEMMA SameRequests ==
    ASSUME call' = call
    PROVE  /\ Request' = Request /\ Frame' = Frame
           /\ \A q : Scope(q)' = Scope(q) /\ IngestedKey(q)' = IngestedKey(q)
           /\ HomesApart' <=> HomesApart
BY DEF Request, Frame, Scope, IngestedKey, HomesApart

\* Two strings that become one by appending to each: one begins the other.
LEMMA OneBegins ==
    ASSUME NEW a \in Seq(Segment), NEW b \in Seq(Segment), NEW s \in Seq(Segment),
           NEW t \in Seq(Segment), a \o s = b \o t
    PROVE  IsPrefix(a, b) \/ IsPrefix(b, a)
<1>1. /\ Len(a) \in Nat /\ Len(b) \in Nat
      /\ \A i \in 1 .. Len(a) : (a \o s)[i] = a[i]
      /\ \A i \in 1 .. Len(b) : (b \o t)[i] = b[i]
  OBVIOUS
<1>2. CASE Len(a) <= Len(b)
  <2>1. \A i \in 1 .. Len(a) : a[i] = b[i]
    BY <1>1, <1>2
  <2>2. SubSeq(a, 1, Len(a)) = SubSeq(b, 1, Len(a))
    BY <1>1, <1>2, <2>1
  <2> QED BY <1>2, <2>2 DEF IsPrefix
<1>3. CASE Len(b) <= Len(a)
  <2>1. \A i \in 1 .. Len(b) : a[i] = b[i]
    BY <1>1, <1>3
  <2>2. SubSeq(b, 1, Len(b)) = SubSeq(a, 1, Len(b))
    BY <1>1, <1>3, <2>1
  <2> QED BY <1>3, <2>2 DEF IsPrefix
<1> QED BY <1>1, <1>2, <1>3

\* What is left of a string without its slashes in front.
LEMMA CleanTyped ==
    ASSUME NEW path \in Path
    PROVE  Clean(path) \in Path
<1> DEFINE S == {i \in DOMAIN path : path[i] # ""} \cup {Len(path)}
<1>a. Len(path) \in Nat \ {0} /\ DOMAIN path = 1 .. Len(path)
  BY DEF Path
<1>1. S \in SUBSET Nat /\ S # {} /\ S \subseteq 1 .. Len(path)
  <2>1. Len(path) \in S /\ Len(path) \in 1 .. Len(path)
    BY <1>a
  <2>2. \A i \in S : i \in 1 .. Len(path)
    BY <1>a, <2>1
  <2> HIDE DEF S
  <2> QED BY <1>a, <2>1, <2>2
<1>3. Clean(path) = SubSeq(path, Min(S), Len(path))
  BY DEF Clean
<1> HIDE DEF S
<1>2. Min(S) \in 1 .. Len(path)
  BY <1>1, MinOfPositions
<1> QED BY <1>2, <1>3 DEF Path

\* Homes are strings.
LEMMA HomeTyped ==
    ASSUME StringsOK, NEW r \in Request
    PROVE  Home(Scope(r)) \in Seq(Segment)
<1>1. Scope(r).org \in Seq(Segment) /\ Scope(r).project \in Path
  BY DEF StringsOK, Path
<1>2. Clean(Scope(r).project) \in Seq(Segment)
  BY <1>1, CleanTyped DEF Path
<1> QED BY <1>1, <1>2, ConcatType DEF Home

\* Two scopes whose homes are apart share a key only when they are one.
LEMMA KeysSeparate ==
    ASSUME StringsOK, HomesApart, NEW q \in Request, NEW r \in Request, NEW k \in Path, NEW l \in Path,
           ScopedKey(Scope(q), k) = ScopedKey(Scope(r), l)
    PROVE  Scope(q) = Scope(r)
<1>1. Clean(k) \in Seq(Segment) /\ Clean(l) \in Seq(Segment)
  BY CleanTyped DEF Path
<1>2. \/ IsPrefix(Home(Scope(q)), Home(Scope(r)))
      \/ IsPrefix(Home(Scope(r)), Home(Scope(q)))
  BY <1>1, HomeTyped, OneBegins DEF ScopedKey
<1> QED BY <1>2 DEF HomesApart

\* The keys under which a request reads and writes.
LEMMA KeyTyped ==
    ASSUME ApiInv, NEW r \in Request
    PROVE  /\ call[r].op \in {"upload", "transform", "promote"} => call[r].key \in Path
           /\ call[r].op = "load_preset" => PresetKey[call[r].preset] \in Path
           /\ DefaultPreset \in Preset
  BY ApiAssumption DEF ApiInv, CallsOK, StringsOK

\* A request at a node has found its pipeline.
LEMMA AccessTyped ==
    ASSUME ApiInv, NEW r \in Request, pc[r] = "node", at[r] <= Len(Accesses(r))
    PROVE  Access(r).key \in Path
<1>1. call[r].id \in DOMAIN db
  BY DEF ApiInv, Found
<1> DEFINE all == db[call[r].id].pipeline.accesses
<1>2. all \in Seq(AccessSet)
  <2>1. call[r].id \in Request
    BY <1>1 DEF ApiInv, ApiTypeOK
  <2>2. /\ db[call[r].id].pipeline = call[call[r].id].pipeline
        /\ call[call[r].id].op = "create"
    BY <1>1 DEF ApiInv, Kept
  <2> QED BY <2>1, <2>2 DEF ApiInv, StringsOK
<1>3. Taken(all, call[r].ancestors) \in Seq(AccessSet)
  BY <1>2, TakenTyped
<1>4. Accesses(r) \in Seq(AccessSet)
  BY <1>2, <1>3 DEF Accesses
<1>5. at[r] \in Nat \ {0}
  BY DEF ApiInv, ApiTypeOK
<1>6. Accesses(r)[at[r]] \in AccessSet
  BY <1>4, <1>5
<1> QED BY <1>6 DEF Access, AccessSet

\* The rows of a preset belong to every project.
LEMMA PresetOwn ==
    ASSUME CallsOK, NEW r \in Request, NEW p \in Preset
    PROVE  Own(r, {p})
BY DEF CallsOK, Own, Frame

\* What a request works on.
LEMMA FrameFacts ==
    ASSUME ApiInv, NEW r \in Request, Step(r)
    PROVE  frame' \in [Request -> Frame] /\ Own(r, frame'[r])
<1>a. /\ frame \in [Request -> Frame] /\ Own(r, frame[r]) /\ DefaultPreset \in Preset /\ CallsOK
      /\ \A key \in Path : ScopedKey(Scope(r), key) \in DOMAIN store
                 => Own(r, store[ScopedKey(Scope(r), key)])
  BY DEF ApiInv, ApiTypeOK, Separate, CallsOK
<1>1. CASE ReadDataset(r) \/ ReadSource(r)
  <2>1. Key(r) \in DOMAIN store /\ frame' = [frame EXCEPT ![r] = store[Key(r)]]
    BY <1>1 DEF ReadDataset, ReadSource
  <2>3. call[r].key \in Path
    BY <1>a, <1>1, PlaceFacts, KeyTyped DEF ReadDataset, ReadSource
  <2>2. Own(r, store[Key(r)])
    BY <1>a, <2>1, <2>3 DEF Key
  <2> QED BY <1>a, <2>1, <2>2 DEF Own
<1>2. CASE MissDataset(r) \/ MissSource(r)
  <2>1. frame' = [frame EXCEPT ![r] = {DefaultPreset}]
    BY <1>2 DEF MissDataset, MissSource
  <2>2. Own(r, {DefaultPreset})
    BY <1>a, PresetOwn
  <2> QED BY <1>a, <2>1, <2>2 DEF Own
<1>3. CASE ReadNode(r)
  <2>1. /\ AccessKey(r) \in DOMAIN store
        /\ frame' = [frame EXCEPT ![r] = @ \cup store[AccessKey(r)]]
    BY <1>3 DEF ReadNode
  <2>4. Access(r).key \in Path
    BY <1>3, AccessTyped DEF ReadNode, AtAccess
  <2>2. Own(r, store[AccessKey(r)])
    BY <1>a, <2>1, <2>4 DEF AccessKey
  <2>3. Own(r, frame[r] \cup store[AccessKey(r)])
    BY <1>a, <2>2 DEF Own, Frame
  <2> QED BY <1>a, <2>1, <2>3 DEF Own
<1>4. CASE UNCHANGED frame
  BY <1>a, <1>4
<1>5. \/ ReadDataset(r) \/ ReadSource(r) \/ MissDataset(r) \/ MissSource(r)
      \/ ReadNode(r) \/ UNCHANGED frame
  BY ZenonT(60)
  DEF Step, Serve, ServeData, Begin, LoadPreset, UploadDataset, RefuseUpload,
      RefuseKey, AutoLoad, ExecuteCode, CreatePipeline, NotFound, GetPipeline,
      ComputeNode, FailNode, WriteNode, EndPipeline, CheckConnector, FailPromotion,
      RegisterTable, BeginStage, EndStage
<1> QED BY <1>1, <1>2, <1>3, <1>4, <1>5

\* What it writes, and that it is answered "ingested" only when it has.
Writes(r) ==
    \E key \in Path : \E v :
        /\ Own(r, v)
        /\ store' = Put(store, ScopedKey(Scope(r), key), v)
        /\ answer'[r] = "ingested" => key = IngestedKey(r)

\* A step that does not write leaves the store and tells nobody of a dataset.
LEMMA StoreFacts ==
    ASSUME ApiInv, NEW r \in Request, Step(r)
    PROVE  Writes(r) \/ (UNCHANGED store /\ answer'[r] # "ingested")
<1>a. /\ answer \in [Request -> Answers] /\ CallsOK
      /\ answer[r] # "none" <=> pc[r] = "answered"
      /\ frame \in [Request -> Frame] /\ Own(r, frame[r])
  BY DEF ApiInv, ApiTypeOK, Separate
<1> USE DEF Answer
<1>1. CASE LoadPreset(r)
  <2>1. call[r].op = "load_preset"
    BY <1>a, <1>1, PlaceFacts DEF LoadPreset
  <2>2. Own(r, {call[r].preset})
    BY <1>a, <2>1, PresetOwn DEF CallsOK
  <2>3. IngestedKey(r) = PresetKey[call[r].preset]
    BY <2>1 DEF IngestedKey
  <2>4. PresetKey[call[r].preset] \in Path
    BY <2>1, KeyTyped
  <2> QED BY <1>1, <2>2, <2>3, <2>4 DEF LoadPreset, Writes
<1>2. CASE UploadDataset(r)
  <2>1. call[r].op = "upload"
    BY <1>a, <1>2, PlaceFacts DEF UploadDataset
  <2>2. Own(r, {r})
    BY DEF Own, Frame
  <2>3. IngestedKey(r) = call[r].key
    BY <2>1 DEF IngestedKey
  <2>4. call[r].key \in Path
    BY <2>1, KeyTyped
  <2> QED BY <1>2, <2>2, <2>3, <2>4 DEF UploadDataset, Writes
<1>3. CASE AutoLoad(r)
  <2>1. call[r].key \in Path
    BY <1>a, <1>3, PlaceFacts, KeyTyped DEF AutoLoad
  <2>2. answer'[r] # "ingested"
    BY <1>a, <1>3 DEF AutoLoad
  <2> QED BY <1>a, <1>3, <2>1, <2>2 DEF AutoLoad, Writes, Key
<1>4. CASE WriteNode(r)
  <2>1. answer'[r] # "ingested"
    BY <1>a, <1>4 DEF WriteNode, AtAccess
  <2>2. Access(r).key \in Path
    BY <1>4, AccessTyped DEF WriteNode, AtAccess
  <2> QED BY <1>a, <1>4, <2>1, <2>2 DEF WriteNode, Writes, AccessKey
<1>5. CASE UNCHANGED store /\ ~Begin(r) /\ ~LoadPreset(r) /\ ~UploadDataset(r)
  <2>a. ExecuteCode(r) => answer'[r] # "ingested"
    BY CodeFacts
  <2>1. answer'[r] # "ingested"
    BY <1>a, <1>5, <2>a, ZenonT(60)
      DEF Step, Serve, ServeData, Begin, RefuseUpload, ReadDataset, MissDataset,
      RefuseKey, AutoLoad, CreatePipeline, NotFound, GetPipeline,
      ReadNode, ComputeNode, FailNode, WriteNode, EndPipeline, CheckConnector, ReadSource,
      MissSource, FailPromotion, RegisterTable, BeginStage, EndStage, AtAccess, Goto
  <2> QED BY <1>5, <2>1
<1>6. CASE Begin(r)
  BY <1>a, <1>6 DEF Begin
<1>7. \/ LoadPreset(r) \/ UploadDataset(r) \/ AutoLoad(r) \/ WriteNode(r) \/ Begin(r)
      \/ UNCHANGED store
  BY ZenonT(60)
  DEF Step, Serve, ServeData, Begin, RefuseUpload, ReadDataset, MissDataset,
      RefuseKey, ExecuteCode, CreatePipeline, NotFound, GetPipeline, Starts, ReadNode, ComputeNode,
      FailNode, EndPipeline, CheckConnector, ReadSource, MissSource,
      FailPromotion, RegisterTable, BeginStage, EndStage, lakehouse
<1> QED BY <1>1, <1>2, <1>3, <1>4, <1>5, <1>6, <1>7

\* The pipelines of the dict, and the answer "created".
LEMMA DbFacts ==
    ASSUME ApiInv, NEW r \in Request, Step(r)
    PROVE  /\ DOMAIN db' \in {DOMAIN db, DOMAIN db \cup {r}}
           /\ \A q \in DOMAIN db' : q \in DOMAIN db /\ q # r => db'[q] = db[q]
           /\ r \in DOMAIN db' => db'[r].scope = Scope(r)
           /\ r \in DOMAIN db' => db'[r].pipeline = call[r].pipeline /\ call[r].op = "create"
           /\ answer'[r] = "created" => r \in DOMAIN db'
<1>a. /\ answer \in [Request -> Answers]
      /\ answer[r] # "none" <=> pc[r] = "answered"
      /\ \A q \in DOMAIN db : db[q].scope = Scope(q)
      /\ \A q \in DOMAIN db : db[q].pipeline = call[q].pipeline /\ call[q].op = "create"
  BY DEF ApiInv, ApiTypeOK, Told, Kept
<1> USE DEF Answer
<1>1. CASE CreatePipeline(r) /\ call[r].pipeline.acyclic
  <2> DEFINE record == [scope |-> Scope(r), pipeline |-> call[r].pipeline]
  <2>1. record.scope = Scope(r) /\ record.pipeline = call[r].pipeline
    OBVIOUS
  <2>3. call[r].op = "create"
    BY <1>1, PlaceFacts DEF CreatePipeline, ApiInv
  <2>2. db' = Put(db, r, record)
    BY <1>1 DEF CreatePipeline
  <2> HIDE DEF record
  <2> QED BY <2>1, <2>2, <2>3 DEF Put
<1>2. CASE CreatePipeline(r) /\ ~call[r].pipeline.acyclic
  BY <1>a, <1>2 DEF CreatePipeline
<1>3. CASE ~CreatePipeline(r)
  <2>1. UNCHANGED db
    BY <1>3, ZenonT(60)
      DEF Step, Serve, ServeData, Begin, LoadPreset, UploadDataset, RefuseUpload,
      ReadDataset, MissDataset, RefuseKey, AutoLoad, ExecuteCode, NotFound,
      GetPipeline, Starts, ReadNode, ComputeNode, FailNode, WriteNode, EndPipeline, CheckConnector,
      ReadSource, MissSource, FailPromotion, RegisterTable, BeginStage, EndStage, lakehouse
  <2>a. ExecuteCode(r) => answer'[r] # "created"
    BY CodeFacts
  <2>2. answer'[r] # "created"
    BY <1>a, <1>3, <2>a, ZenonT(60)
      DEF Step, Serve, ServeData, Begin, LoadPreset, UploadDataset, RefuseUpload,
      ReadDataset, MissDataset, RefuseKey, AutoLoad, NotFound,
      GetPipeline, ReadNode, ComputeNode, FailNode, WriteNode, EndPipeline, CheckConnector,
      ReadSource, MissSource, FailPromotion, RegisterTable, BeginStage, EndStage, AtAccess, Goto
  <2> QED BY <1>a, <2>1, <2>2
<1> QED BY <1>1, <1>2, <1>3

\* The tables of the catalog, and the answer "registered".
LEMMA CatalogFacts ==
    ASSUME ApiInv, NEW r \in Request, Step(r)
    PROVE  /\ DOMAIN catalog \subseteq DOMAIN catalog'
           /\ DOMAIN catalog' \subseteq StageNames
           /\ answer'[r] = "registered" => call[r].stage \in DOMAIN catalog'
           /\ \A s \in DOMAIN catalog' : catalog'[s] \in Frame
<1>a. /\ answer \in [Request -> Answers]
      /\ answer[r] # "none" <=> pc[r] = "answered"
      /\ frame \in [Request -> Frame] /\ CallsOK
      /\ DOMAIN catalog \subseteq StageNames
      /\ \A s \in DOMAIN catalog : catalog[s] \in Frame
  BY DEF ApiInv, ApiTypeOK, Told
<1> USE DEF Answer
<1>1. CASE RegisterTable(r)
  <2>1. call[r].stage \in StageNames
    BY <1>a, <1>1, PlaceFacts DEF RegisterTable, CallsOK
  <2>2. catalog' = Put(catalog, call[r].stage, frame[r])
    BY <1>1 DEF RegisterTable
  <2> QED BY <1>a, <2>1, <2>2 DEF Put
<1>2. CASE ~RegisterTable(r)
  <2>1. UNCHANGED catalog
    BY <1>2, ZenonT(60)
      DEF Step, Serve, ServeData, Begin, LoadPreset, UploadDataset, RefuseUpload,
      ReadDataset, MissDataset, RefuseKey, AutoLoad, ExecuteCode, CreatePipeline,
      NotFound, GetPipeline, Starts, ReadNode, ComputeNode, FailNode, WriteNode, EndPipeline,
      CheckConnector, ReadSource, MissSource, FailPromotion, BeginStage, EndStage, lakehouse
  <2>a. ExecuteCode(r) => answer'[r] # "registered"
    BY CodeFacts
  <2>2. answer'[r] # "registered"
    BY <1>a, <1>2, <2>a, ZenonT(60)
      DEF Step, Serve, ServeData, Begin, LoadPreset, UploadDataset, RefuseUpload,
      ReadDataset, MissDataset, RefuseKey, AutoLoad, CreatePipeline,
      NotFound, GetPipeline, ReadNode, ComputeNode, FailNode, WriteNode, EndPipeline,
      CheckConnector, ReadSource, MissSource, FailPromotion, BeginStage, EndStage, AtAccess, Goto
  <2> QED BY <1>a, <2>1, <2>2
<1> QED BY <1>1, <1>2

\* What was told before a request is noted when it begins.
LEMMA BeforeFacts ==
    ASSUME ApiInv, NEW r \in Request, Step(r)
    PROVE  /\ \A q \in Request \ {r} : answeredBefore'[q] = answeredBefore[q]
           /\ Begin(r) => answeredBefore'[r] = ToldOf(r)
           /\ ~Begin(r) => answeredBefore' = answeredBefore
           /\ answeredBefore' \in [Request -> SUBSET Request]
<1>a. answeredBefore \in [Request -> SUBSET Request]
  BY DEF ApiInv, ApiTypeOK
<1>1. CASE Begin(r)
  BY <1>a, <1>1 DEF Begin, ToldOf
<1>2. CASE ~Begin(r)
  <2>1. answeredBefore' = answeredBefore
    BY <1>2, ZenonT(60)
      DEF Step, Serve, ServeData, Begin, LoadPreset, UploadDataset, RefuseUpload,
      ReadDataset, MissDataset, RefuseKey, AutoLoad, ExecuteCode, CreatePipeline,
      NotFound, GetPipeline, Starts, ReadNode, ComputeNode, FailNode, WriteNode, EndPipeline,
      CheckConnector, ReadSource, MissSource, FailPromotion, RegisterTable,
      BeginStage, EndStage
  <2> QED BY <1>a, <1>2, <2>1
<1> QED BY <1>1, <1>2

-----------------------------------------------------------------------------
(* Each part of the invariant is preserved *)

LEMMA TypeStep ==
    ASSUME ApiInv, NEW r \in Request, Step(r)
    PROVE  ApiTypeOK' /\ CallsOK' /\ StringsOK' /\ Kept'
<1>a. /\ ApiTypeOK /\ CallsOK
      /\ call' = call /\ Request' = Request /\ Frame' = Frame
      /\ \A q : Scope(q)' = Scope(q)
  BY StepFacts, SameRequests DEF ApiInv
<1>b. StringsOK /\ Kept
  BY DEF ApiInv
<1>1. \A k \in DOMAIN store' : store'[k] \in Frame
  <2>1. CASE Writes(r)
    BY <1>a, <2>1 DEF Writes, Own, Put, ApiTypeOK
  <2>2. CASE UNCHANGED store
    BY <1>a, <2>2 DEF ApiTypeOK
  <2> QED BY <2>1, <2>2, StoreFacts
<1>2. DOMAIN db' \in SUBSET Request
  BY <1>a, DbFacts DEF ApiTypeOK
<1>3. ApiTypeOK'
  BY <1>a, <1>1, <1>2, StepFacts, FrameFacts, CatalogFacts, BeforeFacts DEF ApiTypeOK
<1>4. CallsOK'
  BY <1>a, StepFacts DEF CallsOK
<1>5. StringsOK'
  BY <1>a, <1>b DEF StringsOK
<1>6. ASSUME NEW q \in DOMAIN db'
      PROVE  db'[q].pipeline = call'[q].pipeline /\ call'[q].op = "create"
  <2>1. CASE q = r
    BY <1>a, <2>1, DbFacts
  <2>2. CASE q # r
    <3>1. q \in DOMAIN db /\ db'[q] = db[q]
      BY <2>2, DbFacts
    <3> QED BY <1>a, <1>b, <3>1 DEF Kept
  <2> QED BY <2>1, <2>2
<1> QED BY <1>3, <1>4, <1>5, <1>6 DEF Kept

\* A step keeps the projects apart,
LEMMA SeparateStep ==
    ASSUME ApiInv, NEW r \in Request, Step(r)
    PROVE  Separate'
<1>a. /\ Separate /\ StringsOK
      /\ Request' = Request /\ Frame' = Frame
      /\ \A q : Scope(q)' = Scope(q)
      /\ HomesApart' <=> HomesApart
  BY StepFacts, SameRequests DEF ApiInv
<1>b. \A q, df : Own(q, df)' <=> Own(q, df')
  BY <1>a DEF Own
<1>1. \A q \in Request : Own(q, frame'[q])
  BY <1>a, StepFacts, FrameFacts DEF Separate
<1>2. ASSUME NEW q \in Request, NEW key \in Path, ScopedKey(Scope(q), key) \in DOMAIN store'
      PROVE  Own(q, store'[ScopedKey(Scope(q), key)])
  <2>1. CASE UNCHANGED store
    BY <1>a, <1>2, <2>1 DEF Separate
  <2>2. CASE Writes(r)
    <3>1. PICK k \in Path, v \in Frame : Own(r, v) /\ store' = Put(store, ScopedKey(Scope(r), k), v)
      BY <2>2 DEF Writes, Own
    <3>2. CASE ScopedKey(Scope(q), key) = ScopedKey(Scope(r), k)
      <4>1. HomesApart => Scope(q) = Scope(r)
        BY <1>a, <3>2, KeysSeparate
      <4>2. store'[ScopedKey(Scope(q), key)] = v
        BY <3>1, <3>2 DEF Put
      <4> QED BY <3>1, <4>1, <4>2 DEF Own
    <3>3. CASE ScopedKey(Scope(q), key) # ScopedKey(Scope(r), k)
      <4>1. /\ ScopedKey(Scope(q), key) \in DOMAIN store
            /\ store'[ScopedKey(Scope(q), key)] = store[ScopedKey(Scope(q), key)]
        BY <1>2, <3>1, <3>3 DEF Put
      <4> QED BY <1>a, <4>1 DEF Separate
    <3> QED BY <3>2, <3>3
  <2> QED BY <2>1, <2>2, StoreFacts
<1> QED BY <1>a, <1>1, <1>2 DEF Separate, Own, ScopedKey, Home

\* what was told of in its place,
LEMMA ToldStep ==
    ASSUME ApiInv, NEW r \in Request, Step(r)
    PROVE  Told'
<1>a. /\ Told /\ CallsOK /\ ApiTypeOK
      /\ call' = call /\ Request' = Request
      /\ \A q : Scope(q)' = Scope(q) /\ IngestedKey(q)' = IngestedKey(q)
      /\ \A q \in Request \ {r} : answer'[q] = answer[q]
  BY StepFacts, SameRequests DEF ApiInv
<1>1. \A k \in DOMAIN store : k \in DOMAIN store'
  BY StoreFacts DEF Writes, Put
<1>2. ASSUME NEW q \in Request, answer'[q] = "ingested"
      PROVE  ScopedKey(Scope(q), IngestedKey(q)) \in DOMAIN store'
  <2>1. CASE q = r
    BY <1>2, <2>1, StoreFacts DEF Writes, Put
  <2>2. CASE q # r
    BY <1>a, <1>1, <1>2, <2>2 DEF Told
  <2> QED BY <2>1, <2>2
<1>3. ASSUME NEW q \in Request, answer'[q] = "created" PROVE q \in DOMAIN db'
  <2>1. CASE q = r
    BY <1>3, <2>1, DbFacts
  <2>2. CASE q # r
    <3>1. answer[q] = "created"
      BY <1>a, <1>3, <2>2
    <3>2. q \in DOMAIN db
      BY <1>a, <3>1 DEF Told
    <3> QED BY <3>2, DbFacts
  <2> QED BY <2>1, <2>2
<1>4. ASSUME NEW q \in DOMAIN db' PROVE db'[q].scope = Scope(q)
  <2>1. CASE q = r
    BY <2>1, DbFacts
  <2>2. CASE q # r
    <3>1. q \in DOMAIN db /\ db'[q] = db[q]
      BY <2>2, DbFacts
    <3> QED BY <1>a, <3>1 DEF Told
  <2> QED BY <2>1, <2>2
<1>5. ASSUME NEW q \in Request, answer'[q] = "registered"
      PROVE  call[q].stage \in DOMAIN catalog'
  <2>1. CASE q = r
    BY <1>5, <2>1, CatalogFacts
  <2>2. CASE q # r
    <3>1. answer[q] = "registered"
      BY <1>a, <1>5, <2>2
    <3>2. call[q].stage \in DOMAIN catalog
      BY <1>a, <3>1 DEF Told
    <3> QED BY <3>2, CatalogFacts
  <2> QED BY <2>1, <2>2
<1>6. ASSUME NEW p \in Request, NEW q \in answeredBefore'[p]
      PROVE  Scope(q) = Scope(p) /\ answer'[q] \in {"ingested", "created", "registered"}
  <2>1. /\ q \in Request /\ Scope(q) = Scope(p)
        /\ answer[q] \in {"ingested", "created", "registered"}
    <3>1. CASE p = r /\ Begin(r)
      BY <1>6, <3>1, BeforeFacts DEF ToldOf
    <3>2. CASE ~(p = r /\ Begin(r))
      BY <1>a, <1>6, <3>2, BeforeFacts DEF Told, ApiTypeOK
    <3> QED BY <3>1, <3>2
  <2>2. q # r
    BY <1>a, <2>1, StepFacts DEF ApiTypeOK
  <2> QED BY <1>a, <2>1, <2>2
<1>7. DOMAIN catalog' \subseteq StageNames
  BY CatalogFacts
<1>8. \A q : call'[q] = call[q]
  BY <1>a
<1> HIDE DEF Request, Scope, IngestedKey
<1>9. \A q \in Request' : answer'[q] = "ingested" =>
        ScopedKey(Scope(q)', IngestedKey(q)') \in DOMAIN store'
  BY <1>a, <1>2
<1> QED BY <1>a, <1>3, <1>4, <1>5, <1>6, <1>7, <1>8, <1>9 DEF Told, ScopedKey

\* A request's view of what it was told before does not change once it has
\* begun.
LEMMA SameBefore ==
    ASSUME ApiInv, NEW r \in Request, Step(r), NEW p \in Request, p # r \/ ~Begin(r)
    PROVE  /\ \A key : IngestedBefore(p, key)' <=> IngestedBefore(p, key)
           /\ AllToldBefore(p)' <=> AllToldBefore(p)
           /\ \A q \in answeredBefore'[p] : q \in answeredBefore[p] /\ answer'[q] = answer[q]
           /\ answeredBefore'[p] = answeredBefore[p]
<1>1. call' = call
  BY StepFacts
<1>2. answeredBefore'[p] = answeredBefore[p]
  BY BeforeFacts
<1>3. \A q \in answeredBefore[p] : answer'[q] = answer[q]
  <2>1. \A q \in answeredBefore[p] : q \in Request /\ answer[q] # "none"
    BY DEF ApiInv, Told, ApiTypeOK
  <2>2. answer[r] = "none"
    BY StepFacts DEF ApiInv, ApiTypeOK
  <2> QED BY <2>1, <2>2, StepFacts
<1>4. \A q : IngestedKey(q)' = IngestedKey(q)
  BY <1>1, SameRequests
<1>5. ASSUME NEW key PROVE IngestedBefore(p, key)' <=> IngestedBefore(p, key)
  BY <1>2, <1>3, <1>4, Zenon DEF IngestedBefore
<1>6. AllToldBefore(p)' <=> AllToldBefore(p)
  BY <1>1, <1>2, <1>3, Zenon DEF AllToldBefore
<1> QED BY <1>2, <1>3, <1>5, <1>6

\* What was told before is there.
LEMMA BeforeIsThere ==
    ASSUME ApiInv, NEW r \in Request
    PROVE  /\ \A key : IngestedBefore(r, key) => ScopedKey(Scope(r), key) \in DOMAIN store
           /\ AllToldBefore(r) => DOMAIN catalog = StageNames
           /\ \A q \in answeredBefore[r] : answer[q] = "created" =>
                q \in DOMAIN db /\ db[q].scope = Scope(r)
<1>a. /\ Told
      /\ \A q \in answeredBefore[r] : q \in Request /\ Scope(q) = Scope(r)
  BY DEF ApiInv, Told, ApiTypeOK
<1>1. ASSUME NEW key, IngestedBefore(r, key)
      PROVE  ScopedKey(Scope(r), key) \in DOMAIN store
  <2>1. PICK q \in answeredBefore[r] : answer[q] = "ingested" /\ Clean(key) = Clean(IngestedKey(q))
    BY <1>1 DEF IngestedBefore
  <2>2. ScopedKey(Scope(q), IngestedKey(q)) \in DOMAIN store /\ Scope(q) = Scope(r)
    BY <1>a, <2>1 DEF Told
  <2> QED BY <2>1, <2>2 DEF ScopedKey
<1>2. AllToldBefore(r) => DOMAIN catalog = StageNames
  BY <1>a DEF AllToldBefore, Told
<1>3. \A q \in answeredBefore[r] : answer[q] = "created" =>
        q \in DOMAIN db /\ db[q].scope = Scope(r)
  BY <1>a DEF Told
<1> QED BY <1>1, <1>2, <1>3

\* and a request from missing what it must find.
LEMMA FoundStep ==
    ASSUME ApiInv, NEW r \in Request, Step(r)
    PROVE  Found'
<1>a. /\ ApiTypeOK /\ CallsOK /\ Told /\ Found
      /\ call' = call /\ Request' = Request
  BY StepFacts, SameRequests DEF ApiInv
<1>b. DOMAIN catalog \subseteq DOMAIN catalog' /\ DOMAIN catalog' \subseteq StageNames
  BY CatalogFacts
<1>c. \A p \in Request : AllToldBefore(p) => DOMAIN catalog' = DOMAIN catalog
  BY <1>b, BeforeIsThere
<1>d. DOMAIN db \subseteq DOMAIN db'
  BY DbFacts
<1> DEFINE Good(p) ==
      /\ pc'[p] = "node" => call[p].id \in DOMAIN db'
      /\ pc'[p] \in {"autoload", "register_preset"} => ~IngestedBefore(p, call[p].key)'
      /\ pc'[p] = "listing" /\ AllToldBefore(p)' => size'[p] = Cardinality(DOMAIN catalog')
      /\ answer'[p] = "not found" =>
           ~ \E q \in answeredBefore'[p] : q = call[p].id /\ answer'[q] = "created"
      /\ answer'[p] = "server error" /\ call[p].op = "tables" => ~AllToldBefore(p)'
<1>1. ASSUME NEW p \in Request, p # r PROVE Good(p)
  <2>1. pc'[p] = pc[p] /\ answer'[p] = answer[p] /\ size'[p] = size[p]
    BY <1>1, StepFacts
  <2>2. /\ AllToldBefore(p)' <=> AllToldBefore(p)
        /\ \A q \in answeredBefore'[p] : q \in answeredBefore[p] /\ answer'[q] = answer[q]
    BY <1>1, SameBefore
  <2>3. IngestedBefore(p, call[p].key)' <=> IngestedBefore(p, call[p].key)
    BY <1>1, <1>a, SameBefore
  <2> QED BY <1>a, <1>c, <1>d, <1>1, <2>1, <2>2, <2>3 DEF Found
<1>2. CASE Begin(r)
  <2>1. answer'[r] = "none" /\ pc'[r] \notin {"autoload", "register_preset", "listing", "node"}
    BY <1>a, <1>2, EntryFacts DEF Begin, Goto, ApiTypeOK, CallsOK
  <2> QED BY <1>a, <1>1, <2>1 DEF Found
<1>3. CASE ~Begin(r)
  <2>a. /\ answer[r] = "none" /\ answer \in [Request -> Answers] /\ pc \in [Request -> Labels]
        /\ size = [q \in Request |-> size[q]]
    BY <1>a, StepFacts DEF ApiTypeOK, CallsOK
  <2>1. pc'[r] \in {"autoload", "register_preset"} => ~IngestedBefore(r, call[r].key)'
    <3>1. SUFFICES ASSUME pc'[r] \in {"autoload", "register_preset"}
                   PROVE  ~IngestedBefore(r, call[r].key)
      BY <1>a, <1>3, SameBefore
    <3>2. Key(r) \notin DOMAIN store
      BY <1>3, <2>a, <3>1, ZenonT(60)
        DEF Step, Serve, ServeData, Begin, LoadPreset, UploadDataset, RefuseUpload,
      ReadDataset, MissDataset, RefuseKey, AutoLoad, ExecuteCode, CreatePipeline,
      NotFound, GetPipeline, Starts, ReadNode, ComputeNode, FailNode, WriteNode, EndPipeline,
      CheckConnector, ReadSource, MissSource, FailPromotion, RegisterTable,
      BeginStage, EndStage, AtAccess, Goto, Answer
    <3> QED BY <3>2, BeforeIsThere DEF Key
  <2>2. pc'[r] = "listing" /\ AllToldBefore(r)' => size'[r] = Cardinality(DOMAIN catalog')
    <3>1. SUFFICES ASSUME pc'[r] = "listing" PROVE size'[r] = Cardinality(DOMAIN catalog')
      OBVIOUS
    <3>2. BeginStage(r)
      BY <1>3, <2>a, <3>1, ZenonT(60)
        DEF Step, Serve, ServeData, Begin, LoadPreset, UploadDataset, RefuseUpload,
      ReadDataset, MissDataset, RefuseKey, AutoLoad, ExecuteCode, CreatePipeline,
      NotFound, GetPipeline, Starts, ReadNode, ComputeNode, FailNode, WriteNode, EndPipeline,
      CheckConnector, ReadSource, MissSource, FailPromotion, RegisterTable,
      EndStage, AtAccess, Goto, Answer
    <3> QED BY <2>a, <3>2 DEF BeginStage
  <2>3. answer'[r] = "not found" =>
          ~ \E q \in answeredBefore'[r] : q = call[r].id /\ answer'[q] = "created"
    <3>1. SUFFICES ASSUME answer'[r] = "not found",
                          NEW q \in answeredBefore[r], q = call[r].id, answer[q] = "created"
                   PROVE  FALSE
      BY <1>3, SameBefore
    <3>a. ~ExecuteCode(r)
      BY <3>1, CodeFacts
    <3>2. NotFound(r)
      BY <1>3, <2>a, <3>1, <3>a, ZenonT(60)
        DEF Step, Serve, ServeData, Begin, LoadPreset, UploadDataset, RefuseUpload,
      ReadDataset, MissDataset, RefuseKey, AutoLoad, CreatePipeline,
      GetPipeline, ReadNode, ComputeNode, FailNode, WriteNode, EndPipeline, CheckConnector,
      ReadSource, MissSource, FailPromotion, RegisterTable, BeginStage, EndStage, AtAccess, Goto, Answer
    <3> QED BY <3>1, <3>2, BeforeIsThere DEF NotFound, OwnRecord
  <2>4. answer'[r] = "server error" /\ call[r].op = "tables" => ~AllToldBefore(r)'
    <3>1. SUFFICES ASSUME answer'[r] = "server error", call[r].op = "tables"
                   PROVE  ~AllToldBefore(r)
      BY <1>3, SameBefore
    <3>2. EndStage(r) /\ size[r] # Cardinality(DOMAIN catalog)
      <4>1. EndStage(r)
        BY <1>a, <1>3, <2>a, <3>1, PlaceFacts, ZenonT(60)
          DEF Step, Serve, ServeData, Begin, LoadPreset, UploadDataset, RefuseUpload,
      ReadDataset, MissDataset, RefuseKey, AutoLoad, ExecuteCode, CreatePipeline,
      NotFound, GetPipeline, Starts, ReadNode, ComputeNode, FailNode, WriteNode, EndPipeline,
      CheckConnector, ReadSource, MissSource, FailPromotion, RegisterTable,
      BeginStage, AtAccess, Goto, Answer
      <4>2. CASE size[r] = Cardinality(DOMAIN catalog)
        BY <2>a, <3>1, <4>1, <4>2 DEF EndStage, Answer
      <4> QED BY <4>1, <4>2
    <3> QED BY <1>a, <3>2 DEF Found, EndStage
  <2>5. pc'[r] = "node" => call[r].id \in DOMAIN db'
    <3>1. CASE pc[r] = "node"
      BY <1>a, <1>d, <3>1 DEF Found
    <3>2. CASE pc[r] # "node" /\ pc'[r] = "node"
      <4>1. GetPipeline(r)
        BY <1>3, <2>a, <3>2, ZenonT(60)
          DEF Step, Serve, ServeData, Begin, LoadPreset, UploadDataset, RefuseUpload,
        ReadDataset, MissDataset, RefuseKey, AutoLoad, ExecuteCode, CreatePipeline,
        NotFound, ReadNode, ComputeNode, FailNode, WriteNode, EndPipeline,
        CheckConnector, ReadSource, MissSource, FailPromotion, RegisterTable,
        BeginStage, EndStage, AtAccess, Goto, Answer
      <4> QED BY <1>d, <4>1 DEF GetPipeline, OwnRecord
    <3> QED BY <3>1, <3>2
  <2> QED BY <1>a, <1>1, <2>1, <2>2, <2>3, <2>4, <2>5 DEF Found
<1> QED BY <1>2, <1>3

-----------------------------------------------------------------------------
(* The invariant holds *)

LEMMA InitInv == Init => ApiInv
<1> SUFFICES ASSUME Init PROVE ApiInv
  OBVIOUS
<1>1. CallsOK
  <2>1. \A r \in Request : call[r].op \in Operations /\ pc[r] \in Places(call[r].op)
    BY ApiAssumption DEF Init, Request, Places
  <2>2. size = [r \in Request |-> size[r]]
    BY DEF Init
  <2>3. /\ \A r \in Request : call[r].op = "load_preset" => call[r].preset \in Preset
        /\ \A r \in Request : call[r].op = "promote" => call[r].stage \in StageNames
    BY ApiAssumption DEF Init, Request
  <2>4. Preset \cap Request = {} /\ DefaultPreset \in Preset
    BY ApiAssumption DEF Init, Request
  <2> QED BY <2>1, <2>2, <2>3, <2>4 DEF CallsOK
<1>2. ApiTypeOK
  BY DEF Init, ApiTypeOK, Labels, Answers, Frame
<1>3. Separate
  BY DEF Init, Separate, Own, Frame
<1>4. Told
  BY DEF Init, Told
<1>5. Found
  BY DEF Init, Found
<1>6. StringsOK
  BY ApiAssumption DEF Init, Request, StringsOK, Scope
<1>7. Kept
  BY DEF Init, Kept
<1> QED BY <1>1, <1>2, <1>3, <1>4, <1>5, <1>6, <1>7 DEF ApiInv

\* Every step keeps the invariant.
LEMMA NextInv == ApiInv /\ [Next]_vars => ApiInv'
<1> SUFFICES ASSUME ApiInv, [Next]_vars PROVE ApiInv'
  OBVIOUS
<1>1. ASSUME NEW r \in Request, Step(r) PROVE ApiInv'
  BY <1>1, TypeStep, SeparateStep, ToldStep, FoundStep DEF ApiInv
<1>2. CASE UNCHANGED vars
  <2>1. UNCHANGED <<call, pc, frame, at, answer, store, db, answeredBefore, catalog, size>>
    BY <1>2 DEF vars, lakehouse
  <2>2. ApiTypeOK'
    BY <2>1 DEF ApiInv, ApiTypeOK, Request, Frame
  <2>3. CallsOK'
    BY <2>1 DEF ApiInv, CallsOK, Request, Scope
  <2>4. Separate'
    BY <2>1 DEF ApiInv, Separate, Own, Request, Frame, Scope, ScopedKey, Home, HomesApart
  <2>5. Told'
    BY <2>1 DEF ApiInv, Told, Request, Scope, ScopedKey, Home, IngestedKey
  <2>6. ASSUME NEW r \in Request
        PROVE  /\ IngestedBefore(r, call[r].key)' <=> IngestedBefore(r, call[r].key)
               /\ AllToldBefore(r)' <=> AllToldBefore(r)
    <3>1. IngestedBefore(r, call[r].key)' <=> IngestedBefore(r, call[r].key)
      BY <2>1, Zenon DEF IngestedBefore, IngestedKey
    <3>2. AllToldBefore(r)' <=> AllToldBefore(r)
      BY <2>1, Zenon DEF AllToldBefore
    <3> QED BY <3>1, <3>2
  <2>7. Found'
    BY <2>1, <2>6 DEF ApiInv, Found, Request
  <2>8. StringsOK' /\ Kept'
    BY <2>1 DEF ApiInv, StringsOK, Kept, Request, Scope
  <2> QED BY <2>2, <2>3, <2>4, <2>5, <2>7, <2>8 DEF ApiInv
<1> QED BY <1>1, <1>2 DEF Next, Step

\* Every frame is of its request's project, and what was answered is there.
THEOREM ApiInvariant == Spec => []ApiInv
BY InitInv, NextInv, PTL DEF Spec

-----------------------------------------------------------------------------
(* The theorems *)

\* The type invariant; a request is answered exactly when it is over.
THEOREM ApiTypeCorrect == Spec => []ApiTypeOK
BY ApiInvariant, PTL DEF ApiInv

\* No project ever works on what another one has uploaded, for any clients and
\* keys with any number of slashes, as long as no home is inside another.
THEOREM ProjectsAreSeparate == Spec => []ScopesSeparate
<1>1. ApiInv => ScopesSeparate
  BY DEF ApiInv, Separate, Own, ScopesSeparate, Frame
<1> QED BY <1>1, ApiInvariant, PTL

\* Datasets, pipelines and stages a client was told of are found by every
\* request that begins after it.
THEOREM WhatWasToldIsFound == Spec => []ToldIsFound
<1>1. ApiInv => ToldIsFound
  <2> SUFFICES ASSUME ApiInv, NEW r \in Request
               PROVE  /\ pc[r] \in {"autoload", "register_preset"}
                           => ~IngestedBefore(r, call[r].key)
                      /\ IngestedBefore(r, Access(r).key) => AccessKey(r) \in DOMAIN store
                      /\ answer[r] = "not found" =>
                           ~ \E q \in answeredBefore[r] : q = call[r].id /\ answer[q] = "created"
                      /\ answer[r] = "server error" /\ call[r].op = "tables" =>
                           \E i \in DOMAIN Stages : \A q \in answeredBefore[r] :
                               ~(answer[q] = "registered" /\ call[q].stage = Stages[i])
    BY DEF ToldIsFound
  <2>1. IngestedBefore(r, Access(r).key) => AccessKey(r) \in DOMAIN store
    BY BeforeIsThere DEF AccessKey
  <2>2. answer[r] = "server error" /\ call[r].op = "tables" => ~AllToldBefore(r)
    BY DEF ApiInv, Found
  <2>3. ~AllToldBefore(r) =>
          \E i \in DOMAIN Stages : \A q \in answeredBefore[r] :
              ~(answer[q] = "registered" /\ call[q].stage = Stages[i])
    BY DEF AllToldBefore, StageNames
  <2> QED BY <2>1, <2>2, <2>3 DEF ApiInv, Found
<1> QED BY <1>1, ApiInvariant, PTL

=============================================================================
