--------------------------- MODULE MCTransformApi ---------------------------
(***************************************************************************)
(* Clients of two projects of one organisation that use TransformApi at    *)
(* the same time, on the same keys.                                        *)
(***************************************************************************)
EXTENDS TransformApi

\* Projects apart: their ids may have slashes, in front and within.
P1 == [org |-> <<"o">>, project |-> <<"p1">>]
P2 == [org |-> <<"o">>, project |-> <<"", "p2", "eu">>]

\* A project inside the home of P1.
Inner == [org |-> <<"o">>, project |-> <<"p1", "eu">>]

Sales == <<"sales">>
People == <<"eu", "people">>
MCSegment == {"", ".", "..", "o", "p1", "p2", "eu", "sales", "people"}

MCPreset == {"ecommerce", "customers"}
MCPresetKey == [p \in MCPreset |-> IF p = "ecommerce" THEN Sales ELSE People]

LoadCall(s, p) == [op |-> "load_preset", scope |-> s, preset |-> p]
UploadCall(s, k, ok) == [op |-> "upload", scope |-> s, key |-> k, parses |-> ok]
TransformCall(s, k, c) == [op |-> "transform", scope |-> s, key |-> k, code |-> c]
CreateCall(s, p) == [op |-> "create", scope |-> s, pipeline |-> p]
GetCall(s, id) == [op |-> "get", scope |-> s, id |-> id]
RunCall(s, id) == [op |-> "run", scope |-> s, id |-> id]
PreviewCall(s, id, ns) ==
    [op |-> "preview", scope |-> s, id |-> id, known |-> ns # {}, ancestors |-> ns]

PromoteCall(s, stage, k, ok) ==
    [op |-> "promote", scope |-> s, stage |-> stage, key |-> k, works |-> ok]
TablesCall(s) == [op |-> "tables", scope |-> s]
TestCall(s, ok) == [op |-> "test_connector", scope |-> s, works |-> ok]

Access2(op, k) == [op |-> op, key |-> k]
Graph(accesses) == [acyclic |-> TRUE, builds |-> TRUE, accesses |-> accesses]
Unbuildable == [acyclic |-> TRUE, builds |-> FALSE, accesses |-> <<>>]
CyclicGraph == [acyclic |-> FALSE, builds |-> TRUE, accesses |-> <<>>]

\* Uploads and transforms of the same key in two projects.
IngestCalls ==
    [up1 |-> UploadCall(P1, Sales, TRUE), up2 |-> UploadCall(P2, Sales, TRUE),
     load |-> LoadCall(P1, "customers"),
     tr1 |-> TransformCall(P1, <<"", "sales">>, "returns"), tr2 |-> TransformCall(P1, People, "raises"),
     tr3 |-> TransformCall(P2, Sales, "exits")]

\* A pipeline that adds one dataset to the other, run and looked at while the
\* datasets change.
PipelineCalls ==
    [up1 |-> UploadCall(P1, Sales, TRUE), up2 |-> UploadCall(P2, Sales, TRUE),
     new |-> CreateCall(P1, Graph(<<Access2("read", Sales), Access2("read", People),
                                    Access2("compute", Sales), Access2("write", People)>>)),
     run |-> RunCall(P1, "new"), again |-> PreviewCall(P1, "new", {2, 3}),
     load |-> LoadCall(P1, "customers")]

\* Graphs and keys that are refused, and another project's pipeline.
RefusedCalls ==
    [loop |-> CreateCall(P1, CyclicGraph), odd |-> CreateCall(P1, Unbuildable),
     getOdd |-> GetCall(P1, "odd"), runOdd |-> RunCall(P1, "odd"),
     lookOdd |-> PreviewCall(P2, "odd", {1}), bad |-> UploadCall(P1, Sales, FALSE)]

\* Keys that validate_and_scope_key refuses, in calls and in pipelines, and a
\* preview of a node that is not there.
Slash == <<"", "">>
Upwards == <<"..", "sales">>
RefusedKeyCalls ==
    [slash |-> UploadCall(P1, Slash, TRUE), trSlash |-> TransformCall(P1, Slash, "returns"),
     bad |-> CreateCall(P1, Graph(<<Access2("write", Sales), Access2("write", Upwards)>>)),
     run |-> RunCall(P1, "bad"), look |-> PreviewCall(P1, "bad", {}),
     odd |-> CreateCall(P1, Graph(<<Access2("read", Upwards)>>)), runOdd |-> RunCall(P1, "odd")]

\* Projects that share keys, because one is inside the home of the other.
NestedCalls ==
    [up |-> UploadCall(Inner, Sales, TRUE), load |-> LoadCall(P1, "customers"),
     tr |-> TransformCall(P1, <<"eu", "sales">>, "returns"),
     trIn |-> TransformCall(Inner, <<"people">>, "returns"),
     new |-> CreateCall(Inner, Graph(<<Access2("read", <<"people">>), Access2("write", Sales)>>)),
     run |-> RunCall(Inner, "new")]

\* Both projects promote what they have, or have not.
MedallionCalls ==
    [up1 |-> UploadCall(P1, Sales, TRUE), up2 |-> UploadCall(P2, Sales, TRUE),
     br1 |-> PromoteCall(P1, "bronze", Sales, TRUE), br2 |-> PromoteCall(P2, "bronze", Sales, TRUE),
     si2 |-> PromoteCall(P2, "silver", People, TRUE)]

\* A listing while stages are registered for the first time.
ListingCalls ==
    [br |-> PromoteCall(P1, "bronze", Sales, TRUE), si |-> PromoteCall(P1, "silver", Sales, TRUE),
     go |-> PromoteCall(P1, "gold", Sales, TRUE), list |-> TablesCall(P1)]

\* Promotions that fail, and connector tests.
FailedCalls ==
    [go2 |-> PromoteCall(P2, "gold", People, FALSE), bad |-> PromoteCall(P1, "gold", Slash, TRUE),
     test1 |-> TestCall(P1, TRUE), test2 |-> TestCall(P2, FALSE)]

MCWorkloads ==
    {IngestCalls, PipelineCalls, RefusedCalls, RefusedKeyCalls, NestedCalls, MedallionCalls,
     ListingCalls, FailedCalls}

=============================================================================
