-------------------------- MODULE MCPipelineRunner --------------------------
(***************************************************************************)
(* Small pipelines for PipelineRunner.                                     *)
(***************************************************************************)
EXTENDS PipelineRunner

MCId == {"a", "b", "c", "d", "e"}
MCPort == {"none", "", "left", "right", "input_0", "input_1"}
MCInputName == <<"input_0", "input_1", "input_2", "input_3", "input_4">>

\* r1 and r2 satisfy the condition, bad fits no comparison;
\* r2 and r3 join with each other; dropping a column makes r1 equal to r3.
MCRow == {"r1", "r2", "r3", "bad"}
MCKeptRows == {"r1", "r2"}
MCBrokenRows == {"bad"}
MCProjected == [r \in MCRow |-> IF r = "r1" THEN "r3" ELSE r]
MCPadded == [r \in MCRow |-> r]
MCJoinValue == [r \in MCRow |-> IF r = "r1" THEN 1 ELSE 2]

\* The condition is about n, joins are on id.
MCColumn == {"id", "n", "m", "suffixed"}
MCConditionColumns == {"n"}
MCJoinColumns == {"id"}

Usual(rows) == DataFrame({"id", "n"}, rows)

\* Frames under the keys x and y; z is never there at first.
Store(x, y) == [k \in {"x", "y"} |-> IF k = "x" THEN x ELSE y]
GoodStore == Store(Usual(<<"r1", "r2">>), Usual(<<"r2", "r3">>))
BadStore == Store(Usual(<<"r3", "bad">>), Usual(<<"r2">>))
EmptyStore == Store(Usual(<<>>), Usual(<<"r3">>))
NoColumns == Store(DataFrame({}, <<>>), Usual(<<"r3">>))
OtherStore == Store(Usual(<<"r1", "r2">>), DataFrame({"id", "m"}, <<"r3">>))
NoY == [k \in {"x"} |-> Usual(<<"r1">>)]

E(s, t) == [source |-> s, target |-> t, port |-> "none"]
P(s, t, p) == [source |-> s, target |-> t, port |-> p]

NoNames == [c \in {} |-> c]
N(kind, key, how, select, rename, drop) ==
    [kind |-> kind, key |-> key, how |-> how,
     select |-> select, rename |-> rename, drop |-> drop]

In(k) == N("input", k, "inner", {}, NoNames, {})
Out(k) == N("output", k, "inner", {}, NoNames, {})
JoinOf(how) == N("join", "x", how, {}, NoNames, {})
Change(select, rename, drop) == N("transform", "x", "inner", select, rename, drop)
Op(kind) ==
    IF kind = "transform" THEN Change({"n"}, NoNames, {})
    ELSE N(kind, "x", "inner", {}, NoNames, {})

\* Column m is in no usual frame.
RenameN == Change({}, [c \in {"n"} |-> "m"], {})
DropM == Change({}, NoNames, {"m"})
RenameAndDrop == Change({}, [c \in {"n"} |-> "m"], {"m"})
SelectM == Change({"m"}, NoNames, {})

G(ns, es, d) == [nodes |-> ns, edges |-> es, def |-> d]

-----------------------------------------------------------------------------
\* Two inputs into one node, over every pair of ports and sources, then an
\* output: joins by name and by position, unions, colliding ports.
Fan(s1, p1, s2, p2, mid) ==
    G(<<"d", "b", "c", "a">>, <<P(s1, "c", p1), P(s2, "c", p2), E("c", "d")>>,
      [a |-> In("x"), b |-> In("y"), c |-> mid, d |-> Out("z")])

Fans ==
    {Fan(s[1], p1, s[2], p2, mid) :
        s \in {<<"a", "b">>, <<"b", "a">>, <<"a", "a">>},
        p1 \in MCPort, p2 \in MCPort,
        mid \in {Op("join"), JoinOf("left"), Op("union"), Op("filter")}}

\* The other kinds of joins, one that pandas does not know among them.
Joins ==
    {Fan(s[1], "none", s[2], "none", JoinOf(how)) :
        s \in {<<"a", "b">>, <<"b", "a">>},
        how \in {"right", "outer", "semi", "sideways"}}

\* What one node makes of its columns and another of what is left.
Chain(op1, op2) ==
    G(<<"a", "b", "c", "d">>, <<E("a", "b"), E("b", "c"), E("c", "d")>>,
      [a |-> In("x"), b |-> op1, c |-> op2, d |-> Out("z")])

Changes ==
    {Chain(op1, op2) : op1 \in {RenameN, DropM, RenameAndDrop, SelectM},
                       op2 \in {Op("filter"), Op("transform")}}

\* Three edges into a union, some of them with the name another one gets by
\* its position.
Triples ==
    {G(<<"a", "b", "c", "d">>, <<P("a", "c", p1), P("b", "c", p2), P("a", "c", p3), E("c", "d")>>,
       [a |-> In("x"), b |-> In("y"), c |-> Op("union"), d |-> Out("z")]) :
        p1, p2, p3 \in {"none", "input_0", "input_1"}}

\* A diamond over one input, whose branches filter and project.
Diamond ==
    G(<<"e", "a", "c", "b", "d">>,
      <<E("a", "c"), E("a", "b"), E("b", "d"), E("c", "d"), E("d", "e")>>,
      [a |-> In("x"), b |-> Op("filter"), c |-> Op("transform"),
       d |-> Op("union"), e |-> Out("z")])

\* An output in the middle of a chain, and a second one at its end.
TwoOutputs ==
    G(<<"a", "b", "c", "d">>, <<E("a", "b"), E("b", "c"), E("c", "d")>>,
      [a |-> In("x"), b |-> Out("z"), c |-> Op("filter"), d |-> Out("y")])

\* A row more in x with every run.
Accumulate ==
    G(<<"a", "b", "c", "d">>, <<E("a", "c"), E("b", "c"), E("c", "d")>>,
      [a |-> In("x"), b |-> In("y"), c |-> Op("union"), d |-> Out("x")])

\* No edge orders the write of z before its read.
Unordered(ns) ==
    G(ns, <<E("a", "b"), E("c", "d")>>,
      [a |-> In("x"), b |-> Out("z"), c |-> In("z"), d |-> Out("y")])

\* Two outputs under one key.
SameKey ==
    G(<<"a", "b", "c", "d">>, <<E("a", "c"), E("b", "d")>>,
      [a |-> In("x"), b |-> In("y"), c |-> Out("z"), d |-> Out("z")])

\* Nodes without the inputs they need, an input fed by an edge, a bad key, a
\* repeated id, an edge to nowhere, a cycle, no node at all.
Faulty ==
    {G(<<"a", "b">>, <<>>, [a |-> In("x"), b |-> Op("transform")]),
     G(<<"a", "b">>, <<E("a", "b")>>, [a |-> In("x"), b |-> In("y")]),
     G(<<"a", "b">>, <<E("a", "b")>>, [a |-> In("x"), b |-> Out("/")]),
     G(<<"a", "b", "a">>, <<E("a", "b")>>, [a |-> In("y"), b |-> Out("z")]),
     G(<<"a", "b">>, <<E("a", "e")>>, [a |-> In("x"), b |-> Out("z")]),
     G(<<"a", "b", "c">>, <<E("a", "b"), E("b", "c"), E("c", "b")>>,
       [a |-> In("x"), b |-> Op("union"), c |-> Op("filter")]),
     G(<<>>, <<>>, [x \in {} |-> In("x")])}

Crafted ==
    {Diamond, TwoOutputs, SameKey, Accumulate,
     Unordered(<<"a", "b", "c", "d">>), Unordered(<<"c", "b", "a", "d">>)} \cup Faulty

MCGraphs == Fans \cup Joins \cup Changes \cup Triples \cup Crafted
MCCraftedGraphs == Crafted

Run == [op |-> "run", target |-> "a", limit |-> 0]
PreviewOf(t, l) == [op |-> "preview", target |-> t, limit |-> l]

MCCalls == {Run, PreviewOf("c", 1), PreviewOf("d", 3), PreviewOf("e", 2)}
MCNegativeCalls == {PreviewOf("a", -1), PreviewOf("c", -1), PreviewOf("d", 2)}
MCStores == {GoodStore, BadStore, EmptyStore, NoColumns, OtherStore, NoY}
MCGoodStores == {GoodStore, BadStore}

=============================================================================
