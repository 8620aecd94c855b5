---------------------------- MODULE MCSparkRunner ----------------------------
(***************************************************************************)
(* Small pipelines for SparkRunner: those of the pandas runner whose edges *)
(* route differently, and some on which laziness shows.                    *)
(***************************************************************************)
EXTENDS MCPipelineRunner, SparkRunner

\* A misfit in one branch, a write in another: what is written before the
\* plan with the misfit is evaluated.
TwoBranches ==
    G(<<"a", "b", "c", "d", "e">>, <<E("a", "b"), E("b", "d"), E("c", "e")>>,
      [a |-> In("x"), b |-> Op("filter"), c |-> In("y"), d |-> Out("z"), e |-> Out("w")])

\* Branches with the same and with different columns.
SparkDiamond(op1, op2) ==
    G(<<"a", "b", "c", "d", "e">>,
      <<E("a", "b"), E("a", "c"), E("b", "d"), E("c", "d"), E("d", "e")>>,
      [a |-> In("x"), b |-> op1, c |-> op2, d |-> Op("union"), e |-> Out("z")])

\* A join by name with a third input, which has a misfit.
ThirdInput ==
    G(<<"a", "b", "c", "d", "e">>,
      <<E("a", "b"), P("c", "d", "left"), P("c", "d", "right"), E("b", "d"), E("d", "e")>>,
      [a |-> In("x"), b |-> Op("filter"), c |-> In("y"), d |-> Op("join"), e |-> Out("z")])

SparkFans ==
    {Fan(s[1], p[1], s[2], p[2], mid) :
        s \in {<<"a", "b">>, <<"b", "a">>},
        p \in {<<"none", "none">>, <<"right", "left">>, <<"left", "none">>, <<"left", "left">>},
        mid \in {Op("join"), JoinOf("left"), Op("union"), Op("filter")}}

\* Two operations one after the other, whose misfits may stay unnoticed until
\* an output evaluates both.
SparkChains ==
    {Chain(op1, op2) :
        op1 \in {Op("filter"), Op("transform"), RenameN, DropM, SelectM},
        op2 \in {Op("filter"), Op("transform"), RenameN, DropM}}

\* Two inputs into one node, then an operation on what it makes of them.
Then(mid, op) ==
    G(<<"a", "b", "c", "d", "e">>, <<E("a", "c"), E("b", "c"), E("c", "d"), E("d", "e")>>,
      [a |-> In("x"), b |-> In("y"), c |-> mid, d |-> op, e |-> Out("z")])

SparkPairs ==
    {Then(mid, op) :
        mid \in {Op("union")} \cup {JoinOf(how) : how \in {"inner", "outer", "semi", "anti", "sideways"}},
        op \in {Op("filter"), DropM, Op("transform")}}

MCSparkGraphs ==
    Crafted \cup SparkFans \cup SparkChains \cup SparkPairs \cup {TwoBranches, ThirdInput}
        \cup {SparkDiamond(o1, o2) : o1, o2 \in {Op("filter"), Op("transform"), DropM}}

MCSparkCalls ==
    {Run, PreviewOf("b", 1), PreviewOf("c", 0), PreviewOf("c", 1), PreviewOf("d", 3), PreviewOf("c", -1)}

\* A misfit at the front and one behind a row the condition keeps.
MCSparkStores ==
    {GoodStore, BadStore, EmptyStore, NoColumns, OtherStore, NoY,
     Store(Usual(<<"r1", "bad">>), Usual(<<"r2", "r3">>))}

=============================================================================
