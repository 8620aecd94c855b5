------------------------------- MODULE MCKahn -------------------------------
(***************************************************************************)
(* Small graphs for Kahn.                                                  *)
(***************************************************************************)
EXTENDS Kahn, SequencesExt

MCId == {"a", "b", "c", "d"}
MCPort == {"NoPort"}

Arc(p) == [source |-> p[1], target |-> p[2], port |-> "NoPort"]
Arcs(S) == {Arc(p) : p \in S \X S}

\* Lists of nodes with another order, a repeated id, a missing id, none.
NodeLists ==
    {<<"a", "b", "c">>, <<"c", "a">>, <<"a", "b", "a">>, <<"b", "b">>, <<>>}

\* Every list of at most three edges over three ids, self loops, parallel
\* edges and unknown endpoints included.
EdgeLists == BoundedSeq(Arcs({"a", "b", "c"}), 3)

\* Every simple graph over three nodes, and every sub-graph of a diamond
\* with a shortcut and a back edge.
Simple3 == {SetToSeq(S) : S \in SUBSET {e \in Arcs({"a", "b", "c"}) : e.source # e.target}}
Diamond == {Arc(p) : p \in {<<"a", "b">>, <<"a", "c">>, <<"b", "d">>, <<"c", "d">>,
                            <<"a", "d">>, <<"d", "b">>, <<"b", "c">>}}
Diamonds == {SetToSeq(S) : S \in SUBSET Diamond}

MCGraphs ==
    [nodes : NodeLists, edges : EdgeLists]
        \cup [nodes : {<<"a", "b", "c">>, <<"c", "b", "a">>}, edges : Simple3]
        \cup [nodes : {<<"a", "b", "c", "d">>, <<"d", "c", "b", "a">>}, edges : Diamonds]

=============================================================================
