--------------------------- MODULE MCCodeExecutor ---------------------------
(***************************************************************************)
(* Frames of up to two rows, and conditions and programs for CodeExecutor: *)
(* x is a column of floats with missing values, n one of integers, b one   *)
(* of booleans.                                                            *)
(***************************************************************************)
EXTENDS CodeExecutor, Capacity

MCColumns == [x |-> "Float", n |-> "Int", b |-> "Bool"]

MCRows == [x : {0, 1, Null}, n : {0, 1, 2}, b : {0, 1}]

\* Every row alone, and pairs in which a misfit or a missing value may come
\* second.
MCDatasets ==
    {<<row>> : row \in MCRows}
        \cup {<<[x |-> 1, n |-> 1, b |-> 1], row>> : row \in [x : {0, Null}, n : {2}, b : {0, 1}]}

Name(id) == [node |-> "name", id |-> id]
Const(type, v) == [node |-> "const", type |-> type, value |-> v]
List(vs) == [node |-> "list", elts |-> [i \in DOMAIN vs |-> Const("int", vs[i])]]
BoolOp(op, es) == [node |-> "bool", op |-> op, values |-> es]
Compare(left, ops, es) == [node |-> "compare", left |-> left, ops |-> ops, comparators |-> es]
Not(e) == [node |-> "unary", op |-> "not", operand |-> e]
Call == [node |-> "call"]

Comparisons ==
    {Compare(l, <<op>>, <<r>>) :
        l \in {Name("x"), Name("n"), Const("int", 1)}, op \in CompareOps \ {"in", "not in"},
        r \in {Name("n"), Const("int", 1)}}
        \cup {Compare(Name(c), <<op>>, <<List(<<0, 2>>)>>) : c \in {"x", "n"}, op \in {"in", "not in"}}

Chains ==
    {Compare(Const("int", 0), <<op1, op2>>, <<Name(c), Const("int", 2)>>) :
        op1, op2 \in {"<", "<=", "!="}, c \in {"x", "n"}}
        \cup {Compare(Const("int", 0), <<"<", "in">>, <<Name("x"), List(<<1>>)>>)}

Few ==
    {Compare(Name("x"), <<">">>, <<Const("int", 0)>>), Compare(Name("n"), <<"!=">>, <<Const("int", 1)>>),
     Name("b"), Const("bool", 1)}

Combined ==
    {BoolOp(op, <<e1, e2>>) : op \in {"and", "or"}, e1, e2 \in Few}
        \cup {BoolOp("or", <<e, Not(Name("b")), Const("bool", 0)>>) : e \in Few}

Negated ==
    {Not(e) : e \in Comparisons \cup Few}
        \cup {Not(BoolOp(op, <<e1, e2>>)) : op \in {"and", "or"}, e1, e2 \in Few}

\* What types do not fit, and what is refused: numbers in place of
\* conditions, other syntax, unknown columns and operators, anywhere.
Odd ==
    {Name("x"), Name("n"), Const("int", 2), Not(Name("x")), Not(Name("n")), Not(Const("int", 0)),
     BoolOp("and", <<Name("n"), Name("b")>>), BoolOp("or", <<Name("n"), Const("int", 1)>>),
     BoolOp("and", <<Name("x"), Name("b")>>), Compare(Name("n"), <<"in">>, <<Name("b")>>),
     Compare(Name("n"), <<"==">>, <<Not(Name("b"))>>)}
Refused ==
    {Call, Not(Call), Name("z"), BoolOp("or", <<Name("b"), Call>>),
     Compare(Name("n"), <<"<">>, <<Name("z")>>), Compare(Name("n"), <<"<", "<">>, <<Const("int", 1), Call>>),
     Compare(Name("n"), <<"is">>, <<Const("int", 1)>>),
     [node |-> "unary", op |-> "-", operand |-> Const("int", 1)],
     Compare(Name("n"), <<"in">>, <<[node |-> "list", elts |-> <<Name("z")>>]>>)}

MCConditions == Comparisons \cup Chains \cup Few \cup Combined \cup Negated \cup Odd \cup Refused

\* With the parts of all these, and their heights.
MCExprs ==
    MCConditions
        \cup {Name(c) : c \in {"x", "n", "b", "z"}} \cup {Const("int", v) : v \in 0 .. 2}
        \cup {Const("bool", 0), List(<<0, 2>>), List(<<1>>), [node |-> "list", elts |-> <<Name("z")>>]}

MCHeight[e \in MCExprs] ==
    IF Parts(e) = <<>> THEN 0 ELSE 1 + Max({MCHeight[Parts(e)[i]] : i \in DOMAIN Parts(e)})

MCPrograms == Program
MCLimits == {-1, 1}

\* The theorems of ExecutorProofs on sizes and durations around the bounds.
ASSUME CapacitySample ==
    \A rows \in {0, RowThreshold - 1, RowThreshold}, ms \in {0, 1, 2, 999, 1000, 1001, 5000},
      mb \in {0, 1, 9, 10, 11, MemoryCeiling - 1, MemoryCeiling} :
        EvaluateTier("auto", rows, mb) = Tier0 =>
            /\ WithinBounds(mb)
            /\ EmbeddedUnits(mb, ms) + 505 <= SparkEquivalent(ms)

=============================================================================
