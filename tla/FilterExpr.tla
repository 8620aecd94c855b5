----------------------------- MODULE FilterExpr -----------------------------
(***************************************************************************)
(* Filter conditions (ast_compiler.py): what the validator lets through,   *)
(* what the pandas evaluator and the Spark compiler make of it, and what   *)
(* the condition means in Python, whose syntax it is written in.           *)
(*                                                                         *)
(* A condition is a tree of records, and what is computed of a tree is a   *)
(* function on Exprs of what is computed of its parts.  Columns hold       *)
(* numbers or booleans; booleans are 0 and 1.  Null is a missing value:    *)
(* NaN in a float column of pandas, null in Spark, which is how files and  *)
(* Arrow hand it over.  Strings compare as the numbers do; None as a       *)
(* literal, a list that is not the right side of "in", and "in" a column   *)
(* are left out.                                                           *)
(***************************************************************************)
EXTENDS Integers, Sequences, FiniteSets, SequencesExt

CONSTANTS
    Columns,    \* column -> its pandas type: "Int", "Float" or "Bool"
    Null,       \* a missing value
    Height      \* expression -> its height as a tree, a finite one (ast.parse)

Exprs == DOMAIN Height

CompareOps == {"==", "!=", "<", "<=", ">", ">=", "in", "not in"}

-----------------------------------------------------------------------------
(* Validation *)

Parts(e) ==
    CASE e.node = "bool" -> e.values
      [] e.node = "compare" -> <<e.left>> \o e.comparators
      [] e.node = "unary" -> <<e.operand>>
      [] OTHER -> <<>>

\* What ast.parse makes of a condition.
WellFormed(e) ==
    CASE e.node = "const" ->
           /\ e.type \in {"int", "bool"}
           /\ e.value \in IF e.type = "bool" THEN {0, 1} ELSE Int
      [] e.node = "list" -> e.elts \in Seq(Exprs)
      [] e.node = "bool" -> e.op \in {"and", "or"} /\ e.values \in Seq(Exprs) /\ Len(e.values) > 0
      [] e.node = "compare" ->
           /\ e.left \in Exprs
           /\ e.comparators \in Seq(Exprs) /\ Len(e.comparators) > 0
           /\ e.ops \in Seq(STRING) /\ Len(e.ops) = Len(e.comparators)
      [] e.node = "unary" -> e.operand \in Exprs
      [] OTHER -> TRUE

ASSUME ExprAssumption ==
    /\ Height \in [Exprs -> Nat]
    /\ \A e \in Exprs : WellFormed(e) /\ \A i \in DOMAIN Parts(e) : Height[Parts(e)[i]] < Height[e]
    /\ \A c \in DOMAIN Columns : Columns[c] \in {"Int", "Float", "Bool"}
    /\ Null \notin Int

\* Deviation: only the left side of a comparison is visited.
NodesButComparators(e) ==
    LET nodes[x \in Exprs] ==
            LET visited == IF x.node = "compare" THEN {1} ELSE DOMAIN Parts(x)
            IN  {x} \cup UNION {nodes[Parts(x)[i]] : i \in visited}
    IN  nodes[e]

\* The nodes the validator visits.
Nodes(e) ==
    LET nodes[x \in Exprs] == {x} \cup UNION {nodes[Parts(x)[i]] : i \in DOMAIN Parts(x)}
    IN  nodes[e]

ConstantsOnly(e) == \A i \in DOMAIN e.elts : e.elts[i].node = "const"

Allowed(e) ==
    CASE e.node = "name" -> e.id \in DOMAIN Columns
      [] e.node = "list" -> ConstantsOnly(e)
      [] e.node = "compare" -> \A i \in DOMAIN e.ops : e.ops[i] \in CompareOps
      [] e.node = "unary" -> e.op = "not"
      [] OTHER -> e.node \in {"const", "bool"}

Valid(e) == \A x \in Nodes(e) : Allowed(x)

-----------------------------------------------------------------------------
(* What both evaluators use: values with their type, row by row. *)

Value(type, v) == [type |-> type, v |-> v]

TypeError == Value("type error", 0)
Unsupported == Value("unsupported", 0)
IsError(a) == a.type \in {"type error", "unsupported"}

FirstError(vals) == vals[Min({i \in DOMAIN vals : IsError(vals[i])})]
SomeError(vals) == \E i \in DOMAIN vals : IsError(vals[i])

Missing(a) == a.type # "list" /\ a.v = Null

Truth(p) == IF p THEN 1 ELSE 0

Literals(e) == {e.elts[i].value : i \in DOMAIN e.elts}

\* A comparison of two values, or of a value with the set of a list.
Holds(op, a, b) ==
    CASE op = "==" -> a = b
      [] op = "!=" -> a # b
      [] op = "<"  -> a < b
      [] op = "<=" -> a <= b
      [] op = ">"  -> a > b
      [] op = ">=" -> a >= b
      [] op = "in" -> a \in b
      [] op = "not in" -> a \notin b

Comparable(op, l, r) == l.type # "list" /\ (r.type = "list" <=> op \in {"in", "not in"})

\* Deviation: left stays where it was.
PairsWithFirst(sides) == [i \in 1 .. Len(sides) - 1 |-> <<sides[1], sides[i + 1]>>]

\* The pairs a chain a < b < c compares.
Pairs(sides) == [i \in 1 .. Len(sides) - 1 |-> <<sides[i], sides[i + 1]>>]

-----------------------------------------------------------------------------
(***************************************************************************)
(* pandas.  "Bool", "Int" and "Float" are the types of Series, "bool" and  *)
(* "int" of Python's scalars.                                              *)
(***************************************************************************)
IsInt(a) == a.type \in {"Int", "int"}
IsSeries(a) == a.type \in {"Bool", "Int", "Float"}
IsScalar(a) == a.type \in {"bool", "int"}

\* Integers in two's complement, as the bits that are set: 1, 2 and 4 are
\* enough for -4 .. 3.
Bits(n) == {bit \in {1, 2, 4} : (n \div bit) % 2 = 1}
FromBits(S) ==
    (IF 4 \in S THEN -4 ELSE 0) + (IF 2 \in S THEN 2 ELSE 0) + (IF 1 \in S THEN 1 ELSE 0)

\* & and | work bit by bit, and a Series of floats has neither: where a
\* number is missing pandas lets it pass and takes it for False.
Bitwise_(op, a, b) ==
    IF IsError(a) \/ "list" \in {a.type, b.type} THEN TypeError
    ELSE IF a.v = Null \/ b.v = Null THEN Value("Bool", 0)
    ELSE IF "Float" \in {a.type, b.type} THEN TypeError
    ELSE LET bits == IF op = "and" THEN Bits(a.v) \cap Bits(b.v) ELSE Bits(a.v) \cup Bits(b.v)
             v == FromBits(bits)
         IN  IF ~IsSeries(a) /\ ~IsSeries(b)
             THEN Value(IF IsInt(a) \/ IsInt(b) THEN "int" ELSE "bool", v)
             ELSE IF IsInt(a) /\ IsInt(b) THEN Value("Int", v)
             ELSE Value("Bool", Truth(v # 0))

\* values[0] & values[1] & ..., from the left.
Joined(op, vals) ==
    LET upTo[i \in DOMAIN vals] == IF i = 1 THEN vals[1] ELSE Bitwise_(op, upTo[i - 1], vals[i])
    IN  upTo[Len(vals)]

\* A missing number is different from everything, and in no list.
ComparePandas(op, l, r) ==
    IF ~Comparable(op, l, r) THEN TypeError
    ELSE Value("Bool", Truth(IF Missing(l) \/ Missing(r) THEN op \in {"!=", "not in"}
                             ELSE Holds(op, l.v, r.v)))

\* ~ on a scalar is Python's own: ~True is -2.
Invert(a) ==
    CASE a.type = "Bool" -> Value("Bool", 1 - a.v)
      [] a.type = "Int" -> Value("Int", -a.v - 1)
      [] IsScalar(a) -> Value("int", -a.v - 1)
      [] OTHER -> TypeError

All(vals) == IF SomeError(vals) THEN FirstError(vals)
           ELSE Value("Bool", Truth(\A i \in DOMAIN vals : vals[i].v = 1))

\* What a node makes of the values of its parts.
PandasOf(e, row, vals) ==
    CASE SomeError(vals) -> FirstError(vals)
      [] ~SomeError(vals) /\ e.node = "name" /\ e.id \in DOMAIN Columns ->
           Value(Columns[e.id], row[e.id])
      [] ~SomeError(vals) /\ e.node = "const" -> Value(e.type, e.value)
      [] ~SomeError(vals) /\ e.node = "list" /\ ConstantsOnly(e) -> Value("list", Literals(e))
      [] ~SomeError(vals) /\ e.node = "bool" -> Joined(e.op, vals)
      [] ~SomeError(vals) /\ e.node = "compare" ->
           LET pairs == Pairs(vals)
           IN  All([i \in DOMAIN pairs |-> ComparePandas(e.ops[i], pairs[i][1], pairs[i][2])])
      [] ~SomeError(vals) /\ e.node = "unary" -> Invert(vals[1])
      [] OTHER -> Unsupported

EvalPandas(e, row) ==
    LET eval[x \in Exprs] == PandasOf(x, row, [i \in DOMAIN Parts(x) |-> eval[Parts(x)[i]]])
    IN  eval[e]

\* evaluate_pandas and frame[mask]: a scalar is one truth for all rows, and
\* a Series that is not of booleans is taken for a list of columns.
MaskPandas(e, row) ==
    LET a == EvalPandas(e, row)
    IN  CASE IsError(a) -> "fails"
          [] a.type = "Bool" -> IF a.v = 1 THEN "kept" ELSE "dropped"
          [] IsScalar(a) -> IF a.v # 0 THEN "kept" ELSE "dropped"
          [] OTHER -> "fails"

-----------------------------------------------------------------------------
(***************************************************************************)
(* Spark.  Column expressions are "boolean" or "number"; a missing value   *)
(* makes a comparison unknown, & and | are those of three-valued logic.    *)
(***************************************************************************)
SparkType(t) == IF t \in {"Bool", "bool"} THEN "boolean" ELSE "number"

Junction(op, vals) ==
    IF \E i \in DOMAIN vals : vals[i].type # "boolean" THEN TypeError
    ELSE LET decisive == IF op = "and" THEN 0 ELSE 1
             vs == {vals[i].v : i \in DOMAIN vals}
         IN  Value("boolean", IF decisive \in vs THEN decisive
                              ELSE IF Null \in vs THEN Null ELSE 1 - decisive)

CompareSpark(op, l, r) ==
    IF ~Comparable(op, l, r) THEN TypeError
    ELSE Value("boolean", IF Missing(l) \/ Missing(r) THEN Null ELSE Truth(Holds(op, l.v, r.v)))

SparkOf(e, row, vals) ==
    CASE SomeError(vals) -> FirstError(vals)
      [] ~SomeError(vals) /\ e.node = "name" /\ e.id \in DOMAIN Columns ->
           Value(SparkType(Columns[e.id]), row[e.id])
      [] ~SomeError(vals) /\ e.node = "const" -> Value(SparkType(e.type), e.value)
      [] ~SomeError(vals) /\ e.node = "list" /\ ConstantsOnly(e) -> Value("list", Literals(e))
      [] ~SomeError(vals) /\ e.node = "bool" -> Junction(e.op, vals)
      [] ~SomeError(vals) /\ e.node = "compare" ->
           LET pairs == Pairs(vals)
               cs == [i \in DOMAIN pairs |-> CompareSpark(e.ops[i], pairs[i][1], pairs[i][2])]
           IN  IF SomeError(cs) THEN FirstError(cs) ELSE Junction("and", cs)
      [] ~SomeError(vals) /\ e.node = "unary" ->
           IF vals[1].type # "boolean" THEN TypeError
           ELSE Value("boolean", IF vals[1].v = Null THEN Null ELSE 1 - vals[1].v)
      [] OTHER -> Unsupported

EvalSpark(e, row) ==
    LET eval[x \in Exprs] == SparkOf(x, row, [i \in DOMAIN Parts(x) |-> eval[Parts(x)[i]]])
    IN  eval[e]

\* df.filter keeps the rows the condition is true for.
MaskSpark(e, row) ==
    LET a == EvalSpark(e, row)
    IN  CASE a.type # "boolean" -> "fails"
          [] a.v = 1 -> "kept"
          [] OTHER -> "dropped"

-----------------------------------------------------------------------------
(***************************************************************************)
(* The meaning of a condition: its truth as an expression of Python, for a *)
(* row without missing values.                                             *)
(***************************************************************************)
Operand(e, row) ==
    CASE e.node = "name" -> row[e.id]
      [] e.node = "const" -> e.value
      [] e.node = "list" -> Literals(e)

TruthOf(e, row, ts) ==
    Truth(CASE e.node = "bool" /\ e.op = "and" -> \A i \in DOMAIN ts : ts[i] = 1
            [] e.node = "bool" /\ e.op = "or"  -> \E i \in DOMAIN ts : ts[i] = 1
            [] e.node = "compare" ->
                 \A i \in DOMAIN e.ops :
                     LET left == IF i = 1 THEN e.left ELSE e.comparators[i - 1]
                     IN  Holds(e.ops[i], Operand(left, row), Operand(e.comparators[i], row))
            [] e.node = "unary" -> ts[1] = 0
            [] OTHER -> Operand(e, row) # 0)

Means(e, row) ==
    LET truth[x \in Exprs] == TruthOf(x, row, [i \in DOMAIN Parts(x) |-> truth[Parts(x)[i]]])
    IN  truth[e] = 1

\* Conditions: comparisons of numbers, boolean columns and literals, and
\* what and, or and not make of them.
IsNumber(e) ==
    \/ e.node = "const" /\ e.type = "int"
    \/ e.node = "name" /\ e.id \in DOMAIN Columns /\ Columns[e.id] # "Bool"

IsTruth(e) ==
    CASE e.node = "name" -> e.id \in DOMAIN Columns /\ Columns[e.id] = "Bool"
      [] e.node = "const" -> e.type = "bool"
      [] e.node = "compare" ->
           /\ IsNumber(e.left)
           /\ \A i \in DOMAIN e.ops :
                IF e.ops[i] \in {"in", "not in"}
                THEN i = Len(e.ops) /\ e.comparators[i].node = "list"
                ELSE IsNumber(e.comparators[i])
      [] OTHER -> e.node \in {"bool", "unary"}

IsCondition(e) ==
    /\ Valid(e)
    /\ IsTruth(e)
    /\ \A x \in Nodes(e) :
         x.node \in {"bool", "unary"} => \A i \in DOMAIN Parts(x) : IsTruth(Parts(x)[i])

\* No column in it: pandas never meets a Series.
IsLiteral(e) == \A x \in Nodes(e) : x.node \in {"const", "bool", "unary"}

NegatesLiteral(e) == \E x \in Nodes(e) : x.node = "unary" /\ IsLiteral(x)

\* Nothing in it turns an unknown into a true.
Positive(e) ==
    \A x \in Nodes(e) :
        /\ x.node # "unary"
        /\ x.node = "compare" => \A i \in DOMAIN x.ops : x.ops[i] \notin {"!=", "not in"}

=============================================================================
