--------------------------- MODULE ExecutorProofs ---------------------------
(***************************************************************************)
(* Proofs about CodeExecutor, for every frame, program and condition: the  *)
(* caller's frame is never touched and an answer is there at the end; what *)
(* the validator of conditions lets through, both evaluators know; and a   *)
(* condition means in pandas and in Spark what it means in Python.  And what*)
(* the capacity tiers the executor charges its runs to promise, for        *)
(* workloads of every size.                                                *)
(***************************************************************************)
EXTENDS CodeExecutor, Capacity, FrameProofs

-----------------------------------------------------------------------------
(***************************************************************************)
(* Trees: induction over expressions, on sets, and the steps of the        *)
(* recursive functions on them.                                            *)
(***************************************************************************)

\* The parts of an expression are expressions.
LEMMA PartsTyped ==
    ASSUME NEW e \in Exprs
    PROVE  /\ Parts(e) \in Seq(Exprs)
           /\ \A i \in DOMAIN Parts(e) :
                /\ Parts(e)[i] \in Exprs
                /\ Height[Parts(e)[i]] \in Nat /\ Height[e] \in Nat
                /\ Height[Parts(e)[i]] < Height[e]
<1>1. WellFormed(e)
  BY ExprAssumption
<1>2. CASE e.node = "bool"
  <2>1. Parts(e) \in Seq(Exprs)
    BY <1>1, <1>2 DEF WellFormed, Parts
  <2> QED BY <2>1, ExprAssumption
<1>3. CASE e.node = "compare"
  <2>1. e.left \in Exprs /\ e.comparators \in Seq(Exprs)
    BY <1>1, <1>3 DEF WellFormed
  <2>2. Parts(e) = <<e.left>> \o e.comparators /\ <<e.left>> \in Seq(Exprs)
    BY <1>3, <2>1 DEF Parts
  <2>3. Parts(e) \in Seq(Exprs)
    BY <2>1, <2>2, ConcatType
  <2> QED BY <2>3, ExprAssumption
<1>4. CASE e.node = "unary"
  <2>1. Parts(e) = <<e.operand>> /\ e.operand \in Exprs
    BY <1>1, <1>4 DEF WellFormed, Parts
  <2>2. Parts(e) \in Seq(Exprs)
    BY <2>1
  <2> QED BY <2>2, ExprAssumption
<1>5. CASE e.node \notin {"bool", "compare", "unary"}
  <2>1. Parts(e) = <<>>
    BY <1>5 DEF Parts
  <2> QED BY <2>1
<1> QED BY <1>2, <1>3, <1>4, <1>5

\* Induction over trees, on sets: what has every expression whose parts it has
\* has them all.
LEMMA ExprInduction ==
    ASSUME NEW S,
           \A e \in Exprs : (\A i \in DOMAIN Parts(e) : Parts(e)[i] \in S) => e \in S
    PROVE  Exprs \subseteq S
<1> DEFINE T == {n \in Nat : \A e \in Exprs : Height[e] < n => e \in S}
<1>1. \A e \in Exprs : Height[e] \in Nat
  BY ExprAssumption
<1>2. 0 \in T
  BY <1>1
<1>3. ASSUME NEW n \in Nat, n \in T PROVE n + 1 \in T
  <2> SUFFICES ASSUME NEW e \in Exprs, Height[e] < n + 1 PROVE e \in S
    OBVIOUS
  <2>1. \A i \in DOMAIN Parts(e) : Parts(e)[i] \in Exprs /\ Height[Parts(e)[i]] < n
    BY <1>1, PartsTyped
  <2>2. \A i \in DOMAIN Parts(e) : Parts(e)[i] \in S
    BY <1>3, <2>1
  <2> QED BY <2>2
<1>4. Nat \subseteq T
  <2> HIDE DEF T
  <2> QED BY <1>2, <1>3, SetInduction
<1> SUFFICES ASSUME NEW e \in Exprs PROVE e \in S
  OBVIOUS
<1>5. Height[e] + 1 \in T /\ Height[e] < Height[e] + 1
  BY <1>1, <1>4
<1> QED BY <1>5

\* One function with the values of all the recursive functions over trees.
Folded(f, x, row) ==
    LET Each(k) == [i \in DOMAIN Parts(x) |-> f[Parts(x)[i]][k]]
    IN  <<PandasOf(x, row, Each(1)), SparkOf(x, row, Each(2)), TruthOf(x, row, Each(3)),
          {x} \cup UNION {f[Parts(x)[i]][4] : i \in DOMAIN Parts(x)}>>

\* There is one: heights below n have one for every n, by induction on n.
LEMMA FoldsExist ==
    ASSUME NEW row
    PROVE  \E f : \A x \in Exprs : f[x] = Folded(f, x, row)
<1> DEFINE Of(f, x) == Folded(f, x, row)
           Good(f, n) == \A x \in Exprs : Height[x] < n => f[x] = Of(f, x)
<1>0. \A x \in Exprs : Height[x] \in Nat
  BY ExprAssumption
<1>1. ASSUME NEW f, NEW g, NEW x \in Exprs,
             \A i \in DOMAIN Parts(x) : f[Parts(x)[i]] = g[Parts(x)[i]]
      PROVE  Of(f, x) = Of(g, x)
  <2>1. \A k : [i \in DOMAIN Parts(x) |-> f[Parts(x)[i]][k]] = [i \in DOMAIN Parts(x) |-> g[Parts(x)[i]][k]]
    BY <1>1
  <2>2. UNION {f[Parts(x)[i]][4] : i \in DOMAIN Parts(x)} = UNION {g[Parts(x)[i]][4] : i \in DOMAIN Parts(x)}
    BY <1>1
  <2> QED BY <2>1, <2>2 DEF Folded
<1> HIDE DEF Of
<1>2. ASSUME NEW f, NEW g, NEW m \in Nat, NEW n \in Nat, Good(f, m), Good(g, n)
      PROVE  \A x \in Exprs : Height[x] < m /\ Height[x] < n => f[x] = g[x]
  <2> DEFINE S == {x \in Exprs : Height[x] < m /\ Height[x] < n => f[x] = g[x]}
  <2>1. ASSUME NEW x \in Exprs, \A i \in DOMAIN Parts(x) : Parts(x)[i] \in S PROVE x \in S
    <3> SUFFICES ASSUME Height[x] < m, Height[x] < n PROVE f[x] = g[x]
      OBVIOUS
    <3>1. \A i \in DOMAIN Parts(x) : Height[Parts(x)[i]] < m /\ Height[Parts(x)[i]] < n
      BY PartsTyped, <1>0
    <3>2. Of(f, x) = Of(g, x)
      BY <1>1, <2>1, <3>1
    <3> QED BY <1>2, <3>2
  <2>2. Exprs \subseteq S
    <3> HIDE DEF S
    <3> QED BY <2>1, ExprInduction
  <2> QED BY <2>2
<1>3. \A n \in Nat : \E f : Good(f, n)
  <2> DEFINE T == {n \in Nat : \E f : Good(f, n)}
  <2>1. 0 \in T
    BY <1>0
  <2>2. ASSUME NEW n \in Nat, n \in T PROVE n + 1 \in T
    <3>1. PICK f : Good(f, n)
      BY <2>2
    <3> DEFINE g == [x \in Exprs |-> Of(f, x)]
    <3>2. ASSUME NEW x \in Exprs, Height[x] < n + 1 PROVE g[x] = Of(g, x)
      <4>1. \A i \in DOMAIN Parts(x) : Parts(x)[i] \in Exprs /\ Height[Parts(x)[i]] < n
        BY <1>0, <3>2, PartsTyped
      <4>2. \A i \in DOMAIN Parts(x) : g[Parts(x)[i]] = f[Parts(x)[i]]
        BY <3>1, <4>1
      <4>3. g[x] = Of(f, x)
        OBVIOUS
      <4> HIDE DEF g
      <4> QED BY <1>1, <4>2, <4>3
    <3>3. Good(g, n + 1)
      BY <3>2
    <3> HIDE DEF g, Good
    <3>4. \E h : Good(h, n + 1)
      BY <3>3
    <3> QED BY <3>4
  <2>3. Nat \subseteq T
    <3> HIDE DEF T
    <3> QED BY <2>1, <2>2, SetInduction
  <2> QED BY <2>3
<1> DEFINE Best(n) == CHOOSE f : Good(f, n)
           all == [x \in Exprs |-> Best(Height[x] + 1)[x]]
<1>4. \A n \in Nat : Good(Best(n), n)
  BY <1>3
<1> HIDE DEF Best
<1>5. ASSUME NEW x \in Exprs PROVE all[x] = Of(all, x)
  <2> DEFINE h == Best(Height[x] + 1)
  <2>1. Good(h, Height[x] + 1) /\ Height[x] + 1 \in Nat
    BY <1>0, <1>4
  <2>2. ASSUME NEW i \in DOMAIN Parts(x) PROVE all[Parts(x)[i]] = h[Parts(x)[i]]
    <3> DEFINE p == Parts(x)[i]
    <3>1. p \in Exprs /\ Height[p] \in Nat /\ Height[p] < Height[p] + 1 /\ Height[p] < Height[x] + 1
      BY <1>0, PartsTyped
    <3>2. Good(Best(Height[p] + 1), Height[p] + 1) /\ Height[p] + 1 \in Nat
      BY <1>4, <3>1
    <3>3. all[p] = Best(Height[p] + 1)[p]
      BY <3>1
    <3> HIDE DEF all, Good, p, h
    <3>4. Best(Height[p] + 1)[p] = h[p]
      BY <1>2, <2>1, <3>1, <3>2
    <3> QED BY <3>3, <3>4 DEF p
  <2>3. all[x] = h[x] /\ h[x] = Of(h, x)
    BY <1>0, <2>1
  <2> HIDE DEF all, h
  <2> QED BY <1>1, <2>2, <2>3
<1> HIDE DEF all
<1> QED BY <1>5 DEF Of

\* EvalPandas takes the steps PandasOf.
LEMMA PandasSteps ==
    ASSUME NEW row
    PROVE  \E eval : \A e \in Exprs :
             /\ EvalPandas(e, row) = eval[e]
             /\ eval[e] = PandasOf(e, row, [i \in DOMAIN Parts(e) |-> eval[Parts(e)[i]]])
<1> DEFINE Of(f, x) == PandasOf(x, row, [i \in DOMAIN Parts(x) |-> f[Parts(x)[i]]])
           Equation(f) == f = [x \in Exprs |-> Of(f, x)]
           eval == CHOOSE f : Equation(f)
<1>1. PICK all : \A x \in Exprs : all[x] = Folded(all, x, row)
  BY FoldsExist
<1> DEFINE f == [x \in Exprs |-> all[x][1]]
<1>2. ASSUME NEW x \in Exprs PROVE f[x] = Of(f, x)
  <2>1. \A i \in DOMAIN Parts(x) : f[Parts(x)[i]] = all[Parts(x)[i]][1]
    BY PartsTyped
  <2>2. [i \in DOMAIN Parts(x) |-> f[Parts(x)[i]]] = [i \in DOMAIN Parts(x) |-> all[Parts(x)[i]][1]]
    BY <2>1
  <2>3. f[x] = all[x][1] /\ all[x] = Folded(all, x, row)
    BY <1>1
  <2> HIDE DEF f
  <2> QED BY <2>2, <2>3 DEF Folded
<1>3. Equation(f)
  BY <1>2
<1>4. Equation(eval)
  BY <1>3
<1>5. \A e \in Exprs : EvalPandas(e, row) = eval[e]
  BY DEF EvalPandas
<1> HIDE DEF eval
<1>6. \A e \in Exprs : eval[e] = Of(eval, e)
  BY <1>4
<1> QED BY <1>5, <1>6

\* EvalSpark takes the steps SparkOf.
LEMMA SparkSteps ==
    ASSUME NEW row
    PROVE  \E eval : \A e \in Exprs :
             /\ EvalSpark(e, row) = eval[e]
             /\ eval[e] = SparkOf(e, row, [i \in DOMAIN Parts(e) |-> eval[Parts(e)[i]]])
<1> DEFINE Of(f, x) == SparkOf(x, row, [i \in DOMAIN Parts(x) |-> f[Parts(x)[i]]])
           Equation(f) == f = [x \in Exprs |-> Of(f, x)]
           eval == CHOOSE f : Equation(f)
<1>1. PICK all : \A x \in Exprs : all[x] = Folded(all, x, row)
  BY FoldsExist
<1> DEFINE f == [x \in Exprs |-> all[x][2]]
<1>2. ASSUME NEW x \in Exprs PROVE f[x] = Of(f, x)
  <2>1. \A i \in DOMAIN Parts(x) : f[Parts(x)[i]] = all[Parts(x)[i]][2]
    BY PartsTyped
  <2>2. [i \in DOMAIN Parts(x) |-> f[Parts(x)[i]]] = [i \in DOMAIN Parts(x) |-> all[Parts(x)[i]][2]]
    BY <2>1
  <2>3. f[x] = all[x][2] /\ all[x] = Folded(all, x, row)
    BY <1>1
  <2> HIDE DEF f
  <2> QED BY <2>2, <2>3 DEF Folded
<1>3. Equation(f)
  BY <1>2
<1>4. Equation(eval)
  BY <1>3
<1>5. \A e \in Exprs : EvalSpark(e, row) = eval[e]
  BY DEF EvalSpark
<1> HIDE DEF eval
<1>6. \A e \in Exprs : eval[e] = Of(eval, e)
  BY <1>4
<1> QED BY <1>5, <1>6

\* Means takes the steps TruthOf.
LEMMA TruthSteps ==
    ASSUME NEW row
    PROVE  \E eval : \A e \in Exprs :
             /\ Means(e, row) <=> eval[e] = 1
             /\ eval[e] = TruthOf(e, row, [i \in DOMAIN Parts(e) |-> eval[Parts(e)[i]]])
<1> DEFINE Of(f, x) == TruthOf(x, row, [i \in DOMAIN Parts(x) |-> f[Parts(x)[i]]])
           Equation(f) == f = [x \in Exprs |-> Of(f, x)]
           eval == CHOOSE f : Equation(f)
<1>1. PICK all : \A x \in Exprs : all[x] = Folded(all, x, row)
  BY FoldsExist
<1> DEFINE f == [x \in Exprs |-> all[x][3]]
<1>2. ASSUME NEW x \in Exprs PROVE f[x] = Of(f, x)
  <2>1. \A i \in DOMAIN Parts(x) : f[Parts(x)[i]] = all[Parts(x)[i]][3]
    BY PartsTyped
  <2>2. [i \in DOMAIN Parts(x) |-> f[Parts(x)[i]]] = [i \in DOMAIN Parts(x) |-> all[Parts(x)[i]][3]]
    BY <2>1
  <2>3. f[x] = all[x][3] /\ all[x] = Folded(all, x, row)
    BY <1>1
  <2> HIDE DEF f
  <2> QED BY <2>2, <2>3 DEF Folded
<1>3. Equation(f)
  BY <1>2
<1>4. Equation(eval)
  BY <1>3
<1>5. \A e \in Exprs : Means(e, row) <=> eval[e] = 1
  BY DEF Means
<1> HIDE DEF eval
<1>6. \A e \in Exprs : eval[e] = Of(eval, e)
  BY <1>4
<1> QED BY <1>5, <1>6

\* The nodes of a tree are its root and those of its parts.
LEMMA NodesStep ==
    \A e \in Exprs : Nodes(e) = {e} \cup UNION {Nodes(Parts(e)[i]) : i \in DOMAIN Parts(e)}
<1> DEFINE Of(f, x) == {x} \cup UNION {f[Parts(x)[i]] : i \in DOMAIN Parts(x)}
           Equation(f) == f = [x \in Exprs |-> Of(f, x)]
           eval == CHOOSE f : Equation(f)
<1>1. PICK all : \A x \in Exprs : all[x] = Folded(all, x, 0)
  BY FoldsExist
<1> DEFINE f == [x \in Exprs |-> all[x][4]]
<1>2. ASSUME NEW x \in Exprs PROVE f[x] = Of(f, x)
  <2>1. \A i \in DOMAIN Parts(x) : f[Parts(x)[i]] = all[Parts(x)[i]][4]
    BY PartsTyped
  <2>2. UNION {f[Parts(x)[i]] : i \in DOMAIN Parts(x)} = UNION {all[Parts(x)[i]][4] : i \in DOMAIN Parts(x)}
    BY <2>1
  <2>3. f[x] = all[x][4] /\ all[x] = Folded(all, x, 0)
    BY <1>1
  <2>4. all[x][4] = {x} \cup UNION {all[Parts(x)[i]][4] : i \in DOMAIN Parts(x)}
    <3> HIDE DEF f
    <3> QED BY <2>3 DEF Folded
  <2> HIDE DEF f
  <2> QED BY <2>2, <2>3, <2>4
<1>3. Equation(f)
  BY <1>2
<1>4. Equation(eval)
  BY <1>3
<1>5. \A e \in Exprs : Nodes(e) = eval[e]
  BY DEF Nodes
<1> HIDE DEF eval
<1>6. \A e \in Exprs : eval[e] = Of(eval, e)
  BY <1>4
<1> SUFFICES ASSUME NEW e \in Exprs
             PROVE  Nodes(e) = {e} \cup UNION {Nodes(Parts(e)[i]) : i \in DOMAIN Parts(e)}
  OBVIOUS
<1>7. \A i \in DOMAIN Parts(e) : Nodes(Parts(e)[i]) = eval[Parts(e)[i]]
  BY <1>5, PartsTyped
<1>8. Nodes(e) = {e} \cup UNION {eval[Parts(e)[i]] : i \in DOMAIN Parts(e)}
  BY <1>5, <1>6
<1> QED BY <1>7, <1>8

\* The root is a node, and so are those of the parts.
LEMMA NodesOfParts ==
    ASSUME NEW e \in Exprs
    PROVE  /\ e \in Nodes(e)
           /\ \A i \in DOMAIN Parts(e) : Nodes(Parts(e)[i]) \subseteq Nodes(e)
           /\ \A x \in Nodes(e) : x = e \/ \E i \in DOMAIN Parts(e) : x \in Nodes(Parts(e)[i])
  BY NodesStep

\* What is valid is allowed, with valid parts.
LEMMA ValidParts ==
    ASSUME NEW e \in Exprs, Valid(e)
    PROVE  Allowed(e) /\ \A i \in DOMAIN Parts(e) : Valid(Parts(e)[i])
  BY NodesOfParts DEF Valid

\* What the nodes of an expression say of its parts.
LEMMA NodesSay ==
    ASSUME NEW e \in Exprs
    PROVE  /\ IsCondition(e) => /\ Allowed(e) /\ IsTruth(e)
                                /\ e.node \in {"bool", "unary"} =>
                                     \A i \in DOMAIN Parts(e) : IsCondition(Parts(e)[i])
           /\ ~NegatesLiteral(e) => /\ e.node = "unary" => ~IsLiteral(e)
                                    /\ \A i \in DOMAIN Parts(e) : ~NegatesLiteral(Parts(e)[i])
           /\ IsLiteral(e) <=> /\ e.node \in {"const", "bool", "unary"}
                               /\ \A i \in DOMAIN Parts(e) : IsLiteral(Parts(e)[i])
           /\ Positive(e) => \A i \in DOMAIN Parts(e) : Positive(Parts(e)[i])
<1>1. IsCondition(e) => /\ Allowed(e) /\ IsTruth(e)
                        /\ e.node \in {"bool", "unary"} =>
                             \A i \in DOMAIN Parts(e) : IsCondition(Parts(e)[i])
  BY NodesOfParts, ValidParts DEF IsCondition
<1>2. ~NegatesLiteral(e) => /\ e.node = "unary" => ~IsLiteral(e)
                            /\ \A i \in DOMAIN Parts(e) : ~NegatesLiteral(Parts(e)[i])
  BY NodesOfParts DEF NegatesLiteral
<1>3. IsLiteral(e) <=> /\ e.node \in {"const", "bool", "unary"}
                       /\ \A i \in DOMAIN Parts(e) : IsLiteral(Parts(e)[i])
  BY NodesOfParts DEF IsLiteral
<1>4. Positive(e) => \A i \in DOMAIN Parts(e) : Positive(Parts(e)[i])
  BY NodesOfParts DEF Positive
<1> QED BY <1>1, <1>2, <1>3, <1>4

-----------------------------------------------------------------------------
(***************************************************************************)
(* Validation is enough: what is allowed, the evaluators know.             *)
(***************************************************************************)

\* The error that is found first is one of them.
LEMMA FirstErrorIs ==
    ASSUME NEW n \in Nat, NEW vals, DOMAIN vals = 1 .. n, SomeError(vals)
    PROVE  \E i \in DOMAIN vals : FirstError(vals) = vals[i] /\ IsError(vals[i])
<1> DEFINE S == {i \in DOMAIN vals : IsError(vals[i])}
<1>1. S \in SUBSET Nat /\ S # {}
  <2>1. PICK i \in DOMAIN vals : IsError(vals[i])
    BY DEF SomeError
  <2>2. i \in S
    BY <2>1
  <2>3. 1 .. n \subseteq Nat
    OBVIOUS
  <2> QED BY <2>2, <2>3
<1>2. Min(S) \in S
  BY <1>1, MinOfPositions
<1> QED BY <1>2 DEF FirstError

\* The recursive function of Joined exists.
LEMMA JoinedSteps ==
    ASSUME NEW op, NEW R, NEW vals \in Seq(R), Len(vals) > 0
    PROVE  \E upTo :
             /\ Joined(op, vals) = upTo[Len(vals)]
             /\ upTo[1] = vals[1]
             /\ \A i \in 2 .. Len(vals) : upTo[i] = Bitwise_(op, upTo[i - 1], vals[i])
<1> DEFINE N == Len(vals)
           Of(f, i) == IF i = 1 THEN vals[1] ELSE Bitwise_(op, f[i - 1], vals[i])
           Good(f, n) == \A i \in 1 .. n : f[i] = Of(f, i)
<1>1. N \in Nat /\ N > 0 /\ DOMAIN vals = 1 .. N
  <2>1. Len(vals) \in Nat
    OBVIOUS
  <2>2. DOMAIN vals = 1 .. Len(vals)
    OBVIOUS
  <2> QED BY <2>1, <2>2
<1>2. \A n \in Nat : \E f : Good(f, n)
  <2> DEFINE T == {n \in Nat : \E f : Good(f, n)}
  <2>1. 0 \in T
    <3>1. \A f : Good(f, 0)
      OBVIOUS
    <3> QED BY <3>1
  <2>2. ASSUME NEW n \in Nat, n \in T PROVE n + 1 \in T
    <3>1. PICK f : Good(f, n)
      BY <2>2
    <3> DEFINE g == [i \in 1 .. n + 1 |-> Of(f, i)]
    <3>2. ASSUME NEW i \in 1 .. n + 1 PROVE g[i] = Of(g, i)
      <4>1. g[i] = Of(f, i)
        OBVIOUS
      <4>2. i # 1 => i - 1 \in 1 .. n /\ i - 1 \in 1 .. n + 1
        OBVIOUS
      <4>3. i # 1 => g[i - 1] = Of(f, i - 1)
        BY <4>2
      <4> HIDE DEF g
      <4>4. i # 1 => g[i - 1] = f[i - 1]
        BY <3>1, <4>2, <4>3
      <4> QED BY <4>1, <4>4
    <3>3. Good(g, n + 1)
      BY <3>2
    <3> HIDE DEF g, Good
    <3>4. \E h : Good(h, n + 1)
      BY <3>3
    <3> QED BY <3>4
  <2>3. Nat \subseteq T
    <3> HIDE DEF T
    <3> QED BY <2>1, <2>2, SetInduction
  <2> QED BY <2>3
<1>3. PICK f : Good(f, N)
  BY <1>1, <1>2
<1> DEFINE Equation(h) == h = [i \in DOMAIN vals |-> Of(h, i)]
           upTo == CHOOSE h : Equation(h)
           g == [i \in DOMAIN vals |-> f[i]]
<1>4. Equation(g)
  <2>1. ASSUME NEW i \in DOMAIN vals PROVE g[i] = Of(g, i)
    <3>1. g[i] = f[i] /\ i \in 1 .. N /\ (i # 1 => i - 1 \in DOMAIN vals)
      BY <1>1
    <3>2. i # 1 => g[i - 1] = f[i - 1]
      BY <3>1
    <3>3. f[i] = Of(f, i)
      BY <3>1, <1>3
    <3> HIDE DEF g
    <3> QED BY <3>1, <3>2, <3>3
  <2> QED BY <2>1
<1>5. Equation(upTo)
  <2> HIDE DEF g, Equation
  <2> QED BY <1>4
<1>6. Joined(op, vals) = upTo[N]
  BY DEF Joined
<1> HIDE DEF upTo
<1>7. \A i \in DOMAIN vals : upTo[i] = Of(upTo, i)
  BY <1>5
<1>8. upTo[1] = vals[1] /\ \A i \in 2 .. N : upTo[i] = Bitwise_(op, upTo[i - 1], vals[i])
  <2>1. 1 \in DOMAIN vals /\ \A i \in 2 .. N : i \in DOMAIN vals /\ i # 1
    <3> HIDE DEF N
    <3> QED BY <1>1
  <2> QED BY <1>7, <2>1
<1> QED BY <1>6, <1>8

\* What the operators on values make of them.
LEMMA OperatorTypes ==
    ASSUME NEW op, NEW a, NEW b
    PROVE  /\ Bitwise_(op, a, b).type \in {"type error", "Bool", "int", "bool", "Int"}
           /\ ComparePandas(op, a, b).type \in {"type error", "Bool"}
           /\ Invert(a).type \in {"type error", "Bool", "int", "Int"}
           /\ CompareSpark(op, a, b).type \in {"type error", "boolean"}
           /\ Junction(op, a).type \in {"type error", "boolean"}
  BY DEF Bitwise_, ComparePandas, Invert, CompareSpark, Junction, Value, TypeError

\* The values of the parts are a sequence.
LEMMA PartValues ==
    ASSUME NEW e \in Exprs, NEW f
    PROVE  LET vals == [i \in DOMAIN Parts(e) |-> f[Parts(e)[i]]]
           IN  /\ vals \in Seq({f[Parts(e)[i]] : i \in DOMAIN Parts(e)})
               /\ Len(vals) = Len(Parts(e)) /\ Len(vals) \in Nat
               /\ DOMAIN vals = 1 .. Len(vals) /\ DOMAIN Parts(e) = 1 .. Len(vals)
               /\ \A i \in 1 .. Len(vals) : vals[i] = f[Parts(e)[i]]
<1> DEFINE vals == [i \in DOMAIN Parts(e) |-> f[Parts(e)[i]]]
           R == {f[Parts(e)[i]] : i \in DOMAIN Parts(e)}
<1>1. Len(Parts(e)) \in Nat /\ DOMAIN Parts(e) = 1 .. Len(Parts(e))
  BY PartsTyped
<1>2. vals \in [1 .. Len(Parts(e)) -> R]
  BY <1>1
<1>3. vals \in Seq(R) /\ Len(vals) = Len(Parts(e))
  <2> HIDE DEF vals, R
  <2> QED BY <1>1, <1>2
<1>4. DOMAIN vals = 1 .. Len(Parts(e)) /\ \A i \in 1 .. Len(Parts(e)) : vals[i] = f[Parts(e)[i]]
  BY <1>1
<1> QED BY <1>1, <1>3, <1>4

\* The parts of the nodes that have some.
LEMMA PartsAre ==
    ASSUME NEW e \in Exprs
    PROVE  /\ e.node = "bool" => /\ e.op \in {"and", "or"}
                                 /\ Parts(e) = e.values /\ Len(Parts(e)) > 0
           /\ e.node = "compare" => /\ Len(Parts(e)) = Len(e.ops) + 1
                                    /\ Len(e.ops) \in Nat /\ Len(e.ops) > 0
                                    /\ DOMAIN e.ops = 1 .. Len(e.ops)
                                    /\ Parts(e)[1] = e.left
                                    /\ \A i \in 1 .. Len(e.ops) : Parts(e)[i + 1] = e.comparators[i]
           /\ e.node = "unary" => Len(Parts(e)) = 1 /\ Parts(e)[1] = e.operand
<1>1. WellFormed(e)
  BY ExprAssumption
<1>2. e.node = "bool" => e.op \in {"and", "or"} /\ Parts(e) = e.values /\ Len(Parts(e)) > 0
  BY <1>1 DEF WellFormed, Parts
<1>3. ASSUME e.node = "compare"
      PROVE  /\ Len(Parts(e)) = Len(e.ops) + 1
             /\ Len(e.ops) \in Nat /\ Len(e.ops) > 0
             /\ DOMAIN e.ops = 1 .. Len(e.ops)
             /\ Parts(e)[1] = e.left
             /\ \A i \in 1 .. Len(e.ops) : Parts(e)[i + 1] = e.comparators[i]
  <2>1. /\ e.left \in Exprs /\ e.comparators \in Seq(Exprs)
        /\ e.ops \in Seq(STRING) /\ Len(e.ops) = Len(e.comparators) /\ Len(e.comparators) > 0
    BY <1>1, <1>3 DEF WellFormed
  <2>2. Parts(e) = <<e.left>> \o e.comparators
    BY <1>3 DEF Parts
  <2>3. ASSUME NEW l \in Exprs, NEW cs \in Seq(Exprs)
        PROVE  /\ Len(<<l>> \o cs) = Len(cs) + 1
               /\ (<<l>> \o cs)[1] = l
               /\ \A i \in 1 .. Len(cs) : (<<l>> \o cs)[i + 1] = cs[i]
    OBVIOUS
  <2>4. Len(e.ops) \in Nat /\ DOMAIN e.ops = 1 .. Len(e.ops)
    BY <2>1
  <2> QED BY <2>1, <2>2, <2>3, <2>4
<1>4. e.node = "unary" => Len(Parts(e)) = 1 /\ Parts(e)[1] = e.operand
  BY DEF Parts
<1> QED BY <1>2, <1>3, <1>4

\* The sides of a chain of comparisons, two by two.
LEMMA PairsAre ==
    ASSUME NEW R, NEW sides \in Seq(R), NEW n \in Nat, Len(sides) = n + 1
    PROVE  /\ DOMAIN Pairs(sides) = 1 .. n
           /\ \A i \in 1 .. n : Pairs(sides)[i][1] = sides[i] /\ Pairs(sides)[i][2] = sides[i + 1]
  BY DEF Pairs

\* A node that is allowed is supported, when its parts are.
LEMMA PandasOfSupported ==
    ASSUME NEW row, NEW e \in Exprs, Allowed(e), NEW f,
           \A i \in DOMAIN Parts(e) : f[Parts(e)[i]].type # "unsupported"
    PROVE  PandasOf(e, row, [i \in DOMAIN Parts(e) |-> f[Parts(e)[i]]]).type # "unsupported"
<1> DEFINE vals == [i \in DOMAIN Parts(e) |-> f[Parts(e)[i]]]
           R == {f[Parts(e)[i]] : i \in DOMAIN Parts(e)}
           N == Len(vals)
<1>1. /\ vals \in Seq(R) /\ N = Len(Parts(e)) /\ N \in Nat /\ DOMAIN vals = 1 .. N
      /\ \A i \in 1 .. N : vals[i].type # "unsupported"
  BY PartValues
<1> HIDE DEF vals, R
<1>2. WellFormed(e)
  BY ExprAssumption
<1> SUFFICES PandasOf(e, row, vals).type # "unsupported"
  BY DEF vals
<1>3. CASE SomeError(vals)
  <2>1. FirstError(vals).type # "unsupported"
    BY <1>1, <1>3, FirstErrorIs
  <2> QED BY <1>3, <2>1 DEF PandasOf
<1>4. CASE ~SomeError(vals) /\ e.node = "name"
  <2>1. PandasOf(e, row, vals) = Value(Columns[e.id], row[e.id]) /\ e.id \in DOMAIN Columns
    BY <1>4 DEF PandasOf, Allowed
  <2> QED BY <2>1, ExprAssumption DEF Value
<1>5. CASE ~SomeError(vals) /\ e.node = "const"
  BY <1>2, <1>5 DEF PandasOf, WellFormed, Value
<1>6. CASE ~SomeError(vals) /\ e.node = "list"
  BY <1>6 DEF PandasOf, Allowed, Value
<1>7. CASE ~SomeError(vals) /\ e.node = "bool"
  <2>1. PandasOf(e, row, vals) = Joined(e.op, vals) /\ N > 0
    BY <1>1, <1>7, PartsAre DEF PandasOf
  <2>2. PICK upTo :
          /\ Joined(e.op, vals) = upTo[N]
          /\ upTo[1] = vals[1]
          /\ \A i \in 2 .. N : upTo[i] = Bitwise_(e.op, upTo[i - 1], vals[i])
    BY <1>1, <2>1, JoinedSteps
  <2>3. CASE N = 1
    BY <1>1, <2>1, <2>2, <2>3
  <2>4. CASE N # 1
    <3>1. N \in 2 .. N
      BY <1>1, <2>1, <2>4
    <3>2. upTo[N] = Bitwise_(e.op, upTo[N - 1], vals[N])
      BY <2>2, <3>1
    <3>3. Bitwise_(e.op, upTo[N - 1], vals[N]).type
            \in {"type error", "Bool", "int", "bool", "Int"}
      BY ONLY OperatorTypes
    <3>4. upTo[N].type # "unsupported"
      BY ONLY <3>2, <3>3
    <3> QED BY <2>1, <2>2, <3>4
  <2> QED BY <2>3, <2>4
<1>8. CASE ~SomeError(vals) /\ e.node = "compare"
  <2> DEFINE pairs == Pairs(vals)
             cs == [i \in DOMAIN pairs |-> ComparePandas(e.ops[i], pairs[i][1], pairs[i][2])]
  <2>1. PandasOf(e, row, vals) = All(cs)
    BY <1>8 DEF PandasOf
  <2>2. Len(e.ops) \in Nat /\ DOMAIN pairs = 1 .. Len(e.ops)
    BY <1>1, <1>8, PartsAre, PairsAre
  <2>3. DOMAIN cs = 1 .. Len(e.ops) /\ \A i \in DOMAIN cs : cs[i].type # "unsupported"
    BY <2>2, OperatorTypes
  <2> HIDE DEF cs
  <2>4. CASE SomeError(cs)
    <3>1. FirstError(cs).type # "unsupported"
      BY <2>2, <2>3, <2>4, FirstErrorIs
    <3> QED BY <2>1, <2>4, <3>1 DEF All
  <2>5. CASE ~SomeError(cs)
    BY <2>1, <2>5 DEF All, Value
  <2> QED BY <2>4, <2>5
<1>9. CASE ~SomeError(vals) /\ e.node = "unary"
  BY <1>9, OperatorTypes DEF PandasOf
<1> QED BY <1>3, <1>4, <1>5, <1>6, <1>7, <1>8, <1>9 DEF Allowed

\* And likewise in Spark.
LEMMA SparkOfSupported ==
    ASSUME NEW row, NEW e \in Exprs, Allowed(e), NEW f,
           \A i \in DOMAIN Parts(e) : f[Parts(e)[i]].type # "unsupported"
    PROVE  SparkOf(e, row, [i \in DOMAIN Parts(e) |-> f[Parts(e)[i]]]).type # "unsupported"
<1> DEFINE vals == [i \in DOMAIN Parts(e) |-> f[Parts(e)[i]]]
           R == {f[Parts(e)[i]] : i \in DOMAIN Parts(e)}
           N == Len(vals)
<1>1. /\ vals \in Seq(R) /\ N = Len(Parts(e)) /\ N \in Nat /\ DOMAIN vals = 1 .. N
      /\ \A i \in 1 .. N : vals[i].type # "unsupported"
  BY PartValues
<1> HIDE DEF vals, R
<1>2. WellFormed(e)
  BY ExprAssumption
<1> SUFFICES SparkOf(e, row, vals).type # "unsupported"
  BY DEF vals
<1>3. CASE SomeError(vals)
  <2>1. FirstError(vals).type # "unsupported"
    BY <1>1, <1>3, FirstErrorIs
  <2> QED BY <1>3, <2>1 DEF SparkOf
<1>4. CASE ~SomeError(vals) /\ e.node = "name"
  <2>1. SparkOf(e, row, vals) = Value(SparkType(Columns[e.id]), row[e.id]) /\ e.id \in DOMAIN Columns
    BY <1>4 DEF SparkOf, Allowed
  <2> QED BY <2>1, ExprAssumption DEF Value, SparkType
<1>5. CASE ~SomeError(vals) /\ e.node = "const"
  BY <1>2, <1>5 DEF SparkOf, SparkType, Value
<1>6. CASE ~SomeError(vals) /\ e.node = "list"
  BY <1>6 DEF SparkOf, Allowed, Value
<1>7. CASE ~SomeError(vals) /\ e.node = "bool"
  BY <1>7, OperatorTypes DEF SparkOf
<1>8. CASE ~SomeError(vals) /\ e.node = "compare"
  <2> DEFINE pairs == Pairs(vals)
             cs == [i \in DOMAIN pairs |-> CompareSpark(e.ops[i], pairs[i][1], pairs[i][2])]
  <2>1. SparkOf(e, row, vals) = IF SomeError(cs) THEN FirstError(cs) ELSE Junction("and", cs)
    BY <1>8 DEF SparkOf
  <2>2. Len(e.ops) \in Nat /\ DOMAIN pairs = 1 .. Len(e.ops)
    BY <1>1, <1>8, PartsAre, PairsAre
  <2>3. DOMAIN cs = 1 .. Len(e.ops) /\ \A i \in DOMAIN cs : cs[i].type # "unsupported"
    BY <2>2, OperatorTypes
  <2> HIDE DEF cs
  <2>4. CASE SomeError(cs)
    <3>1. FirstError(cs).type # "unsupported"
      BY <2>2, <2>3, <2>4, FirstErrorIs
    <3> QED BY <2>1, <2>4, <3>1
  <2>5. CASE ~SomeError(cs)
    BY <2>1, <2>5, OperatorTypes
  <2> QED BY <2>4, <2>5
<1>9. CASE ~SomeError(vals) /\ e.node = "unary"
  BY <1>9 DEF SparkOf, TypeError, Value
<1> QED BY <1>3, <1>4, <1>5, <1>6, <1>7, <1>8, <1>9 DEF Allowed

\* What the validator lets through, both evaluators support.
LEMMA ValidSupported ==
    ASSUME NEW row
    PROVE  \A e \in Exprs : Valid(e) => /\ EvalPandas(e, row) # Unsupported
                                        /\ EvalSpark(e, row) # Unsupported
<1>1. PICK pandas : \A e \in Exprs :
        /\ EvalPandas(e, row) = pandas[e]
        /\ pandas[e] = PandasOf(e, row, [i \in DOMAIN Parts(e) |-> pandas[Parts(e)[i]]])
  BY PandasSteps
<1>2. PICK spark : \A e \in Exprs :
        /\ EvalSpark(e, row) = spark[e]
        /\ spark[e] = SparkOf(e, row, [i \in DOMAIN Parts(e) |-> spark[Parts(e)[i]]])
  BY SparkSteps
<1> DEFINE S == {e \in Exprs : Valid(e) => pandas[e].type # "unsupported" /\ spark[e].type # "unsupported"}
<1>3. ASSUME NEW e \in Exprs, \A i \in DOMAIN Parts(e) : Parts(e)[i] \in S PROVE e \in S
  <2> SUFFICES ASSUME Valid(e) PROVE pandas[e].type # "unsupported" /\ spark[e].type # "unsupported"
    OBVIOUS
  <2>1. /\ Allowed(e)
        /\ \A i \in DOMAIN Parts(e) : pandas[Parts(e)[i]].type # "unsupported"
        /\ \A i \in DOMAIN Parts(e) : spark[Parts(e)[i]].type # "unsupported"
    BY <1>3, ValidParts
  <2>2. PandasOf(e, row, [i \in DOMAIN Parts(e) |-> pandas[Parts(e)[i]]]).type # "unsupported"
    BY <2>1, PandasOfSupported
  <2>3. SparkOf(e, row, [i \in DOMAIN Parts(e) |-> spark[Parts(e)[i]]]).type # "unsupported"
    BY <2>1, SparkOfSupported
  <2> QED BY <1>1, <1>2, <2>2, <2>3
<1>4. Exprs \subseteq S
  <2> HIDE DEF S
  <2> QED BY <1>3, ExprInduction
<1> SUFFICES ASSUME NEW e \in Exprs, Valid(e)
             PROVE  EvalPandas(e, row) # Unsupported /\ EvalSpark(e, row) # Unsupported
  OBVIOUS
<1>5. pandas[e].type # "unsupported" /\ spark[e].type # "unsupported"
  BY <1>4
<1>6. Unsupported.type = "unsupported"
  BY DEF Unsupported, Value
<1> QED BY <1>1, <1>2, <1>5, <1>6

-----------------------------------------------------------------------------
(***************************************************************************)
(* The executor                                                            *)
(***************************************************************************)

\* The inductive invariant: nothing but the caller's frame is there when an
\* engine starts, and that frame is the one that was passed.
ExecutorInv ==
    /\ ExecutorTypeOK
    /\ DatasetUntouched
    /\ "df" \in DOMAIN heap
    /\ passed \in Seq(Rows)
    /\ step = "dispatch" => DOMAIN heap = {"df"}

\* A request starts with the frame it was passed.
LEMMA ExecutorInit == Init => ExecutorInv
<1> SUFFICES ASSUME Init PROVE ExecutorInv
  OBVIOUS
<1>1. DOMAIN heap = {"df"} /\ heap["df"] = passed /\ passed \in Seq(Rows)
  BY EngineAssumption DEF Init
<1> QED BY <1>1 DEF Init, ExecutorInv, ExecutorTypeOK, DatasetUntouched, NoOutput

\* An engine makes new objects beside the caller's frame, or raises.
LEMMA EngineKeeps ==
    ASSUME ExecutorInv, step = "dispatch", UNCHANGED <<engine, passed, output>>,
           "df" \in DOMAIN heap', heap'["df"] = heap["df"],
           DOMAIN heap' \subseteq {"df", "local", "argument", "result"},
           \A ref \in DOMAIN heap' : heap'[ref] \in Seq(Rows),
           \/ step' = "error"
           \/ step' = "escaped" /\ MadeUp /\ code.ending = "escapes" /\ code' = code
           \/ step' = "report" /\ result' \in DOMAIN heap'
    PROVE  ExecutorInv'
  BY DEF ExecutorInv, ExecutorTypeOK, DatasetUntouched, MadeUp

\* An engine that makes one object of its own, and returns it.
LEMMA ResultKeeps ==
    ASSUME ExecutorInv, step = "dispatch", UNCHANGED <<engine, passed, output>>,
           NEW frame \in Seq(Rows), heap' = New(heap, "result", frame), Yield("result")
    PROVE  ExecutorInv'
<1>1. DOMAIN heap = {"df"} /\ heap["df"] \in Seq(Rows)
  BY DEF ExecutorInv, ExecutorTypeOK
<1>2. DOMAIN heap' = {"df", "result"} /\ heap'["df"] = heap["df"] /\ heap'["result"] = frame
  BY <1>1 DEF New
<1>3. step' = "report" /\ result' = "result"
  BY DEF Yield
<1> QED BY <1>1, <1>2, <1>3, EngineKeeps

\* An engine that raises before it has made an object.
LEMMA RaiseKeeps ==
    ASSUME ExecutorInv, step = "dispatch", UNCHANGED <<engine, passed, output, heap>>, Raise
    PROVE  ExecutorInv'
<1>1. DOMAIN heap = {"df"} /\ heap["df"] \in Seq(Rows)
  BY DEF ExecutorInv, ExecutorTypeOK
<1> QED BY <1>1, EngineKeeps DEF Raise

\* The filter makes a frame of the rows it keeps.
LEMMA FilterKeeps == ExecutorInv /\ ExecuteAstFilter => ExecutorInv'
<1> SUFFICES ASSUME ExecutorInv, ExecuteAstFilter PROVE ExecutorInv'
  OBVIOUS
<1>1. step = "dispatch" /\ UNCHANGED <<engine, passed, output>>
  BY DEF ExecuteAstFilter
<1>2. heap["df"] \in Seq(Rows)
  BY <1>1 DEF ExecutorInv, ExecutorTypeOK
<1>3. CASE Raise /\ UNCHANGED heap
  BY <1>1, <1>3, RaiseKeeps
<1>4. CASE \E S : heap' = New(heap, "result", Taken(heap["df"], S)) /\ Yield("result")
  <2>1. PICK S : heap' = New(heap, "result", Taken(heap["df"], S)) /\ Yield("result")
    BY <1>4
  <2>2. Taken(heap["df"], S) \in Seq(Rows)
    BY <1>2, TakenTyped
  <2> QED BY <1>1, <2>1, <2>2, ResultKeeps
<1> QED BY <1>3, <1>4 DEF ExecuteAstFilter

\* The program changes no object but the one it is given.
LEMMA ChangedKeeps ==
    ASSUME ExecutorInv, step = "dispatch", UNCHANGED <<engine, passed, output>>,
           NEW arg, NEW ref \in DOMAIN arg, ref # "df",
           "df" \in DOMAIN arg, DOMAIN arg \subseteq {"df", "local", "argument"},
           \A r \in DOMAIN arg : arg[r] = heap["df"],
           heap' = Changed(arg, ref),
           \/ Raise \/ Yield(ref)
           \/ Escape /\ MadeUp /\ code.ending = "escapes" /\ code' = code
    PROVE  ExecutorInv'
<1>1. heap["df"] \in Seq(Rows) /\ <<>> \in Seq(Rows)
  BY DEF ExecutorInv, ExecutorTypeOK
<1>2. /\ DOMAIN heap' = DOMAIN arg
      /\ \A r \in DOMAIN arg : heap'[r] \in {arg[r], <<>>}
      /\ heap'["df"] = arg["df"]
  <2>1. CASE code.inPlace
    BY <2>1 DEF Changed
  <2>2. CASE ~code.inPlace
    BY <2>2 DEF Changed
  <2> QED BY <2>1, <2>2
<1>3. \A r \in DOMAIN heap' : heap'[r] \in Seq(Rows)
  BY <1>1, <1>2
<1>4. \/ step' = "error"
      \/ step' = "escaped" /\ MadeUp /\ code.ending = "escapes" /\ code' = code
      \/ step' = "report" /\ result' \in DOMAIN heap'
  BY <1>2 DEF Raise, Yield, Escape
<1> QED BY <1>2, <1>3, <1>4, EngineKeeps

\* What a program may change in place is a copy.
LEMMA PandasKeeps == ExecutorInv /\ ExecutePandas => ExecutorInv'
<1> SUFFICES ASSUME ExecutorInv, ExecutePandas PROVE ExecutorInv'
  OBVIOUS
<1> DEFINE scope == Scope(heap)
           called == "transform" \in code.binds
           arg == IF called THEN New(scope, "argument", scope["df"]) ELSE scope
           ref == IF called THEN "argument" ELSE Local(scope)
<1>1. /\ step = "dispatch" /\ UNCHANGED <<engine, passed, output>>
      /\ heap' = Changed(arg, ref)
      /\ \/ Raise \/ Yield(ref)
         \/ Escape /\ MadeUp /\ code.ending = "escapes" /\ code' = code
  BY DEF ExecutePandas, End, MadeUp
<1>2. DOMAIN heap = {"df"} /\ heap["df"] \in Seq(Rows)
  BY <1>1 DEF ExecutorInv, ExecutorTypeOK
<1>3. /\ DOMAIN scope = {"df", "local"}
      /\ scope["df"] = heap["df"] /\ scope["local"] = heap["df"]
  BY <1>2 DEF Scope, New
<1> HIDE DEF scope
<1>4. CASE called
  <2>1. arg = New(scope, "argument", heap["df"]) /\ ref = "argument"
    BY <1>3, <1>4
  <2>2. /\ DOMAIN arg = {"df", "local", "argument"}
        /\ \A r \in DOMAIN arg : arg[r] = heap["df"]
    BY <1>3, <2>1 DEF New
  <2> QED BY <1>1, <1>2, <2>1, <2>2, ChangedKeeps
<1>5. CASE ~called
  <2>1. arg = scope /\ ref = "local"
    BY <1>3, <1>5 DEF Local
  <2> QED BY <1>1, <1>2, <1>3, <2>1, ChangedKeeps
<1> QED BY <1>4, <1>5

\* A query makes a frame of its own.
LEMMA QueryKeeps == ExecutorInv /\ (ExecutePyspark \/ ExecuteSql \/ UnsupportedEngine) => ExecutorInv'
<1> SUFFICES ASSUME ExecutorInv, ExecutePyspark \/ ExecuteSql \/ UnsupportedEngine
             PROVE  ExecutorInv'
  OBVIOUS
<1>1. step = "dispatch" /\ UNCHANGED <<engine, passed, output>>
  BY DEF ExecutePyspark, ExecuteSql, UnsupportedEngine
<1>2. heap["df"] \in Seq(Rows) /\ <<>> \in Seq(Rows)
  BY <1>1 DEF ExecutorInv, ExecutorTypeOK
<1>3. CASE Raise /\ UNCHANGED heap
  BY <1>1, <1>3, RaiseKeeps
<1>4. CASE \E frame \in {<<>>, heap["df"]} : heap' = New(heap, "result", frame) /\ Yield("result")
  <2>1. PICK frame \in {<<>>, heap["df"]} : heap' = New(heap, "result", frame) /\ Yield("result")
    BY <1>4
  <2> QED BY <1>1, <1>2, <2>1, ResultKeeps
<1>5. CASE Escape /\ UNCHANGED <<code, heap>> /\ MadeUp /\ code.ending = "escapes"
  <2>1. DOMAIN heap = {"df"} /\ heap["df"] \in Seq(Rows)
    BY <1>1 DEF ExecutorInv, ExecutorTypeOK
  <2> QED BY <1>1, <1>5, <2>1, EngineKeeps DEF Escape
<1> QED BY <1>3, <1>4, <1>5 DEF ExecutePyspark, ExecuteSql, UnsupportedEngine, MadeUp

\* Success and failure are reported and change no object.
LEMMA ReportKeeps == ExecutorInv /\ (Report \/ ReportRaises \/ ReportError) => ExecutorInv'
<1> SUFFICES ASSUME ExecutorInv, Report \/ ReportRaises \/ ReportError PROVE ExecutorInv'
  OBVIOUS
<1>1. CASE Report
  BY <1>1 DEF Report, ExecutorInv, ExecutorTypeOK, DatasetUntouched
<1>2. CASE ReportError
  <2>1. output'.status = "failed" /\ output'.audited = "failed"
    BY <1>2 DEF ReportError, NoOutput
  <2> QED BY <1>2, <2>1 DEF ReportError, ExecutorInv, ExecutorTypeOK, DatasetUntouched
<1>3. CASE ReportRaises
  BY <1>3 DEF ReportRaises, End, Raise, Escape, MadeUp, ExecutorInv, ExecutorTypeOK, DatasetUntouched
<1> QED BY <1>1, <1>2, <1>3

\* Every step keeps it.
LEMMA ExecutorSteps == ExecutorInv /\ [Next]_vars => ExecutorInv'
<1>1. ExecutorInv /\ UNCHANGED vars => ExecutorInv'
  BY DEF ExecutorInv, ExecutorTypeOK, DatasetUntouched, MadeUp, vars
<1> QED BY <1>1, FilterKeeps, PandasKeeps, QueryKeeps, ReportKeeps DEF Next

\* The inductive invariant of a request to the executor.
THEOREM ExecutorInvariant == Spec => []ExecutorInv
  BY ExecutorInit, ExecutorSteps, PTL DEF Spec

\* Variables keep their types, and a request to the executor (execute) ends
\* with an output and an audit record of the same status, whatever Exception
\* its code or its report raised: only what escapes "except Exception" leaves
\* none, and nothing escapes from a filter or a query of SQL.
THEOREM ExecutorTypeCorrect == Spec => []ExecutorTypeOK
<1>1. ExecutorInv => ExecutorTypeOK
  BY DEF ExecutorInv
<1> QED BY <1>1, ExecutorInvariant, PTL

\* No code of a user, whichever engine runs it and however it ends, changes the
\* frame it was called on.
THEOREM DatasetsUntouched == Spec => []DatasetUntouched
<1>1. ExecutorInv => DatasetUntouched
  BY DEF ExecutorInv
<1> QED BY <1>1, ExecutorInvariant, PTL

\* What a filter comes to: the condition is let through and fails on no row.
Passes == Accepts(code) /\ \A i \in DOMAIN passed : Mask(code, passed[i]) # "fails"

\* The rows it keeps.
MaskKept == {i \in DOMAIN passed : Mask(code, passed[i]) = "kept"}

\* The inductive invariant of a filter: what has been done of the outcome.
FilterInv ==
    /\ ExecutorInv
    /\ engine = "ast_filter" =>
         /\ code \in Conditions
         /\ step # "escaped"
         /\ step = "report" =>
              Passes /\ result = "result" /\ heap["result"] = Taken(passed, MaskKept)
         /\ step = "error" => ~Passes
         /\ step = "done" =>
              \/ /\ Passes
                 /\ output.status = "succeeded"
                 /\ output.rowCount = Len(Taken(passed, MaskKept))
              \/ ~Passes /\ output.status = "failed"

\* The steps of a filter.
LEMMA FilterSteps == FilterInv /\ [Next]_vars => FilterInv'
<1> SUFFICES ASSUME FilterInv, [Next]_vars PROVE FilterInv'
  OBVIOUS
<1>1. ExecutorInv'
  BY ExecutorSteps DEF FilterInv
<1>2. CASE engine' # "ast_filter"
  BY <1>1, <1>2 DEF FilterInv
<1>3. CASE engine' = "ast_filter"
  <2>1. UNCHANGED <<engine, code, passed>>
    BY DEF Next, vars, ExecuteAstFilter, ExecutePandas, ExecutePyspark, ExecuteSql,
           UnsupportedEngine, Report, ReportRaises, ReportError
  <2>2. engine = "ast_filter" /\ code \in Conditions /\ heap["df"] = passed
    BY <1>3, <2>1 DEF FilterInv, ExecutorInv, DatasetUntouched
  <2>3. (Passes <=> Passes') /\ MaskKept = MaskKept'
    BY <2>1 DEF Passes, MaskKept
  <2>4. CASE UNCHANGED vars
    BY <1>1, <2>3, <2>4 DEF FilterInv, vars
  <2>5. CASE ExecuteAstFilter
    <3>1. CASE Passes
      <4>1. heap' = New(heap, "result", Taken(passed, MaskKept)) /\ Yield("result")
        BY <2>2, <2>5, <3>1 DEF ExecuteAstFilter, Passes, MaskKept
      <4>2. heap'["result"] = Taken(passed, MaskKept) /\ step' = "report" /\ result' = "result"
        BY <4>1 DEF New, Yield
      <4> QED BY <1>1, <2>1, <2>2, <2>3, <3>1, <4>2 DEF FilterInv
    <3>2. CASE ~Passes
      <4>1. step' = "error"
        BY <2>2, <2>5, <3>2 DEF ExecuteAstFilter, Passes, Raise
      <4> QED BY <1>1, <2>1, <2>2, <2>3, <3>2, <4>1 DEF FilterInv
    <3> QED BY <3>1, <3>2
  <2>6. CASE Report
    <3>1. /\ step' = "done" /\ output'.status = "succeeded"
          /\ output'.rowCount = Len(Taken(passed, MaskKept)) /\ Passes
      BY <2>2, <2>6 DEF Report, FilterInv
    <3> QED BY <1>1, <2>1, <2>2, <2>3, <3>1 DEF FilterInv
  <2>7. CASE ReportError
    <3>1. step' = "done" /\ output'.status = "failed" /\ ~Passes
      BY <2>2, <2>7 DEF ReportError, FilterInv, NoOutput
    <3> QED BY <1>1, <2>1, <2>2, <2>3, <3>1 DEF FilterInv
  <2> QED BY <2>2, <2>4, <2>5, <2>6, <2>7
          DEF Next, ExecutePandas, ExecutePyspark, ExecuteSql, UnsupportedEngine, ReportRaises, MadeUp
<1> QED BY <1>2, <1>3

\* The inductive invariant of a filter holds.
THEOREM FilterInvariant == Spec => []FilterInv
<1>1. Init => FilterInv
  <2>1. Init => ExecutorInv
    BY ExecutorInit
  <2> QED BY <2>1 DEF Init, FilterInv
<1> QED BY <1>1, FilterSteps, PTL DEF Spec

\* What the validator lets through (validate), neither evaluator finds an
\* unknown column or unknown syntax in (_eval_pandas_node, _compile_spark_node),
\* and what it refuses is a failed output: whatever the condition and the rows.
THEOREM ValidationIsEnough == Spec => []ValidationSuffices
<1>1. FilterInv => ValidationSuffices
  <2> SUFFICES ASSUME FilterInv, engine = "ast_filter"
               PROVE  /\ Valid(code) => \A i \in DOMAIN passed :
                           /\ EvalPandas(code, passed[i]) # Unsupported
                           /\ EvalSpark(code, passed[i]) # Unsupported
                      /\ step = "done" /\ ~Valid(code) => output.status = "failed"
    BY DEF ValidationSuffices
  <2>1. code \in Exprs /\ Accepts(code) = Valid(code)
    BY ConditionAssumption DEF FilterInv
  <2>2. ASSUME step = "done", ~Valid(code) PROVE output.status = "failed"
    BY <2>1, <2>2 DEF FilterInv, Passes
  <2>3. ASSUME Valid(code), NEW i \in DOMAIN passed
        PROVE  /\ EvalPandas(code, passed[i]) # Unsupported
               /\ EvalSpark(code, passed[i]) # Unsupported
    BY <2>1, <2>3, ValidSupported
  <2> QED BY <2>2, <2>3
<1> QED BY <1>1, FilterInvariant, PTL

-----------------------------------------------------------------------------
(***************************************************************************)
(* What a condition comes to                                               *)
(***************************************************************************)

\* The values of all expressions on a row, and their truth.
Evaluates(pandas, spark, truth, row) ==
    \A e \in Exprs :
        /\ pandas[e] = PandasOf(e, row, [i \in DOMAIN Parts(e) |-> pandas[Parts(e)[i]]])
        /\ spark[e] = SparkOf(e, row, [i \in DOMAIN Parts(e) |-> spark[Parts(e)[i]]])
        /\ truth[e] = TruthOf(e, row, [i \in DOMAIN Parts(e) |-> truth[Parts(e)[i]]])

\* A row with the types of its columns.
RowTyped(row) ==
    \A c \in DOMAIN Columns :
        row[c] \in CASE Columns[c] = "Bool" -> {0, 1}
                     [] Columns[c] = "Int" -> Int
                     [] Columns[c] = "Float" -> Int \cup {Null}

\* The two bits there are to combine.
LEMMA BitwiseTruths ==
    ASSUME NEW op, op = "and" \/ op = "or", NEW a, NEW b,
           a.type \in {"Bool", "bool"}, b.type \in {"Bool", "bool"},
           a.v \in {0, 1}, b.v \in {0, 1}
    PROVE  LET c == Bitwise_(op, a, b)
           IN  /\ c.type = IF "Bool" \in {a.type, b.type} THEN "Bool" ELSE "bool"
               /\ c.v \in {0, 1}
               /\ op = "and" => (c.v = 1 <=> a.v = 1 /\ b.v = 1)
               /\ op = "or" => (c.v = 1 <=> a.v = 1 \/ b.v = 1)
<1> DEFINE S == IF op = "and" THEN Bits(a.v) \cap Bits(b.v) ELSE Bits(a.v) \cup Bits(b.v)
           v == FromBits(S)
<1>1. Bits(0) = {} /\ Bits(1) = {1}
  <2>1. (0 \div 1) % 2 = 0 /\ (0 \div 2) % 2 = 0 /\ (0 \div 4) % 2 = 0
    OBVIOUS
  <2>2. (1 \div 1) % 2 = 1 /\ (1 \div 2) % 2 = 0 /\ (1 \div 4) % 2 = 0
    OBVIOUS
  <2> QED BY <2>1, <2>2 DEF Bits
<1>2. FromBits({}) = 0 /\ FromBits({1}) = 1
  BY DEF FromBits
<1>3. /\ v \in {0, 1}
      /\ op = "and" => (v = 1 <=> a.v = 1 /\ b.v = 1)
      /\ op = "or" => (v = 1 <=> a.v = 1 \/ b.v = 1)
  <2>1. /\ op = "and" => S = IF a.v = 1 /\ b.v = 1 THEN {1} ELSE {}
        /\ op = "or" => S = IF a.v = 1 \/ b.v = 1 THEN {1} ELSE {}
    BY <1>1
  <2> HIDE DEF S
  <2> QED BY <1>2, <2>1
<1> HIDE DEF v
<1>4. a.v # Null /\ b.v # Null
  BY ExprAssumption
<1>5. Bitwise_(op, a, b) = IF a.type = "bool" /\ b.type = "bool" THEN Value("bool", v)
                           ELSE Value("Bool", Truth(v # 0))
  BY <1>4 DEF Bitwise_, IsError, IsSeries, IsInt, v
<1> QED BY <1>3, <1>5 DEF Value, Truth

\* Truths joined from the left: a Series as soon as there is one.
LEMMA JoinedTruths ==
    ASSUME NEW op, op = "and" \/ op = "or", NEW R, NEW vals \in Seq(R), Len(vals) > 0,
           \A i \in 1 .. Len(vals) : vals[i].type \in {"Bool", "bool"} /\ vals[i].v \in {0, 1}
    PROVE  LET c == Joined(op, vals)
           IN  /\ c.type \in {"Bool", "bool"}
               /\ (\E i \in 1 .. Len(vals) : vals[i].type = "Bool") => c.type = "Bool"
               /\ c.v \in {0, 1}
               /\ op = "and" => (c.v = 1 <=> \A i \in 1 .. Len(vals) : vals[i].v = 1)
               /\ op = "or" => (c.v = 1 <=> \E i \in 1 .. Len(vals) : vals[i].v = 1)
<1> DEFINE N == Len(vals)
           Right(c, k) ==
               /\ c.type \in {"Bool", "bool"}
               /\ (\E i \in 1 .. k : vals[i].type = "Bool") => c.type = "Bool"
               /\ c.v \in {0, 1}
               /\ op = "and" => (c.v = 1 <=> \A i \in 1 .. k : vals[i].v = 1)
               /\ op = "or" => (c.v = 1 <=> \E i \in 1 .. k : vals[i].v = 1)
<1>1. N \in Nat \ {0}
  <2>1. Len(vals) \in Nat
    OBVIOUS
  <2> QED BY <2>1
<1>2. PICK upTo :
        /\ Joined(op, vals) = upTo[N]
        /\ upTo[1] = vals[1]
        /\ \A i \in 2 .. N : upTo[i] = Bitwise_(op, upTo[i - 1], vals[i])
  BY JoinedSteps
<1> DEFINE S == {k \in 1 .. N : Right(upTo[k], k)}
<1> HIDE DEF N
<1>3. 1 \in S
  <2>1. 1 \in 1 .. N
    BY <1>1
  <2>2. Right(vals[1], 1)
    BY <2>1 DEF N
  <2> QED BY <1>2, <2>1, <2>2
<1>4. ASSUME NEW k \in 1 .. N - 1, k \in S PROVE k + 1 \in S
  <2>1. k + 1 \in 1 .. N /\ k + 1 \in 2 .. N /\ (k + 1) - 1 = k
    BY <1>1
  <2>2. upTo[k + 1] = Bitwise_(op, upTo[k], vals[k + 1])
    BY <1>2, <2>1
  <2>3. vals[k + 1].type \in {"Bool", "bool"} /\ vals[k + 1].v \in {0, 1}
    BY <2>1 DEF N
  <2>4. Right(upTo[k], k)
    BY <1>4
  <2> DEFINE c == Bitwise_(op, upTo[k], vals[k + 1])
  <2>5. /\ c.type = IF "Bool" \in {upTo[k].type, vals[k + 1].type} THEN "Bool" ELSE "bool"
        /\ c.v \in {0, 1}
        /\ op = "and" => (c.v = 1 <=> upTo[k].v = 1 /\ vals[k + 1].v = 1)
        /\ op = "or" => (c.v = 1 <=> upTo[k].v = 1 \/ vals[k + 1].v = 1)
    BY <2>3, <2>4, BitwiseTruths
  <2> HIDE DEF c
  <2>6. \A i \in 1 .. k + 1 : i \in 1 .. k \/ i = k + 1
    BY <2>1
  <2>7. \A i \in 1 .. k : i \in 1 .. k + 1
    BY <2>1
  <2>8. k + 1 \in 1 .. k + 1
    BY <2>1
  <2>9. Right(c, k + 1)
    BY <2>3, <2>4, <2>5, <2>6, <2>7, <2>8
  <2> QED BY <2>1, <2>2, <2>9 DEF c
<1>5. N \in S
  <2>1. N \in 1 .. N
    BY <1>1
  <2> HIDE DEF S
  <2> QED BY <1>1, <1>3, <1>4, <2>1, UpTo
<1> QED BY <1>2, <1>5 DEF N

\* Values that are no columns of numbers stay so when they are joined.
LEMMA JoinedTypes ==
    ASSUME NEW op, NEW R, NEW vals \in Seq(R), Len(vals) > 0,
           \A i \in 1 .. Len(vals) : vals[i].type \in {"Bool", "bool", "int"}
    PROVE  Joined(op, vals).type \in {"Bool", "bool", "int"}
<1> DEFINE N == Len(vals)
<1>1. N \in Nat \ {0}
  <2>1. Len(vals) \in Nat
    OBVIOUS
  <2> QED BY <2>1
<1>2. PICK upTo :
        /\ Joined(op, vals) = upTo[N]
        /\ upTo[1] = vals[1]
        /\ \A i \in 2 .. N : upTo[i] = Bitwise_(op, upTo[i - 1], vals[i])
  BY JoinedSteps
<1> DEFINE S == {k \in 1 .. N : upTo[k].type \in {"Bool", "bool", "int"}}
<1> HIDE DEF N
<1>3. 1 \in S
  <2>1. 1 \in 1 .. N
    BY <1>1
  <2> QED BY <1>2, <2>1 DEF N
<1>4. ASSUME NEW k \in 1 .. N - 1, k \in S PROVE k + 1 \in S
  <2>1. k + 1 \in 1 .. N /\ k + 1 \in 2 .. N /\ (k + 1) - 1 = k
    BY <1>1
  <2>2. upTo[k + 1] = Bitwise_(op, upTo[k], vals[k + 1])
    BY <1>2, <2>1
  <2>3. vals[k + 1].type \in {"Bool", "bool", "int"}
    BY <2>1 DEF N
  <2>4. ASSUME NEW a, NEW b, a.type \in {"Bool", "bool", "int"}, b.type \in {"Bool", "bool", "int"}
        PROVE  Bitwise_(op, a, b).type \in {"Bool", "bool", "int"}
    BY <2>4 DEF Bitwise_, IsError, IsSeries, IsInt, Value
  <2> QED BY <1>4, <2>1, <2>2, <2>3, <2>4
<1>5. N \in S
  <2>1. N \in 1 .. N
    BY <1>1
  <2> HIDE DEF S
  <2> QED BY <1>1, <1>3, <1>4, <2>1, UpTo
<1> QED BY <1>2, <1>5

\* Three-valued and, or: true when all are true, or one is; unknown only
\* when one is.
LEMMA JunctionTruths ==
    ASSUME NEW op, op = "and" \/ op = "or", NEW vals,
           \A i \in DOMAIN vals : vals[i].type = "boolean" /\ vals[i].v \in {0, 1, Null}
    PROVE  LET c == Junction(op, vals)
           IN  /\ c.type = "boolean" /\ c.v \in {0, 1, Null}
               /\ (\A i \in DOMAIN vals : vals[i].v # Null) => c.v # Null
               /\ op = "and" => (c.v = 1 <=> \A i \in DOMAIN vals : vals[i].v = 1)
               /\ op = "or" => (c.v = 1 <=> \E i \in DOMAIN vals : vals[i].v = 1)
<1> DEFINE decisive == IF op = "and" THEN 0 ELSE 1
           vs == {vals[i].v : i \in DOMAIN vals}
           w == IF decisive \in vs THEN decisive ELSE IF Null \in vs THEN Null ELSE 1 - decisive
<1>1. Junction(op, vals) = Value("boolean", w)
  BY DEF Junction
<1>2. Null # 0 /\ Null # 1
  BY ExprAssumption
<1>3. vs \subseteq {0, 1, Null}
  OBVIOUS
<1>4. /\ w \in {0, 1, Null}
      /\ Null \notin vs => w # Null
      /\ op = "and" => (w = 1 <=> 0 \notin vs /\ Null \notin vs)
      /\ op = "or" => (w = 1 <=> 1 \in vs)
  <2> HIDE DEF vs
  <2> QED BY <1>2
<1>5. /\ (0 \notin vs /\ Null \notin vs) <=> \A i \in DOMAIN vals : vals[i].v = 1
      /\ 1 \in vs <=> \E i \in DOMAIN vals : vals[i].v = 1
      /\ (\A i \in DOMAIN vals : vals[i].v # Null) => Null \notin vs
  BY <1>2
<1> HIDE DEF w, vs
<1> QED BY <1>1, <1>4, <1>5 DEF Value

\* Nothing is missing in the row.
Full(row) == \A c \in DOMAIN Columns : row[c] # Null

\* A side of a comparison: a number, or a list of constants.
IsSide(e) == IsNumber(e) \/ (e.node = "list" /\ ConstantsOnly(e))

\* Both engines give a side the value of its operand; a list has a type of its
\* own, and a number is missing only where the row misses it.
LEMMA SideValues ==
    ASSUME NEW row, RowTyped(row), NEW pandas, NEW spark, NEW truth,
           Evaluates(pandas, spark, truth, row), NEW e \in Exprs, IsSide(e)
    PROVE  /\ pandas[e].v = Operand(e, row) /\ spark[e].v = Operand(e, row)
           /\ IsNumber(e) => /\ pandas[e].type \in {"int", "Int", "Float"} /\ spark[e].type = "number"
                             /\ e.node # "list"
                             /\ Full(row) => Operand(e, row) # Null
           /\ e.node = "list" => pandas[e].type = "list" /\ spark[e].type = "list"
<1> DEFINE ps == [i \in DOMAIN Parts(e) |-> pandas[Parts(e)[i]]]
           ss == [i \in DOMAIN Parts(e) |-> spark[Parts(e)[i]]]
<1>1. e.node \in {"const", "name", "list"}
  BY DEF IsSide, IsNumber
<1>2. ~SomeError(ps) /\ ~SomeError(ss)
  <2>1. Parts(e) = <<>>
    BY <1>1 DEF Parts
  <2>2. DOMAIN ps = {} /\ DOMAIN ss = {}
    BY <2>1
  <2> QED BY <2>2 DEF SomeError
<1>3. pandas[e] = PandasOf(e, row, ps) /\ spark[e] = SparkOf(e, row, ss)
  BY DEF Evaluates
<1>4. WellFormed(e)
  BY ExprAssumption
<1> HIDE DEF ps, ss
<1>5. CASE e.node = "const" /\ e.type = "int"
  <2>1. pandas[e] = Value("int", e.value) /\ spark[e] = Value("number", e.value) /\ Operand(e, row) = e.value
    BY <1>2, <1>3, <1>5 DEF PandasOf, SparkOf, SparkType, Operand
  <2>2. e.value # Null
    BY <1>4, <1>5, ExprAssumption DEF WellFormed
  <2> QED BY <1>5, <2>1, <2>2 DEF Value
<1>6. CASE e.node = "name" /\ e.id \in DOMAIN Columns /\ Columns[e.id] # "Bool"
  <2>1. /\ pandas[e] = Value(Columns[e.id], row[e.id]) /\ spark[e] = Value("number", row[e.id])
        /\ Operand(e, row) = row[e.id]
    BY <1>2, <1>3, <1>6, ExprAssumption DEF PandasOf, SparkOf, SparkType, Operand
  <2>2. Columns[e.id] \in {"Int", "Float"}
    BY <1>6, ExprAssumption
  <2> QED BY <1>6, <2>1, <2>2 DEF Value, Full
<1>7. CASE e.node = "list" /\ ConstantsOnly(e)
  <2>1. /\ pandas[e] = Value("list", Literals(e)) /\ spark[e] = Value("list", Literals(e))
        /\ Operand(e, row) = Literals(e)
    BY <1>2, <1>3, <1>7 DEF PandasOf, SparkOf, Operand
  <2> QED BY <1>7, <2>1 DEF Value, IsNumber
<1> QED BY <1>5, <1>6, <1>7 DEF IsSide, IsNumber

\* The comparisons of a chain: what is left of each, whether it holds, whether
\* a number is missing on one of its sides, and the operators that take a list
\* or let a missing number pass.
Left(e, i) == IF i = 1 THEN e.left ELSE e.comparators[i - 1]
HoldsAt(e, i, row) == Holds(e.ops[i], Operand(Left(e, i), row), Operand(e.comparators[i], row))
MissesAt(e, i, row) ==
    \/ Operand(Left(e, i), row) = Null
    \/ e.comparators[i].node # "list" /\ Operand(e.comparators[i], row) = Null
IsMembership(op) == op \in {"in", "not in"}
LetsMissing(op) == op \in {"!=", "not in"}

\* The i-th comparison of a condition has a number on its left, and a list on
\* its right exactly if it is a membership.
LEMMA ChainSides ==
    ASSUME NEW e \in Exprs, e.node = "compare", IsTruth(e), Valid(e), NEW i \in 1 .. Len(e.ops)
    PROVE  /\ Left(e, i) \in Exprs /\ e.comparators[i] \in Exprs
           /\ Parts(e)[i] = Left(e, i) /\ Parts(e)[i + 1] = e.comparators[i]
           /\ IsNumber(Left(e, i))
           /\ IsSide(e.comparators[i])
           /\ e.comparators[i].node = "list" <=> IsMembership(e.ops[i])
<1>1. /\ Len(Parts(e)) = Len(e.ops) + 1 /\ Len(e.ops) \in Nat /\ DOMAIN e.ops = 1 .. Len(e.ops)
      /\ Parts(e)[1] = e.left
      /\ \A k \in 1 .. Len(e.ops) : Parts(e)[k + 1] = e.comparators[k]
  BY PartsAre
<1>2. DOMAIN Parts(e) = 1 .. Len(e.ops) + 1
  BY <1>1, PartsTyped
<1>3. i \in Nat /\ i \in DOMAIN Parts(e) /\ i + 1 \in DOMAIN Parts(e)
  BY <1>1, <1>2
<1>4. Parts(e)[i + 1] = e.comparators[i] /\ e.comparators[i] \in Exprs /\ Valid(e.comparators[i])
  BY <1>1, <1>3, PartsTyped, ValidParts
<1>5. Parts(e)[i] = Left(e, i) /\ Left(e, i) \in Exprs
  <2>1. CASE i = 1
    BY <1>1, <1>3, <2>1, PartsTyped DEF Left
  <2>2. CASE i # 1
    <3>1. i - 1 \in 1 .. Len(e.ops) /\ (i - 1) + 1 = i
      BY <1>1, <2>2
    <3>2. Parts(e)[i] = e.comparators[i - 1]
      BY <1>1, <3>1
    <3> QED BY <1>3, <2>2, <3>2, PartsTyped DEF Left
  <2> QED BY <2>1, <2>2
<1>6. /\ IsNumber(e.left)
      /\ \A k \in 1 .. Len(e.ops) :
           IF e.ops[k] \in {"in", "not in"}
           THEN k = Len(e.ops) /\ e.comparators[k].node = "list"
           ELSE IsNumber(e.comparators[k])
  BY <1>1 DEF IsTruth
<1>7. IsNumber(Left(e, i))
  <2>1. CASE i = 1
    BY <1>6, <2>1 DEF Left
  <2>2. CASE i # 1
    <3>1. i - 1 \in 1 .. Len(e.ops) /\ i - 1 # Len(e.ops)
      BY <1>1, <2>2
    <3> QED BY <1>6, <2>2, <3>1 DEF Left
  <2> QED BY <2>1, <2>2
<1>8. IsSide(e.comparators[i]) /\ (e.comparators[i].node = "list" <=> IsMembership(e.ops[i]))
  <2>1. Allowed(e.comparators[i])
    BY <1>4, ValidParts
  <2>2. CASE e.ops[i] \in {"in", "not in"}
    <3>1. e.comparators[i].node = "list"
      BY <1>6, <2>2
    <3> QED BY <2>1, <2>2, <3>1 DEF IsSide, Allowed, IsMembership
  <2>3. CASE e.ops[i] \notin {"in", "not in"}
    <3>1. IsNumber(e.comparators[i])
      BY <1>6, <2>3
    <3> QED BY <2>3, <3>1 DEF IsSide, IsNumber, IsMembership
  <2> QED BY <2>2, <2>3
<1> QED BY <1>4, <1>5, <1>7, <1>8

\* What both engines make of the i-th comparison: where nothing is missing,
\* whether it holds; where something is, Spark does not know and pandas lets
\* the row pass if the operator is a negative one.
LEMMA ChainValues ==
    ASSUME NEW row, RowTyped(row), NEW pandas, NEW spark, NEW truth,
           Evaluates(pandas, spark, truth, row),
           NEW e \in Exprs, e.node = "compare", IsTruth(e), Valid(e), NEW i \in 1 .. Len(e.ops)
    PROVE  LET l == Parts(e)[i]
               r == Parts(e)[i + 1]
               holds == HoldsAt(e, i, row)
               misses == MissesAt(e, i, row)
           IN  /\ ~IsError(pandas[l]) /\ ~IsError(pandas[r])
               /\ ~IsError(spark[l]) /\ ~IsError(spark[r])
               /\ ComparePandas(e.ops[i], pandas[l], pandas[r])
                    = Value("Bool", Truth(IF misses THEN LetsMissing(e.ops[i]) ELSE holds))
               /\ CompareSpark(e.ops[i], spark[l], spark[r])
                    = Value("boolean", IF misses THEN Null ELSE Truth(holds))
               /\ Full(row) => ~misses
<1> DEFINE l == Parts(e)[i]
           r == Parts(e)[i + 1]
<1>1. /\ l \in Exprs /\ r \in Exprs /\ l = Left(e, i) /\ r = e.comparators[i]
      /\ IsNumber(l) /\ IsSide(l) /\ IsSide(r)
      /\ r.node = "list" <=> IsMembership(e.ops[i])
  <2>1. /\ Left(e, i) \in Exprs /\ e.comparators[i] \in Exprs
        /\ l = Left(e, i) /\ r = e.comparators[i]
        /\ IsNumber(Left(e, i)) /\ IsSide(e.comparators[i])
        /\ e.comparators[i].node = "list" <=> IsMembership(e.ops[i])
    BY ChainSides
  <2> HIDE DEF l, r
  <2> QED BY <2>1 DEF IsSide
<1> HIDE DEF l, r
<1>2. /\ pandas[l].v = Operand(l, row) /\ spark[l].v = Operand(l, row)
      /\ pandas[l].type \in {"int", "Int", "Float"} /\ spark[l].type = "number"
      /\ Full(row) => Operand(l, row) # Null
  BY <1>1, SideValues
<1>3. /\ pandas[r].v = Operand(r, row) /\ spark[r].v = Operand(r, row)
      /\ r.node = "list" => pandas[r].type = "list" /\ spark[r].type = "list"
      /\ r.node # "list" =>
           /\ pandas[r].type \in {"int", "Int", "Float"} /\ spark[r].type = "number"
           /\ Full(row) => Operand(r, row) # Null
  <2>1. r.node # "list" => IsNumber(r)
    BY <1>1 DEF IsSide
  <2> QED BY <1>1, <2>1, SideValues
<1>4. /\ HoldsAt(e, i, row) = Holds(e.ops[i], Operand(l, row), Operand(r, row))
      /\ MissesAt(e, i, row) <=> \/ Operand(l, row) = Null
                                 \/ r.node # "list" /\ Operand(r, row) = Null
  BY <1>1 DEF HoldsAt, MissesAt
<1>5. /\ Missing(pandas[l]) \/ Missing(pandas[r]) <=> MissesAt(e, i, row)
      /\ Missing(spark[l]) \/ Missing(spark[r]) <=> MissesAt(e, i, row)
  BY <1>2, <1>3, <1>4 DEF Missing
<1>6. Comparable(e.ops[i], pandas[l], pandas[r]) /\ Comparable(e.ops[i], spark[l], spark[r])
  BY <1>1, <1>2, <1>3 DEF Comparable, IsMembership
<1>7. /\ ComparePandas(e.ops[i], pandas[l], pandas[r])
           = Value("Bool", Truth(IF MissesAt(e, i, row) THEN LetsMissing(e.ops[i]) ELSE HoldsAt(e, i, row)))
      /\ CompareSpark(e.ops[i], spark[l], spark[r])
           = Value("boolean", IF MissesAt(e, i, row) THEN Null ELSE Truth(HoldsAt(e, i, row)))
  BY <1>2, <1>3, <1>4, <1>5, <1>6 DEF ComparePandas, CompareSpark, LetsMissing
<1>8. ~IsError(pandas[l]) /\ ~IsError(pandas[r]) /\ ~IsError(spark[l]) /\ ~IsError(spark[r])
  BY <1>2, <1>3 DEF IsError
<1>9. Full(row) => ~MissesAt(e, i, row)
  BY <1>2, <1>3, <1>4
<1> QED BY <1>7, <1>8, <1>9 DEF l, r

\* What a condition that is a comparison comes to.
LEMMA CompareValue ==
    ASSUME NEW row, RowTyped(row), NEW pandas, NEW spark, NEW truth,
           Evaluates(pandas, spark, truth, row),
           NEW e \in Exprs, e.node = "compare", IsTruth(e), Valid(e)
    PROVE  /\ pandas[e].type = "Bool" /\ pandas[e].v \in {0, 1}
           /\ spark[e].type = "boolean" /\ spark[e].v \in {0, 1, Null}
           /\ Full(row) \/ Positive(e) => (spark[e].v = 1 <=> pandas[e].v = 1)
           /\ Full(row) => spark[e].v # Null /\ (pandas[e].v = 1 <=> truth[e] = 1)
<1> DEFINE ps == [i \in DOMAIN Parts(e) |-> pandas[Parts(e)[i]]]
           ss == [i \in DOMAIN Parts(e) |-> spark[Parts(e)[i]]]
           ts == [i \in DOMAIN Parts(e) |-> truth[Parts(e)[i]]]
           P == {pandas[Parts(e)[i]] : i \in DOMAIN Parts(e)}
           Q == {spark[Parts(e)[i]] : i \in DOMAIN Parts(e)}
           n == Len(e.ops)
           holds(i) == HoldsAt(e, i, row)
           misses(i) == MissesAt(e, i, row)
           pcs == [i \in DOMAIN Pairs(ps) |-> ComparePandas(e.ops[i], Pairs(ps)[i][1], Pairs(ps)[i][2])]
           scs == [i \in DOMAIN Pairs(ss) |-> CompareSpark(e.ops[i], Pairs(ss)[i][1], Pairs(ss)[i][2])]
<1>1. pandas[e] = PandasOf(e, row, ps) /\ spark[e] = SparkOf(e, row, ss) /\ truth[e] = TruthOf(e, row, ts)
  BY DEF Evaluates
<1>2. Len(Parts(e)) = n + 1 /\ n \in Nat /\ n > 0 /\ DOMAIN e.ops = 1 .. n
  BY PartsAre
<1>3. /\ ps \in Seq(P) /\ Len(ps) = n + 1 /\ DOMAIN ps = 1 .. n + 1
      /\ \A i \in 1 .. n + 1 : ps[i] = pandas[Parts(e)[i]]
  BY <1>2, PartValues
<1>4. /\ ss \in Seq(Q) /\ Len(ss) = n + 1 /\ DOMAIN ss = 1 .. n + 1
      /\ \A i \in 1 .. n + 1 : ss[i] = spark[Parts(e)[i]]
  BY <1>2, PartValues
<1>5. ASSUME NEW i \in 1 .. n
      PROVE  /\ ~IsError(pandas[Parts(e)[i]]) /\ ~IsError(pandas[Parts(e)[i + 1]])
             /\ ~IsError(spark[Parts(e)[i]]) /\ ~IsError(spark[Parts(e)[i + 1]])
             /\ ComparePandas(e.ops[i], pandas[Parts(e)[i]], pandas[Parts(e)[i + 1]])
                  = Value("Bool", Truth(IF misses(i) THEN LetsMissing(e.ops[i]) ELSE holds(i)))
             /\ CompareSpark(e.ops[i], spark[Parts(e)[i]], spark[Parts(e)[i + 1]])
                  = Value("boolean", IF misses(i) THEN Null ELSE Truth(holds(i)))
             /\ Full(row) => ~misses(i)
  BY ChainValues
<1> HIDE DEF ps, ss, ts, P, Q, holds, misses
<1>6. ~SomeError(ps) /\ ~SomeError(ss)
  <2> SUFFICES ASSUME NEW k \in 1 .. n + 1 PROVE ~IsError(ps[k]) /\ ~IsError(ss[k])
    BY <1>3, <1>4 DEF SomeError
  <2>1. CASE k = 1
    <3>1. 1 \in 1 .. n
      BY <1>2
    <3> QED BY <1>3, <1>4, <1>5, <2>1, <3>1
  <2>2. CASE k # 1
    <3>1. k - 1 \in 1 .. n /\ (k - 1) + 1 = k
      BY <1>2, <2>2
    <3>2. ~IsError(pandas[Parts(e)[k]]) /\ ~IsError(spark[Parts(e)[k]])
      BY <1>5, <3>1
    <3> QED BY <1>3, <1>4, <3>2
  <2> QED BY <2>1, <2>2
<1>7. /\ DOMAIN Pairs(ps) = 1 .. n /\ DOMAIN Pairs(ss) = 1 .. n
      /\ \A i \in 1 .. n : /\ Pairs(ps)[i][1] = ps[i] /\ Pairs(ps)[i][2] = ps[i + 1]
                           /\ Pairs(ss)[i][1] = ss[i] /\ Pairs(ss)[i][2] = ss[i + 1]
  BY <1>2, <1>3, <1>4, PairsAre
<1>8. /\ DOMAIN pcs = 1 .. n /\ DOMAIN scs = 1 .. n
      /\ \A i \in 1 .. n :
           /\ pcs[i] = Value("Bool", Truth(IF misses(i) THEN LetsMissing(e.ops[i]) ELSE holds(i)))
           /\ scs[i] = Value("boolean", IF misses(i) THEN Null ELSE Truth(holds(i)))
  <2>1. \A i \in 1 .. n : i \in 1 .. n + 1 /\ i + 1 \in 1 .. n + 1
    BY <1>2
  <2>2. DOMAIN pcs = 1 .. n /\ DOMAIN scs = 1 .. n
    BY <1>7
  <2>3. ASSUME NEW i \in 1 .. n
        PROVE  /\ pcs[i] = ComparePandas(e.ops[i], pandas[Parts(e)[i]], pandas[Parts(e)[i + 1]])
               /\ scs[i] = CompareSpark(e.ops[i], spark[Parts(e)[i]], spark[Parts(e)[i + 1]])
    BY <1>3, <1>4, <1>7, <2>1
  <2> HIDE DEF pcs, scs
  <2> QED BY <1>5, <2>2, <2>3
<1>9. pandas[e] = All(pcs) /\ spark[e] = IF SomeError(scs) THEN FirstError(scs) ELSE Junction("and", scs)
  BY <1>1, <1>6 DEF PandasOf, SparkOf
<1>10. truth[e] = Truth(\A i \in 1 .. n : holds(i))
  BY <1>1, <1>2 DEF TruthOf, HoldsAt, Left, holds
<1> HIDE DEF pcs, scs, n
<1>11. Null # 0 /\ Null # 1
  BY ExprAssumption
<1>12. \A i \in 1 .. n : /\ pcs[i].type = "Bool"
                         /\ pcs[i].v = 1 <=> IF misses(i) THEN LetsMissing(e.ops[i]) ELSE holds(i)
                         /\ scs[i].type = "boolean" /\ scs[i].v \in {0, 1, Null}
                         /\ scs[i].v = 1 <=> ~misses(i) /\ holds(i)
                         /\ scs[i].v # Null <=> ~misses(i)
  BY <1>8, <1>11 DEF Value, Truth
<1>13. /\ pandas[e].type = "Bool" /\ pandas[e].v \in {0, 1}
       /\ pandas[e].v = 1 <=> \A i \in 1 .. n : pcs[i].v = 1
  <2>1. ~SomeError(pcs)
    BY <1>8, <1>12 DEF SomeError, IsError
  <2> QED BY <1>8, <1>9, <2>1 DEF All, Value, Truth
<1>14. /\ spark[e].type = "boolean" /\ spark[e].v \in {0, 1, Null}
       /\ (\A i \in 1 .. n : scs[i].v # Null) => spark[e].v # Null
       /\ spark[e].v = 1 <=> \A i \in 1 .. n : scs[i].v = 1
  <2>1. ~SomeError(scs)
    BY <1>8, <1>12 DEF SomeError, IsError
  <2>2. spark[e] = Junction("and", scs)
    BY <1>9, <2>1
  <2>3. /\ Junction("and", scs).type = "boolean" /\ Junction("and", scs).v \in {0, 1, Null}
        /\ (\A i \in DOMAIN scs : scs[i].v # Null) => Junction("and", scs).v # Null
        /\ Junction("and", scs).v = 1 <=> \A i \in DOMAIN scs : scs[i].v = 1
    BY <1>8, <1>12, JunctionTruths
  <2> QED BY <1>8, <2>2, <2>3
<1>15. ASSUME Positive(e), NEW i \in 1 .. n PROVE ~LetsMissing(e.ops[i])
  BY <1>2, <1>15, NodesOfParts DEF Positive, LetsMissing, n
<1>16. Full(row) => \A i \in 1 .. n : ~misses(i)
  BY <1>5 DEF n
<1>17. truth[e] = 1 <=> \A i \in 1 .. n : holds(i)
  BY <1>10 DEF Truth, n
<1>18. Full(row) \/ Positive(e) => \A i \in 1 .. n : scs[i].v = 1 <=> pcs[i].v = 1
  BY <1>12, <1>15, <1>16
<1>19. Full(row) => \A i \in 1 .. n : scs[i].v # Null /\ (pcs[i].v = 1 <=> holds(i))
  BY <1>12, <1>16
<1> QED BY <1>13, <1>14, <1>17, <1>18, <1>19

\* Leaves of a condition: boolean columns and literals.
LEMMA LeafValue ==
    ASSUME NEW row, RowTyped(row), NEW pandas, NEW spark, NEW truth,
           Evaluates(pandas, spark, truth, row),
           NEW e \in Exprs, e.node \in {"name", "const"}, IsTruth(e)
    PROVE  /\ pandas[e].type = IF e.node = "name" THEN "Bool" ELSE "bool"
           /\ pandas[e].v \in {0, 1}
           /\ spark[e].type = "boolean" /\ spark[e].v = pandas[e].v
           /\ spark[e].v # Null
           /\ pandas[e].v = 1 <=> truth[e] = 1
<1> DEFINE ps == [i \in DOMAIN Parts(e) |-> pandas[Parts(e)[i]]]
           ss == [i \in DOMAIN Parts(e) |-> spark[Parts(e)[i]]]
           ts == [i \in DOMAIN Parts(e) |-> truth[Parts(e)[i]]]
<1>1. pandas[e] = PandasOf(e, row, ps) /\ spark[e] = SparkOf(e, row, ss) /\ truth[e] = TruthOf(e, row, ts)
  BY DEF Evaluates
<1>2. ~SomeError(ps) /\ ~SomeError(ss)
  <2>1. Parts(e) = <<>>
    BY DEF Parts
  <2>2. DOMAIN ps = {} /\ DOMAIN ss = {}
    BY <2>1
  <2> QED BY <2>2 DEF SomeError
<1> HIDE DEF ps, ss, ts
<1>3. Null # 0 /\ Null # 1
  BY ExprAssumption
<1>4. truth[e] = Truth(Operand(e, row) # 0)
  BY <1>1 DEF TruthOf
<1>5. CASE e.node = "name"
  <2>1. e.id \in DOMAIN Columns /\ Columns[e.id] = "Bool"
    BY <1>5 DEF IsTruth
  <2>2. row[e.id] \in {0, 1}
    BY <2>1 DEF RowTyped
  <2>3. /\ pandas[e] = Value("Bool", row[e.id]) /\ spark[e] = Value("boolean", row[e.id])
        /\ Operand(e, row) = row[e.id]
    BY <1>1, <1>2, <1>5, <2>1 DEF PandasOf, SparkOf, SparkType, Operand
  <2> QED BY <1>3, <1>4, <1>5, <2>2, <2>3 DEF Value, Truth
<1>6. CASE e.node = "const"
  <2>1. e.type = "bool" /\ e.value \in {0, 1}
    <3>1. WellFormed(e)
      BY ExprAssumption
    <3> QED BY <1>6, <3>1 DEF IsTruth, WellFormed
  <2>2. /\ pandas[e] = Value("bool", e.value) /\ spark[e] = Value("boolean", e.value)
        /\ Operand(e, row) = e.value
    BY <1>1, <1>2, <1>6, <2>1 DEF PandasOf, SparkOf, SparkType, Operand
  <2> QED BY <1>3, <1>4, <1>6, <2>1, <2>2 DEF Value, Truth
<1> QED BY <1>5, <1>6

\* A condition comes to a Series of truths or a scalar, never to an error.
LEMMA ConditionTypes ==
    ASSUME NEW row, RowTyped(row), NEW pandas, NEW spark, NEW truth,
           Evaluates(pandas, spark, truth, row)
    PROVE  \A e \in Exprs : IsCondition(e) => pandas[e].type \in {"Bool", "bool", "int"}
<1> DEFINE S == {e \in Exprs : IsCondition(e) => pandas[e].type \in {"Bool", "bool", "int"}}
<1>1. ASSUME NEW e \in Exprs, \A i \in DOMAIN Parts(e) : Parts(e)[i] \in S PROVE e \in S
  <2> SUFFICES ASSUME IsCondition(e) PROVE pandas[e].type \in {"Bool", "bool", "int"}
    OBVIOUS
  <2> DEFINE ps == [i \in DOMAIN Parts(e) |-> pandas[Parts(e)[i]]]
             P == {pandas[Parts(e)[i]] : i \in DOMAIN Parts(e)}
  <2>1. /\ IsTruth(e) /\ Valid(e)
        /\ e.node \in {"bool", "unary"} => \A i \in DOMAIN Parts(e) : IsCondition(Parts(e)[i])
    BY NodesSay DEF IsCondition
  <2>2. /\ ps \in Seq(P) /\ Len(ps) = Len(Parts(e)) /\ Len(ps) \in Nat
        /\ DOMAIN ps = 1 .. Len(ps) /\ DOMAIN Parts(e) = 1 .. Len(ps)
        /\ \A i \in 1 .. Len(ps) : ps[i] = pandas[Parts(e)[i]]
    BY PartValues
  <2>3. pandas[e] = PandasOf(e, row, ps)
    BY DEF Evaluates
  <2> HIDE DEF ps, P
  <2>4. CASE e.node \in {"name", "const"}
    BY <2>1, <2>4, LeafValue
  <2>5. CASE e.node = "compare"
    BY <2>1, <2>5, CompareValue
  <2>6. CASE e.node \in {"bool", "unary"}
    <3>1. \A i \in 1 .. Len(ps) : ps[i].type \in {"Bool", "bool", "int"}
      BY <1>1, <2>1, <2>2, <2>6
    <3>2. ~SomeError(ps)
      BY <2>2, <3>1 DEF SomeError, IsError
    <3>3. CASE e.node = "bool"
      <4>1. pandas[e] = Joined(e.op, ps) /\ Len(ps) > 0
        BY <2>2, <2>3, <3>2, <3>3, PartsAre DEF PandasOf
      <4> QED BY <2>2, <3>1, <4>1, JoinedTypes
    <3>4. CASE e.node = "unary"
      <4>1. pandas[e] = Invert(ps[1])
        BY <2>3, <3>2, <3>4 DEF PandasOf
      <4>2. ps[1].type \in {"Bool", "bool", "int"}
        BY <2>2, <3>1, <3>4, PartsAre
      <4> QED BY <4>1, <4>2 DEF Invert, IsScalar, Value
    <3> QED BY <2>6, <3>3, <3>4
  <2> QED BY <2>1, <2>4, <2>5, <2>6 DEF IsTruth
<1>2. Exprs \subseteq S
  <2> HIDE DEF S
  <2> QED BY <1>1, ExprInduction
<1> QED BY <1>2

\* What a condition comes to in pandas, in Spark and in Python.
Agree(p, s, t, literal, full) ==
    /\ p.type \in {"Bool", "bool"} /\ p.v \in {0, 1}
    /\ ~literal => p.type = "Bool"
    /\ s.type = "boolean" /\ s.v \in {0, 1, Null}
    /\ s.v = 1 <=> p.v = 1
    /\ full => s.v # Null /\ (p.v = 1 <=> t = 1)

\* "and" and "or" keep the agreement of their parts.
LEMMA BoolAgrees ==
    ASSUME NEW row, NEW pandas, NEW spark, NEW truth, Evaluates(pandas, spark, truth, row),
           NEW e \in Exprs, e.node = "bool",
           \A i \in DOMAIN Parts(e) :
               Agree(pandas[Parts(e)[i]], spark[Parts(e)[i]], truth[Parts(e)[i]],
                     IsLiteral(Parts(e)[i]), Full(row))
    PROVE  Agree(pandas[e], spark[e], truth[e], IsLiteral(e), Full(row))
<1> DEFINE ps == [i \in DOMAIN Parts(e) |-> pandas[Parts(e)[i]]]
           ss == [i \in DOMAIN Parts(e) |-> spark[Parts(e)[i]]]
           ts == [i \in DOMAIN Parts(e) |-> truth[Parts(e)[i]]]
           P == {pandas[Parts(e)[i]] : i \in DOMAIN Parts(e)}
           n == Len(Parts(e))
<1>1. pandas[e] = PandasOf(e, row, ps) /\ spark[e] = SparkOf(e, row, ss) /\ truth[e] = TruthOf(e, row, ts)
  BY DEF Evaluates
<1>2. /\ ps \in Seq(P) /\ Len(ps) = n /\ n \in Nat /\ n > 0 /\ DOMAIN ps = 1 .. n
      /\ DOMAIN Parts(e) = 1 .. n /\ \A i \in 1 .. n : ps[i] = pandas[Parts(e)[i]]
  BY PartValues, PartsAre
<1>3. DOMAIN ss = 1 .. n /\ \A i \in 1 .. n : ss[i] = spark[Parts(e)[i]]
  BY <1>2
<1>4. DOMAIN ts = 1 .. n /\ \A i \in 1 .. n : ts[i] = truth[Parts(e)[i]]
  BY <1>2
<1>5. e.op = "and" \/ e.op = "or"
  BY PartsAre
<1> HIDE DEF ps, ss, ts, P, n
<1>6. \A i \in 1 .. n : Agree(ps[i], ss[i], ts[i], IsLiteral(Parts(e)[i]), Full(row))
  BY <1>2, <1>3, <1>4
<1>7. /\ \A i \in 1 .. n : ps[i].type \in {"Bool", "bool"} /\ ps[i].v \in {0, 1}
      /\ \A i \in 1 .. n : ss[i].type = "boolean" /\ ss[i].v \in {0, 1, Null}
  BY <1>6 DEF Agree
<1>8. ~SomeError(ps) /\ ~SomeError(ss)
  BY <1>2, <1>3, <1>7 DEF SomeError, IsError
<1>9. pandas[e] = Joined(e.op, ps) /\ spark[e] = Junction(e.op, ss)
  BY <1>1, <1>8 DEF PandasOf, SparkOf
<1>10. /\ pandas[e].type \in {"Bool", "bool"} /\ pandas[e].v \in {0, 1}
       /\ (\E i \in 1 .. n : ps[i].type = "Bool") => pandas[e].type = "Bool"
       /\ e.op = "and" => (pandas[e].v = 1 <=> \A i \in 1 .. n : ps[i].v = 1)
       /\ e.op = "or" => (pandas[e].v = 1 <=> \E i \in 1 .. n : ps[i].v = 1)
  BY <1>2, <1>5, <1>7, <1>9, JoinedTruths
<1>11. /\ spark[e].type = "boolean" /\ spark[e].v \in {0, 1, Null}
       /\ (\A i \in 1 .. n : ss[i].v # Null) => spark[e].v # Null
       /\ e.op = "and" => (spark[e].v = 1 <=> \A i \in 1 .. n : ss[i].v = 1)
       /\ e.op = "or" => (spark[e].v = 1 <=> \E i \in 1 .. n : ss[i].v = 1)
  <2>1. \A i \in DOMAIN ss : ss[i].type = "boolean" /\ ss[i].v \in {0, 1, Null}
    BY <1>3, <1>7
  <2>2. /\ Junction(e.op, ss).type = "boolean" /\ Junction(e.op, ss).v \in {0, 1, Null}
        /\ (\A i \in DOMAIN ss : ss[i].v # Null) => Junction(e.op, ss).v # Null
        /\ e.op = "and" => (Junction(e.op, ss).v = 1 <=> \A i \in DOMAIN ss : ss[i].v = 1)
        /\ e.op = "or" => (Junction(e.op, ss).v = 1 <=> \E i \in DOMAIN ss : ss[i].v = 1)
    BY <1>5, <2>1, JunctionTruths
  <2> QED BY <1>3, <1>9, <2>2
<1>12. /\ e.op = "and" => (truth[e] = 1 <=> \A i \in 1 .. n : ts[i] = 1)
       /\ e.op = "or" => (truth[e] = 1 <=> \E i \in 1 .. n : ts[i] = 1)
  BY <1>1, <1>4 DEF TruthOf, Truth
<1>13. ~IsLiteral(e) => \E i \in 1 .. n : ps[i].type = "Bool"
  <2>1. ~IsLiteral(e) => \E i \in 1 .. n : ~IsLiteral(Parts(e)[i])
    BY <1>2, NodesSay
  <2> QED BY <1>6, <2>1 DEF Agree
<1>14. /\ \A i \in 1 .. n : ss[i].v = 1 <=> ps[i].v = 1
       /\ Full(row) => \A i \in 1 .. n : ss[i].v # Null /\ (ps[i].v = 1 <=> ts[i] = 1)
  BY <1>6 DEF Agree
<1> QED BY <1>5, <1>10, <1>11, <1>12, <1>13, <1>14 DEF Agree

\* So does "not" where nothing is missing, if there is a column in its part:
\* then pandas negates a Series, and not a scalar of Python.
LEMMA NotAgrees ==
    ASSUME NEW row, NEW pandas, NEW spark, NEW truth, Evaluates(pandas, spark, truth, row),
           NEW e \in Exprs, e.node = "unary", ~IsLiteral(e), Full(row),
           Agree(pandas[Parts(e)[1]], spark[Parts(e)[1]], truth[Parts(e)[1]],
                 IsLiteral(Parts(e)[1]), Full(row))
    PROVE  Agree(pandas[e], spark[e], truth[e], IsLiteral(e), Full(row))
<1> DEFINE ps == [i \in DOMAIN Parts(e) |-> pandas[Parts(e)[i]]]
           ss == [i \in DOMAIN Parts(e) |-> spark[Parts(e)[i]]]
           ts == [i \in DOMAIN Parts(e) |-> truth[Parts(e)[i]]]
           p == pandas[Parts(e)[1]]
           s == spark[Parts(e)[1]]
           t == truth[Parts(e)[1]]
<1>1. pandas[e] = PandasOf(e, row, ps) /\ spark[e] = SparkOf(e, row, ss) /\ truth[e] = TruthOf(e, row, ts)
  BY DEF Evaluates
<1>2. DOMAIN Parts(e) = {1}
  <2>1. DOMAIN Parts(e) = 1 .. Len(Parts(e)) /\ Len(Parts(e)) = 1
    BY PartsTyped, PartsAre
  <2> QED BY <2>1
<1>3. /\ DOMAIN ps = {1} /\ ps[1] = p /\ DOMAIN ss = {1} /\ ss[1] = s
      /\ ts[1] = t
  BY <1>2
<1>4. p.type = "Bool" /\ p.v \in {0, 1} /\ s.type = "boolean" /\ s.v \in {0, 1}
      /\ (s.v = 1 <=> p.v = 1) /\ (p.v = 1 <=> t = 1)
  <2>1. ~IsLiteral(Parts(e)[1])
    BY <1>2, NodesSay
  <2> QED BY <2>1 DEF Agree
<1>5. t \in {0, 1}
  <2>1. Parts(e)[1] \in Exprs
    BY <1>2, PartsTyped
  <2>2. t = TruthOf(Parts(e)[1], row, [i \in DOMAIN Parts(Parts(e)[1]) |-> truth[Parts(Parts(e)[1])[i]]])
    BY <2>1 DEF Evaluates
  <2> HIDE DEF t
  <2> QED BY <2>2 DEF TruthOf, Truth
<1> HIDE DEF ps, ss, ts, p, s, t
<1>6. ~SomeError(ps) /\ ~SomeError(ss)
  BY <1>3, <1>4 DEF SomeError, IsError
<1>7. s.v # Null /\ 0 # Null /\ 1 # Null
  BY <1>4, ExprAssumption
<1>8. pandas[e] = Value("Bool", 1 - p.v) /\ spark[e] = Value("boolean", 1 - s.v)
  BY <1>1, <1>3, <1>4, <1>6, <1>7 DEF PandasOf, SparkOf, Invert, IsScalar
<1>9. truth[e] = Truth(t = 0)
  BY <1>1, <1>3 DEF TruthOf
<1> QED BY <1>4, <1>5, <1>7, <1>8, <1>9 DEF Agree, Value, Truth

\* The engines agree on every condition, by induction over trees.
LEMMA ConditionTruths ==
    ASSUME NEW row, RowTyped(row), NEW pandas, NEW spark, NEW truth,
           Evaluates(pandas, spark, truth, row)
    PROVE  \A e \in Exprs : IsCondition(e) /\ ~NegatesLiteral(e) /\ (Full(row) \/ Positive(e)) =>
             Agree(pandas[e], spark[e], truth[e], IsLiteral(e), Full(row))
<1> DEFINE H(e) == IsCondition(e) /\ ~NegatesLiteral(e) /\ (Full(row) \/ Positive(e))
           G(e) == Agree(pandas[e], spark[e], truth[e], IsLiteral(e), Full(row))
           S == {e \in Exprs : H(e) => G(e)}
<1>1. ASSUME NEW e \in Exprs, \A i \in DOMAIN Parts(e) : Parts(e)[i] \in S PROVE e \in S
  <2> SUFFICES ASSUME H(e) PROVE G(e)
    OBVIOUS
  <2>1. /\ IsTruth(e) /\ Valid(e)
        /\ e.node \in {"bool", "unary"} => \A i \in DOMAIN Parts(e) : H(Parts(e)[i])
    BY NodesSay DEF IsCondition
  <2> HIDE DEF H
  <2>2. e.node \in {"bool", "unary"} => \A i \in DOMAIN Parts(e) : G(Parts(e)[i])
    BY <1>1, <2>1
  <2>3. CASE e.node \in {"name", "const"}
    <3>1. e.node = "const" => IsLiteral(e)
      <4>1. e.node = "const" => Parts(e) = <<>>
        BY DEF Parts
      <4> QED BY <4>1, NodesSay
    <3>2. /\ pandas[e].type = IF e.node = "name" THEN "Bool" ELSE "bool"
          /\ pandas[e].v \in {0, 1}
          /\ spark[e].type = "boolean" /\ spark[e].v = pandas[e].v
          /\ spark[e].v # Null
          /\ pandas[e].v = 1 <=> truth[e] = 1
      BY <2>1, <2>3, LeafValue
    <3> QED BY <2>3, <3>1, <3>2 DEF Agree
  <2>4. CASE e.node = "compare"
    <3>1. /\ pandas[e].type = "Bool" /\ pandas[e].v \in {0, 1}
          /\ spark[e].type = "boolean" /\ spark[e].v \in {0, 1, Null}
          /\ Full(row) \/ Positive(e) => (spark[e].v = 1 <=> pandas[e].v = 1)
          /\ Full(row) => spark[e].v # Null /\ (pandas[e].v = 1 <=> truth[e] = 1)
      BY <2>1, <2>4, CompareValue
    <3>2. Full(row) \/ Positive(e)
      BY DEF H
    <3> QED BY <3>1, <3>2 DEF Agree
  <2>5. CASE e.node = "bool"
    BY <2>2, <2>5, BoolAgrees
  <2>6. CASE e.node = "unary"
    <3>1. ~Positive(e)
      BY <2>6, NodesOfParts DEF Positive
    <3>2. Full(row) /\ ~IsLiteral(e)
      BY <2>6, <3>1, NodesSay DEF H
    <3>3. 1 \in DOMAIN Parts(e)
      BY <2>6, PartsTyped, PartsAre
    <3> QED BY <2>2, <2>6, <3>2, <3>3, NotAgrees
  <2> QED BY <2>1, <2>3, <2>4, <2>5, <2>6 DEF IsTruth
<1>2. Exprs \subseteq S
  <2> HIDE DEF S
  <2> QED BY <1>1, ExprInduction
<1> QED BY <1>2

\* The values the model computes.
AreValues(pandas, spark, truth, row) ==
    /\ Evaluates(pandas, spark, truth, row)
    /\ \A e \in Exprs :
         /\ EvalPandas(e, row) = pandas[e]
         /\ EvalSpark(e, row) = spark[e]
         /\ Means(e, row) <=> truth[e] = 1

\* The values of all expressions on a row are those their parts give them.
LEMMA ValuesExist ==
    ASSUME NEW row
    PROVE  \E pandas, spark, truth : AreValues(pandas, spark, truth, row)
<1>1. PICK pandas : \A e \in Exprs :
        /\ EvalPandas(e, row) = pandas[e]
        /\ pandas[e] = PandasOf(e, row, [i \in DOMAIN Parts(e) |-> pandas[Parts(e)[i]]])
  BY PandasSteps
<1>2. PICK spark : \A e \in Exprs :
        /\ EvalSpark(e, row) = spark[e]
        /\ spark[e] = SparkOf(e, row, [i \in DOMAIN Parts(e) |-> spark[Parts(e)[i]]])
  BY SparkSteps
<1>3. PICK truth : \A e \in Exprs :
        /\ Means(e, row) <=> truth[e] = 1
        /\ truth[e] = TruthOf(e, row, [i \in DOMAIN Parts(e) |-> truth[Parts(e)[i]]])
  BY TruthSteps
<1>4. Evaluates(pandas, spark, truth, row)
  BY <1>1, <1>2, <1>3 DEF Evaluates
<1>5. AreValues(pandas, spark, truth, row)
  BY <1>1, <1>2, <1>3, <1>4 DEF AreValues
<1> QED BY <1>5

\* Both engines keep a row that a condition is true for in Python.
LEMMA ConditionMeans ==
    ASSUME NEW row, RowTyped(row), NEW e \in Exprs, IsCondition(e), ~NegatesLiteral(e),
           Full(row) \/ Positive(e)
    PROVE  /\ MaskSpark(e, row) = MaskPandas(e, row)
           /\ Full(row) => MaskPandas(e, row) = IF Means(e, row) THEN "kept" ELSE "dropped"
<1>1. PICK pandas, spark, truth : AreValues(pandas, spark, truth, row)
  BY ValuesExist
<1> DEFINE p == EvalPandas(e, row)
           s == EvalSpark(e, row)
<1>2. p = pandas[e] /\ s = spark[e] /\ (Means(e, row) <=> truth[e] = 1)
  BY <1>1 DEF AreValues
<1>3. Agree(pandas[e], spark[e], truth[e], IsLiteral(e), Full(row))
  BY <1>1, ConditionTruths DEF AreValues
<1>4. /\ p.type \in {"Bool", "bool"} /\ p.v \in {0, 1} /\ s.type = "boolean"
      /\ s.v = 1 <=> p.v = 1
      /\ Full(row) => (p.v = 1 <=> Means(e, row))
      /\ ~IsError(p) /\ (p.type = "Bool" \/ IsScalar(p))
  BY <1>2, <1>3 DEF Agree, IsError, IsScalar
<1>5. /\ MaskPandas(e, row) = CASE IsError(p) -> "fails"
                                [] p.type = "Bool" -> IF p.v = 1 THEN "kept" ELSE "dropped"
                                [] IsScalar(p) -> IF p.v # 0 THEN "kept" ELSE "dropped"
                                [] OTHER -> "fails"
      /\ MaskSpark(e, row) = CASE s.type # "boolean" -> "fails"
                               [] s.v = 1 -> "kept"
                               [] OTHER -> "dropped"
  BY DEF MaskPandas, MaskSpark
<1> HIDE DEF p, s
<1>6. MaskPandas(e, row) = IF p.v = 1 THEN "kept" ELSE "dropped"
  BY <1>4, <1>5
<1>7. MaskSpark(e, row) = IF s.v = 1 THEN "kept" ELSE "dropped"
  BY <1>4, <1>5
<1> QED BY <1>4, <1>6, <1>7

\* A condition never fails.
LEMMA ConditionSucceeds ==
    ASSUME NEW row, RowTyped(row), NEW e \in Exprs, IsCondition(e)
    PROVE  MaskPandas(e, row) # "fails"
<1>1. PICK pandas, spark, truth : AreValues(pandas, spark, truth, row)
  BY ValuesExist
<1> DEFINE p == EvalPandas(e, row)
<1>2. p = pandas[e]
  BY <1>1 DEF AreValues
<1>3. ~IsError(p) /\ (p.type = "Bool" \/ IsScalar(p))
  <2>1. p.type \in {"Bool", "bool", "int"}
    BY <1>1, <1>2, ConditionTypes DEF AreValues
  <2> QED BY <2>1 DEF IsError, IsScalar
<1>4. MaskPandas(e, row) = CASE IsError(p) -> "fails"
                             [] p.type = "Bool" -> IF p.v = 1 THEN "kept" ELSE "dropped"
                             [] IsScalar(p) -> IF p.v # 0 THEN "kept" ELSE "dropped"
                             [] OTHER -> "fails"
  BY DEF MaskPandas
<1> HIDE DEF p
<1> QED BY <1>3, <1>4

\* A filter (CodeExecutor._execute_ast_filter) keeps the rows its condition is
\* true for in Python, in pandas and in Spark alike, when nothing is missing;
\* with missing values the engines agree on what negates nothing; a condition
\* never fails, and all rows it keeps are counted.  For every condition,
\* whatever its height, every frame and every limit.
THEOREM FiltersMean == Spec => []FilterMeans
<1>1. FilterInv => FilterMeans
  <2> SUFFICES ASSUME FilterInv, engine = "ast_filter", IsCondition(code) PROVE FilterMeans
    BY DEF FilterMeans
  <2>1. code \in Conditions /\ code \in Exprs /\ Valid(code) /\ Accepts(code)
    BY ConditionAssumption DEF FilterInv, IsCondition
  <2>2. ASSUME NEW i \in DOMAIN passed
        PROVE  /\ passed[i] \in Rows
               /\ RowTyped(passed[i])
               /\ Mask(code, passed[i]) = MaskPandas(code, passed[i])
               /\ ~HasNull(passed[i]) <=> Full(passed[i])
    <3>1. passed[i] \in Rows
      BY DEF FilterInv, ExecutorInv
    <3>2. DOMAIN passed[i] = DOMAIN Columns /\ RowTyped(passed[i])
      BY <3>1, ConditionAssumption DEF RowTyped
    <3>3. Mask(code, passed[i]) = MaskPandas(code, passed[i])
      BY <2>1, <3>1, ConditionAssumption
    <3> QED BY <3>1, <3>2, <3>3 DEF HasNull, Full
  <2>3. ASSUME ~NegatesLiteral(code), NEW i \in DOMAIN passed
        PROVE  LET row == passed[i]
                   pandas == MaskPandas(code, row)
                   spark == MaskSpark(code, row)
               IN  /\ ~HasNull(row) =>
                        /\ pandas = IF Means(code, row) THEN "kept" ELSE "dropped"
                        /\ spark = pandas
                   /\ Positive(code) => spark = pandas
    BY <2>1, <2>2, <2>3, ConditionMeans
  <2>4. ASSUME step = "done"
        PROVE  output.status = "succeeded" /\ output.rowCount = Cardinality(Kept(passed))
    <3>1. Passes
      BY <2>1, <2>2, ConditionSucceeds DEF Passes
    <3>2. output.status = "succeeded" /\ output.rowCount = Len(Taken(passed, MaskKept))
      BY <2>4, <3>1 DEF FilterInv
    <3>3. MaskKept = Kept(passed) /\ MaskKept \cap DOMAIN passed = MaskKept
      BY <2>2 DEF MaskKept, Kept
    <3>4. Len(Taken(passed, MaskKept)) = Cardinality(MaskKept \cap DOMAIN passed)
      BY TakenLen DEF FilterInv, ExecutorInv
    <3> QED BY <3>2, <3>3, <3>4
  <2> QED BY <2>3, <2>4 DEF FilterMeans
<1> QED BY <1>1, FilterInvariant, PTL

-----------------------------------------------------------------------------
(***************************************************************************)
(* Capacity                                                                *)
(***************************************************************************)

\* A product grows with its second factor.
LEMMA ProductMonotone ==
    ASSUME NEW d \in Nat, NEW a \in Nat, NEW b \in Nat, a <= b
    PROVE  d * a <= d * b
<1>1. PICK k \in Nat : b = a + k
  <2> WITNESS b - a \in Nat
  <2> QED OBVIOUS
<1>2. d * b = d * a + d * k
  BY <1>1
<1>3. d * a \in Nat /\ d * k \in Nat
  OBVIOUS
<1> QED BY <1>2, <1>3

\* What the router sends to Tier 0 (evaluate_tier) is never reported as having
\* consumed more there than a Spark cluster would have (calculate_metrics),
\* rounding included, so the cost avoided is never clipped at zero.
THEOREM RoutedIsEconomical ==
    ASSUME NEW preferred, NEW rows \in Nat, NEW mb \in Nat, NEW ms \in Nat,
           NEW units \in Int, NEW equivalent \in Int,
           EvaluateTier(preferred, rows, mb) = Tier0,
           ReportsTier0(units, equivalent, mb, ms)
    PROVE  units <= equivalent
<1> DEFINE d == Charged(ms)
<1> DEFINE factor == Larger(10, mb)
<1>1. mb < MemoryCeiling
  BY DEF EvaluateTier, Tier0, Tier1
<1>2. factor \in Nat /\ factor <= 2499
  BY <1>1, CapacityAssumption DEF Larger
<1>3. d \in Nat /\ d >= 1
  BY DEF Charged, Larger
<1> HIDE DEF d, factor
<1>4. d * factor <= d * 2499
  BY <1>2, <1>3, ProductMonotone
<1>5. d * 2499 + 505 <= 2500 * Larger(1000, d)
  BY <1>3 DEF Larger
<1>6. d * factor \in Nat
  BY <1>2, <1>3
<1>7. units <= d * factor + 5 /\ 2500 * Larger(1000, d) - 500 <= equivalent
  BY DEF ReportsTier0, RoundedTo, EmbeddedUnits, SparkEquivalent, d, factor
<1>8. Larger(1000, d) \in Nat
  BY <1>3 DEF Larger
<1> QED BY <1>3, <1>4, <1>5, <1>6, <1>7, <1>8

\* What is sent to Tier 0 passes the check of the resource bounds.
THEOREM RoutedFits ==
    ASSUME NEW preferred, NEW rows \in Nat, NEW mb \in Nat,
           EvaluateTier(preferred, rows, mb) = Tier0
    PROVE  WithinBounds(mb)
  BY CapacityAssumption DEF EvaluateTier, Tier0, Tier1, WithinBounds

=============================================================================
