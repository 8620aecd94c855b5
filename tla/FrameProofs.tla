---------------------------- MODULE FrameProofs ----------------------------
(***************************************************************************)
(* Facts about sequences that are joined, taken from and cut, for any      *)
(* elements and any number of them.                                        *)
(***************************************************************************)
EXTENDS Frames, FiniteSetTheorems, WellFoundedInduction, TLAPS

-----------------------------------------------------------------------------
(***************************************************************************)
(* Induction over the naturals, on sets: the library's theorem, which      *)
(* takes a predicate, cannot be used by the installed provers.             *)
(***************************************************************************)
Less == {p \in Nat \X Nat : p[1] < p[2]}

\* The order the induction is over.
LEMMA LessWellFounded == IsWellFoundedOn(Less, Nat)
  BY NatLessThanWellFounded DEF OpToRel, Less

\* A set of naturals that is not empty has a least element.
LEMMA Least ==
    ASSUME NEW T \in SUBSET Nat, T # {}
    PROVE  \E x \in T : \A y \in T : x <= y
<1>1. PICK x \in T : \A y \in T : <<y, x>> \notin Less
  BY LessWellFounded, WFMin
<1>2. \A y \in T : ~(y < x)
  BY <1>1 DEF Less
<1>3. x \in Nat /\ \A y \in T : y \in Nat
  OBVIOUS
<1> QED BY <1>2, <1>3

\* A set with 0 and with the successor of each of its numbers has them all.
LEMMA SetInduction ==
    ASSUME NEW S, 0 \in S, \A n \in Nat : n \in S => n + 1 \in S
    PROVE  Nat \subseteq S
<1> DEFINE T == {n \in Nat : n \notin S}
<1>1. SUFFICES ASSUME T # {} PROVE FALSE
  OBVIOUS
<1>2. PICK x \in T : \A y \in T : x <= y
  BY <1>1, Least
<1>3. x \in Nat /\ x # 0 /\ x - 1 \in Nat
  BY <1>2
<1>4. x - 1 \notin T
  BY <1>2, <1>3
<1>5. x - 1 \in S
  BY <1>3, <1>4
<1> QED BY <1>2, <1>3, <1>5

\* Induction up to a bound.
LEMMA UpTo ==
    ASSUME NEW N \in Nat \ {0}, NEW S, 1 \in S, \A i \in 1 .. N - 1 : i \in S => i + 1 \in S
    PROVE  1 .. N \subseteq S
<1> DEFINE Q == {k \in Nat : k + 1 \in 1 .. N => k + 1 \in S}
<1>1. 0 \in Q
  OBVIOUS
<1>2. ASSUME NEW k \in Nat, k \in Q PROVE k + 1 \in Q
  <2> SUFFICES ASSUME (k + 1) + 1 \in 1 .. N PROVE (k + 1) + 1 \in S
    OBVIOUS
  <2>1. k + 1 \in 1 .. N - 1 /\ k + 1 \in 1 .. N
    OBVIOUS
  <2> QED BY <2>1, <1>2
<1>3. Nat \subseteq Q
  <2> HIDE DEF Q
  <2> QED BY <1>1, <1>2, SetInduction
<1> SUFFICES ASSUME NEW i \in 1 .. N PROVE i \in S
  OBVIOUS
<1>4. i - 1 \in Nat /\ (i - 1) + 1 = i
  OBVIOUS
<1> QED BY <1>3, <1>4

\* Min and Max of positions are among them and bound them.
LEMMA MinOfPositions ==
    ASSUME NEW S \in SUBSET Nat, S # {}
    PROVE  Min(S) \in S /\ \A y \in S : Min(S) <= y
  BY Least DEF Min

\* Min of two integers.
LEMMA MinOfTwo ==
    ASSUME NEW a \in Int, NEW b \in Int
    PROVE  Min({a, b}) \in {a, b} /\ Min({a, b}) <= a /\ Min({a, b}) <= b
<1>1. \E x \in {a, b} : \A y \in {a, b} : x <= y
  <2>1. CASE a <= b
    BY <2>1
  <2>2. CASE b <= a
    BY <2>2
  <2> QED BY <2>1, <2>2
<1> QED BY <1>1 DEF Min

\* The greatest of some positions exists, and is the least bound of them all.
LEMMA MaxOfPositions ==
    ASSUME NEW n \in Nat, NEW S \in SUBSET (1 .. n), S # {}
    PROVE  Max(S) \in S /\ \A y \in S : y <= Max(S)
<1> DEFINE T == {u \in Nat : \A y \in S : y <= u}
<1>1. n \in T
  OBVIOUS
<1>2. PICK u \in T : \A v \in T : u <= v
  <2>1. T \in SUBSET Nat /\ T # {}
    BY <1>1
  <2> QED BY <2>1, Least
<1>3. ASSUME u \notin S PROVE FALSE
  <2>1. u # 0
    <3>1. PICK y \in S : TRUE
      OBVIOUS
    <3>2. y <= u /\ y \in 1 .. n
      BY <3>1
    <3> QED BY <3>2
  <2>2. u - 1 \in Nat /\ u \in Nat
    BY <2>1
  <2>3. \A y \in S : y <= u /\ y # u /\ y \in Nat
    BY <1>3
  <2>4. \A y \in S : y <= u - 1
    BY <2>2, <2>3
  <2>5. u <= u - 1
    BY <1>2, <2>2, <2>4
  <2> QED BY <2>2, <2>5
<1>4. u \in S /\ \A y \in S : u >= y
  BY <1>3
<1>5. \E x \in S : \A y \in S : x >= y
  BY <1>4
<1>6. Max(S) \in S /\ \A y \in S : Max(S) >= y
  BY <1>5 DEF Max
<1> QED BY <1>6

-----------------------------------------------------------------------------
(***************************************************************************)
(* Sequences joined together                                               *)
(***************************************************************************)

\* Two sequences joined.
LEMMA ConcatType ==
    ASSUME NEW R, NEW s \in Seq(R), NEW t \in Seq(R)
    PROVE  s \o t \in Seq(R) /\ Len(s \o t) = Len(s) + Len(t)
  OBVIOUS

\* The first elements of a sequence.
LEMMA SubSeqFacts ==
    ASSUME NEW R, NEW s \in Seq(R), NEW m \in Int, m <= Len(s)
    PROVE  SubSeq(s, 1, m) \in Seq(R) /\ (m >= 0 => Len(SubSeq(s, 1, m)) = m)
  OBVIOUS

\* The recursive function inside FlattenSeq exists and computes sequences.
LEMMA FlattenSteps ==
    ASSUME NEW R, NEW fs \in Seq(Seq(R)), Len(fs) # 0
    PROVE  \E h \in [1 .. Len(fs) -> Seq(R)] :
             /\ h[1] = fs[1]
             /\ \A i \in 2 .. Len(fs) : h[i] = h[i - 1] \o fs[i]
             /\ FlattenSeq(fs) = h[Len(fs)]
<1> DEFINE N == Len(fs)
           Built(g, k) == \A i \in 1 .. k : g[i] = IF i = 1 THEN fs[i] ELSE g[i - 1] \o fs[i]
           Has(k) == \E g \in [1 .. k -> Seq(R)] : Built(g, k)
           S == {k \in Nat : k <= N => Has(k)}
<1>1. N \in Nat \ {0} /\ \A i \in 1 .. N : fs[i] \in Seq(R)
  OBVIOUS
<1>2. Has(0)
  <2>1. [i \in 1 .. 0 |-> <<>>] \in [1 .. 0 -> Seq(R)]
    OBVIOUS
  <2>2. Built([i \in 1 .. 0 |-> <<>>], 0)
    OBVIOUS
  <2> QED BY <2>1, <2>2
<1>3. ASSUME NEW k \in Nat, Has(k), k + 1 <= N PROVE Has(k + 1)
  <2>1. PICK g \in [1 .. k -> Seq(R)] : Built(g, k)
    BY <1>3
  <2> DEFINE f == [i \in 1 .. k + 1 |->
                     IF i <= k THEN g[i] ELSE IF i = 1 THEN fs[i] ELSE g[k] \o fs[i]]
  <2>2. f \in [1 .. k + 1 -> Seq(R)]
    <3> SUFFICES ASSUME NEW i \in 1 .. k + 1
                 PROVE  (IF i <= k THEN g[i] ELSE IF i = 1 THEN fs[i] ELSE g[k] \o fs[i]) \in Seq(R)
      OBVIOUS
    <3>1. CASE i <= k
      BY <3>1
    <3>2. CASE ~(i <= k)
      <4>1. i = k + 1 /\ i \in 1 .. N
        BY <3>2, <1>1, <1>3
      <4>2. fs[i] \in Seq(R)
        BY <4>1, <1>1
      <4>3. ASSUME i # 1 PROVE g[k] \o fs[i] \in Seq(R)
        <5>1. g[k] \in Seq(R)
          BY <4>1, <4>3
        <5> QED BY <5>1, <4>2, ConcatType
      <4> QED BY <3>2, <4>2, <4>3
    <3> QED BY <3>1, <3>2
  <2>3. ASSUME NEW i \in 1 .. k + 1
        PROVE  f[i] = IF i = 1 THEN fs[i] ELSE f[i - 1] \o fs[i]
    <3>1. CASE i <= k
      <4>1. i \in 1 .. k
        BY <3>1
      <4>2. f[i] = g[i]
        BY <3>1
      <4>3. g[i] = IF i = 1 THEN fs[i] ELSE g[i - 1] \o fs[i]
        BY <4>1, <2>1
      <4>4. i # 1 => f[i - 1] = g[i - 1]
        BY <3>1
      <4> HIDE DEF f
      <4> QED BY <4>2, <4>3, <4>4
    <3>2. CASE ~(i <= k)
      <4>1. i = k + 1 /\ (i # 1 => i - 1 = k /\ f[i - 1] = g[k])
        BY <3>2
      <4>2. f[i] = IF i = 1 THEN fs[i] ELSE g[k] \o fs[i]
        BY <3>2
      <4> HIDE DEF f
      <4> QED BY <4>1, <4>2
    <3> QED BY <3>1, <3>2
  <2>4. Built(f, k + 1)
    BY <2>3
  <2> QED BY <2>2, <2>4
<1>4. Has(N)
  <2> HIDE DEF Has
  <2>1. 0 \in S
    BY <1>2
  <2>2. \A k \in Nat : k \in S => k + 1 \in S
    <3> SUFFICES ASSUME NEW k \in Nat, k \in S, k + 1 <= N PROVE Has(k + 1)
      OBVIOUS
    <3>1. k <= N
      BY <1>1
    <3> QED BY <3>1, <1>3
  <2>3. N \in S
    <3> HIDE DEF S
    <3> QED BY <1>1, <2>1, <2>2, SetInduction
  <2> QED BY <2>3
<1>5. PICK g \in [1 .. N -> Seq(R)] : Built(g, N)
  BY <1>1, <1>4
<1> DEFINE Equation(h) == h = [i \in 1 .. N |-> IF i = 1 THEN fs[i] ELSE h[i - 1] \o fs[i]]
           h == CHOOSE h : Equation(h)
<1>6. Equation(g)
  BY <1>5
<1>7. Equation(h)
  BY <1>6
<1>8. FlattenSeq(fs) = h[N]
  BY <1>1 DEF FlattenSeq
<1> HIDE DEF h
<1>9. \A i \in 1 .. N : h[i] = IF i = 1 THEN fs[i] ELSE h[i - 1] \o fs[i]
  BY <1>7
<1>11. \A i \in 1 .. N : i # 1 => h[i] = h[i - 1] \o fs[i]
  BY <1>9
<1>10. \A i \in 1 .. N : h[i] \in Seq(R)
  <2> DEFINE Q == {k \in Nat : k + 1 \in 1 .. N => h[k + 1] \in Seq(R)}
  <2>1. 0 \in Q
    BY <1>1, <1>9
  <2>2. ASSUME NEW k \in Nat, k \in Q PROVE k + 1 \in Q
    <3> SUFFICES ASSUME (k + 1) + 1 \in 1 .. N PROVE h[(k + 1) + 1] \in Seq(R)
      OBVIOUS
    <3>1. k + 1 \in 1 .. N /\ (k + 1) + 1 # 1 /\ ((k + 1) + 1) - 1 = k + 1
      BY <1>1
    <3>2. h[k + 1] \in Seq(R) /\ fs[(k + 1) + 1] \in Seq(R)
      BY <2>2, <3>1, <1>1
    <3>3. h[(k + 1) + 1] = h[k + 1] \o fs[(k + 1) + 1]
      BY <3>1, <1>11
    <3> QED BY <3>2, <3>3, ConcatType
  <2>3. Nat \subseteq Q
    <3> HIDE DEF Q
    <3> QED BY <2>1, <2>2, SetInduction
  <2> SUFFICES ASSUME NEW i \in 1 .. N PROVE h[i] \in Seq(R)
    OBVIOUS
  <2>4. i - 1 \in Nat /\ (i - 1) + 1 = i
    BY <1>1
  <2> QED BY <2>3, <2>4
<1>13. h \in [1 .. N -> Seq(R)]
  BY <1>7, <1>10
<1>12. h[1] = fs[1] /\ \A i \in 2 .. N : h[i] = h[i - 1] \o fs[i]
  <2>1. 1 \in 1 .. N /\ \A i \in 2 .. N : i \in 1 .. N /\ i # 1
    BY <1>1
  <2>2. h[1] = fs[1]
    BY <2>1, <1>9
  <2>3. \A i \in 2 .. N : h[i] = h[i - 1] \o fs[i]
    BY <2>1, <1>11
  <2> QED BY <2>2, <2>3
<1> QED BY <1>8, <1>13, <1>12

\* What is joined from sequences over R is one.
LEMMA FlattenTyped ==
    ASSUME NEW R, NEW fs \in Seq(Seq(R))
    PROVE  FlattenSeq(fs) \in Seq(R)
<1>1. CASE Len(fs) = 0
  <2>1. fs = <<>>
    BY <1>1
  <2> QED BY <2>1 DEF FlattenSeq
<1>2. CASE Len(fs) # 0
  <2>1. PICK h \in [1 .. Len(fs) -> Seq(R)] : FlattenSeq(fs) = h[Len(fs)]
    BY <1>2, FlattenSteps
  <2>2. Len(fs) \in 1 .. Len(fs)
    BY <1>2
  <2> QED BY <2>1, <2>2
<1> QED BY <1>1, <1>2

\* How long the whole is depends on how long the parts are only.
LEMMA FlattenLen ==
    ASSUME NEW R, NEW fs \in Seq(Seq(R)), NEW Q, NEW gs \in Seq(Seq(Q)),
           Len(fs) = Len(gs), \A i \in 1 .. Len(fs) : Len(fs[i]) = Len(gs[i])
    PROVE  Len(FlattenSeq(fs)) = Len(FlattenSeq(gs))
<1>1. CASE Len(fs) = 0
  BY <1>1 DEF FlattenSeq
<1>2. CASE Len(fs) # 0
  <2> DEFINE N == Len(fs)
             S(h, k) == {i \in 1 .. N : Len(h[i]) = Len(k[i])}
  <2>1. N \in Nat \ {0} /\ N = Len(gs)
    BY <1>2
  <2>2. /\ \A i \in 1 .. N : fs[i] \in Seq(R) /\ gs[i] \in Seq(Q)
        /\ \A i \in 1 .. N : Len(fs[i]) = Len(gs[i])
    OBVIOUS
  <2> HIDE DEF N
  <2>3. PICK h \in [1 .. N -> Seq(R)] :
          /\ h[1] = fs[1]
          /\ \A i \in 2 .. N : h[i] = h[i - 1] \o fs[i]
          /\ FlattenSeq(fs) = h[N]
    BY <2>1, FlattenSteps DEF N
  <2>4. PICK k \in [1 .. N -> Seq(Q)] :
          /\ k[1] = gs[1]
          /\ \A i \in 2 .. N : k[i] = k[i - 1] \o gs[i]
          /\ FlattenSeq(gs) = k[N]
    BY <2>1, FlattenSteps
  <2>5. 1 \in S(h, k)
    BY <2>1, <2>2, <2>3, <2>4
  <2>6. ASSUME NEW i \in 1 .. N - 1, i \in S(h, k) PROVE i + 1 \in S(h, k)
    <3>1. i \in 1 .. N /\ i + 1 \in 2 .. N /\ i + 1 \in 1 .. N /\ (i + 1) - 1 = i
      BY <2>1
    <3>2. h[i + 1] = h[i] \o fs[i + 1] /\ k[i + 1] = k[i] \o gs[i + 1]
      BY <3>1, <2>3, <2>4
    <3>3. h[i] \in Seq(R) /\ k[i] \in Seq(Q)
      BY <3>1
    <3>4. fs[i + 1] \in Seq(R) /\ gs[i + 1] \in Seq(Q) /\ Len(fs[i + 1]) = Len(gs[i + 1])
      BY <3>1, <2>2
    <3>5. Len(h[i + 1]) = Len(h[i]) + Len(fs[i + 1]) /\ Len(k[i + 1]) = Len(k[i]) + Len(gs[i + 1])
      BY <3>2, <3>3, <3>4, ConcatType
    <3> QED BY <2>6, <3>1, <3>4, <3>5
  <2>7. 1 .. N \subseteq S(h, k)
    <3> HIDE DEF S
    <3> QED BY <2>1, <2>5, <2>6, UpTo
  <2>8. Len(h[N]) = Len(k[N])
    <3>1. N \in S(h, k)
      BY <2>1, <2>7
    <3> QED BY <3>1
  <2> QED BY <2>3, <2>4, <2>8
<1> QED BY <1>1, <1>2

\* Joining the one-element sequences of its elements gives a sequence back.
LEMMA FlattenSingletons ==
    ASSUME NEW R, NEW s \in Seq(R)
    PROVE  FlattenSeq([i \in DOMAIN s |-> <<s[i]>>]) = s
<1> DEFINE fs == [i \in DOMAIN s |-> <<s[i]>>]
           N == Len(s)
<1>1. N \in Nat /\ DOMAIN s = 1 .. N /\ fs \in Seq(Seq(R)) /\ Len(fs) = N
  <2>1. N \in Nat /\ DOMAIN s = 1 .. N
    OBVIOUS
  <2>2. \A i \in 1 .. N : <<s[i]>> \in Seq(R)
    OBVIOUS
  <2>3. fs \in [1 .. N -> Seq(R)]
    BY <2>1, <2>2
  <2> QED BY <2>1, <2>3
<1> SUFFICES FlattenSeq(fs) = s
  OBVIOUS
<1>2. CASE N = 0
  <2>1. fs = <<>> /\ s = <<>>
    BY <1>1, <1>2
  <2> QED BY <2>1 DEF FlattenSeq
<1>3. CASE N # 0
  <2>1. PICK h \in [1 .. N -> Seq(R)] :
          /\ h[1] = fs[1] /\ FlattenSeq(fs) = h[N]
          /\ \A i \in 2 .. N : h[i] = h[i - 1] \o fs[i]
    <3> HIDE DEF fs, N
    <3> QED BY <1>1, <1>3, FlattenSteps
  <2> DEFINE T == {i \in 1 .. N : h[i] = [j \in 1 .. i |-> s[j]]}
  <2>2. 1 \in T
    <3>1. h[1] = <<s[1]>>
      BY <1>1, <1>3, <2>1
    <3> QED BY <3>1, <1>1, <1>3
  <2>3. ASSUME NEW i \in 1 .. N - 1, i \in T PROVE i + 1 \in T
    <3>1. i \in 1 .. N /\ i + 1 \in 2 .. N /\ i + 1 \in 1 .. N /\ (i + 1) - 1 = i /\ i \in Nat
      BY <1>1
    <3>2. h[i + 1] = h[i] \o <<s[i + 1]>>
      BY <3>1, <1>1, <2>1
    <3>3. h[i] = [j \in 1 .. i |-> s[j]] /\ h[i] \in Seq(R) /\ s[i + 1] \in R
      BY <2>3, <3>1, <1>1
    <3>4. Len(h[i]) = i
      BY <3>1, <3>3
    <3>5. h[i + 1] = [j \in 1 .. i + 1 |-> s[j]]
      BY <3>1, <3>2, <3>3, <3>4
    <3> QED BY <3>1, <3>5
  <2>4. 1 .. N \subseteq T
    <3> HIDE DEF T
    <3> QED BY <1>1, <1>3, <2>2, <2>3, UpTo
  <2>5. h[N] = [j \in 1 .. N |-> s[j]]
    BY <1>1, <1>3, <2>4
  <2>6. s = [j \in 1 .. N |-> s[j]]
    BY <1>1
  <2> QED BY <2>1, <2>5, <2>6
<1> QED BY <1>1, <1>2, <1>3

\* A loop that keeps what it finds at the positions in S keeps elements of
\* their type.
LEMMA ChosenTyped ==
    ASSUME NEW R, NEW n \in Nat, NEW S, NEW v, \A i \in 1 .. n : i \in S => v[i] \in R
    PROVE  FlattenSeq([i \in 1 .. n |-> IF i \in S THEN <<v[i]>> ELSE <<>>]) \in Seq(R)
<1>1. ASSUME NEW i \in 1 .. n PROVE (IF i \in S THEN <<v[i]>> ELSE <<>>) \in Seq(R)
  <2>1. CASE i \in S
    BY <2>1
  <2>2. CASE i \notin S
    BY <2>2
  <2> QED BY <2>1, <2>2
<1>2. [i \in 1 .. n |-> IF i \in S THEN <<v[i]>> ELSE <<>>] \in Seq(Seq(R))
  BY <1>1
<1> QED BY <1>2, FlattenTyped

\* How many elements it keeps does not depend on what they are.
LEMMA ChosenLen ==
    ASSUME NEW n \in Nat, NEW S, NEW v, NEW w
    PROVE  Len(FlattenSeq([i \in 1 .. n |-> IF i \in S THEN <<v[i]>> ELSE <<>>]))
             = Len(FlattenSeq([i \in 1 .. n |-> IF i \in S THEN <<w[i]>> ELSE <<>>]))
<1> DEFINE R == {v[i] : i \in 1 .. n}
           Q == {w[i] : i \in 1 .. n}
           fs == [i \in 1 .. n |-> IF i \in S THEN <<v[i]>> ELSE <<>>]
           gs == [i \in 1 .. n |-> IF i \in S THEN <<w[i]>> ELSE <<>>]
<1>1. ASSUME NEW i \in 1 .. n
      PROVE  /\ (IF i \in S THEN <<v[i]>> ELSE <<>>) \in Seq(R)
             /\ (IF i \in S THEN <<w[i]>> ELSE <<>>) \in Seq(Q)
             /\ Len(fs[i]) = Len(gs[i])
  <2>1. v[i] \in R /\ w[i] \in Q
    OBVIOUS
  <2> HIDE DEF R, Q
  <2>2. CASE i \in S
    BY <2>1, <2>2
  <2>3. CASE i \notin S
    BY <2>3
  <2> QED BY <2>2, <2>3
<1>2. /\ fs \in [1 .. n -> Seq(R)] /\ gs \in [1 .. n -> Seq(Q)]
  <2> HIDE DEF R, Q
  <2> QED BY <1>1
<1>3. fs \in Seq(Seq(R)) /\ gs \in Seq(Seq(Q)) /\ Len(fs) = n /\ Len(gs) = n
  <2> HIDE DEF R, Q, fs, gs
  <2> QED BY <1>2
<1>4. \A i \in 1 .. Len(fs) : Len(fs[i]) = Len(gs[i])
  BY <1>1, <1>3
<1> HIDE DEF R, Q, fs, gs
<1>5. Len(FlattenSeq(fs)) = Len(FlattenSeq(gs))
  BY <1>3, <1>4, FlattenLen
<1> QED BY <1>5 DEF fs, gs

\* Such a loop keeps no more than it walks over.
LEMMA ChosenShort ==
    ASSUME NEW n \in Nat, NEW S, NEW v
    PROVE  Len(FlattenSeq([i \in 1 .. n |-> IF i \in S THEN <<v[i]>> ELSE <<>>])) <= n
<1> DEFINE R == {v[i] : i \in 1 .. n}
           fs == [i \in 1 .. n |-> IF i \in S THEN <<v[i]>> ELSE <<>>]
<1>1. ASSUME NEW i \in 1 .. n PROVE fs[i] \in Seq(R) /\ Len(fs[i]) <= 1
  <2>1. v[i] \in R
    OBVIOUS
  <2> HIDE DEF R
  <2>2. CASE i \in S
    BY <2>1, <2>2
  <2>3. CASE i \notin S
    BY <2>3
  <2> QED BY <2>2, <2>3
<1>2. fs \in Seq(Seq(R)) /\ Len(fs) = n
  <2>1. fs = [i \in 1 .. n |-> fs[i]]
    OBVIOUS
  <2> HIDE DEF fs, R
  <2> QED BY <1>1, <2>1
<1> HIDE DEF fs, R
<1>3. CASE n = 0
  <2>1. fs = <<>>
    BY <1>2, <1>3
  <2> QED BY <1>3, <2>1 DEF FlattenSeq, fs
<1>4. CASE n # 0
  <2>1. PICK h \in [1 .. n -> Seq(R)] :
          /\ h[1] = fs[1] /\ FlattenSeq(fs) = h[n]
          /\ \A i \in 2 .. n : h[i] = h[i - 1] \o fs[i]
    BY <1>2, <1>4, FlattenSteps
  <2> DEFINE T == {i \in 1 .. n : Len(h[i]) <= i}
  <2>2. 1 \in T
    BY <1>1, <1>4, <2>1
  <2>3. ASSUME NEW i \in 1 .. n - 1, i \in T PROVE i + 1 \in T
    <3>1. i \in 1 .. n /\ i + 1 \in 2 .. n /\ i + 1 \in 1 .. n /\ (i + 1) - 1 = i /\ i \in Nat
      OBVIOUS
    <3>2. h[i + 1] = h[i] \o fs[i + 1] /\ h[i] \in Seq(R) /\ fs[i + 1] \in Seq(R)
      BY <1>1, <2>1, <3>1
    <3>3. Len(h[i + 1]) = Len(h[i]) + Len(fs[i + 1])
      BY <3>2, ConcatType
    <3>4. Len(h[i]) \in Nat /\ Len(fs[i + 1]) \in Nat /\ Len(fs[i + 1]) <= 1 /\ Len(h[i]) <= i
      BY <1>1, <2>3, <3>1, <3>2
    <3> QED BY <3>1, <3>3, <3>4
  <2>4. 1 .. n \subseteq T
    <3> HIDE DEF T
    <3> QED BY <1>4, <2>2, <2>3, UpTo
  <2>5. n \in T
    BY <1>4, <2>4
  <2> QED BY <2>1, <2>5 DEF fs
<1> QED BY <1>3, <1>4

\* A sequence is a function on its positions.
LEMMA SequenceIs ==
    ASSUME NEW R, NEW s \in Seq(R)
    PROVE  s = [i \in 1 .. Len(s) |-> s[i]]
  OBVIOUS

\* What such a loop keeps of v, by a name.
Chosen(n, S, v) == FlattenSeq([i \in 1 .. n |-> IF i \in S THEN <<v[i]>> ELSE <<>>])

Enumerates(c, Q) == c \in Seq(Q) /\ \A k \in Q : \E p \in DOMAIN c : c[p] = k

Through(v, c) == [p \in DOMAIN c |-> v[c[p]]]

\* A sequence with an element added.
LEMMA AppendIs ==
    ASSUME NEW R, NEW s \in Seq(R), NEW x \in R
    PROVE  s \o <<x>> = Append(s, x)
  OBVIOUS

\* The loop walks over the positions in S and no others, and keeps what is
\* there; id has the positions themselves.
LEMMA ChosenPositions ==
    ASSUME NEW n \in Nat, NEW S, NEW v, NEW id, \A i \in 1 .. n : id[i] = i
    PROVE  /\ Enumerates(Chosen(n, S, id), S \cap 1 .. n)
           /\ Chosen(n, S, v) = Through(v, Chosen(n, S, id))
<1> DEFINE R == {v[i] : i \in 1 .. n}
           Q == S \cap 1 .. n
           fs == [i \in 1 .. n |-> IF i \in S THEN <<v[i]>> ELSE <<>>]
           ps == [i \in 1 .. n |-> IF i \in S THEN <<id[i]>> ELSE <<>>]
<1>1. ASSUME NEW i \in 1 .. n PROVE fs[i] \in Seq(R) /\ ps[i] \in Seq(Q)
  <2>1. v[i] \in R /\ id[i] = i /\ (i \in S => i \in Q)
    OBVIOUS
  <2> HIDE DEF R, Q
  <2>2. CASE i \in S
    BY <2>1, <2>2
  <2>3. CASE i \notin S
    BY <2>3
  <2> QED BY <2>2, <2>3
<1>2. fs \in Seq(Seq(R)) /\ Len(fs) = n
  <2>1. fs = [i \in 1 .. n |-> fs[i]]
    OBVIOUS
  <2>2. \A i \in 1 .. n : fs[i] \in Seq(R)
    BY <1>1
  <2> HIDE DEF fs, R
  <2> QED BY <2>1, <2>2
<1>6. ps \in Seq(Seq(Q)) /\ Len(ps) = n
  <2>1. ps = [i \in 1 .. n |-> ps[i]]
    OBVIOUS
  <2>2. \A i \in 1 .. n : ps[i] \in Seq(Q)
    BY <1>1
  <2> HIDE DEF ps, Q
  <2> QED BY <2>1, <2>2
<1>3. \A i \in 1 .. n : /\ i \in S => fs[i] = <<v[i]>> /\ ps[i] = <<i>>
                        /\ i \notin S => fs[i] = <<>> /\ ps[i] = <<>>
  OBVIOUS
<1>7. Q = {k \in 1 .. n : k \in S}
  OBVIOUS
<1> SUFFICES /\ FlattenSeq(ps) \in Seq(Q)
             /\ \A k \in Q : \E p \in DOMAIN FlattenSeq(ps) : FlattenSeq(ps)[p] = k
             /\ FlattenSeq(fs) = [p \in DOMAIN FlattenSeq(ps) |-> v[FlattenSeq(ps)[p]]]
  BY DEF Chosen, Enumerates, Through
<1> HIDE DEF fs, ps, R, Q
<1>4. CASE n = 0
  <2>1. fs = <<>> /\ ps = <<>> /\ Q = {}
    BY <1>2, <1>6, <1>4, <1>7
  <2>2. FlattenSeq(<<>>) = <<>>
    BY DEF FlattenSeq
  <2>3. <<>> = [p \in DOMAIN <<>> |-> v[<<>>[p]]]
    OBVIOUS
  <2>4. <<>> \in Seq(Q)
    OBVIOUS
  <2> QED BY <2>1, <2>2, <2>3, <2>4
<1>5. CASE n # 0
  <2>1. PICK g \in [1 .. n -> Seq(R)] :
          /\ g[1] = fs[1] /\ FlattenSeq(fs) = g[n]
          /\ \A i \in 2 .. n : g[i] = g[i - 1] \o fs[i]
    <3>1. Len(fs) # 0
      BY <1>2, <1>5
    <3> QED BY ONLY <1>2, <3>1, FlattenSteps
  <2>2. PICK h \in [1 .. n -> Seq(Q)] :
          /\ h[1] = ps[1] /\ FlattenSeq(ps) = h[n]
          /\ \A i \in 2 .. n : h[i] = h[i - 1] \o ps[i]
    <3>1. Len(ps) # 0
      BY <1>6, <1>5
    <3> QED BY ONLY <1>6, <3>1, FlattenSteps
  <2> DEFINE Values(i) == g[i] = [p \in 1 .. Len(h[i]) |-> v[h[i][p]]]
             Covers(i) == \A k \in Q : k <= i => \E p \in 1 .. Len(h[i]) : h[i][p] = k
             T == {i \in 1 .. n : Values(i) /\ Covers(i)}
  <2>3. 1 \in T
    <3>1. CASE 1 \in S
      <4>1. g[1] = <<v[1]>> /\ h[1] = <<1>>
        BY <1>3, <1>5, <2>1, <2>2, <3>1
      <4>2. Values(1)
        BY <4>1
      <4>3. Covers(1)
        BY <4>1, <1>7
      <4> QED BY <1>5, <4>2, <4>3
    <3>2. CASE 1 \notin S
      <4>1. g[1] = <<>> /\ h[1] = <<>>
        BY <1>3, <1>5, <2>1, <2>2, <3>2
      <4>2. Values(1)
        BY <4>1
      <4>3. Covers(1)
        BY <3>2, <1>7
      <4> QED BY <1>5, <4>2, <4>3
    <3> QED BY <3>1, <3>2
  <2>4. ASSUME NEW i \in 1 .. n - 1, i \in T PROVE i + 1 \in T
    <3>1. i \in 1 .. n /\ i + 1 \in 2 .. n /\ i + 1 \in 1 .. n /\ (i + 1) - 1 = i /\ i \in Nat
      OBVIOUS
    <3>2. g[i + 1] = g[i] \o fs[i + 1] /\ h[i + 1] = h[i] \o ps[i + 1]
      BY <2>1, <2>2, <3>1
    <3>3. h[i] \in Seq(Q) /\ g[i] \in Seq(R)
      BY <3>1
    <3>4. Values(i) /\ Covers(i)
      BY <2>4
    <3>5. CASE i + 1 \in S
      <4> DEFINE m == Len(h[i])
      <4>1. g[i + 1] = Append(g[i], v[i + 1]) /\ h[i + 1] = Append(h[i], i + 1)
        <5>1. fs[i + 1] = <<v[i + 1]>> /\ ps[i + 1] = <<i + 1>>
          BY <1>3, <3>1, <3>5
        <5>2. v[i + 1] \in R /\ i + 1 \in Q
          BY <3>1, <3>5, <1>7 DEF R
        <5> QED BY <3>2, <3>3, <5>1, <5>2, AppendIs
      <4>2. m \in Nat /\ Len(g[i]) = m
        BY <3>3, <3>4
      <4>3. /\ Len(h[i + 1]) = m + 1 /\ h[i + 1][m + 1] = i + 1
            /\ \A p \in 1 .. m : h[i + 1][p] = h[i][p]
        BY <3>3, <4>1
      <4>4. /\ DOMAIN g[i + 1] = 1 .. m + 1 /\ g[i + 1][m + 1] = v[i + 1]
            /\ \A p \in 1 .. m : g[i + 1][p] = g[i][p]
            /\ g[i + 1] \in Seq(R) /\ Len(g[i + 1]) = m + 1
        BY <3>3, <3>1, <4>1, <4>2
      <4>7. \A p \in 1 .. m : g[i][p] = v[h[i][p]]
        BY <3>4
      <4> HIDE DEF m
      <4>5. Values(i + 1)
        <5>1. \A p \in 1 .. m + 1 : g[i + 1][p] = v[h[i + 1][p]]
          <6> SUFFICES ASSUME NEW p \in 1 .. m + 1 PROVE g[i + 1][p] = v[h[i + 1][p]]
            OBVIOUS
          <6>1. CASE p = m + 1
            BY <4>3, <4>4, <6>1
          <6>2. CASE p # m + 1
            <7>1. p \in 1 .. m
              BY <4>2, <6>2
            <7> QED BY <4>3, <4>4, <4>7, <7>1
          <6> QED BY <6>1, <6>2
        <5>2. g[i + 1] = [p \in 1 .. m + 1 |-> g[i + 1][p]]
          BY <4>4, SequenceIs
        <5> QED BY <5>1, <5>2, <4>3
      <4>6. Covers(i + 1)
        <5> SUFFICES ASSUME NEW k \in Q, k <= i + 1
                     PROVE  \E p \in 1 .. Len(h[i + 1]) : h[i + 1][p] = k
          OBVIOUS
        <5>1. CASE k = i + 1
          BY <4>2, <4>3, <5>1
        <5>2. CASE k # i + 1
          <6>1. k <= i
            BY <3>1, <5>2, <1>7
          <6>2. PICK p \in 1 .. m : h[i][p] = k
            BY <3>4, <6>1 DEF m
          <6>3. p \in 1 .. m + 1
            BY <4>2
          <6> QED BY <4>3, <6>2, <6>3
        <5> QED BY <5>1, <5>2
      <4> QED BY <3>1, <4>5, <4>6
    <3>6. CASE i + 1 \notin S
      <4>1. g[i + 1] = g[i] /\ h[i + 1] = h[i]
        <5>1. fs[i + 1] = <<>> /\ ps[i + 1] = <<>>
          BY <1>3, <3>1, <3>6
        <5> QED BY <3>2, <3>3, <5>1
      <4>2. \A k \in Q : k <= i + 1 => k <= i
        BY <3>1, <3>6, <1>7
      <4> QED BY <3>1, <3>4, <4>1, <4>2
    <3> QED BY <3>5, <3>6
  <2>5. 1 .. n \subseteq T
    <3> HIDE DEF T
    <3> QED BY <1>5, <2>3, <2>4, UpTo
  <2>6. n \in T /\ h[n] \in Seq(Q)
    <3>1. n \in 1 .. n
      BY <1>5
    <3> QED BY <2>2, <2>5, <3>1
  <2>7. DOMAIN h[n] = 1 .. Len(h[n]) /\ \A k \in Q : k <= n
    BY <2>6, <1>7
  <2> QED BY <2>1, <2>2, <2>6, <2>7
<1> QED BY <1>4, <1>5

\* What is taken from a sequence over R is one.
LEMMA TakenTyped ==
    ASSUME NEW R, NEW s \in Seq(R), NEW S
    PROVE  Taken(s, S) \in Seq(R)
<1>1. DOMAIN s = 1 .. Len(s) /\ Len(s) \in Nat /\ \A i \in 1 .. Len(s) : s[i] \in R
  OBVIOUS
<1> QED BY <1>1, ChosenTyped DEF Taken

\* Taking every position takes the sequence.
LEMMA TakenAll ==
    ASSUME NEW R, NEW s \in Seq(R), NEW S, DOMAIN s \subseteq S
    PROVE  Taken(s, S) = s
<1>1. [i \in DOMAIN s |-> IF i \in S THEN <<s[i]>> ELSE <<>>] = [i \in DOMAIN s |-> <<s[i]>>]
  OBVIOUS
<1> QED BY <1>1, FlattenSingletons DEF Taken

\* A loop keeps as many elements as there are positions in S.
LEMMA TakenLen ==
    ASSUME NEW R, NEW s \in Seq(R), NEW S
    PROVE  Len(Taken(s, S)) = Cardinality(S \cap DOMAIN s)
<1> DEFINE N == Len(s)
           fs == [i \in DOMAIN s |-> IF i \in S THEN <<s[i]>> ELSE <<>>]
<1>1. N \in Nat /\ DOMAIN s = 1 .. N /\ \A i \in 1 .. N : s[i] \in R
  OBVIOUS
<1>2. ASSUME NEW i \in 1 .. N
      PROVE  fs[i] \in Seq(R) /\ Len(fs[i]) = IF i \in S THEN 1 ELSE 0
  <2>1. CASE i \in S
    BY <1>1, <2>1
  <2>2. CASE i \notin S
    BY <1>1, <2>2
  <2> QED BY <2>1, <2>2
<1>3. fs \in Seq(Seq(R)) /\ Len(fs) = N
  <2>1. fs = [i \in 1 .. N |-> fs[i]]
    BY <1>1
  <2> HIDE DEF fs
  <2>2. fs \in [1 .. N -> Seq(R)]
    BY <1>2, <2>1
  <2> QED BY <1>1, <2>2
<1> HIDE DEF fs, N
<1>4. Taken(s, S) = FlattenSeq(fs)
  BY DEF Taken, fs
<1>5. CASE N = 0
  <2>1. Len(FlattenSeq(fs)) = 0
    BY <1>3, <1>5 DEF FlattenSeq
  <2>2. S \cap DOMAIN s = {}
    BY <1>1, <1>5
  <2> QED BY <1>4, <2>1, <2>2, FS_EmptySet
<1>6. CASE N # 0
  <2> DEFINE Upto(k) == S \cap 1 .. k
             Q(h) == {k \in 1 .. N : IsFiniteSet(Upto(k)) /\ Len(h[k]) = Cardinality(Upto(k))}
  <2>1. N \in Nat \ {0}
    BY <1>1, <1>6
  <2>2. PICK h \in [1 .. N -> Seq(R)] :
          /\ h[1] = fs[1]
          /\ \A i \in 2 .. N : h[i] = h[i - 1] \o fs[i]
          /\ FlattenSeq(fs) = h[N]
    BY <1>3, <1>6, FlattenSteps
  <2>3. 1 \in Q(h)
    <3>1. 1 \in 1 .. N
      BY <2>1
    <3>2. CASE 1 \in S
      <4>1. Upto(1) = {1}
        BY <3>2
      <4>2. IsFiniteSet(Upto(1)) /\ Cardinality(Upto(1)) = 1
        BY <4>1, FS_Singleton
      <4>3. Len(h[1]) = 1
        BY <1>2, <2>2, <3>1, <3>2
      <4> HIDE DEF Upto
      <4> QED BY <3>1, <4>2, <4>3
    <3>3. CASE 1 \notin S
      <4>1. Upto(1) = {}
        BY <3>3
      <4> QED BY <1>2, <2>2, <3>1, <3>3, <4>1, FS_EmptySet
    <3> QED BY <3>2, <3>3
  <2>4. ASSUME NEW i \in 1 .. N - 1, i \in Q(h) PROVE i + 1 \in Q(h)
    <3>1. i + 1 \in 1 .. N /\ i \in 1 .. N /\ i + 1 \in 2 .. N /\ (i + 1) - 1 = i
      BY <2>1
    <3>2. h[i + 1] = h[i] \o fs[i + 1]
      BY <2>2, <3>1
    <3>3. h[i] \in Seq(R) /\ fs[i + 1] \in Seq(R)
      BY <1>2, <2>2, <3>1
    <3>4. Len(h[i + 1]) = Len(h[i]) + Len(fs[i + 1])
      BY <3>2, <3>3, ConcatType
    <3>5. IsFiniteSet(Upto(i)) /\ Len(h[i]) = Cardinality(Upto(i)) /\ Cardinality(Upto(i)) \in Nat
      BY <2>4, FS_CardinalityType
    <3>6. CASE i + 1 \in S
      <4>1. Upto(i + 1) = Upto(i) \cup {i + 1} /\ i + 1 \notin Upto(i)
        BY <3>1, <3>6
      <4>2. IsFiniteSet(Upto(i + 1)) /\ Cardinality(Upto(i + 1)) = Cardinality(Upto(i)) + 1
        <5> HIDE DEF Upto
        <5> QED BY <3>5, <4>1, FS_AddElement
      <4>3. Len(fs[i + 1]) = 1
        BY <1>2, <3>1, <3>6
      <4> HIDE DEF Upto
      <4> QED BY <3>1, <3>4, <3>5, <4>2, <4>3
    <3>7. CASE i + 1 \notin S
      <4>1. Upto(i + 1) = Upto(i)
        BY <3>1, <3>7
      <4>2. Len(fs[i + 1]) = 0
        BY <1>2, <3>1, <3>7
      <4> HIDE DEF Upto
      <4> QED BY <3>1, <3>4, <3>5, <4>1, <4>2
    <3> QED BY <3>6, <3>7
  <2>5. N \in Q(h)
    <3>1. N \in 1 .. N
      BY <2>1
    <3> HIDE DEF Q
    <3> QED BY <2>1, <2>3, <2>4, <3>1, UpTo
  <2>6. S \cap DOMAIN s = Upto(N)
    BY <1>1
  <2> QED BY <1>4, <2>2, <2>5, <2>6
<1> QED BY <1>5, <1>6

\* The rows head() returns are rows of the frame, and no more than asked for.
LEMMA HeadRowsTyped ==
    ASSUME NEW R, NEW f \in Seq(R), NEW n \in Int
    PROVE  HeadRows(f, n) \in Seq(R) /\ (n >= 0 => Len(HeadRows(f, n)) <= n)
<1> DEFINE w == IF n >= 0 THEN n ELSE Len(f) + n
           m == Min({Len(f), w})
<1>1. w \in Int /\ Len(f) \in Nat /\ (n >= 0 => w = n)
  OBVIOUS
<1> HIDE DEF w
<1>2. m \in {Len(f), w} /\ m <= Len(f) /\ m <= w
  <2>1. Len(f) \in Int
    BY <1>1
  <2> QED BY ONLY <1>1, <2>1, MinOfTwo
<1>3. HeadRows(f, n) = SubSeq(f, 1, m)
  BY DEF HeadRows, w
<1> HIDE DEF m
<1> QED BY <1>1, <1>2, <1>3, SubSeqFacts

=============================================================================
