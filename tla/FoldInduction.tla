--------------------------- MODULE FoldInduction ---------------------------
(***************************************************************************)
(* Induction over the folds of a model.  Op is what a fold applies to what *)
(* it has so far (t) and the next element (x); Good says what holds after  *)
(* k elements.  Both take three more parameters, the values the operation  *)
(* was given from outside.  A module that wants to know what one of its    *)
(* folds keeps instantiates this one with that operation.                  *)
(***************************************************************************)
EXTENDS Integers, Sequences, TLAPS

CONSTANTS Op(_, _, _, _, _), Good(_, _, _, _, _)

\* FoldLeft of Op over s, as the community modules define it.
Folded(p, q, r, base, s) ==
    LET iter[S \in SUBSET DOMAIN s] ==
          IF S = {} THEN base
          ELSE LET x == CHOOSE x \in S : \A y \in S : x >= y
               IN  Op(p, q, r, iter[S \ {x}], s[x])
    IN  iter[DOMAIN s]

\* A set of numbers that is not empty has a least one.  The modules that use
\* this one prove it from the library (LeastOf), so that the library's theorems
\* are not repeated in each instance.
WellOrdered ==
    \A S \in SUBSET Nat : S # {} => \E n \in S : \A m \in S : n <= m

\* The greatest element of a set of numbers up to n.
Greatest(S) == CHOOSE x \in S : \A y \in S : x >= y
LEMMA GreatestIs ==
  ASSUME WellOrdered, NEW n \in Nat, NEW S \in SUBSET (1..n), S # {}
  PROVE  Greatest(S) \in S /\ \A y \in S : Greatest(S) >= y
<1> DEFINE T == {n - x : x \in S}
<1>1. T \in SUBSET Nat /\ T # {}
  <2>1. \A x \in S : x \in Int /\ x <= n
    OBVIOUS
  <2>2. \A x \in S : n - x \in Nat
    BY <2>1
  <2> QED BY <2>2
<1>2. PICK z \in T : \A y \in T : z <= y
  BY <1>1 DEF WellOrdered
<1>3. PICK x \in S : z = n - x
  OBVIOUS
<1>4. ASSUME NEW y \in S PROVE x >= y
  <2>1. n - y \in T
    OBVIOUS
  <2>2. n - x <= n - y
    BY <1>2, <1>3, <2>1
  <2> QED BY <2>2
<1>5. \E w \in S : \A y \in S : w >= y
  BY <1>4
<1> QED BY <1>5 DEF Greatest

\* What a fold does with the first n elements, as one function on their subsets.
Unrolls(p, q, r, base, s, n, g) ==
    g = [S \in SUBSET (1..n) |-> IF S = {} THEN base
           ELSE Op(p, q, r, g[S \ {Greatest(S)}], s[Greatest(S)])]

LEMMA UnrollsExists ==
  ASSUME WellOrdered, NEW p, NEW q, NEW r, NEW base, NEW s, NEW len \in Nat
  PROVE  \E g : Unrolls(p, q, r, base, s, len, g)
<1> DEFINE U(n) == \E g : Unrolls(p, q, r, base, s, n, g)
           Bad == {n \in Nat : ~U(n)}
<1>1. U(0)
  <2> DEFINE g == [S \in SUBSET (1..0) |-> base]
  <2>1. \A S \in SUBSET (1..0) : S = {}
    OBVIOUS
  <2>2. g = [S \in SUBSET (1..0) |-> IF S = {} THEN base
               ELSE Op(p, q, r, g[S \ {Greatest(S)}], s[Greatest(S)])]
    BY <2>1
  <2> HIDE DEF g
  <2> QED BY <2>2 DEF Unrolls
<1>2. ASSUME NEW n \in Nat, U(n) PROVE U(n + 1)
  <2>1. PICK g : Unrolls(p, q, r, base, s, n, g)
    BY <1>2
  <2> DEFINE G(S) == IF n + 1 \in S THEN Op(p, q, r, g[S \ {n + 1}], s[n + 1]) ELSE g[S]
             h == [S \in SUBSET (1..(n + 1)) |-> G(S)]
             H(S) == IF S = {} THEN base
                     ELSE Op(p, q, r, h[S \ {Greatest(S)}], s[Greatest(S)])
  <2>2. ASSUME NEW S \in SUBSET (1..(n + 1)) PROVE h[S] = H(S)
    <3>1. CASE n + 1 \in S
      <4>1. Greatest(S) = n + 1
        <5>1. n + 1 \in Nat /\ S # {}
          BY <3>1
        <5>2. Greatest(S) \in S /\ \A y \in S : Greatest(S) >= y
          BY <5>1, GreatestIs
        <5>3. Greatest(S) \in 1..(n + 1) /\ Greatest(S) >= n + 1
          BY <5>2, <3>1
        <5> QED BY <5>3
      <4>2. S \ {n + 1} \in SUBSET (1..(n + 1)) /\ n + 1 \notin S \ {n + 1}
        OBVIOUS
      <4>3. h[S \ {n + 1}] = g[S \ {n + 1}]
        BY <4>2
      <4>4. h[S] = Op(p, q, r, g[S \ {n + 1}], s[n + 1])
        BY <3>1
      <4> HIDE DEF h
      <4> QED BY <3>1, <4>1, <4>3, <4>4
    <3>2. CASE n + 1 \notin S
      <4>1. S \in SUBSET (1..n)
        BY <3>2
      <4>2. h[S] = g[S]
        BY <3>2
      <4>3. g[S] = IF S = {} THEN base
               ELSE Op(p, q, r, g[S \ {Greatest(S)}], s[Greatest(S)])
        BY <2>1, <4>1 DEF Unrolls
      <4>4. S \ {Greatest(S)} \in SUBSET (1..(n + 1)) /\ n + 1 \notin S \ {Greatest(S)}
        <5>1. S \ {Greatest(S)} \subseteq S
          OBVIOUS
        <5> QED BY <3>2, <5>1
      <4>5. h[S \ {Greatest(S)}] = g[S \ {Greatest(S)}]
        BY <4>4
      <4> HIDE DEF h
      <4> QED BY <4>2, <4>3, <4>5
    <3> QED BY <3>1, <3>2
  <2>3. h = [S \in SUBSET (1..(n + 1)) |-> h[S]]
    OBVIOUS
  <2> HIDE DEF h
  <2>4. h = [S \in SUBSET (1..(n + 1)) |-> H(S)]
    BY <2>2, <2>3
  <2>5. Unrolls(p, q, r, base, s, n + 1, h)
    BY <2>4 DEF Unrolls
  <2> QED BY <2>5
<1>3. Bad = {}
  <2> SUFFICES ASSUME Bad # {} PROVE FALSE
    OBVIOUS
  <2> HIDE DEF U
  <2>1. PICK n \in Bad : \A m \in Bad : n <= m
    <3> HIDE DEF Bad
    <3>1. Bad \in SUBSET Nat
      BY DEF Bad
    <3> QED BY <3>1 DEF WellOrdered
  <2>2. n # 0 /\ n - 1 \in Nat /\ n - 1 \notin Bad
    BY <1>1, <2>1
  <2>3. U(n - 1 + 1)
    BY <1>2, <2>2
  <2> QED BY <2>1, <2>2, <2>3
<1> QED BY <1>3

\* What holds of the base and is kept by each application holds of the result.
THEOREM FoldKeeps ==
  ASSUME WellOrdered, NEW p, NEW q, NEW r, NEW base, NEW s,
         Len(s) \in Nat, DOMAIN s = 1..Len(s),
         Good(p, q, r, 0, base),
         \A k \in 1..Len(s) : \A t :
            Good(p, q, r, k - 1, t) => Good(p, q, r, k, Op(p, q, r, t, s[k]))
  PROVE  Good(p, q, r, Len(s), Folded(p, q, r, base, s))
<1> DEFINE len == Len(s)
           iter == CHOOSE g : Unrolls(p, q, r, base, s, len, g)
           Bad == {k \in 0..len : ~Good(p, q, r, k, iter[1..k])}
<1>1. Folded(p, q, r, base, s) = iter[1..len]
  BY DEF Folded, Unrolls, Greatest
<1>2. Unrolls(p, q, r, base, s, len, iter)
  BY UnrollsExists
<1> HIDE DEF iter
<1>3. iter[1..0] = base
  <2>1. 1..0 = {} /\ {} \in SUBSET (1..len)
    OBVIOUS
  <2> QED BY <1>2, <2>1 DEF Unrolls
<1>4. ASSUME NEW k \in 1..len
      PROVE  iter[1..k] = Op(p, q, r, iter[1..(k - 1)], s[k])
  <2>1. 1..k \in SUBSET (1..len) /\ k \in 1..k /\ 1..k \in SUBSET (1..k)
    OBVIOUS
  <2>2. Greatest(1..k) = k
    <3>1. Greatest(1..k) \in 1..k /\ \A y \in 1..k : Greatest(1..k) >= y
      BY <2>1, GreatestIs
    <3> QED BY <3>1, <2>1
  <2>3. (1..k) \ {k} = 1..(k - 1)
    OBVIOUS
  <2> QED BY <1>2, <2>1, <2>2, <2>3 DEF Unrolls
<1>5. Bad = {}
  <2> SUFFICES ASSUME Bad # {} PROVE FALSE
    OBVIOUS
  <2>0. Bad \in SUBSET Nat
    OBVIOUS
  <2>1. PICK n \in Bad : \A m \in Bad : n <= m
    <3> HIDE DEF Bad
    <3> QED BY <2>0 DEF WellOrdered
  <2>2. n # 0
    BY <1>3, <2>1
  <2>3. n \in 1..len /\ n - 1 \in 0..len /\ n - 1 \notin Bad
    BY <2>1, <2>2
  <2>4. Good(p, q, r, n - 1, iter[1..(n - 1)])
    BY <2>3
  <2>5. Good(p, q, r, n, iter[1..n])
    BY <1>4, <2>3, <2>4
  <2> QED BY <2>1, <2>5
<1>6. len \in 0..len
  OBVIOUS
<1> QED BY <1>1, <1>5, <1>6
=============================================================================
