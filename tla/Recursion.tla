------------------------------ MODULE Recursion ------------------------------
(***************************************************************************)
(* Induction over the naturals without an operator for parameter: a set    *)
(* that holds 0 and the successor of all it holds, holds every natural.    *)
(* And recursion: a function of the naturals that starts at Base and goes  *)
(* on by Step exists, which a definition F[n \in Nat] == ... only claims.  *)
(* A module that has such a definition instantiates this one with its own  *)
(* Base and Step.                                                          *)
(***************************************************************************)
EXTENDS Integers, TLAPS, WellFoundedInduction, NaturalsInduction

CONSTANTS Base, Step(_, _)

(* Induction over the naturals, for a set instead of a predicate. *)
LEMMA NatSetInduction ==
  ASSUME NEW S, 0 \in S, \A n \in Nat : n \in S => n + 1 \in S
  PROVE  Nat \subseteq S
<1> DEFINE T == Nat \ S
<1>1. SUFFICES ASSUME T # {} PROVE FALSE
  OBVIOUS
<1>2. IsWellFoundedOn(OpToRel(<, Nat), Nat)
  BY NatLessThanWellFounded
<1>3. PICK x \in T : \A y \in T : ~(<<y, x>> \in OpToRel(<, Nat))
  BY <1>1, <1>2, WFMin
<1>4. \A y \in T : ~(y < x)
  <2> TAKE y \in T
  <2>1. <<y, x>> \in Nat \X Nat /\ <<y, x>>[1] = y /\ <<y, x>>[2] = x
    OBVIOUS
  <2>2. ~(<<y, x>> \in OpToRel(<, Nat))
    BY <1>3
  <2> QED BY <2>1, <2>2 DEF OpToRel
<1>5. x # 0 /\ x - 1 \in Nat
  OBVIOUS
<1>6. x - 1 \notin T
  BY <1>4, <1>5
<1>7. (x - 1) + 1 \in S
  BY <1>5, <1>6
<1>8. (x - 1) + 1 = x
  BY <1>5
<1> QED BY <1>7, <1>8

(* A nonempty set of naturals has a least element. *)
LEMMA NatMinimum ==
  ASSUME NEW S, S \subseteq Nat, S # {}
  PROVE  \E m \in S : \A k \in S : m <= k
<1>1. IsWellFoundedOn(OpToRel(<, Nat), Nat)
  BY NatLessThanWellFounded
<1>2. PICK m \in S : \A k \in S : ~(<<k, m>> \in OpToRel(<, Nat))
  BY <1>1, WFMin
<1>3. \A k \in S : ~(k < m)
  <2> TAKE k \in S
  <2>1. <<k, m>> \in Nat \X Nat /\ <<k, m>>[1] = k /\ <<k, m>>[2] = m
    OBVIOUS
  <2>. QED BY <1>2, <2>1 DEF OpToRel
<1>4. \A k \in S : m <= k
  BY <1>3
<1>. QED BY <1>4

-----------------------------------------------------------------------------
Recursive[n \in Nat] == IF n = 0 THEN Base ELSE Step(n, Recursive[n - 1])

(* Its values up to n. *)
UpTo(g, n) == g = [k \in 0..n |-> IF k = 0 THEN Base ELSE Step(k, g[k - 1])]

LEMMA OneUpTo ==
  ASSUME NEW m \in Nat, NEW n \in Nat, NEW g, NEW h, UpTo(g, m), UpTo(h, n)
  PROVE  \A k \in Nat : k <= m /\ k <= n => g[k] = h[k]
<1> DEFINE E == {k \in Nat : k <= m /\ k <= n => g[k] = h[k]}
<1>1. 0 \in E
  BY DEF UpTo
<1>2. ASSUME NEW k \in Nat, k \in E PROVE k + 1 \in E
  <2>1. SUFFICES ASSUME k + 1 <= m, k + 1 <= n PROVE g[k + 1] = h[k + 1]
    OBVIOUS
  <2>2. g[k] = h[k]
    BY <1>2, <2>1
  <2>3. k + 1 \in 0..m /\ k + 1 \in 0..n /\ k + 1 # 0 /\ (k + 1) - 1 = k
    BY <2>1
  <2>4. g[k + 1] = Step(k + 1, g[(k + 1) - 1])
    BY <2>3 DEF UpTo
  <2>5. h[k + 1] = Step(k + 1, h[(k + 1) - 1])
    BY <2>3 DEF UpTo
  <2>. QED BY <2>2, <2>3, <2>4, <2>5
<1>3. Nat \subseteq E
  <2> HIDE DEF E
  <2>. QED BY <1>1, <1>2, NatSetInduction
<1>. QED BY <1>3

LEMMA SomeUpTo == \A n \in Nat : \E g : UpTo(g, n)
<1> DEFINE E == {n \in Nat : \E g : UpTo(g, n)}
<1>1. 0 \in E
  <2>1. UpTo([k \in 0..0 |-> Base], 0)
    BY DEF UpTo
  <2>. QED BY <2>1
<1>2. ASSUME NEW n \in Nat, n \in E PROVE n + 1 \in E
  <2>1. PICK g : UpTo(g, n)
    BY <1>2
  <2> DEFINE h == [k \in 0..(n + 1) |-> IF k = n + 1 THEN Step(n + 1, g[n]) ELSE g[k]]
  <2>2. ASSUME NEW k \in 0..(n + 1)
        PROVE  h[k] = IF k = 0 THEN Base ELSE Step(k, h[k - 1])
    <3>1. CASE k = 0
      BY <2>1, <3>1 DEF UpTo
    <3>2. CASE k = n + 1
      <4>1. k # 0 /\ k - 1 = n /\ n \in 0..(n + 1) /\ n # n + 1
        BY <3>2
      <4>2. h[k] = Step(n + 1, g[n]) /\ h[n] = g[n]
        BY <3>2, <4>1
      <4>. QED BY <3>2, <4>1, <4>2
    <3>3. CASE k # 0 /\ k # n + 1
      <4>1. k \in 0..n /\ k - 1 \in 0..(n + 1) /\ k - 1 # n + 1
        BY <3>3
      <4>2. g[k] = Step(k, g[k - 1])
        BY <2>1, <3>3, <4>1 DEF UpTo
      <4>3. h[k] = g[k] /\ h[k - 1] = g[k - 1]
        BY <3>3, <4>1
      <4>. QED BY <3>3, <4>2, <4>3
    <3>. QED BY <3>1, <3>2, <3>3
  <2>3. UpTo(h, n + 1)
    <3>1. h = [k \in 0..(n + 1) |-> h[k]]
      OBVIOUS
    <3> HIDE DEF h
    <3>2. h = [k \in 0..(n + 1) |-> IF k = 0 THEN Base ELSE Step(k, h[k - 1])]
      BY <2>2, <3>1
    <3>. QED BY <3>2 DEF UpTo
  <2>. QED BY <2>3
<1>3. Nat \subseteq E
  <2> HIDE DEF E
  <2>. QED BY <1>1, <1>2, NatSetInduction
<1>. QED BY <1>3

(* The function there should be. *)
LEMMA RecursiveIs ==
  /\ Recursive[0] = Base
  /\ \A n \in Nat : Recursive[n + 1] = Step(n + 1, Recursive[n])
<1> DEFINE Good(g) == g = [n \in Nat |-> IF n = 0 THEN Base ELSE Step(n, g[n - 1])]
           upTo == [n \in Nat |-> CHOOSE g : UpTo(g, n)]
           f == [n \in Nat |-> upTo[n][n]]
<1>1. \A n \in Nat : UpTo(upTo[n], n)
  BY SomeUpTo
<1> HIDE DEF upTo
<1>2. ASSUME NEW n \in Nat PROVE f[n] = IF n = 0 THEN Base ELSE Step(n, f[n - 1])
  <2>1. CASE n = 0
    <3>1. UpTo(upTo[0], 0)
      BY <1>1
    <3>2. upTo[0][0] = Base
      BY <3>1 DEF UpTo
    <3>. QED BY <2>1, <3>2
  <2>2. CASE n # 0
    <3>1. n - 1 \in Nat /\ n \in 0..n /\ n - 1 <= n /\ n - 1 <= n - 1
      BY <2>2
    <3>2. UpTo(upTo[n], n) /\ UpTo(upTo[n - 1], n - 1)
      BY <1>1, <3>1
    <3>3. upTo[n][n - 1] = upTo[n - 1][n - 1]
      BY <3>1, <3>2, OneUpTo
    <3>4. upTo[n][n] = Step(n, upTo[n][n - 1])
      BY <2>2, <3>1, <3>2 DEF UpTo
    <3>5. f[n] = upTo[n][n] /\ f[n - 1] = upTo[n - 1][n - 1]
      BY <3>1
    <3>. QED BY <2>2, <3>3, <3>4, <3>5
  <2>. QED BY <2>1, <2>2
<1>3. Good(f)
  <2>1. f = [n \in Nat |-> f[n]]
    OBVIOUS
  <2> HIDE DEF f
  <2>. QED BY <1>2, <2>1
<1> HIDE DEF f
<1>4. Good(CHOOSE g : Good(g))
  <2> HIDE DEF Good
  <2>. QED BY <1>3
<1>5. Good(Recursive)
  BY <1>4 DEF Recursive
<1>6. Recursive[0] = Base
  BY <1>5
<1>7. ASSUME NEW n \in Nat PROVE Recursive[n + 1] = Step(n + 1, Recursive[n])
  <2>1. n + 1 \in Nat /\ n + 1 # 0 /\ (n + 1) - 1 = n
    OBVIOUS
  <2>2. Recursive[n + 1] = Step(n + 1, Recursive[(n + 1) - 1])
    BY <1>5, <2>1
  <2>. QED BY <2>1, <2>2
<1>. QED BY <1>6, <1>7
-----------------------------------------------------------------------------
(* The same for a step that depends on more than constants: G[n] says what *)
(* comes of the n-th element.                                              *)

Approaches(g, n, b, G) == g[0] = b /\ \A k \in 0..(n - 1) : g[k + 1] = G[k][g[k]]

LEMMA SameApproach ==
  ASSUME NEW b, NEW G, NEW m \in Nat, NEW n \in Nat, NEW g, NEW h,
         Approaches(g, m, b, G), Approaches(h, n, b, G)
  PROVE  \A k \in Nat : k <= m /\ k <= n => g[k] = h[k]
<1> DEFINE E == {k \in Nat : k <= m /\ k <= n => g[k] = h[k]}
<1>1. 0 \in E
  BY DEF Approaches
<1>2. ASSUME NEW k \in Nat, k \in E PROVE k + 1 \in E
  <2>1. SUFFICES ASSUME k + 1 <= m, k + 1 <= n PROVE g[k + 1] = h[k + 1]
    OBVIOUS
  <2>2. k \in 0..(m - 1) /\ k \in 0..(n - 1) /\ g[k] = h[k]
    BY <1>2, <2>1
  <2>. QED BY <2>2 DEF Approaches
<1>3. Nat \subseteq E
  <2> HIDE DEF E
  <2>. QED BY <1>1, <1>2, NatSetInduction
<1>. QED BY <1>3

Obeys(f, b, G) == f[0] = b /\ \A n \in Nat : f[n + 1] = G[n][f[n]]

LEMMA StepByStep ==
  ASSUME NEW X, NEW b \in X, NEW G \in [Nat -> [X -> X]]
  PROVE  \E f \in [Nat -> X] : Obeys(f, b, G)
<1> DEFINE E == {n \in Nat : \E g \in [0..n -> X] : Approaches(g, n, b, G)}
<1>1. 0 \in E
  <2>1. [k \in 0..0 |-> b] \in [0..0 -> X] /\ Approaches([k \in 0..0 |-> b], 0, b, G)
    BY DEF Approaches
  <2>. QED BY <2>1
<1>2. ASSUME NEW n \in Nat, n \in E PROVE n + 1 \in E
  <2>1. PICK g \in [0..n -> X] : Approaches(g, n, b, G)
    BY <1>2
  <2> DEFINE h == [k \in 0..(n + 1) |-> IF k = n + 1 THEN G[n][g[n]] ELSE g[k]]
  <2>2. h \in [0..(n + 1) -> X]
    <3>1. G[n][g[n]] \in X
      OBVIOUS
    <3>. QED BY <3>1
  <2>3. h[0] = b
    BY <2>1 DEF Approaches
  <2>4. ASSUME NEW k \in 0..((n + 1) - 1)
        PROVE  h[k + 1] = G[k][h[k]]
    <3>1. k \in 0..n /\ k # n + 1 /\ k \in 0..(n + 1) /\ k + 1 \in 0..(n + 1)
      OBVIOUS
    <3>2. h[k] = g[k]
      BY <3>1
    <3>3. CASE k = n
      BY <3>1, <3>2, <3>3
    <3>4. CASE k # n
      <4>1. k \in 0..(n - 1) /\ k + 1 # n + 1
        BY <3>1, <3>4
      <4>2. g[k + 1] = G[k][g[k]]
        BY <2>1, <4>1 DEF Approaches
      <4>. QED BY <3>1, <3>2, <4>1, <4>2
    <3>. QED BY <3>3, <3>4
  <2> HIDE DEF h
  <2>5. Approaches(h, n + 1, b, G)
    BY <2>3, <2>4 DEF Approaches
  <2>. QED BY <2>2, <2>5
<1>3. Nat \subseteq E
  <2> HIDE DEF E
  <2>. QED BY <1>1, <1>2, NatSetInduction
<1> DEFINE upTo == [n \in Nat |-> CHOOSE g \in [0..n -> X] : Approaches(g, n, b, G)]
           f == [n \in Nat |-> upTo[n][n]]
<1>4. \A n \in Nat : upTo[n] \in [0..n -> X] /\ Approaches(upTo[n], n, b, G)
  BY <1>3
<1> HIDE DEF upTo
<1>5. f \in [Nat -> X]
  <2>1. \A n \in Nat : n \in 0..n
    OBVIOUS
  <2>. QED BY <1>4, <2>1
<1>6. f[0] = b
  BY <1>4 DEF Approaches
<1>7. ASSUME NEW n \in Nat PROVE f[n + 1] = G[n][f[n]]
  <2>1. Approaches(upTo[n], n, b, G) /\ Approaches(upTo[n + 1], n + 1, b, G)
    BY <1>4
  <2>2. upTo[n + 1][n] = upTo[n][n]
    <3> DEFINE g == upTo[n + 1]
               h == upTo[n]
               m == n + 1
    <3>1. Approaches(g, m, b, G) /\ Approaches(h, n, b, G) /\ m \in Nat /\ n <= m /\ n <= n
      BY <2>1
    <3> HIDE DEF g, h, m
    <3>2. g[n] = h[n]
      BY <3>1, SameApproach
    <3>. QED BY <3>2 DEF g, h, m
  <2>3. upTo[n + 1][n + 1] = G[n][upTo[n + 1][n]]
    <3>1. n \in 0..((n + 1) - 1)
      OBVIOUS
    <3>. QED BY <2>1, <3>1 DEF Approaches
  <2>. QED BY <2>2, <2>3
<1> HIDE DEF f
<1>8. Obeys(f, b, G)
  BY <1>6, <1>7 DEF Obeys
<1>. QED BY <1>5, <1>8
=============================================================================
