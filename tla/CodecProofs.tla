----------------------------- MODULE CodecProofs -----------------------------
(***************************************************************************)
(* Containers, encoder and decoder together.  For every value there is:    *)
(* the sizes allocated beforehand are those of the texts; what the decoder *)
(* accepts is the one encoding of the value it returns; and so the info    *)
(* hash is that of the info dictionary as it stands in the .torrent file.  *)
(***************************************************************************)
EXTENDS Codec, DecoderProofs, ContainersProofs

(* The lemmas on the naturals; nothing is defined by this recursion. *)
LOCAL INSTANCE Recursion WITH Base <- 0, Step <- LAMBDA n, x : x

-----------------------------------------------------------------------------
(* Sequences: their parts put together, and sums over them. *)

LEMMA FunctionIsSeq ==
  ASSUME NEW S, NEW n \in Nat, NEW f \in [1..n -> S]
  PROVE  f \in Seq(S) /\ Len(f) = n /\ DOMAIN f = 1..n
  OBVIOUS

LEMMA ConcatIsSeq ==
  ASSUME NEW S, NEW s \in Seq(S), NEW t \in Seq(S)
  PROVE  s \o t \in Seq(S)
  BY ConcatProperties

(* FlattenSeq is a recursive function; any function that obeys the same    *)
(* equations has its values.                                               *)
LEMMA FlattenIs ==
  ASSUME NEW S, NEW ss \in Seq(Seq(S)), NEW f, f[0] = <<>>,
         \A n \in 1..Len(ss) : f[n] = f[n - 1] \o ss[n]
  PROVE  FlattenSeq(ss) = f[Len(ss)]
<1> DEFINE n == Len(ss)
           Good(g) == g = [i \in 1..n |-> IF i = 1 THEN ss[i] ELSE g[i - 1] \o ss[i]]
           h == [i \in 1..n |-> f[i]]
<1>1. n \in Nat /\ \A i \in 1..n : ss[i] \in Seq(S)
  OBVIOUS
<1>2. CASE n = 0
  <2>1. ss = <<>>
    BY <1>2, EmptySeq
  <2>. QED BY <1>2, <2>1 DEF FlattenSeq
<1>3. CASE n # 0
  <2>1. FlattenSeq(ss) = (CHOOSE g : Good(g))[n]
    BY <1>3 DEF FlattenSeq
  <2>2. \A i \in 1..n : f[i] = f[i - 1] \o ss[i]
    OBVIOUS
  <2> HIDE DEF n
  <2>3. ASSUME NEW i \in 1..n
        PROVE  h[i] = IF i = 1 THEN ss[i] ELSE h[i - 1] \o ss[i]
    <3>1. CASE i = 1
      <4>1. 1 \in 1..n /\ 1 - 1 = 0
        BY <1>1, <1>3
      <4>2. f[1] = f[0] \o ss[1]
        BY <2>2, <4>1
      <4>. QED BY <1>1, <3>1, <4>1, <4>2, ConcatEmptySeq
    <3>2. CASE i # 1
      <4>1. i - 1 \in 1..n
        BY <1>1, <3>2
      <4>. QED BY <2>2, <3>2, <4>1
    <3>. QED BY <3>1, <3>2
  <2>4. Good(h)
    <3>1. h = [i \in 1..n |-> h[i]]
      OBVIOUS
    <3> HIDE DEF h
    <3>. QED BY <2>3, <3>1
  <2>5. Good(CHOOSE g : Good(g))
    <3> HIDE DEF Good
    <3>. QED BY <2>4
  <2>6. ASSUME NEW g, Good(g)
        PROVE  g[n] = f[n]
    <3> DEFINE E == {k \in Nat : k + 1 <= n => g[k + 1] = f[k + 1]}
    <3>0. \A i \in 1..n : g[i] = IF i = 1 THEN ss[i] ELSE g[i - 1] \o ss[i]
      BY <2>6
    <3> HIDE DEF Good
    <3>1. 0 \in E
      <4>1. 1 \in 1..n
        BY <1>1, <1>3
      <4>2. g[1] = ss[1] /\ h[1] = ss[1] /\ h[1] = f[1]
        BY <2>3, <3>0, <4>1
      <4>. QED BY <4>2
    <3>2. ASSUME NEW k \in Nat, k \in E PROVE k + 1 \in E
      <4>1. SUFFICES ASSUME (k + 1) + 1 <= n PROVE g[(k + 1) + 1] = f[(k + 1) + 1]
        OBVIOUS
      <4> DEFINE i == (k + 1) + 1
      <4>2. i \in 1..n /\ i # 1 /\ i - 1 = k + 1 /\ k + 1 <= n
        BY <1>1, <4>1
      <4>3. g[i - 1] = f[i - 1]
        BY <3>2, <4>2
      <4>4. g[i] = g[i - 1] \o ss[i]
        BY <3>0, <4>2
      <4>5. f[i] = f[i - 1] \o ss[i]
        BY <2>2, <4>2
      <4>. QED BY <4>3, <4>4, <4>5
    <3>3. Nat \subseteq E
      <4> HIDE DEF E
      <4>. QED BY <3>1, <3>2, NatSetInduction
    <3>4. n - 1 \in Nat /\ (n - 1) + 1 = n /\ n <= n
      BY <1>1, <1>3
    <3>5. n - 1 \in E
      BY <3>3, <3>4
    <3>. QED BY <3>4, <3>5
  <2>. QED BY <2>1, <2>5, <2>6 DEF n
<1>. QED BY <1>2, <1>3

(* And there is such a function. *)
LEMMA Flattened ==
  ASSUME NEW S, NEW ss \in Seq(Seq(S))
  PROVE  \E f \in [Nat -> Seq(S)] :
           f[0] = <<>> /\ \A n \in 1..Len(ss) : f[n] = f[n - 1] \o ss[n]
<1> DEFINE X == Seq(S)
           G == [n \in Nat |-> [x \in X |-> IF n + 1 \in 1..Len(ss) THEN x \o ss[n + 1] ELSE x]]
<1>1. <<>> \in X /\ \A n \in 1..Len(ss) : ss[n] \in X
  OBVIOUS
<1>2. G \in [Nat -> [X -> X]]
  <2>1. ASSUME NEW n \in Nat, NEW x \in X
        PROVE  (IF n + 1 \in 1..Len(ss) THEN x \o ss[n + 1] ELSE x) \in X
    <3>1. CASE n + 1 \in 1..Len(ss)
      <4>1. ss[n + 1] \in Seq(S) /\ x \in Seq(S)
        BY <1>1, <3>1
      <4>. QED BY <3>1, <4>1, ConcatIsSeq
    <3>2. CASE n + 1 \notin 1..Len(ss)
      BY <3>2
    <3>. QED BY <3>1, <3>2
  <2> HIDE DEF X
  <2>. QED BY <2>1
<1>3. \E f \in [Nat -> X] : f[0] = <<>> /\ \A n \in Nat : f[n + 1] = G[n][f[n]]
  <2> DEFINE b == <<>>
  <2>1. b \in X
    BY <1>1
  <2> HIDE DEF X, G, b
  <2>2. PICK f \in [Nat -> X] : Obeys(f, b, G)
    BY <1>2, <2>1, StepByStep
  <2>. QED BY <2>2 DEF b, Obeys
<1>4. PICK f \in [Nat -> X] : f[0] = <<>> /\ \A n \in Nat : f[n + 1] = G[n][f[n]]
  BY <1>3
<1>5. ASSUME NEW n \in 1..Len(ss) PROVE f[n] = f[n - 1] \o ss[n]
  <2>1. n - 1 \in Nat /\ (n - 1) + 1 = n
    OBVIOUS
  <2>2. f[n] = G[n - 1][f[n - 1]] /\ f[n - 1] \in X
    BY <1>4, <2>1
  <2>. QED BY <2>1, <2>2
<1>. QED BY <1>4, <1>5

LEMMA FlattenEmpty == FlattenSeq(<<>>) = <<>>
  BY DEF FlattenSeq

LEMMA FlattenAppend ==
  ASSUME NEW S, NEW ss \in Seq(Seq(S)), NEW x \in Seq(S)
  PROVE  /\ FlattenSeq(ss) \in Seq(S)
         /\ FlattenSeq(Append(ss, x)) = FlattenSeq(ss) \o x
<1> DEFINE a == Append(ss, x)
           n == Len(ss)
<1>1. /\ a \in Seq(Seq(S)) /\ Len(a) = n + 1 /\ n \in Nat
      /\ (\A i \in 1..n : a[i] = ss[i]) /\ a[n + 1] = x
  BY AppendProperties
<1> HIDE DEF a
<1>2. PICK f \in [Nat -> Seq(S)] : f[0] = <<>> /\ \A i \in 1..Len(a) : f[i] = f[i - 1] \o a[i]
  BY <1>1, Flattened
<1>3. FlattenSeq(a) = f[n + 1]
  BY <1>1, <1>2, FlattenIs
<1>4. f[n + 1] = f[n] \o x
  <2>1. n + 1 \in 1..Len(a) /\ (n + 1) - 1 = n
    BY <1>1
  <2>. QED BY <1>1, <1>2, <2>1
<1>5. FlattenSeq(ss) = f[n]
  <2>1. \A i \in 1..n : f[i] = f[i - 1] \o ss[i]
    <3> TAKE i \in 1..n
    <3>1. i \in 1..Len(a) /\ a[i] = ss[i]
      BY <1>1
    <3>. QED BY <1>2, <3>1
  <2>. QED BY <1>2, <2>1, FlattenIs
<1>. QED BY <1>1, <1>2, <1>3, <1>4, <1>5 DEF a

LEMMA FlattenType ==
  ASSUME NEW S, NEW ss \in Seq(Seq(S))
  PROVE  FlattenSeq(ss) \in Seq(S)
<1>1. <<>> \in Seq(S)
  OBVIOUS
<1>. QED BY <1>1, FlattenAppend

Begins(x, y, S) == \E c \in Seq(S) : x = y \o c

LEMMA BeginsConcat ==
  ASSUME NEW S, NEW x, NEW y \in Seq(S), Begins(x, y, S), NEW z \in Seq(S)
  PROVE  Begins(x \o z, y, S)
<1>1. PICK c \in Seq(S) : x = y \o c
  BY DEF Begins
<1>2. (y \o c) \o z = y \o (c \o z)
  BY ConcatAssociative
<1>3. c \o z \in Seq(S)
  BY ConcatIsSeq
<1>. QED BY <1>1, <1>2, <1>3 DEF Begins

(* Each of the parts stands somewhere in the whole. *)
LEMMA FlattenHas ==
  ASSUME NEW S, NEW ss \in Seq(Seq(S)), NEW i \in 1..Len(ss)
  PROVE  \E a, c \in Seq(S) : FlattenSeq(ss) = (a \o ss[i]) \o c
<1>1. PICK f \in [Nat -> Seq(S)] : f[0] = <<>> /\ \A n \in 1..Len(ss) : f[n] = f[n - 1] \o ss[n]
  BY Flattened
<1> DEFINE m == Len(ss)
           a == f[i - 1]
           y == a \o ss[i]
           E == {k \in Nat : i + k <= m => Begins(f[i + k], y, S)}
<1>2. m \in Nat /\ i \in Nat /\ i >= 1 /\ i <= m /\ i - 1 \in Nat
  OBVIOUS
<1>3. a \in Seq(S) /\ y \in Seq(S)
  <2>1. a \in Seq(S) /\ ss[i] \in Seq(S)
    BY <1>1, <1>2, ElementOfSeq
  <2> HIDE DEF a
  <2>. QED BY <2>1, ConcatIsSeq
<1>4. f[i] = y
  BY <1>1
<1>5. \A k \in 1..m : ss[k] \in Seq(S) /\ f[k] = f[k - 1] \o ss[k]
  BY <1>1, ElementOfSeq
<1> HIDE DEF a, y, m
<1>6. 0 \in E
  <2>1. f[i] = y \o <<>> /\ <<>> \in Seq(S) /\ i + 0 = i
    BY <1>2, <1>3, <1>4, ConcatEmptySeq
  <2>. QED BY <2>1 DEF Begins
<1>7. ASSUME NEW k \in Nat, k \in E PROVE k + 1 \in E
  <2> DEFINE j == i + (k + 1)
  <2>1. ASSUME j <= m PROVE Begins(f[j], y, S)
    <3>1. j \in 1..m /\ j - 1 = i + k /\ i + k <= m
      BY <1>2, <2>1
    <3>2. f[j] = f[i + k] \o ss[j] /\ ss[j] \in Seq(S) /\ Begins(f[i + k], y, S)
      BY <1>5, <1>7, <3>1
    <3>. QED BY <1>3, <3>2, BeginsConcat
  <2>. QED BY <2>1
<1>8. Nat \subseteq E
  <2> HIDE DEF E
  <2>. QED BY <1>6, <1>7, NatSetInduction
<1>9. m - i \in Nat /\ i + (m - i) = m /\ m <= m
  BY <1>2
<1>10. m - i \in E
  BY <1>8, <1>9
<1>11. Begins(f[m], y, S)
  BY <1>9, <1>10
<1>12. FlattenSeq(ss) = f[m]
  BY <1>1, FlattenIs DEF m
<1>. QED BY <1>3, <1>11, <1>12 DEF y, Begins

LEMMA FrontLast ==
  ASSUME NEW S, NEW s \in Seq(S), s # <<>>
  PROVE  /\ Front(s) \in Seq(S) /\ Last(s) \in S /\ s = Append(Front(s), Last(s))
         /\ Len(s) \in Nat \ {0} /\ Len(Front(s)) = Len(s) - 1
         /\ \A i \in 1..(Len(s) - 1) : Front(s)[i] = s[i]
<1>1. PICK f \in Seq(S), e \in S : s = Append(f, e)
  BY SequenceEmptyOrAppend
<1> DEFINE n == Len(f)
<1>2. /\ n \in Nat /\ Len(s) = n + 1 /\ s \in Seq(S) /\ s[n + 1] = e
      /\ \A i \in 1..n : s[i] = f[i]
  BY <1>1, AppendProperties
<1> DEFINE g == SubSeq(s, 1, n)
<1>3. g \in Seq(S) /\ Len(g) = n /\ \A i \in 1..n : g[i] = s[i]
  <2> HIDE DEF n
  <2>1. \A i \in 1..n : s[i] \in S
    BY <1>2
  <2>2. /\ SubSeq(s, 1, n) \in Seq(S)
        /\ Len(SubSeq(s, 1, n)) = IF 1 <= n THEN n - 1 + 1 ELSE 0
        /\ \A i \in 1..(n - 1 + 1) : SubSeq(s, 1, n)[i] = s[1 + i - 1]
    BY <1>2, <2>1, SubSeqProperties
  <2>. QED BY <1>2, <2>2
<1>4. Front(s) = g /\ Last(s) = e
  BY <1>2 DEF Front, Last
<1>5. g = f
  <2> HIDE DEF g
  <2>. QED BY <1>2, <1>3, SeqEqual
<1> HIDE DEF g
<1>. QED BY <1>1, <1>2, <1>3, <1>4, <1>5

(* The same for a sum.                                                     *)
LEMMA TotalIs ==
  ASSUME NEW s \in Seq(Nat), NEW f, f[0] = 0,
         \A n \in 1..Len(s) : f[n] = f[n - 1] + s[n]
  PROVE  Total(s) = f[Len(s)]
<1> DEFINE n == Len(s)
           Good(g) == g = [i \in 0..n |-> IF i = 0 THEN 0 ELSE g[i - 1] + s[i]]
           h == [i \in 0..n |-> f[i]]
<1>1. n \in Nat
  OBVIOUS
<1>2. Total(s) = (CHOOSE g : Good(g))[n]
  BY DEF Total
<1>3. \A i \in 1..n : f[i] = f[i - 1] + s[i]
  OBVIOUS
<1> HIDE DEF n
<1>4. Good(h)
  <2>1. ASSUME NEW i \in 0..n PROVE h[i] = IF i = 0 THEN 0 ELSE h[i - 1] + s[i]
    <3>1. i # 0 => i \in 1..n /\ i - 1 \in 0..n
      BY <1>1
    <3>. QED BY <1>3, <3>1
  <2>2. h = [i \in 0..n |-> h[i]]
    OBVIOUS
  <2> HIDE DEF h
  <2>. QED BY <2>1, <2>2
<1>5. Good(CHOOSE g : Good(g))
  <2> HIDE DEF Good
  <2>. QED BY <1>4
<1>6. ASSUME NEW g, Good(g) PROVE g[n] = f[n]
  <2> DEFINE E == {k \in Nat : k <= n => g[k] = f[k]}
  <2>1. \A i \in 0..n : g[i] = IF i = 0 THEN 0 ELSE g[i - 1] + s[i]
    BY <1>6
  <2> HIDE DEF Good
  <2>2. 0 \in E
    BY <1>1, <2>1
  <2>3. ASSUME NEW k \in Nat, k \in E PROVE k + 1 \in E
    <3>1. k + 1 <= n => k + 1 \in 0..n /\ k + 1 \in 1..n /\ k <= n /\ (k + 1) - 1 = k
      BY <1>1
    <3>. QED BY <1>3, <2>1, <2>3, <3>1
  <2>4. Nat \subseteq E
    <3> HIDE DEF E
    <3>. QED BY <2>2, <2>3, NatSetInduction
  <2>. QED BY <1>1, <2>4
<1>. QED BY <1>2, <1>5, <1>6 DEF n

LEMMA Totalled ==
  ASSUME NEW s \in Seq(Nat)
  PROVE  \E f \in [Nat -> Nat] : f[0] = 0 /\ \A n \in 1..Len(s) : f[n] = f[n - 1] + s[n]
<1> DEFINE G == [n \in Nat |-> [x \in Nat |-> IF n + 1 \in 1..Len(s) THEN x + s[n + 1] ELSE x]]
<1>1. G \in [Nat -> [Nat -> Nat]]
  OBVIOUS
<1>2. PICK f \in [Nat -> Nat] : Obeys(f, 0, G)
  <2> HIDE DEF G
  <2>. QED BY <1>1, StepByStep
<1>3. ASSUME NEW n \in 1..Len(s) PROVE f[n] = f[n - 1] + s[n]
  <2>1. n - 1 \in Nat /\ (n - 1) + 1 = n
    OBVIOUS
  <2>2. f[n] = G[n - 1][f[n - 1]] /\ f[n - 1] \in Nat
    BY <1>2, <2>1 DEF Obeys
  <2>. QED BY <2>1, <2>2
<1>. QED BY <1>2, <1>3 DEF Obeys

LEMMA TotalIsNat ==
  ASSUME NEW s \in Seq(Nat)
  PROVE  Total(s) \in Nat
<1>1. PICK f \in [Nat -> Nat] : f[0] = 0 /\ \A n \in 1..Len(s) : f[n] = f[n - 1] + s[n]
  BY Totalled
<1>2. Total(s) = f[Len(s)]
  BY <1>1, TotalIs
<1>3. Len(s) \in Nat
  OBVIOUS
<1>. QED BY <1>2, <1>3

(* The length of parts put together. *)
LEMMA FlattenLen ==
  ASSUME NEW S, NEW ss \in Seq(Seq(S))
  PROVE  Len(FlattenSeq(ss)) = Total([i \in DOMAIN ss |-> Len(ss[i])])
<1> DEFINE m == Len(ss)
           s == [i \in DOMAIN ss |-> Len(ss[i])]
<1>1. PICK f \in [Nat -> Seq(S)] : f[0] = <<>> /\ \A n \in 1..Len(ss) : f[n] = f[n - 1] \o ss[n]
  BY Flattened
<1>2. m \in Nat /\ DOMAIN ss = 1..m
  OBVIOUS
<1>3. \A i \in 1..m : ss[i] \in Seq(S) /\ Len(ss[i]) \in Nat
  BY ElementOfSeq, LenProperties
<1>4. s \in Seq(Nat) /\ Len(s) = m /\ \A i \in 1..m : s[i] = Len(ss[i])
  BY <1>2, <1>3
<1> DEFINE g == [n \in Nat |-> Len(f[n])]
<1>5. g \in [Nat -> Nat] /\ g[0] = 0
  <2>1. \A n \in Nat : Len(f[n]) \in Nat
    BY LenProperties
  <2>. QED BY <1>1, <2>1
<1>6. ASSUME NEW n \in 1..m PROVE g[n] = g[n - 1] + s[n]
  <2>1. n \in Nat /\ n - 1 \in Nat
    BY <1>2
  <2>2. f[n] = f[n - 1] \o ss[n] /\ f[n - 1] \in Seq(S) /\ ss[n] \in Seq(S)
    BY <1>1, <1>3, <2>1
  <2>3. Len(f[n]) = Len(f[n - 1]) + Len(ss[n])
    BY <2>2, ConcatProperties
  <2>. QED BY <1>4, <2>1, <2>3
<1>7. FlattenSeq(ss) = f[m]
  BY <1>1, FlattenIs
<1> HIDE DEF s, m
<1>8. Total(s) = g[m]
  <2> HIDE DEF g
  <2>. QED BY <1>4, <1>5, <1>6, TotalIs
<1>. QED BY <1>2, <1>7, <1>8 DEF s

-----------------------------------------------------------------------------
(* A sum does not depend on the order. *)

Removed(s, k) == [i \in 1..(Len(s) - 1) |-> IF i < k THEN s[i] ELSE s[i + 1]]

LEMMA TotalRemoved ==
  ASSUME NEW s \in Seq(Nat), NEW k \in 1..Len(s)
  PROVE  /\ Removed(s, k) \in Seq(Nat) /\ Len(Removed(s, k)) = Len(s) - 1
         /\ Total(s) = s[k] + Total(Removed(s, k))
<1> DEFINE n == Len(s)
           r == Removed(s, k)
<1>1. n \in Nat /\ n - 1 \in Nat /\ k \in Nat /\ k >= 1 /\ k <= n /\ k \in 1..n /\ n \in 1..n
  OBVIOUS
<1>2. \A i \in 1..n : s[i] \in Nat
  OBVIOUS
<1>3. r \in [1..(n - 1) -> Nat] /\ \A i \in 1..(n - 1) : r[i] = IF i < k THEN s[i] ELSE s[i + 1]
  <2>1. \A i \in 1..(n - 1) : i \in 1..n /\ i + 1 \in 1..n
    BY <1>1
  <2>. QED BY <1>2, <2>1 DEF Removed
<1>4. r \in Seq(Nat) /\ Len(r) = n - 1
  BY <1>1, <1>3, FunctionIsSeq
<1>5. PICK f : /\ f \in [Nat -> Nat] /\ f[0] = 0
               /\ \A i \in 1..n : f[i] = f[i - 1] + s[i]
  BY Totalled
<1>6. Total(s) = f[n]
  BY <1>5, TotalIs
<1> DEFINE g == [i \in Nat |-> IF i < k THEN f[i] ELSE f[i + 1] - s[k]]
<1>7. g[0] = 0
  BY <1>1, <1>5
<1>0. s[k] \in Nat /\ \A i \in Nat : f[i] \in Nat
  BY <1>1, <1>2, <1>5
<1> HIDE DEF n, r
<1>8. ASSUME NEW i \in 1..(n - 1) PROVE g[i] = g[i - 1] + r[i]
  <2>1. /\ i \in Nat /\ i - 1 \in Nat /\ i + 1 \in Nat /\ (i - 1) + 1 = i
        /\ (i + 1) - 1 = i /\ i \in 1..n /\ i + 1 \in 1..n
    BY <1>1
  <2>2. f[i] = f[i - 1] + s[i] /\ f[i + 1] = f[i] + s[i + 1]
    BY <1>5, <2>1
  <2>3. f[i] \in Nat /\ f[i - 1] \in Nat /\ f[i + 1] \in Nat
        /\ s[i] \in Nat /\ s[i + 1] \in Nat /\ s[k] \in Nat
    BY <1>0, <1>2, <2>1
  <2>4. CASE i < k
    <3>1. i - 1 < k
      BY <1>1, <2>1, <2>4
    <3>2. g[i] = f[i] /\ g[i - 1] = f[i - 1] /\ r[i] = s[i]
      BY <1>3, <2>1, <2>4, <3>1
    <3>. QED BY <2>2, <3>2
  <2>5. CASE i = k
    <3>1. i - 1 < k /\ ~(i < k)
      BY <1>1, <2>1, <2>5
    <3>2. g[i] = f[i + 1] - s[k] /\ g[i - 1] = f[i - 1] /\ r[i] = s[i + 1]
      BY <1>3, <2>1, <3>1
    <3> HIDE DEF g
    <3> DEFINE x == f[i - 1]
               y == s[i]
               z == s[i + 1]
               u == f[i]
               v == f[i + 1]
    <3>3. u = x + y /\ v = u + z /\ x \in Nat /\ y \in Nat /\ z \in Nat
      BY <2>2, <2>3
    <3>4. v - y = x + z
      <4> HIDE DEF x, y, z, u, v
      <4>. QED BY <3>3
    <3>. QED BY <2>5, <3>2, <3>4, Zenon
  <2>6. CASE i > k
    <3>1. ~(i - 1 < k) /\ ~(i < k)
      BY <1>1, <2>1, <2>6
    <3>2. g[i] = f[i + 1] - s[k] /\ g[i - 1] = f[i] - s[k] /\ r[i] = s[i + 1]
      BY <1>3, <2>1, <3>1
    <3> HIDE DEF g
    <3> DEFINE y == s[k]
               z == s[i + 1]
               u == f[i]
               v == f[i + 1]
    <3>3. v = u + z /\ u \in Nat /\ y \in Nat /\ z \in Nat
      BY <2>2, <2>3
    <3>4. v - y = (u - y) + z
      <4> HIDE DEF y, z, u, v
      <4>. QED BY <3>3
    <3>. QED BY <3>2, <3>4, Zenon
  <2>. QED BY <1>1, <2>4, <2>5, <2>6
<1>9. Total(r) = g[n - 1]
  <2> HIDE DEF g
  <2>. QED BY <1>1, <1>4, <1>7, <1>8, TotalIs
<1>10. g[n - 1] = f[n] - s[k]
  <2>1. CASE k = n
    <3>1. n - 1 < k
      BY <1>1, <2>1
    <3>2. g[n - 1] = f[n - 1] /\ f[n] = f[n - 1] + s[n] /\ s[n] \in Nat /\ f[n - 1] \in Nat
      <4>1. g[n - 1] = f[n - 1]
        BY <1>1, <3>1
      <4> HIDE DEF g
      <4>. QED BY <1>0, <1>1, <1>2, <1>5, <4>1
    <3> HIDE DEF g
    <3>4. f[n - 1] = f[n] - s[n]
      BY <3>2
    <3>. QED BY <2>1, <3>2, <3>4, Zenon
  <2>2. CASE k < n
    <3>1. (n - 1) + 1 = n /\ ~(n - 1 < k)
      BY <1>1, <2>2
    <3>. QED BY <1>1, <3>1
  <2>. QED BY <1>1, <2>1, <2>2
<1>11. Total(s) = s[k] + Total(r)
  <2>1. f[n] \in Nat /\ s[k] \in Nat
    BY <1>0, <1>1
  <2> HIDE DEF g
  <2>2. \A x, y \in Nat : x = y + (x - y)
    OBVIOUS
  <2>3. f[n] = s[k] + (f[n] - s[k])
    BY <2>1, <2>2, Zenon
  <2>. QED BY <1>6, <1>9, <1>10, <2>3, Zenon
<1>. QED BY <1>4, <1>11 DEF n, r

LEMMA TotalPermuted ==
  ASSUME NEW n \in Nat
  PROVE  \A a \in [1..n -> Nat] : \A p \in Bijection(1..n, 1..n) :
           Total([i \in 1..n |-> a[p[i]]]) = Total(a)
<1> DEFINE Same(m) == \A a \in [1..m -> Nat] : \A p \in Bijection(1..m, 1..m) :
                        Total([i \in 1..m |-> a[p[i]]]) = Total(a)
           E == {m \in Nat : Same(m)}
<1>1. 0 \in E
  <2>1. ASSUME NEW a \in [1..0 -> Nat], NEW p
        PROVE  [i \in 1..0 |-> a[p[i]]] = a
    OBVIOUS
  <2>. QED BY <2>1
<1>2. ASSUME NEW m \in Nat, m \in E PROVE m + 1 \in E
  <2>0. Same(m)
    BY <1>2
  <2>1. ASSUME NEW a \in [1..(m + 1) -> Nat], NEW p \in Bijection(1..(m + 1), 1..(m + 1))
        PROVE  Total([i \in 1..(m + 1) |-> a[p[i]]]) = Total(a)
    <3> DEFINE l == m + 1
               s == [i \in 1..l |-> a[p[i]]]
               b == [i \in 1..m |-> a[i]]
    <3>1. /\ p \in [1..l -> 1..l]
          /\ \A i, j \in 1..l : p[i] = p[j] => i = j
          /\ \A t \in 1..l : \E i \in 1..l : p[i] = t
      BY DEF Bijection, Injection, Surjection, IsInjective
    <3>2. l \in 1..l
      OBVIOUS
    <3>3. PICK k \in 1..l : p[k] = l
      BY <3>1, <3>2
    <3> DEFINE q == [i \in 1..m |-> IF i < k THEN p[i] ELSE p[i + 1]]
    <3>5. l \in Nat /\ l - 1 = m /\ m \in Nat /\ l = m + 1
      OBVIOUS
    <3>4. s \in Seq(Nat) /\ Len(s) = l /\ a \in Seq(Nat) /\ Len(a) = l
      <4>1. \A i \in 1..l : a[p[i]] \in Nat
        BY <3>1
      <4>2. s \in [1..l -> Nat] /\ a \in [1..l -> Nat]
        BY <4>1
      <4> HIDE DEF s, l
      <4>. QED BY <3>5, <4>2, FunctionIsSeq
    <3>6. q \in [1..m -> 1..m]
      <4>1. ASSUME NEW i \in 1..m
            PROVE  (IF i < k THEN p[i] ELSE p[i + 1]) \in 1..m
        <5>1. i \in 1..l /\ i + 1 \in 1..l /\ i # i + 1
          BY <3>5
        <5>0. i \in Nat /\ k \in Nat
          OBVIOUS
        <5>2. i < k => p[i] \in 1..l /\ p[i] # l
          <6>1. i < k => i # k
            BY <5>0
          <6>. QED BY <3>1, <3>3, <5>1, <6>1
        <5>3. ~(i < k) => p[i + 1] \in 1..l /\ p[i + 1] # l
          <6>1. ~(i < k) => i + 1 # k
            BY <5>0
          <6>. QED BY <3>1, <3>3, <5>1, <6>1
        <5>4. \A x \in 1..l : x # l => x \in 1..m
          OBVIOUS
        <5>. QED BY <5>2, <5>3, <5>4
      <4>. QED BY <4>1
    <3>7. ASSUME NEW i \in 1..m, NEW j \in 1..m, q[i] = q[j] PROVE i = j
      <4>1. i \in 1..l /\ i + 1 \in 1..l /\ j \in 1..l /\ j + 1 \in 1..l
        BY <3>5
      <4>2. i \in Nat /\ j \in Nat /\ k \in Nat
        BY <3>5
      <4>3. CASE i < k /\ j < k
        BY <3>1, <3>7, <4>1, <4>3
      <4>4. CASE ~(i < k) /\ ~(j < k)
        <5>1. i + 1 = j + 1
          BY <3>1, <3>7, <4>1, <4>4
        <5>. QED BY <4>2, <5>1
      <4>5. CASE i < k /\ ~(j < k)
        <5>1. i = j + 1
          BY <3>1, <3>7, <4>1, <4>5
        <5>. QED BY <4>2, <4>5, <5>1
      <4>6. CASE ~(i < k) /\ j < k
        <5>1. i + 1 = j
          BY <3>1, <3>7, <4>1, <4>6
        <5>. QED BY <4>2, <4>6, <5>1
      <4>. QED BY <4>3, <4>4, <4>5, <4>6
    <3>8. ASSUME NEW t \in 1..m PROVE \E i \in 1..m : q[i] = t
      <4>1. t \in 1..l /\ t # l
        BY <3>5
      <4>2. PICK i \in 1..l : p[i] = t
        BY <3>1, <4>1
      <4>3. i # k
        BY <3>3, <4>1, <4>2
      <4>4. CASE i < k
        <5>1. i \in 1..m
          BY <3>5, <4>4
        <5>. QED BY <4>2, <4>4, <5>1
      <4>5. CASE i > k
        <5>1. i - 1 \in 1..m /\ ~(i - 1 < k) /\ (i - 1) + 1 = i
          BY <3>5, <4>5
        <5>2. q[i - 1] = t
          BY <4>2, <5>1
        <5>. QED BY <5>1, <5>2
      <4>. QED BY <4>3, <4>4, <4>5
    <3>9. q \in Bijection(1..m, 1..m)
      <4> HIDE DEF q
      <4>. QED BY <3>6, <3>7, <3>8 DEF Bijection, Injection, Surjection, IsInjective
    <3>10. Removed(s, k) = [i \in 1..m |-> b[q[i]]]
      <4>1. ASSUME NEW i \in 1..m
            PROVE  (IF i < k THEN s[i] ELSE s[i + 1]) = b[q[i]]
        <5>1. i \in 1..l /\ i + 1 \in 1..l /\ q[i] \in 1..m
          BY <3>5, <3>6
        <5>2. b[q[i]] = a[q[i]]
          BY <5>1
        <5>. QED BY <5>1, <5>2
      <4>2. Removed(s, k) = [i \in 1..m |-> IF i < k THEN s[i] ELSE s[i + 1]]
        BY <3>4, <3>5 DEF Removed
      <4> HIDE DEF s, b, q
      <4>. QED BY <4>1, <4>2
    <3>11. Removed(a, l) = b
      <4>1. Removed(a, l) = [i \in 1..m |-> IF i < l THEN a[i] ELSE a[i + 1]]
        BY <3>4, <3>5 DEF Removed
      <4>2. \A i \in 1..m : i < l
        BY <3>5
      <4>. QED BY <4>1, <4>2
    <3>12. s[k] = a[l]
      BY <3>3
    <3>13. b \in [1..m -> Nat]
      <4>1. \A i \in 1..m : i \in 1..l
        BY <3>5
      <4>. QED BY <4>1
    <3> HIDE DEF s, b, q, l
    <3>14. Total([i \in 1..m |-> b[q[i]]]) = Total(b)
      BY <2>0, <3>9, <3>13
    <3>15. Total(s) = s[k] + Total(Removed(s, k))
      BY <3>4, TotalRemoved
    <3>16. Total(a) = a[l] + Total(Removed(a, l))
      BY <3>2, <3>4, TotalRemoved
    <3>. QED BY <3>10, <3>11, <3>12, <3>14, <3>15, <3>16 DEF s, l
  <2>. QED BY <2>1
<1>3. Nat \subseteq E
  <2> HIDE DEF E
  <2>. QED BY <1>1, <1>2, NatSetInduction
<1>. QED BY <1>3

-----------------------------------------------------------------------------
(* Values of bencode, by how deep they nest. *)

NestedRec == INSTANCE Recursion WITH Base <- Simple, Step <- LAMBDA n, V : OneDeeper(V)

LEMMA NestedIs ==
  Nested[0] = Simple /\ \A n \in Nat : Nested[n + 1] = OneDeeper(Nested[n])
<1>1. Nested = NestedRec!Recursive
  BY DEF Nested, NestedRec!Recursive
<1>. QED BY <1>1, NestedRec!RecursiveIs

LEMMA SimpleIs ==
  ASSUME NEW b \in Simple
  PROVE  \/ b.type = "bool" /\ b = BenBool(b.b) /\ b.b \in BOOLEAN
         \/ b.type = "int" /\ b = BenInt(b.ll) /\ b.ll \in Int
         \/ b.type = "str" /\ b = BenStr(b.s) /\ b.s \in Seq(Octet)
  BY DEF Simple, AllKeys, IntKeys, StrKeys, BenBool, BenInt, BenStr

LEMMA OneDeeperGrows ==
  ASSUME NEW V, NEW W, V \subseteq W
  PROVE  OneDeeper(V) \subseteq OneDeeper(W)
<1>1. Seq(V) \subseteq Seq(W)
  BY SeqMonotonic
<1>. QED BY <1>1 DEF OneDeeper

LEMMA NestedGrows == \A n \in Nat : Nested[n] \subseteq Nested[n + 1]
<1> DEFINE E == {n \in Nat : Nested[n] \subseteq Nested[n + 1]}
<1>1. 0 \in E
  BY NestedIs DEF OneDeeper
<1>2. ASSUME NEW n \in Nat, n \in E PROVE n + 1 \in E
  <2>1. Nested[n] \subseteq Nested[n + 1]
    BY <1>2
  <2>2. OneDeeper(Nested[n]) \subseteq OneDeeper(Nested[n + 1])
    BY <2>1, OneDeeperGrows
  <2>. QED BY <2>2, NestedIs
<1>3. Nat \subseteq E
  <2> HIDE DEF E
  <2>. QED BY <1>1, <1>2, NatSetInduction
<1>. QED BY <1>3

LEMMA NestedMonotone ==
  ASSUME NEW m \in Nat, NEW n \in Nat, m <= n
  PROVE  Nested[m] \subseteq Nested[n]
<1> DEFINE E == {k \in Nat : Nested[m] \subseteq Nested[m + k]}
<1>1. 0 \in E
  OBVIOUS
<1>2. ASSUME NEW k \in Nat, k \in E PROVE k + 1 \in E
  <2>1. m + k \in Nat /\ (m + k) + 1 = m + (k + 1)
    OBVIOUS
  <2>2. Nested[m + k] \subseteq Nested[m + (k + 1)]
    BY <2>1, NestedGrows
  <2>. QED BY <1>2, <2>2
<1>3. Nat \subseteq E
  <2> HIDE DEF E
  <2>. QED BY <1>1, <1>2, NatSetInduction
<1>4. n - m \in Nat /\ m + (n - m) = n
  OBVIOUS
<1>5. n - m \in E
  BY <1>3, <1>4
<1>. QED BY <1>4, <1>5

LEMMA SimpleNested == \A n \in Nat : Simple \subseteq Nested[n] /\ AllKeys \subseteq Nested[n]
<1>1. AllKeys \subseteq Simple
  BY DEF Simple
<1>2. ASSUME NEW n \in Nat PROVE Simple \subseteq Nested[n]
  <2>1. Nested[0] \subseteq Nested[n]
    BY NestedMonotone
  <2>. QED BY <2>1, NestedIs
<1>. QED BY <1>1, <1>2

IsListOf(b, V) == b.type = "list" /\ b = BenList(b.values) /\ b.values \in Seq(V)

IsDictOf(b, V) ==
  /\ b.type = "dict" /\ b = BenDict(b.keys, b.values)
  /\ b.keys \in Seq(AllKeys) /\ b.values \in Seq(V) /\ Len(b.keys) = Len(b.values)

LEMMA NestedParts ==
  ASSUME NEW n \in Nat, NEW b \in Nested[n + 1]
  PROVE  b \in Simple \/ IsListOf(b, Nested[n]) \/ IsDictOf(b, Nested[n])
<1>1. b \in OneDeeper(Nested[n])
  BY NestedIs
<1>. QED BY <1>1 DEF OneDeeper, IsListOf, IsDictOf, BenList, BenDict

LEMMA ListNested ==
  ASSUME NEW n \in Nat, NEW vs \in Seq(Nested[n])
  PROVE  BenList(vs) \in Nested[n + 1]
<1>1. BenList(vs) \in OneDeeper(Nested[n])
  BY DEF OneDeeper, BenList
<1>. QED BY <1>1, NestedIs

LEMMA DictNested ==
  ASSUME NEW n \in Nat, NEW ks \in Seq(AllKeys), NEW vs \in Seq(Nested[n]), Len(ks) = Len(vs)
  PROVE  BenDict(ks, vs) \in Nested[n + 1]
<1>1. BenDict(ks, vs) \in OneDeeper(Nested[n])
  BY DEF OneDeeper, BenDict
<1>. QED BY <1>1, NestedIs


-----------------------------------------------------------------------------
(* The order of keys.  ben_cmp compares strings as if each went on with an *)
(* octet less than all others: the string that ends first is the less.     *)

Padded(s, k) == IF k <= Len(s) THEN Code[s[k]] + 1 ELSE 0

StrLess(s, t) ==
  \E k \in Nat \ {0} : /\ \A j \in 1..(k - 1) : Padded(s, j) = Padded(t, j)
                       /\ Padded(s, k) < Padded(t, k)

LEMMA PaddedIsNat ==
  ASSUME NEW s \in Seq(Octet), NEW k \in Nat \ {0}
  PROVE  Padded(s, k) \in Nat
<1>1. k <= Len(s) => s[k] \in Octet
  OBVIOUS
<1>. QED BY <1>1, BencodeAssumption DEF Padded

LEMMA StrLessTransitive ==
  ASSUME NEW s \in Seq(Octet), NEW t \in Seq(Octet), NEW u \in Seq(Octet),
         StrLess(s, t), StrLess(t, u)
  PROVE  StrLess(s, u)
<1>1. PICK k \in Nat \ {0} : /\ \A j \in 1..(k - 1) : Padded(s, j) = Padded(t, j)
                             /\ Padded(s, k) < Padded(t, k)
  BY DEF StrLess
<1>2. PICK l \in Nat \ {0} : /\ \A j \in 1..(l - 1) : Padded(t, j) = Padded(u, j)
                             /\ Padded(t, l) < Padded(u, l)
  BY DEF StrLess
<1>3. \A i \in Nat \ {0} : Padded(s, i) \in Nat /\ Padded(t, i) \in Nat /\ Padded(u, i) \in Nat
  BY PaddedIsNat
<1> DEFINE m == IF k <= l THEN k ELSE l
<1>4. m \in Nat \ {0}
  OBVIOUS
<1>5. ASSUME NEW j \in 1..(m - 1) PROVE Padded(s, j) = Padded(u, j)
  <2>1. j \in 1..(k - 1) /\ j \in 1..(l - 1)
    OBVIOUS
  <2>. QED BY <1>1, <1>2, <2>1
<1>6. Padded(s, m) < Padded(u, m)
  <2>1. CASE k < l
    <3>1. k \in 1..(l - 1) /\ m = k
      BY <2>1
    <3>2. Padded(t, k) = Padded(u, k)
      BY <1>2, <3>1
    <3>. QED BY <1>1, <3>1, <3>2
  <2>2. CASE k = l
    <3>1. m = k
      BY <2>2
    <3>. QED BY <1>1, <1>2, <1>3, <2>2, <3>1
  <2>3. CASE l < k
    <3>1. l \in 1..(k - 1) /\ m = l
      BY <2>3
    <3>2. Padded(s, l) = Padded(t, l)
      BY <1>1, <3>1
    <3>. QED BY <1>2, <3>1, <3>2
  <2>. QED BY <2>1, <2>2, <2>3
<1> HIDE DEF m
<1>. QED BY <1>4, <1>5, <1>6 DEF StrLess

LEMMA StrLessIrreflexive ==
  ASSUME NEW s \in Seq(Octet)
  PROVE  ~StrLess(s, s)
<1>1. \A i \in Nat \ {0} : Padded(s, i) \in Nat
  BY PaddedIsNat
<1>. QED BY <1>1 DEF StrLess

LEMMA SignIs ==
  ASSUME NEW n \in Int
  PROVE  (Sign(n) < 0 <=> n < 0) /\ (Sign(n) > 0 <=> n > 0) /\ Sign(n) \in Int
  BY DEF Sign

LEMMA StrCmpIs ==
  ASSUME NEW s \in Seq(Octet), NEW t \in Seq(Octet)
  PROVE  (StrCmp(s, t) < 0 => StrLess(s, t)) /\ (StrCmp(s, t) > 0 => StrLess(t, s))
<1> DEFINE D == Differences(s, t)
           k == CHOOSE i \in D : \A j \in D : i <= j
<1>1. Len(s) \in Nat /\ Len(t) \in Nat /\ DOMAIN s = 1..Len(s) /\ DOMAIN t = 1..Len(t)
  OBVIOUS
<1>2. \A i \in 1..Len(s) : s[i] \in Octet /\ Code[s[i]] \in Nat
  BY BencodeAssumption, ElementOfSeq
<1>3. \A i \in 1..Len(t) : t[i] \in Octet /\ Code[t[i]] \in Nat
  BY BencodeAssumption, ElementOfSeq
<1>4. CASE D = {}
  <2> DEFINE m == Len(s)
             n == Len(t)
  <2>1. StrCmp(s, t) = Sign(m - n)
    BY <1>4 DEF StrCmp
  <2>2. m \in Nat /\ n \in Nat /\ m - n \in Int
    BY <1>1
  <2>3. \A i \in Nat \ {0} : i <= m /\ i <= n => s[i] = t[i]
    BY <1>1, <1>4 DEF Differences
  <2>4. ASSUME m < n PROVE StrLess(s, t)
    <3>1. m + 1 \in Nat \ {0} /\ (m + 1) - 1 = m /\ m + 1 \in 1..n
      BY <2>2, <2>4
    <3>2. \A j \in 1..m : Padded(s, j) = Padded(t, j)
      BY <2>2, <2>3, <2>4 DEF Padded
    <3>3. Padded(s, m + 1) = 0 /\ Padded(t, m + 1) > 0
      BY <1>3, <2>2, <3>1 DEF Padded
    <3> HIDE DEF m, n
    <3>. QED BY <3>1, <3>2, <3>3 DEF StrLess
  <2>5. ASSUME n < m PROVE StrLess(t, s)
    <3>1. n + 1 \in Nat \ {0} /\ (n + 1) - 1 = n /\ n + 1 \in 1..m
      BY <2>2, <2>5
    <3>2. \A j \in 1..n : Padded(t, j) = Padded(s, j)
      BY <2>2, <2>3, <2>5 DEF Padded
    <3>3. Padded(t, n + 1) = 0 /\ Padded(s, n + 1) > 0
      BY <1>2, <2>2, <3>1 DEF Padded
    <3> HIDE DEF m, n
    <3>. QED BY <3>1, <3>2, <3>3 DEF StrLess
  <2> HIDE DEF m, n
  <2>6. (Sign(m - n) < 0 => m < n) /\ (Sign(m - n) > 0 => n < m)
    <3>1. (Sign(m - n) < 0 => m - n < 0) /\ (Sign(m - n) > 0 => m - n > 0)
      BY <2>2, SignIs
    <3>. QED BY <2>2, <3>1
  <2>. QED BY <2>1, <2>4, <2>5, <2>6
<1>5. CASE D # {}
  <2>1. D \subseteq Nat
    BY <1>1 DEF Differences
  <2>2. k \in D /\ \A j \in D : k <= j
    <3>1. \E i \in D : \A j \in D : i <= j
      BY <1>5, <2>1, NatMinimum
    <3>. QED BY <3>1
  <2>3. k \in 1..Len(s) /\ k \in 1..Len(t) /\ k \in Nat \ {0} /\ k <= Len(s) /\ k <= Len(t)
    BY <1>1, <2>2 DEF Differences
  <2>4. StrCmp(s, t) = Sign(Code[s[k]] - Code[t[k]])
    BY <1>5 DEF StrCmp
  <2> HIDE DEF k
  <2>5. ASSUME NEW j \in 1..(k - 1) PROVE Padded(s, j) = Padded(t, j)
    <3>1. j \in 1..Len(s) /\ j \in 1..Len(t) /\ j < k /\ j \in Nat
      BY <1>1, <2>3
    <3>2. j \notin D
      BY <2>2, <2>3, <3>1
    <3>3. s[j] = t[j]
      BY <1>1, <3>1, <3>2 DEF Differences
    <3>. QED BY <1>1, <3>1, <3>3 DEF Padded
  <2> DEFINE x == Code[s[k]]
             y == Code[t[k]]
  <2>6. x \in Nat /\ y \in Nat /\ Padded(s, k) = x + 1 /\ Padded(t, k) = y + 1
    BY <1>2, <1>3, <2>3 DEF Padded
  <2>7. x < y => StrLess(s, t)
    <3>1. x < y => Padded(s, k) < Padded(t, k)
      BY <2>6
    <3> HIDE DEF x, y
    <3>. QED BY <2>3, <2>5, <3>1 DEF StrLess
  <2>8. y < x => StrLess(t, s)
    <3>1. y < x => Padded(t, k) < Padded(s, k)
      BY <2>6
    <3> HIDE DEF x, y
    <3>. QED BY <2>3, <2>5, <3>1 DEF StrLess
  <2> HIDE DEF x, y
  <2>9. (Sign(x - y) < 0 => x < y) /\ (Sign(x - y) > 0 => y < x)
    <3>1. x - y \in Int
      BY <2>6
    <3>2. (Sign(x - y) < 0 => x - y < 0) /\ (Sign(x - y) > 0 => x - y > 0)
      BY <3>1, SignIs
    <3>. QED BY <2>6, <3>2
  <2>. QED BY <2>4, <2>7, <2>8, <2>9 DEF x, y
<1>. QED BY <1>4, <1>5

KeyLess(a, b) ==
  \/ a.type = "int" /\ b.type = "str"
  \/ a.type = "int" /\ b.type = "int" /\ a.ll < b.ll
  \/ a.type = "str" /\ b.type = "str" /\ StrLess(a.s, b.s)

LEMMA KeyIs ==
  ASSUME NEW a \in AllKeys
  PROVE  \/ a.type = "int" /\ a.ll \in Int
         \/ a.type = "str" /\ a.s \in Seq(Octet)
<1>1. a \in Simple
  BY DEF Simple
<1>2. a.type # "bool"
  BY DEF AllKeys, IntKeys, StrKeys
<1>. QED BY <1>1, <1>2, SimpleIs

LEMMA CmpIs ==
  ASSUME NEW a \in AllKeys, NEW b \in AllKeys
  PROVE  /\ Cmp(a, b) < 0 => KeyLess(a, b)
         /\ Cmp(a, b) > 0 => KeyLess(b, a)
         /\ Cmp(a, b) = 0 => a = b
<1>1. Cmp(a, b) = 0 => a = b
  BY CmpEqual
<1>2. CASE a.type # b.type
  <2>1. (a.type = "int" /\ b.type = "str") \/ (a.type = "str" /\ b.type = "int")
    BY <1>2, KeyIs
  <2>2. Cmp(a, b) = IF a.type = "int" THEN -1 ELSE 1
    BY <1>2 DEF Cmp
  <2>. QED BY <1>1, <2>1, <2>2 DEF KeyLess
<1>3. CASE a.type = "int" /\ b.type = "int"
  <2> DEFINE x == a.ll
             y == b.ll
  <2>1. x \in Int /\ y \in Int
    BY <1>3, KeyIs
  <2>2. Cmp(a, b) = Sign(x - y)
    BY <1>3 DEF Cmp
  <2>3. (x < y => KeyLess(a, b)) /\ (y < x => KeyLess(b, a))
    BY <1>3 DEF KeyLess
  <2> HIDE DEF x, y
  <2>4. x - y \in Int
    BY <2>1
  <2>5. (Sign(x - y) < 0 => x - y < 0) /\ (Sign(x - y) > 0 => x - y > 0)
    BY <2>4, SignIs
  <2>6. (Sign(x - y) < 0 => x < y) /\ (Sign(x - y) > 0 => y < x)
    BY <2>1, <2>5
  <2>. QED BY <1>1, <2>2, <2>3, <2>6
<1>4. CASE a.type = "str" /\ b.type = "str"
  <2> DEFINE x == a.s
             y == b.s
  <2>1. x \in Seq(Octet) /\ y \in Seq(Octet)
    BY <1>4, KeyIs
  <2>2. Cmp(a, b) = StrCmp(x, y)
    BY <1>4 DEF Cmp
  <2>3. (StrLess(x, y) => KeyLess(a, b)) /\ (StrLess(y, x) => KeyLess(b, a))
    BY <1>4 DEF KeyLess
  <2> HIDE DEF x, y
  <2>4. (StrCmp(x, y) < 0 => StrLess(x, y)) /\ (StrCmp(x, y) > 0 => StrLess(y, x))
    BY <2>1, StrCmpIs
  <2>. QED BY <1>1, <2>2, <2>3, <2>4
<1>. QED BY <1>2, <1>3, <1>4, KeyIs

LEMMA KeyLessOrder ==
  ASSUME NEW a \in AllKeys, NEW b \in AllKeys, NEW c \in AllKeys
  PROVE  ~KeyLess(a, a) /\ (KeyLess(a, b) /\ KeyLess(b, c) => KeyLess(a, c))
<1>1. ~KeyLess(a, a)
  <2>1. a.type = "str" => ~StrLess(a.s, a.s)
    BY KeyIs, StrLessIrreflexive
  <2>2. a.type = "int" => ~(a.ll < a.ll)
    BY KeyIs
  <2>. QED BY <2>1, <2>2 DEF KeyLess
<1>2. ASSUME KeyLess(a, b), KeyLess(b, c) PROVE KeyLess(a, c)
  <2>1. CASE a.type = "int" /\ b.type = "int" /\ c.type = "int"
    <3>1. a.ll \in Int /\ b.ll \in Int /\ c.ll \in Int /\ a.ll < b.ll /\ b.ll < c.ll
      BY <1>2, <2>1, KeyIs DEF KeyLess
    <3>. QED BY <2>1, <3>1 DEF KeyLess
  <2>2. CASE a.type = "str" /\ b.type = "str" /\ c.type = "str"
    <3>1. /\ a.s \in Seq(Octet) /\ b.s \in Seq(Octet) /\ c.s \in Seq(Octet)
          /\ StrLess(a.s, b.s) /\ StrLess(b.s, c.s)
      BY <1>2, <2>2, KeyIs DEF KeyLess
    <3>2. StrLess(a.s, c.s)
      BY <3>1, StrLessTransitive
    <3>. QED BY <2>2, <3>2 DEF KeyLess
  <2>3. CASE a.type = "int" /\ c.type = "str"
    BY <2>3 DEF KeyLess
  <2>. QED BY <1>2, <2>1, <2>2, <2>3 DEF KeyLess
<1>. QED BY <1>1, <1>2

(***************************************************************************)
(* ben_cmp orders the keys: any two can be compared, either way around     *)
(* with the same result, and what it says of a chain of keys holds of its  *)
(* ends.  qsort and the decoder's test of a dictionary's keys rely on it.  *)
(***************************************************************************)
LEMMA CmpOrder ==
  ASSUME NEW a \in AllKeys, NEW b \in AllKeys, NEW c \in AllKeys
  PROVE  /\ Cmp(a, b) \in Int
         /\ Cmp(a, b) < 0 <=> Cmp(b, a) > 0
         /\ Cmp(a, b) <= 0 /\ Cmp(b, c) <= 0 => Cmp(a, c) <= 0
         /\ Cmp(a, b) < 0 /\ Cmp(b, c) < 0 => Cmp(a, c) < 0
<1>1. \A x, y \in AllKeys : Cmp(x, y) \in Int
  BY CmpIsInt
<1>2. \A x, y \in AllKeys : x # y => KeyLess(x, y) \/ KeyLess(y, x)
  BY <1>1, CmpIs
<1>3. \A x, y \in AllKeys : ~(KeyLess(x, y) /\ KeyLess(y, x))
  BY KeyLessOrder
<1>4. ASSUME NEW x \in AllKeys, NEW y \in AllKeys
      PROVE  (Cmp(x, y) < 0 <=> KeyLess(x, y)) /\ (Cmp(x, y) > 0 <=> KeyLess(y, x))
             /\ (Cmp(x, y) = 0 <=> x = y)
  <2>1. Cmp(x, y) < 0 \/ Cmp(x, y) > 0 \/ Cmp(x, y) = 0
    BY <1>1
  <2>2. Cmp(x, y) = 0 <=> x = y
    BY CmpEqual
  <2>3. ~(Cmp(x, y) < 0 /\ Cmp(x, y) > 0) /\ ~(Cmp(x, y) < 0 /\ Cmp(x, y) = 0)
        /\ ~(Cmp(x, y) > 0 /\ Cmp(x, y) = 0)
    BY <1>1
  <2>4. ~KeyLess(x, x)
    BY KeyLessOrder
  <2>. QED BY <1>3, <2>1, <2>2, <2>3, <2>4, CmpIs
<1>5. \A x, y \in AllKeys : Cmp(x, y) <= 0 <=> KeyLess(x, y) \/ x = y
  BY <1>1, <1>4
<1>6. KeyLess(a, b) /\ KeyLess(b, c) => KeyLess(a, c)
  BY KeyLessOrder
<1>. QED BY <1>1, <1>4, <1>5, <1>6

(* What qsort makes of n keys: every one of them has a place, and they     *)
(* ascend.                                                                 *)
InOrder(p, ks, n) ==
  /\ p \in Bijection(1..n, 1..n)
  /\ \A i, j \in 1..n : i < j => Cmp(ks[p[i]], ks[p[j]]) <= 0

LEMMA BijectionIs ==
  ASSUME NEW n \in Nat, NEW p
  PROVE  p \in Bijection(1..n, 1..n) <=>
           /\ p \in [1..n -> 1..n]
           /\ \A i, j \in 1..n : p[i] = p[j] => i = j
           /\ \A t \in 1..n : \E i \in 1..n : p[i] = t
  BY DEF Bijection, Injection, Surjection, IsInjective

(* There is such an order: the last key is put where it belongs among the  *)
(* others.                                                                 *)
LEMMA OrderInserted ==
  ASSUME NEW m \in Nat, NEW ks \in [1..(m + 1) -> AllKeys], NEW p, InOrder(p, ks, m)
  PROVE  \E q : InOrder(q, ks, m + 1)
<1> DEFINE l == m + 1
           C == {i \in 1..l : i = l \/ Cmp(ks[p[i]], ks[l]) > 0}
<1>1. /\ p \in [1..m -> 1..m]
      /\ \A i, j \in 1..m : p[i] = p[j] => i = j
      /\ \A t \in 1..m : \E i \in 1..m : p[i] = t
      /\ \A i, j \in 1..m : i < j => Cmp(ks[p[i]], ks[p[j]]) <= 0
  BY BijectionIs DEF InOrder
<1>2. PICK k \in C : \A i \in C : k <= i
  <2>1. l \in C /\ C \subseteq Nat
    OBVIOUS
  <2> HIDE DEF C
  <2>2. C # {}
    BY <2>1
  <2>. QED BY <2>1, <2>2, NatMinimum
<1>3. k \in 1..l /\ k \in Nat /\ l \in Nat /\ l = m + 1 /\ m \in Nat /\ l \in 1..l /\ l - 1 = m
  OBVIOUS
<1>4. \A i \in 1..m : i \in 1..l /\ ks[p[i]] \in AllKeys /\ p[i] \in 1..l
                       /\ p[i] \in 1..m /\ p[i] # l
  <2> TAKE i \in 1..m
  <2>1. p[i] \in 1..m
    BY <1>1
  <2>2. \A x \in 1..m : x \in 1..l /\ x # l
    OBVIOUS
  <2>. QED BY <2>1, <2>2
<1>5. ks[l] \in AllKeys
  BY <1>3
<1>6. \A a, b \in AllKeys : Cmp(a, b) \in Int /\ (Cmp(a, b) < 0 <=> Cmp(b, a) > 0)
  BY CmpOrder
<1>7. \A i \in 1..m : i < k => Cmp(ks[p[i]], ks[l]) <= 0
  <2> SUFFICES ASSUME NEW i \in 1..m, i < k PROVE Cmp(ks[p[i]], ks[l]) <= 0
    OBVIOUS
  <2>1. i \in 1..l /\ i \notin C
    BY <1>2, <1>3
  <2>2. ~(Cmp(ks[p[i]], ks[l]) > 0)
    BY <2>1
  <2>3. Cmp(ks[p[i]], ks[l]) \in Int
    BY <1>4, <1>5, <1>6
  <2>. QED BY <2>2, <2>3
<1>8. \A i \in 1..m : k <= i => Cmp(ks[l], ks[p[i]]) <= 0
  <2> SUFFICES ASSUME NEW i \in 1..m, k <= i PROVE Cmp(ks[l], ks[p[i]]) <= 0
    OBVIOUS
  <2>1. k \in 1..m /\ k # l
    BY <1>3
  <2>2. Cmp(ks[p[k]], ks[l]) > 0
    BY <1>2, <2>1
  <2>3. ks[p[k]] \in AllKeys /\ ks[p[i]] \in AllKeys
    BY <1>4, <2>1
  <2>4. Cmp(ks[l], ks[p[k]]) < 0 /\ Cmp(ks[l], ks[p[k]]) \in Int
    BY <1>5, <1>6, <2>2, <2>3
  <2>5. CASE k = i
    BY <2>4, <2>5
  <2>6. CASE k < i
    <3>1. Cmp(ks[p[k]], ks[p[i]]) <= 0
      BY <1>1, <2>1, <2>6
    <3>2. Cmp(ks[l], ks[p[k]]) <= 0
      BY <2>4
    <3>. QED BY <1>5, <2>3, <3>1, <3>2, CmpOrder
  <2>. QED BY <1>3, <2>5, <2>6
<1> HIDE DEF C, l
<1> DEFINE q == [i \in 1..l |-> IF i < k THEN p[i] ELSE IF i = k THEN l ELSE p[i - 1]]
<1>10. ASSUME NEW i \in 1..l
       PROVE  /\ i < k => i \in 1..m /\ q[i] = p[i]
              /\ i = k => q[i] = l
              /\ i > k => i - 1 \in 1..m /\ q[i] = p[i - 1]
              /\ i \in Nat
  <2>1. i \in Nat
    BY <1>3
  <2>2. i < k => i \in 1..m
    BY <1>3
  <2>3. i > k => i - 1 \in 1..m /\ ~(i < k) /\ i # k
    BY <1>3
  <2>4. i = k => ~(i < k)
    BY <1>3
  <2>. QED BY <2>1, <2>2, <2>3, <2>4
<1>11. \A i \in 1..l : i < k \/ i = k \/ i > k
  BY <1>3
<1>12. q \in [1..l -> 1..l]
  <2>1. ASSUME NEW i \in 1..l
        PROVE  (IF i < k THEN p[i] ELSE IF i = k THEN l ELSE p[i - 1]) \in 1..l
    <3>1. CASE i < k
      BY <1>4, <1>10, <3>1
    <3>2. CASE i = k
      <4>1. ~(i < k)
        BY <1>3, <3>2
      <4>. QED BY <1>3, <3>2, <4>1
    <3>3. CASE i > k
      <4>1. ~(i < k) /\ i # k
        BY <1>3, <3>3
      <4>2. p[i - 1] \in 1..l
        BY <1>4, <1>10, <3>3
      <4>. QED BY <4>1, <4>2
    <3>. QED BY <1>11, <3>1, <3>2, <3>3
  <2>. QED BY <2>1
<1> HIDE DEF q
<1>13. ASSUME NEW i \in 1..l, NEW j \in 1..l, q[i] = q[j] PROVE i = j
  <2>1. CASE i < k /\ j < k
    BY <1>1, <1>10, <1>13, <2>1
  <2>2. CASE i > k /\ j > k
    <3>1. i - 1 = j - 1
      BY <1>1, <1>10, <1>13, <2>2
    <3>2. i \in Nat /\ j \in Nat
      BY <1>10
    <3>. QED BY <3>1, <3>2
  <2>3. CASE i = k /\ j = k
    BY <2>3
  <2>4. CASE i = k /\ j # k
    <3>1. q[j] # l
      BY <1>4, <1>10, <1>11, <2>4
    <3>. QED BY <1>10, <1>13, <2>4, <3>1
  <2>5. CASE i # k /\ j = k
    <3>1. q[i] # l
      BY <1>4, <1>10, <1>11, <2>5
    <3>. QED BY <1>10, <1>13, <2>5, <3>1
  <2>6. CASE i < k /\ j > k
    <3>1. i = j - 1
      BY <1>1, <1>10, <1>13, <2>6
    <3>2. i \in Nat /\ j \in Nat
      BY <1>10
    <3>. QED BY <1>3, <2>6, <3>1, <3>2
  <2>7. CASE i > k /\ j < k
    <3>1. i - 1 = j
      BY <1>1, <1>10, <1>13, <2>7
    <3>2. i \in Nat /\ j \in Nat
      BY <1>10
    <3>. QED BY <1>3, <2>7, <3>1, <3>2
  <2>. QED BY <1>11, <2>1, <2>2, <2>3, <2>4, <2>5, <2>6, <2>7
<1>14. ASSUME NEW t \in 1..l PROVE \E i \in 1..l : q[i] = t
  <2>1. CASE t = l
    BY <1>3, <1>10, <2>1
  <2>2. CASE t # l
    <3>1. t \in 1..m
      BY <1>3, <2>2
    <3>2. PICK i \in 1..m : p[i] = t
      BY <1>1, <3>1
    <3>3. i \in 1..l /\ i + 1 \in 1..l /\ i \in Nat /\ (i + 1) - 1 = i
      BY <1>3
    <3>4. CASE i < k
      BY <1>10, <3>2, <3>3, <3>4
    <3>5. CASE ~(i < k)
      <4>1. i + 1 > k
        BY <1>3, <3>3, <3>5
      <4>2. q[i + 1] = p[(i + 1) - 1]
        BY <1>10, <3>3, <4>1
      <4>. QED BY <3>2, <3>3, <4>2
    <3>. QED BY <3>4, <3>5
  <2>. QED BY <2>1, <2>2
<1>15. ASSUME NEW i \in 1..l, NEW j \in 1..l, i < j
       PROVE  Cmp(ks[q[i]], ks[q[j]]) <= 0
  <2>0. i \in Nat /\ j \in Nat
    BY <1>10
  <2>1. CASE j < k
    <3>1. i < k
      BY <1>3, <1>15, <2>0, <2>1
    <3>. QED BY <1>1, <1>10, <1>15, <2>1, <3>1
  <2>2. CASE j = k
    <3>1. i < k
      BY <1>15, <2>2
    <3>. QED BY <1>7, <1>10, <2>2, <3>1
  <2>3. CASE j > k
    <3>0. j - 1 \in 1..m /\ q[j] = p[j - 1]
      BY <1>10, <2>3
    <3>1. CASE i < k
      <4>1. i < j - 1
        BY <1>3, <2>0, <2>3, <3>1
      <4>2. i \in 1..m /\ q[i] = p[i]
        BY <1>10, <3>1
      <4>3. Cmp(ks[p[i]], ks[p[j - 1]]) <= 0
        BY <1>1, <3>0, <4>1, <4>2
      <4>. QED BY <3>0, <4>2, <4>3
    <3>2. CASE i = k
      <4>1. k <= j - 1
        BY <1>3, <2>0, <2>3
      <4>. QED BY <1>8, <1>10, <3>0, <3>2, <4>1
    <3>3. CASE i > k
      <4>1. i - 1 < j - 1
        BY <1>15, <2>0
      <4>2. i - 1 \in 1..m /\ q[i] = p[i - 1]
        BY <1>10, <3>3
      <4>3. Cmp(ks[p[i - 1]], ks[p[j - 1]]) <= 0
        BY <1>1, <3>0, <4>1, <4>2
      <4>. QED BY <3>0, <4>2, <4>3
    <3>. QED BY <1>11, <3>1, <3>2, <3>3
  <2>. QED BY <1>11, <2>1, <2>2, <2>3
<1>16. InOrder(q, ks, l)
  <2>1. q \in Bijection(1..l, 1..l)
    BY <1>3, <1>12, <1>13, <1>14, BijectionIs
  <2>. QED BY <1>15, <2>1 DEF InOrder
<1>. QED BY <1>16 DEF l

LEMMA SomeOrder == \A n \in Nat : \A ks \in [1..n -> AllKeys] : \E p : InOrder(p, ks, n)
<1> DEFINE E == {n \in Nat : \A ks \in [1..n -> AllKeys] : \E p : InOrder(p, ks, n)}
<1>1. 0 \in E
  <2> SUFFICES ASSUME NEW ks \in [1..0 -> AllKeys] PROVE \E p : InOrder(p, ks, 0)
    OBVIOUS
  <2> DEFINE p == [i \in 1..0 |-> i]
  <2>1. p \in [1..0 -> 1..0] /\ 0 \in Nat /\ \A i \in 1..0 : FALSE
    OBVIOUS
  <2> HIDE DEF p
  <2>2. InOrder(p, ks, 0)
    BY <2>1, BijectionIs DEF InOrder
  <2>. QED BY <2>2
<1>2. ASSUME NEW m \in Nat, m \in E PROVE m + 1 \in E
  <2> SUFFICES ASSUME NEW ks \in [1..(m + 1) -> AllKeys] PROVE \E q : InOrder(q, ks, m + 1)
    OBVIOUS
  <2> DEFINE r == [i \in 1..m |-> ks[i]]
  <2>1. r \in [1..m -> AllKeys]
    OBVIOUS
  <2>2. \A i \in 1..m : r[i] = ks[i]
    OBVIOUS
  <2> HIDE DEF r
  <2>3. PICK p : InOrder(p, r, m)
    BY <1>2, <2>1
  <2>4. InOrder(p, ks, m)
    <3>1. \A i \in 1..m : p[i] \in 1..m
      BY <2>3, BijectionIs DEF InOrder
    <3>. QED BY <2>2, <2>3, <3>1 DEF InOrder
  <2>. QED BY <2>4, OrderInserted
<1>3. Nat \subseteq E
  <2> HIDE DEF E
  <2>. QED BY <1>1, <1>2, NatSetInduction
<1>. QED BY <1>3

(* What is known of Sorted. *)
LEMMA SortedIs ==
  ASSUME NEW b, NEW n \in Nat, b.keys \in Seq(AllKeys), Len(b.keys) = n
  PROVE  \E p : /\ InOrder(p, b.keys, n)
                /\ Sorted(b) = [i \in 1..n |-> <<b.keys[p[i]], b.values[p[i]]>>]
<1> DEFINE ks == b.keys
           places == DOMAIN ks
           Good(p) == /\ p \in Bijection(places, places)
                      /\ \A i, j \in places : i < j => Cmp(ks[p[i]], ks[p[j]]) <= 0
           order == CHOOSE p \in Bijection(places, places) :
                      \A i, j \in places : i < j => Cmp(ks[p[i]], ks[p[j]]) <= 0
<1>1. places = 1..n /\ ks \in [1..n -> AllKeys]
  OBVIOUS
<1>2. Sorted(b) = [i \in places |-> <<b.keys[order[i]], b.values[order[i]]>>]
  BY DEF Sorted
<1> HIDE DEF ks, places
<1>3. \E p : Good(p)
  <2>1. PICK p : InOrder(p, ks, n)
    BY <1>1, SomeOrder
  <2>. QED BY <1>1, <2>1 DEF InOrder
<1>4. Good(order)
  BY <1>3
<1> HIDE DEF order
<1>5. InOrder(order, ks, n)
  BY <1>1, <1>4 DEF InOrder
<1>. QED BY <1>1, <1>2, <1>5 DEF ks

-----------------------------------------------------------------------------
(* Keys in order, as the decoder demands them. *)

AscendTo(ks, n) == \A j \in 2..n : Cmp(ks[j - 1], ks[j]) < 0

LEMMA AscendAll ==
  ASSUME NEW n \in Nat, NEW ks \in [1..n -> AllKeys], AscendTo(ks, n)
  PROVE  \A i, j \in 1..n : i < j => Cmp(ks[i], ks[j]) < 0
<1> DEFINE E == {k \in Nat : \A i \in 1..n : i + (k + 1) <= n => Cmp(ks[i], ks[i + (k + 1)]) < 0}
<1>1. 0 \in E
  <2> SUFFICES ASSUME NEW i \in 1..n, i + (0 + 1) <= n PROVE Cmp(ks[i], ks[i + (0 + 1)]) < 0
    OBVIOUS
  <2>1. i + 1 \in 2..n /\ (i + 1) - 1 = i /\ 0 + 1 = 1
    OBVIOUS
  <2>. QED BY <2>1 DEF AscendTo
<1>2. ASSUME NEW k \in Nat, k \in E PROVE k + 1 \in E
  <2> SUFFICES ASSUME NEW i \in 1..n, i + ((k + 1) + 1) <= n
               PROVE  Cmp(ks[i], ks[i + ((k + 1) + 1)]) < 0
    OBVIOUS
  <2> DEFINE j == i + (k + 1)
  <2>1. j \in 1..n /\ j + 1 \in 2..n /\ (j + 1) - 1 = j /\ i + ((k + 1) + 1) = j + 1
        /\ j + 1 \in 1..n
    OBVIOUS
  <2>2. Cmp(ks[i], ks[j]) < 0
    BY <1>2, <2>1
  <2>3. Cmp(ks[j], ks[j + 1]) < 0
    BY <2>1 DEF AscendTo
  <2> HIDE DEF j
  <2>4. ks[i] \in AllKeys /\ ks[j] \in AllKeys /\ ks[j + 1] \in AllKeys
    BY <2>1
  <2>5. Cmp(ks[i], ks[j + 1]) < 0
    BY <2>2, <2>3, <2>4, CmpOrder
  <2>. QED BY <2>1, <2>5
<1>3. Nat \subseteq E
  <2> HIDE DEF E
  <2>. QED BY <1>1, <1>2, NatSetInduction
<1> SUFFICES ASSUME NEW i \in 1..n, NEW j \in 1..n, i < j PROVE Cmp(ks[i], ks[j]) < 0
  OBVIOUS
<1>4. j - (i + 1) \in Nat /\ i + ((j - (i + 1)) + 1) = j /\ j <= n
  OBVIOUS
<1>5. j - (i + 1) \in E
  BY <1>3, <1>4
<1>. QED BY <1>4, <1>5

(* Keys that ascend stay where they are. *)
LEMMA AscendInPlace ==
  ASSUME NEW n \in Nat, NEW ks \in [1..n -> AllKeys], AscendTo(ks, n),
         NEW p, InOrder(p, ks, n)
  PROVE  \A i \in 1..n : p[i] = i
<1>1. /\ p \in [1..n -> 1..n]
      /\ \A i, j \in 1..n : p[i] = p[j] => i = j
      /\ \A t \in 1..n : \E i \in 1..n : p[i] = t
      /\ \A i, j \in 1..n : i < j => Cmp(ks[p[i]], ks[p[j]]) <= 0
  BY BijectionIs DEF InOrder
<1>2. \A i \in 1..n : p[i] \in 1..n /\ p[i] \in Nat /\ i \in Nat
  BY <1>1
<1>3. ASSUME NEW i \in 1..n, NEW j \in 1..n, i < j PROVE p[i] < p[j]
  <2>1. SUFFICES ASSUME ~(p[i] < p[j]) PROVE FALSE
    OBVIOUS
  <2>2. i # j
    BY <1>2, <1>3
  <2>3. p[i] # p[j]
    BY <1>1, <2>2
  <2>4. p[j] < p[i]
    BY <1>2, <2>1, <2>3
  <2>5. Cmp(ks[p[j]], ks[p[i]]) < 0
    BY <1>2, <2>4, AscendAll
  <2>6. Cmp(ks[p[i]], ks[p[j]]) <= 0
    BY <1>1, <1>3
  <2>7. ks[p[i]] \in AllKeys /\ ks[p[j]] \in AllKeys
    BY <1>2
  <2>8. Cmp(ks[p[i]], ks[p[j]]) > 0 /\ Cmp(ks[p[i]], ks[p[j]]) \in Int
    BY <2>5, <2>7, CmpOrder
  <2>. QED BY <2>6, <2>8
<1> DEFINE B == {i \in 1..n : p[i] # i}
<1>4. SUFFICES ASSUME B # {} PROVE FALSE
  OBVIOUS
<1>5. PICK i \in B : \A k \in B : i <= k
  <2>1. B \subseteq Nat
    OBVIOUS
  <2> HIDE DEF B
  <2>. QED BY <1>4, <2>1, NatMinimum
<1>6. i \in 1..n /\ p[i] # i /\ \A k \in 1..n : k < i => p[k] = k
  <2>1. i \in 1..n /\ p[i] # i
    OBVIOUS
  <2>2. ASSUME NEW k \in 1..n, k < i PROVE p[k] = k
    <3>1. k \notin B
      BY <1>2, <1>5, <2>1, <2>2
    <3>. QED BY <3>1
  <2>. QED BY <2>1, <2>2
<1> HIDE DEF B
<1>7. PICK j \in 1..n : p[j] = i
  BY <1>1, <1>6
<1>8. j # i /\ ~(j < i)
  <2>1. j # i
    BY <1>6, <1>7
  <2>2. j < i => p[j] = j
    BY <1>6
  <2>. QED BY <1>7, <2>1, <2>2
<1>9. p[i] < i
  <2>1. i < j
    BY <1>2, <1>6, <1>8
  <2>. QED BY <1>3, <1>6, <1>7, <2>1
<1>10. p[p[i]] = p[i]
  BY <1>2, <1>6, <1>9
<1>11. p[i] = i
  BY <1>1, <1>2, <1>6, <1>10
<1>. QED BY <1>6, <1>11

-----------------------------------------------------------------------------
(* Numbers. *)

DecimalWith(g, n) ==
  IF n < 10 THEN <<Digits[n + 1]>> ELSE g[n \div 10] \o <<Digits[(n % 10) + 1]>>

(* Its recursion is to a tenth: it is one whose depth the number bounds.   *)
DecimalRec == INSTANCE Recursion WITH
  Base <- [n \in Nat |-> <<>>], Step <- LAMBDA k, g : [n \in Nat |-> DecimalWith(g, n)]

LEMMA Tenth ==
  ASSUME NEW n \in Nat
  PROVE  /\ n \div 10 \in Nat /\ n % 10 \in 0..9
         /\ n = 10 * (n \div 10) + (n % 10)
         /\ n >= 10 => n \div 10 < n /\ n \div 10 >= 1
<1> DEFINE q == n \div 10
           r == n % 10
<1>1. q \in Int /\ r \in 0..9 /\ n = 10 * q + r
  OBVIOUS
<1> HIDE DEF q, r
<1>2. q \in Nat /\ (n >= 10 => q < n /\ q >= 1)
  BY <1>1
<1>. QED BY <1>1, <1>2 DEF q, r

LEMMA DecimalSettles ==
  \A k \in Nat : \A n \in Nat :
    n < k => DecimalRec!Recursive[k][n] = DecimalRec!Recursive[k + 1][n]
<1> DEFINE D == DecimalRec!Recursive
           E == {k \in Nat : \A n \in Nat : n < k => D[k][n] = D[k + 1][n]}
<1>0. \A k \in Nat : D[k + 1] = [n \in Nat |-> DecimalWith(D[k], n)]
  BY DecimalRec!RecursiveIs
<1> HIDE DEF D
<1>1. 0 \in E
  OBVIOUS
<1>2. ASSUME NEW k \in Nat, k \in E PROVE k + 1 \in E
  <2> SUFFICES ASSUME NEW n \in Nat, n < k + 1 PROVE D[k + 1][n] = D[(k + 1) + 1][n]
    OBVIOUS
  <2>1. k + 1 \in Nat
    OBVIOUS
  <2>2. D[k + 1][n] = DecimalWith(D[k], n) /\ D[(k + 1) + 1][n] = DecimalWith(D[k + 1], n)
    BY <1>0, <2>1
  <2>3. CASE n < 10
    BY <2>2, <2>3 DEF DecimalWith
  <2>4. CASE ~(n < 10)
    <3> DEFINE m == n \div 10
    <3>1. m \in Nat /\ m < k
      BY <2>4, Tenth
    <3>2. D[k][m] = D[k + 1][m]
      BY <1>2, <3>1
    <3>. QED BY <2>2, <2>4, <3>2 DEF DecimalWith
  <2>. QED BY <2>3, <2>4
<1>3. Nat \subseteq E
  <2> HIDE DEF E
  <2>. QED BY <1>1, <1>2, NatSetInduction
<1>. QED BY <1>3 DEF D

LEMMA DecimalStays ==
  ASSUME NEW n \in Nat, NEW k \in Nat, n < k
  PROVE  DecimalRec!Recursive[k][n] = DecimalRec!Recursive[n + 1][n]
<1> DEFINE D == DecimalRec!Recursive
           E == {j \in Nat : D[(n + 1) + j][n] = D[n + 1][n]}
<1>1. 0 \in E
  OBVIOUS
<1>2. ASSUME NEW j \in Nat, j \in E PROVE j + 1 \in E
  <2>1. (n + 1) + j \in Nat /\ n < (n + 1) + j /\ ((n + 1) + j) + 1 = (n + 1) + (j + 1)
    OBVIOUS
  <2>2. D[(n + 1) + j][n] = D[(n + 1) + (j + 1)][n]
    BY <2>1, DecimalSettles
  <2>. QED BY <1>2, <2>2
<1>3. Nat \subseteq E
  <2> HIDE DEF E
  <2>. QED BY <1>1, <1>2, NatSetInduction
<1>4. k - (n + 1) \in Nat /\ (n + 1) + (k - (n + 1)) = k
  OBVIOUS
<1>5. k - (n + 1) \in E
  BY <1>3, <1>4
<1>. QED BY <1>4, <1>5

LEMMA DecimalIs == \A n \in Nat : Decimal[n] = DecimalWith(Decimal, n)
<1> DEFINE D == DecimalRec!Recursive
           h == [n \in Nat |-> D[n + 1][n]]
           Good(g) == g = [n \in Nat |-> DecimalWith(g, n)]
<1>1. \A k \in Nat : D[k + 1] = [n \in Nat |-> DecimalWith(D[k], n)]
  BY DecimalRec!RecursiveIs
<1>2. \A n \in Nat : \A k \in Nat : n < k => D[k][n] = D[n + 1][n]
  BY DecimalStays
<1> HIDE DEF D
<1>3. ASSUME NEW n \in Nat PROVE h[n] = DecimalWith(h, n)
  <2>1. h[n] = DecimalWith(D[n], n)
    BY <1>1
  <2>2. CASE n < 10
    BY <2>1, <2>2 DEF DecimalWith
  <2>3. CASE ~(n < 10)
    <3> DEFINE m == n \div 10
    <3>1. m \in Nat /\ m < n
      BY <2>3, Tenth
    <3>2. D[n][m] = D[m + 1][m]
      BY <1>2, <3>1
    <3>3. D[n][m] = h[m]
      BY <3>1, <3>2
    <3> HIDE DEF h
    <3>. QED BY <2>1, <2>3, <3>3 DEF DecimalWith
  <2>. QED BY <2>2, <2>3
<1>4. h = [n \in Nat |-> h[n]]
  OBVIOUS
<1> HIDE DEF h
<1>5. Good(h)
  BY <1>3, <1>4
<1>6. Good(CHOOSE g : Good(g))
  <2> HIDE DEF Good
  <2>. QED BY <1>5
<1>7. Good(Decimal)
  BY <1>6 DEF Decimal, DecimalWith
<1>. QED BY <1>7

Figure == {"0", "1", "2", "3", "4", "5", "6", "7", "8", "9"}

LEMMA DigitsAre ==
  /\ Figure \subseteq Octet
  /\ \A d \in 0..9 : Digits[d + 1] \in Figure
  /\ \A c \in Figure : DigitOf[c] \in 0..9 /\ Digits[DigitOf[c] + 1] = c
  /\ \A c \in Figure : DigitOf[c] = 0 => c = "0"
  /\ \A c : IsDigit(c) <=> c \in Figure
<1>1. \A d \in 0..9 : Digits[d + 1] \in Figure
  <2> TAKE d \in 0..9
  <2>1. \/ d = 0 \/ d = 1 \/ d = 2 \/ d = 3 \/ d = 4
        \/ d = 5 \/ d = 6 \/ d = 7 \/ d = 8 \/ d = 9
    OBVIOUS
  <2>. QED BY <2>1 DEF Digits, Figure
<1>2. /\ \A c \in Figure : DigitOf[c] \in 0..9 /\ Digits[DigitOf[c] + 1] = c
      /\ \A c \in Figure : DigitOf[c] = 0 => c = "0"
  BY DEF Digits, Figure, DigitOf
<1>3. \A c : IsDigit(c) <=> c \in Figure
  BY DEF IsDigit, DigitOf, Figure
<1>4. Figure \subseteq Range(Digits)
  BY DEF Range, Digits, Figure
<1>. QED BY <1>1, <1>2, <1>3, <1>4, EncoderAssumption

LEMMA DecimalType == \A n \in Nat : Decimal[n] \in Seq(Figure) /\ Len(Decimal[n]) >= 1
<1> DEFINE Good(n) == Decimal[n] \in Seq(Figure) /\ Len(Decimal[n]) >= 1
           E == {k \in Nat : \A n \in Nat : n < k => Good(n)}
<1>1. 0 \in E
  OBVIOUS
<1>2. ASSUME NEW k \in Nat, k \in E PROVE k + 1 \in E
  <2> SUFFICES ASSUME NEW n \in Nat, n < k + 1 PROVE Good(n)
    OBVIOUS
  <2>1. Decimal[n] = DecimalWith(Decimal, n)
    BY DecimalIs
  <2>2. CASE n < 10
    <3>1. n \in 0..9
      BY <2>2
    <3>2. Digits[n + 1] \in Figure
      BY <3>1, DigitsAre
    <3>3. Decimal[n] = <<Digits[n + 1]>>
      BY <2>1, <2>2 DEF DecimalWith
    <3> DEFINE c == Digits[n + 1]
    <3> HIDE DEF c
    <3>4. <<c>> \in Seq(Figure) /\ Len(<<c>>) >= 1
      BY <3>2 DEF c
    <3>. QED BY <3>3, <3>4 DEF c
  <2>3. CASE ~(n < 10)
    <3> DEFINE m == n \div 10
               c == Digits[(n % 10) + 1]
               t == Decimal[m]
    <3>1. m \in Nat /\ m < k /\ n % 10 \in 0..9
      BY <2>3, Tenth
    <3>2. t \in Seq(Figure) /\ Len(t) >= 1
      BY <1>2, <3>1
    <3>3. c \in Figure
      BY <3>1, DigitsAre
    <3>4. Decimal[n] = t \o <<c>>
      BY <2>1, <2>3 DEF DecimalWith
    <3> HIDE DEF t, c
    <3>5. <<c>> \in Seq(Figure) /\ Len(<<c>>) = 1
      BY <3>3
    <3>6. t \o <<c>> \in Seq(Figure) /\ Len(t \o <<c>>) = Len(t) + 1
      BY <3>2, <3>5, ConcatProperties
    <3>. QED BY <3>2, <3>4, <3>6
  <2>. QED BY <2>2, <2>3
<1>3. Nat \subseteq E
  <2> HIDE DEF E
  <2>. QED BY <1>1, <1>2, NatSetInduction
<1> SUFFICES ASSUME NEW n \in Nat PROVE Good(n)
  OBVIOUS
<1>4. n + 1 \in Nat /\ n < n + 1
  OBVIOUS
<1> HIDE DEF Good
<1>5. n + 1 \in E
  BY <1>3, <1>4
<1>. QED BY <1>4, <1>5

LEMMA NumeralType == \A n \in Int : Numeral(n) \in Seq(Octet) /\ Len(Numeral(n)) >= 1
<1> TAKE n \in Int
<1>1. \A k \in Nat : Decimal[k] \in Seq(Octet) /\ Len(Decimal[k]) >= 1
  <2>1. Seq(Figure) \subseteq Seq(Octet)
    BY DigitsAre, SeqMonotonic
  <2>. QED BY <2>1, DecimalType
<1>2. "-" \in Octet
  BY EncoderAssumption
<1>3. CASE n < 0
  <2> DEFINE t == Decimal[-n]
  <2>1. -n \in Nat
    BY <1>3
  <2>2. t \in Seq(Octet) /\ Len(t) >= 1
    BY <1>1, <2>1
  <2>3. Numeral(n) = <<"-">> \o t
    BY <1>3 DEF Numeral
  <2> HIDE DEF t
  <2>4. <<"-">> \in Seq(Octet) /\ Len(<<"-">>) = 1
    BY <1>2
  <2>5. <<"-">> \o t \in Seq(Octet) /\ Len(<<"-">> \o t) = 1 + Len(t)
    BY <2>2, <2>4, ConcatProperties
  <2>. QED BY <2>2, <2>3, <2>5
<1>4. CASE ~(n < 0)
  <2>1. n \in Nat
    BY <1>4
  <2>. QED BY <1>1, <1>4, <2>1 DEF Numeral
<1>. QED BY <1>3, <1>4

-----------------------------------------------------------------------------
(* What is written of a value. *)

TextRec == INSTANCE Recursion WITH
  Base <- [b \in Simple |-> SerializeWith(<<>>, b)],
  Step <- LAMBDA n, g : [b \in Nested[n] |-> SerializeWith(g, b)]

(* Of the values that nest at most n deep. *)
Texts == TextRec!Recursive

LEMMA TextsAre ==
  /\ \A b \in Simple : Texts[0][b] = SerializeWith(<<>>, b)
  /\ \A n \in Nat : \A b \in Nested[n + 1] : Texts[n + 1][b] = SerializeWith(Texts[n], b)
  /\ \A b : Serialize(b) = Texts[MaxDepth][b]
<1>1. /\ Texts[0] = [b \in Simple |-> SerializeWith(<<>>, b)]
      /\ \A n \in Nat : Texts[n + 1] = [b \in Nested[n + 1] |-> SerializeWith(Texts[n], b)]
  BY TextRec!RecursiveIs DEF Texts
<1>2. ByParts(SerializeWith) = Texts[MaxDepth]
  BY DEF ByParts, Texts, TextRec!Recursive
<1>. QED BY <1>1, <1>2 DEF Serialize

(* A simple value's text depends on nothing else. *)
LEMMA SimpleText ==
  ASSUME NEW g, NEW b \in Simple
  PROVE  SerializeWith(g, b) = SerializeWith(<<>>, b)
<1>1. CASE b.type = "bool"
  BY <1>1 DEF SerializeWith
<1>2. CASE b.type = "int"
  BY <1>2 DEF SerializeWith
<1>3. CASE b.type = "str"
  BY <1>3 DEF SerializeWith
<1>. QED BY <1>1, <1>2, <1>3, SimpleIs

ListText(g, vs) ==
  <<"l">> \o FlattenSeq([i \in DOMAIN vs |-> g[vs[i]]]) \o <<"e">>

DictText(g, pairs) ==
  <<"d">> \o FlattenSeq([i \in DOMAIN pairs |-> g[pairs[i][1]] \o g[pairs[i][2]]]) \o <<"e">>

LEMMA TextOf ==
  ASSUME NEW g, NEW b
  PROVE  /\ b.type = "list" => SerializeWith(g, b) = ListText(g, b.values)
         /\ b.type = "dict" => SerializeWith(g, b) = DictText(g, Sorted(b))
<1>1. CASE b.type = "list"
  BY <1>1 DEF SerializeWith, ListText
<1>2. CASE b.type = "dict"
  BY <1>2 DEF SerializeWith, DictText
<1>. QED BY <1>1, <1>2

(* The pairs of a dictionary are its entries, and all of them. *)
LEMMA SortedParts ==
  ASSUME NEW V, NEW b, IsDictOf(b, V)
  PROVE  /\ Sorted(b) \in Seq(AllKeys \X V)
         /\ DOMAIN Sorted(b) = 1..Len(b.keys) /\ Len(Sorted(b)) = Len(b.keys)
         /\ \A i \in 1..Len(b.keys) : Sorted(b)[i][1] \in AllKeys /\ Sorted(b)[i][2] \in V
         /\ \A k \in 1..Len(b.keys) : \E i \in 1..Len(b.keys) :
              Sorted(b)[i] = <<b.keys[k], b.values[k]>>
<1> DEFINE ks == b.keys
           vs == b.values
           n == Len(ks)
           s == Sorted(b)
<1>1. /\ ks \in Seq(AllKeys) /\ vs \in Seq(V) /\ n \in Nat
      /\ \A i \in 1..n : ks[i] \in AllKeys /\ vs[i] \in V
  <2>1. ks \in Seq(AllKeys) /\ vs \in Seq(V) /\ Len(ks) = Len(vs)
    BY DEF IsDictOf
  <2> HIDE DEF ks, vs
  <2>. QED BY <2>1
<1>2. PICK p : InOrder(p, ks, n) /\ s = [i \in 1..n |-> <<ks[p[i]], vs[p[i]]>>]
  <2>1. b.keys \in Seq(AllKeys) /\ Len(b.keys) = n /\ n \in Nat
    BY <1>1
  <2>2. \E p : /\ InOrder(p, b.keys, n)
               /\ Sorted(b) = [i \in 1..n |-> <<b.keys[p[i]], b.values[p[i]]>>]
    <3> HIDE DEF n
    <3>. QED BY <2>1, SortedIs
  <2>. QED BY <2>2
<1> HIDE DEF n, s, ks, vs
<1>3. (\A i \in 1..n : p[i] \in 1..n) /\ \A t \in 1..n : \E i \in 1..n : p[i] = t
  <2>1. p \in Bijection(1..n, 1..n)
    BY <1>2 DEF InOrder
  <2>2. n \in Nat
    BY <1>1
  <2>3. p \in [1..n -> 1..n] /\ \A t \in 1..n : \E i \in 1..n : p[i] = t
    BY <2>1, <2>2, BijectionIs
  <2>. QED BY <2>3
<1>4. \A i \in 1..n : s[i] = <<ks[p[i]], vs[p[i]]>> /\ s[i] \in AllKeys \X V
                      /\ s[i][1] \in AllKeys /\ s[i][2] \in V
  BY <1>1, <1>2, <1>3
<1>5. s \in [1..n -> AllKeys \X V]
  BY <1>1, <1>2, <1>3
<1>6. s \in Seq(AllKeys \X V) /\ Len(s) = n /\ DOMAIN s = 1..n
  BY <1>1, <1>5, FunctionIsSeq
<1>7. \A k \in 1..n : \E i \in 1..n : s[i] = <<ks[k], vs[k]>>
  BY <1>3, <1>4
<1>. QED BY <1>4, <1>6, <1>7 DEF n, s, ks, vs

LEMMA SortedInPlace ==
  ASSUME NEW V, NEW b, IsDictOf(b, V), AscendTo(b.keys, Len(b.keys))
  PROVE  Sorted(b) = [i \in 1..Len(b.keys) |-> <<b.keys[i], b.values[i]>>]
<1> DEFINE ks == b.keys
           vs == b.values
           n == Len(ks)
<1>1. ks \in Seq(AllKeys) /\ n \in Nat /\ ks \in [1..n -> AllKeys]
  BY DEF IsDictOf
<1>2. PICK p : InOrder(p, ks, n) /\ Sorted(b) = [i \in 1..n |-> <<ks[p[i]], vs[p[i]]>>]
  <2>1. b.keys \in Seq(AllKeys) /\ Len(b.keys) = n /\ n \in Nat
    BY <1>1
  <2>2. \E p : /\ InOrder(p, b.keys, n)
               /\ Sorted(b) = [i \in 1..n |-> <<b.keys[p[i]], b.values[p[i]]>>]
    <3> HIDE DEF n
    <3>. QED BY <2>1, SortedIs
  <2>. QED BY <2>2
<1>3. AscendTo(ks, n)
  OBVIOUS
<1> HIDE DEF ks, vs, n
<1>4. \A i \in 1..n : p[i] = i
  BY <1>1, <1>2, <1>3, AscendInPlace
<1>5. Sorted(b) = [i \in 1..n |-> <<ks[i], vs[i]>>]
  BY <1>2, <1>4
<1>. QED BY <1>5 DEF ks, vs, n

-----------------------------------------------------------------------------
(* A text is one of octets. *)

LEMMA Letters ==
  /\ {"-", ":", "b", "d", "e", "i", "l", "0", "1"} \subseteq Octet
  /\ \A c \in Octet : <<c>> \in Seq(Octet) /\ Len(<<c>>) = 1
<1>1. {"0", "1"} \subseteq Octet
  BY DigitsAre DEF Figure
<1>2. \A c \in Octet : <<c>> \in Seq(Octet) /\ Len(<<c>>) = 1
  OBVIOUS
<1>. QED BY <1>1, <1>2, EncoderAssumption

LEMMA Concat3 ==
  ASSUME NEW S, NEW a \in Seq(S), NEW b \in Seq(S), NEW c \in Seq(S)
  PROVE  /\ (a \o b) \o c \in Seq(S)
         /\ Len((a \o b) \o c) = Len(a) + Len(b) + Len(c)
<1>1. a \o b \in Seq(S) /\ Len(a \o b) = Len(a) + Len(b)
  BY ConcatProperties
<1> DEFINE d == a \o b
<1>2. d \in Seq(S)
  BY <1>1
<1> HIDE DEF d
<1>3. d \o c \in Seq(S) /\ Len(d \o c) = Len(d) + Len(c)
  BY <1>2, ConcatProperties
<1>. QED BY <1>1, <1>3 DEF d

LEMMA SimpleTextType ==
  ASSUME NEW b \in Simple
  PROVE  /\ SerializeWith(<<>>, b) \in Seq(Octet)
         /\ Len(SerializeWith(<<>>, b)) = SizeWith(<<>>, b)
<1>1. CASE b.type = "bool"
  <2> DEFINE c == IF b.b THEN "1" ELSE "0"
  <2>1. SerializeWith(<<>>, b) = <<"b", c>> /\ SizeWith(<<>>, b) = 2
    BY <1>1 DEF SerializeWith, SizeWith
  <2>2. c \in Octet /\ "b" \in Octet
    BY Letters
  <2> HIDE DEF c
  <2>3. <<"b", c>> \in Seq(Octet) /\ Len(<<"b", c>>) = 2
    BY <2>2
  <2>. QED BY <2>1, <2>3
<1>2. CASE b.type = "int"
  <2> DEFINE t == Numeral(b.ll)
  <2>1. SerializeWith(<<>>, b) = (<<"i">> \o t) \o <<"e">> /\ SizeWith(<<>>, b) = 2 + Len(t)
    BY <1>2 DEF SerializeWith, SizeWith
  <2>2. b.ll \in Int
    BY <1>2, SimpleIs
  <2>3. t \in Seq(Octet) /\ Len(t) \in Nat
    BY <2>2, NumeralType
  <2>4. <<"i">> \in Seq(Octet) /\ <<"e">> \in Seq(Octet) /\ Len(<<"i">>) = 1 /\ Len(<<"e">>) = 1
    BY Letters
  <2> HIDE DEF t
  <2>5. (<<"i">> \o t) \o <<"e">> \in Seq(Octet) /\ Len((<<"i">> \o t) \o <<"e">>) = 1 + Len(t) + 1
    BY <2>3, <2>4, Concat3
  <2>6. 1 + Len(t) + 1 = 2 + Len(t)
    BY <2>3
  <2>. QED BY <2>1, <2>5, <2>6, Zenon
<1>3. CASE b.type = "str"
  <2> DEFINE s == b.s
             t == Numeral(Len(s))
  <2>1. /\ SerializeWith(<<>>, b) = (t \o <<":">>) \o s
        /\ SizeWith(<<>>, b) = (Len(t) + 1) + Len(s)
    BY <1>3 DEF SerializeWith, SizeWith
  <2>2. s \in Seq(Octet)
    BY <1>3, SimpleIs
  <2>3. t \in Seq(Octet) /\ Len(t) \in Nat /\ Len(s) \in Nat
    <3> HIDE DEF s
    <3>1. Len(s) \in Nat /\ Len(s) \in Int
      BY <2>2
    <3>. QED BY <3>1, NumeralType
  <2>4. <<":">> \in Seq(Octet) /\ Len(<<":">>) = 1
    BY Letters
  <2> HIDE DEF s, t
  <2>5. (t \o <<":">>) \o s \in Seq(Octet) /\ Len((t \o <<":">>) \o s) = Len(t) + 1 + Len(s)
    BY <2>2, <2>3, <2>4, Concat3
  <2>. QED BY <2>1, <2>5
<1>. QED BY <1>1, <1>2, <1>3, SimpleIs

-----------------------------------------------------------------------------
(* The sizes that are allocated beforehand. *)

SizeRec == INSTANCE Recursion WITH
  Base <- [b \in Simple |-> SizeWith(<<>>, b)],
  Step <- LAMBDA n, g : [b \in Nested[n] |-> SizeWith(g, b)]

Sizes == SizeRec!Recursive

LEMMA SizesAre ==
  /\ \A b \in Simple : Sizes[0][b] = SizeWith(<<>>, b)
  /\ \A n \in Nat : \A b \in Nested[n + 1] : Sizes[n + 1][b] = SizeWith(Sizes[n], b)
  /\ \A b : EncodedSize(b) = Sizes[MaxDepth][b]
<1>1. /\ Sizes[0] = [b \in Simple |-> SizeWith(<<>>, b)]
      /\ \A n \in Nat : Sizes[n + 1] = [b \in Nested[n + 1] |-> SizeWith(Sizes[n], b)]
  BY SizeRec!RecursiveIs DEF Sizes
<1>2. ByParts(SizeWith) = Sizes[MaxDepth]
  BY DEF ByParts, Sizes, SizeRec!Recursive
<1>. QED BY <1>1, <1>2 DEF EncodedSize

LEMMA SimpleSize ==
  ASSUME NEW g, NEW b \in Simple
  PROVE  SizeWith(g, b) = SizeWith(<<>>, b)
<1>1. CASE b.type = "bool"
  BY <1>1 DEF SizeWith
<1>2. CASE b.type = "int"
  BY <1>2 DEF SizeWith
<1>3. CASE b.type = "str"
  BY <1>3 DEF SizeWith
<1>. QED BY <1>1, <1>2, <1>3, SimpleIs

LEMMA SizeOf ==
  ASSUME NEW g, NEW b
  PROVE  /\ b.type = "list" =>
              SizeWith(g, b) = 2 + Total([i \in DOMAIN b.values |-> g[b.values[i]]])
         /\ b.type = "dict" =>
              SizeWith(g, b) =
                2 + Total([i \in DOMAIN b.keys |-> g[b.keys[i]] + g[b.values[i]]])
<1>1. CASE b.type = "list"
  BY <1>1 DEF SizeWith
<1>2. CASE b.type = "dict"
  BY <1>2 DEF SizeWith
<1>. QED BY <1>1, <1>2

(* A text between two characters. *)
LEMMA Enclosed ==
  ASSUME NEW S, NEW ss \in Seq(Seq(S)), NEW c \in S, NEW d \in S
  PROVE  /\ (<<c>> \o FlattenSeq(ss)) \o <<d>> \in Seq(S)
         /\ Len((<<c>> \o FlattenSeq(ss)) \o <<d>>) = 2 + Total([i \in DOMAIN ss |-> Len(ss[i])])
<1> DEFINE t == FlattenSeq(ss)
           m == Total([i \in DOMAIN ss |-> Len(ss[i])])
<1>1. t \in Seq(S) /\ Len(t) = m
  BY FlattenType, FlattenLen
<1>2. <<c>> \in Seq(S) /\ Len(<<c>>) = 1 /\ <<d>> \in Seq(S) /\ Len(<<d>>) = 1
  OBVIOUS
<1> HIDE DEF t, m
<1>3. /\ (<<c>> \o t) \o <<d>> \in Seq(S)
      /\ Len((<<c>> \o t) \o <<d>>) = 1 + Len(t) + 1
  BY <1>1, <1>2, Concat3
<1>4. Len(t) \in Nat
  BY <1>1, LenProperties
<1>5. 1 + Len(t) + 1 = 2 + Len(t)
  BY <1>4
<1>6. Len((<<c>> \o t) \o <<d>>) = 2 + m
  BY <1>1, <1>3, <1>5, Zenon
<1>. QED BY <1>3, <1>6 DEF t, m

(* g writes texts of S for the values of V, whose lengths are z's. *)
Measures(g, z, V, S) == \A b \in V : g[b] \in Seq(S) /\ Len(g[b]) = z[b]

LEMMA ListMeasured ==
  ASSUME NEW V, NEW g, NEW z, Measures(g, z, V, Octet), NEW vs \in Seq(V)
  PROVE  /\ ListText(g, vs) \in Seq(Octet)
         /\ Len(ListText(g, vs)) = 2 + Total([i \in DOMAIN vs |-> z[vs[i]]])
<1> DEFINE n == Len(vs)
           ss == [i \in DOMAIN vs |-> g[vs[i]]]
<1>1. n \in Nat /\ DOMAIN vs = 1..n /\ \A i \in 1..n : vs[i] \in V
  OBVIOUS
<1>2. \A i \in 1..n : g[vs[i]] \in Seq(Octet) /\ Len(g[vs[i]]) = z[vs[i]]
  BY <1>1 DEF Measures
<1> HIDE DEF n
<1>3. ss \in [1..n -> Seq(Octet)]
  BY <1>1, <1>2
<1>4. [i \in DOMAIN ss |-> Len(ss[i])] = [i \in DOMAIN vs |-> z[vs[i]]]
  BY <1>1, <1>2
<1>5. ListText(g, vs) = (<<"l">> \o FlattenSeq(ss)) \o <<"e">>
  BY DEF ListText
<1> HIDE DEF ss
<1>6. ss \in Seq(Seq(Octet))
  BY <1>1, <1>3, FunctionIsSeq
<1>7. "l" \in Octet /\ "e" \in Octet
  BY Letters
<1> DEFINE lens == [i \in DOMAIN ss |-> Len(ss[i])]
<1>8. /\ (<<"l">> \o FlattenSeq(ss)) \o <<"e">> \in Seq(Octet)
      /\ Len((<<"l">> \o FlattenSeq(ss)) \o <<"e">>) = 2 + Total(lens)
  BY <1>6, <1>7, Enclosed
<1>. QED BY <1>4, <1>5, <1>8, Zenon

LEMMA DictMeasured ==
  ASSUME NEW V, AllKeys \subseteq V, NEW g, NEW z, Measures(g, z, V, Octet), NEW b, IsDictOf(b, V)
  PROVE  /\ DictText(g, Sorted(b)) \in Seq(Octet)
         /\ Len(DictText(g, Sorted(b))) =
              2 + Total([i \in DOMAIN b.keys |-> z[b.keys[i]] + z[b.values[i]]])
<1> DEFINE ks == b.keys
           vs == b.values
           n == Len(ks)
           s == Sorted(b)
           ss == [i \in DOMAIN s |-> g[s[i][1]] \o g[s[i][2]]]
           a == [i \in 1..n |-> z[ks[i]] + z[vs[i]]]
<1>1. /\ n \in Nat /\ DOMAIN ks = 1..n
      /\ \A i \in 1..n : ks[i] \in AllKeys /\ ks[i] \in V /\ vs[i] \in V
  <2>1. ks \in Seq(AllKeys) /\ vs \in Seq(V) /\ Len(ks) = Len(vs)
    BY DEF IsDictOf
  <2> HIDE DEF ks, vs
  <2>. QED BY <2>1
<1>2. PICK p : InOrder(p, ks, n) /\ s = [i \in 1..n |-> <<ks[p[i]], vs[p[i]]>>]
  <2>1. b.keys \in Seq(AllKeys) /\ Len(b.keys) = n
    BY DEF IsDictOf
  <2>2. \E p : /\ InOrder(p, b.keys, n)
               /\ Sorted(b) = [i \in 1..n |-> <<b.keys[p[i]], b.values[p[i]]>>]
    <3> HIDE DEF n
    <3>. QED BY <1>1, <2>1, SortedIs
  <2>. QED BY <2>2
<1>3. DictText(g, s) = (<<"d">> \o FlattenSeq(ss)) \o <<"e">>
  BY DEF DictText
<1>4. ss = [i \in DOMAIN s |-> g[s[i][1]] \o g[s[i][2]]]
  OBVIOUS
<1> HIDE DEF ks, vs, n, s, ss
<1>5. p \in Bijection(1..n, 1..n) /\ \A i \in 1..n : p[i] \in 1..n
  <2>1. p \in Bijection(1..n, 1..n) /\ n \in Nat
    BY <1>1, <1>2 DEF InOrder
  <2>2. p \in [1..n -> 1..n]
    BY <2>1, BijectionIs
  <2>. QED BY <2>1, <2>2
<1>6. DOMAIN s = 1..n /\ \A i \in 1..n : s[i][1] = ks[p[i]] /\ s[i][2] = vs[p[i]]
  BY <1>2
<1>7. \A c \in V : g[c] \in Seq(Octet) /\ Len(g[c]) = z[c] /\ z[c] \in Nat
  BY LenProperties DEF Measures
<1>8. ASSUME NEW i \in 1..n
      PROVE  ss[i] \in Seq(Octet) /\ Len(ss[i]) = a[p[i]]
  <2> DEFINE x == ks[p[i]]
             y == vs[p[i]]
  <2>1. p[i] \in 1..n /\ ss[i] = g[x] \o g[y] /\ a[p[i]] = z[x] + z[y]
    BY <1>4, <1>5, <1>6
  <2>2. x \in V /\ y \in V
    BY <1>1, <1>5
  <2> HIDE DEF x, y, a
  <2>3. g[x] \o g[y] \in Seq(Octet) /\ Len(g[x] \o g[y]) = Len(g[x]) + Len(g[y])
    BY <1>7, <2>2, ConcatProperties
  <2>. QED BY <1>7, <2>1, <2>2, <2>3
<1>9. a \in [1..n -> Nat]
  BY <1>1, <1>7
<1>10. a = [i \in DOMAIN ks |-> z[ks[i]] + z[vs[i]]]
  BY <1>1
<1> HIDE DEF a
<1>11. DOMAIN ss = 1..n /\ ss \in [1..n -> Seq(Octet)]
  BY <1>4, <1>6, <1>8
<1>12. ss \in Seq(Seq(Octet))
  BY <1>1, <1>11, FunctionIsSeq
<1>13. [i \in DOMAIN ss |-> Len(ss[i])] = [i \in 1..n |-> a[p[i]]]
  BY <1>8, <1>11
<1>14. Total([i \in 1..n |-> a[p[i]]]) = Total(a)
  BY <1>1, <1>5, <1>9, TotalPermuted
<1>15. "d" \in Octet /\ "e" \in Octet
  BY Letters
<1> DEFINE lens == [i \in DOMAIN ss |-> Len(ss[i])]
<1>16. /\ (<<"d">> \o FlattenSeq(ss)) \o <<"e">> \in Seq(Octet)
       /\ Len((<<"d">> \o FlattenSeq(ss)) \o <<"e">>) = 2 + Total(lens)
  BY <1>12, <1>15, Enclosed
<1>17. Total(lens) = Total(a)
  BY <1>13, <1>14, Zenon
<1> HIDE DEF lens
<1>18. Len(DictText(g, s)) = 2 + Total(a) /\ DictText(g, s) \in Seq(Octet)
  BY <1>3, <1>16, <1>17, Zenon
<1>. QED BY <1>10, <1>18, Zenon DEF ks, vs, s

(* The assertion of ben_encode: the text fills what was allocated for it.  *)
LEMMA TextMeasured == \A n \in Nat : Measures(Texts[n], Sizes[n], Nested[n], Octet)
<1> DEFINE E == {n \in Nat : Measures(Texts[n], Sizes[n], Nested[n], Octet)}
<1>1. 0 \in E
  BY NestedIs, TextsAre, SizesAre, SimpleTextType DEF Measures
<1>2. ASSUME NEW n \in Nat, n \in E PROVE n + 1 \in E
  <2>0. Measures(Texts[n], Sizes[n], Nested[n], Octet) /\ AllKeys \subseteq Nested[n]
    BY <1>2, SimpleNested
  <2> SUFFICES ASSUME NEW b \in Nested[n + 1]
               PROVE  Texts[n + 1][b] \in Seq(Octet) /\ Len(Texts[n + 1][b]) = Sizes[n + 1][b]
    BY DEF Measures
  <2>1. Texts[n + 1][b] = SerializeWith(Texts[n], b) /\ Sizes[n + 1][b] = SizeWith(Sizes[n], b)
    BY TextsAre, SizesAre
  <2>2. CASE b \in Simple
    <3>1. Texts[n + 1][b] = SerializeWith(<<>>, b) /\ Sizes[n + 1][b] = SizeWith(<<>>, b)
      BY <2>1, <2>2, SimpleText, SimpleSize
    <3>. QED BY <2>2, <3>1, SimpleTextType
  <2>3. CASE IsListOf(b, Nested[n])
    <3> DEFINE vs == b.values
    <3>1. b.type = "list" /\ vs \in Seq(Nested[n])
      BY <2>3 DEF IsListOf
    <3>2. /\ SerializeWith(Texts[n], b) = ListText(Texts[n], vs)
          /\ SizeWith(Sizes[n], b) = 2 + Total([i \in DOMAIN vs |-> Sizes[n][vs[i]]])
      BY <3>1, TextOf, SizeOf
    <3> HIDE DEF vs
    <3>3. /\ ListText(Texts[n], vs) \in Seq(Octet)
          /\ Len(ListText(Texts[n], vs)) = 2 + Total([i \in DOMAIN vs |-> Sizes[n][vs[i]]])
      BY <2>0, <3>1, ListMeasured
    <3>. QED BY <2>1, <3>2, <3>3, Zenon
  <2>4. CASE IsDictOf(b, Nested[n])
    <3>1. b.type = "dict"
      BY <2>4 DEF IsDictOf
    <3>2. /\ SerializeWith(Texts[n], b) = DictText(Texts[n], Sorted(b))
          /\ SizeWith(Sizes[n], b) =
               2 + Total([i \in DOMAIN b.keys |-> Sizes[n][b.keys[i]] + Sizes[n][b.values[i]]])
      BY <3>1, TextOf, SizeOf
    <3>3. /\ DictText(Texts[n], Sorted(b)) \in Seq(Octet)
          /\ Len(DictText(Texts[n], Sorted(b))) =
               2 + Total([i \in DOMAIN b.keys |-> Sizes[n][b.keys[i]] + Sizes[n][b.values[i]]])
      BY <2>0, <2>4, DictMeasured
    <3>. QED BY <2>1, <3>2, <3>3, Zenon
  <2>. QED BY <2>2, <2>3, <2>4, NestedParts
<1>3. Nat \subseteq E
  <2> HIDE DEF E
  <2>. QED BY <1>1, <1>2, NatSetInduction
<1>. QED BY <1>3

LEMMA SerializeLen ==
  ASSUME NEW b \in Nested[MaxDepth]
  PROVE  Serialize(b) \in Seq(Octet) /\ Len(Serialize(b)) = EncodedSize(b)
<1>1. MaxDepth \in Nat
  BY BencodeAssumption
<1>. QED BY <1>1, TextMeasured, TextsAre, SizesAre DEF Measures

-----------------------------------------------------------------------------
(* The same for what is printed. *)

(* What occurs in a printed text. *)
Char == Octet \union {"\\", "x", "T", "r", "u", "e", "F", "a", "l", "s",
                      "'", ":", ",", " ", "[", "]", "{", "}"}

PrintRec == INSTANCE Recursion WITH
  Base <- [b \in Simple |-> PrintWith(<<>>, b)],
  Step <- LAMBDA n, g : [b \in Nested[n] |-> PrintWith(g, b)]

Prints == PrintRec!Recursive

PrintSizeRec == INSTANCE Recursion WITH
  Base <- [b \in Simple |-> PrintedSizeWith(<<>>, b)],
  Step <- LAMBDA n, g : [b \in Nested[n] |-> PrintedSizeWith(g, b)]

PrintSizes == PrintSizeRec!Recursive

LEMMA PrintsAre ==
  /\ \A b \in Simple : Prints[0][b] = PrintWith(<<>>, b)
  /\ \A n \in Nat : \A b \in Nested[n + 1] : Prints[n + 1][b] = PrintWith(Prints[n], b)
  /\ \A b : Printed(b) = Prints[MaxDepth][b]
<1>1. /\ Prints[0] = [b \in Simple |-> PrintWith(<<>>, b)]
      /\ \A n \in Nat : Prints[n + 1] = [b \in Nested[n + 1] |-> PrintWith(Prints[n], b)]
  BY PrintRec!RecursiveIs DEF Prints
<1>2. ByParts(PrintWith) = Prints[MaxDepth]
  BY DEF ByParts, Prints, PrintRec!Recursive
<1>. QED BY <1>1, <1>2 DEF Printed

LEMMA PrintSizesAre ==
  /\ \A b \in Simple : PrintSizes[0][b] = PrintedSizeWith(<<>>, b)
  /\ \A n \in Nat : \A b \in Nested[n + 1] :
       PrintSizes[n + 1][b] = PrintedSizeWith(PrintSizes[n], b)
  /\ \A b : PrintedSize(b) = PrintSizes[MaxDepth][b]
<1>1. /\ PrintSizes[0] = [b \in Simple |-> PrintedSizeWith(<<>>, b)]
      /\ \A n \in Nat :
           PrintSizes[n + 1] = [b \in Nested[n + 1] |-> PrintedSizeWith(PrintSizes[n], b)]
  BY PrintSizeRec!RecursiveIs DEF PrintSizes
<1>2. ByParts(PrintedSizeWith) = PrintSizes[MaxDepth]
  BY DEF ByParts, PrintSizes, PrintSizeRec!Recursive
<1>. QED BY <1>1, <1>2 DEF PrintedSize

LEMMA SimplePrint ==
  ASSUME NEW g, NEW b \in Simple
  PROVE  /\ PrintWith(g, b) = PrintWith(<<>>, b)
         /\ PrintedSizeWith(g, b) = PrintedSizeWith(<<>>, b)
<1>1. CASE b.type = "bool"
  BY <1>1 DEF PrintWith, PrintedSizeWith
<1>2. CASE b.type = "int"
  BY <1>2 DEF PrintWith, PrintedSizeWith
<1>3. CASE b.type = "str"
  BY <1>3 DEF PrintWith, PrintedSizeWith
<1>. QED BY <1>1, <1>2, <1>3, SimpleIs

ListPrint(g, vs) == <<"[">> \o Separated([i \in DOMAIN vs |-> g[vs[i]]]) \o <<"]">>

Piece(g, pair) == g[pair[1]] \o <<":", " ">> \o g[pair[2]]

DictPrint(g, pairs) ==
  <<"{">> \o Separated([i \in DOMAIN pairs |-> Piece(g, pairs[i])]) \o <<"}">>

LEMMA PrintOf ==
  ASSUME NEW g, NEW b
  PROVE  /\ b.type = "list" =>
              /\ PrintWith(g, b) = ListPrint(g, b.values)
              /\ PrintedSizeWith(g, b) =
                   2 + Separators(Len(b.values)) + Total([i \in DOMAIN b.values |-> g[b.values[i]]])
         /\ b.type = "dict" =>
              /\ PrintWith(g, b) = DictPrint(g, Sorted(b))
              /\ PrintedSizeWith(g, b) =
                   2 + Separators(Len(b.keys))
                     + Total([i \in DOMAIN b.keys |-> g[b.keys[i]] + 2 + g[b.values[i]]])
<1>1. CASE b.type = "list"
  BY <1>1 DEF PrintWith, PrintedSizeWith, ListPrint
<1>2. CASE b.type = "dict"
  BY <1>2 DEF PrintWith, PrintedSizeWith, DictPrint, Piece
<1>. QED BY <1>1, <1>2

LEMMA CharPrinted ==
  ASSUME NEW c \in Octet
  PROVE  PutChar(c) \in Seq(Char) /\ Len(PutChar(c)) = CharSize(c) /\ CharSize(c) \in Nat
<1>1. c \in Char /\ "\\" \in Char /\ "x" \in Char
  BY DEF Char
<1>2. CASE c \notin Printable
  <2>1. PutChar(c) = <<"\\", "x", c, c>> /\ CharSize(c) = 4
    BY <1>2 DEF PutChar, CharSize, Hex
  <2>. QED BY <1>1, <2>1
<1>3. CASE c \in Printable /\ c \in NeedEscape
  <2>1. PutChar(c) = <<"\\", c>> /\ CharSize(c) = 2
    BY <1>3 DEF PutChar, CharSize
  <2>. QED BY <1>1, <2>1
<1>4. CASE c \in Printable /\ c \notin NeedEscape
  <2>1. PutChar(c) = <<c>> /\ CharSize(c) = 1
    BY <1>4 DEF PutChar, CharSize
  <2>. QED BY <1>1, <2>1
<1>. QED BY <1>2, <1>3, <1>4

LEMMA Tuples ==
  ASSUME NEW S, NEW a \in S, NEW b \in S, NEW c \in S, NEW d \in S, NEW e \in S
  PROVE  /\ <<a, b>> \in Seq(S) /\ Len(<<a, b>>) = 2
         /\ <<a, b, c, d>> \in Seq(S) /\ Len(<<a, b, c, d>>) = 4
         /\ <<a, b, c, d, e>> \in Seq(S) /\ Len(<<a, b, c, d, e>>) = 5
  OBVIOUS

LEMMA Words ==
  /\ <<"T", "r", "u", "e">> \in Seq(Char) /\ Len(<<"T", "r", "u", "e">>) = 4
  /\ <<"F", "a", "l", "s", "e">> \in Seq(Char) /\ Len(<<"F", "a", "l", "s", "e">>) = 5
  /\ <<",", " ">> \in Seq(Char) /\ Len(<<",", " ">>) = 2
  /\ <<":", " ">> \in Seq(Char) /\ Len(<<":", " ">>) = 2
<1>1. /\ "T" \in Char /\ "r" \in Char /\ "u" \in Char /\ "e" \in Char /\ "F" \in Char
      /\ "a" \in Char /\ "l" \in Char /\ "s" \in Char
      /\ "," \in Char /\ ":" \in Char /\ " " \in Char
  BY DEF Char
<1>. QED BY <1>1, Tuples, Zenon

LEMMA SimplePrintType ==
  ASSUME NEW b \in Simple
  PROVE  /\ PrintWith(<<>>, b) \in Seq(Char)
         /\ Len(PrintWith(<<>>, b)) = PrintedSizeWith(<<>>, b)
<1>1. CASE b.type = "bool"
  <2>1. CASE b.b
    <3>1. PrintWith(<<>>, b) = <<"T", "r", "u", "e">> /\ PrintedSizeWith(<<>>, b) = 4
      BY <1>1, <2>1 DEF PrintWith, PrintedSizeWith
    <3>. QED BY <3>1, Words, Zenon
  <2>2. CASE ~b.b
    <3>1. PrintWith(<<>>, b) = <<"F", "a", "l", "s", "e">> /\ PrintedSizeWith(<<>>, b) = 5
      BY <1>1, <2>2 DEF PrintWith, PrintedSizeWith
    <3>. QED BY <3>1, Words, Zenon
  <2>. QED BY <2>1, <2>2
<1>2. CASE b.type = "int"
  <2> DEFINE t == Numeral(b.ll)
  <2>1. PrintWith(<<>>, b) = t /\ PrintedSizeWith(<<>>, b) = Len(t)
    BY <1>2 DEF PrintWith, PrintedSizeWith
  <2>2. b.ll \in Int
    BY <1>2, SimpleIs
  <2>3. t \in Seq(Octet)
    BY <2>2, NumeralType
  <2> HIDE DEF t
  <2>4. t \in Seq(Char)
    <3>1. Seq(Octet) \subseteq Seq(Char)
      BY SeqMonotonic DEF Char
    <3>. QED BY <2>3, <3>1
  <2>. QED BY <2>1, <2>4
<1>3. CASE b.type = "str"
  <2> DEFINE s == b.s
             n == Len(s)
             ss == [i \in DOMAIN s |-> PutChar(s[i])]
             lens == [i \in DOMAIN ss |-> Len(ss[i])]
             z == [i \in DOMAIN s |-> CharSize(s[i])]
  <2>1. /\ PrintWith(<<>>, b) = (<<"'">> \o FlattenSeq(ss)) \o <<"'">>
        /\ PrintedSizeWith(<<>>, b) = 2 + Total(z)
    BY <1>3 DEF PrintWith, PrintedSizeWith
  <2>2. s \in Seq(Octet)
    BY <1>3, SimpleIs
  <2> HIDE DEF s
  <2>3. n \in Nat /\ DOMAIN s = 1..n /\ \A i \in 1..n : s[i] \in Octet
    BY <2>2
  <2> HIDE DEF n
  <2>4. ss \in [1..n -> Seq(Char)] /\ lens = z
    BY <2>3, CharPrinted
  <2> HIDE DEF ss
  <2>5. ss \in Seq(Seq(Char))
    BY <2>3, <2>4, FunctionIsSeq
  <2>6. "'" \in Char
    BY DEF Char
  <2>7. /\ (<<"'">> \o FlattenSeq(ss)) \o <<"'">> \in Seq(Char)
        /\ Len((<<"'">> \o FlattenSeq(ss)) \o <<"'">>) = 2 + Total(lens)
    BY <2>5, <2>6, Enclosed
  <2>. QED BY <2>1, <2>4, <2>7, Zenon
<1>. QED BY <1>1, <1>2, <1>3, SimpleIs

(* What the separators add. *)
LEMMA TotalSeparated ==
  ASSUME NEW n \in Nat, NEW a \in [1..n -> Nat]
  PROVE  Total([i \in 1..n |-> IF i < n THEN a[i] + 2 ELSE a[i]]) = Separators(n) + Total(a)
<1> DEFINE s == [i \in 1..n |-> IF i < n THEN a[i] + 2 ELSE a[i]]
<1>1. a \in Seq(Nat) /\ Len(a) = n
  BY FunctionIsSeq
<1>2. s \in Seq(Nat) /\ Len(s) = n
  <2>1. s \in [1..n -> Nat]
    OBVIOUS
  <2> HIDE DEF s
  <2>. QED BY <2>1, FunctionIsSeq
<1>3. PICK f : f \in [Nat -> Nat] /\ f[0] = 0 /\ \A i \in 1..n : f[i] = f[i - 1] + a[i]
  BY <1>1, Totalled
<1> DEFINE g == [i \in Nat |-> IF i < n \/ n = 0 THEN f[i] + 2 * i ELSE f[i] + 2 * (i - 1)]
<1>4. g[0] = 0
  BY <1>3
<1>5. ASSUME NEW i \in 1..n PROVE g[i] = g[i - 1] + s[i]
  <2> DEFINE x == f[i - 1]
             y == a[i]
             u == f[i]
  <2>1. i \in Nat /\ i - 1 \in Nat /\ i - 1 < n /\ n # 0
    OBVIOUS
  <2>2. u = x + y /\ x \in Nat /\ y \in Nat
    BY <1>3, <2>1
  <2>3. g[i - 1] = x + 2 * (i - 1)
    BY <2>1
  <2>4. CASE i < n
    <3>1. g[i] = u + 2 * i /\ s[i] = y + 2
      BY <2>1, <2>4
    <3> HIDE DEF g, s, x, y, u
    <3>. QED BY <2>1, <2>2, <2>3, <3>1
  <2>5. CASE ~(i < n)
    <3>1. g[i] = u + 2 * (i - 1) /\ s[i] = y
      BY <2>1, <2>5
    <3> HIDE DEF g, s, x, y, u
    <3>. QED BY <2>1, <2>2, <2>3, <3>1
  <2>. QED BY <2>4, <2>5
<1>6. Total(s) = g[n]
  <2> HIDE DEF g, s
  <2>. QED BY <1>2, <1>4, <1>5, TotalIs
<1>7. Total(a) = f[n]
  BY <1>1, <1>3, TotalIs
<1>8. g[n] = Separators(n) + f[n]
  <2>1. f[n] \in Nat
    BY <1>3
  <2>2. CASE n = 0
    BY <2>1, <2>2 DEF Separators
  <2>3. CASE n # 0
    <3>1. g[n] = f[n] + 2 * (n - 1)
      BY <2>3
    <3>. QED BY <2>1, <2>3, <3>1 DEF Separators
  <2>. QED BY <2>2, <2>3
<1>. QED BY <1>6, <1>7, <1>8, Zenon DEF s

LEMMA SeparatedLen ==
  ASSUME NEW n \in Nat, NEW ps \in [1..n -> Seq(Char)], NEW a \in [1..n -> Nat],
         \A i \in 1..n : Len(ps[i]) = a[i], NEW c \in Char, NEW d \in Char
  PROVE  /\ (<<c>> \o Separated(ps)) \o <<d>> \in Seq(Char)
         /\ Len((<<c>> \o Separated(ps)) \o <<d>>) = 2 + Separators(n) + Total(a)
<1> DEFINE ss == [i \in 1..n |-> IF i < n THEN ps[i] \o <<",", " ">> ELSE ps[i]]
           lens == [i \in DOMAIN ss |-> Len(ss[i])]
           e == <<",", " ">>
<1>1. DOMAIN ps = 1..n /\ Len(ps) = n /\ \A i \in 1..n : ps[i] \in Seq(Char)
  BY FunctionIsSeq
<1>2. Separated(ps) = FlattenSeq(ss)
  BY <1>1 DEF Separated
<1>3. e \in Seq(Char) /\ Len(e) = 2
  BY Words, Zenon
<1>4. ASSUME NEW i \in 1..n
      PROVE  ss[i] \in Seq(Char) /\ Len(ss[i]) = IF i < n THEN a[i] + 2 ELSE a[i]
  <2>1. CASE i < n
    <3> DEFINE p == ps[i]
    <3>1. ss[i] = p \o e /\ p \in Seq(Char) /\ Len(p) = a[i]
      BY <1>1, <2>1
    <3> HIDE DEF e, p, ss
    <3>2. p \o e \in Seq(Char) /\ Len(p \o e) = Len(p) + Len(e)
      BY <1>3, <3>1, ConcatProperties
    <3>. QED BY <1>3, <2>1, <3>1, <3>2
  <2>2. CASE ~(i < n)
    <3>1. ss[i] = ps[i]
      BY <2>2
    <3>. QED BY <1>1, <2>2, <3>1
  <2>. QED BY <2>1, <2>2
<1>5. DOMAIN ss = 1..n
  OBVIOUS
<1>6. ss \in [1..n -> Seq(Char)]
  <2>1. ss = [i \in 1..n |-> ss[i]]
    OBVIOUS
  <2> HIDE DEF ss
  <2>. QED BY <1>4, <2>1
<1> HIDE DEF ss, e
<1>7. lens = [i \in 1..n |-> IF i < n THEN a[i] + 2 ELSE a[i]]
  BY <1>4, <1>5
<1>8. Total(lens) = Separators(n) + Total(a)
  BY <1>7, TotalSeparated
<1>9. ss \in Seq(Seq(Char))
  BY <1>6, FunctionIsSeq
<1>10. /\ (<<c>> \o FlattenSeq(ss)) \o <<d>> \in Seq(Char)
       /\ Len((<<c>> \o FlattenSeq(ss)) \o <<d>>) = 2 + Total(lens)
  BY <1>9, Enclosed
<1> HIDE DEF lens
<1>11. Separators(n) \in Int /\ Total(a) \in Nat
  <2>1. Separators(n) \in Int
    BY DEF Separators
  <2>2. a \in Seq(Nat)
    BY FunctionIsSeq
  <2>. QED BY <2>1, <2>2, TotalIsNat
<1>12. 2 + (Separators(n) + Total(a)) = 2 + Separators(n) + Total(a)
  BY <1>11
<1>. QED BY <1>2, <1>8, <1>10, <1>12, Zenon

LEMMA ListPrintMeasured ==
  ASSUME NEW V, NEW g, NEW z, Measures(g, z, V, Char), NEW vs \in Seq(V)
  PROVE  /\ ListPrint(g, vs) \in Seq(Char)
         /\ Len(ListPrint(g, vs)) =
              2 + Separators(Len(vs)) + Total([i \in DOMAIN vs |-> z[vs[i]]])
<1> DEFINE n == Len(vs)
           ps == [i \in DOMAIN vs |-> g[vs[i]]]
           a == [i \in DOMAIN vs |-> z[vs[i]]]
<1>1. n \in Nat /\ DOMAIN vs = 1..n /\ \A i \in 1..n : vs[i] \in V
  OBVIOUS
<1>2. \A b \in V : g[b] \in Seq(Char) /\ Len(g[b]) = z[b] /\ z[b] \in Nat
  BY LenProperties DEF Measures
<1> HIDE DEF n
<1>3. ps \in [1..n -> Seq(Char)] /\ a \in [1..n -> Nat] /\ \A i \in 1..n : Len(ps[i]) = a[i]
  BY <1>1, <1>2
<1>4. ListPrint(g, vs) = (<<"[">> \o Separated(ps)) \o <<"]">>
  BY DEF ListPrint
<1>5. "[" \in Char /\ "]" \in Char
  BY DEF Char
<1> HIDE DEF ps, a
<1>6. /\ (<<"[">> \o Separated(ps)) \o <<"]">> \in Seq(Char)
      /\ Len((<<"[">> \o Separated(ps)) \o <<"]">>) = 2 + Separators(n) + Total(a)
  BY <1>1, <1>3, <1>5, SeparatedLen
<1>. QED BY <1>4, <1>6, Zenon DEF a, n

LEMMA PieceLen ==
  ASSUME NEW t \in Seq(Char), NEW u \in Seq(Char)
  PROVE  /\ (t \o <<":", " ">>) \o u \in Seq(Char)
         /\ Len((t \o <<":", " ">>) \o u) = Len(t) + 2 + Len(u)
<1> DEFINE e == <<":", " ">>
<1>1. e \in Seq(Char)
  BY Words, Zenon
<1>3. Len(e) = 2
  BY Words, Zenon
<1> HIDE DEF e
<1>2. /\ (t \o e) \o u \in Seq(Char)
      /\ Len((t \o e) \o u) = Len(t) + Len(e) + Len(u)
  BY <1>1, Concat3
<1>. QED BY <1>2, <1>3, Zenon DEF e

LEMMA DictPrintMeasured ==
  ASSUME NEW V, AllKeys \subseteq V, NEW g, NEW z, Measures(g, z, V, Char),
         NEW b, IsDictOf(b, V)
  PROVE  /\ DictPrint(g, Sorted(b)) \in Seq(Char)
         /\ Len(DictPrint(g, Sorted(b))) =
              2 + Separators(Len(b.keys))
                + Total([i \in DOMAIN b.keys |-> z[b.keys[i]] + 2 + z[b.values[i]]])
<1> DEFINE ks == b.keys
           vs == b.values
           n == Len(ks)
           s == Sorted(b)
           ps == [i \in DOMAIN s |-> Piece(g, s[i])]
           a == [i \in 1..n |-> z[ks[i]] + 2 + z[vs[i]]]
<1>1. /\ n \in Nat /\ DOMAIN ks = 1..n
      /\ \A i \in 1..n : ks[i] \in AllKeys /\ ks[i] \in V /\ vs[i] \in V
  <2>1. ks \in Seq(AllKeys) /\ vs \in Seq(V) /\ Len(ks) = Len(vs)
    BY DEF IsDictOf
  <2> HIDE DEF ks, vs
  <2>. QED BY <2>1
<1>2. PICK p : InOrder(p, ks, n) /\ s = [i \in 1..n |-> <<ks[p[i]], vs[p[i]]>>]
  <2>1. b.keys \in Seq(AllKeys) /\ Len(b.keys) = n
    BY DEF IsDictOf
  <2>2. \E p : /\ InOrder(p, b.keys, n)
               /\ Sorted(b) = [i \in 1..n |-> <<b.keys[p[i]], b.values[p[i]]>>]
    <3> HIDE DEF n
    <3>. QED BY <1>1, <2>1, SortedIs
  <2>. QED BY <2>2
<1>3. DictPrint(g, s) = (<<"{">> \o Separated(ps)) \o <<"}">>
  BY DEF DictPrint
<1>4. ps = [i \in DOMAIN s |-> Piece(g, s[i])]
  OBVIOUS
<1> HIDE DEF ks, vs, n, s, ps
<1>5. p \in Bijection(1..n, 1..n) /\ \A i \in 1..n : p[i] \in 1..n
  <2>1. p \in Bijection(1..n, 1..n) /\ n \in Nat
    BY <1>1, <1>2 DEF InOrder
  <2>2. p \in [1..n -> 1..n]
    BY <2>1, BijectionIs
  <2>. QED BY <2>1, <2>2
<1>6. DOMAIN s = 1..n /\ \A i \in 1..n : s[i][1] = ks[p[i]] /\ s[i][2] = vs[p[i]]
  BY <1>2
<1>7. \A b1 \in V : g[b1] \in Seq(Char) /\ Len(g[b1]) = z[b1] /\ z[b1] \in Nat
  BY LenProperties DEF Measures
<1>8. ASSUME NEW i \in 1..n
      PROVE  ps[i] \in Seq(Char) /\ Len(ps[i]) = a[p[i]]
  <2> DEFINE x == ks[p[i]]
             y == vs[p[i]]
  <2>1. p[i] \in 1..n /\ ps[i] = (g[x] \o <<":", " ">>) \o g[y] /\ a[p[i]] = z[x] + 2 + z[y]
    BY <1>4, <1>5, <1>6 DEF Piece
  <2>2. x \in V /\ y \in V
    BY <1>1, <1>5
  <2> HIDE DEF x, y, a
  <2>4. /\ g[x] \in Seq(Char) /\ g[y] \in Seq(Char)
        /\ Len(g[x]) = z[x] /\ Len(g[y]) = z[y]
    BY <1>7, <2>2
  <2>. QED BY <2>1, <2>4, PieceLen, Zenon
<1>9. a \in [1..n -> Nat]
  BY <1>1, <1>7
<1>10. a = [i \in DOMAIN ks |-> z[ks[i]] + 2 + z[vs[i]]]
  BY <1>1
<1> HIDE DEF a
<1> DEFINE c == [i \in 1..n |-> a[p[i]]]
<1>11. ps \in [1..n -> Seq(Char)] /\ c \in [1..n -> Nat] /\ \A i \in 1..n : Len(ps[i]) = c[i]
  BY <1>4, <1>5, <1>6, <1>8, <1>9
<1>14. Total(c) = Total(a)
  BY <1>1, <1>5, <1>9, TotalPermuted
<1>15. "{" \in Char /\ "}" \in Char
  BY DEF Char
<1> HIDE DEF c
<1>16. /\ (<<"{">> \o Separated(ps)) \o <<"}">> \in Seq(Char)
       /\ Len((<<"{">> \o Separated(ps)) \o <<"}">>) = 2 + Separators(n) + Total(c)
  BY <1>1, <1>11, <1>15, SeparatedLen
<1>18. Len(DictPrint(g, s)) = 2 + Separators(n) + Total(a) /\ DictPrint(g, s) \in Seq(Char)
  BY <1>3, <1>14, <1>16, Zenon
<1>. QED BY <1>10, <1>18, Zenon DEF ks, vs, s, n

(* The assertion of ben_print. *)
LEMMA PrintMeasured == \A n \in Nat : Measures(Prints[n], PrintSizes[n], Nested[n], Char)
<1> DEFINE E == {n \in Nat : Measures(Prints[n], PrintSizes[n], Nested[n], Char)}
<1>1. 0 \in E
  BY NestedIs, PrintsAre, PrintSizesAre, SimplePrintType DEF Measures
<1>2. ASSUME NEW n \in Nat, n \in E PROVE n + 1 \in E
  <2>0. Measures(Prints[n], PrintSizes[n], Nested[n], Char) /\ AllKeys \subseteq Nested[n]
    BY <1>2, SimpleNested
  <2> SUFFICES ASSUME NEW b \in Nested[n + 1]
               PROVE  /\ Prints[n + 1][b] \in Seq(Char)
                      /\ Len(Prints[n + 1][b]) = PrintSizes[n + 1][b]
    BY DEF Measures
  <2>1. /\ Prints[n + 1][b] = PrintWith(Prints[n], b)
        /\ PrintSizes[n + 1][b] = PrintedSizeWith(PrintSizes[n], b)
    BY PrintsAre, PrintSizesAre
  <2>2. CASE b \in Simple
    <3>1. /\ Prints[n + 1][b] = PrintWith(<<>>, b)
          /\ PrintSizes[n + 1][b] = PrintedSizeWith(<<>>, b)
      BY <2>1, <2>2, SimplePrint
    <3>. QED BY <2>2, <3>1, SimplePrintType
  <2>3. CASE IsListOf(b, Nested[n])
    <3> DEFINE vs == b.values
    <3>1. b.type = "list" /\ vs \in Seq(Nested[n])
      BY <2>3 DEF IsListOf
    <3>2. /\ PrintWith(Prints[n], b) = ListPrint(Prints[n], vs)
          /\ PrintedSizeWith(PrintSizes[n], b) =
               2 + Separators(Len(vs)) + Total([i \in DOMAIN vs |-> PrintSizes[n][vs[i]]])
      BY <3>1, PrintOf
    <3> HIDE DEF vs
    <3>3. /\ ListPrint(Prints[n], vs) \in Seq(Char)
          /\ Len(ListPrint(Prints[n], vs)) =
               2 + Separators(Len(vs)) + Total([i \in DOMAIN vs |-> PrintSizes[n][vs[i]]])
      BY <2>0, <3>1, ListPrintMeasured
    <3>. QED BY <2>1, <3>2, <3>3, Zenon
  <2>4. CASE IsDictOf(b, Nested[n])
    <3>1. b.type = "dict"
      BY <2>4 DEF IsDictOf
    <3> DEFINE size == 2 + Separators(Len(b.keys))
                         + Total([i \in DOMAIN b.keys |->
                                   PrintSizes[n][b.keys[i]] + 2 + PrintSizes[n][b.values[i]]])
    <3>2. /\ PrintWith(Prints[n], b) = DictPrint(Prints[n], Sorted(b))
          /\ PrintedSizeWith(PrintSizes[n], b) = size
      BY <3>1, PrintOf
    <3>3. /\ DictPrint(Prints[n], Sorted(b)) \in Seq(Char)
          /\ Len(DictPrint(Prints[n], Sorted(b))) = size
      BY <2>0, <2>4, DictPrintMeasured
    <3>. QED BY <2>1, <3>2, <3>3, Zenon
  <2>. QED BY <2>2, <2>3, <2>4, NestedParts
<1>3. Nat \subseteq E
  <2> HIDE DEF E
  <2>. QED BY <1>1, <1>2, NatSetInduction
<1>. QED BY <1>3

LEMMA PrintedLen ==
  ASSUME NEW b \in Nested[MaxDepth]
  PROVE  Len(Printed(b)) = PrintedSize(b)
<1>1. MaxDepth \in Nat
  BY BencodeAssumption
<1>. QED BY <1>1, PrintMeasured, PrintsAre, PrintSizesAre DEF Measures

-----------------------------------------------------------------------------
(* What is written of a value does not depend on the depth allowed.        *)

(* Functions that agree on V write the same of containers of V. *)
LEMMA SameText ==
  ASSUME NEW V, NEW g, NEW h, \A b \in V : g[b] = h[b], AllKeys \subseteq V, NEW b,
         IsListOf(b, V) \/ IsDictOf(b, V)
  PROVE  SerializeWith(g, b) = SerializeWith(h, b)
<1>1. CASE IsListOf(b, V)
  <2> DEFINE vs == b.values
  <2>1. b.type = "list" /\ vs \in Seq(V)
    BY <1>1 DEF IsListOf
  <2>2. SerializeWith(g, b) = ListText(g, vs) /\ SerializeWith(h, b) = ListText(h, vs)
    BY <2>1, TextOf
  <2> HIDE DEF vs
  <2>3. \A i \in DOMAIN vs : g[vs[i]] = h[vs[i]]
    BY <2>1
  <2>4. [i \in DOMAIN vs |-> g[vs[i]]] = [i \in DOMAIN vs |-> h[vs[i]]]
    BY <2>3
  <2>. QED BY <2>2, <2>4, Zenon DEF ListText
<1>2. CASE IsDictOf(b, V)
  <2> DEFINE s == Sorted(b)
  <2>1. b.type = "dict"
    BY <1>2 DEF IsDictOf
  <2>2. SerializeWith(g, b) = DictText(g, s) /\ SerializeWith(h, b) = DictText(h, s)
    BY <2>1, TextOf
  <2>3. \A i \in DOMAIN s : s[i][1] \in V /\ s[i][2] \in V
    <3>1. DOMAIN s = 1..Len(b.keys)
          /\ \A i \in 1..Len(b.keys) : s[i][1] \in AllKeys /\ s[i][2] \in V
      BY <1>2, SortedParts
    <3>. QED BY <3>1
  <2> HIDE DEF s
  <2>4. [i \in DOMAIN s |-> g[s[i][1]] \o g[s[i][2]]] = [i \in DOMAIN s |-> h[s[i][1]] \o h[s[i][2]]]
    BY <2>3
  <2>. QED BY <2>2, <2>4, Zenon DEF DictText
<1>. QED BY <1>1, <1>2

LEMMA TextsAgree == \A n \in Nat : \A b \in Nested[n] : Texts[n + 1][b] = Texts[n][b]
<1> DEFINE E == {n \in Nat : \A b \in Nested[n] : Texts[n + 1][b] = Texts[n][b]}
<1>1. 0 \in E
  <2> SUFFICES ASSUME NEW b \in Nested[0] PROVE Texts[0 + 1][b] = Texts[0][b]
    OBVIOUS
  <2>1. b \in Simple /\ b \in Nested[0 + 1] /\ 0 \in Nat
    BY NestedIs, NestedGrows
  <2>. QED BY <2>1, TextsAre, SimpleText
<1>2. ASSUME NEW n \in Nat, n \in E PROVE n + 1 \in E
  <2> DEFINE m == n + 1
  <2>0. m \in Nat /\ AllKeys \subseteq Nested[n] /\ \A b \in Nested[n] : Texts[m][b] = Texts[n][b]
    BY <1>2, SimpleNested
  <2> SUFFICES ASSUME NEW b \in Nested[m] PROVE Texts[m + 1][b] = Texts[m][b]
    BY <2>0
  <2>1. Texts[m + 1][b] = SerializeWith(Texts[m], b)
    BY <2>0, NestedGrows, TextsAre
  <2>2. Texts[m][b] = SerializeWith(Texts[n], b)
    BY TextsAre
  <2>3. CASE b \in Simple
    BY <2>1, <2>2, <2>3, SimpleText
  <2>4. CASE IsListOf(b, Nested[n]) \/ IsDictOf(b, Nested[n])
    <3> HIDE DEF m
    <3>1. SerializeWith(Texts[m], b) = SerializeWith(Texts[n], b)
      BY <2>0, <2>4, SameText
    <3>. QED BY <2>1, <2>2, <3>1
  <2>. QED BY <2>3, <2>4, NestedParts
<1>3. Nat \subseteq E
  <2> HIDE DEF E
  <2>. QED BY <1>1, <1>2, NatSetInduction
<1>. QED BY <1>3

LEMMA SerializeAt ==
  ASSUME NEW n \in 0..MaxDepth, NEW b \in Nested[n]
  PROVE  Serialize(b) = Texts[n][b] /\ Serialize(b) \in Seq(Octet)
<1>1. n \in Nat /\ MaxDepth \in Nat /\ n <= MaxDepth
  BY BencodeAssumption
<1> DEFINE E == {k \in Nat : Texts[n + k][b] = Texts[n][b]}
<1>2. 0 \in E
  BY <1>1
<1>3. ASSUME NEW k \in Nat, k \in E PROVE k + 1 \in E
  <2>1. n + k \in Nat /\ n <= n + k /\ (n + k) + 1 = n + (k + 1)
    BY <1>1
  <2>2. b \in Nested[n + k]
    BY <1>1, <2>1, NestedMonotone
  <2>3. Texts[(n + k) + 1][b] = Texts[n + k][b]
    BY <2>1, <2>2, TextsAgree
  <2>4. Texts[n + (k + 1)][b] = Texts[n + k][b]
    BY <2>1, <2>3, Zenon
  <2>. QED BY <1>3, <2>4
<1>4. Nat \subseteq E
  <2> HIDE DEF E
  <2>. QED BY <1>2, <1>3, NatSetInduction
<1>5. MaxDepth - n \in Nat /\ n + (MaxDepth - n) = MaxDepth
  BY <1>1
<1>6. MaxDepth - n \in E
  BY <1>4, <1>5
<1>7. Texts[MaxDepth][b] = Texts[n][b]
  BY <1>5, <1>6
<1>8. Texts[n][b] \in Seq(Octet)
  BY <1>1, TextMeasured DEF Measures
<1>. QED BY <1>7, <1>8, TextsAre

LEMMA SerializeSimple ==
  ASSUME NEW b \in Simple
  PROVE  Serialize(b) = SerializeWith(<<>>, b) /\ Serialize(b) \in Seq(Octet)
<1>1. 0 \in 0..MaxDepth /\ b \in Nested[0]
  BY BencodeAssumption, NestedIs
<1>. QED BY <1>1, SerializeAt, TextsAre

LEMMA SerializeBool ==
  ASSUME NEW x \in BOOLEAN
  PROVE  /\ Serialize(BenBool(x)) = <<"b", IF x THEN "1" ELSE "0">>
         /\ Serialize(BenBool(x)) \in Seq(Octet)
<1> DEFINE b == BenBool(x)
<1>1. b \in Simple /\ b.type = "bool" /\ b.b = x
  BY DEF BenBool, Simple
<1> HIDE DEF b
<1>2. SerializeWith(<<>>, b) = <<"b", IF x THEN "1" ELSE "0">>
  BY <1>1 DEF SerializeWith
<1>. QED BY <1>1, <1>2, SerializeSimple DEF b

LEMMA SerializeInt ==
  ASSUME NEW n \in Int
  PROVE  /\ Serialize(BenInt(n)) = (<<"i">> \o Numeral(n)) \o <<"e">>
         /\ Serialize(BenInt(n)) \in Seq(Octet)
<1> DEFINE b == BenInt(n)
<1>1. b \in Simple /\ b.type = "int" /\ b.ll = n
  BY DEF BenInt, Simple, AllKeys, IntKeys
<1> HIDE DEF b
<1>2. SerializeWith(<<>>, b) = (<<"i">> \o Numeral(n)) \o <<"e">>
  BY <1>1 DEF SerializeWith
<1>. QED BY <1>1, <1>2, SerializeSimple DEF b

LEMMA SerializeStr ==
  ASSUME NEW s \in Seq(Octet)
  PROVE  /\ Serialize(BenStr(s)) = (Numeral(Len(s)) \o <<":">>) \o s
         /\ Serialize(BenStr(s)) \in Seq(Octet)
<1> DEFINE b == BenStr(s)
<1>1. b \in Simple /\ b.type = "str" /\ b.s = s
  BY DEF BenStr, Simple, AllKeys, StrKeys
<1> HIDE DEF b
<1>2. SerializeWith(<<>>, b) = (Numeral(Len(s)) \o <<":">>) \o s
  BY <1>1 DEF SerializeWith
<1>. QED BY <1>1, <1>2, SerializeSimple DEF b

LEMMA SerializeList ==
  ASSUME NEW n \in 0..(MaxDepth - 1), NEW vs \in Seq(Nested[n])
  PROVE  /\ [i \in DOMAIN vs |-> Serialize(vs[i])] \in Seq(Seq(Octet))
         /\ Serialize(BenList(vs)) =
              (<<"l">> \o FlattenSeq([i \in DOMAIN vs |-> Serialize(vs[i])])) \o <<"e">>
         /\ Serialize(BenList(vs)) \in Seq(Octet)
<1> DEFINE b == BenList(vs)
           k == Len(vs)
           ss == [i \in DOMAIN vs |-> Serialize(vs[i])]
<1>1. n \in Nat /\ n \in 0..MaxDepth /\ n + 1 \in 0..MaxDepth /\ MaxDepth \in Nat
  BY BencodeAssumption
<1>2. b \in Nested[n + 1] /\ b.type = "list" /\ b.values = vs
  <2>1. b \in Nested[n + 1]
    BY <1>1, ListNested
  <2>. QED BY <2>1 DEF BenList
<1>3. k \in Nat /\ DOMAIN vs = 1..k /\ \A i \in 1..k : vs[i] \in Nested[n]
  OBVIOUS
<1> HIDE DEF b, k
<1>4. \A i \in 1..k : Serialize(vs[i]) = Texts[n][vs[i]] /\ Serialize(vs[i]) \in Seq(Octet)
  BY <1>1, <1>3, SerializeAt
<1>5. ss = [i \in DOMAIN vs |-> Texts[n][vs[i]]] /\ ss \in [1..k -> Seq(Octet)]
  BY <1>3, <1>4
<1>6. Serialize(b) = Texts[n + 1][b] /\ Serialize(b) \in Seq(Octet)
  BY <1>1, <1>2, SerializeAt
<1>7. Texts[n + 1][b] = SerializeWith(Texts[n], b)
  BY <1>1, <1>2, TextsAre
<1>8. SerializeWith(Texts[n], b) = ListText(Texts[n], vs)
  BY <1>2, TextOf
<1> HIDE DEF ss
<1>9. ListText(Texts[n], vs) = (<<"l">> \o FlattenSeq(ss)) \o <<"e">>
  BY <1>5, Zenon DEF ListText
<1>10. ss \in Seq(Seq(Octet))
  BY <1>3, <1>5, FunctionIsSeq
<1>. QED BY <1>6, <1>7, <1>8, <1>9, <1>10, Zenon DEF b, ss

LEMMA SerializeDict ==
  ASSUME NEW n \in 0..(MaxDepth - 1), NEW b, IsDictOf(b, Nested[n])
  PROVE  LET ss == [i \in DOMAIN Sorted(b) |->
                      Serialize(Sorted(b)[i][1]) \o Serialize(Sorted(b)[i][2])]
         IN  /\ ss \in Seq(Seq(Octet))
             /\ Serialize(b) = (<<"d">> \o FlattenSeq(ss)) \o <<"e">>
             /\ Serialize(b) \in Seq(Octet)
<1> DEFINE s == Sorted(b)
           k == Len(b.keys)
           ss == [i \in DOMAIN s |-> Serialize(s[i][1]) \o Serialize(s[i][2])]
<1>1. n \in Nat /\ n \in 0..MaxDepth /\ n + 1 \in 0..MaxDepth /\ MaxDepth \in Nat
  BY BencodeAssumption
<1>2. b \in Nested[n + 1] /\ b.type = "dict"
  <2>1. /\ b = BenDict(b.keys, b.values) /\ b.keys \in Seq(AllKeys) /\ b.type = "dict"
        /\ b.values \in Seq(Nested[n]) /\ Len(b.keys) = Len(b.values)
    BY DEF IsDictOf
  <2> DEFINE ks == b.keys
             vs == b.values
  <2>2. ks \in Seq(AllKeys) /\ vs \in Seq(Nested[n]) /\ Len(ks) = Len(vs)
    BY <2>1
  <2> HIDE DEF ks, vs
  <2>3. BenDict(ks, vs) \in Nested[n + 1]
    BY <1>1, <2>2, DictNested
  <2>. QED BY <2>1, <2>3 DEF ks, vs
<1>3. k \in Nat /\ DOMAIN s = 1..k /\ \A i \in 1..k : s[i][1] \in Nested[n] /\ s[i][2] \in Nested[n]
  <2>1. b.keys \in Seq(AllKeys) /\ AllKeys \subseteq Nested[n]
    BY <1>1, SimpleNested DEF IsDictOf
  <2>2. DOMAIN s = 1..k /\ \A i \in 1..k : s[i][1] \in AllKeys /\ s[i][2] \in Nested[n]
    BY SortedParts
  <2>3. k \in Nat
    BY <2>1, LenProperties
  <2>. QED BY <2>1, <2>2, <2>3
<1>4. \A x \in Nested[n] : Serialize(x) = Texts[n][x] /\ Serialize(x) \in Seq(Octet)
  BY <1>1, SerializeAt
<1> HIDE DEF s, k
<1>5. ss = [i \in DOMAIN s |-> Texts[n][s[i][1]] \o Texts[n][s[i][2]]]
  BY <1>3, <1>4
<1>6. ss \in [1..k -> Seq(Octet)]
  <2>1. ASSUME NEW i \in 1..k
        PROVE  Serialize(s[i][1]) \o Serialize(s[i][2]) \in Seq(Octet)
    <3> DEFINE x == Serialize(s[i][1])
               y == Serialize(s[i][2])
    <3>1. x \in Seq(Octet) /\ y \in Seq(Octet)
      BY <1>3, <1>4
    <3> HIDE DEF x, y
    <3>2. x \o y \in Seq(Octet)
      BY <3>1, ConcatIsSeq
    <3>. QED BY <3>2 DEF x, y
  <2>. QED BY <1>3, <2>1
<1>7. Serialize(b) = Texts[n + 1][b] /\ Serialize(b) \in Seq(Octet)
  BY <1>1, <1>2, SerializeAt
<1>8. Texts[n + 1][b] = SerializeWith(Texts[n], b)
  BY <1>1, <1>2, TextsAre
<1>9. SerializeWith(Texts[n], b) = DictText(Texts[n], s)
  BY <1>2, TextOf DEF s
<1> HIDE DEF ss
<1>10. DictText(Texts[n], s) = (<<"d">> \o FlattenSeq(ss)) \o <<"e">>
  BY <1>5, Zenon DEF DictText
<1>11. ss \in Seq(Seq(Octet))
  BY <1>3, <1>6, FunctionIsSeq
<1>. QED BY <1>7, <1>8, <1>9, <1>10, <1>11, Zenon DEF s, ss

-----------------------------------------------------------------------------
(* Numbers as they are read. *)

LEMMA NumberIs ==
  ASSUME NEW s \in Seq(Figure), NEW f, f[0] = 0,
         \A n \in 1..Len(s) : f[n] = 10 * f[n - 1] + DigitOf[s[n]]
  PROVE  Number(s) = f[Len(s)]
<1> DEFINE n == Len(s)
           Good(g) == g = [k \in 0..n |-> IF k = 0 THEN 0 ELSE 10 * g[k - 1] + DigitOf[s[k]]]
           h == [i \in 0..n |-> f[i]]
<1>1. n \in Nat
  OBVIOUS
<1>2. Number(s) = (CHOOSE g : Good(g))[n]
  BY DEF Number
<1>3. \A i \in 1..n : f[i] = 10 * f[i - 1] + DigitOf[s[i]]
  OBVIOUS
<1> HIDE DEF n
<1>4. Good(h)
  <2>1. ASSUME NEW i \in 0..n PROVE h[i] = IF i = 0 THEN 0 ELSE 10 * h[i - 1] + DigitOf[s[i]]
    <3>1. i # 0 => i \in 1..n /\ i - 1 \in 0..n
      BY <1>1
    <3>. QED BY <1>3, <3>1
  <2>2. h = [i \in 0..n |-> h[i]]
    OBVIOUS
  <2> HIDE DEF h
  <2>. QED BY <2>1, <2>2
<1>5. Good(CHOOSE g : Good(g))
  <2> HIDE DEF Good
  <2>. QED BY <1>4
<1>6. ASSUME NEW g, Good(g) PROVE g[n] = f[n]
  <2> DEFINE E == {k \in Nat : k <= n => g[k] = f[k]}
  <2>1. \A i \in 0..n : g[i] = IF i = 0 THEN 0 ELSE 10 * g[i - 1] + DigitOf[s[i]]
    BY <1>6
  <2> HIDE DEF Good
  <2>2. 0 \in E
    BY <1>1, <2>1
  <2>3. ASSUME NEW k \in Nat, k \in E PROVE k + 1 \in E
    <3>1. k + 1 <= n => k + 1 \in 0..n /\ k + 1 \in 1..n /\ k <= n /\ (k + 1) - 1 = k
      BY <1>1
    <3>. QED BY <1>3, <2>1, <2>3, <3>1
  <2>4. Nat \subseteq E
    <3> HIDE DEF E
    <3>. QED BY <2>2, <2>3, NatSetInduction
  <2>. QED BY <1>1, <2>4
<1>. QED BY <1>2, <1>5, <1>6 DEF n

LEMMA Numbered ==
  ASSUME NEW s \in Seq(Figure)
  PROVE  \E f : f \in [Nat -> Nat] /\ f[0] = 0
                /\ \A n \in 1..Len(s) : f[n] = 10 * f[n - 1] + DigitOf[s[n]]
<1> DEFINE G == [n \in Nat |-> [x \in Nat |->
                  IF n + 1 \in 1..Len(s) THEN 10 * x + DigitOf[s[n + 1]] ELSE x]]
<1>1. G \in [Nat -> [Nat -> Nat]]
  <2>1. \A i \in 1..Len(s) : DigitOf[s[i]] \in Nat
    <3>1. \A i \in 1..Len(s) : s[i] \in Figure
      OBVIOUS
    <3>2. \A c \in Figure : DigitOf[c] \in Nat
      BY DigitsAre
    <3>. QED BY <3>1, <3>2
  <2>. QED BY <2>1
<1>2. PICK f : f \in [Nat -> Nat] /\ Obeys(f, 0, G)
  <2> HIDE DEF G
  <2>. QED BY <1>1, StepByStep
<1>3. ASSUME NEW n \in 1..Len(s) PROVE f[n] = 10 * f[n - 1] + DigitOf[s[n]]
  <2>1. n - 1 \in Nat /\ (n - 1) + 1 = n
    OBVIOUS
  <2>2. f[n] = G[n - 1][f[n - 1]] /\ f[n - 1] \in Nat
    BY <1>2, <2>1 DEF Obeys
  <2>. QED BY <2>1, <2>2
<1>. QED BY <1>2, <1>3 DEF Obeys

LEMMA NumberAppend ==
  ASSUME NEW s \in Seq(Figure), NEW c \in Figure
  PROVE  /\ Number(s) \in Nat
         /\ Number(Append(s, c)) = 10 * Number(s) + DigitOf[c]
<1> DEFINE a == Append(s, c)
           n == Len(s)
<1>1. /\ a \in Seq(Figure) /\ Len(a) = n + 1 /\ n \in Nat
      /\ (\A i \in 1..n : a[i] = s[i]) /\ a[n + 1] = c
  BY AppendProperties
<1> HIDE DEF a
<1>2. PICK f : /\ f \in [Nat -> Nat] /\ f[0] = 0
               /\ \A i \in 1..Len(a) : f[i] = 10 * f[i - 1] + DigitOf[a[i]]
  BY <1>1, Numbered
<1>3. Number(a) = f[n + 1]
  BY <1>1, <1>2, NumberIs
<1>4. f[n + 1] = 10 * f[n] + DigitOf[c]
  <2>1. n + 1 \in 1..Len(a) /\ (n + 1) - 1 = n
    BY <1>1
  <2>. QED BY <1>1, <1>2, <2>1
<1>5. Number(s) = f[n]
  <2>1. \A i \in 1..n : f[i] = 10 * f[i - 1] + DigitOf[s[i]]
    <3> TAKE i \in 1..n
    <3>1. i \in 1..Len(a) /\ a[i] = s[i]
      BY <1>1
    <3>. QED BY <1>2, <3>1
  <2>. QED BY <1>2, <2>1, NumberIs
<1>6. f[n] \in Nat
  BY <1>1, <1>2
<1>. QED BY <1>3, <1>4, <1>5, <1>6, Zenon DEF a

LEMMA NumberEmpty == Number(<<>>) = 0
<1> DEFINE s == <<>>
           f == [n \in Nat |-> 0]
<1>1. s \in Seq(Figure) /\ Len(s) = 0 /\ f[0] = 0 /\ \A n \in 1..Len(s) : FALSE
  OBVIOUS
<1> HIDE DEF s, f
<1>2. Number(s) = f[Len(s)]
  BY <1>1, NumberIs
<1>. QED BY <1>1, <1>2 DEF s

LEMMA TenTimes ==
  ASSUME NEW m \in Nat, NEW d \in 0..9
  PROVE  (10 * m + d) \div 10 = m /\ (10 * m + d) % 10 = d
<1> DEFINE n == 10 * m + d
           q == n \div 10
           r == n % 10
<1>1. n \in Nat
  OBVIOUS
<1>2. q \in Nat /\ r \in 0..9 /\ n = 10 * q + r
  BY <1>1, Tenth
<1>3. n = 10 * m + d
  OBVIOUS
<1> HIDE DEF n, q, r
<1>4. q = m /\ r = d
  BY <1>2, <1>3
<1>. QED BY <1>4 DEF n, q, r

(* Figures without a zero before them are what is written for the number   *)
(* they are.                                                               *)
LEMMA DecimalNumber ==
  \A k \in Nat : \A s \in Seq(Figure) :
    Len(s) = k + 1 /\ (s[1] = "0" => k = 0) =>
      Decimal[Number(s)] = s /\ (s[1] # "0" => Number(s) >= 1)
<1> DEFINE Good(k, s) == Len(s) = k + 1 /\ (s[1] = "0" => k = 0) =>
                           Decimal[Number(s)] = s /\ (s[1] # "0" => Number(s) >= 1)
           E == {k \in Nat : \A s \in Seq(Figure) : Good(k, s)}
<1>1. ASSUME NEW s \in Seq(Figure), Len(s) = 1
      PROVE  Decimal[Number(s)] = s /\ (s[1] # "0" => Number(s) >= 1)
  <2> DEFINE c == s[1]
             d == DigitOf[c]
  <2>1. c \in Figure /\ s = <<c>> /\ s = Append(<<>>, c)
    BY <1>1
  <2>2. Number(s) = d
    <3>1. d \in Nat /\ <<>> \in Seq(Figure)
      BY <2>1, DigitsAre
    <3>2. Number(Append(<<>>, c)) = 10 * Number(<<>>) + DigitOf[c]
      BY <2>1, <3>1, NumberAppend
    <3> HIDE DEF c
    <3>. QED BY <2>1, <3>1, <3>2, NumberEmpty
  <2>3. d \in 0..9 /\ d \in Nat /\ Digits[d + 1] = c /\ (d = 0 => c = "0")
    BY <2>1, DigitsAre
  <2>4. Decimal[d] = <<Digits[d + 1]>>
    <3> HIDE DEF d
    <3>1. d \in Nat /\ d < 10
      BY <2>3
    <3>2. Decimal[d] = DecimalWith(Decimal, d)
      BY <3>1, DecimalIs
    <3>. QED BY <3>1, <3>2 DEF DecimalWith
  <2> HIDE DEF d
  <2>. QED BY <2>1, <2>2, <2>3, <2>4
<1>2. 0 \in E
  BY <1>1
<1>3. ASSUME NEW k \in Nat, k \in E PROVE k + 1 \in E
  <2> SUFFICES ASSUME NEW s \in Seq(Figure), Len(s) = (k + 1) + 1, s[1] = "0" => k + 1 = 0
               PROVE  Decimal[Number(s)] = s /\ (s[1] # "0" => Number(s) >= 1)
    OBVIOUS
  <2> DEFINE f == Front(s)
             c == s[Len(s)]
             d == DigitOf[c]
             m == Number(f)
  <2>1. f \in Seq(Figure) /\ Len(f) = k + 1 /\ f[1] = s[1] /\ s = Append(f, c) /\ c \in Figure
        /\ s = f \o <<c>>
    <3>1. s # <<>>
      OBVIOUS
    <3>2. f \in Seq(Figure) /\ Len(f) = k + 1 /\ \A i \in 1..(k + 1) : f[i] = s[i]
      BY <3>1, FrontLast
    <3>3. 1 \in 1..(k + 1)
      OBVIOUS
    <3>4. c \in Figure /\ s = Append(f, c)
      BY <3>1, FrontLast DEF Last
    <3> HIDE DEF f, c
    <3>6. Append(f, c) = f \o <<c>>
      BY <3>2, <3>4, AppendIsConcat
    <3>. QED BY <3>2, <3>3, <3>4, <3>6
  <2>2. s[1] # "0"
    OBVIOUS
  <2> HIDE DEF f, c
  <2>3. Decimal[m] = f /\ m >= 1
    BY <1>3, <2>1, <2>2
  <2>4. m \in Nat /\ Number(s) = 10 * m + d
    BY <2>1, NumberAppend
  <2>5. d \in 0..9 /\ Digits[d + 1] = c
    BY <2>1, DigitsAre
  <2> DEFINE n == 10 * m + d
  <2> HIDE DEF m, d
  <2>6. n \in Nat /\ ~(n < 10) /\ n >= 1
    BY <2>3, <2>4, <2>5
  <2>7. n \div 10 = m /\ n % 10 = d
    BY <2>4, <2>5, TenTimes
  <2> HIDE DEF n
  <2>8. Decimal[n] = Decimal[n \div 10] \o <<Digits[(n % 10) + 1]>>
    BY <2>6, DecimalIs DEF DecimalWith
  <2>9. Decimal[n] = s
    BY <2>1, <2>3, <2>5, <2>7, <2>8, Zenon
  <2>. QED BY <2>4, <2>6, <2>9 DEF n
<1>4. Nat \subseteq E
  <2> HIDE DEF E
  <2>. QED BY <1>2, <1>3, NatSetInduction
<1>. QED BY <1>4

(* A number that is well formed and all there is what is written for it.   *)
LEMMA NumeralLongLong ==
  ASSUME NEW s \in Seq(Octet), WellFormed(s), CString(s) = s
  PROVE  LongLong(s) \in Int /\ Numeral(LongLong(s)) = s
<1> DEFINE fs == Figures(s)
<1>1. /\ Len(s) >= 1 /\ Len(s) \in Nat /\ fs # <<>> /\ \A k \in DOMAIN fs : IsDigit(fs[k])
      /\ ~(s[1] = "-" /\ s[2] = "0") /\ (s[1] = "0" => Len(s) = 1)
  BY DEF WellFormed, IsLongLong
<1>2. s # <<>>
  BY <1>1
<1>3. CASE HasSign(s)
  <2>1. fs = Tail(s) /\ s[1] = "-" /\ LongLong(s) = -Number(fs)
    BY <1>3 DEF HasSign, Figures, LongLong
  <2>2. /\ Tail(s) \in Seq(Octet) /\ Len(Tail(s)) = Len(s) - 1
        /\ \A i \in 1..Len(Tail(s)) : Tail(s)[i] = s[i + 1]
    BY <1>2, HeadTailProperties
  <2> DEFINE n == Len(fs)
  <2>3. fs \in Seq(Octet) /\ n \in Nat /\ n # 0 /\ \A i \in 1..n : fs[i] = s[i + 1]
    BY <1>1, <2>1, <2>2
  <2>9. s = <<"-">> \o fs
    BY <1>2, <2>1
  <2> HIDE DEF fs
  <2>4. fs \in Seq(Figure)
    <3>1. DOMAIN fs = 1..n /\ fs \in [1..n -> Octet]
      BY <2>3
    <3> HIDE DEF n
    <3>2. \A i \in 1..n : fs[i] \in Figure
      BY <1>1, <3>1, DigitsAre
    <3>3. fs \in [1..n -> Figure]
      BY <3>1, <3>2
    <3>. QED BY <2>3, <3>3, FunctionIsSeq
  <2>5. fs[1] # "0"
    <3>1. 1 \in 1..n /\ 1 + 1 = 2
      BY <2>3
    <3>2. fs[1] = s[2]
      BY <2>3, <3>1
    <3>. QED BY <1>1, <2>1, <3>2
  <2> DEFINE m == Number(fs)
  <2>6. Decimal[m] = fs /\ m >= 1
    <3>1. n - 1 \in Nat /\ n = (n - 1) + 1
      BY <2>3
    <3>. QED BY <2>4, <2>5, <3>1, DecimalNumber
  <2>7. m \in Nat
    <3>1. "0" \in Figure
      BY DEF Figure
    <3>. QED BY <2>4, <3>1, NumberAppend
  <2> HIDE DEF m
  <2>8. -m < 0 /\ -(-m) = m /\ -m \in Int
    BY <2>6, <2>7
  <2>10. Numeral(-m) = <<"-">> \o Decimal[m]
    BY <2>8 DEF Numeral
  <2>. QED BY <2>1, <2>6, <2>8, <2>9, <2>10 DEF m
<1>4. CASE ~HasSign(s)
  <2>1. fs = s /\ LongLong(s) = Number(s)
    BY <1>4 DEF Figures, LongLong
  <2> DEFINE n == Len(s)
             m == Number(s)
  <2>2. n \in Nat /\ n # 0 /\ DOMAIN s = 1..n /\ s \in [1..n -> Octet]
    BY <1>1
  <2> HIDE DEF fs
  <2>3. s \in Seq(Figure)
    <3> HIDE DEF n
    <3>1. \A i \in 1..n : s[i] \in Figure
      BY <1>1, <2>1, <2>2, DigitsAre
    <3>2. s \in [1..n -> Figure]
      BY <2>2, <3>1
    <3>. QED BY <2>2, <3>2, FunctionIsSeq
  <2>4. Decimal[m] = s
    <3>1. n - 1 \in Nat /\ n = (n - 1) + 1 /\ (s[1] = "0" => n - 1 = 0)
      BY <1>1, <2>2
    <3>. QED BY <2>3, <3>1, DecimalNumber
  <2>5. m \in Nat
    <3>1. "0" \in Figure
      BY DEF Figure
    <3>. QED BY <2>3, <3>1, NumberAppend
  <2> HIDE DEF m
  <2>6. Numeral(m) = Decimal[m] /\ m \in Int
    BY <2>5 DEF Numeral
  <2>. QED BY <2>1, <2>4, <2>6 DEF m
<1>. QED BY <1>3, <1>4

-----------------------------------------------------------------------------
(* The octets of the containers that are being decoded.                    *)

(* The value at position i of a frame, with its key. *)
ItemText(f, i) ==
  (IF f.type = "dict" THEN Serialize(f.keys[i]) ELSE <<>>) \o Serialize(f.values[i])

Items(f) == [i \in DOMAIN f.values |-> ItemText(f, i)]

Initial(f) == IF f.type = "dict" THEN "d" ELSE "l"
Pending(f) == IF f.key = None THEN <<>> ELSE Serialize(f.key)

LEMMA FrameTextIs ==
  ASSUME NEW f
  PROVE  FrameText(f) = (<<Initial(f)>> \o FlattenSeq(Items(f))) \o Pending(f)
BY DEF FrameText, Initial, Items, ItemText, Pending

(* A frame whose values nest at most n deep. *)
TypedFrame(f, n) ==
  /\ IsFrame(f)
  /\ f.values \in Seq(Nested[n])
  /\ f.type = "list" => f.key = None

LEMMA KeyText ==
  ASSUME NEW k \in AllKeys
  PROVE  Serialize(k) \in Seq(Octet) /\ k # None
<1>1. k \in Simple
  BY DEF Simple
<1>2. k # None
  BY DEF AllKeys, IntKeys, StrKeys, None
<1>. QED BY <1>1, <1>2, SerializeSimple

LEMMA ItemsAre ==
  ASSUME NEW n \in 0..MaxDepth, NEW f, TypedFrame(f, n)
  PROVE  /\ Items(f) \in Seq(Seq(Octet)) /\ Len(Items(f)) = Len(f.values)
         /\ Len(f.values) \in Nat
         /\ \A i \in 1..Len(f.values) : Items(f)[i] = ItemText(f, i)
<1> DEFINE ks == f.keys
           vs == f.values
           m == Len(vs)
<1>1. /\ ks \in Seq(AllKeys) /\ vs \in Seq(Nested[n]) /\ m \in Nat /\ DOMAIN vs = 1..m
      /\ (f.type = "dict" => Len(ks) = m)
  BY DEF TypedFrame, IsFrame
<1> HIDE DEF ks, vs, m
<1>2. ASSUME NEW i \in 1..m PROVE ItemText(f, i) \in Seq(Octet)
  <2> DEFINE a == IF f.type = "dict" THEN Serialize(ks[i]) ELSE <<>>
             b == Serialize(vs[i])
  <2>1. b \in Seq(Octet)
    <3>1. vs[i] \in Nested[n]
      BY <1>1
    <3>. QED BY <3>1, SerializeAt
  <2>2. a \in Seq(Octet)
    <3>1. CASE f.type = "dict"
      <4>1. ks[i] \in AllKeys
        BY <1>1, <3>1
      <4>. QED BY <3>1, <4>1, KeyText
    <3>2. CASE f.type # "dict"
      BY <3>2
    <3>. QED BY <3>1, <3>2
  <2>3. ItemText(f, i) = a \o b
    BY DEF ItemText, ks, vs
  <2> HIDE DEF a, b
  <2>. QED BY <2>1, <2>2, <2>3, ConcatIsSeq
<1> DEFINE e == Items(f)
<1>3. e \in [1..m -> Seq(Octet)] /\ \A i \in 1..m : e[i] = ItemText(f, i)
  <2>1. e = [i \in 1..m |-> ItemText(f, i)]
    BY <1>1 DEF Items, vs
  <2> HIDE DEF e
  <2>. QED BY <1>2, <2>1
<1> HIDE DEF e
<1>4. e \in Seq(Seq(Octet)) /\ Len(e) = m
  BY <1>1, <1>3, FunctionIsSeq
<1>. QED BY <1>1, <1>3, <1>4 DEF e, m, vs

LEMMA PendingType ==
  ASSUME NEW f, IsFrame(f)
  PROVE  Pending(f) \in Seq(Octet)
<1>1. CASE f.key = None
  BY <1>1 DEF Pending
<1>2. CASE f.key # None
  <2>1. f.key \in AllKeys
    BY <1>2 DEF IsFrame
  <2>. QED BY <1>2, <2>1, KeyText DEF Pending
<1>. QED BY <1>1, <1>2

LEMMA InitialType ==
  ASSUME NEW f
  PROVE  Initial(f) \in Octet /\ <<Initial(f)>> \in Seq(Octet)
BY Letters DEF Initial

LEMMA FrameTextType ==
  ASSUME NEW n \in 0..MaxDepth, NEW f, TypedFrame(f, n)
  PROVE  FrameText(f) \in Seq(Octet)
<1>1. Items(f) \in Seq(Seq(Octet))
  BY ItemsAre
<1>2. FlattenSeq(Items(f)) \in Seq(Octet)
  BY <1>1, FlattenType
<1>3. Pending(f) \in Seq(Octet) /\ <<Initial(f)>> \in Seq(Octet)
  BY PendingType, InitialType DEF TypedFrame
<1>. QED BY <1>2, <1>3, FrameTextIs, Concat3

(* One item more. *)
LEMMA FlattenMore ==
  ASSUME NEW S, NEW e \in Seq(Seq(S)), NEW d \in Seq(Seq(S)), Len(d) = Len(e) + 1,
         \A i \in 1..Len(e) : d[i] = e[i]
  PROVE  d[Len(e) + 1] \in Seq(S) /\ FlattenSeq(d) = FlattenSeq(e) \o d[Len(e) + 1]
<1> DEFINE n == Len(e)
           x == d[n + 1]
           a == Append(e, x)
<1>1. n \in Nat /\ n + 1 \in 1..Len(d)
  OBVIOUS
<1>2. x \in Seq(S)
  BY <1>1, ElementOfSeq
<1> HIDE DEF x
<1>3. a \in Seq(Seq(S)) /\ Len(a) = n + 1 /\ (\A i \in 1..n : a[i] = e[i]) /\ a[n + 1] = x
  BY <1>2, AppendProperties
<1>4. d = a
  <2> HIDE DEF a
  <2>1. ASSUME NEW i \in 1..Len(d) PROVE d[i] = a[i]
    <3>1. i \in 1..n \/ i = n + 1
      BY <1>1
    <3>. QED BY <1>3, <3>1 DEF x
  <2>2. Len(d) = Len(a)
    BY <1>3
  <2> HIDE DEF n
  <2>. QED BY <1>3, <2>1, <2>2, SeqEqual
<1>5. FlattenSeq(a) = FlattenSeq(e) \o x
  BY <1>2, FlattenAppend
<1>. QED BY <1>2, <1>4, <1>5 DEF x

Joined(x, y, t) == x \o (y \o t) = (x \o y) \o t

LEMMA Associates ==
  ASSUME NEW S, NEW x \in Seq(S), NEW y \in Seq(S), NEW t \in Seq(S)
  PROVE  Joined(x, y, t)
BY ConcatAssociative DEF Joined

LEMMA Joining == \A x, y, t \in Seq(Octet) : Joined(x, y, t)
BY Associates

SameGrouped(a, b, p, t) == (a \o (b \o (p \o t))) \o <<>> = ((a \o b) \o p) \o t

LEMMA Regrouped ==
  ASSUME NEW S, NEW a \in Seq(S), NEW b \in Seq(S), NEW p \in Seq(S), NEW t \in Seq(S)
  PROVE  SameGrouped(a, b, p, t)
<1> DEFINE q == p \o t
           c == a \o b
           r == b \o q
           w == a \o r
<1>1. q \in Seq(S) /\ c \in Seq(S)
  BY ConcatIsSeq
<1> HIDE DEF q, c
<1>2. Joined(c, p, t)
  BY <1>1, Associates
<1>3. Joined(a, b, q)
  BY <1>1, Associates
<1>4. r \in Seq(S)
  BY <1>1, ConcatIsSeq
<1> HIDE DEF r
<1>5. w \in Seq(S)
  BY <1>4, ConcatIsSeq
<1> HIDE DEF w
<1>6. w \o <<>> = w
  BY <1>5, ConcatEmptySeq
<1>7. c \o q = (c \o p) \o t /\ a \o (b \o q) = c \o q
  BY <1>2, <1>3, Zenon DEF Joined, q, c
<1>. QED BY <1>6, <1>7, Zenon DEF SameGrouped, q, c, r, w

(* A value is put behind those of a frame that has no key waiting, or with *)
(* the key that waits.                                                     *)
LEMMA ItemAdded ==
  ASSUME NEW n \in 0..MaxDepth, NEW f, TypedFrame(f, n), NEW g, TypedFrame(g, n),
         NEW v, g.type = f.type, g.values = Append(f.values, v), g.key = None,
         \A i \in 1..Len(f.keys) : g.keys[i] = f.keys[i],
         ItemText(g, Len(f.values) + 1) = Pending(f) \o Serialize(v),
         Serialize(v) \in Seq(Octet)
  PROVE  FrameText(g) = FrameText(f) \o Serialize(v)
<1> DEFINE vs == f.values
           m == Len(vs)
           d == Items(g)
           e == Items(f)
           a == <<Initial(f)>>
           b == FlattenSeq(e)
           p == Pending(f)
           t == Serialize(v)
<1>1. /\ vs \in Seq(Nested[n]) /\ g.values \in Seq(Nested[n])
      /\ (f.type = "dict" => Len(f.keys) = Len(f.values))
  BY DEF TypedFrame, IsFrame
<1>2. Len(g.values) = m + 1 /\ \A i \in 1..m : g.values[i] = vs[i]
  <2>1. IsArray(vs)
    BY <1>1 DEF IsArray
  <2>. QED BY <2>1, ArrayAppend
<1>3. /\ e \in Seq(Seq(Octet)) /\ Len(e) = m /\ m \in Nat
      /\ \A i \in 1..m : e[i] = ItemText(f, i)
  BY ItemsAre
<1>4. /\ d \in Seq(Seq(Octet)) /\ Len(d) = m + 1
      /\ \A i \in 1..(m + 1) : d[i] = ItemText(g, i)
  <2>1. /\ d \in Seq(Seq(Octet)) /\ Len(d) = Len(g.values)
        /\ \A i \in 1..Len(g.values) : d[i] = ItemText(g, i)
    BY ItemsAre
  <2>. QED BY <1>2, <2>1
<1> HIDE DEF d, e
<1>5. ASSUME NEW i \in 1..m PROVE d[i] = e[i]
  <2>1. i \in 1..(m + 1)
    BY <1>3
  <2>2. d[i] = ItemText(g, i) /\ e[i] = ItemText(f, i)
    BY <1>3, <1>4, <2>1
  <2>3. ItemText(g, i) = ItemText(f, i)
    BY <1>1, <1>2 DEF ItemText
  <2>. QED BY <2>2, <2>3
<1>6. FlattenSeq(d) = b \o (p \o t)
  <2>1. Len(d) = Len(e) + 1 /\ \A i \in 1..Len(e) : d[i] = e[i]
    BY <1>3, <1>4, <1>5
  <2>2. FlattenSeq(d) = FlattenSeq(e) \o d[Len(e) + 1]
    BY <1>3, <1>4, <2>1, FlattenMore
  <2>3. m + 1 \in 1..(m + 1)
    BY <1>3
  <2>4. d[m + 1] = ItemText(g, m + 1)
    BY <1>4, <2>3
  <2>. QED BY <1>3, <2>2, <2>4
<1>7. /\ a \in Seq(Octet) /\ b \in Seq(Octet) /\ p \in Seq(Octet) /\ t \in Seq(Octet)
  <2>1. b \in Seq(Octet)
    BY <1>3, FlattenType
  <2>. QED BY <2>1, InitialType, PendingType DEF TypedFrame
<1>8. FrameText(f) = (a \o b) \o p
  BY FrameTextIs DEF e
<1>9. FrameText(g) = (a \o (b \o (p \o t))) \o <<>>
  <2>1. Initial(g) = Initial(f) /\ Pending(g) = <<>>
    BY DEF Initial, Pending
  <2>. QED BY <1>6, <2>1, FrameTextIs DEF d
<1> HIDE DEF a, b, p, t
<1>10. SameGrouped(a, b, p, t)
  BY <1>7, Regrouped
<1>. QED BY <1>8, <1>9, <1>10, Zenon DEF SameGrouped, t


(* What Deliver makes of a frame, and of what the frame has taken. *)
LEMMA EmptyLeft ==
  ASSUME NEW S, NEW t \in Seq(S)
  PROVE  <<>> \o t = t /\ t \o <<>> = t
BY ConcatEmptySeq

WithItem(f, v)  == [f EXCEPT !.values = Append(@, v)]
WithKey(f, v)   == [f EXCEPT !.key = v]
WithEntry(f, v) == [f EXCEPT !.keys = Append(@, f.key), !.values = Append(@, v), !.key = None]

LEMMA ItemParts ==
  ASSUME NEW f, IsFrame(f), NEW v
  PROVE  /\ WithItem(f, v).type = f.type /\ WithItem(f, v).keys = f.keys
         /\ WithItem(f, v).key = f.key /\ WithItem(f, v).values = Append(f.values, v)
<1>1. f = [type |-> f.type, keys |-> f.keys, values |-> f.values, key |-> f.key]
  BY Zenon DEF IsFrame
<1>. QED BY <1>1 DEF WithItem

LEMMA EntryParts ==
  ASSUME NEW f, IsFrame(f), NEW v
  PROVE  /\ WithEntry(f, v).type = f.type /\ WithEntry(f, v).keys = Append(f.keys, f.key)
         /\ WithEntry(f, v).key = None /\ WithEntry(f, v).values = Append(f.values, v)
<1> DEFINE t  == f.type
           ks == f.keys
           vs == f.values
           k  == f.key
           aks == Append(ks, k)
           avs == Append(vs, v)
           e  == None
           g == WithEntry(f, v)
<1>1. f = [type |-> t, keys |-> ks, values |-> vs, key |-> k]
  BY Zenon DEF IsFrame
<1>2. g = [f EXCEPT !.keys = aks, !.values = avs, !.key = e]
  BY DEF WithEntry
<1> HIDE DEF t, ks, vs, k, aks, avs, e, g
<1>3. g = [type |-> t, keys |-> aks, values |-> avs, key |-> e]
  BY <1>1, <1>2
<1>. QED BY <1>3 DEF t, ks, vs, k, aks, avs, e, g

LEMMA ListItemText ==
  ASSUME NEW n \in 0..MaxDepth, NEW f, TypedFrame(f, n), f.type = "list",
         NEW v \in Nested[n], NEW g, IsFrame(g),
         g.type = f.type, g.keys = f.keys, g.key = f.key, g.values = Append(f.values, v)
  PROVE  TypedFrame(g, n) /\ FrameText(g) = FrameText(f) \o Serialize(v)
<1>1. IsFrame(f) /\ f.values \in Seq(Nested[n]) /\ f.key = None
  BY DEF TypedFrame
<1>3. g.type = f.type /\ g.keys = f.keys /\ g.key = f.key /\ g.values = Append(f.values, v)
  OBVIOUS
<1>4. IsFrame(g)
  OBVIOUS
<1>5. g.values \in Seq(Nested[n])
  <2>1. Append(f.values, v) \in Seq(Nested[n])
    BY <1>1, AppendProperties
  <2>. QED BY <1>3, <2>1, Zenon
<1>6. TypedFrame(g, n)
  BY <1>1, <1>3, <1>4, <1>5 DEF TypedFrame
<1>7. Serialize(v) \in Seq(Octet)
  BY SerializeAt
<1>8. ItemText(g, Len(f.values) + 1) = Pending(f) \o Serialize(v)
  <2>1. g.values[Len(f.values) + 1] = v
    BY <1>1, <1>3, AppendProperties
  <2>2. Pending(f) = <<>> /\ g.type # "dict"
    BY <1>1, <1>3 DEF Pending
  <2>. QED BY <2>1, <2>2 DEF ItemText
<1>. QED BY <1>1, <1>3, <1>6, <1>7, <1>8, ItemAdded

LEMMA EntryText ==
  ASSUME NEW n \in 0..MaxDepth, NEW f, TypedFrame(f, n), f.type = "dict", f.key # None,
         NEW v \in Nested[n], NEW g, IsFrame(g),
         g.type = f.type, g.keys = Append(f.keys, f.key), g.key = None,
         g.values = Append(f.values, v)
  PROVE  TypedFrame(g, n) /\ FrameText(g) = FrameText(f) \o Serialize(v)
<1>1. IsFrame(f) /\ f.values \in Seq(Nested[n])
  BY DEF TypedFrame
<1>2. f.key \in AllKeys /\ f.keys \in Seq(AllKeys) /\ Len(f.keys) = Len(f.values)
  BY <1>1 DEF IsFrame
<1>3. g.values \in Seq(Nested[n])
  <2>1. Append(f.values, v) \in Seq(Nested[n])
    BY <1>1, AppendProperties
  <2>. QED BY <2>1, Zenon
<1>4. TypedFrame(g, n)
  BY <1>3 DEF TypedFrame
<1>5. Serialize(v) \in Seq(Octet)
  BY SerializeAt
<1>6. ItemText(g, Len(f.values) + 1) = Pending(f) \o Serialize(v)
  <2>1. g.values[Len(f.values) + 1] = v
    BY <1>1, AppendProperties
  <2>2. g.keys[Len(f.keys) + 1] = f.key
    BY <1>2, AppendProperties
  <2>3. Pending(f) = Serialize(f.key) /\ g.type = "dict"
    BY DEF Pending
  <2>. QED BY <1>2, <2>1, <2>2, <2>3 DEF ItemText
<1>7. \A i \in 1..Len(f.keys) : g.keys[i] = f.keys[i]
  BY <1>2, AppendProperties
<1>. QED BY <1>4, <1>5, <1>6, <1>7, ItemAdded

LEMMA KeyPut ==
  ASSUME NEW n \in 0..MaxDepth, NEW f, TypedFrame(f, n), f.type = "dict", f.key = None,
         NEW v, IsValue(v), ~BadKey(f, v), NEW g, g = WithKey(f, v)
  PROVE  TypedFrame(g, n) /\ FrameText(g) = FrameText(f) \o Serialize(v)
<1>1. IsFrame(f) /\ f.values \in Seq(Nested[n])
  BY DEF TypedFrame
<1>2. f = [type |-> f.type, keys |-> f.keys, values |-> f.values, key |-> f.key]
  BY <1>1, Zenon DEF IsFrame
<1>3. g.type = f.type /\ g.keys = f.keys /\ g.key = v /\ g.values = f.values
  BY <1>2 DEF WithKey
<1>4. IsFrame(g)
  BY <1>1, FrameWithKey DEF WithKey
<1>5. TypedFrame(g, n)
  BY <1>1, <1>3, <1>4 DEF TypedFrame
<1>6. v \in AllKeys
  BY DEF BadKey, IsValue
<1>7. Serialize(v) \in Seq(Octet) /\ v # None
  BY <1>6, KeyText
<1> DEFINE a == <<Initial(f)>> \o FlattenSeq(Items(f))
<1>8. a \in Seq(Octet)
  <2>1. Items(f) \in Seq(Seq(Octet))
    BY ItemsAre
  <2>2. FlattenSeq(Items(f)) \in Seq(Octet) /\ <<Initial(f)>> \in Seq(Octet)
    BY <2>1, FlattenType, InitialType
  <2>. QED BY <2>2, ConcatIsSeq
<1>9. FrameText(f) = a \o <<>>
  BY FrameTextIs DEF Pending
<1>10. FrameText(g) = a \o Serialize(v)
  <2>1. Initial(g) = Initial(f) /\ Items(g) = Items(f) /\ Pending(g) = Serialize(v)
    BY <1>3, <1>7 DEF Initial, Items, ItemText, Pending
  <2>. QED BY <2>1, FrameTextIs
<1> HIDE DEF a
<1>. QED BY <1>5, <1>8, <1>9, <1>10, EmptyLeft

LEMMA NewFrameText ==
  ASSUME NEW n \in 0..MaxDepth, NEW type \in {"dict", "list"}
  PROVE  /\ TypedFrame(Frame(type), n)
         /\ FrameText(Frame(type)) = <<IF type = "dict" THEN "d" ELSE "l">>
<1> DEFINE f == Frame(type)
           c == <<IF type = "dict" THEN "d" ELSE "l">>
<1>1. f.type = type /\ f.values = <<>> /\ f.key = None
  BY DEF Frame
<1>2. IsFrame(f)
  BY NewFrame
<1> HIDE DEF f
<1>3. TypedFrame(f, n)
  BY <1>1, <1>2 DEF TypedFrame
<1>4. Items(f) = <<>> /\ Pending(f) = <<>> /\ <<Initial(f)>> = c
  BY <1>1 DEF Items, Pending, Initial
<1>5. c \in Seq(Octet)
  BY <1>4, InitialType
<1>6. FrameText(f) = (c \o <<>>) \o <<>>
  BY <1>4, FrameTextIs, FlattenEmpty, Zenon
<1> HIDE DEF c
<1>7. (c \o <<>>) \o <<>> = c
  BY <1>5, EmptyLeft
<1>. QED BY <1>3, <1>6, <1>7, Zenon DEF f, c

(* A container that has come to its end is the value whose text it took.   *)
Whole(f) == IF f.type = "dict" THEN BenDict(f.keys, f.values) ELSE BenList(f.values)

LEMMA ClosedText ==
  ASSUME NEW n \in 0..(MaxDepth - 1), NEW f, TypedFrame(f, n), f.key = None
  PROVE  /\ Whole(f) \in Nested[n + 1]
         /\ FrameText(f) \o <<"e">> = Serialize(Whole(f))
<1>0. n \in Nat /\ n \in 0..MaxDepth
  BY BencodeAssumption
<1> DEFINE a == <<Initial(f)>> \o FlattenSeq(Items(f))
<1>1. /\ IsFrame(f) /\ f.values \in Seq(Nested[n])
  BY DEF TypedFrame
<1>2. f.keys \in Seq(AllKeys) /\ f.type \in {"dict", "list"} /\ Ascending(f.keys)
      /\ (f.type = "dict" => Len(f.keys) = Len(f.values))
  BY <1>1 DEF IsFrame
<1>3. a \in Seq(Octet)
  <2>1. Items(f) \in Seq(Seq(Octet))
    BY <1>0, ItemsAre
  <2>2. FlattenSeq(Items(f)) \in Seq(Octet) /\ <<Initial(f)>> \in Seq(Octet)
    BY <2>1, FlattenType, InitialType
  <2>. QED BY <2>2, ConcatIsSeq
<1>4. FrameText(f) = a
  <2>1. FrameText(f) = a \o <<>>
    BY FrameTextIs DEF Pending
  <2> HIDE DEF a
  <2>. QED BY <1>3, <2>1, EmptyLeft
<1>5. CASE f.type = "list"
  <2> DEFINE vs == f.values
  <2>1. Whole(f) = BenList(vs) /\ Initial(f) = "l"
    BY <1>5 DEF Whole, Initial
  <2>2. BenList(vs) \in Nested[n + 1]
    BY <1>0, <1>1, ListNested
  <2>3. Serialize(BenList(vs)) =
          (<<"l">> \o FlattenSeq([i \in DOMAIN vs |-> Serialize(vs[i])])) \o <<"e">>
    BY <1>1, SerializeList
  <2>4. Items(f) = [i \in DOMAIN vs |-> Serialize(vs[i])]
    <3>1. ASSUME NEW i \in DOMAIN vs PROVE ItemText(f, i) = Serialize(vs[i])
      <4>1. vs[i] \in Nested[n]
        BY <1>1
      <4>2. Serialize(vs[i]) \in Seq(Octet)
        BY <1>0, <4>1, SerializeAt
      <4>3. ItemText(f, i) = <<>> \o Serialize(vs[i])
        BY <1>5 DEF ItemText
      <4>. QED BY <4>2, <4>3, EmptyLeft
    <3>. QED BY <3>1 DEF Items
  <2>. QED BY <1>4, <2>1, <2>2, <2>3, <2>4, Zenon
<1>6. CASE f.type = "dict"
  <2> DEFINE ks == f.keys
             vs == f.values
             m == Len(ks)
             b == BenDict(ks, vs)
             s == Sorted(b)
             ss == [i \in DOMAIN s |-> Serialize(s[i][1]) \o Serialize(s[i][2])]
  <2>1. Whole(f) = b /\ Initial(f) = "d" /\ b.keys = ks /\ b.values = vs /\ b.type = "dict"
    BY <1>6 DEF Whole, Initial, BenDict
  <2>2. Len(ks) = Len(vs) /\ DOMAIN vs = 1..m
    BY <1>1, <1>2, <1>6
  <2>3. b \in Nested[n + 1]
    BY <1>0, <1>1, <1>2, <2>2, DictNested
  <2>4. IsDictOf(b, Nested[n])
    BY <1>1, <1>2, <2>1, <2>2 DEF IsDictOf
  <2> HIDE DEF b
  <2>5. Serialize(b) = (<<"d">> \o FlattenSeq(ss)) \o <<"e">>
    BY <2>4, SerializeDict
  <2>6. s = [i \in 1..m |-> <<ks[i], vs[i]>>]
    <3>1. AscendTo(b.keys, Len(b.keys))
      BY <1>2, <2>1 DEF Ascending, AscendTo
    <3>. QED BY <2>1, <2>4, <3>1, SortedInPlace
  <2>7. Items(f) = ss
    <3>1. \A i \in 1..m : s[i][1] = ks[i] /\ s[i][2] = vs[i]
      BY <2>6
    <3>2. \A i \in 1..m : ItemText(f, i) = Serialize(s[i][1]) \o Serialize(s[i][2])
      BY <1>6, <3>1 DEF ItemText
    <3>3. DOMAIN s = 1..m
      BY <2>6
    <3>. QED BY <2>2, <3>2, <3>3 DEF Items
  <2>. QED BY <1>4, <2>1, <2>3, <2>5, <2>7, Zenon
<1>. QED BY <1>2, <1>5, <1>6


-----------------------------------------------------------------------------
(* The octets of all that is open.  level counts every value that was      *)
(* begun, those that are open among them, and so bounds how deep the       *)
(* values within them nest.                                                *)
TypedStack(s, l) ==
  IsStack(s) /\ Len(s) <= l /\ \A i \in 1..Len(s) : TypedFrame(s[i], l - i)

FrameTexts(s) == [i \in DOMAIN s |-> FrameText(s[i])]

LEMMA StackLen ==
  ASSUME NEW s, IsStack(s)
  PROVE  Len(s) \in Nat /\ DOMAIN s = 1..Len(s) /\ IsArray(s)
BY DEF IsStack, IsArray

LEMMA FrameTextsAre ==
  ASSUME NEW l \in 0..MaxDepth, NEW s, TypedStack(s, l)
  PROVE  FrameTexts(s) \in Seq(Seq(Octet)) /\ Len(FrameTexts(s)) = Len(s)
<1> DEFINE n == Len(s)
           t == FrameTexts(s)
<1>1. n \in Nat /\ DOMAIN s = 1..n /\ n <= l /\ \A i \in 1..n : TypedFrame(s[i], l - i)
  BY StackLen DEF TypedStack
<1> HIDE DEF n
<1>2. ASSUME NEW i \in 1..n PROVE FrameText(s[i]) \in Seq(Octet)
  <2>1. l - i \in 0..MaxDepth
    BY <1>1, BencodeAssumption
  <2>. QED BY <1>1, <2>1, FrameTextType
<1>3. t = [i \in 1..n |-> FrameText(s[i])]
  BY <1>1 DEF FrameTexts
<1>4. t \in [1..n -> Seq(Octet)]
  BY <1>2, <1>3
<1> HIDE DEF t
<1>. QED BY <1>1, <1>4, FunctionIsSeq DEF n, t

LEMMA FramePushed ==
  ASSUME NEW l \in 0..MaxDepth, NEW s, TypedStack(s, l), Len(s) + 1 <= l,
         NEW f, TypedFrame(f, l - (Len(s) + 1))
  PROVE  /\ TypedStack(Append(s, f), l)
         /\ FlattenSeq(FrameTexts(Append(s, f))) = FlattenSeq(FrameTexts(s)) \o FrameText(f)
<1> DEFINE n == Len(s)
           a == Append(s, f)
           x == FrameText(f)
<1>1. IsStack(s) /\ n \in Nat /\ DOMAIN s = 1..n /\ IsArray(s)
      /\ \A i \in 1..n : TypedFrame(s[i], l - i)
  BY StackLen DEF TypedStack
<1>2. IsStack(a) /\ Len(a) = n + 1
  BY <1>1, Pushed DEF TypedFrame
<1>3. /\ DOMAIN a = 1..(n + 1) /\ (\A i \in 1..n : a[i] = s[i]) /\ a[n + 1] = f
  BY <1>1, ArrayAppend
<1> HIDE DEF n, a
<1>4. ASSUME NEW i \in 1..(n + 1) PROVE TypedFrame(a[i], l - i)
  <2>1. CASE i = n + 1
    BY <1>3, <2>1 DEF n
  <2>2. CASE i # n + 1
    <3>1. i \in 1..n
      BY <1>1, <2>2
    <3>. QED BY <1>1, <1>3, <3>1
  <2>. QED BY <2>1, <2>2
<1>5. TypedStack(a, l)
  <2>1. n + 1 <= l
    BY DEF n
  <2>. QED BY <1>2, <1>4, <2>1 DEF TypedStack
<1> DEFINE d == FrameTexts(a)
           e == FrameTexts(s)
<1>6. d \in Seq(Seq(Octet)) /\ Len(d) = n + 1
  BY <1>2, <1>5, FrameTextsAre
<1>7. e \in Seq(Seq(Octet)) /\ Len(e) = n
  BY FrameTextsAre DEF n
<1>8. (\A i \in 1..n : d[i] = e[i]) /\ d[n + 1] = x
  BY <1>1, <1>3 DEF FrameTexts
<1> HIDE DEF d, e, x
<1>9. FlattenSeq(d) = FlattenSeq(e) \o d[Len(e) + 1]
  <2>1. Len(d) = Len(e) + 1 /\ \A i \in 1..Len(e) : d[i] = e[i]
    BY <1>6, <1>7, <1>8
  <2>. QED BY <1>6, <1>7, <2>1, FlattenMore
<1>10. d[Len(e) + 1] = x
  BY <1>7, <1>8
<1>. QED BY <1>5, <1>9, <1>10, Zenon DEF a, d, e, x

LEMMA FramePopped ==
  ASSUME NEW l \in 0..MaxDepth, NEW s, TypedStack(s, l), s # <<>>
  PROVE  /\ Len(s) \in 1..l /\ Len(Front(s)) = Len(s) - 1
         /\ TypedStack(Front(s), l) /\ TypedFrame(Last(s), l - Len(s))
         /\ FlattenSeq(FrameTexts(s)) =
              FlattenSeq(FrameTexts(Front(s))) \o FrameText(Last(s))
<1> DEFINE n == Len(s)
           r == Front(s)
           f == Last(s)
<1>1. /\ IsStack(s) /\ IsArray(s) /\ n <= l /\ DOMAIN s = 1..n
      /\ \A i \in 1..n : TypedFrame(s[i], l - i)
  BY StackLen DEF TypedStack
<1>2. IsStack(r) /\ Len(r) = n - 1 /\ n \in Nat \ {0} /\ IsFrame(f)
  BY <1>1, Popped
<1>3. \A i \in 1..(n - 1) : r[i] = s[i]
  BY <1>1, ArrayFront
<1>4. f = s[n]
  BY DEF Last
<1>5. s = Append(r, f)
  <2>1. PICK S : s \in Seq(S)
    BY <1>1 DEF IsArray
  <2>. QED BY <2>1, FrontLast
<1> HIDE DEF n, r, f
<1>6. TypedFrame(f, l - n)
  <2>1. n \in 1..n
    BY <1>2
  <2>. QED BY <1>1, <1>4, <2>1
<1>7. TypedStack(r, l)
  <2>1. ASSUME NEW i \in 1..(n - 1) PROVE TypedFrame(r[i], l - i)
    <3>1. i \in 1..n
      BY <1>2
    <3>. QED BY <1>1, <1>3, <3>1
  <2>2. n - 1 <= l
    BY <1>1, <1>2
  <2>. QED BY <1>2, <2>1, <2>2 DEF TypedStack
<1>8. n \in 1..l /\ Len(r) + 1 = n /\ Len(r) + 1 <= l
  BY <1>1, <1>2
<1>9. FlattenSeq(FrameTexts(Append(r, f))) = FlattenSeq(FrameTexts(r)) \o FrameText(f)
  <2>1. TypedFrame(f, l - (Len(r) + 1))
    BY <1>6, <1>8
  <2>. QED BY <1>7, <1>8, <2>1, FramePushed
<1>. QED BY <1>2, <1>5, <1>6, <1>7, <1>8, <1>9, Zenon DEF n, r, f

LEMMA StackDeeper ==
  ASSUME NEW l \in Nat, NEW m \in Nat, l <= m, NEW s, TypedStack(s, l)
  PROVE  TypedStack(s, m)
<1> DEFINE n == Len(s)
<1>1. IsStack(s) /\ n \in Nat /\ n <= l /\ \A i \in 1..n : TypedFrame(s[i], l - i)
  BY StackLen DEF TypedStack
<1> HIDE DEF n
<1>2. ASSUME NEW i \in 1..n PROVE TypedFrame(s[i], m - i)
  <2>1. l - i \in Nat /\ m - i \in Nat /\ l - i <= m - i
    BY <1>1
  <2>2. Nested[l - i] \subseteq Nested[m - i]
    BY <2>1, NestedMonotone
  <2>3. Seq(Nested[l - i]) \subseteq Seq(Nested[m - i])
    BY <2>2, SeqMonotonic
  <2>. QED BY <1>1, <2>3 DEF TypedFrame
<1>3. n <= m
  BY <1>1
<1>. QED BY <1>1, <1>2, <1>3 DEF TypedStack, n

LEMMA NoFrames ==
  ASSUME NEW l \in Nat
  PROVE  TypedStack(<<>>, l) /\ FlattenSeq(FrameTexts(<<>>)) = <<>>
<1>1. IsStack(<<>>) /\ Len(<<>>) = 0
  BY EmptyStack
<1>2. FrameTexts(<<>>) = <<>>
  BY DEF FrameTexts
<1>. QED BY <1>1, <1>2, FlattenEmpty DEF TypedStack

(* A value is delivered. *)
Grows(frames, l, v) ==
  /\ GoesOn
  /\ TypedStack(stack', l)
  /\ FlattenSeq(FrameTexts(stack')) = FlattenSeq(FrameTexts(frames)) \o Serialize(v)

Finishes(frames, v) ==
  /\ frames = <<>> /\ stack' = <<>> /\ status' = "ok" /\ value' = v
  /\ exact => off' = Len(data)

Breaks == status' = "failed" /\ stack' = <<>>

LEMMA FrameReplaced ==
  ASSUME NEW l \in 0..MaxDepth, NEW frames, TypedStack(frames, l), frames # <<>>,
         NEW g, TypedFrame(g, l - Len(frames)), NEW v, Serialize(v) \in Seq(Octet),
         FrameText(g) = FrameText(Last(frames)) \o Serialize(v), Replace(frames, g)
  PROVE  Grows(frames, l, v)
<1> DEFINE r == Front(frames)
           f == Last(frames)
           x == FlattenSeq(FrameTexts(r))
           y == FrameText(f)
           t == Serialize(v)
<1>1. /\ Len(frames) \in 1..l /\ Len(r) = Len(frames) - 1
      /\ TypedStack(r, l) /\ TypedFrame(f, l - Len(frames))
      /\ FlattenSeq(FrameTexts(frames)) = x \o y
  BY FramePopped
<1> HIDE DEF r, f
<1>2. Len(r) + 1 = Len(frames) /\ Len(r) + 1 <= l /\ l - Len(frames) \in 0..MaxDepth
  BY <1>1, BencodeAssumption
<1>3. TypedFrame(g, l - (Len(r) + 1))
  BY <1>2, Zenon
<1>4. TypedStack(Append(r, g), l) /\ FlattenSeq(FrameTexts(Append(r, g))) = x \o FrameText(g)
  BY <1>1, <1>2, <1>3, FramePushed
<1>5. x \in Seq(Octet) /\ y \in Seq(Octet) /\ t \in Seq(Octet)
  <2>1. FrameTexts(r) \in Seq(Seq(Octet))
    BY <1>1, FrameTextsAre
  <2>2. y \in Seq(Octet)
    BY <1>1, <1>2, FrameTextType
  <2>. QED BY <2>1, <2>2, FlattenType
<1>6. FrameText(g) = y \o t
  BY DEF f
<1>7. stack' = Append(r, g) /\ GoesOn
  BY DEF Replace, GoesOn, r
<1> HIDE DEF x, y, t
<1>8. Joined(x, y, t)
  BY <1>5, Joining, Zenon
<1>. QED BY <1>1, <1>4, <1>6, <1>7, <1>8, Zenon DEF Grows, Joined, t

LEMMA DeliverText ==
  ASSUME NEW l \in 0..MaxDepth, NEW frames, TypedStack(frames, l),
         NEW v \in Nested[l - Len(frames)], IsValue(v), Deliver(v, frames)
  PROVE  Grows(frames, l, v) \/ Finishes(frames, v) \/ Breaks
<1> DEFINE f == Last(frames)
<1>1. CASE frames = <<>> /\ Return(v)
  BY <1>1 DEF Return, Finishes, Breaks
<1>2. ASSUME NEW e, Fail(e) PROVE Breaks
  BY <1>2 DEF Fail, Breaks
<1>3. CASE frames # <<>>
  <2> DEFINE n == l - Len(frames)
  <2>1. TypedFrame(f, n) /\ n \in 0..MaxDepth
    <3>1. Len(frames) \in 1..l /\ TypedFrame(f, n)
      BY <1>3, FramePopped
    <3>. QED BY <3>1, BencodeAssumption
  <2>2. IsFrame(f)
    BY <2>1 DEF TypedFrame
  <2>3. v \in Nested[n]
    OBVIOUS
  <2>4. Serialize(v) \in Seq(Octet)
    <3> HIDE DEF n
    <3>. QED BY <2>1, <2>3, SerializeAt
  <2>5. ASSUME NEW g, TypedFrame(g, n), FrameText(g) = FrameText(f) \o Serialize(v),
               Replace(frames, g)
        PROVE  Grows(frames, l, v)
    BY <1>3, <2>4, <2>5, FrameReplaced
  <2> HIDE DEF n, f
  <2>6. CASE f.type = "list" /\ Replace(frames, WithItem(f, v))
    <3> DEFINE g == WithItem(f, v)
    <3>1. IsFrame(g)
      BY <2>2, <2>6, FrameWithItem DEF WithItem
    <3>2. g.type = f.type /\ g.keys = f.keys /\ g.key = f.key /\ g.values = Append(f.values, v)
      BY <2>2, ItemParts
    <3> HIDE DEF g
    <3>3. TypedFrame(g, n) /\ FrameText(g) = FrameText(f) \o Serialize(v)
      BY <2>1, <2>3, <2>6, <3>1, <3>2, ListItemText
    <3>. QED BY <2>5, <2>6, <3>3, Zenon DEF g
  <2>7. CASE f.type = "dict" /\ f.key = None /\ ~BadKey(f, v) /\ Replace(frames, WithKey(f, v))
    <3>1. /\ TypedFrame(WithKey(f, v), n)
          /\ FrameText(WithKey(f, v)) = FrameText(f) \o Serialize(v)
      BY <2>1, <2>7, KeyPut
    <3>. QED BY <2>5, <2>7, <3>1, Zenon
  <2>8. CASE f.type = "dict" /\ f.key # None /\ Replace(frames, WithEntry(f, v))
    <3> DEFINE g == WithEntry(f, v)
    <3>1. IsFrame(g)
      BY <2>2, <2>8, FrameWithEntry DEF WithEntry
    <3>2. /\ g.type = f.type /\ g.keys = Append(f.keys, f.key) /\ g.key = None
          /\ g.values = Append(f.values, v)
      BY <2>2, EntryParts
    <3> HIDE DEF g
    <3>3. TypedFrame(g, n) /\ FrameText(g) = FrameText(f) \o Serialize(v)
      BY <2>1, <2>3, <2>8, <3>1, <3>2, EntryText
    <3>. QED BY <2>5, <2>8, <3>3, Zenon DEF g
  <2>. QED BY <1>2, <1>3, <2>6, <2>7, <2>8, Zenon DEF Deliver, f, WithItem, WithKey, WithEntry
<1>. QED BY <1>1, <1>3 DEF Deliver


-----------------------------------------------------------------------------
(* The invariant. *)

(* The octets of the data behind position a, as far as b. *)
Between(a, b) == SubSeq(data, a + 1, b)
Taken         == Between(start, off)

ValueInv ==
  /\ TypedStack(stack, level)
  /\ status = "ok" => value \in Nested[MaxDepth] /\ (exact => off = Len(data))
  /\ ~clipped => /\ status = "ok" => Serialize(value) = Taken
                 /\ status = "busy" => FlattenSeq(FrameTexts(stack)) = Taken

LEMMA BetweenIs ==
  ASSUME data \in Seq(Octet), NEW a \in Nat, NEW b \in Nat, a <= b, b <= Len(data)
  PROVE  /\ Between(a, b) \in Seq(Octet) /\ Len(Between(a, b)) = b - a
         /\ a < b => Between(a, a + 1) = <<data[a + 1]>> /\ data[a + 1] \in Octet
<1>1. \A i \in (a + 1)..b : data[i] \in Octet
  OBVIOUS
<1>2. /\ SubSeq(data, a + 1, b) \in Seq(Octet)
      /\ Len(SubSeq(data, a + 1, b)) = IF a + 1 <= b THEN b - (a + 1) + 1 ELSE 0
  BY <1>1, SubSeqProperties
<1>3. (IF a + 1 <= b THEN b - (a + 1) + 1 ELSE 0) = b - a
  OBVIOUS
<1>4. ASSUME a < b PROVE Between(a, a + 1) = <<data[a + 1]>> /\ data[a + 1] \in Octet
  <2> DEFINE m == a + 1
  <2>1. m \in 1..Len(data) /\ m \in m..Len(data) /\ m \in Int /\ m + 1 \in Int /\ m < m + 1
    BY <1>4
  <2> HIDE DEF m
  <2>2. SubSeq(data, m, m) = <<data[m]>> \o SubSeq(data, m + 1, m)
    BY <2>1, SubSeqRecursiveFirst
  <2>3. SubSeq(data, m + 1, m) = <<>>
    BY <2>1, SubSeqEmpty
  <2>4. data[m] \in Octet
    BY <2>1
  <2>5. <<data[m]>> \in Seq(Octet)
    BY <2>4
  <2>6. <<data[m]>> \o <<>> = <<data[m]>>
    BY <2>5, EmptyLeft
  <2>7. Between(a, m) = SubSeq(data, m, m)
    BY DEF Between, m
  <2>. QED BY <2>2, <2>3, <2>4, <2>6, <2>7, Zenon DEF m
<1>. QED BY <1>2, <1>3, <1>4 DEF Between

LEMMA BetweenJoined ==
  ASSUME data \in Seq(Octet), NEW a \in Nat, NEW b \in Nat, NEW c \in Nat,
         a <= b, b <= c, c <= Len(data)
  PROVE  Between(a, b) \o Between(b, c) = Between(a, c)
<1> DEFINE m == a + 1
<1>1. m \in 1..(Len(data) + 1) /\ b \in (m - 1)..Len(data) /\ c \in b..Len(data)
  OBVIOUS
<1> HIDE DEF m
<1>2. SubSeq(data, m, b) \o SubSeq(data, b + 1, c) = SubSeq(data, m, c)
  BY <1>1, ConcatAdjacentSubSeq
<1>. QED BY <1>2 DEF Between, m

LEMMA TwoOctets ==
  ASSUME NEW c \in Octet, NEW d \in Octet
  PROVE  <<c>> \o <<d>> = <<c, d>>
<1>1. <<c>> \in Seq(Octet) /\ <<d>> \in Seq(Octet) /\ Len(<<c>>) = 1 /\ Len(<<d>>) = 1
  OBVIOUS
<1> DEFINE s == <<c>> \o <<d>>
           t == <<c, d>>
<1>2. t \in Seq(Octet) /\ Len(t) = 2 /\ t[1] = c /\ t[2] = d
  OBVIOUS
<1>3. /\ s \in Seq(Octet) /\ Len(s) = Len(<<c>>) + Len(<<d>>)
      /\ \A i \in 1..(Len(<<c>>) + Len(<<d>>)) :
           s[i] = IF i <= Len(<<c>>) THEN <<c>>[i] ELSE <<d>>[i - Len(<<c>>)]
  BY <1>1, ConcatProperties
<1> HIDE DEF s, t
<1>4. Len(s) = 2 /\ s[1] = c /\ s[2] = d
  BY <1>1, <1>3
<1>5. \A i \in 1..Len(s) : s[i] = t[i]
  BY <1>2, <1>4
<1>. QED BY <1>2, <1>3, <1>4, <1>5, SeqEqual DEF s, t

(* What is taken grows by what a step reads. *)
LEMMA TakenGrows ==
  ASSUME DecoderInv, UNCHANGED callVars, off' \in Nat, off <= off', off' <= Len(data)
  PROVE  /\ Taken' = Taken \o Between(off, off')
         /\ Taken \in Seq(Octet) /\ Between(off, off') \in Seq(Octet)
<1>1. /\ data \in Seq(Octet) /\ start \in Nat /\ off \in Nat /\ start <= off
      /\ off <= Len(data)
  BY Zenon DEF DecoderInv
<1>2. Taken' = Between(start, off')
  BY DEF callVars, Taken, Between
<1>3. Between(start, off) \o Between(off, off') = Between(start, off')
  BY <1>1, BetweenJoined
<1>4. Between(start, off) \in Seq(Octet) /\ Between(off, off') \in Seq(Octet)
  BY <1>1, BetweenIs
<1>. QED BY <1>2, <1>3, <1>4, Zenon DEF Taken

LEMMA DepthIs ==
  ASSUME NEW l \in Nat, l <= MaxLevel
  PROVE  l \in 0..MaxDepth
BY BencodeAssumption, DecoderAssumption, CodecAssumption

(* A value is delivered, and off stands where its encoding ends. *)
LEMMA DeliveredText ==
  ASSUME status = "busy", level' \in Nat, level' <= MaxLevel,
         NEW frames, TypedStack(frames, level'),
         NEW v \in Nested[level' - Len(frames)], IsValue(v), Deliver(v, frames),
         UNCHANGED callVars,
         ~clipped' => FlattenSeq(FrameTexts(frames)) \o Serialize(v) = Taken'
  PROVE  ValueInv'
<1>1. level' \in 0..MaxDepth
  BY DepthIs
<1>2. CASE Grows(frames, level', v)
  <2>1. status' = "busy" /\ TypedStack(stack', level')
    BY <1>2 DEF Grows, GoesOn
  <2>2. FlattenSeq(FrameTexts(stack')) = FlattenSeq(FrameTexts(frames)) \o Serialize(v)
    BY <1>2 DEF Grows
  <2>. QED BY <2>1, <2>2, Zenon DEF ValueInv
<1>3. CASE Finishes(frames, v)
  <2>1. /\ frames = <<>> /\ stack' = <<>> /\ status' = "ok" /\ value' = v
        /\ exact => off' = Len(data)
    BY <1>3 DEF Finishes
  <2>2. TypedStack(stack', level') /\ FlattenSeq(FrameTexts(frames)) = <<>>
    BY <2>1, NoFrames
  <2>3. value' \in Nested[MaxDepth] /\ Serialize(v) \in Seq(Octet)
    <3>1. level' - Len(frames) = level'
      <4>1. Len(frames) = 0
        BY <2>1, EmptyStack
      <4>2. \A n \in Nat : n - 0 = n
        OBVIOUS
      <4>. QED BY <4>1, <4>2, Zenon
    <3>2. v \in Nested[level']
      BY <3>1, Zenon
    <3>3. Nested[level'] \subseteq Nested[MaxDepth]
      BY <1>1, BencodeAssumption, NestedMonotone
    <3>. QED BY <1>1, <2>1, <3>2, <3>3, SerializeAt
  <2>4. ~clipped' => Serialize(value') = Taken'
    <3>1. <<>> \o Serialize(v) = Serialize(v)
      BY <2>3, EmptyLeft
    <3>. QED BY <2>1, <2>2, <3>1, Zenon
  <2>5. exact' => off' = Len(data')
    BY <2>1 DEF callVars
  <2>. QED BY <2>1, <2>2, <2>3, <2>4, <2>5, Zenon DEF ValueInv
<1>4. CASE Breaks
  <2>1. TypedStack(stack', level') /\ status' = "failed"
    BY <1>4, NoFrames DEF Breaks
  <2>. QED BY <2>1, Zenon DEF ValueInv
<1>. QED BY <1>1, <1>2, <1>3, <1>4, DeliverText

LEMMA FailedText ==
  ASSUME NEW e, Fail(e), level' \in Nat
  PROVE  ValueInv'
<1>1. stack' = <<>> /\ status' = "failed"
  BY DEF Fail
<1>2. TypedStack(stack', level')
  BY <1>1, NoFrames
<1>. QED BY <1>1, <1>2, Zenon DEF ValueInv

(* A value that holds no others has been read. *)
LEMMA ReadText ==
  ASSUME DecoderInv, ValueInv, Enter, off' \in Nat, off <= off', off' <= Len(data),
         NEW v \in Simple, IsValue(v), Deliver(v, stack),
         ~clipped' => ~clipped /\ Serialize(v) = Between(off, off')
  PROVE  ValueInv'
<1>1. /\ status = "busy" /\ UNCHANGED callVars /\ level' \in Nat /\ level' <= MaxLevel
      /\ level' = level + 1 /\ level \in Nat
  <2>1. level' = level + 1
    BY DEF Enter
  <2>2. level \in Nat
    BY Zenon DEF DecoderInv
  <2>. QED BY <2>1, <2>2, AtEnter
<1>2. TypedStack(stack, level)
  BY Zenon DEF ValueInv
<1>3. TypedStack(stack, level') /\ v \in Nested[level' - Len(stack)]
  <2>1. level <= level'
    BY <1>1
  <2>2. TypedStack(stack, level')
    BY <1>1, <1>2, <2>1, StackDeeper
  <2>3. Len(stack) \in Nat /\ Len(stack) <= level'
    BY <2>2, StackLen DEF TypedStack
  <2>4. level' - Len(stack) \in Nat
    BY <1>1, <2>3
  <2>. QED BY <2>2, <2>4, SimpleNested
<1>4. ~clipped' => FlattenSeq(FrameTexts(stack)) \o Serialize(v) = Taken'
  <2>1. Taken' = Taken \o Between(off, off')
    BY <1>1, TakenGrows
  <2>2. ~clipped => FlattenSeq(FrameTexts(stack)) = Taken
    BY <1>1, Zenon DEF ValueInv
  <2>. QED BY <2>1, <2>2, Zenon
<1>. QED BY <1>1, <1>3, <1>4, DeliveredText

LEMMA LevelUp ==
  ASSUME DecoderInv, level' = level + 1
  PROVE  level' \in Nat
<1>1. level \in Nat
  BY Zenon DEF DecoderInv
<1>. QED BY <1>1

LEMMA BoolText == ASSUME DecoderInv, ValueInv, DecodeBool PROVE ValueInv'
<1>1. Enter /\ Here = "b" /\ clipped' = clipped
  BY DEF DecodeBool
<1>2. level' \in Nat
  BY <1>1, LevelUp DEF Enter
<1>3. data \in Seq(Octet) /\ off \in Nat /\ off <= Len(data)
  BY Zenon DEF DecoderInv
<1>4. ASSUME NEW e, Fail(e) PROVE ValueInv'
  BY <1>2, <1>4, FailedText
<1>5. CASE /\ off + 2 <= Len(data) /\ data[off + 2] \in {"0", "1"}
           /\ off' = off + 2 /\ Deliver(BenBool(data[off + 2] = "1"), stack)
  <2> DEFINE x == data[off + 2] = "1"
             v == BenBool(x)
             p == off + 1
  <2>1. off' \in Nat /\ off <= off' /\ off' <= Len(data)
    BY <1>3, <1>5
  <2>2. p \in Nat /\ off <= p /\ p <= Len(data) /\ p + 1 = off' /\ p + 1 <= Len(data)
        /\ p <= off' /\ p < off' /\ off < p
    BY <1>3, <1>5
  <2>3. x \in BOOLEAN /\ v \in Simple /\ IsValue(v)
    BY ValuesAre DEF Simple, BenBool
  <2>4. Serialize(v) = <<"b", IF x THEN "1" ELSE "0">>
    BY <2>3, SerializeBool
  <2>5. data[off + 1] = "b" /\ data[p + 1] = IF x THEN "1" ELSE "0"
    <3>1. p + 1 = off + 2
      BY <1>3
    <3>. QED BY <1>1, <1>5, <3>1 DEF Here
  <2> HIDE DEF p, x
  <2>6. Between(off, p) = <<data[off + 1]>> /\ Between(p, off') = <<data[p + 1]>>
    <3>1. p = off + 1
      BY DEF p
    <3>. QED BY <1>3, <2>1, <2>2, <3>1, BetweenIs
  <2>7. Between(off, off') = <<data[off + 1]>> \o <<data[p + 1]>>
    <3>1. Between(off, p) \o Between(p, off') = Between(off, off')
      BY <1>3, <2>1, <2>2, BetweenJoined
    <3>. QED BY <2>6, <3>1, Zenon
  <2>8. Serialize(v) = Between(off, off')
    <3>1. \A c, d \in Octet : <<c>> \o <<d>> = <<c, d>>
      BY TwoOctets
    <3>2. data[off + 1] \in Octet /\ data[p + 1] \in Octet
      BY <1>3, <2>1, <2>2, BetweenIs
    <3>. QED BY <2>4, <2>5, <2>7, <3>1, <3>2, Zenon
  <2> HIDE DEF v
  <2>9. Deliver(v, stack)
    BY <1>5 DEF v, x
  <2>. QED BY <1>1, <2>1, <2>3, <2>8, <2>9, ReadText
<1>. QED BY <1>4, <1>5 DEF DecodeBool, NoStruct

LEMMA IntText == ASSUME DecoderInv, ValueInv, DecodeInt PROVE ValueInv'
<1> DEFINE p == off + 1
           f == Find(p, "e")
           s == NumberText(p, "e")
<1>1. Enter /\ Here = "i"
  BY DEF DecodeInt
<1>2. level' \in Nat
  BY <1>1, LevelUp DEF Enter
<1>3. data \in Seq(Octet) /\ off \in Nat /\ off <= Len(data) /\ off + 1 <= Len(data)
      /\ p \in Nat /\ off < p /\ off <= p /\ p <= Len(data) /\ data[off + 1] = "i"
  <2>1. data \in Seq(Octet) /\ off \in Nat /\ off <= Len(data)
    BY Zenon DEF DecoderInv
  <2>2. off + 1 <= Len(data)
    BY <1>1, AtEnter
  <2>. QED BY <1>1, <2>1, <2>2 DEF Here
<1>4. ASSUME NEW e, Fail(e) PROVE ValueInv'
  BY <1>2, <1>4, FailedText
<1> HIDE DEF s, f
<1>5. CASE /\ Ends(p, "e") # {} /\ WellFormed(s) /\ off' = f + 1 /\ Clip(s)
           /\ Deliver(BenInt(LongLong(CString(s))), stack)
  <2> DEFINE v == BenInt(LongLong(CString(s)))
  <2>1. f \in Nat /\ p <= f /\ f + 1 <= Len(data) /\ data[f + 1] = "e"
    BY <1>3, <1>5, FindIs DEF f
  <2>2. off' \in Nat /\ off <= off' /\ off' <= Len(data) /\ f <= off' /\ f < off' /\ f <= Len(data)
        /\ off' = f + 1 /\ p <= off'
    <3>1. off' = f + 1
      BY <1>5
    <3>. QED BY <1>3, <2>1, <3>1
  <2>3. LongLong(CString(s)) \in Int
    BY <1>5, LongLongIsInt
  <2>4. v \in Simple /\ IsValue(v)
    BY <2>3, ValuesAre DEF Simple, AllKeys, IntKeys, BenInt
  <2>5. s = Between(p, f) /\ s \in Seq(Octet)
    <3>1. s = Between(p, f)
      BY DEF s, f, NumberText, Between
    <3>. QED BY <1>3, <2>1, <2>2, <3>1, BetweenIs
  <2>6. Between(off, off') = (<<"i">> \o s) \o <<"e">>
    <3> HIDE DEF p
    <3>1. Between(off, p) = <<"i">> /\ Between(f, off') = <<"e">>
      <4>1. p = off + 1
        BY DEF p
      <4>2. Between(off, p) = <<data[off + 1]>>
        BY <1>3, <4>1, BetweenIs
      <4>3. Between(f, off') = <<data[f + 1]>>
        BY <1>3, <2>1, <2>2, BetweenIs
      <4>. QED BY <1>3, <2>1, <4>2, <4>3
    <3>2. Between(off, p) \o Between(p, f) = Between(off, f)
      BY <1>3, <2>1, <2>2, BetweenJoined
    <3>3. Between(off, f) \o Between(f, off') = Between(off, off')
      <4>1. off <= f
        BY <1>3, <2>1
      <4>. QED BY <1>3, <2>1, <2>2, <4>1, BetweenJoined
    <3>. QED BY <2>5, <3>1, <3>2, <3>3, Zenon
  <2>7. ASSUME ~clipped' PROVE ~clipped /\ Serialize(v) = Between(off, off')
    <3>1. ~clipped /\ CString(s) = s
      BY <1>5, <2>7, Zenon DEF Clip
    <3>2. WellFormed(s)
      BY <1>5
    <3>3. Numeral(LongLong(s)) = s
      BY <2>5, <3>1, <3>2, NumeralLongLong
    <3>4. Serialize(v) = (<<"i">> \o Numeral(LongLong(CString(s)))) \o <<"e">>
      BY <2>3, SerializeInt
    <3>. QED BY <2>6, <3>1, <3>3, <3>4, Zenon
  <2> HIDE DEF v
  <2>8. Deliver(v, stack)
    BY <1>5 DEF v
  <2>. QED BY <1>1, <2>2, <2>4, <2>7, <2>8, ReadText
<1>. QED BY <1>4, <1>5, Zenon DEF DecodeInt, NoStruct, s, f, p


LEMMA StrText == ASSUME DecoderInv, ValueInv, DecodeStr PROVE ValueInv'
<1> DEFINE f == Find(off, ":")
           p == f + 1
           s == NumberText(off, ":")
           n == LongLong(CString(s))
           t == SubSeq(data, p + 1, p + n)
<1>1. Enter
  BY DEF DecodeStr
<1>2. level' \in Nat
  BY <1>1, LevelUp DEF Enter
<1>3. data \in Seq(Octet) /\ off \in Nat /\ off <= Len(data) /\ Len(data) \in Nat
  <2>1. data \in Seq(Octet) /\ off \in Nat /\ off <= Len(data)
    BY Zenon DEF DecoderInv
  <2>. QED BY <2>1
<1>4. ASSUME NEW e, Fail(e) PROVE ValueInv'
  BY <1>2, <1>4, FailedText
<1> HIDE DEF s, f, n, t
<1>5. CASE /\ Ends(off, ":") # {} /\ IsSize(s) /\ ~TooShort(p, n) /\ off' = p + n /\ Clip(s)
           /\ Deliver(BenStr(t), stack)
  <2> DEFINE v == BenStr(t)
  <2>1. f \in Nat /\ off <= f /\ f + 1 <= Len(data) /\ data[f + 1] = ":"
    BY <1>3, <1>5, FindIs DEF f
  <2>2. WellFormed(s) /\ n \in Int /\ n >= 0
    BY <1>5, LongLongIsInt DEF IsSize, n
  <2>3. /\ off' \in Nat /\ off' = p + n /\ p \in Nat /\ f < p /\ f <= p /\ p <= off' /\ off <= p
        /\ off <= off' /\ f <= Len(data) /\ p <= Len(data) /\ f <= off'
    <3>1. off' = p + n
      BY <1>5
    <3>. QED BY <1>3, <2>1, <2>2, <3>1
  <2>4. off' <= Len(data)
    <3>1. ~(p + n > Len(data))
      BY <1>5, Zenon DEF TooShort
    <3>. QED BY <1>3, <2>2, <2>3, <3>1
  <2>5. s = Between(off, f) /\ s \in Seq(Octet)
    <3>1. s = Between(off, f)
      BY DEF s, f, NumberText, Between
    <3>. QED BY <1>3, <2>1, <2>3, <3>1, BetweenIs
  <2>6. t = Between(p, off') /\ t \in Seq(Octet) /\ Len(t) = n
    <3>1. t = Between(p, off')
      BY <2>3 DEF t, Between
    <3> HIDE DEF p
    <3>2. Between(p, off') \in Seq(Octet) /\ Len(Between(p, off')) = off' - p
      BY <1>3, <2>3, <2>4, BetweenIs
    <3>3. off' - p = n
      BY <2>2, <2>3
    <3>. QED BY <3>1, <3>2, <3>3, Zenon
  <2>7. v \in Simple /\ IsValue(v)
    BY <2>6, ValuesAre DEF Simple, AllKeys, StrKeys, BenStr
  <2>8. Between(off, off') = (s \o <<":">>) \o t
    <3>1. Between(f, p) = <<":">>
      BY <1>3, <2>1, <2>3, BetweenIs
    <3> HIDE DEF p
    <3>2. Between(off, f) \o Between(f, p) = Between(off, p)
      BY <1>3, <2>1, <2>3, BetweenJoined
    <3>3. Between(off, p) \o Between(p, off') = Between(off, off')
      BY <1>3, <2>3, <2>4, BetweenJoined
    <3>. QED BY <2>5, <2>6, <3>1, <3>2, <3>3, Zenon
  <2>9. ASSUME ~clipped' PROVE ~clipped /\ Serialize(v) = Between(off, off')
    <3>1. ~clipped /\ CString(s) = s
      BY <1>5, <2>9, Zenon DEF Clip
    <3>2. Numeral(LongLong(s)) = s
      BY <2>2, <2>5, <3>1, NumeralLongLong
    <3>3. Numeral(Len(t)) = s
      BY <2>6, <3>1, <3>2, Zenon DEF n
    <3>4. Serialize(v) = (Numeral(Len(t)) \o <<":">>) \o t
      BY <2>6, SerializeStr
    <3>. QED BY <2>8, <3>1, <3>3, <3>4, Zenon
  <2> HIDE DEF v
  <2>10. Deliver(v, stack)
    BY <1>5 DEF v
  <2>. QED BY <1>1, <2>3, <2>4, <2>7, <2>9, <2>10, ReadText
<1>. QED BY <1>4, <1>5, Zenon DEF DecodeStr, s, f, n, t

LEMMA OpenText ==
  ASSUME DecoderInv, ValueInv, NEW type \in {"dict", "list"},
         Open(IF type = "dict" THEN "d" ELSE "l", type)
  PROVE  ValueInv'
<1> DEFINE c == IF type = "dict" THEN "d" ELSE "l"
           f == Frame(type)
           n == Len(stack)
<1>1. Enter /\ Here = c /\ clipped' = clipped
  BY DEF Open
<1>2. level' \in Nat /\ level' = level + 1 /\ level \in Nat
  <2>1. level' = level + 1
    BY <1>1 DEF Enter
  <2>2. level \in Nat
    BY Zenon DEF DecoderInv
  <2>. QED BY <2>1, <2>2
<1>3. CASE NoStruct
  BY <1>2, <1>3, FailedText DEF NoStruct
<1>4. CASE off' = off + 1 /\ stack' = Append(stack, f) /\ UNCHANGED <<error, value, status>>
  <2>1. /\ status = "busy" /\ UNCHANGED callVars /\ level' <= MaxLevel
        /\ off + 1 <= Len(data)
    BY <1>1, AtEnter
  <2>2. data \in Seq(Octet) /\ off \in Nat /\ off <= Len(data)
    BY Zenon DEF DecoderInv
  <2>3. off' \in Nat /\ off <= off' /\ off' <= Len(data) /\ off < off'
    BY <1>4, <2>1, <2>2
  <2>4. TypedStack(stack, level)
    BY Zenon DEF ValueInv
  <2>5. n \in Nat /\ n <= level
    BY <2>4, StackLen DEF TypedStack
  <2> HIDE DEF n, c, f
  <2>6. level' \in 0..MaxDepth
    BY <1>2, <2>1, DepthIs
  <2>7. TypedStack(stack, level')
    <3>1. level <= level'
      BY <1>2
    <3>. QED BY <1>2, <2>4, <3>1, StackDeeper
  <2>8. level' - (n + 1) \in 0..MaxDepth /\ n + 1 <= level'
    BY <1>2, <2>5, <2>6, BencodeAssumption
  <2>9. TypedFrame(f, level' - (n + 1)) /\ FrameText(f) = <<c>>
    BY <2>8, NewFrameText DEF f, c
  <2>10. /\ TypedStack(Append(stack, f), level')
         /\ FlattenSeq(FrameTexts(Append(stack, f))) = FlattenSeq(FrameTexts(stack)) \o FrameText(f)
    BY <2>6, <2>7, <2>8, <2>9, FramePushed DEF n
  <2>11. Between(off, off') = <<c>>
    <3>1. Between(off, off + 1) = <<data[off + 1]>>
      BY <2>1, <2>2, <2>3, BetweenIs
    <3>. QED BY <1>1, <1>4, <3>1, Zenon DEF Here
  <2>12. Taken' = Taken \o <<c>>
    <3>1. Taken' = Taken \o Between(off, off')
      BY <2>1, <2>3, TakenGrows
    <3>. QED BY <2>11, <3>1, Zenon
  <2>13. ~clipped => FlattenSeq(FrameTexts(stack)) = Taken
    BY <2>1, Zenon DEF ValueInv
  <2>14. ~clipped' => FlattenSeq(FrameTexts(stack')) = Taken'
    BY <1>1, <1>4, <2>9, <2>10, <2>12, <2>13, Zenon
  <2>15. TypedStack(stack', level') /\ status' = "busy"
    <3>1. status' = "busy"
      BY <1>4, <2>1
    <3>. QED BY <1>4, <2>10, <3>1, Zenon
  <2>. QED BY <2>14, <2>15, Zenon DEF ValueInv
<1>. QED BY <1>3, <1>4 DEF Open

LEMMA CloseText == ASSUME DecoderInv, ValueInv, Close PROVE ValueInv'
<1> DEFINE r == Front(stack)
           f == Last(stack)
           v == Whole(f)
           n == Len(stack)
           m == level - n
<1>1. /\ status = "busy" /\ UNCHANGED callVars /\ level' = level /\ off' = off + 1
      /\ clipped' = clipped /\ stack # <<>> /\ ~AtEnd /\ data[off + 1] = "e" /\ f.key = None
      /\ Deliver(v, r)
  <2>1. Deliver(v, r)
    BY DEF Close, Whole, Top
  <2>. QED BY <2>1 DEF Close, Looping, Here, Top
<1>2. /\ data \in Seq(Octet) /\ off \in Nat /\ off <= Len(data) /\ level \in Nat
      /\ level <= MaxLevel
  BY <1>1, Zenon DEF DecoderInv
<1>3. off' \in Nat /\ off <= off' /\ off' <= Len(data) /\ off < off' /\ off < Len(data)
  <2>1. Len(data) \in Nat /\ off < Len(data)
    BY <1>1, <1>2 DEF AtEnd
  <2>. QED BY <1>1, <1>2, <2>1
<1>4. TypedStack(stack, level)
  BY Zenon DEF ValueInv
<1>5. level \in 0..MaxDepth
  BY <1>2, DepthIs
<1> HIDE DEF r, f, v, n
<1>6. /\ n \in 1..level /\ Len(r) = n - 1 /\ TypedStack(r, level) /\ TypedFrame(f, m)
      /\ FlattenSeq(FrameTexts(stack)) = FlattenSeq(FrameTexts(r)) \o FrameText(f)
  BY <1>1, <1>4, <1>5, FramePopped DEF n, r, f
<1>7. m \in 0..(MaxDepth - 1) /\ m \in 0..MaxDepth /\ m + 1 = level - Len(r)
  BY <1>2, <1>5, <1>6, BencodeAssumption
<1> HIDE DEF m
<1>8. v \in Nested[m + 1] /\ FrameText(f) \o <<"e">> = Serialize(v)
  BY <1>1, <1>6, <1>7, ClosedText DEF v
<1>9. IsValue(v)
  BY ValuesAre DEF v, Whole
<1>10. v \in Nested[level' - Len(r)] /\ TypedStack(r, level') /\ level' \in Nat /\ level' <= MaxLevel
  BY <1>1, <1>2, <1>6, <1>7, <1>8, Zenon
<1>11. ~clipped' => FlattenSeq(FrameTexts(r)) \o Serialize(v) = Taken'
  <2> DEFINE x == FlattenSeq(FrameTexts(r))
             y == FrameText(f)
             z == <<"e">>
  <2>1. x \in Seq(Octet) /\ y \in Seq(Octet) /\ z \in Seq(Octet)
    <3>1. FrameTexts(r) \in Seq(Seq(Octet))
      BY <1>5, <1>6, FrameTextsAre
    <3>2. y \in Seq(Octet)
      BY <1>6, <1>7, FrameTextType
    <3>. QED BY <3>1, <3>2, FlattenType, Letters
  <2>2. Between(off, off') = z
    <3>1. Between(off, off + 1) = <<data[off + 1]>>
      BY <1>2, <1>3, BetweenIs
    <3>. QED BY <1>1, <3>1, Zenon
  <2>3. Taken' = Taken \o z
    <3>1. Taken' = Taken \o Between(off, off')
      BY <1>1, <1>3, TakenGrows
    <3>. QED BY <2>2, <3>1, Zenon
  <2>4. ~clipped => x \o y = Taken
    BY <1>1, <1>6, Zenon DEF ValueInv
  <2> HIDE DEF x, y, z
  <2>5. Joined(x, y, z)
    BY <2>1, Joining, Zenon
  <2>6. y \o z = Serialize(v)
    BY <1>8, Zenon DEF y, z
  <2>. QED BY <1>1, <2>3, <2>4, <2>5, <2>6, Zenon DEF Joined, x
<1>. QED BY <1>1, <1>9, <1>10, <1>11, DeliveredText

LEMMA FailureText ==
  ASSUME DecoderInv, ValueInv,
         TooManyValues \/ Truncated \/ UnknownType \/ EndOfData \/ NoRoomForKey
  PROVE  ValueInv'
<1>1. level \in Nat
  BY Zenon DEF DecoderInv
<1>2. ASSUME NEW e, Fail(e), level' = level \/ level' = level + 1 PROVE ValueInv'
  <2>1. level' \in Nat
    BY <1>1, <1>2
  <2>. QED BY <1>2, <2>1, FailedText
<1>3. CASE status' = "undefined" /\ stack' = stack /\ level' = level
  BY <1>3, Zenon DEF ValueInv
<1>. QED BY <1>2, <1>3
     DEF TooManyValues, Truncated, UnknownType, Enter, EndOfData, NoRoomForKey

LEMMA ValueStep == ASSUME DecoderInv, ValueInv, DecoderStep PROVE ValueInv'
<1>1. CASE OpenDict
  <2>1. "dict" \in {"dict", "list"} /\ (IF "dict" = "dict" THEN "d" ELSE "l") = "d"
    OBVIOUS
  <2>. QED BY <1>1, <2>1, OpenText DEF OpenDict
<1>2. CASE OpenList
  <2>1. "list" \in {"dict", "list"} /\ (IF "list" = "dict" THEN "d" ELSE "l") = "l"
    OBVIOUS
  <2>. QED BY <1>2, <2>1, OpenText DEF OpenList
<1>. QED BY <1>1, <1>2, BoolText, IntText, StrText, CloseText, FailureText, Zenon DEF DecoderStep

(* At the start of a call nothing has been taken. *)
LEMMA ValueCall ==
  ASSUME status' = "busy", stack' = <<>>, level' \in Nat, start' = off', off' \in Nat
  PROVE  ValueInv'
<1>1. TypedStack(stack', level') /\ FlattenSeq(FrameTexts(stack')) = <<>>
  BY NoFrames
<1>2. Taken' = <<>>
  <2>1. \A s : \A n \in Nat : SubSeq(s, n + 1, n) = <<>>
    <3> TAKE s
    <3> TAKE n \in Nat
    <3>1. n + 1 \in Int /\ n \in Int /\ n < n + 1
      OBVIOUS
    <3>. QED BY <3>1, SubSeqEmpty
  <2>2. SubSeq(data', start' + 1, off') = <<>>
    BY <2>1, Zenon
  <2>. QED BY <2>2 DEF Taken, Between
<1>. QED BY <1>1, <1>2, Zenon DEF ValueInv

LEMMA ValueBenDecode ==
  ASSUME DecoderInv, NEW d, BenDecode(d)
  PROVE  ValueInv'
<1>1. status = "idle" /\ UNCHANGED <<start, off, level, stack>> /\ status' = "busy"
  BY DEF BenDecode, ctxVars
<1>2. stack = <<>> /\ level = 0 /\ off = 0 /\ start = 0
  BY <1>1, Zenon DEF DecoderInv
<1>. QED BY <1>1, <1>2, ValueCall

LEMMA ValueBenDecode2 ==
  ASSUME DecoderInv, NEW d, NEW from \in Nat, BenDecode2(d, from)
  PROVE  ValueInv'
<1>1. /\ status = "idle" /\ UNCHANGED <<level, stack>> /\ status' = "busy"
      /\ start' = from /\ off' = from
  BY DEF BenDecode2
<1>2. stack = <<>> /\ level = 0
  BY <1>1, Zenon DEF DecoderInv
<1>. QED BY <1>1, <1>2, ValueCall

LEMMA ValueGoOn == ASSUME DecoderInv, GoOn PROVE ValueInv'
<1>1. /\ status = "ok" /\ UNCHANGED <<off, stack>> /\ status' = "busy"
      /\ start' = off /\ level' = 0
  BY DEF GoOn
<1>2. stack = <<>> /\ off \in Nat
  BY <1>1, Zenon DEF DecoderInv
<1>. QED BY <1>1, <1>2, ValueCall

LEMMA ValueStutter == ASSUME ValueInv, UNCHANGED decoderVars PROVE ValueInv'
<1>1. UNCHANGED <<data, exact, start, off, level, stack, value, status, clipped>>
  BY DEF decoderVars, callVars, ctxVars
<1>. QED BY <1>1 DEF ValueInv, Taken, Between

LEMMA ValueInit == ASSUME DecoderInit PROVE ValueInv
<1>1. stack = <<>> /\ level = 0 /\ status = "idle"
  BY DEF DecoderInit
<1>. QED BY <1>1, NoFrames DEF ValueInv

LEMMA ValueIsOneEncoding == ValueInv => OneEncoding
<1>1. \A s : FrameTexts(s) = [i \in DOMAIN s |-> FrameText(s[i])]
  BY DEF FrameTexts
<1>2. Taken = SubSeq(data, start + 1, off)
  BY DEF Taken, Between
<1>. QED BY <1>1, <1>2, Zenon DEF ValueInv, OneEncoding

-----------------------------------------------------------------------------
(* The start of a run, and the caller's containers. *)

(***************************************************************************)
(* What the start of a run keeps.  The buffer is the beginning of the      *)
(* file, with one octet too many once the end has been seen; what is       *)
(* decoded is the file, from its first octet to its last.  After a value   *)
(* was found no decoding goes on.                                          *)
(***************************************************************************)
ReadInv ==
  /\ buf \in Seq(Octet) /\ eof \in BOOLEAN /\ Len(buf) <= BufSize
  /\ run = "idle" => buf = <<>> /\ ~eof
  /\ run \in {"reading", "decoding"} => file \in Seq(Octet) /\ Len(file) < BufSize
  /\ run = "reading" =>
       /\ \A i \in 1..Len(buf) : i <= Len(file) => buf[i] = file[i]
       /\ IF eof THEN Len(buf) = Len(file) + 1 ELSE Len(buf) <= Len(file)

ParseInv ==
  /\ run = "decoding" => data = file /\ exact /\ start = 0
  /\ run # "connect" => ret = -1
  /\ ret = 1 => status = "ok" /\ exact

StartInv == ReadInv /\ ParseInv /\ InfoHash

LEMMA StartInit == StartupInit => StartInv
<1> SUFFICES ASSUME StartupInit PROVE StartInv
  OBVIOUS
<1>1. run = "idle" /\ buf = <<>> /\ eof = FALSE /\ ret = -1 /\ hashed = <<>>
  BY DEF StartupInit
<1>2. ret # 1 /\ hashed = <<>>
  BY <1>1
<1>3. Len(<<>>) <= BufSize /\ <<>> \in Seq(Octet)
  BY StartupAssumption
<1>4. ReadInv
  <2>1. buf \in Seq(Octet) /\ Len(buf) <= BufSize /\ eof \in BOOLEAN
    BY <1>1, <1>3
  <2>2. run # "reading" /\ run # "decoding"
    BY <1>1
  <2>. QED BY <1>1, <2>1, <2>2 DEF ReadInv
<1>5. ParseInv
  BY <1>1, <1>2 DEF ParseInv
<1>6. InfoHash
  BY <1>2 DEF InfoHash
<1>. QED BY <1>4, <1>5, <1>6 DEF StartInv

(* The decoder starts nothing of its own once a value was found. *)
LEMMA StartKept ==
  ASSUME StartInv, UNCHANGED startupVars, ret # 1,
         run = "decoding" => UNCHANGED callVars
  PROVE  StartInv'
<1>1. UNCHANGED <<run, file, buf, eof, ret, hashed>>
  BY DEF startupVars
<1>2. ReadInv /\ ParseInv /\ InfoHash
  BY DEF StartInv
<1>3. ReadInv'
  BY <1>1, <1>2 DEF ReadInv
<1>4. ParseInv'
  BY <1>1, <1>2 DEF ParseInv, callVars
<1>5. InfoHash'
  BY <1>1, <1>2 DEF InfoHash
<1>. QED BY <1>3, <1>4, <1>5 DEF StartInv

LEMMA StartStutter ==
  ASSUME StartInv, UNCHANGED startupVars, UNCHANGED decoderVars
  PROVE  StartInv'
<1>1. UNCHANGED <<run, file, buf, eof, ret, hashed, data, exact, start, status, clipped>>
  BY DEF startupVars, decoderVars, callVars
<1>2. ReadInv' /\ ParseInv' /\ InfoHash'
  BY <1>1 DEF StartInv, ReadInv, ParseInv, InfoHash
<1>. QED BY <1>2 DEF StartInv

LEMMA OpenFileKeeps ==
  ASSUME StartInv, NEW f \in Files, OpenFile(f)
  PROVE  StartInv'
<1>1. /\ run = "idle" /\ UNCHANGED <<buf, eof>> /\ buf = <<>> /\ ~eof /\ ret = -1
      /\ eof \in BOOLEAN /\ <<>> \in Seq(Octet) /\ Len(<<>>) <= BufSize
      /\ hashed = <<>> /\ hashed' = hashed
  BY DEF OpenFile, StartInv, ReadInv, ParseInv, InfoHash
<1>2. \/ run' = "reading" /\ file' = f /\ ret' = ret
      \/ run' = "connect" /\ ret' = 0
  BY DEF OpenFile, ParseReturns
<1>3. f \in Seq(Octet) /\ Len(f) < BufSize /\ BufSize \in Nat
  BY StartupAssumption
<1>4. ret' # 1 /\ (run' # "connect" => ret' = -1) /\ run' # "decoding" /\ run' # "idle"
  BY <1>1, <1>2
<1>5. ParseInv'
  BY <1>4 DEF ParseInv
<1>6. InfoHash'
  BY <1>1, <1>4 DEF InfoHash
<1>7. ReadInv'
  <2>1. /\ buf' = <<>> /\ eof' = FALSE /\ buf' \in Seq(Octet) /\ Len(buf') = 0
        /\ Len(buf') <= BufSize
    BY <1>1
  <2>2. CASE run' = "connect"
    BY <1>1, <1>4, <2>1, <2>2 DEF ReadInv
  <2>3. CASE run' = "reading" /\ file' = f
    <3>1. file' \in Seq(Octet) /\ Len(file') < BufSize /\ Len(buf') <= Len(file')
      BY <1>3, <2>1, <2>3
    <3>2. \A i \in 1..Len(buf') : FALSE
      BY <2>1
    <3>. QED BY <1>4, <2>1, <2>3, <3>1, <3>2 DEF ReadInv
  <2>. QED BY <1>2, <2>2, <2>3
<1>. QED BY <1>5, <1>6, <1>7 DEF StartInv

LEMMA ReadOctetKeeps == ASSUME StartInv, ReadOctet PROVE StartInv'
<1>1. /\ run = "reading" /\ ~eof /\ UNCHANGED <<run, file, ret, hashed>>
      /\ \/ /\ Len(buf) < Len(file) /\ buf' = Append(buf, file[Len(buf) + 1]) /\ eof' = eof
         \/ /\ ~(Len(buf) < Len(file)) /\ eof' = TRUE
            /\ \E c \in IF buf = <<>> THEN Octet ELSE {Last(buf)} : buf' = Append(buf, c)
  BY DEF ReadOctet
<1>2. /\ buf \in Seq(Octet) /\ file \in Seq(Octet) /\ Len(file) < BufSize /\ BufSize \in Nat
      /\ Len(buf) <= Len(file) /\ ret = -1 /\ eof \in BOOLEAN
      /\ \A i \in 1..Len(buf) : i <= Len(file) => buf[i] = file[i]
      /\ hashed = <<>>
  BY <1>1, StartupAssumption DEF StartInv, ReadInv, ParseInv, InfoHash
<1>3. PICK c \in Octet :
        /\ buf' = Append(buf, c)
        /\ \/ Len(buf) < Len(file) /\ c = file[Len(buf) + 1] /\ eof' = eof
           \/ ~(Len(buf) < Len(file)) /\ eof' = TRUE
  <2>1. CASE Len(buf) < Len(file)
    <3>1. Len(buf) + 1 \in 1..Len(file)
      BY <1>2, <2>1
    <3>2. file[Len(buf) + 1] \in Octet
      BY <1>2, <3>1, ElementOfSeq
    <3>. QED BY <1>1, <2>1, <3>2
  <2>2. CASE ~(Len(buf) < Len(file))
    <3>1. buf # <<>> => Last(buf) \in Octet
      BY <1>2, FrontLast
    <3>. QED BY <1>1, <2>2, <3>1
  <2>. QED BY <2>1, <2>2
<1>4. /\ buf' \in Seq(Octet) /\ Len(buf') = Len(buf) + 1 /\ buf'[Len(buf) + 1] = c
      /\ \A i \in 1..Len(buf) : buf'[i] = buf[i]
  BY <1>2, <1>3
<1>5. /\ IF eof' THEN Len(buf') = Len(file) + 1 ELSE Len(buf') <= Len(file)
      /\ Len(buf') <= BufSize
  BY <1>1, <1>2, <1>3, <1>4
<1>6. \A i \in 1..Len(buf') : i <= Len(file) => buf'[i] = file[i]
  <2> SUFFICES ASSUME NEW i \in 1..Len(buf'), i <= Len(file) PROVE buf'[i] = file[i]
    OBVIOUS
  <2>1. i \in 1..Len(buf) \/ i = Len(buf) + 1
    BY <1>2, <1>4
  <2>. QED BY <1>2, <1>3, <1>4, <2>1
<1>7. ReadInv'
  <2>1. eof' \in BOOLEAN /\ run' = "reading" /\ file' = file
    BY <1>1, <1>2
  <2>. QED BY <1>2, <1>4, <1>5, <1>6, <2>1, Zenon DEF ReadInv
<1>8. ParseInv' /\ InfoHash'
  BY <1>1, <1>2 DEF ParseInv, InfoHash
<1>. QED BY <1>7, <1>8 DEF StartInv

LEMMA EndReadKeeps ==
  ASSUME DecoderInv, StartInv, EndRead
  PROVE  /\ StartInv'
         /\ UNCHANGED decoderVars \/ \E d \in Seq(Octet) : BenDecode(d)
<1>1. /\ run = "reading" /\ eof /\ UNCHANGED <<file, buf, eof, hashed>>
      /\ \/ run' = "connect" /\ ret' = 0 /\ UNCHANGED decoderVars
         \/ BenDecode(SubSeq(buf, 1, OctetsRead)) /\ run' = "decoding" /\ ret' = ret
  BY DEF EndRead, ParseReturns
<1>2. /\ buf \in Seq(Octet) /\ file \in Seq(Octet) /\ Len(file) < BufSize /\ Len(buf) <= BufSize
      /\ Len(buf) = Len(file) + 1 /\ ret = -1 /\ eof \in BOOLEAN
      /\ \A i \in 1..Len(buf) : i <= Len(file) => buf[i] = file[i]
      /\ hashed = <<>>
  BY <1>1 DEF StartInv, ReadInv, ParseInv, InfoHash
<1>3. SubSeq(buf, 1, OctetsRead) = file
  <2>1. OctetsRead = Len(file) /\ Len(file) \in Nat /\ Len(file) <= Len(buf)
    BY <1>2 DEF OctetsRead
  <2> DEFINE t == SubSeq(buf, 1, Len(file))
  <2>2. t \in Seq(Octet) /\ Len(t) = Len(file) /\ \A i \in 1..Len(file) : t[i] = buf[i]
    BY <1>2, <2>1
  <2>3. \A i \in 1..Len(file) : t[i] = file[i]
    BY <1>2, <2>1, <2>2
  <2> HIDE DEF t
  <2>4. t = file
    BY <1>2, <2>2, <2>3, SeqEqual
  <2>. QED BY <2>1, <2>4 DEF t
<1>4. ReadInv'
  BY <1>1, <1>2 DEF ReadInv
<1>5. ret' # 1 /\ (run' # "connect" => ret' = -1)
  BY <1>1, <1>2
<1>6. CASE run' = "connect" /\ UNCHANGED decoderVars
  BY <1>1, <1>2, <1>4, <1>5, <1>6 DEF StartInv, ParseInv, InfoHash
<1>7. CASE BenDecode(SubSeq(buf, 1, OctetsRead))
  <2>1. BenDecode(file)
    BY <1>3, <1>7
  <2>2. status = "idle" /\ data' = file /\ exact' = TRUE /\ start' = start
    BY <2>1 DEF BenDecode
  <2>3. start = 0
    BY <2>2, Zenon DEF DecoderInv
  <2>4. ParseInv' /\ InfoHash'
    BY <1>1, <1>2, <1>5, <2>2, <2>3 DEF ParseInv, InfoHash
  <2>. QED BY <1>2, <1>4, <2>1, <2>4 DEF StartInv
<1>. QED BY <1>1, <1>6, <1>7

(***************************************************************************)
(* The info hash.                                                          *)
(***************************************************************************)

(* From somewhere on, f has the key info and the octets h behind it. *)
HashIn(f, h) ==
  \E p \in DOMAIN f :
    LET text == Serialize(BenStr(InfoKey)) \o h
    IN  SubSeq(f, p, Min({p + Len(text) - 1, Len(f)})) = text

(* The text t between others. *)
Surrounded(x, a, t, c, y) == (<<x>> \o ((a \o t) \o c)) \o <<y>>

(* It stands in f behind n octets. *)
StandsIn(f, t, n) ==
  /\ n + 1 \in DOMAIN f /\ n + Len(t) \in Nat /\ n + Len(t) <= Len(f)
  /\ SubSeq(f, n + 1, n + Len(t)) = t

LEMMA TextWithin ==
  ASSUME NEW S, NEW a \in Seq(S), NEW t \in Seq(S), NEW c \in Seq(S), NEW x \in S, NEW y \in S,
         NEW f, f = Surrounded(x, a, t, c, y)
  PROVE  f \in Seq(S) /\ StandsIn(f, t, Len(a) + 1)
<1> DEFINE n == Len(a) + 1
           q == n + Len(t)
           u == SubSeq(f, n + 1, q)
<1>1. Len(a) \in Nat /\ Len(t) \in Nat /\ Len(c) \in Nat
  OBVIOUS
<1>2. /\ f \in Seq(S) /\ Len(f) = Len(a) + Len(t) + Len(c) + 2
      /\ \A i \in 1..Len(t) : f[Len(a) + 1 + i] = t[i]
  <2>1. /\ a \o t \in Seq(S) /\ Len(a \o t) = Len(a) + Len(t)
        /\ \A i \in 1..Len(t) : (a \o t)[Len(a) + i] = t[i]
    OBVIOUS
  <2> DEFINE g == a \o t
  <2> HIDE DEF g
  <2>2. /\ g \o c \in Seq(S) /\ Len(g \o c) = Len(g) + Len(c)
        /\ \A i \in 1..Len(g) : (g \o c)[i] = g[i]
    BY <2>1 DEF g
  <2> DEFINE h == g \o c
  <2> HIDE DEF h
  <2>3. h \in Seq(S) /\ Len(h) \in Nat
    BY <2>2 DEF h
  <2>4. /\ <<x>> \o h \in Seq(S) /\ Len(<<x>> \o h) = Len(h) + 1
        /\ \A i \in 1..Len(h) : (<<x>> \o h)[i + 1] = h[i]
    BY <2>3
  <2> DEFINE k == <<x>> \o h
  <2> HIDE DEF k
  <2>5. k \in Seq(S) /\ Len(k) \in Nat
    BY <2>4 DEF k
  <2>6. /\ k \o <<y>> \in Seq(S) /\ Len(k \o <<y>>) = Len(k) + 1
        /\ \A i \in 1..Len(k) : (k \o <<y>>)[i] = k[i]
    BY <2>5
  <2>7. f = k \o <<y>>
    BY Zenon DEF k, h, g, Surrounded
  <2>8. f \in Seq(S) /\ Len(f) = Len(k) + 1 /\ \A i \in 1..Len(k) : f[i] = k[i]
    BY <2>6, <2>7, Zenon
  <2>9. /\ Len(g) = Len(a) + Len(t) /\ \A i \in 1..Len(t) : g[Len(a) + i] = t[i]
        /\ Len(h) = Len(g) + Len(c) /\ \A i \in 1..Len(g) : h[i] = g[i]
        /\ Len(k) = Len(h) + 1 /\ \A i \in 1..Len(h) : k[i + 1] = h[i]
    BY <2>1, <2>2, <2>4, Zenon DEF g, h, k
  <2>10. ASSUME NEW i \in 1..Len(t) PROVE f[Len(a) + 1 + i] = t[i]
    <3>1. Len(a) + i \in 1..Len(g) /\ Len(a) + i \in 1..Len(h)
          /\ (Len(a) + i) + 1 \in 1..Len(k) /\ (Len(a) + i) + 1 = Len(a) + 1 + i
      BY <1>1, <2>9
    <3>2. g[Len(a) + i] = t[i]
      BY <2>9
    <3>3. h[Len(a) + i] = g[Len(a) + i] /\ k[(Len(a) + i) + 1] = h[Len(a) + i]
          /\ f[(Len(a) + i) + 1] = k[(Len(a) + i) + 1]
      BY <2>8, <2>9, <3>1
    <3>. QED BY <3>1, <3>2, <3>3
  <2>. QED BY <1>1, <2>8, <2>9, <2>10
<1>3. /\ n \in Nat /\ n + 1 \in 1..Len(f) /\ q \in Nat /\ q <= Len(f)
      /\ \A i \in 1..Len(t) : n + i \in 1..Len(f) /\ n + 1 + i - 1 = n + i
      /\ q + 1 - (n + 1) = Len(t)
  BY <1>1, <1>2
<1>4. \A i \in 1..Len(t) : f[n + i] = t[i]
  BY <1>2
<1> HIDE DEF n
<1>5. u \in Seq(S) /\ Len(u) = Len(t) /\ \A i \in 1..Len(t) : u[i] = f[n + i]
  <2> HIDE DEF q
  <2>1. n + 1 \in Int /\ q \in Int /\ DOMAIN f = 1..Len(f)
        /\ \A i \in (n + 1)..q : i \in 1..Len(f)
    BY <1>2, <1>3
  <2>2. \A i \in (n + 1)..q : f[i] \in S
    BY <1>2, <2>1, ElementOfSeq
  <2>3. /\ u \in Seq(S) /\ Len(u) = IF n + 1 <= q THEN q - (n + 1) + 1 ELSE 0
        /\ \A i \in 1..(q - (n + 1) + 1) : u[i] = f[n + 1 + i - 1]
    BY <2>1, <2>2, SubSeqProperties, SMTT(20)
  <2>4. q - (n + 1) + 1 = Len(t) /\ (n + 1 <= q \/ Len(t) = 0)
    BY <1>1, <1>3, <2>1
  <2>5. Len(u) = Len(t)
    <3> DEFINE d == q - (n + 1) + 1
    <3>1. d = Len(t) /\ (n + 1 <= q => Len(u) = d) /\ (~(n + 1 <= q) => Len(u) = 0)
      BY <2>3, <2>4
    <3> HIDE DEF d
    <3>. QED BY <2>4, <3>1, Zenon
  <2>. QED BY <1>3, <2>3, <2>4, <2>5
<1>6. u = t
  <2>1. \A i \in 1..Len(t) : u[i] = t[i]
    BY <1>4, <1>5
  <2> HIDE DEF u
  <2>. QED BY <1>5, <2>1, SeqEqual
<1>7. n + 1 \in DOMAIN f
  BY <1>2, <1>3
<1>8. StandsIn(f, t, n)
  BY <1>3, <1>6, <1>7, Zenon DEF StandsIn
<1>. QED BY <1>2, <1>8, Zenon DEF n

LEMMA MinIsFirst ==
  ASSUME NEW m \in Nat, NEW n \in Nat, m <= n
  PROVE  Min({m, n}) = m
<1> DEFINE S == {m, n}
<1>1. S \subseteq Nat /\ S # {} /\ m \in S /\ \A k \in S : k = m \/ k = n
  OBVIOUS
<1> HIDE DEF S
<1>2. Min(S) \in S /\ \A k \in S : Min(S) <= k
  BY <1>1, MinIsLeast
<1>3. Min(S) = m \/ Min(S) = n
  BY <1>1, <1>2, Zenon
<1>4. Min(S) <= m
  BY <1>1, <1>2, Zenon
<1>5. Min(S) = m
  BY <1>3, <1>4
<1>. QED BY <1>5 DEF S

LEMMA HashWithin ==
  ASSUME NEW f \in Seq(Octet), NEW h, NEW n \in Nat,
         StandsIn(f, Serialize(BenStr(InfoKey)) \o h, n)
  PROVE  HashIn(f, h)
<1> DEFINE t == Serialize(BenStr(InfoKey)) \o h
           p == n + 1
           q == n + Len(t)
<1>1. p \in DOMAIN f /\ q \in Nat /\ q <= Len(f) /\ SubSeq(f, p, q) = t
  BY Zenon DEF StandsIn
<1>2. p + Len(t) - 1 = q
  <2>1. Len(t) \in Int
    <3>1. Len(t) = q - n
      BY <1>1
    <3>. QED BY <1>1, <3>1
  <2> HIDE DEF t
  <2>. QED BY <2>1
<1>3. Min({q, Len(f)}) = q
  BY <1>1, MinIsFirst
<1>4. SubSeq(f, p, Min({p + Len(t) - 1, Len(f)})) = t
  BY <1>1, <1>2, <1>3, Zenon
<1> HIDE DEF p
<1>. QED BY <1>1, <1>4, Zenon DEF HashIn

(* ben_dict_get_by_str finds a value whose key is the string. *)
LEMMA FoundByStr ==
  ASSUME NEW ks \in Seq(AllKeys), NEW vs, NEW s \in Seq(Octet), GetByStr(ks, vs, s) # None
  PROVE  \E j \in 1..Len(ks) : ks[j] = BenStr(s) /\ GetByStr(ks, vs, s) = vs[j]
<1> DEFINE found == {i \in DOMAIN ks : SameStr(ks[i], s)}
           j == Min(found)
<1>1. found # {} /\ GetByStr(ks, vs, s) = vs[j]
  BY DEF GetByStr
<1>2. DOMAIN ks = 1..Len(ks) /\ found \subseteq Nat
  OBVIOUS
<1>3. j \in found
  <2> HIDE DEF found
  <2>. QED BY <1>1, <1>2, MinIsLeast
<1>4. j \in 1..Len(ks) /\ SameStr(ks[j], s)
  BY <1>2, <1>3
<1>5. ks[j] = BenStr(s)
  <2> HIDE DEF j
  <2>1. ks[j] \in AllKeys
    BY <1>4, ElementOfSeq
  <2>. QED BY <1>4, <2>1, SameStrIs
<1>. QED BY <1>1, <1>4, <1>5, Zenon

(* Its text stands in the text of the dictionary behind that of its key. *)
LEMMA EntryWithin ==
  ASSUME NEW n \in 0..(MaxDepth - 1), NEW b, IsDictOf(b, Nested[n]), NEW j \in 1..Len(b.keys)
  PROVE  /\ Serialize(b) \in Seq(Octet)
         /\ \E k \in Nat :
              StandsIn(Serialize(b), Serialize(b.keys[j]) \o Serialize(b.values[j]), k)
<1> DEFINE ss == [i \in DOMAIN Sorted(b) |->
                    Serialize(Sorted(b)[i][1]) \o Serialize(Sorted(b)[i][2])]
           t == Serialize(b.keys[j]) \o Serialize(b.values[j])
<1>1. ss \in Seq(Seq(Octet)) /\ Serialize(b) = (<<"d">> \o FlattenSeq(ss)) \o <<"e">>
  BY SerializeDict
<1>2. PICK i \in 1..Len(b.keys) : Sorted(b)[i] = <<b.keys[j], b.values[j]>>
  BY SortedParts
<1>3. DOMAIN Sorted(b) = 1..Len(b.keys)
  BY SortedParts
<1>4. Sorted(b)[i][1] = b.keys[j] /\ Sorted(b)[i][2] = b.values[j]
  BY <1>2
<1>5. ss[i] = t /\ i \in DOMAIN ss
  BY <1>3, <1>4, Zenon
<1> HIDE DEF ss, t
<1>6. i \in 1..Len(ss)
  BY <1>1, <1>5
<1>7. t \in Seq(Octet)
  <2>1. ss[i] \in Seq(Octet)
    BY <1>1, <1>6, ElementOfSeq
  <2>. QED BY <1>5, <2>1
<1>8. \E a, c \in Seq(Octet) : FlattenSeq(ss) = (a \o t) \o c
  <2>1. \E a, c \in Seq(Octet) : FlattenSeq(ss) = (a \o ss[i]) \o c
    BY <1>1, <1>6, FlattenHas
  <2>. QED BY <1>5, <2>1, Zenon
<1>9. PICK a \in Seq(Octet), c \in Seq(Octet) : FlattenSeq(ss) = (a \o t) \o c
  BY <1>8
<1>10. Serialize(b) = Surrounded("d", a, t, c, "e")
  BY <1>1, <1>9, Zenon DEF Surrounded
<1>11. Serialize(b) \in Seq(Octet) /\ StandsIn(Serialize(b), t, Len(a) + 1)
  BY <1>7, <1>10, TextWithin, Letters
<1>12. Len(a) + 1 \in Nat
  OBVIOUS
<1>. QED BY <1>11, <1>12, Zenon DEF t

(* What parse_torrent looks up is one of the dictionary's values. *)
LEMMA InfoEntry ==
  ASSUME NEW b \in Nested[MaxDepth], b.type = "dict", Lookup(b, InfoKey) # None
  PROVE  /\ MaxDepth - 1 \in Nat /\ IsDictOf(b, Nested[MaxDepth - 1])
         /\ \E j \in 1..Len(b.keys) :
              b.keys[j] = BenStr(InfoKey) /\ Lookup(b, InfoKey) = b.values[j]
<1> DEFINE n == MaxDepth - 1
           info == Lookup(b, InfoKey)
<1>1. n \in Nat /\ n + 1 = MaxDepth
  BY BencodeAssumption, CodecAssumption
<1>2. InfoKey \in Seq(Octet)
  <2>1. Seq(Octet \ {"NUL"}) \subseteq Seq(Octet)
    BY SeqMonotonic
  <2>. QED BY <2>1, StartupAssumption
<1> HIDE DEF n
<1>3. IsDictOf(b, Nested[n])
  <2>1. b \in Nested[n + 1]
    BY <1>1
  <2>2. b \notin Simple
    BY SimpleIs
  <2>. QED BY <1>1, <2>1, <2>2, NestedParts DEF IsListOf
<1>4. \E j \in 1..Len(b.keys) : b.keys[j] = BenStr(InfoKey) /\ info = b.values[j]
  <2>1. b.keys \in Seq(AllKeys)
    BY <1>3 DEF IsDictOf
  <2>2. info = GetByStr(b.keys, b.values, InfoKey) /\ info # None
    BY DEF Lookup
  <2>. QED BY <1>2, <2>1, <2>2, FoundByStr
<1>. QED BY <1>1, <1>3, <1>4 DEF n

(* What it hashes of it stands in the text. *)
LEMMA InfoWithin ==
  ASSUME NEW b \in Nested[MaxDepth], b.type = "dict", Lookup(b, InfoKey) # None
  PROVE  HashIn(Serialize(b), Serialize(Lookup(b, InfoKey)))
<1> DEFINE n == MaxDepth - 1
           info == Lookup(b, InfoKey)
<1>1. n \in Nat /\ n \in 0..(MaxDepth - 1) /\ IsDictOf(b, Nested[n])
  BY InfoEntry
<1>2. PICK j \in 1..Len(b.keys) : b.keys[j] = BenStr(InfoKey) /\ info = b.values[j]
  BY InfoEntry
<1> HIDE DEF n, info
<1>3. PICK k \in Nat :
        /\ Serialize(b) \in Seq(Octet)
        /\ StandsIn(Serialize(b), Serialize(b.keys[j]) \o Serialize(b.values[j]), k)
  BY <1>1, EntryWithin
<1>4. StandsIn(Serialize(b), Serialize(BenStr(InfoKey)) \o Serialize(info), k)
  BY <1>2, <1>3, Zenon
<1>5. HashIn(Serialize(b), Serialize(info))
  BY <1>3, <1>4, HashWithin
<1>. QED BY <1>5 DEF info

(* And there is always something to hash. *)
LEMMA DictHasText ==
  ASSUME NEW n \in 0..(MaxDepth - 1), NEW b, IsDictOf(b, Nested[n])
  PROVE  Serialize(b) # <<>>
<1> DEFINE ss == [i \in DOMAIN Sorted(b) |->
                    Serialize(Sorted(b)[i][1]) \o Serialize(Sorted(b)[i][2])]
           t == <<"d">> \o FlattenSeq(ss)
<1>1. ss \in Seq(Seq(Octet)) /\ Serialize(b) = t \o <<"e">>
  BY SerializeDict
<1> HIDE DEF ss
<1>2. FlattenSeq(ss) \in Seq(Octet) /\ <<"d">> \in Seq(Octet)
  BY <1>1, FlattenType, Letters
<1>3. t \in Seq(Octet)
  BY <1>2
<1> HIDE DEF t
<1>4. Len(t \o <<"e">>) = Len(t) + 1 /\ Len(t) \in Nat
  BY <1>3
<1>5. t \o <<"e">> # <<>>
  BY <1>4
<1>. QED BY <1>1, <1>5

LEMMA InfoHasText ==
  ASSUME NEW b \in Nested[MaxDepth], b.type = "dict", Lookup(b, InfoKey).type = "dict"
  PROVE  Serialize(Lookup(b, InfoKey)) # <<>>
<1> DEFINE n == MaxDepth - 1
           info == Lookup(b, InfoKey)
<1>1. info # None
  BY DEF None
<1>2. n \in Nat /\ IsDictOf(b, Nested[n]) /\ \E j \in 1..Len(b.keys) : info = b.values[j]
  BY <1>1, InfoEntry
<1>3. info.type = "dict"
  OBVIOUS
<1> HIDE DEF n, info
<1>4. info \in Nested[n]
  <2>1. b.values \in Seq(Nested[n]) /\ Len(b.keys) = Len(b.values)
    BY <1>2 DEF IsDictOf
  <2>2. PICK j \in 1..Len(b.values) : info = b.values[j]
    BY <1>2, <2>1
  <2>. QED BY <2>1, <2>2, ElementOfSeq
<1>5. info \notin Simple
  BY <1>3, SimpleIs
<1>6. n # 0
  BY <1>4, <1>5, NestedIs
<1>7. n - 1 \in Nat /\ (n - 1) + 1 = n /\ n - 1 \in 0..(MaxDepth - 1)
  <2>1. n \in Nat /\ MaxDepth \in Nat /\ n = MaxDepth - 1
    BY <1>2, BencodeAssumption DEF n
  <2>. QED BY <1>6, <2>1
<1>8. IsDictOf(info, Nested[n - 1])
  <2>1. info \in Nested[(n - 1) + 1]
    BY <1>4, <1>7
  <2>2. IsListOf(info, Nested[n - 1]) \/ IsDictOf(info, Nested[n - 1])
    BY <1>5, <1>7, <2>1, NestedParts
  <2>. QED BY <1>3, <2>2 DEF IsListOf
<1>9. Serialize(info) # <<>>
  BY <1>7, <1>8, DictHasText
<1>. QED BY <1>9 DEF info

LEMMA SubSeqAll ==
  ASSUME NEW S, NEW s \in Seq(S)
  PROVE  SubSeq(s, 1, Len(s)) = s
<1> DEFINE t == SubSeq(s, 1, Len(s))
<1>1. t \in Seq(S) /\ Len(t) = Len(s) /\ \A i \in 1..Len(t) : t[i] = s[i]
  OBVIOUS
<1> HIDE DEF t
<1>2. t = s
  BY <1>1, SeqEqual
<1>. QED BY <1>2 DEF t

(* What ben_decode accepts is the encoding of the value, all of it. *)
LEMMA AllTaken ==
  ASSUME DecoderInv, ValueInv, status = "ok", exact, start = 0, ~clipped
  PROVE  Serialize(value) = data
<1>1. off = Len(data) /\ Serialize(value) = Taken
  BY Zenon DEF ValueInv
<1>2. Taken = SubSeq(data, 1, Len(data))
  <2>1. start + 1 = 1
    OBVIOUS
  <2>. QED BY <1>1, <2>1, Zenon DEF Taken, Between
<1>3. data \in Seq(Octet)
  BY Zenon DEF DecoderInv
<1>. QED BY <1>1, <1>2, <1>3, SubSeqAll, Zenon

LEMMA ParseTorrentFileKeeps ==
  ASSUME DecoderInv, ValueInv, StartInv, ParseTorrentFile
  PROVE  StartInv'
<1>1. /\ run = "decoding" /\ ret = -1 /\ data = file /\ exact /\ start = 0
      /\ file \in Seq(Octet) /\ Len(file) < BufSize /\ hashed = <<>>
      /\ UNCHANGED <<data, exact, start, status, value, clipped, file, buf, eof>>
  BY DEF ParseTorrentFile, StartInv, ReadInv, ParseInv, InfoHash, decoderVars, callVars
<1>2. run' \in {"connect", "undefined"}
  BY DEF ParseTorrentFile, Undefined, ParseReturns
<1>3. \/ run' = "undefined" /\ ret' = ret /\ hashed' = hashed
      \/ run' = "connect" /\ ret' = 0 /\ hashed' = hashed
      \/ /\ run' = "connect" /\ ret' = 1 /\ status # "undefined" /\ value # None
         /\ value.type = "dict" /\ Lookup(value, InfoKey).type = "dict"
         /\ Lookup(value, InfoKey) # None
         /\ hashed' = Serialize(Lookup(value, InfoKey))
  BY DEF ParseTorrentFile, Undefined, ParseReturns, Complete
<1>4. ReadInv'
  BY <1>1, <1>2 DEF StartInv, ReadInv
<1>5. CASE ret' # 1 /\ hashed' = hashed
  <2>1. ParseInv'
    BY <1>1, <1>2, <1>3, <1>5 DEF ParseInv
  <2>2. InfoHash'
    BY <1>1, <1>5 DEF InfoHash
  <2>. QED BY <1>4, <2>1, <2>2 DEF StartInv
<1>6. CASE /\ run' = "connect" /\ ret' = 1 /\ status # "undefined" /\ value # None
           /\ value.type = "dict" /\ Lookup(value, InfoKey).type = "dict"
           /\ Lookup(value, InfoKey) # None
           /\ hashed' = Serialize(Lookup(value, InfoKey))
  <2>1. status = "ok"
    <3>1. status \in {"ok", "failed", "undefined"}
      BY DEF ParseTorrentFile
    <3>2. status = "failed" => value = None
      BY Zenon DEF DecoderInv, ErrorReported
    <3>. QED BY <1>6, <3>1, <3>2
  <2>2. ParseInv'
    BY <1>1, <1>6, <2>1 DEF ParseInv
  <2>3. value \in Nested[MaxDepth]
    BY <2>1, Zenon DEF ValueInv
  <2>4. HashIn(Serialize(value), Serialize(Lookup(value, InfoKey)))
    BY <1>6, <2>3, InfoWithin
  <2>5. ~clipped => Serialize(value) = file
    BY <1>1, <2>1, AllTaken
  <2>6. ~clipped' => HashIn(file', hashed')
    BY <1>1, <1>6, <2>4, <2>5, Zenon
  <2>7. InfoHash'
    <3>1. \A f, h : HashIn(f, h) <=>
            \E p \in DOMAIN f :
              LET text == Serialize(BenStr(InfoKey)) \o h
              IN  SubSeq(f, p, Min({p + Len(text) - 1, Len(f)})) = text
      BY DEF HashIn
    <3>2. HashIn(file, hashed)' <=> HashIn(file', hashed')
      BY DEF HashIn
    <3>3. hashed' # <<>> /\ ret' = 1
      BY <1>6, <2>3, InfoHasText
    <3>. QED BY <2>6, <3>2, <3>3 DEF InfoHash, HashIn
  <2>. QED BY <1>4, <2>2, <2>7 DEF StartInv
<1>. QED BY <1>1, <1>3, <1>5, <1>6

-----------------------------------------------------------------------------
(* The composition. *)

LEMMA BuiltAre ==
  ASSUME ContainersInv
  PROVE  BuiltDict \in Nested[MaxDepth] /\ BuiltList \in Nested[MaxDepth]
<1> DEFINE n == MaxDepth - 1
<1>1. n \in Nat /\ n + 1 = MaxDepth
  BY BencodeAssumption, CodecAssumption
<1>2. Payload \in [Objects -> Nested[n]]
  BY CodecAssumption
<1> HIDE DEF n
<1>3. ASSUME NEW os \in Seq(Objects)
      PROVE  /\ [i \in DOMAIN os |-> Payload[os[i]]] \in Seq(Nested[n])
             /\ Len([i \in DOMAIN os |-> Payload[os[i]]]) = Len(os)
  <2> DEFINE k == Len(os)
             vs == [i \in DOMAIN os |-> Payload[os[i]]]
  <2>1. k \in Nat /\ DOMAIN os = 1..k
    OBVIOUS
  <2>2. \A i \in 1..k : os[i] \in Objects
    BY ElementOfSeq
  <2> HIDE DEF k
  <2>3. vs \in [1..k -> Nested[n]]
    BY <1>2, <2>1, <2>2
  <2> HIDE DEF vs
  <2>4. vs \in Seq(Nested[n]) /\ Len(vs) = k
    BY <2>1, <2>3, FunctionIsSeq
  <2>. QED BY <2>4 DEF vs, k
<1>4. keys \in Seq(AllKeys) /\ values \in Seq(Objects) /\ Len(keys) = Len(values)
  <2>1. keys \in Seq(Keys) /\ values \in Seq(Objects) /\ Len(keys) = Len(values)
    BY DEF ContainersInv, DictInv, Paired
  <2>2. Seq(Keys) \subseteq Seq(AllKeys)
    BY ContainersAssumption, SeqMonotonic
  <2>. QED BY <2>1, <2>2
<1>5. items \in Seq(Objects)
  BY DEF ContainersInv, ListInv
<1>6. BuiltDict \in Nested[n + 1]
  BY <1>1, <1>3, <1>4, DictNested DEF BuiltDict
<1>7. BuiltList \in Nested[n + 1]
  BY <1>1, <1>3, <1>5, ListNested DEF BuiltList
<1>. QED BY <1>1, <1>6, <1>7

(***************************************************************************)
(* The inductive invariant of the composition: those of its components.    *)
(***************************************************************************)
CodecInv == ContainersInv /\ DecoderInv /\ Flag /\ ValueInv /\ StartInv

LEMMA CodecInvInit == Init => CodecInv
<1> SUFFICES ASSUME Init PROVE CodecInv
  OBVIOUS
<1>1. ContainersInit /\ DecoderInit /\ StartupInit
  BY DEF Init
<1>2. Flag
  BY <1>1 DEF DecoderInit, Flag
<1>. QED BY <1>1, <1>2, InvInit, DecoderInvInit, ValueInit, StartInit DEF CodecInv

(* A call of the decoder, at any time. *)
LEMMA CallsKeep ==
  ASSUME CodecInv, NEW d \in Seq(Octet),
         BenDecode(d) \/ \E from \in 0..Len(d) : BenDecode2(d, from)
  PROVE  DecoderInv' /\ Flag' /\ ValueInv'
<1>1. DecoderInv /\ Flag
  BY DEF CodecInv
<1>2. Flag'
  BY <1>1, ClippedIsFlag
<1>3. CASE BenDecode(d)
  BY <1>1, <1>2, <1>3, BenDecodeKeeps, ValueBenDecode
<1>4. CASE \E from \in 0..Len(d) : BenDecode2(d, from)
  <2>1. PICK from \in 0..Len(d) : BenDecode2(d, from)
    BY <1>4
  <2>2. from \in Nat
    OBVIOUS
  <2>3. DecoderInv'
    BY <1>1, <2>1, BenDecode2Keeps
  <2>4. ValueInv'
    BY <1>1, <2>1, <2>2, ValueBenDecode2
  <2>. QED BY <1>2, <2>3, <2>4
<1>. QED BY <1>3, <1>4

LEMMA ContainersKept == ASSUME CodecInv, UNCHANGED containerVars PROVE ContainersInv'
  BY InvNext DEF CodecInv

LEMMA DecoderKept ==
  ASSUME CodecInv, UNCHANGED decoderVars
  PROVE  DecoderInv' /\ Flag' /\ ValueInv'
  BY DecoderStutterKeeps, ClippedIsFlag, ValueStutter DEF CodecInv

(* While nothing was started, the start of a run is as it was. *)
LEMMA IdleKept ==
  ASSUME StartInv, run = "idle", UNCHANGED startupVars
  PROVE  StartInv'
<1>1. ret = -1
  BY DEF StartInv, ParseInv
<1>. QED BY <1>1, StartKept

LEMMA EncodeDecodeKeeps ==
  ASSUME CodecInv, NEW b \in Nested[MaxDepth], NEW n \in 0..EncodedSize(b),
         run = "idle", EncodeDecode(b, n)
  PROVE  CodecInv'
<1>1. UNCHANGED containerVars /\ UNCHANGED startupVars
  BY DEF EncodeDecode
<1>2. BenDecode2(SubSeq(Serialize(b), 1, n), 0) \/ BenDecode(Serialize(b))
  BY DEF EncodeDecode
<1>3. Serialize(b) \in Seq(Octet) /\ n \in 0..Len(Serialize(b)) /\ n \in Int
  BY SerializeLen
<1>4. DecoderInv' /\ Flag' /\ ValueInv'
  <2>1. CASE BenDecode(Serialize(b))
    BY <1>3, <2>1, CallsKeep
  <2>2. CASE BenDecode2(SubSeq(Serialize(b), 1, n), 0)
    <3> DEFINE d == SubSeq(Serialize(b), 1, n)
    <3>1. d \in Seq(Octet)
      BY <1>3
    <3> HIDE DEF d
    <3>2. 0 \in 0..Len(d)
      BY <3>1
    <3>3. BenDecode2(d, 0)
      BY <2>2 DEF d
    <3>. QED BY <3>1, <3>2, <3>3, CallsKeep
  <2>. QED BY <1>2, <2>1, <2>2
<1>5. StartInv'
  BY <1>1, IdleKept DEF CodecInv
<1>. QED BY <1>1, <1>4, <1>5, ContainersKept DEF CodecInv

LEMMA StartKeeps == ASSUME CodecInv, Start PROVE CodecInv'
<1>1. UNCHANGED containerVars /\ DecoderInv /\ ValueInv /\ StartInv
  BY DEF Start, CodecInv
<1>2. CASE \E f \in Files : OpenFile(f)
  <2>1. UNCHANGED decoderVars
    BY <1>2 DEF OpenFile
  <2>2. StartInv'
    BY <1>1, <1>2, OpenFileKeeps
  <2>. QED BY <1>1, <2>1, <2>2, ContainersKept, DecoderKept DEF CodecInv
<1>3. CASE ReadOctet
  <2>1. UNCHANGED decoderVars
    BY <1>3 DEF ReadOctet
  <2>. QED BY <1>1, <1>3, <2>1, ReadOctetKeeps, ContainersKept, DecoderKept DEF CodecInv
<1>4. CASE EndRead
  <2>1. StartInv' /\ (UNCHANGED decoderVars \/ \E d \in Seq(Octet) : BenDecode(d))
    BY <1>1, <1>4, EndReadKeeps
  <2>2. DecoderInv' /\ Flag' /\ ValueInv'
    BY <2>1, DecoderKept, CallsKeep
  <2>. QED BY <1>1, <2>1, <2>2, ContainersKept DEF CodecInv
<1>5. CASE ParseTorrentFile
  <2>1. UNCHANGED decoderVars
    BY <1>5 DEF ParseTorrentFile
  <2>. QED BY <1>1, <1>5, <2>1, ParseTorrentFileKeeps, ContainersKept, DecoderKept DEF CodecInv
<1>. QED BY <1>2, <1>3, <1>4, <1>5 DEF Start, StartupStep

LEMMA CodecInvNext == CodecInv /\ [Next]_vars => CodecInv'
<1> SUFFICES ASSUME CodecInv, [Next]_vars PROVE CodecInv'
  OBVIOUS
<1>1. DecoderInv /\ Flag /\ ValueInv /\ StartInv /\ ContainersInv
  BY DEF CodecInv
<1>2. CASE Edit
  <2>1. run = "idle" /\ ContainersNext /\ UNCHANGED decoderVars /\ UNCHANGED startupVars
    BY <1>2 DEF Edit
  <2>2. ContainersInv'
    BY <1>1, <2>1, InvNext
  <2>. QED BY <1>1, <2>1, <2>2, DecoderKept, IdleKept DEF CodecInv
<1>3. CASE Settled("dict") /\ \E n \in 0..EncodedSize(BuiltDict) : EncodeDecode(BuiltDict, n)
  <2>1. run = "idle"
    BY <1>3 DEF Settled
  <2>2. BuiltDict \in Nested[MaxDepth]
    BY <1>1, BuiltAre
  <2>3. PICK n \in 0..EncodedSize(BuiltDict) : EncodeDecode(BuiltDict, n)
    BY <1>3
  <2>. QED BY <2>1, <2>2, <2>3, EncodeDecodeKeeps
<1>4. CASE Settled("list") /\ \E n \in 0..EncodedSize(BuiltList) : EncodeDecode(BuiltList, n)
  <2>1. run = "idle"
    BY <1>4 DEF Settled
  <2>2. BuiltList \in Nested[MaxDepth]
    BY <1>1, BuiltAre
  <2>3. PICK n \in 0..EncodedSize(BuiltList) : EncodeDecode(BuiltList, n)
    BY <1>4
  <2>. QED BY <2>1, <2>2, <2>3, EncodeDecodeKeeps
<1>5. CASE Untouched /\ \E d \in Inputs : DecodeForeign(d)
  <2>1. run = "idle"
    BY <1>5 DEF Untouched
  <2>2. PICK d \in Inputs : DecodeForeign(d)
    BY <1>5
  <2>3. d \in Seq(Octet)
    BY DecoderAssumption
  <2>4. /\ UNCHANGED containerVars /\ UNCHANGED startupVars
        /\ BenDecode(d) \/ \E from \in 0..Len(d) : BenDecode2(d, from)
    BY <2>2 DEF DecodeForeign, Starts
  <2>5. DecoderInv' /\ Flag' /\ ValueInv'
    BY <2>3, <2>4, CallsKeep
  <2>. QED BY <1>1, <2>1, <2>4, <2>5, ContainersKept, IdleKept DEF CodecInv
<1>6. CASE Step
  <2>1. DecoderStep /\ UNCHANGED containerVars /\ UNCHANGED startupVars
    BY <1>6 DEF Step
  <2>2. status = "busy" /\ UNCHANGED callVars
    BY <2>1, StepIsBusy
  <2>3. ret # 1
    BY <1>1, <2>2 DEF StartInv, ParseInv
  <2>4. StartInv'
    BY <1>1, <2>1, <2>2, <2>3, StartKept
  <2>5. DecoderInv' /\ Flag' /\ ValueInv'
    BY <1>1, <2>1, DecoderStepKeeps, ClippedIsFlag, ValueStep
  <2>. QED BY <2>1, <2>4, <2>5, ContainersKept DEF CodecInv
<1>7. CASE Continue
  <2>1. GoOn /\ ~exact /\ UNCHANGED containerVars /\ UNCHANGED startupVars
    BY <1>7 DEF Continue, GoOn
  <2>2. ret # 1 /\ run # "decoding"
    BY <1>1, <2>1 DEF StartInv, ParseInv
  <2>3. StartInv'
    BY <1>1, <2>1, <2>2, StartKept
  <2>4. DecoderInv' /\ Flag' /\ ValueInv'
    BY <1>1, <2>1, GoOnKeeps, ClippedIsFlag, ValueGoOn
  <2>. QED BY <2>1, <2>3, <2>4, ContainersKept DEF CodecInv
<1>8. CASE Start
  BY <1>8, StartKeeps
<1>9. CASE UNCHANGED vars
  <2>1. UNCHANGED containerVars /\ UNCHANGED decoderVars /\ UNCHANGED startupVars
    BY <1>9 DEF vars
  <2>2. DecoderInv' /\ Flag' /\ ValueInv'
    BY <2>1, DecoderKept
  <2>3. StartInv'
    BY <1>1, <2>1, StartStutter
  <2>. QED BY <2>1, <2>2, <2>3, ContainersKept DEF CodecInv
<1>. QED BY <1>2, <1>3, <1>4, <1>5, <1>6, <1>7, <1>8, <1>9, Zenon DEF Next

-----------------------------------------------------------------------------
(* The theorems about all of it together. *)

LEMMA CodecKeepsInv == Spec => []CodecInv
  BY CodecInvInit, CodecInvNext, PTL DEF Spec

(* Every variable has its type, whatever the caller and the file do.       *)
THEOREM CodecTypes == Spec => []TypeOK
<1>1. CodecInv => TypeOK
  BY InvContainersTypes, InvTypes DEF CodecInv, TypeOK
<1>. QED BY <1>1, CodecKeepsInv, PTL

(***************************************************************************)
(* What decode takes is, at every point, what serialize would write of the *)
(* values it has made: there is one encoding of each value, but for        *)
(* numbers with a zero octet in them.                                      *)
(***************************************************************************)
THEOREM CodecOneEncoding == Spec => []OneEncoding
<1>1. CodecInv => OneEncoding
  BY ValueIsOneEncoding DEF CodecInv
<1>. QED BY <1>1, CodecKeepsInv, PTL

(***************************************************************************)
(* The assertions of ben_encode and ben_print hold for what a caller       *)
(* builds and for what is decoded: get_size and get_printed_size find the  *)
(* lengths of the texts that serialize and print write.                    *)
(***************************************************************************)
THEOREM CodecSizes == Spec => []SizesAgree
<1>1. CodecInv => SizesAgree
  <2> SUFFICES ASSUME CodecInv PROVE SizesAgree
    OBVIOUS
  <2>1. ASSUME NEW b \in Nested[MaxDepth]
        PROVE  Len(Serialize(b)) = EncodedSize(b) /\ Len(Printed(b)) = PrintedSize(b)
    BY SerializeLen, PrintedLen
  <2>2. BuiltDict \in Nested[MaxDepth] /\ BuiltList \in Nested[MaxDepth]
    BY BuiltAre DEF CodecInv
  <2>3. status = "ok" => value \in Nested[MaxDepth]
    BY Zenon DEF CodecInv, ValueInv
  <2>. QED BY <2>1, <2>2, <2>3 DEF SizesAgree
<1>. QED BY <1>1, CodecKeepsInv, PTL

(* readbinaryfile stays within the buffer of parse_torrent, and what is    *)
(* decoded is the file.                                                    *)
THEOREM CodecReadWhole == Spec => []ReadWhole
<1>1. CodecInv => ReadWhole
  BY DEF CodecInv, StartInv, ReadInv, ParseInv, ReadWhole
<1>. QED BY <1>1, CodecKeepsInv, PTL

(***************************************************************************)
(* The octets parse_torrent computes the info hash from stand in the file, *)
(* behind the key "info".                                                  *)
(***************************************************************************)
THEOREM CodecInfoHash == Spec => []InfoHash
<1>1. CodecInv => InfoHash
  BY DEF CodecInv, StartInv
<1>. QED BY <1>1, CodecKeepsInv, PTL

(***************************************************************************)
(* What is proved of the decoder alone holds when it is given what the     *)
(* encoder wrote, a part of that, or a file: it stays within its data,     *)
(* reports its errors, and the keys it has taken ascend.                   *)
(***************************************************************************)
THEOREM CodecDecoder == Spec => [](InBounds /\ ErrorReported /\ KeysAscend)
<1>1. CodecInv => InBounds /\ ErrorReported /\ KeysAscend
  <2>1. DecoderInv => ErrorReported
    BY Zenon DEF DecoderInv
  <2>. QED BY <2>1, InvInBounds, InvKeysAscend DEF CodecInv
<1>. QED BY <1>1, CodecKeepsInv, PTL

(***************************************************************************)
(* In the whole of the codec too only a step of decode changes what a call *)
(* has, and each takes an octet of the data or is the last: whoever calls  *)
(* and whatever it gives, the call makes no more steps than its data has   *)
(* octets, and one.                                                        *)
(***************************************************************************)
THEOREM CodecAdvances == Spec => Advances
<1>1. ASSUME CodecInv, CodecInv', [Next]_vars, status = "busy"
      PROVE  UNCHANGED decoderVars \/ StepOn
  <2>1. DecoderInv /\ DecoderInv'
    BY <1>1 DEF CodecInv
  <2>2. CASE Step
    <3>1. DecoderStep
      BY <2>2 DEF Step
    <3>. QED BY <2>1, <3>1, StepIsOn
  <2>3. CASE Edit \/ UNCHANGED vars
    BY <2>3 DEF Edit, vars
  <2>4. ~Settled("dict") /\ ~Settled("list") /\ ~Untouched /\ ~Continue
    BY <1>1 DEF Settled, Untouched, Continue, GoOn
  <2>5. CASE Start
    <3>1. StartupStep
      BY <2>4, <2>5 DEF Start
    <3>. QED BY <1>1, <3>1 DEF StartupStep, ReadOctet, EndRead, BenDecode, ParseTorrentFile
  <2>. QED BY <1>1, <2>2, <2>3, <2>4, <2>5, Zenon DEF Next
<1>2. CodecInv /\ CodecInv' /\ [Next]_vars => [status = "busy" => StepOn]_decoderVars
  BY <1>1, Zenon
<1>3. [][status = "busy" => StepOn]_decoderVars => Advances
  <2>1. [status = "busy" => StepOn]_decoderVars =>
          [status = "busy" =>
             /\ UNCHANGED callVars
             /\ \/ status' = "busy" /\ off < off' /\ off' <= Len(data)
                \/ status' \in {"ok", "failed", "undefined"}]_decoderVars
    BY Zenon DEF StepOn
  <2>. QED BY <2>1, PTL DEF Advances
<1>. QED BY <1>2, <1>3, CodecKeepsInv, PTL DEF Spec

(* In the composition the containers are those of their own specification. *)
THEOREM CodecImplementsContainers == Spec => ContainersSpec
<1>1. Init => ContainersInit
  BY DEF Init
<1>2. [Next]_vars => [ContainersNext]_containerVars
  <2>1. ASSUME Edit PROVE ContainersNext
    BY <2>1 DEF Edit
  <2>2. ASSUME (\E n : EncodeDecode(BuiltDict, n)) \/ (\E n : EncodeDecode(BuiltList, n))
        PROVE  UNCHANGED containerVars
    BY <2>2 DEF EncodeDecode
  <2>3. ASSUME (\E d : DecodeForeign(d)) \/ Step \/ Continue \/ Start
        PROVE  UNCHANGED containerVars
    BY <2>3 DEF DecodeForeign, Step, Continue, Start
  <2>4. ASSUME UNCHANGED vars PROVE UNCHANGED containerVars
    BY <2>4 DEF vars
  <2>. QED BY <2>1, <2>2, <2>3, <2>4 DEF Next
<1>. QED BY <1>1, <1>2, PTL DEF Spec, ContainersSpec

(***************************************************************************)
(* And so they are the map and the list of Collections, keep one entry of  *)
(* each key, own what they hold, and ben_dict_get_by_str finds what        *)
(* ben_dict_get does.                                                      *)
(***************************************************************************)
THEOREM CodecCollections ==
  Spec => ImplementsCollections /\ [](OneEntryPerKey /\ OwnedOnce /\ ByStrAgrees)
  BY CodecImplementsContainers, ContainersImplementCollections, ContainersPaired,
     ContainersOwn, ContainersByStr, PTL

=============================================================================
