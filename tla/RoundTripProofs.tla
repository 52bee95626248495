-------------------------- MODULE RoundTripProofs ---------------------------
(***************************************************************************)
(* What ben_encode writes of a value that a caller can hold decodes to     *)
(* that value, and every part of it that breaks off is told from invalid   *)
(* data: for every value, wherever the text breaks off, and whatever the   *)
(* limits are.                                                             *)
(***************************************************************************)
EXTENDS CodecProofs

(* The lemmas on the naturals; nothing is defined by this recursion. *)
LOCAL INSTANCE Recursion WITH Base <- 0, Step <- LAMBDA n, x : x

-----------------------------------------------------------------------------
(* How many values there are in a value, and its normal form: neither      *)
(* depends on the depth allowed.                                           *)

CountRec == INSTANCE Recursion WITH
  Base <- [b \in Simple |-> CountWith(<<>>, b)],
  Step <- LAMBDA n, g : [b \in Nested[n] |-> CountWith(g, b)]

Counts == CountRec!Recursive

NormalRec == INSTANCE Recursion WITH
  Base <- [b \in Simple |-> NormalWith(<<>>, b)],
  Step <- LAMBDA n, g : [b \in Nested[n] |-> NormalWith(g, b)]

Normals == NormalRec!Recursive

LEMMA CountsAre ==
  /\ \A b \in Simple : Counts[0][b] = CountWith(<<>>, b)
  /\ \A n \in Nat : \A b \in Nested[n + 1] : Counts[n + 1][b] = CountWith(Counts[n], b)
  /\ \A b : Count(b) = Counts[MaxDepth][b]
<1>1. /\ Counts[0] = [b \in Simple |-> CountWith(<<>>, b)]
      /\ \A n \in Nat : Counts[n + 1] = [b \in Nested[n + 1] |-> CountWith(Counts[n], b)]
  BY CountRec!RecursiveIs DEF Counts
<1>2. ByParts(CountWith) = Counts[MaxDepth]
  BY DEF ByParts, Counts, CountRec!Recursive
<1>. QED BY <1>1, <1>2 DEF Count

LEMMA NormalsAre ==
  /\ \A b \in Simple : Normals[0][b] = NormalWith(<<>>, b)
  /\ \A n \in Nat : \A b \in Nested[n + 1] : Normals[n + 1][b] = NormalWith(Normals[n], b)
  /\ \A b : Normal(b) = Normals[MaxDepth][b]
<1>1. /\ Normals[0] = [b \in Simple |-> NormalWith(<<>>, b)]
      /\ \A n \in Nat : Normals[n + 1] = [b \in Nested[n + 1] |-> NormalWith(Normals[n], b)]
  BY NormalRec!RecursiveIs DEF Normals
<1>2. ByParts(NormalWith) = Normals[MaxDepth]
  BY DEF ByParts, Normals, NormalRec!Recursive
<1>. QED BY <1>1, <1>2 DEF Normal

LEMMA SimpleCount ==
  ASSUME NEW g, NEW b \in Simple
  PROVE  CountWith(g, b) = 1 /\ NormalWith(g, b) = b
<1>1. b.type # "list" /\ b.type # "dict"
  <2>1. b.type \in {"bool", "int", "str"}
    BY SimpleIs
  <2>. QED BY <2>1
<1>. QED BY <1>1 DEF CountWith, NormalWith

LEMMA CountParts ==
  ASSUME NEW g, NEW b
  PROVE  /\ b.type = "list" =>
              CountWith(g, b) = 1 + Total([i \in DOMAIN b.values |-> g[b.values[i]]])
         /\ b.type = "dict" =>
              CountWith(g, b) = 1 + Len(b.keys) + Total([i \in DOMAIN b.values |-> g[b.values[i]]])
<1>1. CASE b.type = "list"
  BY <1>1 DEF CountWith
<1>2. CASE b.type = "dict"
  BY <1>2 DEF CountWith
<1>. QED BY <1>1, <1>2

NormalDict(g, pairs) ==
  BenDict([i \in DOMAIN pairs |-> pairs[i][1]], [i \in DOMAIN pairs |-> g[pairs[i][2]]])

LEMMA NormalParts ==
  ASSUME NEW g, NEW b
  PROVE  /\ b.type = "list" =>
              NormalWith(g, b) = BenList([i \in DOMAIN b.values |-> g[b.values[i]]])
         /\ b.type = "dict" => NormalWith(g, b) = NormalDict(g, Sorted(b))
<1>1. CASE b.type = "list"
  BY <1>1 DEF NormalWith
<1>2. CASE b.type = "dict"
  BY <1>2 DEF NormalWith, NormalDict
<1>. QED BY <1>1, <1>2

(* Functions that agree on V make the same of containers of V. *)
LEMMA SameCount ==
  ASSUME NEW V, NEW g, NEW h, \A b \in V : g[b] = h[b], NEW b,
         IsListOf(b, V) \/ IsDictOf(b, V)
  PROVE  CountWith(g, b) = CountWith(h, b)
<1> DEFINE vs == b.values
<1>1. vs \in Seq(V)
  BY DEF IsListOf, IsDictOf
<1>2. \A i \in DOMAIN vs : vs[i] \in V
  BY <1>1
<1> HIDE DEF vs
<1>3. [i \in DOMAIN vs |-> g[vs[i]]] = [i \in DOMAIN vs |-> h[vs[i]]]
  BY <1>2
<1>4. CASE b.type = "list"
  <2>1. /\ CountWith(g, b) = 1 + Total([i \in DOMAIN vs |-> g[vs[i]]])
        /\ CountWith(h, b) = 1 + Total([i \in DOMAIN vs |-> h[vs[i]]])
    BY <1>4, CountParts DEF vs
  <2>. QED BY <1>3, <2>1, Zenon
<1>5. CASE b.type = "dict"
  <2>1. /\ CountWith(g, b) = 1 + Len(b.keys) + Total([i \in DOMAIN vs |-> g[vs[i]]])
        /\ CountWith(h, b) = 1 + Len(b.keys) + Total([i \in DOMAIN vs |-> h[vs[i]]])
    BY <1>5, CountParts DEF vs
  <2>. QED BY <1>3, <2>1, Zenon
<1>. QED BY <1>4, <1>5 DEF IsListOf, IsDictOf

LEMMA SameNormal ==
  ASSUME NEW V, NEW g, NEW h, \A b \in V : g[b] = h[b], NEW b,
         IsListOf(b, V) \/ IsDictOf(b, V)
  PROVE  NormalWith(g, b) = NormalWith(h, b)
<1>1. CASE IsListOf(b, V)
  <2> DEFINE vs == b.values
  <2>1. b.type = "list" /\ vs \in Seq(V)
    BY <1>1 DEF IsListOf
  <2>2. \A i \in DOMAIN vs : vs[i] \in V
    BY <2>1
  <2> HIDE DEF vs
  <2>3. [i \in DOMAIN vs |-> g[vs[i]]] = [i \in DOMAIN vs |-> h[vs[i]]]
    BY <2>2
  <2>4. /\ NormalWith(g, b) = BenList([i \in DOMAIN vs |-> g[vs[i]]])
        /\ NormalWith(h, b) = BenList([i \in DOMAIN vs |-> h[vs[i]]])
    BY <2>1, NormalParts DEF vs
  <2>. QED BY <2>3, <2>4, Zenon
<1>2. CASE IsDictOf(b, V)
  <2> DEFINE s == Sorted(b)
  <2>1. b.type = "dict"
    BY <1>2 DEF IsDictOf
  <2>2. \A i \in DOMAIN s : s[i][2] \in V
    <3>1. DOMAIN s = 1..Len(b.keys) /\ \A i \in 1..Len(b.keys) : s[i][2] \in V
      BY <1>2, SortedParts
    <3>. QED BY <3>1
  <2> HIDE DEF s
  <2>3. [i \in DOMAIN s |-> g[s[i][2]]] = [i \in DOMAIN s |-> h[s[i][2]]]
    BY <2>2
  <2>4. NormalDict(g, s) = NormalDict(h, s)
    BY <2>3, Zenon DEF NormalDict
  <2>. QED BY <2>1, <2>4, NormalParts, Zenon DEF s
<1>. QED BY <1>1, <1>2

LEMMA CountsAgree == \A n \in Nat : \A b \in Nested[n] : Counts[n + 1][b] = Counts[n][b]
<1> DEFINE E == {n \in Nat : \A b \in Nested[n] : Counts[n + 1][b] = Counts[n][b]}
<1>1. 0 \in E
  <2> SUFFICES ASSUME NEW b \in Nested[0] PROVE Counts[0 + 1][b] = Counts[0][b]
    OBVIOUS
  <2>1. b \in Simple /\ b \in Nested[0 + 1] /\ 0 \in Nat
    BY NestedIs, NestedGrows
  <2>. QED BY <2>1, CountsAre, SimpleCount
<1>2. ASSUME NEW n \in Nat, n \in E PROVE n + 1 \in E
  <2> DEFINE m == n + 1
  <2>0. m \in Nat /\ \A b \in Nested[n] : Counts[m][b] = Counts[n][b]
    BY <1>2
  <2> SUFFICES ASSUME NEW b \in Nested[m] PROVE Counts[m + 1][b] = Counts[m][b]
    BY <2>0
  <2>1. Counts[m + 1][b] = CountWith(Counts[m], b)
    BY <2>0, NestedGrows, CountsAre
  <2>2. Counts[m][b] = CountWith(Counts[n], b)
    BY CountsAre
  <2>3. CASE b \in Simple
    BY <2>1, <2>2, <2>3, SimpleCount
  <2>4. CASE IsListOf(b, Nested[n]) \/ IsDictOf(b, Nested[n])
    <3> HIDE DEF m
    <3>1. CountWith(Counts[m], b) = CountWith(Counts[n], b)
      BY <2>0, <2>4, SameCount
    <3>. QED BY <2>1, <2>2, <3>1
  <2>. QED BY <2>3, <2>4, NestedParts
<1>3. Nat \subseteq E
  <2> HIDE DEF E
  <2>. QED BY <1>1, <1>2, NatSetInduction
<1>. QED BY <1>3

LEMMA NormalsAgree == \A n \in Nat : \A b \in Nested[n] : Normals[n + 1][b] = Normals[n][b]
<1> DEFINE E == {n \in Nat : \A b \in Nested[n] : Normals[n + 1][b] = Normals[n][b]}
<1>1. 0 \in E
  <2> SUFFICES ASSUME NEW b \in Nested[0] PROVE Normals[0 + 1][b] = Normals[0][b]
    OBVIOUS
  <2>1. b \in Simple /\ b \in Nested[0 + 1] /\ 0 \in Nat
    BY NestedIs, NestedGrows
  <2>. QED BY <2>1, NormalsAre, SimpleCount
<1>2. ASSUME NEW n \in Nat, n \in E PROVE n + 1 \in E
  <2> DEFINE m == n + 1
  <2>0. m \in Nat /\ \A b \in Nested[n] : Normals[m][b] = Normals[n][b]
    BY <1>2
  <2> SUFFICES ASSUME NEW b \in Nested[m] PROVE Normals[m + 1][b] = Normals[m][b]
    BY <2>0
  <2>1. Normals[m + 1][b] = NormalWith(Normals[m], b)
    BY <2>0, NestedGrows, NormalsAre
  <2>2. Normals[m][b] = NormalWith(Normals[n], b)
    BY NormalsAre
  <2>3. CASE b \in Simple
    BY <2>1, <2>2, <2>3, SimpleCount
  <2>4. CASE IsListOf(b, Nested[n]) \/ IsDictOf(b, Nested[n])
    <3> HIDE DEF m
    <3>1. NormalWith(Normals[m], b) = NormalWith(Normals[n], b)
      BY <2>0, <2>4, SameNormal
    <3>. QED BY <2>1, <2>2, <3>1
  <2>. QED BY <2>3, <2>4, NestedParts
<1>3. Nat \subseteq E
  <2> HIDE DEF E
  <2>. QED BY <1>1, <1>2, NatSetInduction
<1>. QED BY <1>3

(* What does not change from one level to the next, does not from there on. *)
LEMMA SettledAt ==
  ASSUME NEW F, \A n \in Nat : \A b \in Nested[n] : F[n + 1][b] = F[n][b],
         NEW m \in Nat, NEW n \in Nat, m <= n, NEW b \in Nested[m]
  PROVE  F[n][b] = F[m][b]
<1> DEFINE E == {k \in Nat : F[m + k][b] = F[m][b]}
<1>1. 0 \in E
  OBVIOUS
<1>2. ASSUME NEW k \in Nat, k \in E PROVE k + 1 \in E
  <2>1. m + k \in Nat /\ m <= m + k /\ (m + k) + 1 = m + (k + 1)
    OBVIOUS
  <2>2. b \in Nested[m + k]
    BY <2>1, NestedMonotone
  <2>3. F[(m + k) + 1][b] = F[m + k][b]
    BY <2>1, <2>2
  <2>4. F[m + (k + 1)][b] = F[m + k][b]
    BY <2>1, <2>3, Zenon
  <2>. QED BY <1>2, <2>4
<1>3. Nat \subseteq E
  <2> HIDE DEF E
  <2>. QED BY <1>1, <1>2, NatSetInduction
<1>4. n - m \in Nat /\ m + (n - m) = n
  OBVIOUS
<1>5. n - m \in E
  BY <1>3, <1>4
<1>. QED BY <1>4, <1>5

(* The depth of what is in a container. *)
Inner == MaxDepth - 1

LEMMA InnerIs ==
  /\ Inner \in Nat /\ MaxDepth \in Nat /\ Inner + 1 = MaxDepth
  /\ Inner \in 0..(MaxDepth - 1) /\ Inner \in 0..MaxDepth /\ Inner <= MaxDepth
  BY BencodeAssumption, CodecAssumption DEF Inner

LEMMA CountAt ==
  ASSUME NEW b \in Nested[Inner]
  PROVE  Count(b) = Counts[Inner][b] /\ Normal(b) = Normals[Inner][b]
<1>1. Counts[MaxDepth][b] = Counts[Inner][b]
  BY InnerIs, CountsAgree, SettledAt
<1>2. Normals[MaxDepth][b] = Normals[Inner][b]
  BY InnerIs, NormalsAgree, SettledAt
<1>. QED BY <1>1, <1>2, CountsAre, NormalsAre

LEMMA CountSimple ==
  ASSUME NEW b \in Simple
  PROVE  Count(b) = 1 /\ Normal(b) = b
<1>1. b \in Nested[Inner + 1] /\ b \in Nested[0]
  BY InnerIs, SimpleNested, NestedIs
<1>2. Counts[MaxDepth][b] = CountWith(Counts[Inner], b)
  BY <1>1, InnerIs, CountsAre
<1>3. Normals[MaxDepth][b] = NormalWith(Normals[Inner], b)
  BY <1>1, InnerIs, NormalsAre
<1>. QED BY <1>2, <1>3, CountsAre, NormalsAre, SimpleCount

LEMMA CountContainer ==
  ASSUME NEW b, IsListOf(b, Nested[Inner]) \/ IsDictOf(b, Nested[Inner])
  PROVE  /\ b \in Nested[MaxDepth]
         /\ Count(b) = CountWith(Counts[Inner], b) /\ Normal(b) = NormalWith(Normals[Inner], b)
<1>1. b \in Nested[Inner + 1]
  BY InnerIs, ListNested, DictNested DEF IsListOf, IsDictOf
<1>2. Counts[MaxDepth][b] = CountWith(Counts[Inner], b)
  BY <1>1, InnerIs, CountsAre
<1>3. Normals[MaxDepth][b] = NormalWith(Normals[Inner], b)
  BY <1>1, InnerIs, NormalsAre
<1>4. b \in Nested[MaxDepth]
  BY <1>1, InnerIs
<1>. QED BY <1>2, <1>3, <1>4, CountsAre, NormalsAre

LEMMA CountList ==
  ASSUME NEW b, IsListOf(b, Nested[Inner])
  PROVE  /\ Count(b) = 1 + Total([i \in 1..Len(b.values) |-> Count(b.values[i])])
         /\ Normal(b) = BenList([i \in 1..Len(b.values) |-> Normal(b.values[i])])
<1> DEFINE vs == b.values
<1>1. b.type = "list" /\ vs \in Seq(Nested[Inner])
  BY DEF IsListOf
<1>2. DOMAIN vs = 1..Len(vs) /\ \A i \in 1..Len(vs) : vs[i] \in Nested[Inner]
  BY <1>1
<1>3. Count(b) = 1 + Total([i \in DOMAIN vs |-> Counts[Inner][vs[i]]])
  BY <1>1, CountContainer, CountParts
<1>4. Normal(b) = BenList([i \in DOMAIN vs |-> Normals[Inner][vs[i]]])
  BY <1>1, CountContainer, NormalParts
<1> HIDE DEF vs
<1>5. [i \in DOMAIN vs |-> Counts[Inner][vs[i]]] = [i \in 1..Len(vs) |-> Count(vs[i])]
  BY <1>2, CountAt
<1>6. [i \in DOMAIN vs |-> Normals[Inner][vs[i]]] = [i \in 1..Len(vs) |-> Normal(vs[i])]
  BY <1>2, CountAt
<1>. QED BY <1>3, <1>4, <1>5, <1>6, Zenon DEF vs

LEMMA CountDict ==
  ASSUME NEW b, IsDictOf(b, Nested[Inner])
  PROVE  /\ Count(b) = 1 + Len(b.keys) + Total([i \in 1..Len(b.keys) |-> Count(b.values[i])])
         /\ Normal(b) = BenDict([i \in 1..Len(b.keys) |-> Sorted(b)[i][1]],
                                [i \in 1..Len(b.keys) |-> Normal(Sorted(b)[i][2])])
<1> DEFINE vs == b.values
           s == Sorted(b)
           n == Len(b.keys)
<1>1. b.type = "dict" /\ vs \in Seq(Nested[Inner]) /\ n = Len(vs)
  BY DEF IsDictOf
<1>2. DOMAIN vs = 1..n /\ \A i \in 1..n : vs[i] \in Nested[Inner]
  BY <1>1
<1>3. DOMAIN s = 1..n /\ \A i \in 1..n : s[i][2] \in Nested[Inner]
  BY SortedParts
<1>4. Count(b) = 1 + n + Total([i \in DOMAIN vs |-> Counts[Inner][vs[i]]])
  BY <1>1, CountContainer, CountParts
<1>5. Normal(b) = NormalDict(Normals[Inner], s)
  BY <1>1, CountContainer, NormalParts
<1> HIDE DEF vs, s, n
<1>6. [i \in DOMAIN vs |-> Counts[Inner][vs[i]]] = [i \in 1..n |-> Count(vs[i])]
  BY <1>2, CountAt
<1>7. [i \in DOMAIN s |-> Normals[Inner][s[i][2]]] = [i \in 1..n |-> Normal(s[i][2])]
  BY <1>3, CountAt
<1>8. Normal(b) = BenDict([i \in 1..n |-> s[i][1]], [i \in 1..n |-> Normal(s[i][2])])
  BY <1>3, <1>5, <1>7, Zenon DEF NormalDict
<1>. QED BY <1>4, <1>6, <1>8, Zenon DEF vs, s, n

-----------------------------------------------------------------------------
(* What follows each of the parts of a text, and how many values are still *)
(* to come.                                                                *)

(* A function that starts with x and obeys a step, backwards. *)
ObeysBack(t, n, x, G) == t[n] = x /\ \A k \in 1..n : t[k - 1] = G[k][t[k]]

LEMMA Backwards ==
  ASSUME NEW X, NEW n \in Nat, NEW x \in X, NEW G \in [1..n -> [X -> X]]
  PROVE  \E t \in [0..n -> X] : ObeysBack(t, n, x, G)
<1> DEFINE H == [j \in Nat |-> [y \in X |-> IF n - j \in 1..n THEN G[n - j][y] ELSE y]]
<1>1. H \in [Nat -> [X -> X]]
  <2>1. ASSUME NEW j \in Nat, NEW y \in X
        PROVE  (IF n - j \in 1..n THEN G[n - j][y] ELSE y) \in X
    <3>1. CASE n - j \in 1..n
      BY <3>1
    <3>2. CASE n - j \notin 1..n
      BY <3>2
    <3>. QED BY <3>1, <3>2
  <2>. QED BY <2>1
<1>2. PICK f \in [Nat -> X] : Obeys(f, x, H)
  <2> HIDE DEF H
  <2>. QED BY <1>1, StepByStep
<1> DEFINE t == [k \in 0..n |-> f[n - k]]
<1>3. t \in [0..n -> X]
  <2>1. \A k \in 0..n : n - k \in Nat
    OBVIOUS
  <2>. QED BY <2>1
<1>4. t[n] = x
  <2>1. n \in 0..n /\ n - n = 0
    OBVIOUS
  <2>. QED BY <1>2, <2>1 DEF Obeys
<1>5. ASSUME NEW k \in 1..n PROVE t[k - 1] = G[k][t[k]]
  <2> DEFINE j == n - k
  <2>1. j \in Nat /\ n - j = k /\ n - (k - 1) = j + 1 /\ k \in 0..n /\ k - 1 \in 0..n
    OBVIOUS
  <2>2. f[j + 1] = H[j][f[j]] /\ f[j] \in X
    BY <1>2, <2>1 DEF Obeys
  <2>3. H[j][f[j]] = G[k][f[j]]
    BY <2>1, <2>2
  <2>4. t[k - 1] = f[j + 1] /\ t[k] = f[j]
    BY <2>1
  <2>. QED BY <2>2, <2>3, <2>4
<1> HIDE DEF t
<1>6. ObeysBack(t, n, x, G)
  BY <1>4, <1>5 DEF ObeysBack
<1>. QED BY <1>3, <1>6

(* t[k] is what follows the first k parts. *)
Unrolls(t, ss, z, S) ==
  /\ t \in [0..Len(ss) -> Seq(S)] /\ t[Len(ss)] = z
  /\ t[0] = FlattenSeq(ss) \o z
  /\ \A k \in 1..Len(ss) : t[k - 1] = ss[k] \o t[k]

LEMMA Unrolled ==
  ASSUME NEW S, NEW ss \in Seq(Seq(S)), NEW z \in Seq(S)
  PROVE  \E t : Unrolls(t, ss, z, S)
<1> DEFINE n == Len(ss)
           X == Seq(S)
           G == [k \in 1..n |-> [y \in X |-> ss[k] \o y]]
<1>1. n \in Nat /\ \A k \in 1..n : ss[k] \in Seq(S)
  BY ElementOfSeq
<1> HIDE DEF n
<1>2. G \in [1..n -> [X -> X]]
  <2>1. ASSUME NEW k \in 1..n, NEW y \in X PROVE ss[k] \o y \in X
    BY <1>1, ConcatIsSeq
  <2> HIDE DEF X
  <2>. QED BY <2>1
<1>3. PICK t \in [0..n -> X] : ObeysBack(t, n, z, G)
  <2> HIDE DEF G
  <2>1. z \in X
    OBVIOUS
  <2> HIDE DEF X
  <2>. QED BY <1>1, <1>2, <2>1, Backwards
<1>4. ASSUME NEW k \in 1..n PROVE t[k - 1] = ss[k] \o t[k]
  <2>1. k \in 0..n
    BY <1>1
  <2>2. t[k] \in X
    BY <1>3, <2>1
  <2> HIDE DEF X
  <2>. QED BY <1>3, <2>2 DEF ObeysBack
<1>5. PICK f \in [Nat -> Seq(S)] : f[0] = <<>> /\ \A k \in 1..Len(ss) : f[k] = f[k - 1] \o ss[k]
  BY Flattened
<1>6. FlattenSeq(ss) = f[n]
  BY <1>5, FlattenIs DEF n
<1> DEFINE E == {k \in Nat : k <= n => f[k] \o t[k] = t[0]}
<1>7. 0 \in E
  <2>1. 0 \in 0..n
    BY <1>1
  <2>2. t[0] \in Seq(S)
    BY <1>3, <2>1
  <2>3. f[0] \o t[0] = t[0]
    BY <1>5, <2>2, EmptyLeft
  <2>. QED BY <2>3
<1>8. ASSUME NEW k \in Nat, k \in E PROVE k + 1 \in E
  <2> DEFINE l == k + 1
  <2>0. l \in Nat
    OBVIOUS
  <2>1. ASSUME l <= n PROVE f[l] \o t[l] = t[0]
    <3>1. l \in 1..n /\ l - 1 = k /\ k \in 0..n /\ l \in 0..n /\ k <= n
      BY <1>1, <2>1
    <3> HIDE DEF l
    <3>2. f[l] = f[k] \o ss[l] /\ t[k] = ss[l] \o t[l]
      BY <1>4, <1>5, <3>1 DEF n
    <3>3. f[k] \in Seq(S) /\ ss[l] \in Seq(S) /\ t[l] \in Seq(S)
      BY <1>1, <1>3, <1>5, <3>1
    <3>4. Joined(f[k], ss[l], t[l])
      <4> DEFINE x == f[k]
                 y == ss[l]
                 u == t[l]
      <4>1. x \in Seq(S) /\ y \in Seq(S) /\ u \in Seq(S)
        BY <3>3
      <4> HIDE DEF x, y, u
      <4>2. Joined(x, y, u)
        BY <4>1, Associates
      <4>. QED BY <4>2 DEF x, y, u
    <3>5. f[k] \o t[k] = t[0]
      BY <1>8, <3>1
    <3>. QED BY <3>2, <3>4, <3>5, Zenon DEF Joined
  <2>. QED BY <2>0, <2>1, Zenon
<1>9. Nat \subseteq E
  <2> HIDE DEF E
  <2>. QED BY <1>7, <1>8, NatSetInduction
<1>10. n \in E /\ n <= n
  <2>1. n \in Nat /\ n <= n
    BY <1>1
  <2> HIDE DEF E
  <2>. QED BY <1>9, <2>1
<1>11. f[n] \o t[n] = t[0]
  BY <1>10
<1>12. t \in [0..n -> Seq(S)]
  BY <1>3
<1>13. Unrolls(t, ss, z, S)
  BY <1>3, <1>4, <1>6, <1>11, <1>12, Zenon DEF Unrolls, ObeysBack, n
<1>. QED BY <1>13

CountsDown(t, s, c) ==
  /\ t \in [0..Len(s) -> Nat] /\ t[Len(s)] = c
  /\ t[0] = Total(s) + c
  /\ \A k \in 1..Len(s) : t[k - 1] = s[k] + t[k]

LEMMA Countdown ==
  ASSUME NEW s \in Seq(Nat), NEW c \in Nat
  PROVE  \E t : CountsDown(t, s, c)
<1> DEFINE n == Len(s)
           G == [k \in 1..n |-> [y \in Nat |-> s[k] + y]]
<1>1. n \in Nat /\ \A k \in 1..n : s[k] \in Nat
  BY ElementOfSeq
<1> HIDE DEF n
<1>2. G \in [1..n -> [Nat -> Nat]]
  BY <1>1
<1>3. PICK t \in [0..n -> Nat] : ObeysBack(t, n, c, G)
  <2> HIDE DEF G
  <2>. QED BY <1>1, <1>2, Backwards
<1>4. ASSUME NEW k \in 1..n PROVE t[k - 1] = s[k] + t[k]
  <2>1. k \in 0..n
    BY <1>1
  <2>2. t[k] \in Nat
    BY <1>3, <2>1
  <2>. QED BY <1>3, <2>2 DEF ObeysBack
<1> HIDE DEF G
<1>5. PICK f \in [Nat -> Nat] : f[0] = 0 /\ \A k \in 1..Len(s) : f[k] = f[k - 1] + s[k]
  BY Totalled
<1>6. Total(s) = f[n]
  BY <1>5, TotalIs DEF n
<1> DEFINE E == {k \in Nat : k <= n => f[k] + t[k] = t[0]}
<1>7. 0 \in E
  <2>1. t[0] \in Nat
    BY <1>1, <1>3
  <2>. QED BY <1>5, <2>1
<1>8. ASSUME NEW k \in Nat, k \in E PROVE k + 1 \in E
  <2>1. SUFFICES ASSUME k + 1 <= n PROVE f[k + 1] + t[k + 1] = t[0]
    OBVIOUS
  <2>2. k + 1 \in 1..n /\ (k + 1) - 1 = k /\ k \in 0..n /\ k + 1 \in 0..n /\ k <= n
    BY <1>1, <2>1
  <2>3. f[k + 1] = f[k] + s[k + 1]
    BY <1>5, <2>2 DEF n
  <2>4. t[k] = s[k + 1] + t[k + 1]
    BY <1>4, <2>2
  <2>5. f[k] \in Nat /\ s[k + 1] \in Nat /\ t[k + 1] \in Nat
    BY <1>1, <1>3, <1>5, <2>2
  <2>6. f[k] + t[k] = t[0]
    BY <1>8, <2>2
  <2> HIDE DEF E
  <2> DEFINE a == f[k]
             b == s[k + 1]
             y == t[k + 1]
             x == t[k]
             u == t[0]
  <2>7. a \in Nat /\ b \in Nat /\ y \in Nat /\ x = b + y /\ a + x = u
    BY <2>4, <2>5, <2>6
  <2>8. (a + b) + y = u
    <3> HIDE DEF a, b, y, x, u
    <3>. QED BY <2>7
  <2>. QED BY <2>3, <2>8, Zenon
<1>9. Nat \subseteq E
  <2> HIDE DEF E
  <2>. QED BY <1>7, <1>8, NatSetInduction
<1>10. n \in E /\ n <= n
  <2>1. n \in Nat /\ n <= n
    BY <1>1
  <2> HIDE DEF E
  <2>. QED BY <1>9, <2>1
<1>11. f[n] + t[n] = t[0]
  BY <1>10
<1>12. t \in [0..n -> Nat]
  BY <1>3
<1>13. CountsDown(t, s, c)
  BY <1>3, <1>4, <1>6, <1>11, <1>12, Zenon DEF CountsDown, ObeysBack, n
<1>. QED BY <1>13

-----------------------------------------------------------------------------
(* What a caller can hold. *)

HoldableRec == INSTANCE Recursion WITH
  Base <- HeldSimple, Step <- LAMBDA n, V : HeldDeeper(V)

LEMMA HoldableIs ==
  Holdable[0] = HeldSimple /\ \A n \in Nat : Holdable[n + 1] = HeldDeeper(Holdable[n])
<1>1. Holdable = HoldableRec!Recursive
  BY DEF Holdable, HoldableRec!Recursive
<1>. QED BY <1>1, HoldableRec!RecursiveIs

HeldKeys == AllKeys \intersect HeldSimple

IsHeldList(b, V) == b.type = "list" /\ b = BenList(b.values) /\ b.values \in Seq(V)

IsHeldDict(b, V) ==
  /\ b.type = "dict" /\ b = BenDict(b.keys, b.values)
  /\ b.keys \in Seq(HeldKeys) /\ b.values \in Seq(V) /\ Len(b.keys) = Len(b.values)
  /\ \A i, j \in 1..Len(b.keys) : b.keys[i] = b.keys[j] => i = j

LEMMA HoldableParts ==
  ASSUME NEW n \in Nat, NEW b \in Holdable[n + 1]
  PROVE  b \in HeldSimple \/ IsHeldList(b, Holdable[n]) \/ IsHeldDict(b, Holdable[n])
<1>1. b \in HeldDeeper(Holdable[n])
  BY HoldableIs
<1> DEFINE V == Holdable[n]
<1> HIDE DEF V
<1>2. CASE b \in HeldSimple
  BY <1>2
<1>3. CASE b \in [type : {"list"}, values : Seq(V)]
  BY <1>3 DEF IsHeldList, BenList, V
<1>4. CASE b \in {d \in [type : {"dict"}, keys : Seq(HeldKeys), values : Seq(V)] :
                    Len(d.keys) = Len(d.values) /\ IsInjective(d.keys)}
  <2>1. /\ b.type = "dict" /\ b = BenDict(b.keys, b.values)
        /\ b.keys \in Seq(HeldKeys) /\ b.values \in Seq(V) /\ Len(b.keys) = Len(b.values)
        /\ IsInjective(b.keys)
    BY <1>4 DEF BenDict
  <2>2. DOMAIN b.keys = 1..Len(b.keys)
    BY <2>1
  <2>. QED BY <2>1, <2>2 DEF IsHeldDict, IsInjective, V
<1>. QED BY <1>1, <1>2, <1>3, <1>4 DEF HeldDeeper, HeldKeys, V

LEMMA ListHeld ==
  ASSUME NEW n \in Nat, NEW vs \in Seq(Holdable[n])
  PROVE  BenList(vs) \in Holdable[n + 1]
<1>1. BenList(vs) \in HeldDeeper(Holdable[n])
  BY DEF HeldDeeper, BenList
<1>. QED BY <1>1, HoldableIs

LEMMA DictHeld ==
  ASSUME NEW n \in Nat, NEW ks \in Seq(HeldKeys), NEW vs \in Seq(Holdable[n]), Len(ks) = Len(vs),
         \A i, j \in 1..Len(ks) : ks[i] = ks[j] => i = j
  PROVE  BenDict(ks, vs) \in Holdable[n + 1]
<1>1. IsInjective(ks)
  <2>1. DOMAIN ks = 1..Len(ks)
    OBVIOUS
  <2>. QED BY <2>1 DEF IsInjective
<1> DEFINE V == Holdable[n]
           K == AllKeys \intersect HeldSimple
           D == {d \in [type : {"dict"}, keys : Seq(K), values : Seq(V)] :
                    Len(d.keys) = Len(d.values) /\ IsInjective(d.keys)}
<1>2. ks \in Seq(K)
  BY DEF HeldKeys
<1> HIDE DEF V, K
<1>3. BenDict(ks, vs) \in D
  BY <1>1, <1>2 DEF BenDict, V
<1>4. D \subseteq HeldDeeper(V)
  BY DEF HeldDeeper, K
<1>. QED BY <1>3, <1>4, HoldableIs DEF V

LEMMA HoldableNested == \A n \in Nat : Holdable[n] \subseteq Nested[n]
<1> DEFINE E == {n \in Nat : Holdable[n] \subseteq Nested[n]}
<1>1. 0 \in E
  BY HoldableIs, NestedIs DEF HeldSimple
<1>2. ASSUME NEW n \in Nat, n \in E PROVE n + 1 \in E
  <2>1. SUFFICES ASSUME NEW b \in Holdable[n + 1] PROVE b \in Nested[n + 1]
    OBVIOUS
  <2>2. Holdable[n] \subseteq Nested[n]
    BY <1>2
  <2>3. Seq(Holdable[n]) \subseteq Seq(Nested[n])
    BY <2>2, SeqMonotonic
  <2>4. Seq(HeldKeys) \subseteq Seq(AllKeys)
    BY SeqMonotonic DEF HeldKeys
  <2>5. CASE b \in HeldSimple
    BY <2>5, SimpleNested DEF HeldSimple
  <2>6. CASE IsHeldList(b, Holdable[n])
    BY <2>3, <2>6, ListNested DEF IsHeldList
  <2>7. CASE IsHeldDict(b, Holdable[n])
    BY <2>3, <2>4, <2>7, DictNested DEF IsHeldDict
  <2>. QED BY <2>5, <2>6, <2>7, HoldableParts
<1>3. Nat \subseteq E
  <2> HIDE DEF E
  <2>. QED BY <1>1, <1>2, NatSetInduction
<1>. QED BY <1>3

LEMMA HoldableGrows == \A n \in Nat : Holdable[n] \subseteq Holdable[n + 1]
<1> DEFINE E == {n \in Nat : Holdable[n] \subseteq Holdable[n + 1]}
<1>1. 0 \in E
  BY HoldableIs DEF HeldDeeper
<1>2. ASSUME NEW n \in Nat, n \in E PROVE n + 1 \in E
  <2> DEFINE m == n + 1
  <2>0. m \in Nat
    OBVIOUS
  <2>1. SUFFICES ASSUME NEW b \in Holdable[m] PROVE b \in Holdable[m + 1]
    OBVIOUS
  <2>2. Holdable[n] \subseteq Holdable[m]
    BY <1>2
  <2>3. Seq(Holdable[n]) \subseteq Seq(Holdable[m])
    BY <2>2, SeqMonotonic
  <2>4. b \in HeldSimple \/ IsHeldList(b, Holdable[n]) \/ IsHeldDict(b, Holdable[n])
    BY HoldableParts
  <2> HIDE DEF m
  <2>5. CASE b \in HeldSimple
    BY <2>0, <2>5, HoldableIs DEF HeldDeeper
  <2>6. CASE IsHeldList(b, Holdable[n])
    BY <2>0, <2>3, <2>6, ListHeld DEF IsHeldList
  <2>7. CASE IsHeldDict(b, Holdable[n])
    BY <2>0, <2>3, <2>7, DictHeld DEF IsHeldDict
  <2>. QED BY <2>4, <2>5, <2>6, <2>7
<1>3. Nat \subseteq E
  <2> HIDE DEF E
  <2>. QED BY <1>1, <1>2, NatSetInduction
<1>. QED BY <1>3

LEMMA HeldSimpleHoldable == \A n \in Nat : HeldSimple \subseteq Holdable[n]
<1> DEFINE E == {n \in Nat : HeldSimple \subseteq Holdable[n]}
<1>1. 0 \in E
  BY HoldableIs
<1>2. ASSUME NEW n \in Nat, n \in E PROVE n + 1 \in E
  BY <1>2, HoldableGrows
<1>3. Nat \subseteq E
  <2> HIDE DEF E
  <2>. QED BY <1>1, <1>2, NatSetInduction
<1>. QED BY <1>3

(* A value that can be sent, and what it is made of. *)
Sendable == Holdable[MaxDepth]

LEMMA SendableIs ==
  /\ Sendable \subseteq Nested[MaxDepth] /\ HeldSimple \subseteq Sendable
  /\ Holdable[Inner] \subseteq Sendable /\ Holdable[Inner] \subseteq Nested[Inner]
  /\ HeldKeys \subseteq Sendable
  /\ \A b \in Sendable :
       b \in HeldSimple \/ IsHeldList(b, Holdable[Inner]) \/ IsHeldDict(b, Holdable[Inner])
<1>1. Inner \in Nat /\ MaxDepth \in Nat /\ Inner + 1 = MaxDepth
  BY InnerIs
<1>2. Sendable \subseteq Nested[MaxDepth] /\ HeldSimple \subseteq Sendable
  BY <1>1, HoldableNested, HeldSimpleHoldable DEF Sendable
<1>3. Holdable[Inner] \subseteq Holdable[Inner + 1] /\ Holdable[Inner] \subseteq Nested[Inner]
  BY <1>1, HoldableGrows, HoldableNested
<1>4. \A b \in Holdable[Inner + 1] :
        b \in HeldSimple \/ IsHeldList(b, Holdable[Inner]) \/ IsHeldDict(b, Holdable[Inner])
  BY <1>1, HoldableParts
<1>. QED BY <1>1, <1>2, <1>3, <1>4 DEF Sendable, HeldKeys

LEMMA HeldIsNested ==
  ASSUME NEW b
  PROVE  /\ IsHeldList(b, Holdable[Inner]) => IsListOf(b, Nested[Inner])
         /\ IsHeldDict(b, Holdable[Inner]) => IsDictOf(b, Nested[Inner])
<1>1. Seq(Holdable[Inner]) \subseteq Seq(Nested[Inner])
  BY SendableIs, SeqMonotonic
<1>2. Seq(HeldKeys) \subseteq Seq(AllKeys)
  BY SeqMonotonic DEF HeldKeys
<1>. QED BY <1>1, <1>2 DEF IsHeldList, IsHeldDict, IsListOf, IsDictOf

-----------------------------------------------------------------------------
(* The decoder takes the numerals that the encoder writes. *)

LEMMA DigitBack == \A d \in 0..9 : DigitOf[Digits[d + 1]] = d /\ (d # 0 => Digits[d + 1] # "0")
<1> TAKE d \in 0..9
<1>1. \/ d = 0 \/ d = 1 \/ d = 2 \/ d = 3 \/ d = 4
      \/ d = 5 \/ d = 6 \/ d = 7 \/ d = 8 \/ d = 9
  OBVIOUS
<1>. QED BY <1>1 DEF Digits, DigitOf

LEMMA AppendConcat ==
  ASSUME NEW S, NEW s \in Seq(S), NEW c \in S
  PROVE  s \o <<c>> = Append(s, c)
  OBVIOUS

(* The decimal of n has the number n, and no zero in front. *)
NumberOf(n) == Number(Decimal[n]) = n /\ (n # 0 => Decimal[n][1] # "0")

LEMMA DecimalRead == \A n \in Nat : NumberOf(n)
<1> DEFINE E == {k \in Nat : \A n \in Nat : n < k => NumberOf(n)}
<1>1. 0 \in E
  OBVIOUS
<1>2. ASSUME NEW k \in Nat, k \in E PROVE k + 1 \in E
  <2> SUFFICES ASSUME NEW n \in Nat, n < k + 1 PROVE NumberOf(n)
    OBVIOUS
  <2>1. Decimal[n] = DecimalWith(Decimal, n)
    BY DecimalIs
  <2>2. CASE n < 10
    <3> DEFINE c == Digits[n + 1]
    <3>1. n \in 0..9
      BY <2>2
    <3>2. c \in Figure /\ DigitOf[c] = n /\ (n # 0 => c # "0")
      BY <3>1, DigitsAre, DigitBack
    <3>3. Decimal[n] = <<c>>
      BY <2>1, <2>2 DEF DecimalWith
    <3> HIDE DEF c
    <3>4. <<>> \in Seq(Figure) /\ <<c>> = Append(<<>>, c) /\ <<c>>[1] = c
      BY <3>2
    <3>5. Number(<<c>>) = 10 * Number(<<>>) + DigitOf[c]
      BY <3>2, <3>4, NumberAppend
    <3>6. Number(<<c>>) = n
      BY <3>2, <3>5, NumberEmpty
    <3>. QED BY <3>2, <3>3, <3>4, <3>6 DEF NumberOf
  <2>3. CASE ~(n < 10)
    <3> DEFINE m == n \div 10
               d == n % 10
               c == Digits[d + 1]
               t == Decimal[m]
    <3>1. m \in Nat /\ m < k /\ d \in 0..9 /\ n = 10 * m + d /\ m # 0
      BY <2>3, Tenth
    <3>2. t \in Seq(Figure) /\ Len(t) >= 1
      BY <3>1, DecimalType
    <3>3. NumberOf(m)
      BY <1>2, <3>1
    <3>4. c \in Figure /\ DigitOf[c] = d
      BY <3>1, DigitsAre, DigitBack
    <3>5. Decimal[n] = t \o <<c>>
      BY <2>1, <2>3 DEF DecimalWith
    <3>6. Number(t) = m /\ t[1] # "0"
      BY <3>1, <3>3 DEF NumberOf
    <3> HIDE DEF m, d, c, t
    <3>7. Decimal[n] = Append(t, c)
      BY <3>2, <3>4, <3>5, AppendConcat
    <3>8. Number(Append(t, c)) = 10 * m + d
      BY <3>2, <3>4, <3>6, NumberAppend
    <3>9. Append(t, c)[1] = t[1]
      BY <3>2, <3>4, AppendProperties
    <3>. QED BY <3>1, <3>6, <3>7, <3>8, <3>9 DEF NumberOf
  <2>. QED BY <2>2, <2>3
<1>3. Nat \subseteq E
  <2> HIDE DEF E
  <2>. QED BY <1>1, <1>2, NatSetInduction
<1> SUFFICES ASSUME NEW n \in Nat PROVE NumberOf(n)
  OBVIOUS
<1>4. n + 1 \in Nat /\ n < n + 1
  OBVIOUS
<1>5. n + 1 \in E
  <2> HIDE DEF E
  <2>. QED BY <1>3, <1>4
<1>. QED BY <1>4, <1>5

LEMMA DecimalZero == Decimal[0] = <<"0">>
<1>1. Decimal[0] = DecimalWith(Decimal, 0)
  BY DecimalIs
<1>. QED BY <1>1 DEF DecimalWith, Digits

(* What occurs in a numeral. *)
IsNumeral(s) == s \in Seq(Octet) /\ \A i \in 1..Len(s) : s[i] \in Figure \union {"-"}

LEMMA NumeralFigures ==
  ASSUME NEW n \in Int
  PROVE  /\ IsNumeral(Numeral(n)) /\ Len(Numeral(n)) >= 1
         /\ n >= 0 => Numeral(n)[1] \in Figure
<1>1. Numeral(n) \in Seq(Octet) /\ Len(Numeral(n)) >= 1
  BY NumeralType
<1>2. CASE n < 0
  <2> DEFINE t == Decimal[-n]
             s == <<"-">> \o t
  <2>1. t \in Seq(Figure)
    <3>1. -n \in Nat
      BY <1>2
    <3>. QED BY <3>1, DecimalType
  <2>2. Numeral(n) = s
    BY <1>2 DEF Numeral
  <2> HIDE DEF t
  <2>3. <<"-">> \in Seq(Figure \union {"-"}) /\ t \in Seq(Figure \union {"-"})
    BY <2>1
  <2>4. s \in Seq(Figure \union {"-"})
    BY <2>3, ConcatIsSeq
  <2> HIDE DEF s
  <2>5. \A i \in 1..Len(s) : s[i] \in Figure \union {"-"}
    BY <2>4
  <2>. QED BY <1>1, <1>2, <2>2, <2>5 DEF IsNumeral
<1>3. CASE ~(n < 0)
  <2>1. n \in Nat
    BY <1>3
  <2>2. Decimal[n] \in Seq(Figure) /\ Len(Decimal[n]) >= 1
    BY <2>1, DecimalType
  <2>3. Numeral(n) = Decimal[n]
    BY <1>3 DEF Numeral
  <2>. QED BY <1>1, <2>2, <2>3 DEF IsNumeral
<1>. QED BY <1>2, <1>3

LEMMA NumeralWhole ==
  ASSUME NEW s, IsNumeral(s)
  PROVE  CString(s) = s /\ \A i \in 1..Len(s) : s[i] # ":" /\ s[i] # "e"
<1>1. {"NUL", ":", "e"} \intersect (Figure \union {"-"}) = {}
  BY DEF Figure
<1>2. DOMAIN s = 1..Len(s)
  BY DEF IsNumeral
<1>3. {k \in DOMAIN s : s[k] = "NUL"} = {}
  BY <1>1, <1>2 DEF IsNumeral
<1>4. CString(s) = s
  BY <1>3 DEF CString
<1>. QED BY <1>1, <1>4 DEF IsNumeral

LEMMA TailConcat ==
  ASSUME NEW S, NEW t \in Seq(S), NEW c \in S
  PROVE  /\ Tail(<<c>> \o t) = t /\ (<<c>> \o t)[1] = c /\ <<c>> \o t # <<>>
         /\ Len(t) >= 1 => (<<c>> \o t)[2] = t[1]
<1> DEFINE s == <<c>> \o t
<1>1. /\ s \in Seq(S) /\ Len(s) = 1 + Len(t) /\ s[1] = c
      /\ \A i \in 1..Len(t) : s[i + 1] = t[i]
  OBVIOUS
<1>2. s # <<>>
  BY <1>1
<1> HIDE DEF s
<1>3. /\ Tail(s) \in Seq(S) /\ Len(Tail(s)) = Len(s) - 1
      /\ \A i \in 1..(Len(s) - 1) : Tail(s)[i] = s[i + 1]
  BY <1>1, <1>2
<1>4. Tail(s) = t
  BY <1>1, <1>3, SeqEqual
<1>5. Len(t) >= 1 => s[2] = t[1]
  BY <1>1
<1>. QED BY <1>1, <1>2, <1>4, <1>5 DEF s

(* read_long_long finds in a numeral the number it was written for. *)
LEMMA NumeralRead ==
  ASSUME NEW n \in LongLongs
  PROVE  WellFormed(Numeral(n)) /\ LongLong(Numeral(n)) = n
<1> DEFINE s == Numeral(n)
<1>0. n \in Int
  BY DEF LongLongs
<1>1. IsNumeral(s) /\ Len(s) >= 1 /\ Len(s) \in Nat
  BY <1>0, NumeralFigures DEF IsNumeral
<1>2. Len(s) \in 1..(LongLongSize - 1)
  <2>1. Len(s) < LongLongSize /\ LongLongSize \in Nat
    BY HoldableAssumption, DecoderAssumption
  <2> HIDE DEF s
  <2>. QED BY <1>1, <2>1
<1>3. CString(s) = s
  BY <1>1, NumeralWhole
<1>4. CASE n < 0
  <2> DEFINE m == -n
             t == Decimal[m]
  <2>1. m \in Nat /\ m # 0 /\ -m = n
    BY <1>0, <1>4
  <2>2. t \in Seq(Figure) /\ Len(t) >= 1 /\ Number(t) = m /\ t[1] # "0"
    BY <2>1, DecimalType, DecimalRead DEF NumberOf
  <2>3. s = <<"-">> \o t
    BY <1>4 DEF Numeral
  <2>4. t \in Seq(Octet) /\ "-" \in Octet
    <3>1. Seq(Figure) \subseteq Seq(Octet)
      BY DigitsAre, SeqMonotonic
    <3>. QED BY <2>2, <3>1, Letters
  <2> HIDE DEF s, t, m
  <2>5. Tail(s) = t /\ s[1] = "-" /\ s # <<>> /\ s[2] = t[1]
    BY <2>2, <2>3, <2>4, TailConcat
  <2>6. HasSign(s) /\ Figures(s) = t
    BY <2>5 DEF HasSign, Figures
  <2>7. LongLong(s) = n
    BY <2>1, <2>2, <2>6 DEF LongLong
  <2>8. IsLongLong(s)
    <3>1. t # <<>> /\ \A k \in DOMAIN t : IsDigit(t[k])
      BY <2>2, DigitsAre
    <3>. QED BY <2>6, <2>7, <3>1 DEF IsLongLong, LongLongs
  <2>9. WellFormed(s)
    BY <1>2, <1>3, <2>2, <2>5, <2>8 DEF WellFormed
  <2>. QED BY <2>7, <2>9 DEF s
<1>5. CASE ~(n < 0)
  <2> DEFINE t == Decimal[n]
  <2>1. n \in Nat
    BY <1>0, <1>5
  <2>2. t \in Seq(Figure) /\ Len(t) >= 1 /\ Number(t) = n /\ (n # 0 => t[1] # "0")
    BY <2>1, DecimalType, DecimalRead DEF NumberOf
  <2>3. s = t
    BY <1>5 DEF Numeral
  <2>4. n = 0 => Len(t) = 1
    BY DecimalZero
  <2> HIDE DEF s, t
  <2>5. t # <<>> /\ (\A k \in DOMAIN t : t[k] \in Figure) /\ 1 \in DOMAIN t
    BY <2>2
  <2>6. t[1] # "-"
    BY <2>5 DEF Figure
  <2>7. Figures(s) = t /\ ~HasSign(s)
    BY <2>3, <2>6 DEF HasSign, Figures
  <2>8. LongLong(s) = n
    BY <2>2, <2>7 DEF LongLong
  <2>9. IsLongLong(s)
    BY <2>5, <2>7, <2>8, DigitsAre DEF IsLongLong, LongLongs
  <2>10. WellFormed(s)
    BY <1>2, <1>3, <2>2, <2>3, <2>4, <2>6, <2>9 DEF WellFormed
  <2>. QED BY <2>8, <2>10 DEF s
<1>. QED BY <1>4, <1>5

-----------------------------------------------------------------------------
(* Data and what is expected of it. *)

(* From o on, d is x, as far as it goes. *)
Reads(d, o, x) == \A i \in 1..Len(x) : o + i <= Len(d) => d[o + i] = x[i]

LEMMA ReadsParts ==
  ASSUME NEW S, NEW x \in Seq(S), NEW y \in Seq(S), NEW d, NEW o \in Nat, Reads(d, o, x \o y)
  PROVE  Reads(d, o, x) /\ Reads(d, o + Len(x), y)
<1> DEFINE m == Len(x)
           n == Len(y)
           z == x \o y
<1>1. /\ m \in Nat /\ n \in Nat /\ Len(z) = m + n
      /\ \A i \in 1..m : z[i] = x[i]
      /\ \A i \in 1..n : z[m + i] = y[i]
  BY ConcatProperties
<1>2. \A i \in 1..Len(z) : o + i <= Len(d) => d[o + i] = z[i]
  BY DEF Reads
<1> HIDE DEF m, n, z
<1>3. Reads(d, o, x)
  <2>1. \A i \in 1..m : o + i <= Len(d) => d[o + i] = x[i]
    BY <1>1, <1>2
  <2>. QED BY <2>1 DEF Reads, m
<1>4. Reads(d, o + m, y)
  <2> SUFFICES ASSUME NEW i \in 1..n, (o + m) + i <= Len(d)
               PROVE  d[(o + m) + i] = y[i]
    BY DEF Reads, n
  <2>1. (o + m) + i = o + (m + i) /\ m + i \in 1..(m + n)
    BY <1>1
  <2>2. d[o + (m + i)] = z[m + i]
    BY <1>1, <1>2, <2>1
  <2>. QED BY <1>1, <2>1, <2>2
<1>. QED BY <1>3, <1>4 DEF m

(* What is expected up to c is found, if the data go that far. *)
LEMMA NumberFound ==
  ASSUME DecoderInv, NEW p \in Nat, NEW s \in Seq(Octet), NEW c,
         \A i \in 1..Len(s) : s[i] # c,
         Reads(data, p, s), Reads(data, p + Len(s), <<c>>)
  PROVE  IF p + Len(s) + 1 <= Len(data)
           THEN Ends(p, c) # {} /\ Find(p, c) = p + Len(s) /\ NumberText(p, c) = s
           ELSE Ends(p, c) = {}
<1> DEFINE n == Len(s)
           d == data
           l == Len(d)
<1>1. d \in Seq(Octet) /\ l \in Nat /\ n \in Nat
  <2>1. data \in Seq(Octet)
    BY Zenon DEF DecoderInv
  <2>. QED BY <2>1
<1>2. Ends(p, c) = {k \in p..(l - 1) : d[k + 1] = c}
  BY DEF Ends
<1>3. \A i \in 1..n : p + i <= l => d[p + i] = s[i]
  BY DEF Reads
<1>4. (p + n) + 1 <= l => d[(p + n) + 1] = c
  <2>1. 1 \in 1..Len(<<c>>) /\ <<c>>[1] = c
    OBVIOUS
  <2>. QED BY <2>1 DEF Reads
<1>5. \A i \in 1..n : s[i] # c
  OBVIOUS
<1>8. NumberText(p, c) = SubSeq(d, p + 1, Find(p, c))
  BY DEF NumberText
<1> HIDE DEF n, d, l
<1>6. ASSUME NEW k \in Ends(p, c) PROVE k \in Nat /\ k >= p + n /\ k + 1 <= l
  <2>1. k \in p..(l - 1) /\ d[k + 1] = c
    BY <1>2
  <2>2. k \in Nat /\ k + 1 <= l
    BY <1>1, <2>1
  <2>3. ASSUME k < p + n PROVE FALSE
    <3> DEFINE i == (k - p) + 1
    <3>1. i \in 1..n /\ p + i = k + 1
      BY <1>1, <2>1, <2>3
    <3> HIDE DEF i
    <3>. QED BY <1>3, <1>5, <2>1, <2>2, <3>1
  <2>. QED BY <1>1, <2>2, <2>3
<1>7. CASE (p + n) + 1 <= l
  <2>1. p + n \in Ends(p, c)
    BY <1>1, <1>2, <1>4, <1>7
  <2>2. Find(p, c) \in Ends(p, c) /\ Find(p, c) <= p + n
    <3>1. \A k \in Ends(p, c) : p + n <= k
      BY <1>1, <1>6
    <3>2. \E m \in Ends(p, c) : \A k \in Ends(p, c) : m <= k
      BY <2>1, <3>1
    <3> DEFINE f == Find(p, c)
    <3>3. f \in Ends(p, c) /\ \A k \in Ends(p, c) : f <= k
      BY <3>2 DEF Find, Min
    <3>. QED BY <2>1, <3>3
  <2>3. Find(p, c) = p + n
    <3> DEFINE f == Find(p, c)
    <3>1. f \in Nat /\ f >= p + n /\ f <= p + n
      BY <1>6, <2>2
    <3> HIDE DEF f
    <3>2. f = p + n
      BY <1>1, <3>1
    <3>. QED BY <3>2 DEF f
  <2>4. SubSeq(d, p + 1, p + n) = s
    <3> DEFINE b == p + 1
               e == p + n
               u == SubSeq(d, b, e)
    <3>1. \A i \in b..e : d[i] \in Octet
      <4>1. \A i \in b..e : i \in 1..l
        BY <1>1, <1>7
      <4>2. DOMAIN d = 1..l
        BY <1>1 DEF l
      <4>. QED BY <1>1, <4>1, <4>2 DEF l
    <3>2. b \in Int /\ e \in Int
      BY <1>1
    <3>3. /\ u \in Seq(Octet)
          /\ Len(u) = IF b <= e THEN e - b + 1 ELSE 0
          /\ \A i \in 1..(e - b + 1) : u[i] = d[b + i - 1]
      <4> HIDE DEF b, e
      <4>. QED BY <1>1, <3>1, <3>2, SubSeqProperties
    <3> HIDE DEF u
    <3>4. Len(u) = n
      BY <1>1, <3>3
    <3>5. ASSUME NEW i \in 1..n PROVE u[i] = s[i]
      <4>1. i \in 1..(e - b + 1) /\ b + i - 1 = p + i /\ p + i <= l
        BY <1>1, <1>7
      <4>. QED BY <1>3, <3>3, <4>1
    <3>6. u = s
      BY <3>3, <3>4, <3>5, SeqEqual DEF n
    <3>. QED BY <3>6 DEF u
  <2>. QED BY <1>7, <1>8, <2>1, <2>3, <2>4 DEF n, d, l
<1>9. CASE ~((p + n) + 1 <= l)
  <2>1. Ends(p, c) = {}
    BY <1>1, <1>6, <1>9
  <2>. QED BY <1>9, <2>1 DEF n, d, l
<1>. QED BY <1>7, <1>9

-----------------------------------------------------------------------------
(* What is to be decoded of a container: the parts that come one after     *)
(* another, what follows the first k of them to the end of the data, and   *)
(* how many values that is.  The value that was sent is the one part of a  *)
(* root.                                                                   *)

IsPlan(p) ==
  /\ p.type \in {"root", "list", "dict"}
  /\ p.parts \in Seq(Sendable) /\ p.size \in Nat
  /\ p.text \in [0..Len(p.parts) -> Seq(Octet)] /\ p.count \in [0..Len(p.parts) -> Nat]
  /\ \A k \in 1..Len(p.parts) : /\ p.text[k - 1] = Serialize(p.parts[k]) \o p.text[k]
                                /\ p.count[k - 1] = Count(p.parts[k]) + p.count[k]
  /\ IF p.type = "dict"
       THEN /\ Len(p.parts) = 2 * p.size
            /\ \A j \in 1..p.size : p.parts[2 * j - 1] \in AllKeys
            /\ \A j \in 2..p.size : Cmp(p.parts[2 * (j - 1) - 1], p.parts[2 * j - 1]) < 0
       ELSE Len(p.parts) = p.size

(* The value that it becomes. *)
Becomes(p) ==
  IF p.type = "dict"
    THEN BenDict([j \in 1..p.size |-> p.parts[2 * j - 1]],
                 [j \in 1..p.size |-> Normal(p.parts[2 * j])])
    ELSE BenList([j \in 1..p.size |-> Normal(p.parts[j])])

(* It is one for b, which z and c more values follow. *)
PlanFor(p, b, z, c) ==
  /\ IsPlan(p) /\ p.type = b.type /\ Becomes(p) = Normal(b)
  /\ p.text[Len(p.parts)] = <<"e">> \o z /\ p.count[Len(p.parts)] = c
  /\ Serialize(b) \o z = <<IF b.type = "dict" THEN "d" ELSE "l">> \o p.text[0]
  /\ Count(b) + c = 1 + p.count[0]

LEMMA Halves ==
  ASSUME NEW n \in Nat, NEW k \in 1..(2 * n)
  PROVE  \E j \in 1..n : k = 2 * j \/ k = 2 * j - 1
<1> DEFINE q == k \div 2
           r == k % 2
<1>1. q \in Int /\ r \in 0..1 /\ k = 2 * q + r
  OBVIOUS
<1> HIDE DEF q, r
<1>2. CASE r = 0
  <2>1. q \in 1..n /\ k = 2 * q
    BY <1>1, <1>2
  <2>. QED BY <2>1
<1>3. CASE r = 1
  <2>1. q + 1 \in 1..n /\ k = 2 * (q + 1) - 1
    BY <1>1, <1>3
  <2>. QED BY <2>1
<1>. QED BY <1>1, <1>2, <1>3

(* One function at the even places and another at the odd ones. *)
Interleaves(f, n, a, b) ==
  (\A j \in 0..n : f[2 * j] = a[j]) /\ (\A j \in 1..n : f[2 * j - 1] = b[j])

LEMMA Interleaved ==
  ASSUME NEW X, NEW n \in Nat, NEW a \in [0..n -> X], NEW b \in [1..n -> X]
  PROVE  \E f \in [0..(2 * n) -> X] : Interleaves(f, n, a, b)
<1> DEFINE f == [k \in 0..(2 * n) |-> IF k % 2 = 0 THEN a[k \div 2] ELSE b[(k + 1) \div 2]]
<1>1. ASSUME NEW j \in 0..n PROVE 2 * j \in 0..(2 * n) /\ (2 * j) % 2 = 0 /\ (2 * j) \div 2 = j
  OBVIOUS
<1>2. ASSUME NEW j \in 1..n
      PROVE  2 * j - 1 \in 0..(2 * n) /\ (2 * j - 1) % 2 = 1 /\ ((2 * j - 1) + 1) \div 2 = j
  OBVIOUS
<1>3. f \in [0..(2 * n) -> X]
  <2>1. ASSUME NEW k \in 0..(2 * n)
        PROVE  (IF k % 2 = 0 THEN a[k \div 2] ELSE b[(k + 1) \div 2]) \in X
    <3>1. CASE k = 0
      <4>1. 0 % 2 = 0 /\ 0 \div 2 = 0 /\ 0 \in 0..n
        OBVIOUS
      <4>. QED BY <3>1, <4>1
    <3>2. CASE k # 0
      <4>1. k \in 1..(2 * n)
        BY <3>2
      <4>2. PICK j \in 1..n : k = 2 * j \/ k = 2 * j - 1
        BY <4>1, Halves
      <4>3. j \in 0..n
        OBVIOUS
      <4>4. CASE k = 2 * j
        <5>1. k % 2 = 0 /\ k \div 2 = j
          BY <1>1, <4>3, <4>4
        <5>. QED BY <4>3, <5>1
      <4>5. CASE k = 2 * j - 1
        <5>1. k % 2 = 1 /\ (k + 1) \div 2 = j
          BY <1>2, <4>5
        <5>. QED BY <5>1
      <4>. QED BY <4>2, <4>4, <4>5
    <3>. QED BY <3>1, <3>2
  <2>. QED BY <2>1
<1>4. ASSUME NEW j \in 0..n PROVE f[2 * j] = a[j]
  BY <1>1
<1>5. ASSUME NEW j \in 1..n PROVE f[2 * j - 1] = b[j]
  BY <1>2
<1> HIDE DEF f
<1>6. Interleaves(f, n, a, b)
  BY <1>4, <1>5 DEF Interleaves
<1>. QED BY <1>3, <1>6

LEMMA CountsNat == \A n \in Nat : \A b \in Nested[n] : Counts[n][b] \in Nat /\ Counts[n][b] >= 1
<1> DEFINE E == {n \in Nat : \A b \in Nested[n] : Counts[n][b] \in Nat /\ Counts[n][b] >= 1}
<1>1. 0 \in E
  <2> SUFFICES ASSUME NEW b \in Nested[0] PROVE Counts[0][b] \in Nat /\ Counts[0][b] >= 1
    OBVIOUS
  <2>1. b \in Simple
    BY NestedIs
  <2>2. Counts[0][b] = 1
    BY <2>1, CountsAre, SimpleCount
  <2>. QED BY <2>2
<1>2. ASSUME NEW n \in Nat, n \in E PROVE n + 1 \in E
  <2>0. \A b \in Nested[n] : Counts[n][b] \in Nat
    BY <1>2
  <2> DEFINE g == Counts[n]
             m == n + 1
  <2>1. m \in Nat
    OBVIOUS
  <2>2. ASSUME NEW b \in Nested[m] PROVE Counts[m][b] \in Nat /\ Counts[m][b] >= 1
    <3>1. Counts[m][b] = CountWith(g, b)
      BY CountsAre
    <3>2. b \in Simple \/ IsListOf(b, Nested[n]) \/ IsDictOf(b, Nested[n])
      BY NestedParts
    <3> DEFINE vs == b.values
               ns == [i \in DOMAIN vs |-> g[vs[i]]]
    <3>3. ASSUME vs \in Seq(Nested[n]) PROVE Total(ns) \in Nat
      <4>1. DOMAIN vs = 1..Len(vs) /\ Len(vs) \in Nat /\ \A i \in 1..Len(vs) : vs[i] \in Nested[n]
        BY <3>3
      <4> HIDE DEF vs, g
      <4>2. ns \in [1..Len(vs) -> Nat]
        BY <2>0, <4>1 DEF g
      <4>3. ns \in Seq(Nat)
        BY <4>1, <4>2, FunctionIsSeq
      <4>. QED BY <4>3, TotalIsNat
    <3>4. CASE b \in Simple
      <4>1. Counts[m][b] = 1
        BY <3>1, <3>4, SimpleCount
      <4>. QED BY <4>1
    <3>5. CASE IsListOf(b, Nested[n])
      <4>1. CountWith(g, b) = 1 + Total(ns) /\ vs \in Seq(Nested[n])
        BY <3>5, CountParts DEF IsListOf
      <4> HIDE DEF ns, vs, g
      <4>2. Total(ns) \in Nat
        BY <3>3, <4>1
      <4>. QED BY <3>1, <4>1, <4>2
    <3>6. CASE IsDictOf(b, Nested[n])
      <4>1. /\ CountWith(g, b) = 1 + Len(b.keys) + Total(ns)
            /\ vs \in Seq(Nested[n]) /\ Len(b.keys) \in Nat
        BY <3>6, CountParts DEF IsDictOf
      <4> HIDE DEF ns, vs, g
      <4>2. Total(ns) \in Nat
        BY <3>3, <4>1
      <4>. QED BY <3>1, <4>1, <4>2
    <3>. QED BY <3>2, <3>4, <3>5, <3>6
  <2>. QED BY <2>1, <2>2
<1>3. Nat \subseteq E
  <2> HIDE DEF E
  <2>. QED BY <1>1, <1>2, NatSetInduction
<1>. QED BY <1>3

(* The text of a value, and how many values it is. *)
LEMMA SendableText ==
  ASSUME NEW b \in Sendable
  PROVE  Serialize(b) \in Seq(Octet) /\ Count(b) \in Nat /\ Count(b) >= 1
<1>1. b \in Nested[MaxDepth] /\ MaxDepth \in Nat
  BY SendableIs, InnerIs
<1>2. Count(b) = Counts[MaxDepth][b]
  BY CountsAre
<1>. QED BY <1>1, <1>2, CountsNat, SerializeLen

-----------------------------------------------------------------------------
(* The plan of a list: its values one after the other. *)

Regroups(a, f, e, z) == ((a \o f) \o e) \o z = a \o (f \o (e \o z))

LEMMA Regrouping ==
  ASSUME NEW a \in Seq(Octet), NEW f \in Seq(Octet), NEW e \in Seq(Octet), NEW z \in Seq(Octet)
  PROVE  Regroups(a, f, e, z)
<1>1. e \o z \in Seq(Octet) /\ a \o f \in Seq(Octet)
  BY ConcatIsSeq
<1> DEFINE ez == e \o z
           af == a \o f
<1>2. Joined(af, e, z) /\ Joined(a, f, ez)
  <2>1. ez \in Seq(Octet) /\ af \in Seq(Octet)
    BY <1>1
  <2> HIDE DEF ez, af
  <2>. QED BY <2>1, Joining
<1>. QED BY <1>2, Zenon DEF Regroups, Joined

LEMMA ListPlan ==
  ASSUME NEW b, IsHeldList(b, Holdable[Inner]), NEW z \in Seq(Octet), NEW c \in Nat
  PROVE  \E p : PlanFor(p, b, z, c)
<1> DEFINE vs == b.values
           n == Len(vs)
           zz == <<"e">> \o z
           ss == [i \in DOMAIN vs |-> Serialize(vs[i])]
           ns == [i \in 1..n |-> Count(vs[i])]
<1>1. b.type = "list" /\ b = BenList(vs) /\ vs \in Seq(Holdable[Inner])
  BY DEF IsHeldList
<1>2. /\ n \in Nat /\ DOMAIN vs = 1..n /\ vs \in Seq(Sendable)
      /\ vs \in Seq(Nested[Inner]) /\ \A i \in 1..n : vs[i] \in Sendable
  <2>1. vs \in Seq(Sendable) /\ vs \in Seq(Nested[Inner])
    BY <1>1, SendableIs, SeqMonotonic
  <2> HIDE DEF vs
  <2>. QED BY <2>1
<1>3. zz \in Seq(Octet) /\ <<"e">> \in Seq(Octet) /\ <<"l">> \in Seq(Octet)
  BY Letters, ConcatIsSeq
<1>4. ss \in Seq(Seq(Octet)) /\ Serialize(b) = (<<"l">> \o FlattenSeq(ss)) \o <<"e">>
  <2> HIDE DEF vs
  <2>. QED BY <1>1, <1>2, InnerIs, SerializeList
<1>5. Len(ss) = n /\ \A i \in 1..n : ss[i] = Serialize(vs[i])
  <2> HIDE DEF vs
  <2>1. ss \in [1..n -> Seq(Octet)]
    BY <1>2, SendableText
  <2>2. Len(ss) = n
    BY <1>2, <2>1, FunctionIsSeq
  <2>. QED BY <1>2, <2>2
<1>6. ns \in Seq(Nat) /\ Len(ns) = n
  <2> HIDE DEF vs
  <2>1. ns \in [1..n -> Nat]
    BY <1>2, SendableText
  <2>. QED BY <1>2, <2>1, FunctionIsSeq
<1>7. Count(b) = 1 + Total(ns) /\ Normal(b) = BenList([i \in 1..n |-> Normal(vs[i])])
  BY HeldIsNested, CountList
<1>8. \A i \in 1..n : ns[i] = Count(vs[i])
  OBVIOUS
<1>9. Total(ns) \in Nat /\ FlattenSeq(ss) \in Seq(Octet)
  BY <1>4, <1>6, TotalIsNat, FlattenType
<1> HIDE DEF vs, n, zz, ss, ns
<1>10. PICK t : Unrolls(t, ss, zz, Octet)
  BY <1>3, <1>4, Unrolled
<1>11. PICK u : CountsDown(u, ns, c)
  BY <1>6, Countdown
<1> DEFINE p == [type |-> "list", parts |-> vs, size |-> n, text |-> t, count |-> u]
<1>12. IsPlan(p)
  <2>1. /\ t \in [0..n -> Seq(Octet)] /\ u \in [0..n -> Nat]
        /\ \A k \in 1..n : t[k - 1] = Serialize(vs[k]) \o t[k]
    BY <1>5, <1>6, <1>10, <1>11, Zenon DEF Unrolls, CountsDown
  <2>2. \A k \in 1..n : u[k - 1] = Count(vs[k]) + u[k]
    BY <1>6, <1>8, <1>11, Zenon DEF CountsDown
  <2>3. p.type = "list" /\ p.parts = vs /\ p.size = n /\ p.text = t /\ p.count = u
    OBVIOUS
  <2>4. p.type \in {"root", "list", "dict"} /\ p.type # "dict"
    BY <2>3
  <2> HIDE DEF p
  <2>. QED BY <1>2, <2>1, <2>2, <2>3, <2>4, Zenon DEF IsPlan, n
<1>13. Becomes(p) = Normal(b)
  BY <1>7 DEF Becomes
<1>14. Serialize(b) \o z = <<"l">> \o t[0]
  <2>1. Regroups(<<"l">>, FlattenSeq(ss), <<"e">>, z)
    BY <1>3, <1>9, Regrouping
  <2>2. t[0] = FlattenSeq(ss) \o zz
    BY <1>10 DEF Unrolls
  <2>. QED BY <1>4, <2>1, <2>2, Zenon DEF Regroups, zz
<1>15. Count(b) + c = 1 + u[0]
  <2>1. u[0] = Total(ns) + c
    BY <1>11 DEF CountsDown
  <2>. QED BY <1>7, <1>9, <2>1
<1>16. t[n] = zz /\ u[n] = c
  BY <1>5, <1>6, <1>10, <1>11, Zenon DEF Unrolls, CountsDown
<1>17. p.type = "list" /\ p.parts = vs /\ p.text = t /\ p.count = u
  OBVIOUS
<1> HIDE DEF p
<1>18. "list" # "dict"
  OBVIOUS
<1>19. PlanFor(p, b, z, c)
  BY <1>1, <1>12, <1>13, <1>14, <1>15, <1>16, <1>17, <1>18, Zenon DEF PlanFor, n, zz
<1>. QED BY <1>19

-----------------------------------------------------------------------------
(* The plan of a dictionary: its keys and values by turns.                 *)

(* K and V are the keys and the values of a dictionary, as they are sorted. *)
PairTexts(n, K, V) == [i \in 1..n |-> Serialize(K[i]) \o Serialize(V[i])]
ValueCounts(n, V)  == [i \in 1..n |-> Count(V[i])]

InPairs(b, n, K, V) ==
  /\ \A j \in 2..n : Cmp(K[j - 1], K[j]) < 0
  /\ Normal(b) = BenDict([j \in 1..n |-> K[j]], [j \in 1..n |-> Normal(V[j])])
  /\ Serialize(b) = (<<"d">> \o FlattenSeq(PairTexts(n, K, V))) \o <<"e">>
  /\ Count(b) = 1 + n + Total(ValueCounts(n, V))

LEMMA DictPairs ==
  ASSUME NEW b, IsHeldDict(b, Holdable[Inner])
  PROVE  \E n \in Nat : \E K \in [1..n -> HeldKeys], V \in [1..n -> Holdable[Inner]] :
           InPairs(b, n, K, V)
<1> DEFINE ks == b.keys
           vs == b.values
           n == Len(ks)
           s == Sorted(b)
<1>1. /\ b.type = "dict" /\ ks \in Seq(HeldKeys) /\ vs \in Seq(Holdable[Inner]) /\ n = Len(vs)
      /\ \A i, j \in 1..n : ks[i] = ks[j] => i = j
  BY DEF IsHeldDict
<1>2. IsDictOf(b, Nested[Inner])
  BY HeldIsNested
<1>3. ks \in Seq(AllKeys) /\ n \in Nat
  BY <1>1, <1>2 DEF IsDictOf
<1>4. PICK p : InOrder(p, ks, n) /\ s = [i \in 1..n |-> <<ks[p[i]], vs[p[i]]>>]
  BY <1>3, SortedIs
<1>5. p \in Bijection(1..n, 1..n) /\ p \in [1..n -> 1..n] /\ \A i, j \in 1..n : p[i] = p[j] => i = j
  BY <1>3, <1>4, BijectionIs DEF InOrder
<1> DEFINE K == [i \in 1..n |-> ks[p[i]]]
           V == [i \in 1..n |-> vs[p[i]]]
<1>6. K \in [1..n -> HeldKeys] /\ V \in [1..n -> Holdable[Inner]]
  <2>1. \A i \in 1..n : ks[i] \in HeldKeys /\ vs[i] \in Holdable[Inner]
    <3> HIDE DEF ks, vs
    <3>. QED BY <1>1
  <2> HIDE DEF ks, vs, n
  <2>. QED BY <1>5, <2>1
<1>7. \A i \in 1..n : s[i][1] = K[i] /\ s[i][2] = V[i]
  <2> HIDE DEF ks, vs, n, s
  <2>. QED BY <1>4
<1>8. DOMAIN s = 1..n
  <2> HIDE DEF ks, vs, n, s
  <2>. QED BY <1>4
<1>9. ASSUME NEW j \in 2..n PROVE Cmp(K[j - 1], K[j]) < 0
  <2>1. j - 1 \in 1..n /\ j \in 1..n /\ j - 1 < j /\ j - 1 # j
    BY <1>3
  <2> DEFINE x == K[j - 1]
             y == K[j]
  <2>2. x = ks[p[j - 1]] /\ y = ks[p[j]] /\ x \in AllKeys /\ y \in AllKeys
    <3>1. x \in HeldKeys /\ y \in HeldKeys
      BY <1>6, <2>1
    <3>. QED BY <2>1, <3>1 DEF HeldKeys
  <2> HIDE DEF K, x, y
  <2>3. Cmp(x, y) <= 0
    <3> HIDE DEF ks, vs, n, s
    <3>. QED BY <1>4, <2>1, <2>2 DEF InOrder
  <2>4. x # y
    <3> HIDE DEF ks, vs, n, s
    <3>. QED BY <1>1, <1>5, <2>1, <2>2
  <2>5. Cmp(x, y) # 0 /\ Cmp(x, y) \in Int
    BY <2>2, <2>4, CmpIs, CmpIsInt
  <2>6. Cmp(x, y) < 0
    BY <2>3, <2>5
  <2>. QED BY <2>6 DEF x, y
<1>10. Normal(b) = BenDict([j \in 1..n |-> K[j]], [j \in 1..n |-> Normal(V[j])])
  <2>1. Normal(b) = BenDict([i \in 1..n |-> s[i][1]], [i \in 1..n |-> Normal(s[i][2])])
    BY <1>2, CountDict
  <2> HIDE DEF K, V, n, s
  <2>2. [i \in 1..n |-> s[i][1]] = [j \in 1..n |-> K[j]]
    BY <1>7
  <2>3. [i \in 1..n |-> Normal(s[i][2])] = [j \in 1..n |-> Normal(V[j])]
    BY <1>7
  <2>. QED BY <2>1, <2>2, <2>3, Zenon
<1>11. Serialize(b) = (<<"d">> \o FlattenSeq(PairTexts(n, K, V))) \o <<"e">>
  <2> DEFINE ss == [i \in DOMAIN s |-> Serialize(s[i][1]) \o Serialize(s[i][2])]
  <2>1. Serialize(b) = (<<"d">> \o FlattenSeq(ss)) \o <<"e">>
    BY <1>2, InnerIs, SerializeDict
  <2>2. ss = PairTexts(n, K, V)
    <3> HIDE DEF K, V, n, s
    <3>. QED BY <1>7, <1>8 DEF PairTexts
  <2>. QED BY <2>1, <2>2, Zenon
<1>12. Count(b) = 1 + n + Total(ValueCounts(n, V))
  <2> DEFINE a == [i \in 1..n |-> Count(vs[i])]
  <2>1. Count(b) = 1 + n + Total(a)
    BY <1>2, CountDict
  <2>2. a \in [1..n -> Nat]
    <3> HIDE DEF ks, vs, n
    <3>1. \A i \in 1..n : vs[i] \in Sendable
      BY <1>1, SendableIs
    <3>. QED BY <3>1, SendableText
  <2>3. Total([i \in 1..n |-> a[p[i]]]) = Total(a)
    <3> HIDE DEF a, n
    <3>. QED BY <1>3, <1>5, <2>2, TotalPermuted
  <2>4. [i \in 1..n |-> a[p[i]]] = ValueCounts(n, V)
    <3> HIDE DEF ks, vs, n
    <3>. QED BY <1>5 DEF ValueCounts
  <2>. QED BY <2>1, <2>3, <2>4, Zenon
<1> HIDE DEF K, V, n
<1>13. InPairs(b, n, K, V)
  BY <1>9, <1>10, <1>11, <1>12 DEF InPairs
<1>. QED BY <1>3, <1>6, <1>13

(* Keys and values, and what follows each of them, one after the other. *)
Lines(n, K, V, parts, text, count, zz, c) ==
  /\ parts \in Seq(Sendable) /\ Len(parts) = 2 * n
  /\ \A j \in 1..n : parts[2 * j - 1] = K[j] /\ parts[2 * j] = V[j]
  /\ text \in [0..(2 * n) -> Seq(Octet)] /\ count \in [0..(2 * n) -> Nat]
  /\ \A k \in 1..(2 * n) : /\ text[k - 1] = Serialize(parts[k]) \o text[k]
                           /\ count[k - 1] = Count(parts[k]) + count[k]
  /\ text[2 * n] = zz /\ count[2 * n] = c
  /\ text[0] = FlattenSeq(PairTexts(n, K, V)) \o zz
  /\ count[0] = n + Total(ValueCounts(n, V)) + c

LEMMA PartsLined ==
  ASSUME NEW n \in Nat, NEW K \in [1..n -> HeldKeys], NEW V \in [1..n -> Holdable[Inner]]
  PROVE  \E parts \in Seq(Sendable) :
           Len(parts) = 2 * n /\ \A j \in 1..n : parts[2 * j - 1] = K[j] /\ parts[2 * j] = V[j]
<1> DEFINE x == BenBool(TRUE)
           a == [j \in 0..n |-> IF j = 0 THEN x ELSE V[j]]
<1>1. x \in Sendable
  <2>1. x \in HeldSimple
    BY DEF HeldSimple, Simple, BenBool
  <2>. QED BY <2>1, SendableIs
<1>2. a \in [0..n -> Sendable] /\ K \in [1..n -> Sendable]
  <2>1. \A j \in 1..n : V[j] \in Sendable /\ K[j] \in Sendable
    BY SendableIs
  <2>2. \A j \in 0..n : j # 0 => j \in 1..n
    OBVIOUS
  <2> HIDE DEF x
  <2>. QED BY <1>1, <2>1, <2>2
<1>3. \A j \in 1..n : a[j] = V[j]
  <2>1. \A j \in 1..n : j \in 0..n /\ j # 0
    OBVIOUS
  <2>. QED BY <2>1
<1> HIDE DEF a
<1>4. PICK f \in [0..(2 * n) -> Sendable] : Interleaves(f, n, a, K)
  BY <1>2, Interleaved
<1> DEFINE parts == [k \in 1..(2 * n) |-> f[k]]
<1>5. \A k \in 1..(2 * n) : k \in 0..(2 * n)
  OBVIOUS
<1>6. parts \in [1..(2 * n) -> Sendable]
  BY <1>5
<1>7. parts \in Seq(Sendable) /\ Len(parts) = 2 * n
  <2>1. 2 * n \in Nat
    OBVIOUS
  <2> HIDE DEF parts
  <2>. QED BY <1>6, <2>1, FunctionIsSeq
<1>8. ASSUME NEW j \in 1..n PROVE parts[2 * j - 1] = K[j] /\ parts[2 * j] = V[j]
  <2>1. 2 * j - 1 \in 1..(2 * n) /\ 2 * j \in 1..(2 * n) /\ j \in 0..n
    OBVIOUS
  <2>2. f[2 * j] = a[j] /\ f[2 * j - 1] = K[j]
    BY <1>4, <2>1, Zenon DEF Interleaves
  <2>. QED BY <1>3, <2>1, <2>2
<1>. QED BY <1>7, <1>8

TextLine(n, K, V, zz, T) ==
  /\ T[n] = zz /\ T[0] = FlattenSeq(PairTexts(n, K, V)) \o zz
  /\ \A j \in 1..n : T[j - 1] = Serialize(K[j]) \o (Serialize(V[j]) \o T[j])

LEMMA TextLined ==
  ASSUME NEW n \in Nat, NEW K \in [1..n -> HeldKeys], NEW V \in [1..n -> Holdable[Inner]],
         NEW zz \in Seq(Octet)
  PROVE  \E T \in [0..n -> Seq(Octet)] : TextLine(n, K, V, zz, T)
<1> DEFINE ss == PairTexts(n, K, V)
<1>1. \A j \in 1..n : Serialize(K[j]) \in Seq(Octet) /\ Serialize(V[j]) \in Seq(Octet)
  <2>1. \A j \in 1..n : K[j] \in Sendable /\ V[j] \in Sendable
    BY SendableIs
  <2>. QED BY <2>1, SendableText
<1>2. ss \in [1..n -> Seq(Octet)]
  <2>1. \A j \in 1..n : Serialize(K[j]) \o Serialize(V[j]) \in Seq(Octet)
    BY <1>1, ConcatIsSeq
  <2>. QED BY <2>1 DEF PairTexts
<1>3. ss \in Seq(Seq(Octet)) /\ Len(ss) = n
  <2> HIDE DEF ss
  <2>. QED BY <1>2, FunctionIsSeq
<1>4. PICK T : Unrolls(T, ss, zz, Octet)
  <2> HIDE DEF ss
  <2>. QED BY <1>3, Unrolled
<1>5. /\ T \in [0..n -> Seq(Octet)] /\ T[n] = zz /\ T[0] = FlattenSeq(ss) \o zz
      /\ \A j \in 1..n : T[j - 1] = ss[j] \o T[j]
  <2> HIDE DEF ss
  <2>. QED BY <1>3, <1>4, Zenon DEF Unrolls
<1>6. ASSUME NEW j \in 1..n PROVE T[j - 1] = Serialize(K[j]) \o (Serialize(V[j]) \o T[j])
  <2>1. j \in 0..n
    OBVIOUS
  <2>2. Joined(Serialize(K[j]), Serialize(V[j]), T[j])
    BY <1>1, <1>5, <2>1, Joining
  <2>3. ss[j] = Serialize(K[j]) \o Serialize(V[j])
    BY DEF PairTexts
  <2>. QED BY <1>5, <2>2, <2>3, Zenon DEF Joined
<1>7. TextLine(n, K, V, zz, T)
  BY <1>5, <1>6, Zenon DEF TextLine
<1>. QED BY <1>5, <1>7

CountLine(n, V, c, U) ==
  /\ U[n] = c /\ U[0] = n + Total(ValueCounts(n, V)) + c
  /\ \A j \in 1..n : U[j - 1] = 1 + Count(V[j]) + U[j]

LEMMA CountLined ==
  ASSUME NEW n \in Nat, NEW V \in [1..n -> Holdable[Inner]], NEW c \in Nat
  PROVE  \E U \in [0..n -> Nat] : CountLine(n, V, c, U)
<1> DEFINE ns == ValueCounts(n, V)
<1>1. \A j \in 1..n : Count(V[j]) \in Nat
  <2>1. \A j \in 1..n : V[j] \in Sendable
    BY SendableIs
  <2>. QED BY <2>1, SendableText
<1>2. ns \in [1..n -> Nat]
  BY <1>1 DEF ValueCounts
<1>3. ns \in Seq(Nat) /\ Len(ns) = n /\ \A j \in 1..n : ns[j] = Count(V[j])
  <2>1. \A j \in 1..n : ns[j] = Count(V[j])
    BY DEF ValueCounts
  <2> HIDE DEF ns
  <2>. QED BY <1>2, <2>1, FunctionIsSeq
<1> HIDE DEF ns
<1>4. PICK u : CountsDown(u, ns, c)
  BY <1>3, Countdown
<1>5. Total(ns) \in Nat
  BY <1>3, TotalIsNat
<1>6. /\ u \in [0..n -> Nat] /\ u[n] = c /\ u[0] = Total(ns) + c
      /\ \A j \in 1..n : u[j - 1] = Count(V[j]) + u[j]
  BY <1>3, <1>4, Zenon DEF CountsDown
<1> DEFINE U == [j \in 0..n |-> (n - j) + u[j]]
<1>7. U \in [0..n -> Nat]
  <2>1. \A j \in 0..n : n - j \in Nat /\ u[j] \in Nat
    BY <1>6
  <2>2. \A x, y \in Nat : x + y \in Nat
    OBVIOUS
  <2>. QED BY <2>1, <2>2
<1>8. U[n] = c /\ U[0] = n + Total(ns) + c
  <2>1. n \in 0..n /\ 0 \in 0..n /\ n - n = 0 /\ n - 0 = n
    OBVIOUS
  <2>2. U[n] = 0 + u[n] /\ U[0] = n + u[0]
    BY <2>1
  <2> HIDE DEF U
  <2>. QED BY <1>5, <1>6, <2>2
<1>9. ASSUME NEW j \in 1..n PROVE U[j - 1] = 1 + Count(V[j]) + U[j]
  <2>1. j \in 0..n /\ j - 1 \in 0..n
    OBVIOUS
  <2> DEFINE m == Count(V[j])
             r == u[j]
             q == u[j - 1]
  <2>2. U[j - 1] = (n - (j - 1)) + q /\ U[j] = (n - j) + r
    BY <2>1
  <2>3. m \in Nat /\ r \in Nat /\ q = m + r
    BY <1>1, <1>6, <2>1
  <2> HIDE DEF U, m, r, q
  <2>4. (n - (j - 1)) + q = 1 + m + ((n - j) + r)
    BY <2>3
  <2>. QED BY <2>2, <2>4 DEF m
<1> HIDE DEF U
<1>10. CountLine(n, V, c, U)
  BY <1>8, <1>9, Zenon DEF CountLine, ns
<1>. QED BY <1>7, <1>10

LEMMA DictLined ==
  ASSUME NEW n \in Nat, NEW K \in [1..n -> HeldKeys], NEW V \in [1..n -> Holdable[Inner]],
         NEW zz \in Seq(Octet), NEW c \in Nat
  PROVE  \E parts, text, count : Lines(n, K, V, parts, text, count, zz, c)
<1>1. PICK parts \in Seq(Sendable) :
        Len(parts) = 2 * n /\ \A j \in 1..n : parts[2 * j - 1] = K[j] /\ parts[2 * j] = V[j]
  BY PartsLined
<1>2. PICK T \in [0..n -> Seq(Octet)] : TextLine(n, K, V, zz, T)
  BY TextLined, Zenon
<1>3. PICK U \in [0..n -> Nat] : CountLine(n, V, c, U)
  BY CountLined, Zenon
<1>4. \A j \in 1..n : /\ Serialize(V[j]) \in Seq(Octet) /\ Count(V[j]) \in Nat
                      /\ Count(K[j]) = 1 /\ j \in 0..n
  <2>1. \A j \in 1..n : V[j] \in Sendable /\ K[j] \in Simple
    BY SendableIs DEF HeldKeys, HeldSimple
  <2>. QED BY <2>1, SendableText, CountSimple
<1> DEFINE a == [j \in 1..n |-> Serialize(V[j]) \o T[j]]
           b == [j \in 1..n |-> Count(V[j]) + U[j]]
<1>5. a \in [1..n -> Seq(Octet)]
  <2>1. \A j \in 1..n : Serialize(V[j]) \o T[j] \in Seq(Octet)
    BY <1>4, ConcatIsSeq
  <2>. QED BY <2>1
<1>6. b \in [1..n -> Nat]
  <2>1. \A j \in 1..n : Count(V[j]) \in Nat /\ U[j] \in Nat
    BY <1>4
  <2>2. \A x, y \in Nat : x + y \in Nat
    OBVIOUS
  <2>. QED BY <2>1, <2>2
<1>7. \A j \in 1..n : a[j] = Serialize(V[j]) \o T[j] /\ b[j] = Count(V[j]) + U[j]
  OBVIOUS
<1> HIDE DEF a, b
<1>8. PICK text \in [0..(2 * n) -> Seq(Octet)] : Interleaves(text, n, T, a)
  BY <1>5, Interleaved
<1>9. PICK count \in [0..(2 * n) -> Nat] : Interleaves(count, n, U, b)
  BY <1>6, Interleaved
<1> DEFINE P(k) == /\ text[k - 1] = Serialize(parts[k]) \o text[k]
                   /\ count[k - 1] = Count(parts[k]) + count[k]
<1>10. ASSUME NEW j \in 1..n PROVE P(2 * j - 1) /\ P(2 * j)
  <2>1. /\ (2 * j - 1) - 1 = 2 * (j - 1) /\ j - 1 \in 0..n /\ j \in 0..n
    OBVIOUS
  <2>2. /\ text[2 * j] = T[j] /\ text[2 * j - 1] = a[j] /\ text[2 * (j - 1)] = T[j - 1]
        /\ count[2 * j] = U[j] /\ count[2 * j - 1] = b[j] /\ count[2 * (j - 1)] = U[j - 1]
    BY <1>8, <1>9, <2>1, Zenon DEF Interleaves
  <2>3. parts[2 * j - 1] = K[j] /\ parts[2 * j] = V[j]
    BY <1>1
  <2>4. /\ T[j - 1] = Serialize(K[j]) \o a[j]
    BY <1>2, <1>7 DEF TextLine
  <2>5. U[j - 1] = Count(K[j]) + b[j]
    <3> DEFINE m == Count(V[j])
               r == U[j]
    <3>1. U[j - 1] = 1 + m + r /\ b[j] = m + r /\ Count(K[j]) = 1 /\ m \in Nat /\ r \in Nat
      BY <1>3, <1>4, <1>7, <2>1 DEF CountLine
    <3> HIDE DEF m, r
    <3>. QED BY <3>1
  <2>6. text[(2 * j - 1) - 1] = text[2 * (j - 1)] /\ count[(2 * j - 1) - 1] = count[2 * (j - 1)]
    BY <2>1, Zenon
  <2>7. P(2 * j - 1)
    BY <2>2, <2>3, <2>4, <2>5, <2>6, Zenon
  <2>8. P(2 * j)
    BY <1>7, <2>2, <2>3, Zenon
  <2>. QED BY <2>7, <2>8
<1>11. \A k \in 1..(2 * n) : P(k)
  <2> HIDE DEF P
  <2> SUFFICES ASSUME NEW k \in 1..(2 * n) PROVE P(k)
    OBVIOUS
  <2>1. PICK j \in 1..n : k = 2 * j \/ k = 2 * j - 1
    BY Halves
  <2>2. P(2 * j - 1) /\ P(2 * j)
    BY <1>10
  <2>. QED BY <2>1, <2>2
<1>12. text[2 * n] = zz /\ count[2 * n] = c /\ text[0] = T[0] /\ count[0] = U[0]
  <2>1. n \in 0..n /\ 0 \in 0..n /\ 2 * 0 = 0
    OBVIOUS
  <2>2. text[2 * n] = T[n] /\ count[2 * n] = U[n] /\ text[2 * 0] = T[0] /\ count[2 * 0] = U[0]
    BY <1>8, <1>9, <2>1, Zenon DEF Interleaves
  <2>. QED BY <1>2, <1>3, <2>1, <2>2 DEF TextLine, CountLine
<1>13. Lines(n, K, V, parts, text, count, zz, c)
  BY <1>1, <1>2, <1>3, <1>11, <1>12, Zenon DEF Lines, TextLine, CountLine
<1>. QED BY <1>13

LEMMA DictPlan ==
  ASSUME NEW b, IsHeldDict(b, Holdable[Inner]), NEW z \in Seq(Octet), NEW c \in Nat
  PROVE  \E p : PlanFor(p, b, z, c)
<1>1. PICK n \in Nat :
        \E K \in [1..n -> HeldKeys], V \in [1..n -> Holdable[Inner]] : InPairs(b, n, K, V)
  BY DictPairs
<1>2. PICK K \in [1..n -> HeldKeys], V \in [1..n -> Holdable[Inner]] : InPairs(b, n, K, V)
  BY <1>1
<1> DEFINE zz == <<"e">> \o z
           F == FlattenSeq(PairTexts(n, K, V))
<1>3. zz \in Seq(Octet) /\ <<"e">> \in Seq(Octet) /\ <<"d">> \in Seq(Octet)
  BY Letters, ConcatIsSeq
<1> HIDE DEF zz
<1>4. PICK parts, text, count : Lines(n, K, V, parts, text, count, zz, c)
  BY <1>3, DictLined
<1> DEFINE p == [type |-> "dict", parts |-> parts, size |-> n, text |-> text, count |-> count]
<1>5. p.type = "dict" /\ p.parts = parts /\ p.size = n /\ p.text = text /\ p.count = count
  OBVIOUS
<1>6. IsPlan(p)
  <2>1. ASSUME NEW j \in 1..n PROVE parts[2 * j - 1] \in AllKeys
    BY <1>4 DEF Lines, HeldKeys
  <2>2. ASSUME NEW j \in 2..n
        PROVE  Cmp(parts[2 * (j - 1) - 1], parts[2 * j - 1]) < 0
    <3>1. j \in 1..n /\ j - 1 \in 1..n
      OBVIOUS
    <3>2. parts[2 * (j - 1) - 1] = K[j - 1] /\ parts[2 * j - 1] = K[j]
      BY <1>4, <3>1, Zenon DEF Lines
    <3>. QED BY <1>2, <3>2, Zenon DEF InPairs
  <2>3. /\ parts \in Seq(Sendable) /\ Len(parts) = 2 * n
        /\ text \in [0..Len(parts) -> Seq(Octet)] /\ count \in [0..Len(parts) -> Nat]
        /\ \A k \in 1..Len(parts) : /\ text[k - 1] = Serialize(parts[k]) \o text[k]
                                    /\ count[k - 1] = Count(parts[k]) + count[k]
    BY <1>4, Zenon DEF Lines
  <2>4. p.type \in {"root", "list", "dict"}
    BY <1>5
  <2> HIDE DEF p
  <2>. QED BY <1>5, <2>1, <2>2, <2>3, <2>4, Zenon DEF IsPlan
<1>7. Becomes(p) = Normal(b)
  <2>1. Normal(b) = BenDict([j \in 1..n |-> K[j]], [j \in 1..n |-> Normal(V[j])])
    BY <1>2 DEF InPairs
  <2>2. \A j \in 1..n : parts[2 * j - 1] = K[j] /\ parts[2 * j] = V[j]
    BY <1>4 DEF Lines
  <2>3. [j \in 1..n |-> parts[2 * j - 1]] = [j \in 1..n |-> K[j]]
    BY <2>2
  <2>4. [j \in 1..n |-> Normal(parts[2 * j])] = [j \in 1..n |-> Normal(V[j])]
    BY <2>2
  <2>5. Becomes(p) = BenDict([j \in 1..n |-> parts[2 * j - 1]],
                             [j \in 1..n |-> Normal(parts[2 * j])])
    BY <1>5 DEF Becomes
  <2>. QED BY <2>1, <2>3, <2>4, <2>5, Zenon
<1>8. \A j \in 1..n : /\ Serialize(K[j]) \in Seq(Octet) /\ Serialize(V[j]) \in Seq(Octet)
                      /\ Count(V[j]) \in Nat
  <2>1. \A j \in 1..n : K[j] \in Sendable /\ V[j] \in Sendable
    BY SendableIs
  <2>. QED BY <2>1, SendableText
<1>9. F \in Seq(Octet)
  <2>1. \A j \in 1..n : Serialize(K[j]) \o Serialize(V[j]) \in Seq(Octet)
    BY <1>8, ConcatIsSeq
  <2>2. PairTexts(n, K, V) \in [1..n -> Seq(Octet)]
    BY <2>1 DEF PairTexts
  <2>3. PairTexts(n, K, V) \in Seq(Seq(Octet))
    BY <2>2, FunctionIsSeq
  <2>. QED BY <2>3, FlattenType
<1>10. Total(ValueCounts(n, V)) \in Nat
  <2>1. ValueCounts(n, V) \in [1..n -> Nat]
    BY <1>8 DEF ValueCounts
  <2>2. ValueCounts(n, V) \in Seq(Nat)
    BY <2>1, FunctionIsSeq
  <2>. QED BY <2>2, TotalIsNat
<1>11. Serialize(b) \o z = <<"d">> \o text[0]
  <2>1. Regroups(<<"d">>, F, <<"e">>, z)
    <3> HIDE DEF F
    <3>. QED BY <1>3, <1>9, Regrouping
  <2>2. text[0] = F \o zz /\ Serialize(b) = (<<"d">> \o F) \o <<"e">>
    BY <1>2, <1>4, Zenon DEF Lines, InPairs
  <2>. QED BY <2>1, <2>2, Zenon DEF Regroups, zz
<1>12. Count(b) + c = 1 + count[0]
  <2> DEFINE m == Total(ValueCounts(n, V))
  <2>1. count[0] = n + m + c /\ Count(b) = 1 + n + m
    BY <1>2, <1>4, Zenon DEF Lines, InPairs
  <2>2. m \in Nat
    BY <1>10
  <2> HIDE DEF m
  <2>. QED BY <2>1, <2>2
<1>13. text[Len(parts)] = zz /\ count[Len(parts)] = c
  BY <1>4, Zenon DEF Lines
<1>14. b.type = "dict"
  BY DEF IsHeldDict
<1> HIDE DEF p
<1>15. PlanFor(p, b, z, c)
  BY <1>5, <1>6, <1>7, <1>11, <1>12, <1>13, <1>14, Zenon DEF PlanFor, zz
<1>. QED BY <1>15

LEMMA SomePlan ==
  ASSUME NEW b, IsHeldList(b, Holdable[Inner]) \/ IsHeldDict(b, Holdable[Inner]),
         NEW z \in Seq(Octet), NEW c \in Nat
  PROVE  \E p : PlanFor(p, b, z, c)
  BY ListPlan, DictPlan

-----------------------------------------------------------------------------
(* The open containers have what their plans say.                          *)

(* How many parts a container has taken. *)
Placed(f) ==
  IF f.type = "list" THEN Len(f.values)
                     ELSE 2 * Len(f.values) + (IF f.key = None THEN 0 ELSE 1)

At(frames, i) == IF i = 0 THEN 0 ELSE Placed(frames[i])

Meets(f, p) ==
  /\ f.type = p.type /\ Placed(f) <= Len(p.parts)
  /\ f.type = "list" =>
       f.key = None /\ \A i \in 1..Len(f.values) : f.values[i] = Normal(p.parts[i])
  /\ f.type = "dict" =>
       /\ f.key # None => f.key = p.parts[2 * Len(f.values) + 1]
       /\ \A i \in 1..Len(f.values) : /\ f.keys[i] = p.parts[2 * i - 1]
                                      /\ f.values[i] = Normal(p.parts[2 * i])

LEMMA ItemMeets ==
  ASSUME NEW f, IsFrame(f), f.type = "list", NEW p, IsPlan(p), Meets(f, p),
         Placed(f) < Len(p.parts), NEW v, v = Normal(p.parts[Placed(f) + 1])
  PROVE  Meets(WithItem(f, v), p) /\ Placed(WithItem(f, v)) = Placed(f) + 1
<1> DEFINE g == WithItem(f, v)
           n == Len(f.values)
<1>1. g.type = "list" /\ g.key = f.key /\ g.values = Append(f.values, v)
  BY ItemParts
<1>2. /\ n \in Nat /\ Len(g.values) = n + 1
      /\ \A i \in 1..n : g.values[i] = f.values[i]
      /\ g.values[n + 1] = v
  <2>1. IsArray(f.values)
    BY DEF IsFrame
  <2>. QED BY <1>1, <2>1, ArrayAppend
<1>3. Placed(f) = n /\ Placed(g) = n + 1
  BY <1>1, <1>2 DEF Placed
<1>4. \A i \in 1..(n + 1) : g.values[i] = Normal(p.parts[i])
  <2> SUFFICES ASSUME NEW i \in 1..(n + 1) PROVE g.values[i] = Normal(p.parts[i])
    OBVIOUS
  <2> HIDE DEF g
  <2>1. CASE i = n + 1
    BY <1>2, <1>3, <2>1
  <2>2. CASE i # n + 1
    <3>1. i \in 1..n
      BY <1>2, <2>2
    <3>. QED BY <1>2, <3>1 DEF Meets
  <2>. QED BY <2>1, <2>2
<1>5. n + 1 <= Len(p.parts)
  <2>1. Len(p.parts) \in Nat
    BY DEF IsPlan
  <2> HIDE DEF n
  <2>. QED BY <1>2, <1>3, <2>1
<1>6. f.key = None /\ p.type = "list"
  BY DEF Meets
<1> HIDE DEF g, n
<1>7. Meets(g, p)
  BY <1>1, <1>2, <1>3, <1>4, <1>5, <1>6 DEF Meets
<1>. QED BY <1>3, <1>7 DEF g

LEMMA KeyMeets ==
  ASSUME NEW f, IsFrame(f), f.type = "dict", f.key = None, NEW p, IsPlan(p), Meets(f, p),
         Placed(f) < Len(p.parts), NEW v, v = Normal(p.parts[Placed(f) + 1])
  PROVE  ~BadKey(f, v) /\ Meets(WithKey(f, v), p) /\ Placed(WithKey(f, v)) = Placed(f) + 1
<1> DEFINE g == WithKey(f, v)
           n == Len(f.values)
           x == p.parts[Placed(f) + 1]
<1>1. IsArray(f.values) /\ f.keys \in Seq(AllKeys) /\ Len(f.keys) = n
      /\ f = [type |-> f.type, keys |-> f.keys, values |-> f.values, key |-> f.key]
  BY Zenon DEF IsFrame
<1>2. n \in Nat
  BY <1>1, ArrayAppend
<1>3. Placed(f) = 2 * n /\ p.type = "dict" /\ Len(p.parts) = 2 * p.size /\ p.size \in Nat
  <2>1. Placed(f) = 2 * n
    BY <1>2 DEF Placed
  <2>2. p.type = "dict"
    BY DEF Meets
  <2>. QED BY <2>1, <2>2 DEF IsPlan
<1>4. n + 1 \in 1..p.size /\ 2 * (n + 1) - 1 = Placed(f) + 1
  <2> HIDE DEF n
  <2>. QED BY <1>2, <1>3
<1>5. x \in AllKeys /\ x = p.parts[2 * (n + 1) - 1]
  <2>1. p.parts[2 * (n + 1) - 1] \in AllKeys
    BY <1>3, <1>4 DEF IsPlan
  <2>. QED BY <1>4, <2>1
<1>6. v = x /\ v.type \in KeyTypes /\ v # None
  <2>1. v = x
    BY <1>5, CountSimple DEF Simple
  <2>. QED BY <1>5, <2>1, KeyIs DEF KeyTypes, None
<1>7. ~BadKey(f, v)
  <2>1. CASE f.keys = <<>>
    BY <1>6, <2>1 DEF BadKey
  <2>2. CASE f.keys # <<>>
    <3>1. n >= 1 /\ Last(f.keys) = f.keys[n]
      BY <1>1, <1>2, <2>2 DEF Last
    <3>2. n + 1 \in 2..p.size /\ n \in 1..n /\ (n + 1) - 1 = n
      <4> HIDE DEF n
      <4>. QED BY <1>2, <1>4, <3>1
    <3>3. Last(f.keys) = p.parts[2 * n - 1]
      BY <3>1, <3>2 DEF Meets
    <3>4. Cmp(p.parts[2 * ((n + 1) - 1) - 1], p.parts[2 * (n + 1) - 1]) < 0
      <4> HIDE DEF n
      <4>. QED BY <1>3, <3>2 DEF IsPlan
    <3>5. Cmp(Last(f.keys), v) < 0
      <4> HIDE DEF n, x
      <4>. QED BY <1>5, <1>6, <3>2, <3>3, <3>4
    <3>6. Cmp(Last(f.keys), v) \in Int
      BY CmpIsInt
    <3>. QED BY <1>6, <3>5, <3>6 DEF BadKey
  <2>. QED BY <2>1, <2>2
<1>8. g.type = "dict" /\ g.keys = f.keys /\ g.values = f.values /\ g.key = v
  BY <1>1 DEF WithKey
<1> HIDE DEF g, n, x
<1>9. Placed(g) = 2 * n + 1 /\ Placed(g) <= Len(p.parts)
  <2>1. Placed(g) = 2 * n + 1
    BY <1>6, <1>8 DEF Placed, n
  <2>. QED BY <1>2, <1>3, <1>4, <2>1
<1>10. v = p.parts[2 * n + 1]
  BY <1>3, <1>6, Zenon DEF x
<1>11. \A i \in 1..n : f.keys[i] = p.parts[2 * i - 1] /\ f.values[i] = Normal(p.parts[2 * i])
  BY DEF Meets, n
<1>12. Meets(g, p)
  BY <1>3, <1>8, <1>9, <1>10, <1>11 DEF Meets, n
<1>. QED BY <1>3, <1>7, <1>9, <1>12 DEF g

LEMMA EntryMeets ==
  ASSUME NEW f, IsFrame(f), f.type = "dict", f.key # None, NEW p, IsPlan(p), Meets(f, p),
         Placed(f) < Len(p.parts), NEW v, v = Normal(p.parts[Placed(f) + 1])
  PROVE  Meets(WithEntry(f, v), p) /\ Placed(WithEntry(f, v)) = Placed(f) + 1
<1> DEFINE g == WithEntry(f, v)
           n == Len(f.values)
<1>1. IsArray(f.values) /\ f.keys \in Seq(AllKeys) /\ Len(f.keys) = n
  BY Zenon DEF IsFrame
<1>2. n \in Nat /\ IsArray(f.keys)
  BY <1>1, ArrayAppend DEF IsArray
<1>3. /\ g.type = "dict" /\ g.keys = Append(f.keys, f.key) /\ g.key = None
      /\ g.values = Append(f.values, v)
  BY EntryParts
<1>4. /\ Len(g.values) = n + 1
      /\ \A i \in 1..n : g.values[i] = f.values[i] /\ g.keys[i] = f.keys[i]
      /\ g.values[n + 1] = v /\ g.keys[n + 1] = f.key
  <2> HIDE DEF g
  <2>. QED BY <1>1, <1>2, <1>3, ArrayAppend
<1>5. Placed(f) = 2 * n + 1 /\ Placed(g) = 2 * (n + 1)
  <2> HIDE DEF g
  <2>. QED BY <1>2, <1>3, <1>4 DEF Placed
<1>6. p.type = "dict" /\ f.key = p.parts[2 * n + 1]
      /\ \A i \in 1..n : f.keys[i] = p.parts[2 * i - 1] /\ f.values[i] = Normal(p.parts[2 * i])
  BY DEF Meets
<1> HIDE DEF g, n
<1>7. ASSUME NEW i \in 1..(n + 1)
      PROVE  g.keys[i] = p.parts[2 * i - 1] /\ g.values[i] = Normal(p.parts[2 * i])
  <2>1. CASE i \in 1..n
    BY <1>4, <1>6, <2>1
  <2>2. CASE i = n + 1
    <3>1. 2 * i - 1 = 2 * n + 1 /\ 2 * i = Placed(f) + 1
      BY <1>2, <1>5, <2>2
    <3>. QED BY <1>4, <1>6, <2>2, <3>1
  <2>3. i \in 1..n \/ i = n + 1
    BY <1>2
  <2>. QED BY <2>1, <2>2, <2>3
<1>8. Placed(g) <= Len(p.parts) /\ Placed(g) = Placed(f) + 1
  <2>1. Len(p.parts) \in Nat
    BY DEF IsPlan
  <2>. QED BY <1>2, <1>5, <2>1
<1>9. Meets(g, p)
  BY <1>3, <1>4, <1>6, <1>7, <1>8 DEF Meets
<1>. QED BY <1>8, <1>9 DEF g

-----------------------------------------------------------------------------
(* The plans of all the containers that are open, each within the one      *)
(* before it.  The outermost is of the value that is sent, its one part.   *)

(* What w is sent by. *)
IsRoot(p, w) ==
  /\ IsPlan(p) /\ p.type = "root" /\ p.parts = <<w>>
  /\ p.text[1] = <<>> /\ p.count[1] = 0

(* q is the plan of the part of p behind the first a. *)
Within(q, p, a) ==
  /\ a < Len(p.parts) /\ Becomes(q) = Normal(p.parts[a + 1])
  /\ q.text[Len(q.parts)] = <<"e">> \o p.text[a + 1]
  /\ q.count[Len(q.parts)] = p.count[a + 1]

(* The plans of the open containers, from the outermost on. *)
OnPath(w, frames, path) ==
  /\ IsRoot(path[0], w)
  /\ \A i \in 1..Len(frames) : /\ IsPlan(path[i]) /\ Meets(frames[i], path[i])
                               /\ Within(path[i], path[i - 1], At(frames, i - 1))

(* The plan of the innermost, and how many parts it has taken. *)
Current(frames, path) == path[Len(frames)]
Reached(frames)       == At(frames, Len(frames))

LEMMA PlacedIsNat ==
  ASSUME NEW f, IsFrame(f)
  PROVE  Placed(f) \in Nat
<1> DEFINE l == Len(f.values)
           k == IF f.key = None THEN 0 ELSE 1
<1>1. IsArray(f.values)
  BY Zenon DEF IsFrame
<1>2. l \in Nat
  BY <1>1, ArrayAppend
<1>3. k \in Nat
  OBVIOUS
<1>4. Placed(f) = IF f.type = "list" THEN l ELSE 2 * l + k
  BY Zenon DEF Placed
<1> HIDE DEF l, k
<1>. QED BY <1>2, <1>3, <1>4

LEMMA CurrentIs ==
  ASSUME NEW w, NEW frames, IsStack(frames), NEW path, OnPath(w, frames, path)
  PROVE  /\ IsPlan(Current(frames, path))
         /\ Reached(frames) \in Nat /\ Reached(frames) <= Len(Current(frames, path).parts)
         /\ frames = <<>> => IsRoot(Current(frames, path), w) /\ Reached(frames) = 0
         /\ frames # <<>> =>
              /\ IsFrame(Last(frames)) /\ Meets(Last(frames), Current(frames, path))
              /\ Reached(frames) = Placed(Last(frames))
              /\ Len(Front(frames)) = Len(frames) - 1
              /\ Within(Current(frames, path), Current(Front(frames), path), Reached(Front(frames)))
<1> DEFINE n == Len(frames)
           p == path[n]
<1>1. CASE frames = <<>>
  <2>1. n = 0
    BY <1>1
  <2>2. IsRoot(p, w) /\ At(frames, n) = 0
    BY <2>1 DEF OnPath, At
  <2> HIDE DEF n
  <2>3. IsPlan(p) /\ Len(p.parts) \in Nat
    BY <2>2 DEF IsRoot, IsPlan
  <2> HIDE DEF p
  <2>. QED BY <1>1, <2>2, <2>3 DEF Current, Reached, n, p
<1>2. CASE frames # <<>>
  <2> DEFINE f == Last(frames)
  <2>1. /\ IsFrame(f) /\ n \in Nat \ {0} /\ Len(Front(frames)) = n - 1
        /\ f = frames[n] /\ IsArray(frames)
    <3>1. IsArray(frames)
      BY DEF IsStack
    <3>2. f = frames[n]
      BY DEF Last
    <3>. QED BY <1>2, <3>1, <3>2, Popped
  <2> HIDE DEF n
  <2>2. n \in 1..n /\ n # 0
    BY <2>1
  <2>3. IsPlan(p) /\ Meets(f, p) /\ Within(p, path[n - 1], At(frames, n - 1))
    BY <2>1, <2>2, Zenon DEF OnPath, n
  <2>4. At(frames, n) = Placed(f)
    BY <2>1, <2>2 DEF At
  <2>5. At(Front(frames), n - 1) = At(frames, n - 1)
    <3>1. CASE n - 1 = 0
      BY <3>1 DEF At
    <3>2. CASE n - 1 # 0
      <4>1. n - 1 \in 1..(n - 1)
        BY <2>1, <3>2
      <4>2. Front(frames)[n - 1] = frames[n - 1]
        BY <1>2, <2>1, <4>1, ArrayFront DEF n
      <4>. QED BY <3>2, <4>2 DEF At
    <3>. QED BY <3>1, <3>2
  <2>6. Placed(f) \in Nat /\ Placed(f) <= Len(p.parts)
    <3>1. Placed(f) <= Len(p.parts)
      BY <2>3 DEF Meets
    <3>. QED BY <2>1, <3>1, PlacedIsNat
  <2> HIDE DEF p, f
  <2>. QED BY <1>2, <2>1, <2>3, <2>4, <2>5, <2>6, Zenon DEF Current, Reached, n, p, f
<1>. QED BY <1>1, <1>2

LEMMA PathPopped ==
  ASSUME NEW w, NEW frames, IsStack(frames), frames # <<>>, NEW path, OnPath(w, frames, path)
  PROVE  OnPath(w, Front(frames), path)
<1> DEFINE n == Len(frames)
           m == Len(Front(frames))
           e == Front(frames)
<1>1. /\ n \in Nat \ {0} /\ m = n - 1 /\ \A i \in 1..(n - 1) : e[i] = frames[i]
  <2>1. IsArray(frames)
    BY DEF IsStack
  <2>. QED BY <2>1, ArrayFront
<1> HIDE DEF n, m, e
<1>2. ASSUME NEW i \in 1..m
      PROVE  i \in 1..n /\ e[i] = frames[i] /\ At(e, i - 1) = At(frames, i - 1)
  <2>1. i \in 1..n /\ e[i] = frames[i]
    BY <1>1
  <2>2. i - 1 # 0 => e[i - 1] = frames[i - 1]
    BY <1>1
  <2>. QED BY <2>1, <2>2 DEF At
<1>3. ASSUME NEW i \in 1..m
      PROVE  IsPlan(path[i]) /\ Meets(e[i], path[i]) /\ Within(path[i], path[i - 1], At(e, i - 1))
  BY <1>2, Zenon DEF OnPath, n
<1>. QED BY <1>3, Zenon DEF OnPath, m, e

LEMMA PathReplaced ==
  ASSUME NEW w, NEW frames, IsStack(frames), frames # <<>>, NEW path, OnPath(w, frames, path),
         NEW g, Meets(g, Current(frames, path))
  PROVE  /\ OnPath(w, Append(Front(frames), g), path)
         /\ Len(Append(Front(frames), g)) = Len(frames)
         /\ Reached(Append(Front(frames), g)) = Placed(g)
<1> DEFINE n == Len(frames)
           e == Append(Front(frames), g)
           m == Len(e)
<1>1. n \in Nat \ {0} /\ m = n /\ e[n] = g /\ \A i \in 1..(n - 1) : e[i] = frames[i]
  <2>1. IsArray(frames)
    BY DEF IsStack
  <2>2. /\ IsArray(Front(frames)) /\ n \in Nat \ {0} /\ Len(Front(frames)) = n - 1
        /\ \A i \in 1..(n - 1) : Front(frames)[i] = frames[i]
    BY <2>1, ArrayFront
  <2>3. /\ Len(e) = (n - 1) + 1 /\ \A i \in 1..(n - 1) : e[i] = Front(frames)[i]
        /\ e[(n - 1) + 1] = g
    BY <2>2, ArrayAppend
  <2>4. (n - 1) + 1 = n
    BY <2>2
  <2> HIDE DEF n, e
  <2>. QED BY <2>2, <2>3, <2>4
<1> HIDE DEF n, m, e
<1>2. ASSUME NEW i \in 1..m
      PROVE  IsPlan(path[i]) /\ Meets(e[i], path[i]) /\ Within(path[i], path[i - 1], At(e, i - 1))
  <2>1. At(e, i - 1) = At(frames, i - 1) /\ i \in 1..n
    <3>1. i - 1 # 0 => i - 1 \in 1..(n - 1)
      BY <1>1
    <3>2. i - 1 # 0 => e[i - 1] = frames[i - 1]
      BY <1>1, <3>1
    <3>. QED BY <1>1, <3>2 DEF At
  <2>2. Meets(e[i], path[i])
    <3>1. CASE i = n
      BY <1>1, <3>1 DEF Current, n
    <3>2. CASE i # n
      <4>1. i \in 1..(n - 1)
        BY <1>1, <3>2
      <4>2. e[i] = frames[i]
        BY <1>1, <4>1
      <4>. QED BY <2>1, <4>2, Zenon DEF OnPath, n
    <3>. QED BY <3>1, <3>2
  <2>. QED BY <2>1, <2>2, Zenon DEF OnPath, n
<1>3. OnPath(w, e, path)
  BY <1>2, Zenon DEF OnPath, m
<1>4. Reached(e) = Placed(g)
  <2>1. n # 0 /\ Len(e) = n /\ e[n] = g
    BY <1>1 DEF m
  <2>. QED BY <2>1 DEF Reached, At
<1>. QED BY <1>1, <1>3, <1>4 DEF e, m, n

LEMMA PathPushed ==
  ASSUME NEW w, NEW frames, IsStack(frames), NEW path, OnPath(w, frames, path),
         NEW f, NEW q, IsPlan(q), Meets(f, q),
         Within(q, Current(frames, path), Reached(frames))
  PROVE  \E longer : /\ OnPath(w, Append(frames, f), longer)
                     /\ Current(Append(frames, f), longer) = q
                     /\ Reached(Append(frames, f)) = Placed(f)
<1> DEFINE n == Len(frames)
           e == Append(frames, f)
           m == Len(e)
           longer == [i \in 0..(n + 1) |-> IF i = n + 1 THEN q ELSE path[i]]
<1>1. n \in Nat /\ m = n + 1 /\ e[n + 1] = f /\ \A i \in 1..n : e[i] = frames[i]
  <2>1. IsArray(frames)
    BY DEF IsStack
  <2>. QED BY <2>1, ArrayAppend
<1> HIDE DEF n, m, e
<1>2. longer[n + 1] = q /\ \A i \in 0..n : longer[i] = path[i]
  BY <1>1
<1> HIDE DEF longer
<1>3. \A i \in 0..n : At(e, i) = At(frames, i)
  <2>1. \A i \in 0..n : i # 0 => e[i] = frames[i]
    BY <1>1
  <2>. QED BY <2>1 DEF At
<1>4. ASSUME NEW i \in 1..m
      PROVE  /\ IsPlan(longer[i]) /\ Meets(e[i], longer[i])
              /\ Within(longer[i], longer[i - 1], At(e, i - 1))
  <2>1. i - 1 \in 0..n
    BY <1>1
  <2>2. longer[i - 1] = path[i - 1] /\ At(e, i - 1) = At(frames, i - 1)
    BY <1>2, <1>3, <2>1
  <2>3. CASE i = n + 1
    <3>1. i - 1 = n
      BY <1>1, <2>3
    <3>2. Within(q, path[n], At(frames, n))
      BY DEF Current, Reached, n
    <3>. QED BY <1>1, <1>2, <2>2, <2>3, <3>1, <3>2
  <2>4. CASE i # n + 1
    <3>1. i \in 1..n /\ i \in 0..n
      BY <1>1, <2>4
    <3>2. e[i] = frames[i] /\ longer[i] = path[i]
      BY <1>1, <1>2, <3>1
    <3>3. /\ IsPlan(path[i]) /\ Meets(frames[i], path[i])
          /\ Within(path[i], path[i - 1], At(frames, i - 1))
      BY <3>1, Zenon DEF OnPath, n
    <3>. QED BY <2>2, <3>2, <3>3
  <2>. QED BY <2>3, <2>4
<1>5. OnPath(w, e, longer)
  <2>1. longer[0] = path[0]
    BY <1>1, <1>2
  <2>2. IsRoot(longer[0], w)
    BY <2>1, Zenon DEF OnPath
  <2>. QED BY <1>4, <2>2, Zenon DEF OnPath, m
<1>6. Current(e, longer) = q
  BY <1>1, <1>2 DEF Current, m
<1>7. Reached(e) = Placed(f)
  <2>1. n + 1 # 0 /\ Len(e) = n + 1 /\ e[n + 1] = f
    BY <1>1 DEF m
  <2>. QED BY <2>1 DEF Reached, At
<1>. QED BY <1>5, <1>6, <1>7 DEF e

-----------------------------------------------------------------------------
(* The first octets of texts.                                              *)

LEMMA FirstOf ==
  ASSUME NEW S, NEW c \in S, NEW x \in Seq(S), NEW y \in Seq(S)
  PROVE  /\ (<<c>> \o x)[1] = c /\ Len(<<c>> \o x) >= 1
         /\ Len(x) >= 1 => (x \o y)[1] = x[1] /\ Len(x \o y) >= 1
  OBVIOUS

(* The octet that a value's text starts with says what the value is. *)
Starting(b) ==
  /\ b.type \in {"bool", "int", "str", "list", "dict"}
  /\ b.type = "bool" => Serialize(b)[1] = "b"
  /\ b.type = "int"  => Serialize(b)[1] = "i"
  /\ b.type = "str"  => Serialize(b)[1] \in Figure
  /\ b.type = "list" => Serialize(b)[1] = "l"
  /\ b.type = "dict" => Serialize(b)[1] = "d"

LEMMA SendableStarts ==
  ASSUME NEW b \in Sendable
  PROVE  /\ Starting(b) /\ Len(Serialize(b)) >= 1
         /\ Serialize(b)[1] \in Figure \union {"b", "i", "l", "d"}
<1> DEFINE s == Serialize(b)
<1>1. s \in Seq(Octet)
  BY SendableText
<1>2. CASE b.type = "bool" /\ b = BenBool(b.b) /\ b.b \in BOOLEAN
  <2>1. s = <<"b", IF b.b THEN "1" ELSE "0">>
    BY <1>2, SerializeBool
  <2>2. s[1] = "b" /\ Len(s) >= 1
    BY <2>1
  <2>. QED BY <1>2, <2>2 DEF Starting
<1>3. CASE b.type = "int" /\ b = BenInt(b.ll) /\ b.ll \in Int
  <2> DEFINE x == <<"i">> \o Numeral(b.ll)
  <2>1. s = x \o <<"e">>
    BY <1>3, SerializeInt
  <2>2. "i" \in Octet /\ <<"e">> \in Seq(Octet) /\ Numeral(b.ll) \in Seq(Octet) /\ x \in Seq(Octet)
    BY <1>3, Letters, NumeralType, ConcatIsSeq
  <2>3. x[1] = "i" /\ Len(x) >= 1
    BY <2>2, FirstOf
  <2> HIDE DEF x
  <2>4. s[1] = "i" /\ Len(s) >= 1
    BY <2>1, <2>2, <2>3, FirstOf
  <2>. QED BY <1>3, <2>4 DEF Starting
<1>4. CASE b.type = "str" /\ b = BenStr(b.s) /\ b.s \in Seq(Octet)
  <2> DEFINE x == Numeral(Len(b.s))
             y == <<":">>
             t == b.s
             xy == x \o y
  <2>1. s = xy \o t
    BY <1>4, SerializeStr
  <2>2. Len(t) \in Nat /\ t \in Seq(Octet)
    BY <1>4
  <2>3. /\ x \in Seq(Octet) /\ Len(x) >= 1 /\ x[1] \in Figure
    <3> HIDE DEF t
    <3>1. Len(t) \in Int /\ Len(t) >= 0
      BY <2>2
    <3>. QED BY <3>1, NumeralType, NumeralFigures DEF t
  <2>4. y \in Seq(Octet) /\ ":" \in Octet
    BY Letters
  <2> HIDE DEF x, y, t
  <2>5. xy \in Seq(Octet) /\ xy[1] = x[1] /\ Len(xy) >= 1
    BY <2>3, <2>4, FirstOf, ConcatIsSeq
  <2> HIDE DEF xy
  <2>6. s[1] = x[1] /\ Len(s) >= 1
    BY <2>1, <2>2, <2>4, <2>5, FirstOf
  <2>. QED BY <1>4, <2>3, <2>6 DEF Starting
<1>5. CASE IsHeldList(b, Holdable[Inner]) \/ IsHeldDict(b, Holdable[Inner])
  <2>1. <<>> \in Seq(Octet) /\ 0 \in Nat
    OBVIOUS
  <2>2. PICK p : PlanFor(p, b, <<>>, 0)
    BY <1>5, <2>1, SomePlan
  <2> DEFINE c == IF b.type = "dict" THEN "d" ELSE "l"
             x == p.text[0]
  <2>3. x \in Seq(Octet)
    <3>1. IsPlan(p)
      BY <2>2 DEF PlanFor
    <3>2. p.text \in [0..Len(p.parts) -> Seq(Octet)] /\ Len(p.parts) \in Nat
      BY <3>1 DEF IsPlan
    <3>. QED BY <3>2
  <2>4. s = <<c>> \o x
    <3>1. s \o <<>> = <<c>> \o x
      BY <2>2 DEF PlanFor
    <3>2. s \o <<>> = s
      <4> HIDE DEF s
      <4>. QED BY <1>1, EmptyLeft
    <3>. QED BY <3>1, <3>2, Zenon
  <2>5. c \in Octet /\ c \in {"d", "l"}
    BY Letters
  <2>6. s[1] = c /\ Len(s) >= 1
    <3> HIDE DEF c, x, s
    <3>. QED BY <2>3, <2>4, <2>5, FirstOf
  <2>7. b.type = "list" \/ b.type = "dict"
    BY <1>5 DEF IsHeldList, IsHeldDict
  <2>8. (b.type = "dict" => s[1] = "d") /\ (b.type = "list" => s[1] = "l")
    BY <2>6
  <2> HIDE DEF c, s
  <2>. QED BY <2>5, <2>6, <2>7, <2>8 DEF Starting, s
<1>6. b \in Simple \/ IsHeldList(b, Holdable[Inner]) \/ IsHeldDict(b, Holdable[Inner])
  BY SendableIs DEF HeldSimple
<1>. QED BY <1>2, <1>3, <1>4, <1>5, <1>6, SimpleIs

-----------------------------------------------------------------------------
(***************************************************************************)
(* The invariant.  As long as the decoder is busy, what it has not taken   *)
(* yet is the text of what the plans say is still to come, as far as the   *)
(* data go, and the values it will count are those still to come; and what *)
(* it has taken are the values that come first.  The data may break off    *)
(* anywhere, so it is the text that ends with the value, not the data.     *)
(***************************************************************************)

(* What is left of w in the data d, when p has taken a parts. *)
Left(p, a, w, d, o, l) ==
  /\ o + Len(p.text[a]) = Len(Serialize(w))
  /\ Reads(d, o, p.text[a])
  /\ l + p.count[a] = Count(w)

Going(w, d, o, l, frames) ==
  \E path : OnPath(w, frames, path) /\ Left(Current(frames, path), Reached(frames), w, d, o, l)

(* No memory, or not enough data. *)
Excused(w, d, e) ==
  \/ e = "no memory" /\ {"struct", "array"} \intersect Fallible # {}
  \/ e = "ok" /\ "blob" \in Fallible
  \/ e = "insufficient" /\ Len(d) < Len(Serialize(w))

Course(w, d, o, l, frames, st, e, v) ==
  /\ st = "busy" => Going(w, d, o, l, frames)
  /\ st = "failed" => Excused(w, d, e)
  /\ st = "ok" => v = Normal(w) /\ Len(d) = Len(Serialize(w))

Coursing == Course(sent, data, off, level, stack, status, error, value)

SentInv ==
  sent # None =>
    /\ sent \in Sendable /\ status # "idle" /\ Len(data) <= Len(Serialize(sent))
    /\ Count(sent) <= MaxLevel => Coursing

LEMMA SentIsRoundTrip == ASSUME DecoderInv, SentInv PROVE RoundTrip
<1>1. ASSUME sent # None, Count(sent) <= MaxLevel, ~OutOfMemory
      PROVE  IF Len(data) = Len(Serialize(sent))
               THEN status # "failed" /\ (status = "ok" => value = Normal(sent))
               ELSE status # "ok" /\ (status = "failed" => error = "insufficient")
  <2>1. Coursing
    BY <1>1 DEF SentInv
  <2>2. status = "failed" => error = "insufficient" /\ Len(data) < Len(Serialize(sent))
    BY <1>1, <2>1 DEF Coursing, Course, Excused, OutOfMemory
  <2>3. status = "ok" => value = Normal(sent) /\ Len(data) = Len(Serialize(sent))
    BY <2>1 DEF Coursing, Course
  <2>4. Len(data) \in Nat
    <3>1. data \in Seq(Octet)
      BY Zenon DEF DecoderInv
    <3>. QED BY <3>1
  <2>. QED BY <2>2, <2>3, <2>4
<1>. QED BY <1>1, Zenon DEF RoundTrip

-----------------------------------------------------------------------------
(* How the invariant is kept: by going on, or by ending as it may.         *)

LEMMA StillGoing ==
  ASSUME UNCHANGED <<data, sent>>, status' = "busy",
         NEW path, OnPath(sent, stack', path),
         Left(Current(stack', path), Reached(stack'), sent, data, off', level')
  PROVE  Coursing'
<1>1. Going(sent, data, off', level', stack')
  BY DEF Going
<1>2. Course(sent, data, off', level', stack', status', error', value')
  BY <1>1, Zenon DEF Course
<1>. QED BY <1>2, Zenon DEF Coursing

LEMMA Excuses ==
  ASSUME UNCHANGED <<data, sent>>, NEW e, Fail(e), Excused(sent, data, e)
  PROVE  Coursing'
<1>1. status' = "failed" /\ error' = e
  BY DEF Fail
<1>2. Course(sent, data, off', level', stack', status', error', value')
  BY <1>1 DEF Course
<1>. QED BY <1>2, Zenon DEF Coursing

LEMMA Delivered ==
  ASSUME DecoderInv', status = "busy", sent \in Sendable, Len(data) <= Len(Serialize(sent)),
         UNCHANGED <<data, sent>>, exact' = exact,
         NEW frames, IsStack(frames), NEW path, OnPath(sent, frames, path),
         NEW p, p = Current(frames, path), NEW a, a = Reached(frames), a < Len(p.parts),
         NEW v, v = Normal(p.parts[a + 1]), Deliver(v, frames),
         Left(p, a + 1, sent, data, off', level')
  PROVE  Coursing'
<1> DEFINE f == Last(frames)
<1>1. CASE frames = <<>> /\ Return(v)
  <2>1. IsRoot(p, sent) /\ a = 0
    BY <1>1, CurrentIs
  <2>2. p.parts[a + 1] = sent /\ p.text[a + 1] = <<>>
    BY <2>1 DEF IsRoot
  <2>3. off' + Len(<<>>) = Len(Serialize(sent))
    BY <2>2 DEF Left
  <2>4. off' \in Nat /\ off' <= Len(data') /\ data' \in Seq(Octet)
    BY Zenon DEF DecoderInv
  <2>5. off' = Len(data) /\ Len(data) = Len(Serialize(sent))
    <3> DEFINE x == Len(data)
               y == Len(Serialize(sent))
    <3>1. x \in Nat /\ y = off' /\ off' \in Nat /\ off' <= x /\ x <= y
      BY <2>3, <2>4
    <3> HIDE DEF x, y
    <3>2. off' = x /\ x = y
      BY <3>1
    <3>. QED BY <3>2 DEF x, y
  <2>6. status' = "ok" /\ value' = Normal(sent)
    BY <1>1, <2>2, <2>5 DEF Return
  <2>7. Course(sent, data, off', level', stack', status', error', value')
    BY <2>5, <2>6 DEF Course
  <2>. QED BY <2>7, Zenon DEF Coursing
<1>2. ASSUME NEW n, ArrayFails(n), Fail("no memory") PROVE Coursing'
  <2>1. Excused(sent, data, "no memory")
    BY <1>2 DEF Excused, ArrayFails
  <2>. QED BY <1>2, <2>1, Excuses
<1>3. ASSUME NEW g, frames # <<>>, Meets(g, p), Placed(g) = a + 1, Replace(frames, g)
      PROVE  Coursing'
  <2>1. stack' = Append(Front(frames), g) /\ status' = "busy"
    BY <1>3 DEF Replace
  <2> DEFINE e == Append(Front(frames), g)
  <2>2. OnPath(sent, e, path) /\ Len(e) = Len(frames) /\ Reached(e) = a + 1
    BY <1>3, PathReplaced
  <2> HIDE DEF e
  <2>3. Current(e, path) = p
    BY <2>2, Zenon DEF Current
  <2>. QED BY <2>1, <2>2, <2>3, StillGoing, Zenon DEF e
<1>4. CASE frames # <<>>
  <2>1. IsFrame(f) /\ Meets(f, p) /\ a = Placed(f) /\ IsPlan(p)
    BY <1>4, CurrentIs
  <2> HIDE DEF f
  <2>2. CASE f.type = "list" /\ Replace(frames, WithItem(f, v))
    <3>1. Meets(WithItem(f, v), p) /\ Placed(WithItem(f, v)) = a + 1
      BY <2>1, <2>2, ItemMeets
    <3>. QED BY <1>3, <1>4, <2>2, <3>1
  <2>3. CASE f.type = "dict" /\ f.key = None /\ (BadKey(f, v) \/ Replace(frames, WithKey(f, v)))
    <3>1. ~BadKey(f, v) /\ Meets(WithKey(f, v), p) /\ Placed(WithKey(f, v)) = a + 1
      BY <2>1, <2>3, KeyMeets
    <3>. QED BY <1>3, <1>4, <2>3, <3>1
  <2>4. CASE f.type = "dict" /\ f.key # None /\ Replace(frames, WithEntry(f, v))
    <3>1. Meets(WithEntry(f, v), p) /\ Placed(WithEntry(f, v)) = a + 1
      BY <2>1, <2>4, EntryMeets
    <3>. QED BY <1>3, <1>4, <2>4, <3>1
  <2>. QED BY <1>2, <1>4, <2>2, <2>3, <2>4, Zenon DEF Deliver, f, WithItem, WithKey, WithEntry
<1>. QED BY <1>1, <1>4 DEF Deliver

-----------------------------------------------------------------------------
(* What is sent is being decoded, as path says. *)
Sending(path) ==
  /\ status = "busy" /\ sent \in Sendable
  /\ Len(data) <= Len(Serialize(sent)) /\ Count(sent) <= MaxLevel
  /\ OnPath(sent, stack, path)
  /\ Left(Current(stack, path), Reached(stack), sent, data, off, level)

(* v is what comes next, of what p says. *)
Coming(p, a, v) ==
  /\ a \in Nat /\ a < Len(p.parts) /\ v = p.parts[a + 1] /\ v \in Sendable
  /\ Serialize(v) \in Seq(Octet) /\ p.text[a + 1] \in Seq(Octet)
  /\ p.text[a] = Serialize(v) \o p.text[a + 1]
  /\ off + Len(Serialize(v)) + Len(p.text[a + 1]) = Len(Serialize(sent))
  /\ Reads(data, off, Serialize(v)) /\ Reads(data, off + Len(Serialize(v)), p.text[a + 1])
  /\ Count(v) \in Nat /\ Count(v) >= 1 /\ p.count[a + 1] \in Nat
  /\ level + Count(v) + p.count[a + 1] = Count(sent)

LEMMA PartComes ==
  ASSUME DecoderInv, NEW path, Sending(path), NEW p, p = Current(stack, path),
         NEW a, a = Reached(stack), a < Len(p.parts)
  PROVE  Coming(p, a, p.parts[a + 1])
<1> DEFINE v == p.parts[a + 1]
           k == a + 1
<1>1. IsStack(stack) /\ off \in Nat /\ level \in Nat
  BY Zenon DEF DecoderInv
<1>2. IsPlan(p) /\ a \in Nat
  BY <1>1, CurrentIs DEF Sending
<1>3. Len(p.parts) \in Nat /\ k \in 1..Len(p.parts) /\ k \in 0..Len(p.parts) /\ k - 1 = a
  <2>1. Len(p.parts) \in Nat
    BY <1>2 DEF IsPlan
  <2>. QED BY <1>2, <2>1
<1>4. /\ v \in Sendable /\ p.text[k] \in Seq(Octet) /\ p.count[k] \in Nat
      /\ p.text[k - 1] = Serialize(v) \o p.text[k] /\ p.count[k - 1] = Count(v) + p.count[k]
  <2>1. p.parts \in Seq(Sendable) /\ p.text \in [0..Len(p.parts) -> Seq(Octet)]
        /\ p.count \in [0..Len(p.parts) -> Nat]
    BY <1>2 DEF IsPlan
  <2> HIDE DEF k
  <2>2. /\ p.text[k - 1] = Serialize(p.parts[k]) \o p.text[k]
        /\ p.count[k - 1] = Count(p.parts[k]) + p.count[k]
    BY <1>2, <1>3, Zenon DEF IsPlan
  <2>. QED BY <1>3, <2>1, <2>2 DEF k
<1>5. Serialize(v) \in Seq(Octet) /\ Count(v) \in Nat /\ Count(v) >= 1
  BY <1>4, SendableText
<1> DEFINE s == Serialize(v)
           t == p.text[k]
           m == Count(v)
           r == p.count[k]
<1>6. p.text[a] = s \o t /\ p.count[a] = m + r
  BY <1>3, <1>4, Zenon
<1>7. /\ off + Len(s \o t) = Len(Serialize(sent)) /\ Reads(data, off, s \o t)
      /\ level + (m + r) = Count(sent)
  BY <1>6, Zenon DEF Sending, Left
<1>8. s \in Seq(Octet) /\ t \in Seq(Octet) /\ m \in Nat /\ r \in Nat /\ m >= 1
  BY <1>4, <1>5
<1> HIDE DEF s, t, m, r
<1>9. Reads(data, off, s) /\ Reads(data, off + Len(s), t)
  BY <1>1, <1>7, <1>8, ReadsParts
<1>10. off + Len(s) + Len(t) = Len(Serialize(sent)) /\ level + m + r = Count(sent)
  <2>1. Len(s \o t) = Len(s) + Len(t) /\ Len(s) \in Nat /\ Len(t) \in Nat
    BY <1>8
  <2> DEFINE x == Len(s)
             y == Len(t)
             q == Len(s \o t)
  <2>2. q = x + y /\ x \in Nat /\ y \in Nat /\ off + q = Len(Serialize(sent))
    BY <1>7, <2>1
  <2> HIDE DEF x, y, q
  <2>3. off + x + y = Len(Serialize(sent))
    BY <1>1, <2>2
  <2>. QED BY <1>1, <1>7, <1>8, <2>3 DEF x, y
<1>. QED BY <1>2, <1>4, <1>6, <1>8, <1>9, <1>10, Zenon DEF Coming, s, t, m, r

-----------------------------------------------------------------------------
(* A container is closed when all its parts are taken, and is the value    *)
(* that was sent.                                                          *)

LEMMA Completed ==
  ASSUME NEW f, IsFrame(f), NEW p, IsPlan(p), Meets(f, p), Placed(f) = Len(p.parts)
  PROVE  f.key = None /\ Whole(f) = Becomes(p)
<1> DEFINE n == Len(f.values)
<1>1. /\ IsArray(f.values) /\ f.keys \in Seq(AllKeys) /\ f.type \in {"dict", "list"}
      /\ f.type = "dict" => Len(f.keys) = n
  BY Zenon DEF IsFrame
<1>2. n \in Nat /\ IsArray(f.keys)
  BY <1>1, ArrayAppend DEF IsArray
<1>3. p.size \in Nat /\ p.type = f.type
  BY DEF IsPlan, Meets
<1>4. CASE f.type = "list"
  <2>1. n = p.size /\ f.key = None /\ \A i \in 1..n : f.values[i] = Normal(p.parts[i])
    BY <1>3, <1>4 DEF IsPlan, Meets, Placed
  <2> HIDE DEF n
  <2>2. f.values = [i \in 1..n |-> Normal(p.parts[i])]
    <3> DEFINE g(i) == Normal(p.parts[i])
               vs == f.values
    <3>1. IsArray(vs) /\ Len(vs) = n /\ \A i \in 1..n : vs[i] = g(i)
      BY <1>1, <2>1 DEF n
    <3> HIDE DEF g, vs
    <3>2. vs = [i \in 1..n |-> g(i)]
      <4>1. PICK S : vs \in Seq(S)
        BY <3>1 DEF IsArray
      <4>2. vs \in [1..n -> S]
        BY <3>1, <4>1
      <4>. QED BY <3>1, <4>2
    <3>. QED BY <3>2 DEF g, vs
  <2>3. f.type # "dict"
    BY <1>4
  <2>. QED BY <1>3, <2>1, <2>2, <2>3, Zenon DEF Whole, Becomes
<1>5. CASE f.type = "dict"
  <2>0. /\ Placed(f) = 2 * n + (IF f.key = None THEN 0 ELSE 1)
        /\ Len(p.parts) = 2 * p.size /\ Len(f.keys) = n
    <3>1. p.type = "dict" /\ f.type # "list"
      BY <1>3, <1>5
    <3>. QED BY <1>1, <1>5, <3>1, Zenon DEF IsPlan, Placed
  <2>1. f.key = None /\ n = p.size
    <3> HIDE DEF n
    <3> DEFINE k == IF f.key = None THEN 0 ELSE 1
               m == p.size
    <3>1. 2 * n + k = 2 * m /\ m \in Nat /\ n \in Nat
      BY <1>2, <1>3, <2>0, Zenon DEF n
    <3>2. k \in {0, 1}
      OBVIOUS
    <3>3. k = 0 /\ n = m
      <4> HIDE DEF k, m
      <4>. QED BY <3>1, <3>2
    <3>4. f.key = None
      BY <3>3
    <3>. QED BY <3>3, <3>4
  <2>2. \A i \in 1..n : f.keys[i] = p.parts[2 * i - 1] /\ f.values[i] = Normal(p.parts[2 * i])
    BY <1>5 DEF Meets
  <2> HIDE DEF n
  <2>3. f.values = [i \in 1..n |-> Normal(p.parts[2 * i])]
    <3> DEFINE g(i) == Normal(p.parts[2 * i])
               vs == f.values
    <3>1. IsArray(vs) /\ Len(vs) = n /\ \A i \in 1..n : vs[i] = g(i)
      BY <1>1, <2>2 DEF n
    <3> HIDE DEF g, vs
    <3>2. vs = [i \in 1..n |-> g(i)]
      <4>1. PICK S : vs \in Seq(S)
        BY <3>1 DEF IsArray
      <4>2. vs \in [1..n -> S]
        BY <3>1, <4>1
      <4>. QED BY <3>1, <4>2
    <3>. QED BY <3>2 DEF g, vs
  <2>4. f.keys = [i \in 1..n |-> p.parts[2 * i - 1]]
    <3> DEFINE g(i) == p.parts[2 * i - 1]
               vs == f.keys
    <3>1. vs \in Seq(AllKeys) /\ Len(vs) = n /\ \A i \in 1..n : vs[i] = g(i)
      BY <1>1, <2>0, <2>2
    <3> HIDE DEF g, vs
    <3>2. vs = [i \in 1..n |-> g(i)]
      BY <3>1
    <3>. QED BY <3>2 DEF g, vs
  <2>. QED BY <1>3, <1>5, <2>1, <2>3, <2>4, Zenon DEF Whole, Becomes
<1>. QED BY <1>1, <1>4, <1>5

(* The innermost container has all its parts; k of the one around it are   *)
(* before it, and q is that one's plan.                                    *)
Ending(p, a, q, k) ==
  /\ Top.key = None /\ Whole(Top) = Normal(q.parts[k + 1])
  /\ k \in Nat /\ k < Len(q.parts)
  /\ q.text[k + 1] \in Seq(Octet) /\ p.text[a] = <<"e">> \o q.text[k + 1]
  /\ p.count[a] = q.count[k + 1]

LEMMA EndComes ==
  ASSUME DecoderInv, stack # <<>>, NEW path, Sending(path), NEW p, p = Current(stack, path),
         NEW a, a = Reached(stack), a = Len(p.parts)
  PROVE  Ending(p, a, Current(Front(stack), path), Reached(Front(stack)))
<1> DEFINE q == Current(Front(stack), path)
           k == Reached(Front(stack))
<1>1. IsStack(stack)
  BY Zenon DEF DecoderInv
<1>2. OnPath(sent, stack, path)
  BY DEF Sending
<1>3. /\ IsPlan(p) /\ IsFrame(Top) /\ Meets(Top, p) /\ a = Placed(Top) /\ Within(p, q, k)
  BY <1>1, <1>2, CurrentIs DEF Top
<1>4. IsStack(Front(stack)) /\ OnPath(sent, Front(stack), path)
  BY <1>1, <1>2, Popped, PathPopped
<1>5. IsPlan(q) /\ k \in Nat
  BY <1>4, CurrentIs
<1> HIDE DEF q, k
<1>6. Top.key = None /\ Whole(Top) = Becomes(p)
  BY <1>3, Completed
<1>7. q.text[k + 1] \in Seq(Octet)
  <2>1. Len(q.parts) \in Nat /\ q.text \in [0..Len(q.parts) -> Seq(Octet)] /\ k < Len(q.parts)
    BY <1>3, <1>5 DEF IsPlan, Within
  <2>. QED BY <1>5, <2>1
<1>. QED BY <1>3, <1>5, <1>6, <1>7, Zenon DEF Ending, Within, q, k

-----------------------------------------------------------------------------
(* Where decode is called, a value is to come and what is there begins it. *)

LEMMA LettersDiffer ==
  /\ "e" \notin Figure \union {"b", "i", "l", "d"} /\ {"b", "i", "l", "d"} \intersect Figure = {}
  /\ "b" # "i" /\ "b" # "l" /\ "b" # "d" /\ "i" # "l" /\ "i" # "d" /\ "l" # "d"
  BY DEF Figure

(* Where the text that is left begins. *)
LEMMA LeftBegins ==
  ASSUME DecoderInv, NEW path, Sending(path), NEW p, p = Current(stack, path),
         NEW a, a = Reached(stack), NEW c \in Octet, NEW x \in Seq(Octet), p.text[a] = <<c>> \o x
  PROVE  /\ AtEnd => Len(data) < Len(Serialize(sent))
         /\ ~AtEnd => Here = c
         /\ (off + 1) + Len(x) = Len(Serialize(sent)) /\ Reads(data, off + 1, x)
<1> DEFINE t == <<c>> \o x
           u == <<c>>
<1>1. off \in Nat /\ data \in Seq(Octet)
  BY Zenon DEF DecoderInv
<1>2. /\ t \in Seq(Octet) /\ Len(t) = 1 + Len(x) /\ t[1] = c
      /\ u \in Seq(Octet) /\ Len(u) = 1 /\ u[1] = c
  OBVIOUS
<1>3. off + Len(t) = Len(Serialize(sent)) /\ Reads(data, off, t)
  BY Zenon DEF Sending, Left
<1>4. Reads(data, off, u) /\ Reads(data, off + Len(u), x)
  <2>1. Reads(data, off, u \o x)
    BY <1>3
  <2> HIDE DEF u, t
  <2>. QED BY <1>1, <1>2, <2>1, ReadsParts
<1> DEFINE l == Len(data)
           m == Len(x)
<1>5. l \in Nat /\ m \in Nat
  BY <1>1
<1> HIDE DEF t, u
<1>6. ~AtEnd => Here = c
  <2>1. 1 \in 1..1
    OBVIOUS
  <2>2. ~(off >= l) => off + 1 <= l
    <3> HIDE DEF l
    <3>. QED BY <1>1, <1>5
  <2>. QED BY <1>2, <1>4, <2>1, <2>2 DEF Reads, AtEnd, Here, l
<1>7. (off + 1) + m = Len(Serialize(sent)) /\ (off >= l => l < Len(Serialize(sent)))
  <2>1. off + (1 + m) = Len(Serialize(sent))
    BY <1>2, <1>3
  <2> HIDE DEF l, m
  <2>. QED BY <1>1, <1>5, <2>1
<1>. QED BY <1>2, <1>4, <1>6, <1>7 DEF AtEnd, l, m

LEMMA PathIs ==
  ASSUME DecoderInv, NEW path, Sending(path)
  PROVE  /\ IsStack(stack) /\ OnPath(sent, stack, path) /\ IsPlan(Current(stack, path))
         /\ Reached(stack) \in Nat /\ Len(Current(stack, path).parts) \in Nat
         /\ Reached(stack) <= Len(Current(stack, path).parts)
<1>1. IsStack(stack) /\ OnPath(sent, stack, path)
  BY Zenon DEF DecoderInv, Sending
<1>2. IsPlan(Current(stack, path)) /\ Reached(stack) \in Nat
      /\ Reached(stack) <= Len(Current(stack, path).parts)
  BY <1>1, CurrentIs
<1>3. Len(Current(stack, path).parts) \in Nat
  BY <1>2 DEF IsPlan
<1>. QED BY <1>1, <1>2, <1>3

(* decode is called for the next of the parts. *)
LEMMA CallComes ==
  ASSUME DecoderInv, NEW path, Sending(path), Calls, NEW p, p = Current(stack, path),
         NEW a, a = Reached(stack)
  PROVE  Coming(p, a, p.parts[a + 1])
<1>1. /\ IsStack(stack) /\ OnPath(sent, stack, path) /\ IsPlan(p) /\ a \in Nat
      /\ Len(p.parts) \in Nat /\ a <= Len(p.parts)
  BY PathIs
<1>2. a # Len(p.parts)
  <2>1. CASE stack = <<>>
    <3>1. IsRoot(p, sent) /\ a = 0
      BY <1>1, <2>1, CurrentIs
    <3>2. Len(p.parts) = 1
      BY <3>1 DEF IsRoot
    <3>. QED BY <3>1, <3>2
  <2>2. ASSUME stack # <<>>, a = Len(p.parts) PROVE FALSE
    <3> DEFINE q == Current(Front(stack), path)
               k == Reached(Front(stack))
    <3>1. Ending(p, a, q, k)
      BY <2>2, EndComes
    <3> HIDE DEF q, k
    <3>2. Top.key = None /\ q.text[k + 1] \in Seq(Octet) /\ p.text[a] = <<"e">> \o q.text[k + 1]
      BY <3>1 DEF Ending
    <3>3. "e" \in Octet
      BY Letters
    <3>4. ~AtEnd => Here = "e"
      BY <3>2, <3>3, LeftBegins
    <3>. QED BY <2>2, <3>2, <3>4 DEF Calls
  <2>. QED BY <2>1, <2>2
<1>3. a < Len(p.parts)
  BY <1>1, <1>2
<1>. QED BY <1>3, PartComes

LEMMA ComingStarts ==
  ASSUME DecoderInv, NEW path, Sending(path), NEW p, p = Current(stack, path),
         NEW a, a = Reached(stack), NEW v, Coming(p, a, v)
  PROVE  /\ AtEnd => Len(data) < Len(Serialize(sent))
         /\ ~AtEnd => Here = Serialize(v)[1]
         /\ Starting(v) /\ Serialize(v)[1] \in Figure \union {"b", "i", "l", "d"}
<1> DEFINE s == Serialize(v)
           l == Len(data)
           n == Len(Serialize(sent))
           m == Len(s)
           t == Len(p.text[a + 1])
<1>1. v \in Sendable /\ s \in Seq(Octet) /\ p.text[a + 1] \in Seq(Octet) /\ Reads(data, off, s)
      /\ off + m + t = n
  BY Zenon DEF Coming
<1>2. Starting(v) /\ m >= 1 /\ s[1] \in Figure \union {"b", "i", "l", "d"}
  BY <1>1, SendableStarts
<1>3. off \in Nat /\ data \in Seq(Octet)
  BY Zenon DEF DecoderInv
<1>4. l \in Nat /\ m \in Nat /\ t \in Nat
  <2> HIDE DEF s
  <2>. QED BY <1>1, <1>3
<1>5. off >= l => l < n
  <2> HIDE DEF l, n, m, t
  <2>. QED BY <1>1, <1>2, <1>3, <1>4
<1>6. ~AtEnd => Here = s[1]
  <2>1. 1 \in 1..m /\ (~(off >= l) => off + 1 <= l)
    <3> HIDE DEF l, m
    <3>. QED BY <1>2, <1>3, <1>4
  <2> HIDE DEF s
  <2>. QED BY <1>1, <2>1 DEF Reads, AtEnd, Here
<1>. QED BY <1>2, <1>5, <1>6 DEF AtEnd

LEMMA TooFew ==
  ASSUME DecoderInv, NEW p, NEW a, NEW v, Coming(p, a, v), off + Len(Serialize(v)) > Len(data)
  PROVE  Len(data) < Len(Serialize(sent))
<1> DEFINE l == Len(data)
           n == Len(Serialize(sent))
           m == Len(Serialize(v))
           t == Len(p.text[a + 1])
<1>1. Serialize(v) \in Seq(Octet) /\ p.text[a + 1] \in Seq(Octet) /\ off + m + t = n
  BY Zenon DEF Coming
<1>2. off \in Nat /\ data \in Seq(Octet)
  BY Zenon DEF DecoderInv
<1>3. l \in Nat /\ m \in Nat /\ t \in Nat /\ off + m > l
  BY <1>1, <1>2
<1> HIDE DEF l, n, m, t
<1>4. l < n
  BY <1>1, <1>2, <1>3
<1>. QED BY <1>4 DEF l, n

LEMMA Took ==
  ASSUME DecoderInv, NEW p, NEW a, NEW v, Coming(p, a, v), Count(v) = 1, NEW o, NEW l,
         o = off + Len(Serialize(v)), l = level + 1
  PROVE  Left(p, a + 1, sent, data, o, l)
<1> DEFINE r == p.count[a + 1]
<1>1. /\ off + Len(Serialize(v)) + Len(p.text[a + 1]) = Len(Serialize(sent))
      /\ Reads(data, off + Len(Serialize(v)), p.text[a + 1])
      /\ level + 1 + r = Count(sent)
  BY Zenon DEF Coming
<1>2. /\ o + Len(p.text[a + 1]) = Len(Serialize(sent)) /\ Reads(data, o, p.text[a + 1])
      /\ l + r = Count(sent)
  BY <1>1, Zenon
<1>. QED BY <1>2, Zenon DEF Left

(* A simple value is taken. *)
LEMMA SimpleTaken ==
  ASSUME DecoderInv, DecoderInv', NEW path, Sending(path), UNCHANGED callVars, UNCHANGED sent,
         NEW p, p = Current(stack, path), NEW a, a = Reached(stack),
         NEW v \in Simple, Coming(p, a, v),
         off' = off + Len(Serialize(v)), level' = level + 1, Deliver(v, stack)
  PROVE  Coursing'
<1>1. IsStack(stack) /\ OnPath(sent, stack, path)
  BY PathIs
<1>2. Count(v) = 1 /\ v = Normal(v)
  BY CountSimple
<1>3. Left(p, a + 1, sent, data, off', level')
  BY <1>2, Took
<1>4. a < Len(p.parts) /\ v = Normal(p.parts[a + 1])
  BY <1>2, Zenon DEF Coming
<1>5. status = "busy" /\ sent \in Sendable /\ Len(data) <= Len(Serialize(sent))
  BY Zenon DEF Sending
<1>6. UNCHANGED <<data, sent>> /\ exact' = exact
  BY DEF callVars
<1>. QED BY <1>1, <1>3, <1>4, <1>5, <1>6, Delivered

-----------------------------------------------------------------------------
(* One lemma for each step.                                                *)

LEMMA Insufficient ==
  ASSUME UNCHANGED callVars, UNCHANGED sent, Fail("insufficient"), Len(data) < Len(Serialize(sent))
  PROVE  Coursing'
<1>1. Excused(sent, data, "insufficient")
  BY DEF Excused
<1>. QED BY <1>1, Excuses DEF callVars

LEMMA NoMemory ==
  ASSUME UNCHANGED callVars, UNCHANGED sent, NoStruct
  PROVE  Coursing'
<1>1. Excused(sent, data, "no memory") /\ Fail("no memory")
  BY DEF Excused, NoStruct
<1>. QED BY <1>1, Excuses DEF callVars

LEMMA ManyCourse ==
  ASSUME DecoderInv, NEW path, Sending(path), UNCHANGED sent, TooManyValues
  PROVE  Coursing'
<1> DEFINE p == Current(stack, path)
           a == Reached(stack)
           v == p.parts[a + 1]
           m == Count(v)
           r == p.count[a + 1]
<1>1. Calls /\ level' = level + 1 /\ level' > MaxLevel
  BY DEF TooManyValues
<1>2. Coming(p, a, v)
  BY <1>1, CallComes
<1>3. m \in Nat /\ m >= 1 /\ r \in Nat /\ level + m + r = Count(sent)
  BY <1>2, Zenon DEF Coming
<1>4. Count(sent) <= MaxLevel /\ level \in Nat
  BY Zenon DEF Sending, DecoderInv
<1>5. FALSE
  <2>1. level + m + r <= MaxLevel /\ level + 1 > MaxLevel
    BY <1>1, <1>3, <1>4
  <2> HIDE DEF m, r
  <2>. QED BY <1>3, <1>4, <2>1, DecoderAssumption
<1>. QED BY <1>5

LEMMA TruncatedCourse ==
  ASSUME DecoderInv, NEW path, Sending(path), UNCHANGED sent, Truncated
  PROVE  Coursing'
<1> DEFINE p == Current(stack, path)
           a == Reached(stack)
<1>1. Calls /\ AtEnd /\ Fail("insufficient") /\ UNCHANGED callVars
  BY DEF Truncated
<1>2. Coming(p, a, p.parts[a + 1])
  BY <1>1, CallComes
<1>3. Len(data) < Len(Serialize(sent))
  BY <1>1, <1>2, ComingStarts
<1>. QED BY <1>1, <1>3, Insufficient

LEMMA UnknownCourse ==
  ASSUME DecoderInv, NEW path, Sending(path), UNCHANGED sent, UnknownType
  PROVE  Coursing'
<1> DEFINE p == Current(stack, path)
           a == Reached(stack)
           v == p.parts[a + 1]
<1>1. Calls /\ ~AtEnd /\ ~IsDigit(Here) /\ Here \notin {"b", "d", "i", "l"}
  BY DEF UnknownType, Enter
<1>2. Coming(p, a, v)
  BY <1>1, CallComes
<1>3. Here = Serialize(v)[1] /\ Serialize(v)[1] \in Figure \union {"b", "i", "l", "d"}
  BY <1>1, <1>2, ComingStarts
<1> HIDE DEF v
<1>4. Here \in Figure => IsDigit(Here)
  BY DigitsAre
<1>. QED BY <1>1, <1>3, <1>4

(* What comes, when decode has seen its first octet. *)
LEMMA Seen ==
  ASSUME DecoderInv, NEW path, Sending(path), Enter
  PROVE  \E v \in Sendable :
           /\ Coming(Current(stack, path), Reached(stack), v)
           /\ v = Current(stack, path).parts[Reached(stack) + 1]
           /\ UNCHANGED callVars /\ level' = level + 1
           /\ Here = "b" => v.type = "bool"
           /\ Here = "i" => v.type = "int"
           /\ IsDigit(Here) => v.type = "str"
           /\ Here = "l" => v.type = "list"
           /\ Here = "d" => v.type = "dict"
<1> DEFINE p == Current(stack, path)
           a == Reached(stack)
           v == p.parts[a + 1]
<1>1. Calls /\ ~AtEnd /\ UNCHANGED callVars /\ level' = level + 1
  BY DEF Enter
<1>2. Coming(p, a, v)
  BY <1>1, CallComes
<1>3. Here = Serialize(v)[1] /\ Starting(v)
  BY <1>1, <1>2, ComingStarts
<1>4. v \in Sendable
  BY <1>2, Zenon DEF Coming
<1> HIDE DEF v
<1> DEFINE h == Here
<1>5. v.type \in {"bool", "int", "str", "list", "dict"}
  BY <1>3 DEF Starting
<1>6. /\ v.type = "bool" => h = "b"
      /\ v.type = "int"  => h = "i"
      /\ v.type = "str"  => h \in Figure
      /\ v.type = "list" => h = "l"
      /\ v.type = "dict" => h = "d"
  BY <1>3 DEF Starting
<1>7. IsDigit(h) <=> h \in Figure
  BY DigitsAre
<1> HIDE DEF h
<1>8. /\ h = "b" => v.type = "bool"
      /\ h = "i" => v.type = "int"
      /\ IsDigit(h) => v.type = "str"
      /\ h = "l" => v.type = "list"
      /\ h = "d" => v.type = "dict"
  <2>1. CASE v.type = "bool"
    BY <1>6, <1>7, <2>1, LettersDiffer
  <2>2. CASE v.type = "int"
    BY <1>6, <1>7, <2>2, LettersDiffer
  <2>3. CASE v.type = "str"
    BY <1>6, <1>7, <2>3, LettersDiffer
  <2>4. CASE v.type = "list"
    BY <1>6, <1>7, <2>4, LettersDiffer
  <2>5. CASE v.type = "dict"
    BY <1>6, <1>7, <2>5, LettersDiffer
  <2>. QED BY <1>5, <2>1, <2>2, <2>3, <2>4, <2>5
<1>. QED BY <1>1, <1>2, <1>4, <1>8, Zenon DEF v, h

LEMMA SendableSimple ==
  ASSUME NEW v \in Sendable, v.type \in {"bool", "int", "str"}
  PROVE  /\ v \in Simple /\ v \in HeldSimple
         /\ v.type = "bool" => v = BenBool(v.b) /\ v.b \in BOOLEAN
         /\ v.type = "int"  => v = BenInt(v.ll) /\ v.ll \in Int /\ v.ll \in LongLongs
         /\ v.type = "str"  => v = BenStr(v.s) /\ v.s \in Seq(Octet) /\ Len(v.s) <= MaxLongLong
<1>1. v \in HeldSimple
  BY SendableIs DEF IsHeldList, IsHeldDict
<1>2. /\ v \in Simple /\ (v.type = "int" => v.ll \in LongLongs)
      /\ (v.type = "str" => Len(v.s) <= MaxLongLong)
  BY <1>1 DEF HeldSimple
<1>. QED BY <1>1, <1>2, SimpleIs

LEMMA BoolCourse ==
  ASSUME DecoderInv, DecoderInv', NEW path, Sending(path), UNCHANGED sent, DecodeBool
  PROVE  Coursing'
<1> DEFINE p == Current(stack, path)
           a == Reached(stack)
<1>1. Enter /\ Here = "b"
  BY DEF DecodeBool
<1>2. PICK v \in Sendable : /\ Coming(p, a, v) /\ v.type = "bool"
                            /\ UNCHANGED callVars /\ level' = level + 1
  BY <1>1, Seen
<1>3. v \in Simple /\ v = BenBool(v.b) /\ v.b \in BOOLEAN
  BY <1>2, SendableSimple
<1> DEFINE x == IF v.b THEN "1" ELSE "0"
<1>4. Serialize(v) = <<"b", x>>
  BY <1>3, SerializeBool
<1>5. Len(Serialize(v)) = 2 /\ Serialize(v)[2] = x /\ x \in {"0", "1"} /\ (x = "1" <=> v.b)
  BY <1>3, <1>4
<1> HIDE DEF x, p, a
<1>6. off + 2 <= Len(data) => data[off + 2] = x
  <2>1. Reads(data, off, Serialize(v))
    BY <1>2, Zenon DEF Coming
  <2>2. 2 \in 1..Len(Serialize(v))
    BY <1>5
  <2>. QED BY <1>5, <2>1, <2>2 DEF Reads
<1>7. CASE off + 2 > Len(data) /\ Fail("insufficient")
  <2>1. Len(data) < Len(Serialize(sent))
    BY <1>2, <1>5, <1>7, TooFew
  <2>. QED BY <1>2, <1>7, <2>1, Insufficient
<1>8. CASE off + 2 <= Len(data) /\ off' = off + 2 /\ Deliver(BenBool(data[off + 2] = "1"), stack)
  <2>1. BenBool(data[off + 2] = "1") = v
    <3>1. (data[off + 2] = "1") = v.b
      BY <1>3, <1>5, <1>6, <1>8
    <3>. QED BY <1>3, <3>1, Zenon
  <2>2. Deliver(v, stack)
    BY <1>8, <2>1
  <2>3. off' = off + Len(Serialize(v))
    BY <1>5, <1>8
  <2>. QED BY <1>2, <1>3, <2>2, <2>3, SimpleTaken DEF p, a
<1>9. CASE off + 2 <= Len(data) /\ data[off + 2] \notin {"0", "1"}
  BY <1>5, <1>6, <1>9
<1>10. CASE NoStruct
  BY <1>2, <1>10, NoMemory
<1>. QED BY <1>7, <1>8, <1>9, <1>10 DEF DecodeBool

LEMMA ConcatLen ==
  ASSUME NEW S, NEW x \in Seq(S), NEW y \in Seq(S)
  PROVE  /\ x \o y \in Seq(S) /\ Len(x \o y) = Len(x) + Len(y)
         /\ Len(x) \in Nat /\ Len(y) \in Nat
  OBVIOUS

LEMMA IntCourse ==
  ASSUME DecoderInv, DecoderInv', NEW path, Sending(path), UNCHANGED sent, DecodeInt
  PROVE  Coursing'
<1> DEFINE p == Current(stack, path)
           a == Reached(stack)
           o == off + 1
           s == NumberText(o, "e")
<1>1. Enter /\ Here = "i"
  BY DEF DecodeInt
<1>2. PICK v \in Sendable : /\ Coming(p, a, v) /\ v.type = "int"
                            /\ UNCHANGED callVars /\ level' = level + 1
  BY <1>1, Seen
<1>3. v \in Simple /\ v = BenInt(v.ll) /\ v.ll \in Int /\ v.ll \in LongLongs
  BY <1>2, SendableSimple
<1> HIDE DEF p, a
<1> DEFINE n == Numeral(v.ll)
           i == <<"i">>
           e == <<"e">>
           xi == i \o n
<1>4. Serialize(v) = xi \o e
  BY <1>3, SerializeInt
<1>5. /\ n \in Seq(Octet) /\ Len(n) \in Nat /\ i \in Seq(Octet)
      /\ e \in Seq(Octet) /\ Len(i) = 1 /\ Len(e) = 1
      /\ xi \in Seq(Octet) /\ Len(xi) = 1 + Len(n)
  <2>1. n \in Seq(Octet)
    BY <1>3, NumeralType
  <2>2. i \in Seq(Octet) /\ e \in Seq(Octet) /\ Len(i) = 1 /\ Len(e) = 1
    BY Letters
  <2> HIDE DEF n, i, e
  <2>3. i \o n \in Seq(Octet) /\ Len(i \o n) = Len(i) + Len(n) /\ Len(n) \in Nat
    BY <2>1, <2>2, ConcatLen
  <2>. QED BY <2>1, <2>2, <2>3
<1>6. WellFormed(n) /\ LongLong(n) = v.ll /\ CString(n) = n /\ \A j \in 1..Len(n) : n[j] # "e"
  <2>1. IsNumeral(n)
    BY <1>3, NumeralFigures
  <2> HIDE DEF n
  <2>2. CString(n) = n /\ \A j \in 1..Len(n) : n[j] # "e"
    BY <2>1, NumeralWhole
  <2>. QED BY <1>3, <2>2, NumeralRead DEF n
<1>7. off \in Nat /\ data \in Seq(Octet)
  BY Zenon DEF DecoderInv
<1>8. Reads(data, off, Serialize(v))
  BY <1>2, Zenon DEF Coming
<1>9. Reads(data, o, n) /\ Reads(data, o + Len(n), e)
  <2> HIDE DEF n, i, e, xi
  <2>1. Reads(data, off, xi) /\ Reads(data, off + Len(xi), e)
    BY <1>4, <1>5, <1>7, <1>8, ReadsParts
  <2>2. Reads(data, off, i \o n)
    BY <2>1 DEF xi
  <2>3. Reads(data, off + Len(i), n)
    BY <1>5, <1>7, <2>2, ReadsParts
  <2>4. off + Len(i) = o /\ off + Len(xi) = o + Len(n)
    BY <1>5, <1>7
  <2>. QED BY <2>1, <2>3, <2>4, Zenon
<1>10. Len(Serialize(v)) = Len(n) + 2
  <2> HIDE DEF n, i, e, xi
  <2>1. Len(xi \o e) = Len(xi) + Len(e)
    BY <1>5, ConcatLen
  <2>. QED BY <1>4, <1>5, <2>1
<1> HIDE DEF n, i, xi
<1>11. IF o + Len(n) + 1 <= Len(data)
         THEN Ends(o, "e") # {} /\ Find(o, "e") = o + Len(n) /\ s = n
         ELSE Ends(o, "e") = {}
  <2>1. o \in Nat
    BY <1>7
  <2> HIDE DEF o
  <2>. QED BY <1>5, <1>6, <1>9, <2>1, NumberFound
<1>12. CASE Ends(o, "e") = {} /\ Fail("insufficient")
  <2>1. off + Len(Serialize(v)) > Len(data)
    <3>1. ~(o + Len(n) + 1 <= Len(data))
      BY <1>11, <1>12
    <3> DEFINE m == Len(n)
               l == Len(data)
    <3>2. m \in Nat /\ l \in Nat /\ ~((off + 1) + m + 1 <= l) /\ Len(Serialize(v)) = m + 2
      BY <1>5, <1>7, <1>10, <3>1
    <3> HIDE DEF m, l
    <3>3. off + (m + 2) > l
      BY <1>7, <3>2
    <3>. QED BY <3>2, <3>3 DEF l
  <2>2. Len(data) < Len(Serialize(sent))
    BY <1>2, <2>1, TooFew
  <2>. QED BY <1>2, <1>12, <2>2, Insufficient
<1>13. CASE Ends(o, "e") # {} /\ ~WellFormed(s)
  BY <1>6, <1>11, <1>13
<1>14. CASE /\ Ends(o, "e") # {} /\ off' = Find(o, "e") + 1
            /\ Deliver(BenInt(LongLong(CString(s))), stack)
  <2>1. s = n /\ Find(o, "e") = o + Len(n)
    BY <1>11, <1>14
  <2>2. BenInt(LongLong(CString(s))) = v
    <3>1. CString(s) = n /\ LongLong(n) = v.ll
      BY <1>6, <2>1, Zenon
    <3>. QED BY <1>3, <3>1, Zenon
  <2>3. Deliver(v, stack)
    BY <1>14, <2>2, Zenon
  <2>4. off' = off + Len(Serialize(v))
    <3> DEFINE m == Len(n)
    <3>1. m \in Nat /\ off' = ((off + 1) + m) + 1 /\ Len(Serialize(v)) = m + 2
      BY <1>5, <1>10, <1>14, <2>1
    <3> HIDE DEF m
    <3>. QED BY <1>7, <3>1
  <2>. QED BY <1>2, <1>3, <2>3, <2>4, SimpleTaken DEF p, a
<1>15. CASE NoStruct
  BY <1>2, <1>15, NoMemory
<1> HIDE DEF o, s, e
<1>. QED BY <1>12, <1>13, <1>14, <1>15, Zenon DEF DecodeInt, o, s

LEMMA StrCourse ==
  ASSUME DecoderInv, DecoderInv', NEW path, Sending(path), UNCHANGED sent, DecodeStr
  PROVE  Coursing'
<1> DEFINE p == Current(stack, path)
           a == Reached(stack)
           o == off
           s == NumberText(o, ":")
           n == LongLong(CString(s))
           q == Find(o, ":") + 1
<1>1. Enter /\ IsDigit(Here)
  BY DEF DecodeStr
<1>2. PICK v \in Sendable : /\ Coming(p, a, v) /\ v.type = "str"
                            /\ UNCHANGED callVars /\ level' = level + 1
  BY <1>1, Seen
<1>3. v \in Simple /\ v = BenStr(v.s) /\ v.s \in Seq(Octet) /\ Len(v.s) <= MaxLongLong
  BY <1>2, SendableSimple
<1> HIDE DEF p, a
<1> DEFINE b == v.s
           m == Len(b)
           x == Numeral(m)
           c == <<":">>
           xc == x \o c
<1>4. Serialize(v) = xc \o b
  BY <1>3, SerializeStr
<1>5. m \in Nat /\ m \in LongLongs /\ b \in Seq(Octet)
  <2>1. m \in Nat /\ b \in Seq(Octet)
    BY <1>3
  <2>2. m <= MaxLongLong
    BY <1>3
  <2> HIDE DEF m
  <2>. QED BY <2>1, <2>2, DecoderAssumption DEF LongLongs
<1> HIDE DEF b, m
<1>6. x \in Seq(Octet) /\ Len(x) \in Nat /\ Len(x) >= 1 /\ c \in Seq(Octet) /\ Len(c) = 1
      /\ xc \in Seq(Octet) /\ Len(xc) = Len(x) + 1
  <2>1. x \in Seq(Octet) /\ Len(x) >= 1
    BY <1>5, NumeralType
  <2>2. c \in Seq(Octet) /\ Len(c) = 1
    BY Letters
  <2> HIDE DEF x, c
  <2>3. x \o c \in Seq(Octet) /\ Len(x \o c) = Len(x) + Len(c) /\ Len(x) \in Nat
    BY <2>1, <2>2, ConcatLen
  <2>. QED BY <2>1, <2>2, <2>3
<1>7. WellFormed(x) /\ LongLong(x) = m /\ CString(x) = x /\ \A j \in 1..Len(x) : x[j] # ":"
  <2>1. IsNumeral(x)
    BY <1>5, NumeralFigures
  <2> HIDE DEF x
  <2>2. CString(x) = x /\ \A j \in 1..Len(x) : x[j] # ":"
    BY <2>1, NumeralWhole
  <2>. QED BY <1>5, <2>2, NumeralRead DEF x
<1>8. off \in Nat /\ data \in Seq(Octet)
  BY Zenon DEF DecoderInv
<1>9. Reads(data, off, Serialize(v))
  BY <1>2, Zenon DEF Coming
<1> HIDE DEF x, c, xc
<1>10. Reads(data, o, x) /\ Reads(data, o + Len(x), c) /\ Reads(data, o + Len(xc), b)
  <2>1. Reads(data, off, xc) /\ Reads(data, off + Len(xc), b)
    BY <1>4, <1>5, <1>6, <1>8, <1>9, ReadsParts
  <2>2. Reads(data, off, x \o c)
    BY <2>1 DEF xc
  <2>3. Reads(data, off, x) /\ Reads(data, off + Len(x), c)
    BY <1>6, <1>8, <2>2, ReadsParts
  <2>. QED BY <2>1, <2>3
<1> DEFINE k == Len(x)
           l == Len(data)
<1>11. Len(Serialize(v)) = (k + 1) + m /\ k \in Nat /\ l \in Nat /\ Len(xc) = k + 1
  <2>1. Len(xc \o b) = Len(xc) + Len(b)
    BY <1>5, <1>6, ConcatLen
  <2>2. Len(xc \o b) = (k + 1) + m
    BY <1>6, <2>1 DEF m
  <2>. QED BY <1>4, <1>6, <1>8, <2>2
<1>12. IF o + k + 1 <= l
         THEN Ends(o, ":") # {} /\ Find(o, ":") = o + k /\ s = x
         ELSE Ends(o, ":") = {}
  <2>1. o \in Nat
    BY <1>8
  <2>2. Reads(data, o + Len(x), <<":">>)
    BY <1>10 DEF c
  <2> HIDE DEF o
  <2>. QED BY <1>6, <1>7, <1>10, <2>1, <2>2, NumberFound
<1> HIDE DEF s, k, l
<1>13. Ends(o, ":") # {} => s = x /\ n = m /\ q = off + k + 1
  <2>1. Ends(o, ":") # {} => s = x /\ Find(o, ":") = o + k
    BY <1>12
  <2>. QED BY <1>7, <2>1
<1>14. CASE Ends(o, ":") = {} /\ Fail("insufficient")
  <2>1. off + Len(Serialize(v)) > l
    <3>1. ~(off + k + 1 <= l)
      BY <1>12, <1>14
    <3>2. off + ((k + 1) + m) > l
      BY <1>5, <1>8, <1>11, <3>1
    <3>. QED BY <1>11, <3>2
  <2>2. Len(data) < Len(Serialize(sent))
    BY <1>2, <2>1, TooFew DEF l
  <2>. QED BY <1>2, <1>14, <2>2, Insufficient
<1>15. CASE Ends(o, ":") # {} /\ ~IsSize(s)
  <2>1. s = x
    BY <1>13, <1>15
  <2>2. IsSize(x)
    <3>1. LongLong(CString(x)) = m /\ m >= 0
      BY <1>5, <1>7
    <3>. QED BY <1>7, <3>1 DEF IsSize
  <2>. QED BY <1>15, <2>1, <2>2
<1>16. CASE Ends(o, ":") # {} /\ TooShort(q, n) /\ Fail("insufficient")
  <2>1. q = off + k + 1 /\ n = m
    BY <1>13, <1>16
  <2>2. q + n > l
    BY <1>16 DEF TooShort, l
  <2> HIDE DEF q, n
  <2>3. off + Len(Serialize(v)) > l
    <3>1. off + ((k + 1) + m) > l
      BY <1>5, <1>8, <1>11, <2>1, <2>2
    <3>. QED BY <1>11, <3>1
  <2>4. Len(data) < Len(Serialize(sent))
    BY <1>2, <2>3, TooFew DEF l
  <2>. QED BY <1>2, <1>16, <2>4, Insufficient
<1>17. CASE /\ Ends(o, ":") # {} /\ ~TooShort(q, n) /\ off' = q + n
            /\ Deliver(BenStr(SubSeq(data, q + 1, q + n)), stack)
  <2>1. q = off + k + 1 /\ n = m
    BY <1>13, <1>17
  <2>2. q + n <= l
    <3>1. ~(q + n > l)
      BY <1>17 DEF TooShort, l
    <3> HIDE DEF q, n
    <3>. QED BY <1>5, <1>8, <1>11, <2>1, <3>1
  <2>3. SubSeq(data, q + 1, q + n) = b
    <3>1. Reads(data, q, b)
      <4>1. q = o + Len(xc)
        <5> HIDE DEF q
        <5>. QED BY <1>8, <1>11, <2>1
      <4>. QED BY <1>10, <4>1, Zenon
    <3>2. q \in Nat /\ n = m
      <4> HIDE DEF q, n
      <4>. QED BY <1>8, <1>11, <2>1
    <3> HIDE DEF q, n
    <3>3. q + m <= Len(data) /\ Len(b) = m
      BY <2>2, <3>2 DEF l, m
    <3> DEFINE u == SubSeq(data, q + 1, q + m)
    <3>4. u \in Seq(Octet) /\ Len(u) = m /\ \A j \in 1..m : u[j] = data[q + j]
      BY <1>5, <1>8, <3>2, <3>3
    <3>5. \A j \in 1..m : data[q + j] = b[j]
      <4>1. \A j \in 1..m : q + j <= Len(data)
        BY <1>5, <1>8, <3>2, <3>3
      <4>. QED BY <3>1, <3>3, <4>1 DEF Reads
    <3> HIDE DEF u
    <3>6. u = b
      BY <1>5, <3>3, <3>4, <3>5
    <3>. QED BY <3>2, <3>6 DEF u
  <2>4. BenStr(SubSeq(data, q + 1, q + n)) = v
    BY <1>3, <2>3, Zenon DEF b
  <2>5. Deliver(v, stack)
    BY <1>17, <2>4, Zenon
  <2>6. off' = off + Len(Serialize(v))
    <3>1. off' = q + n
      BY <1>17
    <3> HIDE DEF q, n
    <3>2. off' = off + ((k + 1) + m)
      BY <1>5, <1>8, <1>11, <2>1, <3>1
    <3>. QED BY <1>11, <3>2
  <2>. QED BY <1>2, <1>3, <2>5, <2>6, SimpleTaken DEF p, a
<1>18. CASE "blob" \in Fallible /\ Fail(error)
  <2>1. error = "ok"
    BY Zenon DEF DecoderInv, Sending
  <2>2. Excused(sent, data, error)
    BY <1>18, <2>1 DEF Excused
  <2>. QED BY <1>2, <1>18, <2>2, Excuses DEF callVars
<1> HIDE DEF o, n, q
<1>. QED BY <1>14, <1>15, <1>16, <1>17, <1>18, Zenon DEF DecodeStr, o, s, n, q

LEMMA OpenCourse ==
  ASSUME DecoderInv, NEW path, Sending(path), UNCHANGED sent, NEW type \in {"dict", "list"},
         NEW c, c = IF type = "dict" THEN "d" ELSE "l", Open(c, type)
  PROVE  Coursing'
<1> DEFINE p == Current(stack, path)
           a == Reached(stack)
           z == p.text[a + 1]
           r == p.count[a + 1]
<1>1. Enter /\ Here = c
  BY DEF Open
<1>2. PICK v \in Sendable : /\ Coming(p, a, v) /\ v.type = type /\ v = p.parts[a + 1]
                            /\ UNCHANGED callVars /\ level' = level + 1
  BY <1>1, Seen
<1>3. /\ z \in Seq(Octet) /\ r \in Nat /\ a < Len(p.parts) /\ p.text[a] = Serialize(v) \o z
      /\ level + Count(v) + r = Count(sent) /\ Count(v) \in Nat
  BY <1>2, Zenon DEF Coming
<1>4. IsStack(stack) /\ OnPath(sent, stack, path)
  BY PathIs
<1>5. IsHeldList(v, Holdable[Inner]) \/ IsHeldDict(v, Holdable[Inner])
  <2>1. v \notin HeldSimple
    <3>1. v.type \notin {"bool", "int", "str"}
      BY <1>2
    <3>2. v \in Simple => v.type \in {"bool", "int", "str"}
      BY SimpleIs
    <3>. QED BY <3>1, <3>2 DEF HeldSimple
  <2>. QED BY <2>1, SendableIs
<1>6. PICK q : PlanFor(q, v, z, r)
  <2> HIDE DEF z, r
  <2>. QED BY <1>3, <1>5, SomePlan
<1>7. /\ IsPlan(q) /\ q.type = type /\ Becomes(q) = Normal(v)
      /\ q.text[Len(q.parts)] = <<"e">> \o z /\ q.count[Len(q.parts)] = r
      /\ Serialize(v) \o z = <<c>> \o q.text[0] /\ Count(v) + r = 1 + q.count[0]
  BY <1>2, <1>6, Zenon DEF PlanFor
<1>8. /\ q.text[0] \in Seq(Octet) /\ q.count[0] \in Nat /\ Len(q.parts) \in Nat
  <2>1. /\ q.text \in [0..Len(q.parts) -> Seq(Octet)] /\ q.count \in [0..Len(q.parts) -> Nat]
        /\ Len(q.parts) \in Nat
    BY <1>7 DEF IsPlan
  <2>. QED BY <2>1
<1>9. Within(q, p, a)
  BY <1>2, <1>3, <1>7, Zenon DEF Within
<1> HIDE DEF p, a, z, r
<1> DEFINE f == Frame(type)
<1>10. Meets(f, q) /\ Placed(f) = 0
  <2>1. f.type = type /\ f.key = None /\ Len(f.values) = 0
    BY DEF Frame
  <2> HIDE DEF f
  <2>2. Placed(f) = 0
    BY <2>1 DEF Placed
  <2>. QED BY <1>7, <1>8, <2>1, <2>2 DEF Meets
<1>11. CASE off' = off + 1 /\ stack' = Append(stack, f) /\ UNCHANGED <<error, value, status>>
  <2> HIDE DEF f
  <2>1. PICK longer : /\ OnPath(sent, Append(stack, f), longer)
                      /\ Current(Append(stack, f), longer) = q
                      /\ Reached(Append(stack, f)) = 0
    BY <1>4, <1>7, <1>9, <1>10, PathPushed DEF p, a
  <2>2. c \in Octet /\ p.text[a] = <<c>> \o q.text[0]
    BY <1>3, <1>7, Letters
  <2>3. off' + Len(q.text[0]) = Len(Serialize(sent)) /\ Reads(data, off', q.text[0])
    BY <1>8, <1>11, <2>2, LeftBegins DEF p, a
  <2>4. level' + q.count[0] = Count(sent)
    <3> DEFINE m == Count(v)
               u == q.count[0]
    <3>1. m \in Nat /\ r \in Nat /\ u \in Nat /\ level \in Nat /\ level' = level + 1
          /\ level + m + r = Count(sent) /\ m + r = 1 + u
      BY <1>2, <1>3, <1>7, <1>8, Zenon DEF DecoderInv, r
    <3> HIDE DEF m, u
    <3>2. level' + u = Count(sent)
      BY <3>1
    <3>. QED BY <3>2 DEF u
  <2>5. Left(q, 0, sent, data, off', level')
    BY <2>3, <2>4, Zenon DEF Left
  <2>6. status' = "busy" /\ UNCHANGED <<data, sent>>
    BY <1>2, <1>11 DEF Sending, callVars
  <2>. QED BY <1>11, <2>1, <2>5, <2>6, StillGoing
<1>12. CASE NoStruct
  BY <1>2, <1>12, NoMemory
<1>. QED BY <1>11, <1>12, Zenon DEF Open, f

(* In its loop, a container is before a part or before its end. *)
LEMMA LoopComes ==
  ASSUME DecoderInv, NEW path, Sending(path), Looping, NEW p, p = Current(stack, path),
         NEW a, a = Reached(stack)
  PROVE  \/ Coming(p, a, p.parts[a + 1])
         \/ a = Len(p.parts) /\ Ending(p, a, Current(Front(stack), path), Reached(Front(stack)))
<1>1. a \in Nat /\ Len(p.parts) \in Nat /\ a <= Len(p.parts)
  BY PathIs
<1>2. CASE a < Len(p.parts)
  BY <1>2, PartComes
<1>3. CASE a = Len(p.parts)
  BY <1>3, EndComes DEF Looping
<1>. QED BY <1>1, <1>2, <1>3

LEMMA EndCourse ==
  ASSUME DecoderInv, NEW path, Sending(path), UNCHANGED sent, EndOfData
  PROVE  Coursing'
<1> DEFINE p == Current(stack, path)
           a == Reached(stack)
           q == Current(Front(stack), path)
           k == Reached(Front(stack))
<1>1. Looping /\ AtEnd /\ Fail("insufficient") /\ UNCHANGED callVars
  BY DEF EndOfData
<1>2. CASE Coming(p, a, p.parts[a + 1])
  <2>1. Len(data) < Len(Serialize(sent))
    BY <1>1, <1>2, ComingStarts
  <2>. QED BY <1>1, <2>1, Insufficient
<1>3. CASE Ending(p, a, q, k)
  <2> HIDE DEF q, k
  <2>1. q.text[k + 1] \in Seq(Octet) /\ p.text[a] = <<"e">> \o q.text[k + 1] /\ "e" \in Octet
    BY <1>3, Letters DEF Ending
  <2>2. Len(data) < Len(Serialize(sent))
    BY <1>1, <2>1, LeftBegins
  <2>. QED BY <1>1, <2>2, Insufficient
<1>. QED BY <1>1, <1>2, <1>3, LoopComes

LEMMA NoRoomCourse ==
  ASSUME DecoderInv, NEW path, Sending(path), UNCHANGED sent, NoRoomForKey
  PROVE  Coursing'
<1>1. UNCHANGED <<data, sent>> /\ ArrayFails(Len(Top.keys))
  BY DEF NoRoomForKey, callVars
<1>2. CASE Fail("no memory")
  <2>1. Excused(sent, data, "no memory")
    BY <1>1 DEF Excused, ArrayFails
  <2>. QED BY <1>1, <1>2, <2>1, Excuses
<1>3. CASE status' = "undefined"
  <2>1. Course(sent, data, off', level', stack', status', error', value')
    BY <1>3 DEF Course
  <2>. QED BY <1>1, <2>1, Zenon DEF Coursing
<1>. QED BY <1>2, <1>3 DEF NoRoomForKey

LEMMA CloseCourse ==
  ASSUME DecoderInv, DecoderInv', NEW path, Sending(path), UNCHANGED sent, Close
  PROVE  Coursing'
<1> DEFINE p == Current(stack, path)
           a == Reached(stack)
           e == Front(stack)
           q == Current(e, path)
           k == Reached(e)
<1>1. /\ Looping /\ ~AtEnd /\ Here = "e" /\ off' = off + 1 /\ Deliver(Whole(Top), e)
      /\ UNCHANGED callVars /\ level' = level
  BY DEF Close, Whole
<1>2. CASE Coming(p, a, p.parts[a + 1])
  <2>1. Here \in Figure \union {"b", "i", "l", "d"}
    BY <1>1, <1>2, ComingStarts
  <2>. QED BY <1>1, <2>1, LettersDiffer
<1>3. CASE Ending(p, a, q, k)
  <2>1. IsStack(stack) /\ OnPath(sent, stack, path) /\ stack # <<>>
    BY <1>1, PathIs DEF Looping
  <2>2. IsStack(e) /\ OnPath(sent, e, path)
    BY <2>1, Popped, PathPopped
  <2> HIDE DEF q, k, e
  <2>3. /\ q.text[k + 1] \in Seq(Octet) /\ p.text[a] = <<"e">> \o q.text[k + 1] /\ "e" \in Octet
        /\ k < Len(q.parts) /\ Whole(Top) = Normal(q.parts[k + 1]) /\ p.count[a] = q.count[k + 1]
    BY <1>3, Letters DEF Ending
  <2>4. off' + Len(q.text[k + 1]) = Len(Serialize(sent)) /\ Reads(data, off', q.text[k + 1])
    BY <1>1, <2>3, LeftBegins
  <2>5. level' + q.count[k + 1] = Count(sent)
    <3>1. level + p.count[a] = Count(sent)
      BY Zenon DEF Sending, Left
    <3>. QED BY <1>1, <2>3, <3>1
  <2>6. Left(q, k + 1, sent, data, off', level')
    BY <2>4, <2>5, Zenon DEF Left
  <2>7. status = "busy" /\ sent \in Sendable /\ Len(data) <= Len(Serialize(sent))
    BY Zenon DEF Sending
  <2>8. UNCHANGED <<data, sent>> /\ exact' = exact
    BY <1>1 DEF callVars
  <2>9. q = Current(e, path) /\ k = Reached(e)
    BY DEF q, k
  <2>. QED BY <1>1, <2>2, <2>3, <2>6, <2>7, <2>8, <2>9, Delivered
<1>. QED BY <1>1, <1>2, <1>3, LoopComes

-----------------------------------------------------------------------------
(* All steps of the decoder together.                                      *)

(***************************************************************************)
(* A step of the decoder that is given what was sent.                      *)
(***************************************************************************)
LEMMA SendingStep ==
  ASSUME DecoderInv, DecoderInv', NEW path, Sending(path), UNCHANGED sent, DecoderStep
  PROVE  Coursing'
<1>1. CASE OpenDict
  <2>1. Open("d", "dict") /\ "dict" \in {"dict", "list"}
    BY <1>1 DEF OpenDict
  <2> DEFINE c == "d"
  <2>2. c = IF "dict" = "dict" THEN "d" ELSE "l"
    OBVIOUS
  <2>. QED BY <2>1, <2>2, OpenCourse
<1>2. CASE OpenList
  <2>1. Open("l", "list") /\ "list" \in {"dict", "list"}
    BY <1>2 DEF OpenList
  <2> DEFINE c == "l"
  <2>2. c = IF "list" = "dict" THEN "d" ELSE "l"
    OBVIOUS
  <2>. QED BY <2>1, <2>2, OpenCourse
<1>3. CASE TooManyValues
  BY <1>3, ManyCourse
<1>4. CASE Truncated
  BY <1>4, TruncatedCourse
<1>5. CASE UnknownType
  BY <1>5, UnknownCourse
<1>6. CASE DecodeBool
  BY <1>6, BoolCourse
<1>7. CASE DecodeInt
  BY <1>7, IntCourse
<1>8. CASE DecodeStr
  BY <1>8, StrCourse
<1>9. CASE EndOfData
  BY <1>9, EndCourse
<1>10. CASE NoRoomForKey
  BY <1>10, NoRoomCourse
<1>11. CASE Close
  BY <1>11, CloseCourse
<1>. QED
  BY <1>1, <1>2, <1>3, <1>4, <1>5, <1>6, <1>7, <1>8, <1>9, <1>10, <1>11, Zenon DEF DecoderStep

LEMMA SentStep ==
  ASSUME DecoderInv, DecoderInv', SentInv, DecoderStep, UNCHANGED sent
  PROVE  SentInv'
<1>1. status = "busy" /\ UNCHANGED callVars
  BY StepIsBusy
<1>2. data' = data /\ status' # "idle"
  BY <1>1, StepStarted DEF callVars
<1>3. ASSUME sent # None PROVE sent \in Sendable /\ Len(data) <= Len(Serialize(sent))
  BY <1>3 DEF SentInv
<1>4. ASSUME sent # None, Count(sent) <= MaxLevel PROVE Coursing'
  <2>1. Coursing
    BY <1>4 DEF SentInv
  <2>2. Going(sent, data, off, level, stack)
    BY <1>1, <2>1 DEF Coursing, Course
  <2>3. PICK path : /\ OnPath(sent, stack, path)
                    /\ Left(Current(stack, path), Reached(stack), sent, data, off, level)
    BY <2>2 DEF Going
  <2>4. Sending(path)
    BY <1>1, <1>3, <1>4, <2>3, Zenon DEF Sending
  <2>. QED BY <2>4, SendingStep
<1>5. sent' # None => /\ sent' \in Sendable /\ status' # "idle"
                      /\ Len(data') <= Len(Serialize(sent'))
                      /\ Count(sent') <= MaxLevel => Coursing'
  BY <1>2, <1>3, <1>4
<1>. QED BY <1>5, Zenon DEF SentInv

LEMMA SentKept ==
  ASSUME SentInv, UNCHANGED <<decoderVars, sent>>
  PROVE  SentInv'
<1>1. UNCHANGED <<data, off, level, stack, status, error, value, sent>>
  BY DEF decoderVars, callVars, ctxVars
<1>2. Coursing' <=> Coursing
  <2>1. Coursing' <=> Course(sent, data, off, level, stack, status, error, value)
    BY <1>1, Zenon DEF Coursing
  <2>. QED BY <2>1, Zenon DEF Coursing
<1>. QED BY <1>1, <1>2, Zenon DEF SentInv

LEMMA SentNone == ASSUME sent' = None PROVE SentInv'
  BY DEF SentInv

-----------------------------------------------------------------------------
(* The composition: what a caller builds can be sent, and is sent whole or *)
(* in part.                                                                *)

LEMMA BuiltSendable ==
  ASSUME ContainersInv
  PROVE  BuiltDict \in Sendable /\ BuiltList \in Sendable
<1>1. Inner \in Nat /\ Inner + 1 = MaxDepth
  BY InnerIs
<1>2. Payload \in [Objects -> Holdable[Inner]]
  BY HoldableAssumption DEF Inner
<1>3. ASSUME NEW os \in Seq(Objects)
      PROVE  /\ [i \in DOMAIN os |-> Payload[os[i]]] \in Seq(Holdable[Inner])
             /\ Len([i \in DOMAIN os |-> Payload[os[i]]]) = Len(os)
  <2> DEFINE k == Len(os)
             vs == [i \in DOMAIN os |-> Payload[os[i]]]
  <2>1. k \in Nat /\ DOMAIN os = 1..k
    OBVIOUS
  <2>2. \A i \in 1..k : os[i] \in Objects
    BY ElementOfSeq
  <2> HIDE DEF k
  <2>3. vs \in [1..k -> Holdable[Inner]]
    BY <1>2, <2>1, <2>2
  <2> HIDE DEF vs
  <2>4. vs \in Seq(Holdable[Inner]) /\ Len(vs) = k
    BY <2>1, <2>3, FunctionIsSeq
  <2>. QED BY <2>4 DEF vs, k
<1>4. /\ keys \in Seq(Keys) /\ values \in Seq(Objects) /\ items \in Seq(Objects)
      /\ Len(keys) = Len(values) /\ Distinct(keys)
  BY DEF ContainersInv, DictInv, ListInv, Paired
<1>5. keys \in Seq(HeldKeys)
  <2>1. Keys \subseteq HeldKeys
    BY ContainersAssumption, HoldableAssumption DEF HeldKeys
  <2>. QED BY <1>4, <2>1, SeqMonotonic
<1>6. \A i, j \in 1..Len(keys) : keys[i] = keys[j] => i = j
  <2>1. DOMAIN keys = 1..Len(keys)
    BY <1>4
  <2>. QED BY <1>4, <2>1 DEF Distinct
<1>7. BuiltDict \in Holdable[Inner + 1]
  BY <1>1, <1>3, <1>4, <1>5, <1>6, DictHeld DEF BuiltDict
<1>8. BuiltList \in Holdable[Inner + 1]
  BY <1>1, <1>3, <1>4, ListHeld DEF BuiltList
<1>. QED BY <1>1, <1>7, <1>8 DEF Sendable

(* What there is to take at the outset. *)
Root(b) ==
  [type |-> "root", parts |-> <<b>>, size |-> 1,
   text  |-> [k \in 0..1 |-> IF k = 0 THEN Serialize(b) ELSE <<>>],
   count |-> [k \in 0..1 |-> IF k = 0 THEN Count(b) ELSE 0]]

LEMMA RootIs ==
  ASSUME NEW b \in Sendable
  PROVE  IsRoot(Root(b), b) /\ Root(b).text[0] = Serialize(b) /\ Root(b).count[0] = Count(b)
<1> DEFINE p == Root(b)
           s == Serialize(b)
           c == Count(b)
<1>1. s \in Seq(Octet) /\ c \in Nat /\ <<>> \in Seq(Octet)
  BY SendableText
<1>2. p.type = "root" /\ p.parts = <<b>> /\ p.size = 1
  BY DEF Root
<1>3. /\ p.text = [k \in 0..1 |-> IF k = 0 THEN s ELSE <<>>]
      /\ p.count = [k \in 0..1 |-> IF k = 0 THEN c ELSE 0]
  BY DEF Root
<1>4. s \o <<>> = s
  <2> HIDE DEF s
  <2>. QED BY <1>1, EmptyLeft
<1> HIDE DEF p
<1>5. /\ p.text[0] = s /\ p.text[1] = <<>> /\ p.count[0] = c /\ p.count[1] = 0
      /\ p.text \in [0..1 -> Seq(Octet)] /\ p.count \in [0..1 -> Nat]
  <2> HIDE DEF s, c
  <2>. QED BY <1>1, <1>3
<1>6. Len(p.parts) = 1 /\ p.parts \in Seq(Sendable) /\ p.parts[1] = b
  BY <1>2
<1>7. \A k \in 1..Len(p.parts) : /\ p.text[k - 1] = Serialize(p.parts[k]) \o p.text[k]
                                /\ p.count[k - 1] = Count(p.parts[k]) + p.count[k]
  <2>1. ASSUME NEW k \in 1..1 PROVE k = 1 /\ k - 1 = 0
    OBVIOUS
  <2>2. c + 0 = c
    <3> HIDE DEF c
    <3>. QED BY <1>1
  <2> HIDE DEF s, c
  <2>. QED BY <1>4, <1>5, <1>6, <2>1, <2>2 DEF s, c
<1> HIDE DEF s, c
<1>8. IsPlan(p)
  <2>1. p.type \in {"root", "list", "dict"} /\ p.type # "dict" /\ p.size \in Nat
        /\ Len(p.parts) = p.size
    BY <1>2, <1>6
  <2>2. /\ p.text \in [0..Len(p.parts) -> Seq(Octet)]
        /\ p.count \in [0..Len(p.parts) -> Nat]
    BY <1>5, <1>6, Zenon
  <2>. QED BY <1>6, <1>7, <2>1, <2>2, Zenon DEF IsPlan
<1>. QED BY <1>2, <1>5, <1>8 DEF IsRoot, p, s, c

LEMMA Begun ==
  ASSUME NEW b \in Sendable, NEW d \in Seq(Octet), \A i \in 1..Len(d) : d[i] = Serialize(b)[i]
  PROVE  Going(b, d, 0, 0, <<>>)
<1> DEFINE path == [i \in {0} |-> Root(b)]
           s == Serialize(b)
<1>1. IsRoot(path[0], b) /\ path[0].text[0] = s /\ path[0].count[0] = Count(b)
  BY RootIs
<1>2. s \in Seq(Octet) /\ Count(b) \in Nat
  BY SendableText
<1> HIDE DEF path
<1>3. OnPath(b, <<>>, path)
  BY <1>1 DEF OnPath
<1>4. Current(<<>>, path) = path[0] /\ Reached(<<>>) = 0
  BY DEF Current, Reached, At
<1>5. Left(path[0], 0, b, d, 0, 0)
  <2>1. 0 + Len(s) = Len(s) /\ 0 + Count(b) = Count(b)
    BY <1>2
  <2>2. Reads(d, 0, s)
    <3>1. ASSUME NEW i \in 1..Len(s), 0 + i <= Len(d) PROVE d[0 + i] = s[i]
      <4>1. 0 + i = i
        OBVIOUS
      <4>2. i \in Nat /\ i >= 1
        OBVIOUS
      <4>3. i \in 1..Len(d)
        BY <3>1, <4>1, <4>2
      <4>. QED BY <4>1, <4>3
    <3>. QED BY <3>1 DEF Reads
  <2>. QED BY <1>1, <2>1, <2>2 DEF Left
<1>. QED BY <1>3, <1>4, <1>5, Zenon DEF Going

LEMMA SentBegins ==
  ASSUME DecoderInv, NEW b \in Sendable, NEW n \in 0..EncodedSize(b), EncodeDecode(b, n)
  PROVE  SentInv'
<1> DEFINE s == Serialize(b)
<1>1. s \in Seq(Octet) /\ n \in Nat /\ n <= Len(s) /\ Len(s) \in Nat
  <2>1. s \in Seq(Octet) /\ Len(s) = EncodedSize(b)
    BY SendableIs, SerializeLen
  <2> HIDE DEF s
  <2>2. Len(s) \in Nat
    BY <2>1
  <2>. QED BY <2>1, <2>2
<1>2. /\ status = "idle" => off = 0 /\ level = 0 /\ stack = <<>>
  BY Zenon DEF DecoderInv
<1>3. sent' = b
  BY DEF EncodeDecode
<1>4. ASSUME NEW d \in Seq(Octet), Len(d) <= Len(s), \A i \in 1..Len(d) : d[i] = s[i],
             BenDecode2(d, 0) \/ BenDecode(d)
      PROVE  SentInv'
  <2>1. data' = d /\ status' = "busy" /\ off' = 0 /\ level' = 0 /\ stack' = <<>>
    BY <1>2, <1>4 DEF BenDecode2, BenDecode, ctxVars
  <2>2. Going(b, d, 0, 0, <<>>)
    BY <1>4, Begun
  <2>3. Course(b, d, 0, 0, <<>>, "busy", error', value')
    BY <2>2, Zenon DEF Course
  <2>4. Coursing'
    BY <1>3, <2>1, <2>3, Zenon DEF Coursing
  <2>5. sent' \in Sendable /\ status' # "idle" /\ Len(data') <= Len(Serialize(sent'))
    <3>1. status' # "idle"
      BY <2>1
    <3>. QED BY <1>3, <1>4, <2>1, <3>1, Zenon
  <2>. QED BY <2>4, <2>5, Zenon DEF SentInv
<1> HIDE DEF s
<1>5. CASE BenDecode(s)
  BY <1>1, <1>4, <1>5
<1>6. CASE BenDecode2(SubSeq(s, 1, n), 0)
  <2> DEFINE d == SubSeq(s, 1, n)
  <2>1. d \in Seq(Octet) /\ Len(d) = n /\ \A i \in 1..n : d[i] = s[i]
    BY <1>1
  <2> HIDE DEF d
  <2>. QED BY <1>1, <1>4, <1>6, <2>1 DEF d
<1>. QED BY <1>5, <1>6 DEF EncodeDecode, s

LEMMA SentInit == Init => SentInv
  BY DEF Init, SentInv

(* Nothing else is sent, and nothing is decoded behind it.                 *)
LEMMA SentNext == CodecInv /\ SentInv /\ [Next]_vars => SentInv'
<1> SUFFICES ASSUME CodecInv, SentInv, [Next]_vars PROVE SentInv'
  OBVIOUS
<1>1. DecoderInv /\ ContainersInv /\ StartInv /\ DecoderInv'
  <2>1. CodecInv'
    BY CodecInvNext
  <2>. QED BY <2>1 DEF CodecInv
<1>2. BuiltDict \in Sendable /\ BuiltList \in Sendable
  BY <1>1, BuiltSendable
<1>3. status = "idle" => sent = None
  BY DEF SentInv
<1>4. CASE Edit
  <2>1. UNCHANGED <<decoderVars, sent>>
    BY <1>4 DEF Edit
  <2>. QED BY <2>1, SentKept
<1>5. CASE \E n \in 0..EncodedSize(BuiltDict) : EncodeDecode(BuiltDict, n)
  BY <1>1, <1>2, <1>5, SentBegins
<1>6. CASE \E n \in 0..EncodedSize(BuiltList) : EncodeDecode(BuiltList, n)
  BY <1>1, <1>2, <1>6, SentBegins
<1>7. CASE \E d \in Inputs : DecodeForeign(d)
  <2>1. status = "idle" /\ sent' = sent
    BY <1>7 DEF DecodeForeign, BenDecode, BenDecode2
  <2>. QED BY <1>3, <2>1, SentNone
<1>8. CASE Step
  <2>1. DecoderStep /\ UNCHANGED sent
    BY <1>8 DEF Step
  <2>. QED BY <1>1, <2>1, SentStep
<1>9. CASE Continue
  <2>1. sent' = None
    BY <1>9 DEF Continue
  <2>. QED BY <2>1, SentNone
<1>10. CASE Start
  <2>1. sent' = sent
    BY <1>10 DEF Start
  <2>2. UNCHANGED decoderVars \/ \E d : BenDecode(d)
    <3>1. CASE (\E f \in Files : OpenFile(f)) \/ ReadOctet \/ ParseTorrentFile
      BY <3>1 DEF OpenFile, ReadOctet, ParseTorrentFile
    <3>2. CASE EndRead
      BY <1>1, <3>2, EndReadKeeps
    <3>. QED BY <1>10, <3>1, <3>2 DEF Start, StartupStep
  <2>3. CASE UNCHANGED decoderVars
    <3>1. UNCHANGED <<decoderVars, sent>>
      BY <2>1, <2>3
    <3>. QED BY <3>1, SentKept
  <2>4. CASE \E d : BenDecode(d)
    <3>1. status = "idle"
      BY <2>4 DEF BenDecode
    <3>. QED BY <1>3, <2>1, <3>1, SentNone
  <2>. QED BY <2>2, <2>3, <2>4
<1>11. CASE UNCHANGED vars
  <2>1. UNCHANGED <<decoderVars, sent>>
    BY <1>11 DEF vars
  <2>. QED BY <2>1, SentKept
<1>. QED
  BY <1>4, <1>5, <1>6, <1>7, <1>8, <1>9, <1>10, <1>11, Zenon DEF Next

-----------------------------------------------------------------------------
(***************************************************************************)
(* What ben_encode writes of a value that a caller can hold, ben_decode    *)
(* and ben_decode2 take for that value and no other: as long as it has at  *)
(* most MaxLevel values and memory does not run out, the whole text        *)
(* decodes to the value with its entries in the order of their keys, and a *)
(* text that breaks off, wherever that is, is BEN_INSUFFICIENT and never   *)
(* taken for a value or for invalid data.                                  *)
(***************************************************************************)
THEOREM CodecRoundTrip == Spec => []RoundTrip
<1>1. Init => CodecInv /\ SentInv
  BY CodecInvInit, SentInit
<1>2. (CodecInv /\ SentInv) /\ [Next]_vars => (CodecInv /\ SentInv)'
  BY CodecInvNext, SentNext
<1>3. CodecInv /\ SentInv => RoundTrip
  BY SentIsRoundTrip DEF CodecInv
<1>. QED BY <1>1, <1>2, <1>3, PTL DEF Spec

=============================================================================
