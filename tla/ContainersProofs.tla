-------------------------- MODULE ContainersProofs ---------------------------
(***************************************************************************)
(* For every set of keys and of objects and whatever allocations fail, the *)
(* dictionary is a map and the list a sequence, and each owns what it      *)
(* holds once.  The entries of the dictionary are looked at as a set of    *)
(* pairs: what ben_dict_pop does to their order is then of no matter.      *)
(***************************************************************************)
EXTENDS Containers, TLAPS, SequenceTheorems

(* The lemmas on the naturals; nothing is defined by this recursion. *)
LOCAL INSTANCE Recursion WITH Base <- 0, Step <- LAMBDA n, x : x

(* A nonempty set of naturals has a least element, which Min is. *)
LEMMA MinIsLeast ==
  ASSUME NEW S, S \subseteq Nat, S # {}
  PROVE  Min(S) \in S /\ \A k \in S : Min(S) <= k
<1>1. PICK m \in S : \A k \in S : m <= k
  BY NatMinimum
<1>. QED BY <1>1 DEF Min

LEMMA SignOfDifference ==
  \A m, n \in Int : Sign(m - n) = 0 <=> m = n
  BY DEF Sign

(* Two strings compare equal only if they are. *)
LEMMA StrCmpEqual ==
  ASSUME NEW s \in Seq(Octet), NEW t \in Seq(Octet)
  PROVE  StrCmp(s, t) = 0 <=> s = t
<1> DEFINE D == Differences(s, t)
           i == CHOOSE k \in D : \A j \in D : k <= j
<1>1. Len(s) \in Nat /\ Len(t) \in Nat /\ DOMAIN s = 1..Len(s) /\ DOMAIN t = 1..Len(t)
  OBVIOUS
<1>2. CASE D = {}
  <2>1. StrCmp(s, t) = Sign(Len(s) - Len(t))
    BY <1>2 DEF StrCmp
  <2>2. StrCmp(s, t) = 0 <=> Len(s) = Len(t)
    <3> DEFINE m == Len(s)
               n == Len(t)
    <3>0. m \in Int /\ n \in Int
      BY <1>1
    <3> HIDE DEF m, n
    <3>1. Sign(m - n) = 0 <=> m = n
      BY <3>0, SignOfDifference
    <3> USE DEF m, n
    <3>. QED BY <2>1, <3>1
  <2>3. Len(s) = Len(t) => s = t
    <3>1. SUFFICES ASSUME Len(s) = Len(t) PROVE \A k \in 1..Len(s) : s[k] = t[k]
      BY SeqEqual
    <3>. QED BY <1>1, <1>2, <3>1 DEF Differences
  <2>. QED BY <2>2, <2>3
<1>3. CASE D # {}
  <2>1. D \subseteq Nat
    BY <1>1 DEF Differences
  <2>2. i \in D
    <3>1. \E k \in D : \A j \in D : k <= j
      BY <1>3, <2>1, NatMinimum
    <3>. QED BY <3>1
  <2>3. i \in DOMAIN s /\ i \in DOMAIN t /\ s[i] # t[i] /\ s[i] \in Octet /\ t[i] \in Octet
    BY <1>1, <2>2 DEF Differences
  <2>4. StrCmp(s, t) = Sign(Code[s[i]] - Code[t[i]])
    BY <1>3 DEF StrCmp
  <2> HIDE DEF i
  <2>5. Code[s[i]] \in Nat /\ Code[t[i]] \in Nat /\ Code[s[i]] # Code[t[i]]
    BY <2>3, BencodeAssumption
  <2>6. StrCmp(s, t) # 0
    BY <2>4, <2>5, SignOfDifference
  <2>. QED BY <2>3, <2>6
<1>. QED BY <1>2, <1>3

(***************************************************************************)
(* ben_cmp finds two keys equal only if they are one and the same.         *)
(***************************************************************************)
LEMMA CmpEqual ==
  ASSUME NEW a \in AllKeys, NEW b \in AllKeys
  PROVE  Cmp(a, b) = 0 <=> a = b
<1>1. CASE a.type # b.type
  <2>1. Cmp(a, b) = IF a.type = "int" THEN -1 ELSE 1
    BY <1>1 DEF Cmp
  <2>. QED BY <1>1, <2>1
<1>2. CASE a \in IntKeys /\ b \in IntKeys
  <2>1. Cmp(a, b) = Sign(a.ll - b.ll) /\ a.ll \in Int /\ b.ll \in Int
    BY <1>2 DEF Cmp, IntKeys
  <2>2. Cmp(a, b) = 0 <=> a.ll = b.ll
    BY <2>1, SignOfDifference
  <2>. QED BY <1>2, <2>2 DEF IntKeys
<1>3. CASE a \in StrKeys /\ b \in StrKeys
  <2>1. Cmp(a, b) = StrCmp(a.s, b.s) /\ a.s \in Seq(Octet) /\ b.s \in Seq(Octet)
    BY <1>3 DEF Cmp, StrKeys
  <2>2. Cmp(a, b) = 0 <=> a.s = b.s
    BY <2>1, StrCmpEqual
  <2>. QED BY <1>3, <2>2 DEF StrKeys
<1>. QED BY <1>1, <1>2, <1>3 DEF AllKeys, IntKeys, StrKeys

(* The tests of ben_dict_get_by_str let no key pass but the string: one    *)
(* with a zero octet is shorter to strcmp than its length says.            *)
LEMMA SameStrIs ==
  ASSUME NEW key \in AllKeys, NEW s \in Seq(Octet)
  PROVE  /\ SameStr(key, s) => key = BenStr(s)
         /\ key = BenStr(s) /\ (\A i \in DOMAIN s : s[i] # "NUL") => SameStr(key, s)
<1>1. ASSUME SameStr(key, s) PROVE key = BenStr(s)
  <2>1. key.type = "str" /\ Len(key.s) = Len(s)
    BY <1>1 DEF SameStr
  <2>2. key = [type |-> "str", s |-> key.s] /\ key.s \in Seq(Octet)
    BY <2>1 DEF AllKeys, IntKeys, StrKeys
  <2> DEFINE t == key.s
             zeros == {i \in DOMAIN t : t[i] = "NUL"}
  <2>3. IF zeros = {} THEN t = s ELSE SubSeq(t, 1, Min(zeros) - 1) = s
    BY <1>1 DEF SameStr
  <2>4. zeros \subseteq Nat /\ \A i \in zeros : i \in 1..Len(t)
    BY <2>2
  <2>5. t \in Seq(Octet) /\ Len(t) = Len(s)
    BY <2>1, <2>2
  <2> HIDE DEF t
  <2>6. ASSUME zeros # {} PROVE FALSE
    <3> DEFINE m == Min(zeros) - 1
    <3>1. Min(zeros) \in zeros
      BY <2>4, <2>6, MinIsLeast
    <3>2. m \in Nat /\ m < Len(t)
      BY <2>4, <2>5, <3>1
    <3> HIDE DEF m, zeros
    <3>3. \A i \in 1..m : t[i] \in Octet
      BY <2>5, <3>2
    <3>4. Len(SubSeq(t, 1, m)) = IF 1 <= m THEN m - 1 + 1 ELSE 0
      BY <3>2, <3>3, SubSeqProperties
    <3>5. Len(SubSeq(t, 1, m)) = m
      BY <3>2, <3>4
    <3>6. SubSeq(t, 1, m) = s
      BY <2>3, <2>6 DEF m
    <3>. QED BY <2>5, <3>2, <3>5, <3>6
  <2>7. t = s
    BY <2>3, <2>6
  <2>. QED BY <2>2, <2>7 DEF BenStr, t
<1>2. ASSUME key = BenStr(s), \A i \in DOMAIN s : s[i] # "NUL" PROVE SameStr(key, s)
  <2>1. key.type = "str" /\ key.s = s
    BY <1>2 DEF BenStr
  <2>2. {i \in DOMAIN s : s[i] = "NUL"} = {}
    BY <1>2
  <2>. QED BY <2>1, <2>2 DEF SameStr
<1>. QED BY <1>1, <1>2

-----------------------------------------------------------------------------
(* The two arrays of a dictionary, and the set of entries they make.       *)

Distinct(a) == \A i, j \in DOMAIN a : a[i] = a[j] => i = j

Paired(ks, vs) ==
  /\ ks \in Seq(Keys) /\ vs \in Seq(Objects) /\ Len(ks) = Len(vs)
  /\ Distinct(ks) /\ Distinct(vs)

Entries(ks, vs) == {<<ks[i], vs[i]>> : i \in DOMAIN ks}

(* What replacewithlast makes of an array: the last element is in the      *)
(* place of the one that is gone.                                          *)
LEMMA Replaced ==
  ASSUME NEW S, NEW a \in Seq(S), NEW i \in DOMAIN a
  PROVE  /\ ReplaceWithLast(a, i) \in Seq(S)
         /\ Len(ReplaceWithLast(a, i)) = Len(a) - 1
         /\ \A j \in 1..(Len(a) - 1) :
              ReplaceWithLast(a, i)[j] = IF j = i THEN a[Len(a)] ELSE a[j]
<1>1. Len(a) \in Nat /\ DOMAIN a = 1..Len(a) /\ i \in 1..Len(a) /\ a[Len(a)] \in S
  OBVIOUS
<1> DEFINE e == [a EXCEPT ![i] = a[Len(a)]]
<1>2. /\ e \in Seq(S) /\ Len(e) = Len(a)
      /\ \A j \in 1..Len(a) : e[j] = IF j = i THEN a[Len(a)] ELSE a[j]
  BY <1>1, ExceptSeq
<1>3. ReplaceWithLast(a, i) = SubSeq(e, 1, Len(a) - 1)
  BY DEF ReplaceWithLast, Last
<1> HIDE DEF e
<1>4. \A j \in 1..(Len(a) - 1) : e[j] \in S
  BY <1>1, <1>2
<1>5. /\ SubSeq(e, 1, Len(a) - 1) \in Seq(S)
      /\ Len(SubSeq(e, 1, Len(a) - 1)) = IF 1 <= Len(a) - 1 THEN (Len(a) - 1) - 1 + 1 ELSE 0
      /\ \A j \in 1..((Len(a) - 1) - 1 + 1) :
           SubSeq(e, 1, Len(a) - 1)[j] = e[1 + j - 1]
  BY <1>1, <1>4, SubSeqProperties
<1>6. Len(SubSeq(e, 1, Len(a) - 1)) = Len(a) - 1
  BY <1>1, <1>5
<1>7. \A j \in 1..(Len(a) - 1) : SubSeq(e, 1, Len(a) - 1)[j] = e[j]
  BY <1>1, <1>5
<1>. QED BY <1>1, <1>2, <1>3, <1>5, <1>6, <1>7

(* Taking an element out of an array leaves the others, each once. *)
LEMMA ReplacedElements ==
  ASSUME NEW S, NEW a \in Seq(S), NEW i \in DOMAIN a, Distinct(a)
  PROVE  /\ Distinct(ReplaceWithLast(a, i))
         /\ \A j \in DOMAIN ReplaceWithLast(a, i) : ReplaceWithLast(a, i)[j] # a[i]
<1> DEFINE r == ReplaceWithLast(a, i)
<1>1. Len(a) \in Nat /\ DOMAIN a = 1..Len(a) /\ i \in 1..Len(a)
  OBVIOUS
<1>2. /\ r \in Seq(S) /\ Len(r) = Len(a) - 1
      /\ \A j \in 1..(Len(a) - 1) : r[j] = IF j = i THEN a[Len(a)] ELSE a[j]
  BY Replaced
<1>3. DOMAIN r = 1..(Len(a) - 1)
  BY <1>2
<1> HIDE DEF r
<1>4. ASSUME NEW j \in DOMAIN r
      PROVE  r[j] # a[i]
  BY <1>1, <1>2, <1>3 DEF Distinct
<1>5. ASSUME NEW j \in DOMAIN r, NEW k \in DOMAIN r, r[j] = r[k]
      PROVE  j = k
  BY <1>1, <1>2, <1>3, <1>5 DEF Distinct
<1>. QED BY <1>4, <1>5 DEF Distinct, r

(* The entry at a position is taken out of both arrays. *)
LEMMA RemoveEntry ==
  ASSUME NEW ks, NEW vs, Paired(ks, vs), NEW i \in DOMAIN ks
  PROVE  /\ Paired(ReplaceWithLast(ks, i), ReplaceWithLast(vs, i))
         /\ Len(ReplaceWithLast(ks, i)) = Len(ks) - 1
         /\ Entries(ReplaceWithLast(ks, i), ReplaceWithLast(vs, i))
              = Entries(ks, vs) \ {<<ks[i], vs[i]>>}
<1> DEFINE rk == ReplaceWithLast(ks, i)
           rv == ReplaceWithLast(vs, i)
           n  == Len(ks)
<1>1. /\ ks \in Seq(Keys) /\ vs \in Seq(Objects) /\ Distinct(ks) /\ Distinct(vs)
      /\ n \in Nat /\ Len(vs) = n /\ DOMAIN ks = 1..n /\ DOMAIN vs = 1..n
      /\ i \in DOMAIN vs
  BY DEF Paired
<1>2. /\ rk \in Seq(Keys) /\ Len(rk) = n - 1 /\ Distinct(rk)
      /\ \A j \in 1..(n - 1) : rk[j] = IF j = i THEN ks[n] ELSE ks[j]
      /\ \A j \in DOMAIN rk : rk[j] # ks[i]
  <2>1. /\ rk \in Seq(Keys) /\ Len(rk) = Len(ks) - 1
        /\ \A j \in 1..(Len(ks) - 1) : rk[j] = IF j = i THEN ks[Len(ks)] ELSE ks[j]
    BY <1>1, Replaced
  <2>2. Distinct(rk) /\ \A j \in DOMAIN rk : rk[j] # ks[i]
    BY <1>1, ReplacedElements
  <2>. QED BY <2>1, <2>2
<1>3. /\ rv \in Seq(Objects) /\ Len(rv) = n - 1 /\ Distinct(rv)
      /\ \A j \in 1..(n - 1) : rv[j] = IF j = i THEN vs[n] ELSE vs[j]
  <2>1. /\ rv \in Seq(Objects) /\ Len(rv) = Len(vs) - 1
        /\ \A j \in 1..(Len(vs) - 1) : rv[j] = IF j = i THEN vs[Len(vs)] ELSE vs[j]
    BY <1>1, Replaced
  <2>2. Distinct(rv)
    BY <1>1, ReplacedElements
  <2>. QED BY <1>1, <2>1, <2>2
<1>4. DOMAIN rk = 1..(n - 1)
  BY <1>2
<1> HIDE DEF rk, rv, n
<1>5. Entries(rk, rv) \subseteq Entries(ks, vs) \ {<<ks[i], vs[i]>>}
  <2>1. SUFFICES ASSUME NEW j \in DOMAIN rk
                 PROVE  <<rk[j], rv[j]>> \in Entries(ks, vs) \ {<<ks[i], vs[i]>>}
    BY DEF Entries
  <2>2. PICK m \in 1..n : rk[j] = ks[m] /\ rv[j] = vs[m]
    BY <1>1, <1>2, <1>3, <1>4
  <2>3. rk[j] # ks[i]
    BY <1>2
  <2>. QED BY <1>1, <2>2, <2>3 DEF Entries
<1>6. Entries(ks, vs) \ {<<ks[i], vs[i]>>} \subseteq Entries(rk, rv)
  <2>1. SUFFICES ASSUME NEW j \in DOMAIN ks, j # i
                 PROVE  <<ks[j], vs[j]>> \in Entries(rk, rv)
    BY DEF Entries
  <2>2. CASE j = n
    <3>1. i \in 1..(n - 1) /\ rk[i] = ks[n] /\ rv[i] = vs[n]
      BY <1>1, <1>2, <1>3, <2>1, <2>2
    <3>. QED BY <1>4, <2>2, <3>1 DEF Entries
  <2>3. CASE j # n
    <3>1. j \in 1..(n - 1) /\ rk[j] = ks[j] /\ rv[j] = vs[j]
      BY <1>1, <1>2, <1>3, <2>1, <2>3
    <3>. QED BY <1>4, <3>1 DEF Entries
  <2>. QED BY <2>2, <2>3
<1>. QED BY <1>1, <1>2, <1>3, <1>5, <1>6 DEF Paired, rk, rv, n

(* A new entry is put behind the others. *)
LEMMA AddEntry ==
  ASSUME NEW ks, NEW vs, Paired(ks, vs), NEW k \in Keys, NEW o \in Objects,
         \A e \in Entries(ks, vs) : e[1] # k /\ e[2] # o
  PROVE  /\ Paired(Append(ks, k), Append(vs, o))
         /\ Len(Append(ks, k)) = Len(ks) + 1
         /\ Entries(Append(ks, k), Append(vs, o)) = Entries(ks, vs) \union {<<k, o>>}
<1> DEFINE ak == Append(ks, k)
           av == Append(vs, o)
           n  == Len(ks)
<1>1. /\ ks \in Seq(Keys) /\ vs \in Seq(Objects) /\ Distinct(ks) /\ Distinct(vs)
      /\ n \in Nat /\ Len(vs) = n /\ DOMAIN ks = 1..n /\ DOMAIN vs = 1..n
  BY DEF Paired
<1>2. /\ ak \in Seq(Keys) /\ Len(ak) = n + 1 /\ DOMAIN ak = 1..(n + 1)
      /\ \A j \in 1..n : ak[j] = ks[j]
      /\ ak[n + 1] = k
  BY <1>1, AppendProperties
<1>3. /\ av \in Seq(Objects) /\ Len(av) = n + 1 /\ DOMAIN av = 1..(n + 1)
      /\ \A j \in 1..n : av[j] = vs[j]
      /\ av[n + 1] = o
  <2>1. /\ av \in Seq(Objects) /\ Len(av) = Len(vs) + 1 /\ DOMAIN av = 1..(Len(vs) + 1)
        /\ \A j \in 1..Len(vs) : av[j] = vs[j]
        /\ av[Len(vs) + 1] = o
    BY <1>1, AppendProperties
  <2>. QED BY <1>1, <2>1
<1>4. \A j \in 1..n : ks[j] # k /\ vs[j] # o
  <2>1. \A j \in 1..n : <<ks[j], vs[j]>> \in Entries(ks, vs)
    BY <1>1 DEF Entries
  <2>2. \A x, y : <<x, y>> \in Entries(ks, vs) => x # k /\ y # o
    OBVIOUS
  <2>. QED BY <2>1, <2>2
<1> HIDE DEF ak, av, n
<1>5. Distinct(ak)
  BY <1>1, <1>2, <1>4 DEF Distinct
<1>6. Distinct(av)
  BY <1>1, <1>3, <1>4 DEF Distinct
<1>7. Entries(ak, av) \subseteq Entries(ks, vs) \union {<<k, o>>}
  <2>1. SUFFICES ASSUME NEW j \in DOMAIN ak
                 PROVE  <<ak[j], av[j]>> \in Entries(ks, vs) \union {<<k, o>>}
    BY DEF Entries
  <2>2. j = n + 1 \/ j \in 1..n
    BY <1>1, <1>2
  <2>. QED BY <1>1, <1>2, <1>3, <2>2 DEF Entries
<1>8. Entries(ks, vs) \union {<<k, o>>} \subseteq Entries(ak, av)
  <2>1. <<k, o>> \in Entries(ak, av)
    <3>1. n + 1 \in DOMAIN ak
      BY <1>1, <1>2
    <3>. QED BY <1>2, <1>3, <3>1 DEF Entries
  <2>2. ASSUME NEW j \in DOMAIN ks
        PROVE  <<ks[j], vs[j]>> \in Entries(ak, av)
    <3>1. j \in DOMAIN ak /\ ak[j] = ks[j] /\ av[j] = vs[j]
      BY <1>1, <1>2, <1>3
    <3>. QED BY <3>1 DEF Entries
  <2>. QED BY <2>1, <2>2 DEF Entries
<1>. QED BY <1>2, <1>3, <1>5, <1>6, <1>7, <1>8 DEF Paired, ak, av, n

-----------------------------------------------------------------------------
(* The dictionary and the list, and what they own. *)

DictInv ==
  /\ Paired(keys, values)
  /\ alloc \in Nat /\ Len(keys) <= alloc
  /\ \A o \in Objects : owner[o] = "dict" <=> \E e \in Entries(keys, values) : e[2] = o

ListInv ==
  /\ items \in Seq(Objects) /\ Distinct(items)
  /\ itemsAlloc \in Nat /\ Len(items) <= itemsAlloc
  /\ \A o \in Objects : owner[o] = "list" <=> \E i \in DOMAIN items : items[i] = o

OwnerInv ==
  /\ owner \in [Objects -> {"caller", "dict", "list", "freed"}]
  /\ broken \subseteq {"dict", "list"}

ContainersInv == DictInv /\ ListInv /\ OwnerInv

(* An entry is a key and an object, and each occurs once. *)
LEMMA EntriesDistinct ==
  ASSUME NEW ks, NEW vs, Paired(ks, vs)
  PROVE  /\ \A e \in Entries(ks, vs) : /\ e = <<e[1], e[2]>>
                                       /\ e[1] \in Keys /\ e[2] \in Objects
         /\ \A e, f \in Entries(ks, vs) : e[1] = f[1] \/ e[2] = f[2] => e = f
<1>1. /\ Len(ks) \in Nat /\ DOMAIN ks = 1..Len(ks) /\ DOMAIN vs = 1..Len(ks)
      /\ \A i \in DOMAIN ks : ks[i] \in Keys /\ vs[i] \in Objects
  BY DEF Paired
<1>2. ASSUME NEW i \in DOMAIN ks, NEW j \in DOMAIN ks, ks[i] = ks[j] \/ vs[i] = vs[j]
      PROVE  i = j
  BY <1>1, <1>2 DEF Paired, Distinct
<1>. QED BY <1>1, <1>2 DEF Entries

(* There is at most one position for a key; ben_dict_get finds its value.  *)
LEMMA WhereKeyIs ==
  ASSUME Paired(keys, values), NEW k \in Keys
  PROVE  \/ /\ Positions(k) = {}
            /\ \A e \in Entries(keys, values) : e[1] # k
         \/ /\ Positions(k) # {} /\ Min(Positions(k)) \in DOMAIN keys
            /\ keys[Min(Positions(k))] = k
            /\ <<k, values[Min(Positions(k))]>> \in Entries(keys, values)
            /\ values[Min(Positions(k))] \in Objects
<1>1. /\ Len(keys) \in Nat /\ DOMAIN keys = 1..Len(keys) /\ DOMAIN values = 1..Len(keys)
      /\ \A i \in DOMAIN keys : keys[i] \in Keys /\ values[i] \in Objects
  BY DEF Paired
<1>2. \A i \in DOMAIN keys : Cmp(keys[i], k) = 0 <=> keys[i] = k
  BY <1>1, CmpEqual, ContainersAssumption
<1>3. Positions(k) = {i \in DOMAIN keys : keys[i] = k}
  BY <1>2 DEF Positions
<1>4. CASE Positions(k) = {}
  <2>1. \A i \in DOMAIN keys : keys[i] # k
    BY <1>3, <1>4
  <2>. QED BY <1>4, <2>1 DEF Entries
<1>5. CASE Positions(k) # {}
  <2>1. Positions(k) \subseteq Nat
    BY <1>1, <1>3
  <2>2. Min(Positions(k)) \in Positions(k)
    BY <1>5, <2>1, MinIsLeast
  <2>. QED BY <1>1, <1>3, <1>5, <2>2 DEF Entries
<1>. QED BY <1>4, <1>5

(* ben_dict_pop takes out the entry of its key, if there is one, and it is *)
(* the value of that entry that it held.                                   *)
LEMMA PopEntry ==
  ASSUME Paired(keys, values), NEW k \in Keys
  PROVE  /\ Paired(Without(keys, k), Without(values, k))
         /\ Len(Without(keys, k)) <= Len(keys)
         /\ Entries(Without(keys, k), Without(values, k))
              = {e \in Entries(keys, values) : e[1] # k}
         /\ Held(k) = {e[2] : e \in {f \in Entries(keys, values) : f[1] = k}}
<1>0. Len(keys) \in Nat
  BY DEF Paired
<1>1. CASE Positions(k) = {}
  <2>1. \A e \in Entries(keys, values) : e[1] # k
    BY <1>1, WhereKeyIs
  <2>2. Without(keys, k) = keys /\ Without(values, k) = values /\ Held(k) = {}
    BY <1>1 DEF Without, Held
  <2>. QED BY <1>0, <2>1, <2>2
<1>2. CASE Positions(k) # {}
  <2> DEFINE i == Min(Positions(k))
  <2>1. i \in DOMAIN keys /\ keys[i] = k /\ <<k, values[i]>> \in Entries(keys, values)
    BY <1>2, WhereKeyIs
  <2>2. /\ Without(keys, k) = ReplaceWithLast(keys, i)
        /\ Without(values, k) = ReplaceWithLast(values, i)
        /\ Held(k) = {values[i]}
    BY <1>2 DEF Without, Held
  <2> HIDE DEF i
  <2>3. /\ Paired(Without(keys, k), Without(values, k))
        /\ Len(Without(keys, k)) = Len(keys) - 1
        /\ Entries(Without(keys, k), Without(values, k))
             = Entries(keys, values) \ {<<k, values[i]>>}
    BY <2>1, <2>2, RemoveEntry
  <2>4. \A e \in Entries(keys, values) : e[1] = k <=> e = <<k, values[i]>>
    BY <2>1, EntriesDistinct
  <2>. QED BY <1>0, <2>1, <2>2, <2>3, <2>4
<1>. QED BY <1>1, <1>2

(* What Give makes of the owners. *)
LEMMA GiveIs ==
  ASSUME OwnerInv, NEW S, NEW to \in {"caller", "dict", "list", "freed"}
  PROVE  /\ Give(S, to) \in [Objects -> {"caller", "dict", "list", "freed"}]
         /\ \A x \in Objects : Give(S, to)[x] = IF x \in S THEN to ELSE owner[x]
  BY DEF Give, OwnerInv

(* What a container holds is of objects. *)
LEMMA HeldObjects ==
  ASSUME DictInv, NEW k \in Keys
  PROVE  \A x \in Held(k) : x \in Objects /\ owner[x] = "dict"
<1>1. Held(k) = {e[2] : e \in {f \in Entries(keys, values) : f[1] = k}}
  BY PopEntry DEF DictInv
<1>2. \A e \in Entries(keys, values) : e[2] \in Objects
  BY EntriesDistinct DEF DictInv
<1>. QED BY <1>1, <1>2 DEF DictInv

(* ben_dict_set keeps the dictionary, and what it owns is what it holds. *)
LEMMA StoreKeeps ==
  ASSUME ContainersInv, NEW k \in Keys, NEW o \in Objects, owner[o] = "caller",
         DictStore(k, o), alloc' = Resized(Len(keys), alloc)
  PROVE  /\ DictInv'
         /\ Entries(keys, values)'
              = {e \in Entries(keys, values) : e[1] # k} \union {<<k, o>>}
         /\ owner' \in [Objects -> {"caller", "dict", "list", "freed"}]
         /\ \A x \in Objects : owner'[x] = IF x = o THEN "dict"
                                           ELSE IF x \in Held(k) THEN "freed"
                                           ELSE owner[x]
<1> DEFINE E == Entries(keys, values)
           F == Entries(Without(keys, k), Without(values, k))
<1>1. /\ Paired(keys, values) /\ alloc \in Nat /\ Len(keys) <= alloc /\ Len(keys) \in Nat
      /\ \A x \in Objects : owner[x] = "dict" <=> \E e \in E : e[2] = x
  BY DEF ContainersInv, DictInv, Paired
<1>2. /\ Paired(Without(keys, k), Without(values, k))
      /\ Len(Without(keys, k)) <= Len(keys) /\ Len(Without(keys, k)) \in Nat
      /\ F = {e \in E : e[1] # k}
      /\ Held(k) = {e[2] : e \in {f \in E : f[1] = k}}
  BY <1>1, PopEntry DEF Paired
<1>3. \A e \in E : e[2] # o
  BY <1>1
<1>4. /\ Paired(keys', values')
      /\ Len(keys') = Len(Without(keys, k)) + 1
      /\ Entries(keys', values') = F \union {<<k, o>>}
  <2>1. \A e \in F : e[1] # k /\ e[2] # o
    BY <1>2, <1>3
  <2>. QED BY <1>2, <2>1, AddEntry DEF DictStore
<1>5. alloc' \in Nat /\ Len(keys') <= alloc'
  <2>1. FirstAlloc \in Nat \ {0}
    BY BencodeAssumption
  <2>2. alloc' \in Nat /\ Len(keys) < alloc'
    <3>1. CASE Len(keys) = alloc
      BY <1>1, <2>1, <3>1 DEF Resized, Grown
    <3>2. CASE Len(keys) # alloc
      BY <1>1, <3>2 DEF Resized
    <3>. QED BY <3>1, <3>2
  <2> DEFINE m == Len(keys)
             n == Len(Without(keys, k))
             a == alloc'
  <2>3. m \in Nat /\ n \in Nat /\ n <= m /\ a \in Nat /\ m < a /\ Len(keys') = n + 1
    BY <1>1, <1>2, <1>4, <2>2
  <2> HIDE DEF m, n, a
  <2>4. Len(keys') <= a
    BY <2>3
  <2>. QED BY <2>2, <2>4 DEF a
<1>6. /\ owner' \in [Objects -> {"caller", "dict", "list", "freed"}]
      /\ \A x \in Objects : owner'[x] = IF x = o THEN "dict"
                                        ELSE IF x \in Held(k) THEN "freed"
                                        ELSE owner[x]
  <2>1. owner' = [Give(Held(k), "freed") EXCEPT ![o] = "dict"]
    BY DEF DictStore
  <2>. QED BY <2>1, GiveIs DEF ContainersInv
<1>7. ASSUME NEW x \in Objects
      PROVE  owner'[x] = "dict" <=> \E e \in Entries(keys', values') : e[2] = x
  <2>1. CASE x = o
    <3>1. <<k, o>> \in Entries(keys', values') /\ <<k, o>>[2] = x
      BY <1>4, <2>1
    <3>. QED BY <1>6, <2>1, <3>1
  <2>2. CASE x # o /\ x \in Held(k)
    <3>1. PICK e \in E : e[1] = k /\ e[2] = x
      BY <1>2, <2>2
    <3>2. \A f \in F : f[2] # x
      BY <1>1, <1>2, <3>1, EntriesDistinct
    <3>. QED BY <1>4, <1>6, <2>2, <3>2
  <2>3. CASE x # o /\ x \notin Held(k)
    <3>1. owner'[x] = owner[x]
      BY <1>6, <2>3
    <3>2. (\E e \in E : e[2] = x) <=> (\E e \in F : e[2] = x)
      BY <1>2, <2>3
    <3>. QED BY <1>1, <1>4, <2>3, <3>1, <3>2
  <2>. QED BY <2>1, <2>2, <2>3
<1>. QED BY <1>2, <1>4, <1>5, <1>6, <1>7 DEF DictInv

(* ben_dict_pop gives the value back to the caller. *)
LEMMA PopKeeps ==
  ASSUME ContainersInv, NEW k \in Keys, DictPop(k)
  PROVE  /\ ContainersInv'
         /\ Entries(keys, values)' = {e \in Entries(keys, values) : e[1] # k}
         /\ \A x \in Objects : owner'[x] = "freed" <=> owner[x] = "freed"
<1> DEFINE E == Entries(keys, values)
           F == Entries(Without(keys, k), Without(values, k))
<1>1. /\ Paired(keys, values) /\ alloc \in Nat /\ Len(keys) <= alloc /\ Len(keys) \in Nat
      /\ \A x \in Objects : owner[x] = "dict" <=> \E e \in E : e[2] = x
  BY DEF ContainersInv, DictInv, Paired
<1>2. /\ Paired(keys', values') /\ Len(keys') <= Len(keys) /\ Len(keys') \in Nat
      /\ Entries(keys', values') = {e \in E : e[1] # k}
      /\ Held(k) = {e[2] : e \in {f \in E : f[1] = k}}
  BY <1>1, PopEntry DEF Paired, DictPop
<1>3. /\ owner' \in [Objects -> {"caller", "dict", "list", "freed"}]
      /\ \A x \in Objects : owner'[x] = IF x \in Held(k) THEN "caller" ELSE owner[x]
  BY GiveIs DEF ContainersInv, DictPop
<1>4. \A x \in Held(k) : x \in Objects /\ owner[x] = "dict"
  BY HeldObjects DEF ContainersInv
<1>5. ASSUME NEW x \in Objects
      PROVE  owner'[x] = "dict" <=> \E e \in Entries(keys', values') : e[2] = x
  <2>1. CASE x \in Held(k)
    <3>1. PICK e \in E : e[1] = k /\ e[2] = x
      BY <1>2, <2>1
    <3>. QED BY <1>1, <1>2, <1>3, <2>1, <3>1, EntriesDistinct
  <2>2. CASE x \notin Held(k)
    BY <1>1, <1>2, <1>3, <2>2
  <2>. QED BY <2>1, <2>2
<1>6. DictInv'
  BY <1>1, <1>2, <1>5 DEF DictInv, DictPop
<1>7. ListInv'
  BY <1>3, <1>4 DEF ContainersInv, ListInv, DictPop, listVars
<1>8. OwnerInv'
  BY <1>3 DEF ContainersInv, OwnerInv, DictPop
<1>9. \A x \in Objects : owner'[x] = "freed" <=> owner[x] = "freed"
  BY <1>3, <1>4
<1>. QED BY <1>2, <1>6, <1>7, <1>8, <1>9 DEF ContainersInv

(***************************************************************************)
(* Every operation of dictionary and list keeps the two, and what they own *)
(* what they hold.                                                         *)
(***************************************************************************)
LEMMA InvInit == ContainersInit => ContainersInv
<1> SUFFICES ASSUME ContainersInit PROVE ContainersInv
  OBVIOUS
<1> USE DEF ContainersInit
<1>1. Paired(keys, values) /\ Entries(keys, values) = {}
  BY DEF Paired, Entries, Distinct
<1>2. DictInv
  BY <1>1 DEF DictInv
<1>3. ListInv
  BY DEF ListInv, Distinct
<1>4. OwnerInv
  BY DEF OwnerInv
<1>. QED BY <1>2, <1>3, <1>4 DEF ContainersInv

(* An object of the caller that is freed was in neither container. *)
LEMMA DiscardKeeps ==
  ASSUME ContainersInv, NEW o \in Objects, owner[o] = "caller",
         owner' = Give({o}, "freed"), UNCHANGED <<keys, values, items, itemsAlloc>>,
         alloc' \in Nat, Len(keys) <= alloc', broken' \subseteq {"dict", "list"}
  PROVE  /\ ContainersInv'
         /\ \A x \in Objects : owner'[x] = "freed" <=> owner[x] = "freed" \/ x = o
<1>1. /\ owner' \in [Objects -> {"caller", "dict", "list", "freed"}]
      /\ \A x \in Objects : owner'[x] = IF x = o THEN "freed" ELSE owner[x]
  BY GiveIs DEF ContainersInv
<1>2. \A x \in Objects : /\ owner'[x] = "dict" <=> owner[x] = "dict"
                         /\ owner'[x] = "list" <=> owner[x] = "list"
                         /\ owner'[x] = "freed" <=> owner[x] = "freed" \/ x = o
  BY <1>1
<1>3. DictInv'
  BY <1>2 DEF ContainersInv, DictInv
<1>4. ListInv'
  <2>1. \A x \in Objects : owner'[x] = "list" <=> \E i \in DOMAIN items : items[i] = x
    BY <1>2 DEF ContainersInv, ListInv
  <2>. QED BY <2>1 DEF ContainersInv, ListInv
<1>5. OwnerInv'
  BY <1>1 DEF OwnerInv
<1>. QED BY <1>2, <1>3, <1>4, <1>5 DEF ContainersInv

(* A size that has been grown is still one, and large enough. *)
LEMMA GrownKeeps ==
  ASSUME NEW size \in Nat, NEW n \in Nat, n <= size
  PROVE  /\ Grown(size) \in Nat /\ n <= Grown(size)
         /\ Resized(n, size) \in Nat /\ n + 1 <= Resized(n, size)
<1>1. FirstAlloc \in Nat \ {0}
  BY BencodeAssumption
<1>. QED BY <1>1 DEF Grown, Resized

(* ben_dict_set, whether it finds memory or not. *)
LEMMA SetKeeps ==
  ASSUME ContainersInv, NEW k \in Keys, NEW o \in Objects, owner[o] = "caller",
         DictStore(k, o), alloc' = Resized(Len(keys), alloc), UNCHANGED <<listVars, broken>>
  PROVE  /\ ContainersInv'
         /\ \A x \in Objects : owner'[x] = "freed" <=> owner[x] = "freed" \/ x \in Held(k)
<1>1. /\ DictInv'
      /\ owner' \in [Objects -> {"caller", "dict", "list", "freed"}]
      /\ \A x \in Objects : owner'[x] = IF x = o THEN "dict"
                                        ELSE IF x \in Held(k) THEN "freed"
                                        ELSE owner[x]
  BY StoreKeeps
<1>2. \A x \in Held(k) : x \in Objects /\ owner[x] = "dict"
  BY HeldObjects DEF ContainersInv
<1>3. \A x \in Objects : /\ owner'[x] = "list" <=> owner[x] = "list"
                         /\ owner'[x] = "freed" <=> owner[x] = "freed" \/ x \in Held(k)
  BY <1>1, <1>2
<1>4. ListInv'
  BY <1>3 DEF ContainersInv, ListInv, listVars
<1>5. OwnerInv'
  BY <1>1 DEF ContainersInv, OwnerInv
<1>. QED BY <1>1, <1>3, <1>4, <1>5 DEF ContainersInv

LEMMA ResizeFailsKeeps ==
  ASSUME ContainersInv, DictResizeFails, UNCHANGED owner
  PROVE  ContainersInv'
<1>1. Len(keys) \in Nat
  BY DEF ContainersInv, DictInv, Paired
<1>2. alloc' \in Nat /\ Len(keys) <= alloc'
  BY <1>1, GrownKeeps DEF ContainersInv, DictInv, DictResizeFails
<1>3. DictInv'
  BY <1>2 DEF ContainersInv, DictInv, DictResizeFails
<1>4. ListInv'
  BY DEF ContainersInv, ListInv, DictResizeFails, listVars
<1>5. OwnerInv'
  BY DEF ContainersInv, OwnerInv, DictResizeFails
<1>. QED BY <1>3, <1>4, <1>5 DEF ContainersInv

(* ben_dict_set_str_by_str frees the value it made when something fails.   *)
LEMMA SetStrFailsKeeps ==
  ASSUME ContainersInv, NEW o \in Objects, owner[o] = "caller",
         owner' = Give({o}, "freed"),
         DictResizeFails \/ UNCHANGED <<dictVars, listVars, broken>>
  PROVE  /\ ContainersInv'
         /\ \A x \in Objects : owner'[x] = "freed" <=> owner[x] = "freed" \/ x = o
<1>1. Len(keys) \in Nat
  BY DEF ContainersInv, DictInv, Paired
<1>2. /\ alloc' \in Nat /\ Len(keys) <= alloc'
      /\ broken' \subseteq {"dict", "list"}
      /\ UNCHANGED <<keys, values, items, itemsAlloc>>
  <2>1. CASE DictResizeFails
    <3>1. alloc' \in Nat /\ Len(keys) <= alloc'
      BY <1>1, <2>1, GrownKeeps DEF ContainersInv, DictInv, DictResizeFails
    <3>. QED BY <2>1, <3>1 DEF ContainersInv, OwnerInv, DictResizeFails, listVars
  <2>2. CASE UNCHANGED <<dictVars, listVars, broken>>
    BY <2>2 DEF ContainersInv, DictInv, OwnerInv, dictVars, listVars
  <2>. QED BY <2>1, <2>2
<1>. QED BY <1>2, DiscardKeeps

LEMMA FreeDictKeeps ==
  ASSUME ContainersInv, FreeDict
  PROVE  /\ ContainersInv'
         /\ Entries(keys, values)' = {}
         /\ \A x \in Objects : owner'[x] = "freed"
              <=> owner[x] = "freed" \/ \E e \in Entries(keys, values) : e[2] = x
<1>1. keys' = <<>> /\ values' = <<>> /\ alloc' = 0
  BY DEF FreeDict
<1>2. Paired(keys', values') /\ Entries(keys', values') = {}
  BY <1>1 DEF Paired, Entries, Distinct
<1>3. {values[i] : i \in DOMAIN values} = {e[2] : e \in Entries(keys, values)}
  <2>1. DOMAIN keys = DOMAIN values
    BY DEF ContainersInv, DictInv, Paired
  <2>2. ASSUME NEW x
        PROVE  (\E i \in DOMAIN values : values[i] = x)
                 <=> \E e \in Entries(keys, values) : e[2] = x
    <3>1. ASSUME NEW i \in DOMAIN values, values[i] = x
          PROVE  \E e \in Entries(keys, values) : e[2] = x
      <4>1. <<keys[i], x>> \in Entries(keys, values) /\ <<keys[i], x>>[2] = x
        BY <2>1, <3>1 DEF Entries
      <4>. QED BY <4>1
    <3>2. ASSUME NEW e \in Entries(keys, values), e[2] = x
          PROVE  \E i \in DOMAIN values : values[i] = x
      <4>1. PICK i \in DOMAIN keys : e = <<keys[i], values[i]>>
        BY DEF Entries
      <4>. QED BY <2>1, <3>2, <4>1
    <3>. QED BY <3>1, <3>2
  <2>. QED BY <2>2
<1>4. /\ owner' \in [Objects -> {"caller", "dict", "list", "freed"}]
      /\ \A x \in Objects : owner'[x] = IF \E e \in Entries(keys, values) : e[2] = x
                                        THEN "freed" ELSE owner[x]
  <2> DEFINE S == {values[i] : i \in DOMAIN values}
  <2>1. \A x \in Objects : x \in S <=> \E e \in Entries(keys, values) : e[2] = x
    BY <1>3
  <2>2. owner' = Give(S, "freed")
    BY DEF FreeDict
  <2> HIDE DEF S
  <2>3. /\ Give(S, "freed") \in [Objects -> {"caller", "dict", "list", "freed"}]
        /\ \A x \in Objects : Give(S, "freed")[x] = IF x \in S THEN "freed" ELSE owner[x]
    BY GiveIs DEF ContainersInv
  <2>. QED BY <2>1, <2>2, <2>3
<1>5. \A x \in Objects : owner[x] = "dict" <=> \E e \in Entries(keys, values) : e[2] = x
  BY DEF ContainersInv, DictInv
<1>6. DictInv'
  BY <1>1, <1>2, <1>4, <1>5 DEF DictInv
<1>7. ListInv'
  BY <1>4, <1>5 DEF ContainersInv, ListInv, FreeDict, listVars
<1>8. OwnerInv'
  BY <1>4 DEF ContainersInv, OwnerInv, FreeDict
<1>. QED BY <1>2, <1>4, <1>6, <1>7, <1>8 DEF ContainersInv

LEMMA AppendKeeps ==
  ASSUME ContainersInv, NEW o \in Objects, ListAppend(o)
  PROVE  /\ ContainersInv'
         /\ \A x \in Objects : owner'[x] = "freed" <=> owner[x] = "freed"
<1>1. /\ items \in Seq(Objects) /\ Distinct(items)
      /\ itemsAlloc \in Nat /\ Len(items) \in Nat /\ Len(items) <= itemsAlloc
      /\ DOMAIN items = 1..Len(items)
      /\ \A x \in Objects : owner[x] = "list" <=> \E i \in DOMAIN items : items[i] = x
  BY DEF ContainersInv, ListInv
<1>2. itemsAlloc' \in Nat /\ Len(items) + 1 <= itemsAlloc' /\ Len(items) <= itemsAlloc'
  <2>1. /\ Resized(Len(items), itemsAlloc) \in Nat
        /\ Len(items) + 1 <= Resized(Len(items), itemsAlloc)
    BY <1>1, GrownKeeps
  <2>2. itemsAlloc' = Resized(Len(items), itemsAlloc)
    BY DEF ListAppend
  <2> DEFINE n == Len(items)
             a == itemsAlloc'
  <2>3. n \in Nat /\ a \in Nat /\ n + 1 <= a
    BY <1>1, <2>1, <2>2
  <2> HIDE DEF n, a
  <2>4. n <= a
    BY <2>3
  <2>. QED BY <2>3, <2>4 DEF n, a
<1>3. owner[o] = "caller" /\ UNCHANGED dictVars
  BY DEF ListAppend
<1>4. CASE items' = Append(items, o) /\ owner' = Give({o}, "list") /\ UNCHANGED broken
  <2>1. /\ owner' \in [Objects -> {"caller", "dict", "list", "freed"}]
        /\ \A x \in Objects : owner'[x] = IF x = o THEN "list" ELSE owner[x]
    BY <1>4, GiveIs DEF ContainersInv
  <2>2. /\ items' \in Seq(Objects) /\ Len(items') = Len(items) + 1
        /\ DOMAIN items' = 1..(Len(items) + 1)
        /\ \A j \in 1..Len(items) : items'[j] = items[j]
        /\ items'[Len(items) + 1] = o
    BY <1>1, <1>4, AppendProperties
  <2>3. \A i \in DOMAIN items : items[i] # o
    BY <1>1, <1>3
  <2> DEFINE n == Len(items)
  <2>4. n \in Nat /\ DOMAIN items = 1..n /\ DOMAIN items' = 1..(n + 1)
        /\ (\A j \in 1..n : items'[j] = items[j]) /\ items'[n + 1] = o
    BY <1>1, <2>2
  <2> HIDE DEF n
  <2>5. Distinct(items')
    BY <1>1, <2>3, <2>4 DEF Distinct
  <2>6. ASSUME NEW x \in Objects
        PROVE  owner'[x] = "list" <=> \E i \in DOMAIN items' : items'[i] = x
    <3>1. CASE x = o
      <4>1. n + 1 \in DOMAIN items'
        BY <2>4
      <4>. QED BY <2>1, <2>4, <3>1, <4>1
    <3>2. CASE x # o
      <4>1. (\E i \in DOMAIN items' : items'[i] = x) <=> \E i \in DOMAIN items : items[i] = x
        BY <2>4, <3>2
      <4>. QED BY <1>1, <2>1, <3>2, <4>1
    <3>. QED BY <3>1, <3>2
  <2>7. Len(items') <= itemsAlloc'
    BY <1>2, <2>2
  <2>8. ListInv'
    BY <1>2, <2>2, <2>5, <2>6, <2>7 DEF ListInv
  <2>9. DictInv'
    BY <1>3, <2>1 DEF ContainersInv, DictInv, dictVars
  <2>10. OwnerInv'
    BY <1>4, <2>1 DEF ContainersInv, OwnerInv
  <2>. QED BY <1>3, <2>1, <2>8, <2>9, <2>10 DEF ContainersInv
<1>5. CASE UNCHANGED <<items, owner>> /\ broken' = broken \union {"list"}
  <2>1. DictInv'
    BY <1>3, <1>5 DEF ContainersInv, DictInv, dictVars
  <2>2. ListInv'
    BY <1>2, <1>5 DEF ContainersInv, ListInv
  <2>3. OwnerInv'
    BY <1>5 DEF ContainersInv, OwnerInv
  <2>. QED BY <1>5, <2>1, <2>2, <2>3 DEF ContainersInv
<1>. QED BY <1>4, <1>5 DEF ListAppend

LEMMA ExchangeKeeps ==
  ASSUME ContainersInv, NEW o \in Objects, NEW i \in DOMAIN items, ListSet(i, o)
  PROVE  /\ ContainersInv'
         /\ \A x \in Objects : owner'[x] = "freed" <=> owner[x] = "freed" \/ x = items[i]
<1>1. /\ items \in Seq(Objects) /\ Distinct(items) /\ DOMAIN items = 1..Len(items)
      /\ \A x \in Objects : owner[x] = "list" <=> \E j \in DOMAIN items : items[j] = x
      /\ items[i] \in Objects
  BY DEF ContainersInv, ListInv
<1>2. owner[o] = "caller" /\ owner[items[i]] = "list" /\ o # items[i]
  BY <1>1 DEF ListSet
<1>3. /\ owner' \in [Objects -> {"caller", "dict", "list", "freed"}]
      /\ \A x \in Objects : owner'[x] = IF x = o THEN "list"
                                        ELSE IF x = items[i] THEN "freed" ELSE owner[x]
  <2>1. owner' = [Give({items[i]}, "freed") EXCEPT ![o] = "list"]
    BY DEF ListSet
  <2>. QED BY <2>1, GiveIs DEF ContainersInv
<1>4. /\ items' \in Seq(Objects) /\ Len(items') = Len(items)
      /\ DOMAIN items' = DOMAIN items
      /\ \A j \in DOMAIN items : items'[j] = IF j = i THEN o ELSE items[j]
  BY <1>1, ExceptSeq DEF ListSet
<1>5. \A j \in DOMAIN items : items[j] # o
  BY <1>1, <1>2
<1>6. Distinct(items')
  BY <1>1, <1>4, <1>5 DEF Distinct
<1>7. ASSUME NEW x \in Objects
      PROVE  owner'[x] = "list" <=> \E j \in DOMAIN items' : items'[j] = x
  <2>1. CASE x = o
    BY <1>3, <1>4, <2>1
  <2>2. CASE x = items[i]
    BY <1>1, <1>2, <1>3, <1>4, <2>2 DEF Distinct
  <2>3. CASE x # o /\ x # items[i]
    BY <1>1, <1>3, <1>4, <2>3
  <2>. QED BY <2>1, <2>2, <2>3
<1>8. ListInv'
  BY <1>4, <1>6, <1>7 DEF ContainersInv, ListInv, ListSet
<1>9. \A x \in Objects : /\ owner'[x] = "dict" <=> owner[x] = "dict"
                         /\ owner'[x] = "freed" <=> owner[x] = "freed" \/ x = items[i]
  BY <1>2, <1>3
<1>10. DictInv'
  BY <1>9 DEF ContainersInv, DictInv, ListSet, dictVars
<1>11. OwnerInv'
  BY <1>3 DEF ContainersInv, OwnerInv, ListSet
<1>. QED BY <1>8, <1>9, <1>10, <1>11 DEF ContainersInv

LEMMA FreeListKeeps ==
  ASSUME ContainersInv, FreeList
  PROVE  /\ ContainersInv'
         /\ \A x \in Objects : owner'[x] = "freed"
              <=> owner[x] = "freed" \/ \E i \in DOMAIN items : items[i] = x
<1>1. items' = <<>> /\ itemsAlloc' = 0 /\ UNCHANGED dictVars
  BY DEF FreeList
<1>2. \A x \in Objects : owner[x] = "list" <=> \E i \in DOMAIN items : items[i] = x
  BY DEF ContainersInv, ListInv
<1>3. /\ owner' \in [Objects -> {"caller", "dict", "list", "freed"}]
      /\ \A x \in Objects : owner'[x] = IF \E i \in DOMAIN items : items[i] = x
                                        THEN "freed" ELSE owner[x]
  BY GiveIs DEF ContainersInv, FreeList
<1>4. ListInv'
  BY <1>1, <1>2, <1>3 DEF ListInv, Distinct
<1>5. DictInv'
  BY <1>1, <1>2, <1>3 DEF ContainersInv, DictInv, dictVars
<1>6. OwnerInv'
  BY <1>3 DEF ContainersInv, OwnerInv, FreeList
<1>. QED BY <1>3, <1>4, <1>5, <1>6 DEF ContainersInv

LEMMA InvNext == ContainersInv /\ [ContainersNext]_containerVars => ContainersInv'
<1> SUFFICES ASSUME ContainersInv, [ContainersNext]_containerVars PROVE ContainersInv'
  OBVIOUS
<1>1. ASSUME NEW k \in Keys, DictPop(k) PROVE ContainersInv'
  BY <1>1, PopKeeps
<1>2. ASSUME NEW k \in Keys, NEW o \in Objects, DictSet(k, o) PROVE ContainersInv'
  <2>1. CASE /\ alloc' = Resized(Len(keys), alloc) /\ DictStore(k, o)
             /\ UNCHANGED <<listVars, broken>>
    BY <1>2, <2>1, SetKeeps DEF DictSet
  <2>2. CASE DictResizeFails /\ UNCHANGED owner
    BY <2>2, ResizeFailsKeeps
  <2>. QED BY <1>2, <2>1, <2>2 DEF DictSet
<1>3. ASSUME NEW k \in Keys, NEW o \in Objects, DictSetStrByStr(k, o) PROVE ContainersInv'
  <2>1. CASE /\ alloc' = Resized(Len(keys), alloc) /\ DictStore(k, o)
             /\ UNCHANGED <<listVars, broken>>
    BY <1>3, <2>1, SetKeeps DEF DictSetStrByStr
  <2>2. CASE DictResizeFails /\ owner' = Give({o}, "freed")
    BY <1>3, <2>2, SetStrFailsKeeps DEF DictSetStrByStr
  <2>3. CASE owner' = Give({o}, "freed") /\ UNCHANGED <<dictVars, listVars, broken>>
    BY <1>3, <2>3, SetStrFailsKeeps DEF DictSetStrByStr
  <2>. QED BY <1>3, <2>1, <2>2, <2>3 DEF DictSetStrByStr
<1>4. ASSUME NEW o \in Objects, ListAppend(o) PROVE ContainersInv'
  BY <1>4, AppendKeeps
<1>5. ASSUME NEW o \in Objects, NEW i \in DOMAIN items, ListSet(i, o) PROVE ContainersInv'
  BY <1>5, ExchangeKeeps
<1>6. CASE FreeDict
  BY <1>6, FreeDictKeeps
<1>7. CASE FreeList
  BY <1>7, FreeListKeeps
<1>8. CASE UNCHANGED containerVars
  BY <1>8 DEF containerVars, dictVars, listVars, ContainersInv, DictInv, ListInv, OwnerInv
<1>. QED BY <1>1, <1>2, <1>3, <1>4, <1>5, <1>6, <1>7, <1>8 DEF ContainersNext

LEMMA InvContainersTypes == ContainersInv => ContainersTypeOK
BY DEF ContainersInv, ContainersTypeOK, DictInv, ListInv, OwnerInv, Paired

(***************************************************************************)
(* Whatever is called in whatever order and whatever allocation fails, no  *)
(* array holds more than was allocated for it, the dictionary's two and    *)
(* the list's one, and the variables have their types.                     *)
(***************************************************************************)
THEOREM ContainersTypes == ContainersSpec => []ContainersTypeOK
<1>. QED BY InvInit, InvNext, InvContainersTypes, PTL DEF ContainersSpec

(***************************************************************************)
(* The two arrays of a dictionary stay as long as each other, and no key   *)
(* comes to be in it twice.                                                *)
(***************************************************************************)
THEOREM ContainersPaired == ContainersSpec => []OneEntryPerKey
<1>1. ContainersInv => OneEntryPerKey
  <2> SUFFICES ASSUME ContainersInv PROVE OneEntryPerKey
    OBVIOUS
  <2>1. ASSUME NEW i \in DOMAIN keys, NEW j \in DOMAIN keys, Cmp(keys[i], keys[j]) = 0
        PROVE  i = j
    <3>1. keys \in Seq(Keys) /\ Distinct(keys)
      BY DEF ContainersInv, DictInv, Paired
    <3>2. keys[i] \in AllKeys /\ keys[j] \in AllKeys
      BY <3>1, ContainersAssumption
    <3>3. keys[i] = keys[j]
      BY <2>1, <3>2, CmpEqual
    <3>. QED BY <3>1, <3>3 DEF Distinct
  <2>. QED BY <2>1 DEF ContainersInv, DictInv, ListInv, Paired, OneEntryPerKey
<1>. QED BY InvInit, InvNext, <1>1, PTL DEF ContainersSpec

(***************************************************************************)
(* A value is in a container exactly if that container owns it, and once:  *)
(* it cannot be freed twice, nor used after it was freed, nor get lost.    *)
(***************************************************************************)
THEOREM ContainersOwn == ContainersSpec => []OwnedOnce
<1>1. ContainersInv => OwnedOnce
  <2> SUFFICES ASSUME ContainersInv PROVE OwnedOnce
    OBVIOUS
  <2>1. /\ DOMAIN keys = DOMAIN values /\ Distinct(values) /\ Distinct(items)
        /\ \A o \in Objects : owner[o] = "list" <=> \E i \in DOMAIN items : items[i] = o
        /\ \A o \in Objects : owner[o] = "dict" <=> \E e \in Entries(keys, values) : e[2] = o
    BY DEF ContainersInv, DictInv, ListInv, Paired
  <2>2. ASSUME NEW o \in Objects
        PROVE  owner[o] = "dict" <=> \E i \in DOMAIN values : values[i] = o
    <3>1. ASSUME NEW i \in DOMAIN values, values[i] = o
          PROVE  owner[o] = "dict"
      <4>1. <<keys[i], o>> \in Entries(keys, values) /\ <<keys[i], o>>[2] = o
        BY <2>1, <3>1 DEF Entries
      <4>. QED BY <2>1, <4>1
    <3>2. ASSUME owner[o] = "dict"
          PROVE  \E i \in DOMAIN values : values[i] = o
      <4>1. PICK e \in Entries(keys, values) : e[2] = o
        BY <2>1, <3>2
      <4>2. PICK i \in DOMAIN keys : e = <<keys[i], values[i]>>
        BY DEF Entries
      <4>. QED BY <2>1, <4>1, <4>2
    <3>. QED BY <3>1, <3>2
  <2>. QED BY <2>1, <2>2 DEF OwnedOnce, Distinct
<1>. QED BY InvInit, InvNext, <1>1, PTL DEF ContainersSpec

(***************************************************************************)
(* A lookup by string agrees with a lookup by key, whatever keys with zero *)
(* octets the dictionary holds: the lengths are compared before strcmp.    *)
(***************************************************************************)
THEOREM ContainersByStr == ContainersSpec => []ByStrAgrees
<1>1. ContainersInv => ByStrAgrees
  <2> SUFFICES ASSUME ContainersInv, NEW k \in Keys, k.type = "str",
                      \A i \in DOMAIN k.s : k.s[i] # "NUL"
               PROVE  DictGetByStr(k.s) = DictGet(k)
    BY DEF ByStrAgrees
  <2>1. keys \in Seq(Keys)
    BY DEF ContainersInv, DictInv, Paired
  <2>2. k \in AllKeys /\ k = BenStr(k.s) /\ k.s \in Seq(Octet)
    BY ContainersAssumption DEF AllKeys, IntKeys, StrKeys, BenStr
  <2>3. ASSUME NEW i \in DOMAIN keys
        PROVE  SameStr(keys[i], k.s) <=> Cmp(keys[i], k) = 0
    <3>1. keys[i] \in AllKeys
      BY <2>1, ContainersAssumption
    <3> DEFINE q == keys[i]
               s == k.s
    <3>2. s \in Seq(Octet) /\ k = BenStr(s) /\ (\A j \in DOMAIN s : s[j] # "NUL")
      BY <2>2
    <3>3. q \in AllKeys
      BY <3>1
    <3> HIDE DEF q, s
    <3>4. SameStr(q, s) <=> q = k
      BY <3>2, <3>3, SameStrIs
    <3>5. Cmp(q, k) = 0 <=> q = k
      BY <2>2, <3>3, CmpEqual
    <3>. QED BY <3>4, <3>5 DEF q, s
  <2>4. {i \in DOMAIN keys : SameStr(keys[i], k.s)} = Positions(k)
    BY <2>3 DEF Positions
  <2>. QED BY <2>4 DEF DictGetByStr, GetByStr, DictGet
<1>. QED BY InvInit, InvNext, <1>1, PTL DEF ContainersSpec

-----------------------------------------------------------------------------
(* The map that Collections sees, and the values that were freed. *)

Map   == [k \in KeySet |-> DictGet(k)]
Freed == {o \in Objects : owner[o] = "freed"}

(* A map of a set of entries. *)
IsMap(m, E) ==
  /\ m = [x \in {e[1] : e \in E} |-> m[x]]
  /\ \A e \in E : m[e[1]] = e[2]

LEMMA MapIs == Paired(keys, values) => IsMap(Map, Entries(keys, values))
<1> SUFFICES ASSUME Paired(keys, values) PROVE IsMap(Map, Entries(keys, values))
  OBVIOUS
<1>1. KeySet = {e[1] : e \in Entries(keys, values)}
  <2>1. ASSUME NEW i \in DOMAIN keys
        PROVE  \E e \in Entries(keys, values) : e[1] = keys[i]
    <3>1. /\ <<keys[i], values[i]>> \in Entries(keys, values)
          /\ <<keys[i], values[i]>>[1] = keys[i]
      BY DEF Entries
    <3>. QED BY <3>1
  <2>2. ASSUME NEW e \in Entries(keys, values)
        PROVE  \E i \in DOMAIN keys : e[1] = keys[i]
    BY DEF Entries
  <2>. QED BY <2>1, <2>2 DEF KeySet
<1>2. ASSUME NEW e \in Entries(keys, values)
      PROVE  Map[e[1]] = e[2]
  <2>1. e = <<e[1], e[2]>> /\ e[1] \in Keys
    BY EntriesDistinct
  <2>2. /\ Positions(e[1]) # {}
        /\ <<e[1], values[Min(Positions(e[1]))]>> \in Entries(keys, values)
    BY <2>1, WhereKeyIs
  <2>3. DictGet(e[1]) = values[Min(Positions(e[1]))]
    BY <2>2 DEF DictGet
  <2> DEFINE f == <<e[1], values[Min(Positions(e[1]))]>>
  <2>4. f \in Entries(keys, values) /\ f[1] = e[1] /\ f[2] = DictGet(e[1])
    BY <2>2, <2>3
  <2> HIDE DEF f
  <2>5. f = e
    BY <2>4, EntriesDistinct
  <2>6. e[1] \in KeySet
    BY <1>1
  <2>. QED BY <2>4, <2>5, <2>6 DEF Map
<1>3. Map = [x \in KeySet |-> Map[x]]
  BY DEF Map
<1>. QED BY <1>1, <1>2, <1>3 DEF IsMap

(* The entries of one key gone. *)
LEMMA MapWithout ==
  ASSUME NEW m, NEW E, IsMap(m, E), NEW k,
         NEW n, NEW F, IsMap(n, F), F = {e \in E : e[1] # k}
  PROVE  n = [x \in DOMAIN m \ {k} |-> m[x]]
<1>1. DOMAIN m = {e[1] : e \in E}
  BY DEF IsMap
<1>2. {e[1] : e \in F} = DOMAIN m \ {k}
  BY <1>1
<1>3. n = [x \in DOMAIN m \ {k} |-> n[x]]
  BY <1>2 DEF IsMap
<1>4. ASSUME NEW x \in DOMAIN m \ {k} PROVE n[x] = m[x]
  <2>1. PICK e \in F : e[1] = x
    BY <1>2
  <2>. QED BY <2>1 DEF IsMap
<1>. QED BY <1>3, <1>4

(* One entry in the place of those of its key. *)
Stored(E, k, o) == {e \in E : e[1] # k} \union {<<k, o>>}

LEMMA MapWith ==
  ASSUME NEW m, NEW E, IsMap(m, E), NEW k, NEW o, NEW n, IsMap(n, Stored(E, k, o))
  PROVE  n = [x \in DOMAIN m \union {k} |-> IF x = k THEN o ELSE m[x]]
<1> DEFINE F == Stored(E, k, o)
<1> USE DEF Stored
<1>0. <<k, o>> \in F /\ <<k, o>>[1] = k /\ <<k, o>>[2] = o
  OBVIOUS
<1>1. DOMAIN m = {e[1] : e \in E}
  BY DEF IsMap
<1>2. {e[1] : e \in F} = DOMAIN m \union {k}
  <2>1. ASSUME NEW e \in F PROVE e[1] \in DOMAIN m \union {k}
    BY <1>0, <1>1
  <2>2. ASSUME NEW x \in DOMAIN m \union {k} PROVE \E e \in F : e[1] = x
    <3>1. CASE x = k
      BY <1>0, <3>1
    <3>2. CASE x # k
      BY <1>1, <3>2
    <3>. QED BY <3>1, <3>2
  <2>. QED BY <2>1, <2>2
<1>3. n = [x \in DOMAIN m \union {k} |-> n[x]]
  BY <1>2 DEF IsMap
<1>4. ASSUME NEW x \in DOMAIN m \union {k}
      PROVE  n[x] = IF x = k THEN o ELSE m[x]
  <2>1. CASE x = k
    BY <1>0, <2>1 DEF IsMap
  <2>2. CASE x # k
    <3>1. PICK e \in F : e[1] = x
      BY <1>2
    <3>2. e \in E
      BY <1>0, <2>2, <3>1
    <3>. QED BY <2>2, <3>1, <3>2 DEF IsMap
  <2>. QED BY <2>1, <2>2
<1>. QED BY <1>3, <1>4

(* What is freed of the one entry that a key had. *)
LEMMA HeldIs ==
  ASSUME Paired(keys, values), NEW k \in Keys
  PROVE  Held(k) = IF k \in DOMAIN Map THEN {Map[k]} ELSE {}
<1>1. IsMap(Map, Entries(keys, values))
  BY MapIs
<1>2. Held(k) = {e[2] : e \in {f \in Entries(keys, values) : f[1] = k}}
  BY PopEntry
<1>3. DOMAIN Map = {e[1] : e \in Entries(keys, values)}
  BY <1>1 DEF IsMap
<1>4. \A e \in Entries(keys, values) : e[1] = k => e[2] = Map[k]
  BY <1>1 DEF IsMap
<1>. QED BY <1>2, <1>3, <1>4

LEMMA MapNext == Paired(keys, values)' => IsMap(Map, Entries(keys, values))'
  BY MapIs, PTL

LEMMA AbstractInit == ContainersInit => Abstract!Init
<1>1. ContainersInit => KeySet = {} /\ {o \in Objects : owner[o] = "freed"} = {}
  BY DEF ContainersInit, KeySet
<1>. QED BY <1>1 DEF Abstract!Init, ContainersInit

(* Take, of a key that is there; of one that is not, nothing changes. *)
LEMMA PopTakes ==
  ASSUME ContainersInv, NEW k \in Keys, DictPop(k)
  PROVE  Abstract!Take(k) \/ UNCHANGED Abstract!vars
<1>1. /\ ContainersInv'
      /\ Entries(keys, values)' = {e \in Entries(keys, values) : e[1] # k}
      /\ \A x \in Objects : owner'[x] = "freed" <=> owner[x] = "freed"
  BY PopKeeps
<1>2. IsMap(Map, Entries(keys, values)) /\ IsMap(Map', Entries(keys, values)')
  BY <1>1, MapIs, MapNext DEF ContainersInv, DictInv
<1>3. Map' = [x \in DOMAIN Map \ {k} |-> Map[x]]
  <2> DEFINE m == Map
             n == Map'
             E == Entries(keys, values)
             F == Entries(keys, values)'
  <2>1. IsMap(m, E) /\ IsMap(n, F) /\ F = {e \in E : e[1] # k}
    BY <1>1, <1>2
  <2> HIDE DEF m, n, E, F
  <2>2. n = [x \in DOMAIN m \ {k} |-> m[x]]
    BY <2>1, MapWithout
  <2>. QED BY <2>2 DEF m, n
<1>4. Freed' = Freed /\ UNCHANGED items
  BY <1>1 DEF Freed, DictPop, listVars
<1>5. CASE k \in DOMAIN Map
  BY <1>3, <1>4, <1>5 DEF Abstract!Take, Map, Freed
<1>6. CASE k \notin DOMAIN Map
  <2>1. Map' = Map
    BY <1>2, <1>3, <1>6 DEF IsMap
  <2>. QED BY <1>4, <2>1 DEF Abstract!vars, Map, Freed
<1>. QED BY <1>5, <1>6

LEMMA StorePuts ==
  ASSUME ContainersInv, NEW k \in Keys, NEW o \in Objects, owner[o] = "caller",
         DictStore(k, o), alloc' = Resized(Len(keys), alloc), UNCHANGED <<listVars, broken>>
  PROVE  Abstract!Put(k, o)
<1>1. /\ ContainersInv'
      /\ \A x \in Objects : owner'[x] = "freed" <=> owner[x] = "freed" \/ x \in Held(k)
  BY SetKeeps
<1>2. Entries(keys, values)' = {e \in Entries(keys, values) : e[1] # k} \union {<<k, o>>}
  BY StoreKeeps
<1>3. IsMap(Map, Entries(keys, values)) /\ IsMap(Map', Entries(keys, values)')
  BY <1>1, MapIs, MapNext DEF ContainersInv, DictInv
<1>4. Map' = [x \in DOMAIN Map \union {k} |-> IF x = k THEN o ELSE Map[x]]
  <2> DEFINE m == Map
             n == Map'
             E == Entries(keys, values)
  <2>1. IsMap(m, E) /\ IsMap(n, Stored(E, k, o))
    BY <1>2, <1>3 DEF Stored
  <2> HIDE DEF m, n, E
  <2>2. n = [x \in DOMAIN m \union {k} |-> IF x = k THEN o ELSE m[x]]
    BY <2>1, MapWith, Zenon
  <2>. QED BY <2>2 DEF m, n
<1>5. \A x \in Held(k) : x \in Objects
  BY HeldObjects DEF ContainersInv
<1>6. Freed' = Freed \union Held(k)
  BY <1>1, <1>5 DEF Freed
<1>7. Held(k) = IF k \in DOMAIN Map THEN {Map[k]} ELSE {}
  BY HeldIs DEF ContainersInv, DictInv
<1>8. Freed' = Freed \union (IF k \in DOMAIN Map THEN {Map[k]} ELSE {})
  BY <1>6, <1>7
<1>. QED BY <1>4, <1>8 DEF Abstract!Put, Map, Freed, listVars

LEMMA ResizeFailsStutters ==
  ASSUME DictResizeFails, UNCHANGED owner
  PROVE  UNCHANGED Abstract!vars
BY DEF DictResizeFails, Abstract!vars, KeySet, DictGet, Positions, listVars

LEMMA SetStrFailsDiscards ==
  ASSUME ContainersInv, NEW o \in Objects, owner[o] = "caller",
         owner' = Give({o}, "freed"),
         DictResizeFails \/ UNCHANGED <<dictVars, listVars, broken>>
  PROVE  Abstract!Discard(o)
<1>1. \A x \in Objects : owner'[x] = "freed" <=> owner[x] = "freed" \/ x = o
  BY SetStrFailsKeeps
<1>2. Freed' = Freed \union {o}
  BY <1>1 DEF Freed
<1>3. UNCHANGED <<keys, values, items>>
  BY DEF DictResizeFails, dictVars, listVars
<1>4. Map' = Map
  BY <1>3 DEF Map, KeySet, DictGet, Positions
<1>. QED BY <1>2, <1>3, <1>4 DEF Abstract!Discard, Map, Freed

LEMMA FreeDictClears ==
  ASSUME ContainersInv, FreeDict
  PROVE  Abstract!ClearMap
<1>1. /\ ContainersInv'
      /\ Entries(keys, values)' = {}
      /\ \A x \in Objects : owner'[x] = "freed"
           <=> owner[x] = "freed" \/ \E e \in Entries(keys, values) : e[2] = x
  BY FreeDictKeeps
<1>2. IsMap(Map, Entries(keys, values)) /\ IsMap(Map', Entries(keys, values)')
  BY <1>1, MapIs, MapNext DEF ContainersInv, DictInv
<1>3. Map' = [k \in {} |-> {}]
  BY <1>1, <1>2 DEF IsMap
<1>4. Freed' = Freed \union {Map[k] : k \in DOMAIN Map}
  <2>1. DOMAIN Map = {e[1] : e \in Entries(keys, values)}
        /\ \A e \in Entries(keys, values) : Map[e[1]] = e[2]
    BY <1>2 DEF IsMap
  <2>2. \A e \in Entries(keys, values) : e[2] \in Objects
    BY EntriesDistinct DEF ContainersInv, DictInv
  <2>3. ASSUME NEW x
        PROVE  x \in {Map[k] : k \in DOMAIN Map} <=> \E e \in Entries(keys, values) : e[2] = x
    BY <2>1
  <2>4. ASSUME NEW x
        PROVE  x \in Freed' <=> x \in Freed \/ \E e \in Entries(keys, values) : e[2] = x
    BY <1>1, <2>2 DEF Freed
  <2>. QED BY <2>3, <2>4
<1>. QED BY <1>3, <1>4 DEF Abstract!ClearMap, Map, Freed, FreeDict, listVars

LEMMA DictUnchanged ==
  ASSUME UNCHANGED dictVars
  PROVE  UNCHANGED Map
BY DEF dictVars, Map, KeySet, DictGet, Positions

LEMMA AppendAdds ==
  ASSUME ContainersInv, NEW o \in Objects, ListAppend(o)
  PROVE  Abstract!Add(o) \/ UNCHANGED Abstract!vars
<1>1. Freed' = Freed
  BY AppendKeeps DEF Freed
<1>2. Map' = Map
  BY DictUnchanged DEF ListAppend
<1>3. items' = Append(items, o) \/ items' = items
  BY DEF ListAppend
<1>. QED BY <1>1, <1>2, <1>3 DEF Abstract!Add, Abstract!vars, Map, Freed

LEMMA SetExchanges ==
  ASSUME ContainersInv, NEW o \in Objects, NEW i \in DOMAIN items, ListSet(i, o)
  PROVE  Abstract!Exchange(i, o)
<1>1. items[i] \in Objects
  BY DEF ContainersInv, ListInv
<1>2. Freed' = Freed \union {items[i]}
  BY <1>1, ExchangeKeeps DEF Freed
<1>3. Map' = Map /\ items' = [items EXCEPT ![i] = o]
  BY DictUnchanged DEF ListSet
<1>. QED BY <1>2, <1>3 DEF Abstract!Exchange, Map, Freed

LEMMA FreeListClears ==
  ASSUME ContainersInv, FreeList
  PROVE  Abstract!ClearList
<1>1. \A x \in Objects : owner'[x] = "freed"
           <=> owner[x] = "freed" \/ \E i \in DOMAIN items : items[i] = x
  BY FreeListKeeps
<1>2. \A i \in DOMAIN items : items[i] \in Objects
  BY DEF ContainersInv, ListInv
<1>3. Freed' = Freed \union {items[i] : i \in DOMAIN items}
  BY <1>1, <1>2 DEF Freed
<1>4. Map' = Map /\ items' = <<>>
  BY DictUnchanged DEF FreeList
<1>. QED BY <1>3, <1>4 DEF Abstract!ClearList, Map, Freed

LEMMA AbstractNext ==
  ContainersInv /\ [ContainersNext]_containerVars => [Abstract!Next]_(Abstract!vars)
<1> SUFFICES ASSUME ContainersInv, [ContainersNext]_containerVars
             PROVE  Abstract!Next \/ UNCHANGED Abstract!vars
  OBVIOUS
<1> USE DEF Abstract!Next
<1>1. ASSUME NEW k \in Keys, DictPop(k) PROVE Abstract!Next \/ UNCHANGED Abstract!vars
  BY <1>1, PopTakes
<1>2. ASSUME NEW k \in Keys, NEW o \in Objects, DictSet(k, o)
      PROVE  Abstract!Next \/ UNCHANGED Abstract!vars
  <2>1. CASE /\ alloc' = Resized(Len(keys), alloc) /\ DictStore(k, o)
             /\ UNCHANGED <<listVars, broken>>
    <3>1. Abstract!Put(k, o)
      BY <1>2, <2>1, StorePuts DEF DictSet
    <3>. QED BY <3>1
  <2>2. CASE DictResizeFails /\ UNCHANGED owner
    BY <2>2, ResizeFailsStutters
  <2>. QED BY <1>2, <2>1, <2>2 DEF DictSet
<1>3. ASSUME NEW k \in Keys, NEW o \in Objects, DictSetStrByStr(k, o)
      PROVE  Abstract!Next \/ UNCHANGED Abstract!vars
  <2>1. CASE /\ alloc' = Resized(Len(keys), alloc) /\ DictStore(k, o)
             /\ UNCHANGED <<listVars, broken>>
    <3>1. Abstract!Put(k, o)
      BY <1>3, <2>1, StorePuts DEF DictSetStrByStr
    <3>. QED BY <3>1
  <2>2. CASE /\ owner' = Give({o}, "freed")
             /\ DictResizeFails \/ UNCHANGED <<dictVars, listVars, broken>>
    <3>1. Abstract!Discard(o)
      BY <1>3, <2>2, SetStrFailsDiscards DEF DictSetStrByStr
    <3>. QED BY <3>1
  <2>. QED BY <1>3, <2>1, <2>2 DEF DictSetStrByStr
<1>4. ASSUME NEW o \in Objects, ListAppend(o)
      PROVE  Abstract!Next \/ UNCHANGED Abstract!vars
  BY <1>4, AppendAdds
<1>5. ASSUME NEW o \in Objects, NEW i \in DOMAIN items, ListSet(i, o)
      PROVE  Abstract!Next
  BY <1>5, SetExchanges
<1>6. CASE FreeDict
  BY <1>6, FreeDictClears
<1>7. CASE FreeList
  BY <1>7, FreeListClears
<1>8. CASE UNCHANGED containerVars
  BY <1>8 DEF containerVars, dictVars, listVars, Abstract!vars, KeySet, DictGet, Positions
<1>. QED BY <1>1, <1>2, <1>3, <1>4, <1>5, <1>6, <1>7, <1>8 DEF ContainersNext

(***************************************************************************)
(* Dictionary and list are, to who calls them, a map and a sequence that   *)
(* say which values they freed, whatever order the entries get into.       *)
(***************************************************************************)
THEOREM ContainersImplementCollections == ContainersSpec => ImplementsCollections
<1>1. ContainersSpec => [][Abstract!Next]_(Abstract!vars)
  BY InvInit, InvNext, AbstractNext, PTL DEF ContainersSpec
<1>. QED BY <1>1, AbstractInit, PTL DEF ContainersSpec, ImplementsCollections, Abstract!Spec
=============================================================================
