---------------------------- MODULE DecoderProofs ----------------------------
(***************************************************************************)
(* For all data, for every limit on level and on the digits of a number,   *)
(* and whatever allocation fails: the decoder stays within the data, the   *)
(* keys of what it has open ascend, and each failure has its error.        *)
(***************************************************************************)
EXTENDS Decoder, TLAPS, SequenceTheorems

(* The lemmas on the naturals; nothing is defined by this recursion. *)
LOCAL INSTANCE Recursion WITH Base <- 0, Step <- LAMBDA n, x : x

(* ben_cmp gives -1, 0 or 1. *)
LEMMA CmpIsInt == \A a, b : Cmp(a, b) \in Int
<1>1. \A n : Sign(n) \in Int
  BY DEF Sign
<1>2. \A s, t : StrCmp(s, t) \in Int
  BY <1>1 DEF StrCmp
<1>. QED BY <1>1, <1>2 DEF Cmp

-----------------------------------------------------------------------------
(* Values, and the containers that are being decoded. *)

(* What decode may return: a value with the type of a key is a key. *)
IsValue(v) == v # None /\ (v.type \in KeyTypes => v \in AllKeys)

LEMMA ValuesAre ==
  /\ \A b : IsValue(BenBool(b))
  /\ \A n \in Int : IsValue(BenInt(n))
  /\ \A s \in Seq(Octet) : IsValue(BenStr(s))
  /\ \A vs : IsValue(BenList(vs))
  /\ \A ks, vs : IsValue(BenDict(ks, vs))
<1> USE DEF IsValue, None, KeyTypes
<1>1. ASSUME NEW b PROVE IsValue(BenBool(b))
  <2>1. BenBool(b).type = "bool" /\ None.type = "none"
    BY DEF BenBool
  <2>. QED BY <2>1
<1>2. ASSUME NEW n \in Int PROVE IsValue(BenInt(n))
  <2>1. BenInt(n).type = "int" /\ None.type = "none"
    BY DEF BenInt
  <2>2. BenInt(n) \in AllKeys
    BY DEF AllKeys, IntKeys, BenInt
  <2>. QED BY <2>1, <2>2
<1>3. ASSUME NEW s \in Seq(Octet) PROVE IsValue(BenStr(s))
  <2>1. BenStr(s).type = "str" /\ None.type = "none"
    BY DEF BenStr
  <2>2. BenStr(s) \in AllKeys
    BY DEF AllKeys, StrKeys, BenStr
  <2>. QED BY <2>1, <2>2
<1>4. ASSUME NEW vs PROVE IsValue(BenList(vs))
  <2>1. BenList(vs).type = "list" /\ None.type = "none"
    BY DEF BenList
  <2>. QED BY <2>1
<1>5. ASSUME NEW ks, NEW vs PROVE IsValue(BenDict(ks, vs))
  <2>1. BenDict(ks, vs).type = "dict" /\ None.type = "none"
    BY DEF BenDict
  <2>. QED BY <2>1
<1>. QED BY <1>1, <1>2, <1>3, <1>4, <1>5

(* A sequence of whatever it is a sequence of. *)
IsArray(a) == \E S : a \in Seq(S)

LEMMA ArrayAppend ==
  ASSUME NEW a, IsArray(a), NEW x
  PROVE  /\ IsArray(Append(a, x)) /\ Len(a) \in Nat /\ Len(Append(a, x)) = Len(a) + 1
         /\ DOMAIN Append(a, x) = 1..(Len(a) + 1)
         /\ \A i \in 1..Len(a) : Append(a, x)[i] = a[i]
         /\ Append(a, x)[Len(a) + 1] = x
<1>1. PICK S : a \in Seq(S)
  BY DEF IsArray
<1> DEFINE T == S \union {x}
<1>2. x \in T /\ a \in Seq(T)
  <2>1. \A i \in 1..Len(a) : a[i] \in S
    BY <1>1
  <2>. QED BY <1>1, <2>1
<1> HIDE DEF T
<1>3. /\ Append(a, x) \in Seq(T) /\ Len(Append(a, x)) = Len(a) + 1
      /\ \A i \in 1..Len(a) : Append(a, x)[i] = a[i]
      /\ Append(a, x)[Len(a) + 1] = x
  BY <1>2, AppendProperties
<1>4. Len(a) \in Nat
  BY <1>2
<1>. QED BY <1>3, <1>4 DEF IsArray

LEMMA ArrayFront ==
  ASSUME NEW a, IsArray(a), a # <<>>
  PROVE  /\ IsArray(Front(a)) /\ Len(a) \in Nat \ {0} /\ Len(Front(a)) = Len(a) - 1
         /\ DOMAIN a = 1..Len(a) /\ DOMAIN Front(a) = 1..(Len(a) - 1)
         /\ \A i \in 1..(Len(a) - 1) : Front(a)[i] = a[i]
<1>1. PICK S : a \in Seq(S)
  BY DEF IsArray
<1>2. Len(a) \in Nat \ {0} /\ DOMAIN a = 1..Len(a)
  BY <1>1, EmptySeq
<1> DEFINE n == Len(a) - 1
<1>3. n \in Nat /\ \A i \in 1..n : a[i] \in S
  BY <1>1, <1>2
<1>4. Front(a) = SubSeq(a, 1, n)
  BY DEF Front
<1> HIDE DEF n
<1>5. /\ SubSeq(a, 1, n) \in Seq(S)
      /\ Len(SubSeq(a, 1, n)) = IF 1 <= n THEN n - 1 + 1 ELSE 0
      /\ \A i \in 1..(n - 1 + 1) : SubSeq(a, 1, n)[i] = a[1 + i - 1]
  BY <1>3, SubSeqProperties
<1>6. Len(Front(a)) = n /\ (\A i \in 1..n : Front(a)[i] = a[i]) /\ Front(a) \in Seq(S)
  BY <1>3, <1>4, <1>5
<1>7. IsArray(Front(a)) /\ DOMAIN Front(a) = 1..n
  BY <1>6 DEF IsArray
<1>. QED BY <1>2, <1>6, <1>7 DEF n

Ascending(ks) == \A j \in 2..Len(ks) : Cmp(ks[j - 1], ks[j]) < 0

(* A key may be put behind those that are there. *)
Follows(ks, key) == ks # <<>> => Cmp(Last(ks), key) < 0

IsFrame(f) ==
  /\ f = [type |-> f.type, keys |-> f.keys, values |-> f.values, key |-> f.key]
  /\ f.type \in {"dict", "list"}
  /\ f.keys \in Seq(AllKeys) /\ IsArray(f.values)
  /\ f.type = "dict" => Len(f.keys) = Len(f.values)
  /\ Ascending(f.keys)
  /\ f.key # None => f.key \in AllKeys /\ Follows(f.keys, f.key)

IsStack(s) == IsArray(s) /\ \A i \in DOMAIN s : IsFrame(s[i])

(* A key that is greater than the last keeps the keys ascending. *)
LEMMA AppendKey ==
  ASSUME NEW ks \in Seq(AllKeys), NEW key \in AllKeys, Ascending(ks), Follows(ks, key)
  PROVE  /\ Append(ks, key) \in Seq(AllKeys) /\ Len(Append(ks, key)) = Len(ks) + 1
         /\ Ascending(Append(ks, key))
<1> DEFINE n == Len(ks)
           a == Append(ks, key)
<1>1. n \in Nat /\ a \in Seq(AllKeys) /\ Len(a) = n + 1
      /\ (\A i \in 1..n : a[i] = ks[i]) /\ a[n + 1] = key
  BY AppendProperties
<1>2. ks # <<>> => Cmp(ks[n], key) < 0
  BY DEF Follows, Last
<1>3. n # 0 => ks # <<>>
  BY EmptySeq
<1>4. \A j \in 2..n : Cmp(ks[j - 1], ks[j]) < 0
  BY DEF Ascending
<1> HIDE DEF n, a
<1>5. ASSUME NEW j \in 2..(n + 1)
      PROVE  Cmp(a[j - 1], a[j]) < 0
  <2>1. CASE j = n + 1
    <3>1. j - 1 = n /\ n # 0 /\ n \in 1..n
      BY <1>1, <2>1
    <3>2. a[j - 1] = ks[n] /\ a[j] = key
      BY <1>1, <2>1, <3>1
    <3>. QED BY <1>2, <1>3, <3>1, <3>2
  <2>2. CASE j # n + 1
    <3>1. j \in 2..n /\ j \in 1..n /\ j - 1 \in 1..n
      BY <1>1, <2>2
    <3>2. a[j - 1] = ks[j - 1] /\ a[j] = ks[j]
      BY <1>1, <3>1
    <3>. QED BY <1>4, <3>1, <3>2
  <2>. QED BY <2>1, <2>2
<1>6. Ascending(a)
  BY <1>1, <1>5 DEF Ascending
<1>. QED BY <1>1, <1>6 DEF n, a

LEMMA Pushed ==
  ASSUME NEW s, IsStack(s), NEW f, IsFrame(f)
  PROVE  IsStack(Append(s, f)) /\ Len(Append(s, f)) = Len(s) + 1 /\ Len(s) \in Nat
<1> DEFINE n == Len(s)
           a == Append(s, f)
<1>1. /\ IsArray(a) /\ n \in Nat /\ Len(a) = n + 1 /\ DOMAIN a = 1..(n + 1)
      /\ \A i \in 1..n : a[i] = s[i]
      /\ a[n + 1] = f
  BY ArrayAppend DEF IsStack
<1>2. \A i \in 1..n : IsFrame(s[i])
  <2>1. DOMAIN s = 1..n
    BY DEF IsStack, IsArray
  <2>. QED BY <2>1 DEF IsStack
<1> HIDE DEF n, a
<1>3. ASSUME NEW i \in DOMAIN a PROVE IsFrame(a[i])
  <2>1. i \in 1..n \/ i = n + 1
    BY <1>1
  <2>. QED BY <1>1, <1>2, <2>1
<1>. QED BY <1>1, <1>3 DEF IsStack, n, a

LEMMA Popped ==
  ASSUME NEW s, IsStack(s), s # <<>>
  PROVE  /\ IsStack(Front(s)) /\ Len(Front(s)) = Len(s) - 1 /\ Len(s) \in Nat \ {0}
         /\ IsFrame(Last(s))
<1> DEFINE n == Len(s)
           a == Front(s)
<1>1. /\ IsArray(a) /\ n \in Nat \ {0} /\ Len(a) = n - 1
      /\ DOMAIN s = 1..n /\ DOMAIN a = 1..(n - 1)
      /\ \A i \in 1..(n - 1) : a[i] = s[i]
  BY ArrayFront DEF IsStack
<1>2. \A i \in DOMAIN s : IsFrame(s[i])
  BY DEF IsStack
<1>3. Last(s) = s[n]
  BY DEF Last
<1> HIDE DEF n, a
<1>4. \A i \in DOMAIN a : IsFrame(a[i])
  <2> TAKE i \in DOMAIN a
  <2>1. i \in 1..(n - 1) /\ i \in 1..n
    BY <1>1
  <2>. QED BY <1>1, <1>2, <2>1
<1>5. IsFrame(Last(s))
  <2>1. n \in 1..n
    BY <1>1
  <2>. QED BY <1>1, <1>2, <1>3, <2>1
<1>. QED BY <1>1, <1>4, <1>5 DEF IsStack, n, a

LEMMA ZeroLeast == \A n \in Nat : 0 <= n
  OBVIOUS

LEMMA DifferenceIsNat == \A a, b, c \in Nat : a <= b /\ b <= c => c - a \in Nat
  OBVIOUS

LEMMA LeqTransitive == \A a, b, c \in Nat : a <= b /\ b <= c => a <= c
  OBVIOUS

LEMMA SelfDifference == \A n \in Nat : n - n = 0 /\ n <= n
  OBVIOUS

LEMMA EmptyStack == IsStack(<<>>) /\ Len(<<>>) = 0
<1>1. <<>> \in Seq({}) /\ DOMAIN <<>> = {}
  OBVIOUS
<1>. QED BY <1>1 DEF IsStack, IsArray

(* The container that is opened. *)
LEMMA NewFrame ==
  ASSUME NEW type \in {"dict", "list"}
  PROVE  IsFrame(Frame(type))
<1> DEFINE f == Frame(type)
<1>1. /\ f = [type |-> f.type, keys |-> f.keys, values |-> f.values, key |-> f.key]
      /\ f.type = type /\ f.keys = <<>> /\ f.values = <<>> /\ f.key = None
  BY DEF Frame
<1> HIDE DEF f
<1>2. IsArray(<<>>) /\ <<>> \in Seq(AllKeys) /\ Len(<<>>) = 0
  BY EmptyStack DEF IsStack
<1>3. Ascending(<<>>)
  BY <1>2 DEF Ascending
<1>. QED BY <1>1, <1>2, <1>3 DEF IsFrame, f

(* What Deliver makes of a frame. *)
LEMMA FrameWithItem ==
  ASSUME NEW f, IsFrame(f), f.type = "list", NEW v
  PROVE  IsFrame([f EXCEPT !.values = Append(@, v)])
<1> DEFINE g == [f EXCEPT !.values = Append(@, v)]
<1>0. f = [type |-> f.type, keys |-> f.keys, values |-> f.values, key |-> f.key]
  BY Zenon DEF IsFrame
<1>1. /\ g = [type |-> g.type, keys |-> g.keys, values |-> g.values, key |-> g.key]
      /\ g.type = f.type /\ g.keys = f.keys /\ g.key = f.key
      /\ g.values = Append(f.values, v)
  BY <1>0
<1>2. IsArray(Append(f.values, v))
  BY ArrayAppend DEF IsFrame
<1> HIDE DEF g
<1>. QED BY <1>1, <1>2 DEF IsFrame, g

LEMMA FrameWithKey ==
  ASSUME NEW f, IsFrame(f), NEW v, IsValue(v), ~BadKey(f, v)
  PROVE  IsFrame([f EXCEPT !.key = v])
<1> DEFINE g == [f EXCEPT !.key = v]
<1>0. f = [type |-> f.type, keys |-> f.keys, values |-> f.values, key |-> f.key]
  BY Zenon DEF IsFrame
<1>1. /\ g = [type |-> g.type, keys |-> g.keys, values |-> g.values, key |-> g.key]
      /\ g.type = f.type /\ g.keys = f.keys /\ g.key = v /\ g.values = f.values
  BY <1>0
<1>2. v \in AllKeys
  BY DEF BadKey, IsValue
<1>3. Follows(f.keys, v)
  <2>1. f.keys # <<>> => ~(Cmp(Last(f.keys), v) >= 0)
    BY DEF BadKey
  <2>2. Cmp(Last(f.keys), v) \in Int
    BY CmpIsInt
  <2>. QED BY <2>1, <2>2 DEF Follows
<1> HIDE DEF g
<1>. QED BY <1>1, <1>2, <1>3 DEF IsFrame, g

LEMMA FrameWithEntry ==
  ASSUME NEW f, IsFrame(f), f.type = "dict", f.key # None, NEW v
  PROVE  IsFrame([f EXCEPT !.keys = Append(@, f.key), !.values = Append(@, v), !.key = None])
<1> DEFINE g == [f EXCEPT !.keys = Append(@, f.key), !.values = Append(@, v), !.key = None]
<1>1. /\ g = [type |-> g.type, keys |-> g.keys, values |-> g.values, key |-> g.key]
      /\ g.type = f.type /\ g.keys = Append(f.keys, f.key) /\ g.key = None
      /\ g.values = Append(f.values, v)
  <2> DEFINE t  == f.type
             ks == f.keys
             vs == f.values
             k  == f.key
             aks == Append(ks, k)
             avs == Append(vs, v)
             n  == None
  <2>1. f = [type |-> t, keys |-> ks, values |-> vs, key |-> k]
    BY Zenon DEF IsFrame
  <2>2. g = [f EXCEPT !.keys = aks, !.values = avs, !.key = n]
    OBVIOUS
  <2> HIDE DEF t, ks, vs, k, aks, avs, n, g
  <2>3. g = [type |-> t, keys |-> aks, values |-> avs, key |-> n]
    BY <2>1, <2>2
  <2>. QED BY <2>3 DEF t, ks, vs, k, aks, avs, n
<1>2. /\ Append(f.keys, f.key) \in Seq(AllKeys)
      /\ Len(Append(f.keys, f.key)) = Len(f.keys) + 1
      /\ Ascending(Append(f.keys, f.key))
  BY AppendKey DEF IsFrame
<1>3. IsArray(Append(f.values, v)) /\ Len(Append(f.values, v)) = Len(f.values) + 1
  BY ArrayAppend DEF IsFrame
<1>4. Len(f.keys) = Len(f.values)
  BY Zenon DEF IsFrame
<1> HIDE DEF g
<1>. QED BY <1>1, <1>2, <1>3, <1>4 DEF IsFrame, g

-----------------------------------------------------------------------------
(* The invariant. *)

DecoderInv ==
  /\ data \in Seq(Octet) /\ exact \in BOOLEAN
  /\ start \in Nat /\ off \in Nat /\ start <= off /\ off <= Len(data)
  /\ IsStack(stack) /\ Len(stack) <= off - start
  /\ level \in Nat /\ level <= MaxLevel + 1
  /\ status \in {"idle", "busy", "ok", "failed", "undefined"}
  /\ error \in {"ok", "invalid", "insufficient", "no memory"}
  /\ status = "busy" => level <= MaxLevel
  /\ status = "idle" => start = 0 /\ off = 0 /\ level = 0 /\ stack = <<>>
  /\ status \in {"ok", "failed"} => stack = <<>>
  /\ status \in {"idle", "busy", "ok"} => error = "ok"
  /\ ErrorReported

(* What a step may make of the result of the call. *)
GoesOn   == UNCHANGED <<error, value, status>>
FailsBy(e) == stack' = <<>> /\ status' = "failed" /\ value' = None /\ error' = e
EndsWell == stack' = <<>> /\ status' = "ok" /\ value' # None /\ UNCHANGED error

Outcome ==
  \/ GoesOn
  \/ EndsWell
  \/ exact /\ FailsBy(error)
  \/ \E e \in {"invalid", "insufficient", "no memory"} : FailsBy(e)

(* A value is delivered to the innermost of some open containers. *)
LEMMA DeliverKeeps ==
  ASSUME NEW frames, IsStack(frames), NEW v, IsValue(v), Deliver(v, frames)
  PROVE  IsStack(stack') /\ Len(stack') <= Len(frames) /\ Len(frames) \in Nat /\ Outcome
<1>0. Len(frames) \in Nat
  BY DEF IsStack, IsArray
<1>1. ASSUME NEW e \in {"invalid", "no memory"}, Fail(e)
      PROVE  IsStack(stack') /\ Len(stack') <= Len(frames) /\ Outcome
  <2>1. stack' = <<>> /\ FailsBy(e)
    BY <1>1 DEF Fail, FailsBy
  <2>2. IsStack(stack') /\ Len(stack') = 0
    BY <2>1, EmptyStack
  <2>3. Outcome
    BY <2>1 DEF Outcome
  <2>4. Len(stack') <= Len(frames)
    BY <1>0, <2>2, ZeroLeast, Zenon
  <2>. QED BY <2>2, <2>3, <2>4
<1>2. CASE frames = <<>> /\ Return(v)
  <2>1. stack' = <<>>
    BY <1>2 DEF Return
  <2>2. EndsWell \/ (exact /\ FailsBy(error))
    BY <1>2 DEF Return, EndsWell, FailsBy, IsValue
  <2>3. IsStack(stack') /\ Len(stack') = 0
    BY <2>1, EmptyStack
  <2>4. Outcome
    BY <2>2 DEF Outcome
  <2>. QED BY <1>0, <2>3, <2>4
<1>3. ASSUME frames # <<>>, NEW g, IsFrame(g), Replace(frames, g)
      PROVE  IsStack(stack') /\ Len(stack') <= Len(frames) /\ Outcome
  <2>1. /\ IsStack(Front(frames)) /\ Len(Front(frames)) = Len(frames) - 1
        /\ Len(frames) \in Nat \ {0}
    BY <1>3, Popped
  <2>2. /\ IsStack(Append(Front(frames), g))
        /\ Len(Append(Front(frames), g)) = Len(Front(frames)) + 1
    BY <1>3, <2>1, Pushed
  <2>3. stack' = Append(Front(frames), g) /\ GoesOn
    BY <1>3 DEF Replace, GoesOn
  <2> DEFINE m == Len(frames)
             n == Len(Front(frames))
             l == Len(stack')
  <2>4. m \in Nat /\ n = m - 1 /\ l = n + 1
    BY <2>1, <2>2, <2>3
  <2> HIDE DEF m, n, l
  <2>5. l <= m
    BY <2>4
  <2>. QED BY <2>2, <2>3, <2>5 DEF Outcome, m, l
<1>4. CASE frames # <<>>
  <2> DEFINE f == Last(frames)
  <2>1. IsFrame(f)
    BY <1>4, Popped
  <2> HIDE DEF f
  <2>2. CASE /\ f.type = "list"
             /\ \/ Replace(frames, [f EXCEPT !.values = Append(@, v)])
                \/ Fail("no memory")
    <3>1. IsFrame([f EXCEPT !.values = Append(@, v)])
      BY <2>1, <2>2, FrameWithItem
    <3>. QED BY <1>0, <1>1, <1>3, <1>4, <2>2, <3>1
  <2>3. CASE f.type = "dict" /\ f.key = None /\ BadKey(f, v) /\ Fail("invalid")
    BY <1>0, <1>1, <2>3
  <2>4. CASE f.type = "dict" /\ f.key = None /\ ~BadKey(f, v)
             /\ Replace(frames, [f EXCEPT !.key = v])
    <3>1. IsFrame([f EXCEPT !.key = v])
      BY <2>1, <2>4, FrameWithKey
    <3>. QED BY <1>0, <1>3, <1>4, <2>4, <3>1
  <2>5. CASE /\ f.type = "dict" /\ f.key # None
             /\ Replace(frames, [f EXCEPT !.keys = Append(@, f.key),
                                          !.values = Append(@, v), !.key = None])
    <3>1. IsFrame([f EXCEPT !.keys = Append(@, f.key),
                            !.values = Append(@, v), !.key = None])
      BY <2>1, <2>5, FrameWithEntry
    <3>. QED BY <1>0, <1>3, <1>4, <2>5, <3>1
  <2>. QED BY <1>4, <2>2, <2>3, <2>4, <2>5 DEF Deliver, f
<1>. QED BY <1>0, <1>2, <1>4 DEF Deliver

(* How a step keeps the invariant, given where it leaves off and stack.    *)
LEMMA StepKeeps ==
  ASSUME DecoderInv, status = "busy", UNCHANGED callVars,
         off' \in Nat, off <= off', off' <= Len(data),
         level' \in Nat, level' <= MaxLevel + 1,
         IsStack(stack'), Len(stack') <= off' - start,
         Outcome, GoesOn => level' <= MaxLevel
  PROVE  DecoderInv'
<1> USE DEF DecoderInv, callVars
<1>1. /\ data' \in Seq(Octet) /\ exact' \in BOOLEAN
      /\ start' \in Nat /\ start' <= off' /\ off' <= Len(data')
      /\ Len(stack') <= off' - start'
  BY DecoderAssumption
<1>2. error = "ok"
  OBVIOUS
<1>3. CASE GoesOn
  BY <1>1, <1>2, <1>3 DEF GoesOn, ErrorReported
<1>4. CASE EndsWell
  BY <1>1, <1>2, <1>4 DEF EndsWell, ErrorReported
<1>5. CASE exact /\ FailsBy(error)
  BY <1>1, <1>2, <1>5 DEF FailsBy, ErrorReported
<1>6. ASSUME NEW e \in {"invalid", "insufficient", "no memory"}, FailsBy(e)
      PROVE  DecoderInv'
  BY <1>1, <1>6 DEF FailsBy, ErrorReported
<1>. QED BY <1>3, <1>4, <1>5, <1>6 DEF Outcome

(* A step that only fails. *)
LEMMA FailKeeps ==
  ASSUME DecoderInv, status = "busy", UNCHANGED callVars,
         off' \in Nat, off <= off', off' <= Len(data),
         level' \in Nat, level' <= MaxLevel + 1,
         NEW e \in {"invalid", "insufficient", "no memory"}, Fail(e)
  PROVE  DecoderInv'
<1>1. stack' = <<>> /\ FailsBy(e)
  BY DEF Fail, FailsBy
<1>2. ~GoesOn /\ Outcome
  BY <1>1 DEF FailsBy, GoesOn, Outcome
<1>3. IsStack(stack') /\ Len(stack') = 0
  BY <1>1, EmptyStack
<1>4. Len(stack') <= off' - start
  <2>1. start \in Nat /\ off \in Nat /\ start <= off
    BY Zenon DEF DecoderInv
  <2>2. off' - start \in Nat
    BY <2>1, DifferenceIsNat, Zenon
  <2>. QED BY <1>3, <2>2, ZeroLeast, Zenon
<1>. QED BY <1>2, <1>3, <1>4, StepKeeps

(* Where decode has got to when it looks at an octet. *)
LEMMA AtEnter ==
  ASSUME DecoderInv, Enter
  PROVE  /\ status = "busy" /\ UNCHANGED callVars
         /\ level' \in Nat /\ level' <= MaxLevel
         /\ off + 1 <= Len(data)
BY DecoderAssumption DEF DecoderInv, Enter, Calls, AtEnd

(* What find returns is a place in the data. *)
LEMMA FindIs ==
  ASSUME DecoderInv, NEW p \in Nat, NEW c, Ends(p, c) # {}
  PROVE  /\ Find(p, c) \in Nat /\ p <= Find(p, c) /\ Find(p, c) + 1 <= Len(data)
         /\ data[Find(p, c) + 1] = c
<1>0. Len(data) \in Nat
  <2>1. data \in Seq(Octet)
    BY Zenon DEF DecoderInv
  <2>. QED BY <2>1
<1>1. Ends(p, c) \subseteq Nat
  BY <1>0 DEF Ends
<1>2. PICK m \in Ends(p, c) : \A k \in Ends(p, c) : m <= k
  BY <1>1, NatMinimum
<1>3. Find(p, c) \in Ends(p, c)
  BY <1>2 DEF Find, Min
<1>. QED BY <1>0, <1>3 DEF Ends

LEMMA LongLongIsInt ==
  ASSUME NEW s, WellFormed(s)
  PROVE  LongLong(CString(s)) \in Int
BY DecoderAssumption DEF WellFormed, IsLongLong

-----------------------------------------------------------------------------
(* Each action, from a state the invariant holds in. *)

(* A value is returned, and off moved on. *)
LEMMA DeliveredKeeps ==
  ASSUME DecoderInv, status = "busy", UNCHANGED callVars,
         off' \in Nat, off <= off', off' <= Len(data),
         level' \in Nat, level' <= MaxLevel,
         NEW frames, IsStack(frames), Len(frames) <= off' - start,
         NEW v, IsValue(v), Deliver(v, frames)
  PROVE  DecoderInv'
<1>1. IsStack(stack') /\ Len(stack') <= Len(frames) /\ Len(frames) \in Nat /\ Outcome
  BY DeliverKeeps
<1>2. Len(stack') <= off' - start
  <2>1. Len(stack') \in Nat
    <3>1. IsStack(stack')
      BY <1>1
    <3>. QED BY <3>1 DEF IsStack, IsArray
  <2>2. start \in Nat /\ off \in Nat /\ start <= off
    BY Zenon DEF DecoderInv
  <2>3. off' - start \in Nat
    BY <2>2, DifferenceIsNat, Zenon
  <2>. QED BY <1>1, <2>1, <2>3, LeqTransitive, Zenon
<1>3. level' <= MaxLevel + 1
  BY DecoderAssumption
<1>. QED BY <1>1, <1>2, <1>3, StepKeeps

(* The stack is what it was, and off moves on: so it is still not too high. *)
LEMMA StackFits ==
  ASSUME DecoderInv, off' \in Nat, off <= off'
  PROVE  IsStack(stack) /\ Len(stack) <= off' - start
<1>1. start \in Nat /\ off \in Nat /\ start <= off /\ IsStack(stack) /\ Len(stack) <= off - start
  BY Zenon DEF DecoderInv
<1>2. Len(stack) \in Nat
  <2>1. IsStack(stack)
    BY <1>1
  <2>. QED BY <2>1 DEF IsStack, IsArray
<1>3. \A l, a, b, c \in Nat : a <= b /\ b <= c /\ l <= b - a => l <= c - a
  OBVIOUS
<1>. QED BY <1>1, <1>2, <1>3, Zenon

LEMMA NoStructKeeps ==
  ASSUME DecoderInv, status = "busy", UNCHANGED callVars,
         off' \in Nat, off <= off', off' <= Len(data),
         level' \in Nat, level' <= MaxLevel, NoStruct
  PROVE  DecoderInv'
<1>1. level' <= MaxLevel + 1
  BY DecoderAssumption
<1>. QED BY <1>1, FailKeeps DEF NoStruct

LEMMA TooManyValuesKeeps == ASSUME DecoderInv, TooManyValues PROVE DecoderInv'
<1>1. /\ status = "busy" /\ UNCHANGED callVars /\ off' = off /\ Fail("invalid")
      /\ level' = level + 1
  BY DEF TooManyValues, Calls
<1>2. level \in Nat /\ level <= MaxLevel /\ off \in Nat /\ off <= Len(data)
  BY <1>1, Zenon DEF DecoderInv
<1>3. level' \in Nat /\ level' <= MaxLevel + 1
  BY <1>1, <1>2, DecoderAssumption
<1>4. off <= off'
  BY <1>1, <1>2
<1>. QED BY <1>1, <1>2, <1>3, <1>4, FailKeeps

LEMMA TruncatedKeeps == ASSUME DecoderInv, Truncated PROVE DecoderInv'
<1>1. /\ status = "busy" /\ UNCHANGED callVars /\ off' = off /\ Fail("insufficient")
      /\ level' = level + 1
  BY DEF Truncated, Calls
<1>2. level \in Nat /\ level <= MaxLevel /\ off \in Nat /\ off <= Len(data)
  BY <1>1, Zenon DEF DecoderInv
<1>3. level' \in Nat /\ level' <= MaxLevel + 1
  BY <1>1, <1>2, DecoderAssumption
<1>4. off <= off'
  BY <1>1, <1>2
<1>. QED BY <1>1, <1>2, <1>3, <1>4, FailKeeps

LEMMA UnknownTypeKeeps == ASSUME DecoderInv, UnknownType PROVE DecoderInv'
<1>1. Enter /\ off' = off /\ Fail("invalid")
  BY DEF UnknownType
<1>2. /\ status = "busy" /\ UNCHANGED callVars /\ level' \in Nat /\ level' <= MaxLevel
  BY <1>1, AtEnter
<1>3. off \in Nat /\ off <= Len(data)
  BY Zenon DEF DecoderInv
<1>4. off <= off' /\ level' <= MaxLevel + 1
  BY <1>1, <1>2, <1>3, DecoderAssumption
<1>. QED BY <1>1, <1>2, <1>3, <1>4, FailKeeps

LEMMA DecodeBoolKeeps == ASSUME DecoderInv, DecodeBool PROVE DecoderInv'
<1>1. Enter
  BY DEF DecodeBool
<1>2. /\ status = "busy" /\ UNCHANGED callVars /\ level' \in Nat /\ level' <= MaxLevel
  BY <1>1, AtEnter
<1>3. off \in Nat /\ off <= Len(data)
  BY Zenon DEF DecoderInv
<1>4. off <= off /\ level' <= MaxLevel + 1
  BY <1>2, <1>3, DecoderAssumption
<1>5. ASSUME NEW e \in {"invalid", "insufficient"}, Fail(e), off' = off PROVE DecoderInv'
  BY <1>2, <1>3, <1>4, <1>5, FailKeeps
<1>6. CASE NoStruct /\ off' = off
  BY <1>2, <1>3, <1>4, <1>6, NoStructKeeps
<1>7. CASE /\ off + 2 <= Len(data) /\ off' = off + 2
           /\ Deliver(BenBool(data[off + 2] = "1"), stack)
  <2>1. off' \in Nat /\ off <= off' /\ off' <= Len(data)
    BY <1>3, <1>7
  <2>2. IsStack(stack) /\ Len(stack) <= off' - start
    BY <2>1, StackFits
  <2>3. IsValue(BenBool(data[off + 2] = "1"))
    BY ValuesAre
  <2>. QED BY <1>2, <1>7, <2>1, <2>2, <2>3, DeliveredKeeps
<1>. QED BY <1>5, <1>6, <1>7 DEF DecodeBool

LEMMA DecodeIntKeeps == ASSUME DecoderInv, DecodeInt PROVE DecoderInv'
<1> DEFINE p == off + 1
           s == NumberText(p, "e")
<1>1. Enter
  BY DEF DecodeInt
<1>2. /\ status = "busy" /\ UNCHANGED callVars /\ level' \in Nat /\ level' <= MaxLevel
      /\ off + 1 <= Len(data)
  BY <1>1, AtEnter
<1>3. off \in Nat
  BY Zenon DEF DecoderInv
<1>4. p \in Nat /\ off <= p /\ p <= Len(data) /\ level' <= MaxLevel + 1
  BY <1>2, <1>3, DecoderAssumption
<1> HIDE DEF p, s
<1>5. ASSUME NEW e \in {"invalid", "insufficient"}, Fail(e), off' = p PROVE DecoderInv'
  BY <1>2, <1>4, <1>5, FailKeeps
<1>6. CASE /\ Ends(p, "e") # {} /\ WellFormed(s)
           /\ off' = Find(p, "e") + 1
           /\ Deliver(BenInt(LongLong(CString(s))), stack) \/ NoStruct
  <2>1. /\ Find(p, "e") \in Nat /\ p <= Find(p, "e") /\ Find(p, "e") + 1 <= Len(data)
    BY <1>4, <1>6, FindIs
  <2>2. off' \in Nat /\ off <= off' /\ off' <= Len(data)
    <3> DEFINE f == Find(p, "e")
    <3>1. f \in Nat /\ p <= f /\ off' = f + 1 /\ f + 1 <= Len(data)
      BY <1>6, <2>1
    <3> HIDE DEF f
    <3>2. off' \in Nat /\ off <= off'
      BY <1>3, <1>4, <3>1
    <3>. QED BY <3>1, <3>2
  <2>3. IsStack(stack) /\ Len(stack) <= off' - start
    BY <2>2, StackFits
  <2>4. IsValue(BenInt(LongLong(CString(s))))
    BY <1>6, LongLongIsInt, ValuesAre
  <2>5. CASE NoStruct
    BY <1>2, <2>2, <2>5, NoStructKeeps
  <2>6. CASE Deliver(BenInt(LongLong(CString(s))), stack)
    BY <1>2, <2>2, <2>3, <2>4, <2>6, DeliveredKeeps
  <2>. QED BY <1>6, <2>5, <2>6
<1>. QED BY <1>5, <1>6 DEF DecodeInt, p, s

(* The octets of a string are all there, and ben_blob finds no memory. *)
LEMMA NoBlobKeeps ==
  ASSUME DecoderInv, status = "busy", UNCHANGED callVars,
         off' \in Nat, off <= off', off' <= Len(data),
         level' \in Nat, level' <= MaxLevel,
         Ends(off, ":") # {}, WellFormed(NumberText(off, ":")),
         off' = Find(off, ":") + 1 + LongLong(CString(NumberText(off, ":"))),
         "blob" \in Fallible, Fail(error)
  PROVE  DecoderInv'
<1> USE DEF DecoderInv
<1>1. data' = data /\ exact' = exact /\ start' = start
  BY DEF callVars
<1>2. error' = "ok" /\ status' = "failed" /\ stack' = <<>> /\ value' = None
  BY Zenon DEF Fail
<1>3. PICK q : q = off
  OBVIOUS
<1>4. StringFrom(q)'
  BY <1>1, <1>3 DEF StringFrom, Ends, NumberText, Find
<1>5. q \in start'..off'
  BY <1>1, <1>3
<1>6. ErrorReported'
  BY <1>2, <1>4, <1>5 DEF ErrorReported
<1>7. level' <= MaxLevel + 1
  BY DecoderAssumption
<1>8. IsStack(stack') /\ Len(stack') = 0
  BY <1>2, EmptyStack
<1>9. Len(stack') <= off' - start'
  <2>1. start' \in Nat /\ off \in Nat /\ start' <= off
    BY <1>1, Zenon
  <2>2. off' - start' \in Nat
    BY <2>1, DifferenceIsNat, Zenon
  <2>. QED BY <1>8, <2>2, ZeroLeast, Zenon
<1>10. start' <= off' /\ off' <= Len(data') /\ start' \in Nat /\ data' \in Seq(Octet)
       /\ exact' \in BOOLEAN
  BY <1>1
<1>. QED BY <1>2, <1>6, <1>7, <1>8, <1>9, <1>10

LEMMA DecodeStrKeeps == ASSUME DecoderInv, DecodeStr PROVE DecoderInv'
<1> DEFINE s == NumberText(off, ":")
           n == LongLong(CString(s))
           f == Find(off, ":")
           p == f + 1
<1>1. Enter
  BY DEF DecodeStr
<1>2. /\ status = "busy" /\ UNCHANGED callVars /\ level' \in Nat /\ level' <= MaxLevel
  BY <1>1, AtEnter
<1>3. off \in Nat /\ off <= Len(data)
  BY Zenon DEF DecoderInv
<1>4. off <= off /\ level' <= MaxLevel + 1
  BY <1>2, <1>3, DecoderAssumption
<1> HIDE DEF s, n, f
<1>5. ASSUME NEW e \in {"invalid", "insufficient"}, Fail(e), off' = off PROVE DecoderInv'
  BY <1>2, <1>3, <1>4, <1>5, FailKeeps
<1>6. ASSUME Ends(off, ":") # {}
      PROVE  f \in Nat /\ off <= f /\ f + 1 <= Len(data)
  BY <1>3, <1>6, FindIs DEF f
<1>7. CASE Ends(off, ":") # {} /\ off' = p /\ Fail("insufficient")
  <2>1. off' \in Nat /\ off <= off' /\ off' <= Len(data)
    BY <1>3, <1>6, <1>7
  <2>. QED BY <1>2, <1>4, <1>7, <2>1, FailKeeps
<1>8. CASE /\ Ends(off, ":") # {} /\ IsSize(s) /\ ~TooShort(p, n) /\ off' = p + n
           /\ \/ Deliver(BenStr(SubSeq(data, p + 1, p + n)), stack)
              \/ "blob" \in Fallible /\ Fail(error)
  <2>1. n \in Int /\ n >= 0 /\ WellFormed(s)
    BY <1>8, LongLongIsInt DEF IsSize, n
  <2>2. f \in Nat /\ off <= f /\ f + 1 <= Len(data)
    BY <1>6, <1>8
  <2>3. off' \in Nat /\ off <= off' /\ off' = f + 1 + n
    BY <1>3, <1>8, <2>1, <2>2
  <2>4. off' <= Len(data)
    <3>1. ~(off' > Len(data))
      BY <1>8, Zenon DEF TooShort
    <3>2. Len(data) \in Nat
      <4>1. data \in Seq(Octet)
        BY Zenon DEF DecoderInv
      <4>. QED BY <4>1
    <3>. QED BY <2>3, <3>1, <3>2
  <2>5. IsStack(stack) /\ Len(stack) <= off' - start
    BY <2>3, StackFits
  <2>6. CASE "blob" \in Fallible /\ Fail(error)
    BY <1>2, <1>8, <2>1, <2>3, <2>4, <2>6, NoBlobKeeps DEF s, n, f
  <2>7. CASE Deliver(BenStr(SubSeq(data, p + 1, p + n)), stack)
    <3>1. SubSeq(data, p + 1, p + n) \in Seq(Octet)
      <4>1. data \in Seq(Octet)
        BY Zenon DEF DecoderInv
      <4> DEFINE a == p + 1
                 b == p + n
      <4>2. a \in Nat /\ b \in Int /\ 1 <= a /\ b = off'
        BY <2>1, <2>2, <2>3
      <4> HIDE DEF a, b
      <4>3. \A i \in a..b : i \in 1..Len(data)
        BY <2>4, <4>1, <4>2
      <4>4. \A i \in a..b : data[i] \in Octet
        BY <4>1, <4>3
      <4>5. SubSeq(data, a, b) \in Seq(Octet)
        BY <4>2, <4>4, SubSeqProperties
      <4>. QED BY <4>5 DEF a, b
    <3>2. IsValue(BenStr(SubSeq(data, p + 1, p + n)))
      BY <3>1, ValuesAre
    <3>. QED BY <1>2, <2>3, <2>4, <2>5, <2>7, <3>2, DeliveredKeeps
  <2>. QED BY <1>8, <2>6, <2>7
<1>. QED BY <1>5, <1>7, <1>8 DEF DecodeStr, s, n, f

LEMMA OpenKeeps ==
  ASSUME DecoderInv, NEW c, NEW type \in {"dict", "list"}, Open(c, type)
  PROVE  DecoderInv'
<1>1. Enter
  BY DEF Open
<1>2. /\ status = "busy" /\ UNCHANGED callVars /\ level' \in Nat /\ level' <= MaxLevel
      /\ off + 1 <= Len(data)
  BY <1>1, AtEnter
<1>3. /\ off \in Nat /\ off <= Len(data) /\ start \in Nat /\ start <= off
      /\ IsStack(stack) /\ Len(stack) <= off - start
  BY Zenon DEF DecoderInv
<1>4. CASE /\ off' = off + 1 /\ stack' = Append(stack, Frame(type))
           /\ UNCHANGED <<error, value, status>>
  <2>1. /\ IsStack(stack') /\ Len(stack') = Len(stack) + 1 /\ Len(stack) \in Nat
    BY <1>3, <1>4, NewFrame, Pushed
  <2> DEFINE l == Len(stack)
             m == Len(stack')
  <2>2. l \in Nat /\ m = l + 1 /\ l <= off - start
    BY <1>3, <2>1, Zenon
  <2> HIDE DEF l, m
  <2>3. m <= off' - start /\ off' \in Nat /\ off <= off' /\ off' <= Len(data)
    <3>1. off' = off + 1
      BY <1>4
    <3>2. off' \in Nat /\ off <= off'
      BY <1>3, <3>1
    <3>3. m <= off' - start
      <4>1. \A x, y, a, b \in Nat : x <= a - b /\ y = x + 1 /\ b <= a => y <= (a + 1) - b
        OBVIOUS
      <4>2. m \in Nat
        BY <2>2
      <4>. QED BY <1>3, <2>2, <3>1, <4>1, <4>2, Zenon
    <3>. QED BY <1>2, <3>1, <3>2, <3>3
  <2>4. GoesOn /\ Outcome /\ level' <= MaxLevel + 1
    BY <1>2, <1>4, DecoderAssumption DEF GoesOn, Outcome
  <2>. QED BY <1>2, <2>1, <2>3, <2>4, StepKeeps DEF m
<1>5. CASE NoStruct /\ off' = off
  <2>1. off <= off'
    BY <1>3, <1>5
  <2>. QED BY <1>2, <1>3, <1>5, <2>1, NoStructKeeps
<1>. QED BY <1>4, <1>5 DEF Open

LEMMA EndOfDataKeeps == ASSUME DecoderInv, EndOfData PROVE DecoderInv'
<1>1. /\ status = "busy" /\ UNCHANGED callVars /\ off' = off /\ level' = level
      /\ Fail("insufficient")
  BY DEF EndOfData, Looping
<1>2. off \in Nat /\ off <= Len(data) /\ level \in Nat /\ level <= MaxLevel + 1
  BY Zenon DEF DecoderInv
<1>3. off <= off' /\ level' \in Nat /\ level' <= MaxLevel + 1
  BY <1>1, <1>2
<1>. QED BY <1>1, <1>2, <1>3, FailKeeps

(* Freeing through an array that is gone leaves nothing to be relied on;   *)
(* until then nothing has changed.                                         *)
LEMMA NoRoomKeeps == ASSUME DecoderInv, NoRoomForKey PROVE DecoderInv'
<1>1. /\ status = "busy" /\ UNCHANGED callVars /\ off' = off /\ level' = level
  BY DEF NoRoomForKey, Looping
<1>2. off \in Nat /\ off <= Len(data) /\ level \in Nat /\ level <= MaxLevel + 1
  BY Zenon DEF DecoderInv
<1>3. off <= off' /\ level' \in Nat /\ level' <= MaxLevel + 1
  BY <1>1, <1>2
<1>4. CASE Fail("no memory")
  BY <1>1, <1>2, <1>3, <1>4, FailKeeps
<1>5. CASE status' = "undefined" /\ UNCHANGED <<error, stack, value>>
  <2>1. UNCHANGED <<data, exact, start, off, level, error, stack, value>>
    BY <1>1, <1>5 DEF callVars
  <2>2. ErrorReported'
    BY <1>5 DEF ErrorReported
  <2>. QED BY <1>1, <1>5, <2>1, <2>2 DEF DecoderInv
<1>. QED BY <1>4, <1>5 DEF NoRoomForKey

LEMMA CloseKeeps == ASSUME DecoderInv, Close PROVE DecoderInv'
<1>1. /\ status = "busy" /\ UNCHANGED callVars /\ level' = level /\ off' = off + 1
      /\ stack # <<>> /\ ~AtEnd
  BY DEF Close, Looping
<1>2. /\ off \in Nat /\ off <= Len(data) /\ start \in Nat /\ start <= off
      /\ IsStack(stack) /\ Len(stack) <= off - start
      /\ level \in Nat /\ data \in Seq(Octet)
  BY Zenon DEF DecoderInv
<1>3. level' \in Nat /\ level' <= MaxLevel
  BY <1>1, <1>2, Zenon DEF DecoderInv
<1>4. off' \in Nat /\ off <= off' /\ off' <= Len(data)
  <2>1. Len(data) \in Nat /\ off < Len(data)
    BY <1>1, <1>2 DEF AtEnd
  <2>. QED BY <1>1, <1>2, <2>1
<1>5. IsStack(Front(stack)) /\ Len(Front(stack)) = Len(stack) - 1 /\ Len(stack) \in Nat \ {0}
  BY <1>1, <1>2, Popped
<1>6. Len(Front(stack)) <= off' - start
  <2> DEFINE l == Len(stack)
             m == Len(Front(stack))
  <2>1. l \in Nat /\ l # 0 /\ m = l - 1
    BY <1>5
  <2>2. l <= off - start
    BY <1>2, Zenon
  <2> HIDE DEF l, m
  <2>3. m \in Nat
    BY <2>1
  <2>4. \A x, y, a, b \in Nat : x <= a - b /\ y = x - 1 /\ b <= a => y <= (a + 1) - b
    OBVIOUS
  <2>5. m <= off' - start
    BY <1>1, <1>2, <2>1, <2>2, <2>3, <2>4, Zenon
  <2>. QED BY <2>5 DEF m
<1>7. ASSUME NEW v, IsValue(v), Deliver(v, Front(stack)) PROVE DecoderInv'
  BY <1>1, <1>3, <1>4, <1>5, <1>6, <1>7, DeliveredKeeps
<1>8. CASE Deliver(BenDict(Top.keys, Top.values), Front(stack))
  BY <1>7, <1>8, ValuesAre
<1>9. CASE Deliver(BenList(Top.values), Front(stack))
  BY <1>7, <1>9, ValuesAre
<1>. QED BY <1>8, <1>9 DEF Close

(* A call starts with nothing open. *)
LEMMA CallKeeps ==
  ASSUME status' = "busy", data' \in Seq(Octet), exact' \in BOOLEAN,
         start' = off', off' \in Nat, off' <= Len(data'),
         level' = 0, error' = "ok", stack' = <<>>
  PROVE  DecoderInv'
<1>1. IsStack(stack') /\ Len(stack') = 0
  BY EmptyStack
<1>2. off' - start' = 0 /\ start' <= off' /\ start' \in Nat
  BY SelfDifference, Zenon
<1>3. Len(stack') <= off' - start'
  <2>1. 0 <= 0
    OBVIOUS
  <2>. QED BY <1>1, <1>2, <2>1, Zenon
<1>4. level' \in Nat /\ level' <= MaxLevel /\ level' <= MaxLevel + 1
  BY DecoderAssumption
<1>5. ErrorReported'
  BY DEF ErrorReported
<1>. QED BY <1>1, <1>2, <1>3, <1>4, <1>5 DEF DecoderInv

LEMMA BenDecodeKeeps ==
  ASSUME DecoderInv, NEW d \in Seq(Octet), BenDecode(d)
  PROVE  DecoderInv'
<1>1. d \in Seq(Octet) /\ Len(d) \in Nat
  OBVIOUS
<1>2. /\ status = "idle" /\ data' = d /\ exact' = TRUE /\ status' = "busy"
      /\ UNCHANGED <<start, off, level, error, stack>>
  BY DEF BenDecode, ctxVars
<1>3. start = 0 /\ off = 0 /\ stack = <<>> /\ error = "ok" /\ level = 0
  BY <1>2, Zenon DEF DecoderInv
<1>4. off' <= Len(data')
  BY <1>1, <1>2, <1>3
<1>. QED BY <1>1, <1>2, <1>3, <1>4, CallKeeps

LEMMA BenDecode2Keeps ==
  ASSUME DecoderInv, NEW d \in Seq(Octet), NEW from \in 0..Len(d), BenDecode2(d, from)
  PROVE  DecoderInv'
<1>1. d \in Seq(Octet) /\ Len(d) \in Nat
  OBVIOUS
<1>2. /\ status = "idle" /\ data' = d /\ exact' = FALSE /\ status' = "busy"
      /\ start' = from /\ off' = from
      /\ UNCHANGED <<level, error, stack>>
  BY DEF BenDecode2
<1>3. stack = <<>> /\ error = "ok" /\ level = 0
  BY <1>2, Zenon DEF DecoderInv
<1>4. off' \in Nat /\ off' <= Len(data')
  BY <1>1, <1>2
<1>. QED BY <1>1, <1>2, <1>3, <1>4, CallKeeps

LEMMA GoOnKeeps == ASSUME DecoderInv, GoOn PROVE DecoderInv'
<1>1. /\ status = "ok" /\ start' = off /\ off' = off /\ level' = 0 /\ status' = "busy"
      /\ UNCHANGED <<data, exact, error, stack>>
  BY DEF GoOn
<1>2. /\ stack = <<>> /\ error = "ok" /\ off \in Nat /\ off <= Len(data)
      /\ data \in Seq(Octet) /\ exact \in BOOLEAN
  BY <1>1, Zenon DEF DecoderInv
<1>. QED BY <1>1, <1>2, CallKeeps

LEMMA DecoderInvInit == DecoderInit => DecoderInv
<1> SUFFICES ASSUME DecoderInit PROVE DecoderInv
  OBVIOUS
<1> USE DEF DecoderInit
<1>1. IsStack(stack) /\ Len(stack) = 0
  BY EmptyStack
<1>2. data = <<>> /\ data \in Seq(Octet) /\ Len(data) = 0
  OBVIOUS
<1>3. ErrorReported
  BY DEF ErrorReported
<1>4. level \in Nat /\ level <= MaxLevel + 1 /\ off - start = 0 /\ off <= 0
  BY DecoderAssumption
<1>5. Len(stack) <= off - start /\ off <= Len(data)
  <2>1. 0 <= 0
    OBVIOUS
  <2>. QED BY <1>1, <1>2, <1>4, <2>1, Zenon
<1>. QED BY <1>1, <1>2, <1>3, <1>4, <1>5 DEF DecoderInv

LEMMA DecoderStepKeeps == ASSUME DecoderInv, DecoderStep PROVE DecoderInv'
<1>1. CASE OpenDict \/ OpenList
  BY <1>1, OpenKeeps DEF OpenDict, OpenList
<1>. QED BY <1>1, TooManyValuesKeeps, TruncatedKeeps, UnknownTypeKeeps,
            DecodeBoolKeeps, DecodeIntKeeps, DecodeStrKeeps, EndOfDataKeeps,
            NoRoomKeeps, CloseKeeps, Zenon DEF DecoderStep

LEMMA DecoderStutterKeeps == ASSUME DecoderInv, UNCHANGED decoderVars PROVE DecoderInv'
<1>1. UNCHANGED <<data, exact, start, off, level, error, stack, value, status>>
  BY DEF decoderVars, callVars, ctxVars
<1>2. ErrorReported => ErrorReported'
  BY <1>1 DEF ErrorReported, StringFrom, Ends, NumberText, Find
<1>. QED BY <1>1, <1>2 DEF DecoderInv

LEMMA DecoderInvNext == DecoderInv /\ [DecoderNext]_decoderVars => DecoderInv'
<1> SUFFICES ASSUME DecoderInv, [DecoderNext]_decoderVars PROVE DecoderInv'
  OBVIOUS
<1>1. ASSUME NEW d \in Inputs
      PROVE  /\ BenDecode(d) => DecoderInv'
             /\ \A from \in 0..Len(d) : BenDecode2(d, from) => DecoderInv'
  <2>1. d \in Seq(Octet)
    BY DecoderAssumption
  <2>. QED BY <2>1, BenDecodeKeeps, BenDecode2Keeps
<1>. QED BY <1>1, DecoderStepKeeps, DecoderStutterKeeps, GoOnKeeps DEF DecoderNext

-----------------------------------------------------------------------------
(* What the invariant says of the properties. *)
LEMMA InvInBounds == DecoderInv => InBounds
<1> SUFFICES ASSUME DecoderInv PROVE InBounds
  OBVIOUS
<1>1. /\ start \in Nat /\ off \in Nat /\ start <= off /\ off <= Len(data)
      /\ Len(stack) <= off - start /\ data \in Seq(Octet)
  BY Zenon DEF DecoderInv
<1>. QED BY <1>1 DEF InBounds

LEMMA InvKeysAscend == DecoderInv => KeysAscend
<1> SUFFICES ASSUME DecoderInv, NEW i \in DOMAIN stack
             PROVE  /\ Len(stack[i].keys) = Len(stack[i].values) \/ stack[i].type = "list"
                    /\ \A j \in DOMAIN stack[i].keys : stack[i].keys[j] \in AllKeys
                    /\ \A j \in 2..Len(stack[i].keys) :
                         Cmp(stack[i].keys[j - 1], stack[i].keys[j]) < 0
                    /\ stack[i].key # None /\ stack[i].keys # <<>> =>
                         Cmp(Last(stack[i].keys), stack[i].key) < 0
  BY DEF KeysAscend
<1>1. IsFrame(stack[i])
  BY Zenon DEF DecoderInv, IsStack
<1>. QED BY <1>1 DEF IsFrame, Ascending, Follows

(***************************************************************************)
(* Whatever the data is, the decoder has never read beyond its end, which  *)
(* decode asserts, and each of its open calls has an octet of its own.     *)
(***************************************************************************)
THEOREM DecoderInBounds == DecoderSpec => []InBounds
<1>. QED BY DecoderInvInit, DecoderInvNext, InvInBounds, PTL DEF DecoderSpec

(***************************************************************************)
(* The assertion of ben_decode2, a value or an error, can fail in one way  *)
(* only, whatever the data: ben_blob finds no memory for a string.         *)
(***************************************************************************)
THEOREM DecoderReports == DecoderSpec => []ErrorReported
<1>1. DecoderInv => ErrorReported
  BY Zenon DEF DecoderInv
<1>. QED BY DecoderInvInit, DecoderInvNext, <1>1, PTL DEF DecoderSpec

(***************************************************************************)
(* However deep dictionaries are nested in each other: the keys each has   *)
(* so far are integers and strings and strictly ascend.                    *)
(***************************************************************************)
THEOREM DecoderKeys == DecoderSpec => []KeysAscend
<1>. QED BY DecoderInvInit, DecoderInvNext, InvKeysAscend, PTL DEF DecoderSpec

(* The history variable is a flag. *)
Flag == clipped \in BOOLEAN

LEMMA ClippedIsFlag ==
  ASSUME Flag,
         DecoderStep \/ GoOn \/ (\E d : BenDecode(d) \/ \E from : BenDecode2(d, from))
           \/ UNCHANGED decoderVars
  PROVE  Flag'
<1> USE DEF Flag
<1>1. \A s : Clip(s) => clipped' \in BOOLEAN
  BY DEF Clip
<1>2. CASE DecodeBool \/ OpenDict \/ OpenList \/ UnknownType
  BY <1>2 DEF DecodeBool, OpenDict, OpenList, Open, UnknownType
<1>3. CASE DecodeInt \/ DecodeStr
  BY <1>1, <1>3, Zenon DEF DecodeInt, DecodeStr
<1>4. CASE TooManyValues \/ Truncated \/ EndOfData \/ NoRoomForKey \/ Close
  BY <1>4 DEF TooManyValues, Truncated, EndOfData, NoRoomForKey, Close
<1>5. CASE DecoderStep
  BY <1>2, <1>3, <1>4, <1>5, Zenon DEF DecoderStep
<1>6. CASE GoOn \/ UNCHANGED decoderVars
  BY <1>6 DEF GoOn, decoderVars
<1>7. ASSUME NEW d, BenDecode(d) \/ \E from : BenDecode2(d, from)
      PROVE  clipped' \in BOOLEAN
  BY <1>7 DEF BenDecode, BenDecode2
<1>. QED BY <1>5, <1>6, <1>7

LEMMA InvTypes == DecoderInv /\ Flag => DecoderTypeOK
<1> SUFFICES ASSUME DecoderInv, Flag PROVE DecoderTypeOK
  OBVIOUS
<1>1. /\ data \in Seq(Octet) /\ exact \in BOOLEAN /\ level \in Nat /\ level <= MaxLevel + 1
      /\ error \in {"ok", "invalid", "insufficient", "no memory"}
      /\ status \in {"idle", "busy", "ok", "failed", "undefined"}
      /\ IsStack(stack)
  BY Zenon DEF DecoderInv
<1>2. level \in 0..(MaxLevel + 1)
  <2>1. \A l, m \in Nat : l <= m + 1 => l \in 0..(m + 1)
    OBVIOUS
  <2>. QED BY <1>1, <2>1, DecoderAssumption, Zenon
<1>3. \A i \in DOMAIN stack : stack[i].type \in {"dict", "list"}
  BY <1>1 DEF IsStack, IsFrame
<1>. QED BY <1>1, <1>2, <1>3, Zenon DEF DecoderTypeOK, Flag

(***************************************************************************)
(* The variables of struct decode have their types, and level stays below  *)
(* its limit but for the call that is refused because of it.               *)
(***************************************************************************)
THEOREM DecoderTypes == DecoderSpec => []DecoderTypeOK
<1>1. DecoderInit => Flag
  BY DEF DecoderInit, Flag
<1>2. Flag /\ [DecoderNext]_decoderVars => Flag'
  BY ClippedIsFlag DEF DecoderNext
<1>. QED BY DecoderInvInit, DecoderInvNext, InvTypes, <1>1, <1>2, PTL DEF DecoderSpec
-----------------------------------------------------------------------------
(* A call comes to its end: each step is the last or takes an octet.       *)

(* A step is one of a call that has begun. *)
LEMMA StepIsBusy == DecoderStep => status = "busy" /\ UNCHANGED callVars
<1> SUFFICES ASSUME DecoderStep PROVE status = "busy" /\ UNCHANGED callVars
  OBVIOUS
<1>1. CASE TooManyValues \/ Truncated
  BY <1>1 DEF TooManyValues, Truncated, Calls
<1>2. CASE UnknownType \/ DecodeBool \/ DecodeInt \/ DecodeStr \/ OpenDict \/ OpenList
  <2>1. Enter
    BY <1>2 DEF UnknownType, DecodeBool, DecodeInt, DecodeStr, OpenDict, OpenList, Open
  <2>. QED BY <2>1 DEF Enter, Calls
<1>3. CASE EndOfData \/ NoRoomForKey \/ Close
  BY <1>3 DEF EndOfData, NoRoomForKey, Close, Looping
<1>. QED BY <1>1, <1>2, <1>3 DEF DecoderStep

(* What was begun stays so. *)

LEMMA DeliverStarted ==
  ASSUME status = "busy", NEW v, NEW frames, Deliver(v, frames)
  PROVE  status' # "idle"
<1>1. (\E e : Fail(e)) \/ Return(v) \/ (\E f : Replace(frames, f))
  BY Zenon DEF Deliver
<1>. QED BY <1>1 DEF Fail, Return, Replace

LEMMA StepStarted == ASSUME DecoderStep PROVE status' # "idle"
<1>1. status = "busy"
  BY StepIsBusy
<1>2. CASE TooManyValues \/ Truncated \/ UnknownType \/ EndOfData \/ NoRoomForKey
  BY <1>2 DEF TooManyValues, Truncated, UnknownType, EndOfData, NoRoomForKey, Fail
<1>3. CASE OpenDict \/ OpenList
  BY <1>1, <1>3 DEF OpenDict, OpenList, Open, NoStruct, Fail
<1>4. CASE DecodeBool
  <2>1. (\E e : Fail(e)) \/ \E v : Deliver(v, stack)
    BY <1>4, Zenon DEF DecodeBool, NoStruct
  <2>. QED BY <1>1, <2>1, DeliverStarted DEF Fail
<1>5. CASE DecodeInt
  <2>1. (\E e : Fail(e)) \/ \E v : Deliver(v, stack)
    BY <1>5, Zenon DEF DecodeInt, NoStruct
  <2>. QED BY <1>1, <2>1, DeliverStarted DEF Fail
<1>6. CASE DecodeStr
  <2>1. (\E e : Fail(e)) \/ \E v : Deliver(v, stack)
    BY <1>6, Zenon DEF DecodeStr
  <2>. QED BY <1>1, <2>1, DeliverStarted DEF Fail
<1>7. CASE Close
  <2>1. \E v : Deliver(v, Front(stack))
    BY <1>7, Zenon DEF Close
  <2>. QED BY <1>1, <2>1, DeliverStarted
<1>. QED BY <1>2, <1>3, <1>4, <1>5, <1>6, <1>7, Zenon DEF DecoderStep

(* What a step makes of the call it is one of. *)
StepOn ==
  /\ UNCHANGED callVars
  /\ \/ status' = "busy" /\ off < off' /\ off' <= Len(data)
     \/ status' \in {"ok", "failed", "undefined"}

LEMMA FailIsLast == \A e : Fail(e) => status' # "busy"
  BY DEF Fail

LEMMA NumberTakes ==
  ASSUME DecoderInv, DecodeInt, status' = "busy"
  PROVE  off < off'
<1> DEFINE f == Find(off + 1, "e")
<1>1. Ends(off + 1, "e") # {} /\ off' = f + 1
  BY FailIsLast, Zenon DEF DecodeInt
<1>2. off \in Nat
  BY Zenon DEF DecoderInv
<1>3. f \in Nat /\ off + 1 <= f
  BY <1>1, <1>2, FindIs
<1> HIDE DEF f
<1>. QED BY <1>1, <1>2, <1>3

LEMMA StringTakes ==
  ASSUME DecoderInv, DecodeStr, status' = "busy"
  PROVE  off < off'
<1> DEFINE s == NumberText(off, ":")
           n == LongLong(CString(s))
           f == Find(off, ":")
<1>1. Ends(off, ":") # {} /\ IsSize(s) /\ off' = f + 1 + n
  BY FailIsLast, Zenon DEF DecodeStr
<1>2. off \in Nat
  BY Zenon DEF DecoderInv
<1>3. f \in Nat /\ off <= f
  BY <1>1, <1>2, FindIs
<1>4. n \in Int /\ n >= 0
  BY <1>1, LongLongIsInt DEF IsSize
<1> HIDE DEF n, f, s
<1>. QED BY <1>1, <1>2, <1>3, <1>4

LEMMA StepTakes ==
  ASSUME DecoderInv, DecoderStep, status' = "busy"
  PROVE  off < off'
<1>1. off \in Nat
  BY Zenon DEF DecoderInv
<1>2. ~(TooManyValues \/ Truncated \/ UnknownType \/ EndOfData \/ NoRoomForKey)
  BY FailIsLast DEF TooManyValues, Truncated, UnknownType, EndOfData, NoRoomForKey
<1>3. CASE DecodeBool
  <2>1. off' = off + 2
    BY <1>3, FailIsLast, Zenon DEF DecodeBool, NoStruct
  <2>. QED BY <1>1, <2>1
<1>4. CASE OpenDict \/ OpenList \/ Close
  <2>1. off' = off + 1
    BY <1>4, FailIsLast, Zenon DEF OpenDict, OpenList, Open, Close, NoStruct
  <2>. QED BY <1>1, <2>1
<1>. QED BY <1>2, <1>3, <1>4, NumberTakes, StringTakes, Zenon DEF DecoderStep

LEMMA StepIsOn == ASSUME DecoderInv, DecoderInv', DecoderStep PROVE StepOn
<1>1. UNCHANGED callVars /\ status' # "idle"
  BY StepIsBusy, StepStarted
<1>2. status' \in {"idle", "busy", "ok", "failed", "undefined"} /\ off' <= Len(data')
  BY Zenon DEF DecoderInv
<1>3. data' = data
  BY <1>1 DEF callVars
<1>. QED BY <1>1, <1>2, <1>3, StepTakes DEF StepOn

(***************************************************************************)
(* Whatever the data is and however containers nest in it: each step of    *)
(* decode is the last of its call, or takes an octet of the data and       *)
(* leaves off within them.  So the loops of decode_dict and decode_list,   *)
(* and the calls they make of decode, come to their end.                   *)
(***************************************************************************)
THEOREM DecoderAdvances == DecoderSpec => Advances
<1>1. ASSUME DecoderInv, DecoderInv', [DecoderNext]_decoderVars, status = "busy"
      PROVE  UNCHANGED decoderVars \/ StepOn
  BY <1>1, StepIsOn DEF DecoderNext, BenDecode, BenDecode2, GoOn
<1>2. DecoderInv /\ DecoderInv' /\ [DecoderNext]_decoderVars =>
        [status = "busy" => StepOn]_decoderVars
  BY <1>1, Zenon
<1>3. [status = "busy" => StepOn]_decoderVars =>
        [status = "busy" =>
           /\ UNCHANGED callVars
           /\ \/ status' = "busy" /\ off < off' /\ off' <= Len(data)
              \/ status' \in {"ok", "failed", "undefined"}]_decoderVars
  BY Zenon DEF StepOn
<1>. QED BY DecoderInvInit, DecoderInvNext, <1>2, <1>3, PTL DEF DecoderSpec, Advances
=============================================================================
