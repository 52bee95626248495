------------------------------ MODULE Sha1Proofs -----------------------------
(***************************************************************************)
(* However a message is cut into calls of sha1_update, its digest is that  *)
(* of the message padded as SHA-1 says: for every size of blocks, words    *)
(* and octets that Sha1Assumption allows, and the laws of powers that      *)
(* PowersAssumption states.                                                *)
(***************************************************************************)
EXTENDS Sha1, SequenceTheorems, TLAPS

LEMMA Sizes ==
  /\ BlockSize \in Nat \ {0} /\ WordOctets \in Nat \ {0} /\ OctetBits \in Nat \ {0}
  /\ LengthSize = 2 * WordOctets /\ LengthSize \in Nat
  /\ TailStart \in Nat \ {0} /\ TailStart + LengthSize = BlockSize
  /\ OctetLimit \in Nat \ {0} /\ WordLimit \in Nat \ {0}
  /\ Mark \in Int
BY Sha1Assumption, PowersAssumption DEF LengthSize, TailStart, Mark

-----------------------------------------------------------------------------
(* Division. *)

LEMMA DivMod ==
  ASSUME NEW a \in Int, NEW d \in Nat \ {0}
  PROVE  a = (a \div d) * d + (a % d) /\ a % d \in 0..(d - 1) /\ a \div d \in Int
OBVIOUS

LEMMA DivUnique ==
  ASSUME NEW a \in Int, NEW d \in Nat \ {0}, NEW q \in Int, NEW r \in 0..(d - 1),
         a = q * d + r
  PROVE  a \div d = q
<1>1. a = (a \div d) * d + (a % d) /\ a % d \in 0..(d - 1) /\ a \div d \in Int
  OBVIOUS
<1> DEFINE e == a \div d
           s == a % d
<1> HIDE DEF e, s
<1>2. e \in Int /\ s \in 0..(d - 1) /\ e * d + s = q * d + r
  BY <1>1 DEF e, s
<1>3. (q - e) * d = s - r /\ s - r < d /\ r - s < d
  BY <1>2
<1>4. ASSUME q > e PROVE FALSE
  <2>1. (q - e) * d >= d
    BY <1>2, <1>4
  <2> QED BY <1>2, <1>3, <2>1
<1>5. ASSUME q < e PROVE FALSE
  <2>1. (e - q) * d >= d /\ (e - q) * d = r - s
    BY <1>2, <1>3, <1>5
  <2> QED BY <1>2, <1>3, <2>1
<1> QED BY <1>2, <1>4, <1>5 DEF e

LEMMA ModUnique ==
  ASSUME NEW a \in Int, NEW d \in Nat \ {0}, NEW y \in Int
  PROVE  (y * d + a) % d = a % d
<1> DEFINE q == a \div d
           r == a % d
<1>1. a = q * d + r /\ r \in 0..(d - 1) /\ q \in Int
  OBVIOUS
<1> HIDE DEF q, r
<1>2. y * d + a = (y + q) * d + r /\ y + q \in Int /\ y * d + a \in Int
  BY <1>1
<1>3. (y * d + a) \div d = y + q
  BY <1>1, <1>2, DivUnique
<1>4. y * d + a = ((y * d + a) \div d) * d + ((y * d + a) % d)
  BY <1>2
<1>5. (y * d + a) % d = r
  BY <1>1, <1>2, <1>3, <1>4
<1> QED BY <1>5 DEF r

-----------------------------------------------------------------------------
(* The octets of the length. *)

(* One of the high word is the octet of the two words together.            *)
LEMMA HighOctet ==
  ASSUME NEW h \in Nat, NEW l \in 0..(WordLimit - 1), NEW e \in 0..(WordOctets - 1)
  PROVE  (h * WordLimit + l) \div OctetLimit ^ (WordOctets + e) = h \div OctetLimit ^ e
<1> DEFINE p == OctetLimit ^ e
           w == WordLimit
           a == h \div p
           b == h % p
<1>1. p \in Nat \ {0} /\ w \in Nat \ {0} /\ OctetLimit ^ (WordOctets + e) = w * p
  BY PowersAssumption
<1> HIDE DEF p, w
<1>2. h = a * p + b /\ b \in 0..(p - 1) /\ a \in Int
  BY <1>1
<1> HIDE DEF a, b
<1>3. l \in 0..(w - 1)
  BY DEF w
<1>4. h * w + l = a * (w * p) + (b * w + l)
  <2>1. h * w = (a * p + b) * w
    BY <1>2
  <2>2. (a * p + b) * w = a * (w * p) + b * w
    BY <1>1, <1>2
  <2> QED BY <1>1, <1>2, <1>3, <2>1, <2>2
<1>5. b * w + l \in 0..(w * p - 1)
  <2>1. b * w <= (p - 1) * w
    BY <1>1, <1>2
  <2>2. (p - 1) * w = w * p - w
    BY <1>1
  <2>3. b * w \in Nat /\ w * p \in Nat
    BY <1>1, <1>2
  <2> QED BY <1>1, <1>3, <2>1, <2>2, <2>3
<1>6. w * p \in Nat \ {0}
  BY <1>1
<1>7. h * w + l \in Int
  BY <1>1, <1>3
<1>8. (h * w + l) \div (w * p) = a
  BY <1>2, <1>4, <1>5, <1>6, <1>7, DivUnique
<1> QED BY <1>1, <1>8 DEF a, p, w

(* So is one of the low word. *)
LEMMA LowOctet ==
  ASSUME NEW h \in Nat, NEW l \in 0..(WordLimit - 1), NEW e \in 0..(WordOctets - 1)
  PROVE  ((h * WordLimit + l) \div OctetLimit ^ e) % OctetLimit
           = (l \div OctetLimit ^ e) % OctetLimit
<1> DEFINE p == OctetLimit ^ e
           x == OctetLimit ^ (WordOctets - 1 - e)
           o == OctetLimit
           w == WordLimit
           a == l \div p
           b == l % p
<1>1. /\ p \in Nat \ {0} /\ x \in Nat /\ o \in Nat \ {0} /\ w \in Nat \ {0}
      /\ w = p * o * x
  BY PowersAssumption
<1>2. l \in 0..(w - 1)
  OBVIOUS
<1> HIDE DEF p, x, o, w
<1>3. l = a * p + b /\ b \in 0..(p - 1) /\ a \in Int
  BY <1>1, <1>2
<1> HIDE DEF a, b
<1>4. h * w + l = (h * x * o + a) * p + b
  <2>1. h * w = (h * x * o) * p
    BY <1>1
  <2>2. (h * x * o + a) * p = (h * x * o) * p + a * p
    BY <1>1, <1>3
  <2> QED BY <1>1, <1>2, <1>3, <2>1, <2>2
<1>5. h * x * o + a \in Int /\ h * w + l \in Int /\ h * x \in Int
  BY <1>1, <1>2, <1>3
<1>6. (h * w + l) \div p = h * x * o + a
  BY <1>1, <1>3, <1>4, <1>5, DivUnique
<1>7. (h * x * o + a) % o = a % o
  BY <1>1, <1>3, <1>5, ModUnique
<1> QED BY <1>6, <1>7 DEF a, p, o, w

LEMMA LengthOctetIs ==
  ASSUME NEW n \in Nat, Length_High \in Nat, Length_Low \in 0..(WordLimit - 1),
         Length_High * WordLimit + Length_Low = OctetBits * n,
         NEW j \in 0..(LengthSize - 1)
  PROVE  /\ LengthOctet(j)
              = ((OctetBits * n) \div OctetLimit ^ (LengthSize - 1 - j)) % OctetLimit
         /\ LengthOctet(j) \in Int
<1> DEFINE e == IF j < WordOctets THEN WordOctets - 1 - j ELSE LengthSize - 1 - j
<1>1. WordOctets \in Nat \ {0} /\ LengthSize = 2 * WordOctets
  BY Sizes
<1>2. e \in 0..(WordOctets - 1)
  BY <1>1
<1>3. CASE j < WordOctets
  <2>1. LengthSize - 1 - j = WordOctets + e /\ WordOctets - 1 - j = e
    BY <1>1, <1>3
  <2>2. LengthOctet(j) = (Length_High \div OctetLimit ^ e) % OctetLimit
    BY <1>3, <2>1 DEF LengthOctet, OctetOf
  <2>3. LengthOctet(j)
          = ((OctetBits * n) \div OctetLimit ^ (LengthSize - 1 - j)) % OctetLimit
    BY <1>2, <2>1, <2>2, HighOctet
  <2>4. OctetLimit ^ e \in Nat \ {0} /\ OctetLimit \in Nat \ {0}
    BY <1>2, PowersAssumption
  <2> HIDE DEF e
  <2> QED BY <2>2, <2>3, <2>4
<1>4. CASE ~(j < WordOctets)
  <2>1. LengthSize - 1 - j = e /\ WordOctets - 1 - (j - WordOctets) = e
    BY <1>1, <1>4
  <2>2. LengthOctet(j) = (Length_Low \div OctetLimit ^ e) % OctetLimit
    BY <1>4, <2>1 DEF LengthOctet, OctetOf
  <2>3. LengthOctet(j)
          = ((OctetBits * n) \div OctetLimit ^ (LengthSize - 1 - j)) % OctetLimit
    BY <1>2, <2>1, <2>2, LowOctet
  <2>4. OctetLimit ^ e \in Nat \ {0} /\ OctetLimit \in Nat \ {0}
    BY <1>2, PowersAssumption
  <2> HIDE DEF e
  <2> QED BY <2>2, <2>3, <2>4
<1> QED BY <1>3, <1>4

-----------------------------------------------------------------------------
(* Types. *)

(* A block is a sequence of its octets. *)
LEMMA BlockSeq ==
  ASSUME NEW block \in [Octets -> Int]
  PROVE  /\ AsSequence(block) \in Seq(Int)
         /\ Len(AsSequence(block)) = BlockSize
         /\ \A j \in Octets : AsSequence(block)[j + 1] = block[j]
<1>1. BlockSize \in Nat
  BY Sizes
<1>2. \A k \in 1..BlockSize : k - 1 \in Octets /\ block[k - 1] \in Int
  BY <1>1 DEF Octets
<1>3. AsSequence(block) \in [1..BlockSize -> Int]
  BY <1>2 DEF AsSequence
<1>4. \A j \in Octets : j + 1 \in 1..BlockSize /\ (j + 1) - 1 = j
  BY <1>1 DEF Octets
<1>5. \A j \in Octets : AsSequence(block)[j + 1] = block[j]
  BY <1>4 DEF AsSequence
<1> HIDE DEF AsSequence
<1>6. AsSequence(block) \in Seq(Int) /\ Len(AsSequence(block)) = BlockSize
  BY <1>1, <1>3, SeqDef, LenProperties
<1> QED BY <1>5, <1>6

(* A block put behind what has been compressed. *)
LEMMA Extend ==
  ASSUME NEW s \in Seq(Int), NEW block \in [Octets -> Int]
  PROVE  /\ s \o AsSequence(block) \in Seq(Int)
         /\ Len(s \o AsSequence(block)) = Len(s) + BlockSize
         /\ \A k \in 1..Len(s) : (s \o AsSequence(block))[k] = s[k]
         /\ \A j \in Octets : (s \o AsSequence(block))[Len(s) + j + 1] = block[j]
<1> DEFINE t == AsSequence(block)
<1>1. t \in Seq(Int) /\ Len(t) = BlockSize /\ \A j \in Octets : t[j + 1] = block[j]
  BY BlockSeq
<1> HIDE DEF t
<1>2. /\ s \o t \in Seq(Int) /\ Len(s \o t) = Len(s) + Len(t)
      /\ \A k \in 1..(Len(s) + Len(t)) :
           (s \o t)[k] = IF k <= Len(s) THEN s[k] ELSE t[k - Len(s)]
  BY <1>1, ConcatProperties
<1>3. Len(s) \in Nat /\ BlockSize \in Nat
  BY Sizes
<1>4. \A k \in 1..Len(s) : (s \o t)[k] = s[k]
  BY <1>1, <1>2, <1>3
<1>5. ASSUME NEW j \in Octets PROVE (s \o t)[Len(s) + j + 1] = block[j]
  <2>1. j \in 0..(BlockSize - 1)
    BY DEF Octets
  <2>2. Len(s) + j + 1 \in 1..(Len(s) + Len(t)) /\ ~(Len(s) + j + 1 <= Len(s))
    BY <1>1, <1>3, <2>1
  <2>3. (Len(s) + j + 1) - Len(s) = j + 1
    BY <1>3, <2>1
  <2> QED BY <1>1, <1>2, <2>2, <2>3
<1> QED BY <1>1, <1>2, <1>4, <1>5 DEF t

LEMMA Blocks ==
  ASSUME TypeOK
  PROVE  /\ Marked \in [Octets -> Int]
         /\ [k \in Octets |-> 0] \in [Octets -> Int]
         /\ \A block \in [Octets -> Int] : Ended(block) \in [Octets -> Int]
<1>1. Marked \in [Octets -> Int]
  BY Sizes DEF TypeOK, Marked, Octets
<1>2. \A j \in 0..(LengthSize - 1) : LengthOctet(j) \in Int
  <2> SUFFICES ASSUME NEW j \in 0..(LengthSize - 1) PROVE LengthOctet(j) \in Int
    OBVIOUS
  <2>1. WordOctets \in Nat \ {0} /\ LengthSize = 2 * WordOctets
    BY Sizes
  <2>2. ASSUME NEW e \in 0..(WordOctets - 1), NEW word \in Nat
        PROVE  (word \div OctetLimit ^ e) % OctetLimit \in Int
    BY PowersAssumption
  <2>3. Length_High \in Nat /\ Length_Low \in Nat
    BY Sizes DEF TypeOK
  <2>4. CASE j < WordOctets
    <3>1. WordOctets - 1 - j \in 0..(WordOctets - 1)
      BY <2>1, <2>4
    <3> QED BY <2>2, <2>3, <2>4, <3>1 DEF LengthOctet, OctetOf
  <2>5. CASE ~(j < WordOctets)
    <3>1. WordOctets - 1 - (j - WordOctets) \in 0..(WordOctets - 1)
      BY <2>1, <2>5
    <3> QED BY <2>2, <2>3, <2>5, <3>1 DEF LengthOctet, OctetOf
  <2> QED BY <2>4, <2>5
<1>3. ASSUME NEW block \in [Octets -> Int] PROVE Ended(block) \in [Octets -> Int]
  <2>1. ASSUME NEW k \in Octets, ~(k < TailStart)
        PROVE  k - TailStart \in 0..(LengthSize - 1)
    BY <2>1, Sizes DEF Octets
  <2> QED BY <1>2, <2>1 DEF Ended
<1> QED BY <1>1, <1>3

(* What a call holds is fed only while the digest is open and right.       *)
BusyInv == size > 0 => ~Computed /\ ~Corrupted

LEMMA TypeInit == Init => TypeOK /\ BusyInv
<1>1. <<>> \in Seq(Int)
  OBVIOUS
<1>2. 0 \in Octets /\ 0 \in 0..(WordLimit - 1) /\ [k \in Octets |-> 0] \in [Octets -> Int]
  BY Sizes DEF Octets
<1> QED BY <1>1, <1>2 DEF Init, TypeOK, BusyInv

LEMMA TypeFeed ==
  ASSUME TypeOK, BusyInv, Feed
  PROVE  TypeOK' /\ BusyInv'
<1>1. /\ size \in Nat \ {0} /\ message \in Nat /\ message' = message + 1
      /\ Message_Block \in [Octets -> Int] /\ Message_Block_Index \in Octets
      /\ fed \in Seq(Int)
  BY DEF TypeOK, Feed
<1>2. Message_Block' = [Message_Block EXCEPT ![Message_Block_Index] = -message']
  BY DEF Feed
<1>3. Message_Block' \in [Octets -> Int]
  BY <1>1, <1>2
<1>4. /\ Length_Low' \in 0..(WordLimit - 1) /\ Length_High' \in 0..(WordLimit - 1)
      /\ Corrupted' \in BOOLEAN
  <2>1. /\ WordLimit \in Nat \ {0} /\ Length_Low + OctetBits \in Int
        /\ Length_High + 1 \in Int /\ Length_High \in 0..(WordLimit - 1)
    BY Sizes DEF TypeOK
  <2>2. \A x \in Int : x % WordLimit \in 0..(WordLimit - 1)
    BY <2>1
  <2>3. /\ Length_Low' = (Length_Low + OctetBits) % WordLimit
        /\ Length_High' = IF Length_Low' = 0 THEN (Length_High + 1) % WordLimit
                                             ELSE Length_High
        /\ Corrupted' \in BOOLEAN
    BY DEF Feed, AddOctet
  <2>4. Length_Low' \in 0..(WordLimit - 1)
    BY <2>1, <2>2, <2>3
  <2>5. (Length_High + 1) % WordLimit \in 0..(WordLimit - 1)
    BY <2>1, <2>2
  <2>6. Length_High' \in 0..(WordLimit - 1)
    <3>1. Length_High' = (Length_High + 1) % WordLimit \/ Length_High' = Length_High
      BY <2>3, Zenon
    <3> QED BY <2>1, <2>5, <3>1
  <2> QED BY <2>3, <2>4, <2>6
<1>5. fed' \in Seq(Int) /\ Message_Block_Index' \in Octets
  <2>1. CASE Message_Block_Index + 1 = BlockSize
    <3>1. fed' = fed \o AsSequence(Message_Block') /\ Message_Block_Index' = 0
      BY <2>1 DEF Feed, Compress
    <3>2. fed' \in Seq(Int)
      BY <1>1, <1>3, <3>1, Extend
    <3> QED BY <3>1, <3>2, Sizes DEF Octets
  <2>2. CASE Message_Block_Index + 1 # BlockSize
    BY <1>1, <2>2, Sizes DEF Feed, Octets
  <2> QED BY <2>1, <2>2
<1>6. /\ size' \in Nat /\ (size' > 0 => ~Corrupted') /\ ~Computed /\ UNCHANGED Computed
      /\ UNCHANGED <<late, hash>>
  BY <1>1 DEF Feed, BusyInv
<1> QED BY <1>1, <1>3, <1>4, <1>5, <1>6 DEF TypeOK, BusyInv

LEMMA TypeResult ==
  ASSUME TypeOK, BusyInv, Result
  PROVE  TypeOK' /\ BusyInv'
<1>1. fed \in Seq(Int)
  BY DEF TypeOK
<1>2. /\ fed' \in Seq(Int) /\ Message_Block' \in [Octets -> Int]
      /\ Message_Block_Index' \in Octets
  <2>1. CASE Computed
    BY <2>1 DEF Result, blockVars, TypeOK
  <2>2. CASE ~Computed /\ TooFull
    <3> DEFINE zeros == [k \in Octets |-> 0]
               s == fed \o AsSequence(Marked)
    <3>1. Message_Block' = Ended(zeros) /\ Message_Block_Index' = 0
      BY <2>2 DEF Result, Pad
    <3>2. fed' = s \o AsSequence(Ended(zeros))
      BY <2>2 DEF Result, Pad
    <3>3. Ended(zeros) \in [Octets -> Int]
      BY Blocks
    <3>4. s \in Seq(Int)
      BY <1>1, Blocks, Extend
    <3> HIDE DEF zeros, s
    <3>5. fed' \in Seq(Int)
      BY <3>2, <3>3, <3>4, Extend
    <3> QED BY <3>1, <3>3, <3>5, Sizes DEF Octets
  <2>3. CASE ~Computed /\ ~TooFull
    <3>1. /\ Message_Block' = Ended(Marked) /\ Message_Block_Index' = 0
          /\ fed' = fed \o AsSequence(Ended(Marked))
      BY <2>3 DEF Result, Pad, Compress
    <3>2. Ended(Marked) \in [Octets -> Int]
      BY Blocks
    <3>3. fed' \in Seq(Int)
      BY <1>1, <3>1, <3>2, Extend
    <3> QED BY <3>1, <3>2, <3>3, Sizes DEF Octets
  <2> QED BY <2>1, <2>2, <2>3
<1>3. /\ hash' = fed' /\ Computed' = TRUE /\ size = 0
      /\ UNCHANGED <<lengthVars, Corrupted, size, message, late>>
  BY DEF Result
<1> QED BY <1>2, <1>3 DEF TypeOK, BusyInv, lengthVars

LEMMA TypeNext ==
  ASSUME TypeOK, BusyInv, [Next]_vars
  PROVE  TypeOK' /\ BusyInv'
<1>1. CASE Clear
  <2>1. <<>> \in Seq(Int) /\ 0 \in Octets /\ 0 \in 0..(WordLimit - 1)
    BY Sizes DEF Octets
  <2> QED BY <1>1, <2>1 DEF Clear, TypeOK, BusyInv
<1>2. ASSUME NEW n \in ChunkSizes, Update(n) PROVE TypeOK' /\ BusyInv'
  BY <1>2, Sha1Assumption DEF Update, TypeOK, BusyInv, blockVars, lengthVars
<1>3. CASE UNCHANGED vars
  BY <1>3 DEF vars, blockVars, lengthVars, flagVars, TypeOK, BusyInv
<1> QED BY <1>1, <1>2, <1>3, TypeFeed, TypeResult DEF Next

(***************************************************************************)
(* The variables of the accumulator have their types: the index is always  *)
(* one of Message_Block, and no word of the length outgrows itself.        *)
(***************************************************************************)
THEOREM Sha1Types == Spec => []TypeOK
<1>1. TypeOK /\ BusyInv /\ [Next]_vars => TypeOK' /\ BusyInv'
  BY TypeNext
<1> QED BY <1>1, TypeInit, PTL DEF Spec

(* sha1_update feeds no octet to a digest that is taken or corrupted.      *)
THEOREM Sha1Busy == Spec => []BusyInv
<1>1. TypeOK /\ BusyInv /\ [Next]_vars => TypeOK' /\ BusyInv'
  BY TypeNext
<1> QED BY <1>1, TypeInit, PTL DEF Spec

-----------------------------------------------------------------------------
(* The length. *)

(* One octet more, in two words: with or without a carry, or too many.     *)
LEMMA Carry ==
  ASSUME TypeOK, AddOctet, Length_High * WordLimit + Length_Low = OctetBits * message
  PROVE  \/ /\ Length_High' * WordLimit + Length_Low' = OctetBits * (message + 1)
            /\ OctetBits * (message + 1) < WordLimit * WordLimit
            /\ ~(Length_Low' = 0 /\ Length_High' = 0)
         \/ /\ OctetBits * (message + 1) = WordLimit * WordLimit
            /\ Length_Low' = 0 /\ Length_High' = 0
<1> DEFINE w == WordLimit
           o == OctetBits
           n == message
           high == Length_High
           low == Length_Low
           h == Length_High'
           l == Length_Low'
           d == w \div o
<1>1. /\ w \in Nat \ {0} /\ o \in Nat \ {0} /\ w % o = 0
  BY Sizes, Sha1Assumption
<1>2. /\ high \in 0..(w - 1) /\ low \in 0..(w - 1) /\ high * w + low = o * n
      /\ n \in Nat
  BY DEF TypeOK
<1>3. l = (low + o) % w /\ (l = 0 => h = (high + 1) % w) /\ (l # 0 => h = high)
  BY DEF AddOctet
<1> HIDE DEF n, high, low, h, l
<1> HIDE DEF w, o
<1>4. w = o * d /\ d \in Int
  <2>1. w = d * o + (w % o) /\ d \in Int
    BY <1>1, DivMod
  <2> QED BY <1>1, <2>1
<1> HIDE DEF d
<1>5. PICK c \in Int : low = o * c
  <2>1. high * w = o * (high * d)
    BY <1>1, <1>2, <1>4
  <2>2. low = o * (n - high * d) /\ n - high * d \in Int
    BY <1>1, <1>2, <1>4, <2>1
  <2> QED BY <2>2
<1>6. c < d
  <2>1. ASSUME c >= d PROVE FALSE
    <3>1. o * c >= o * d
      <4> DEFINE e == c - d
      <4>1. e \in Nat /\ c = d + e
        BY <1>4, <1>5, <2>1
      <4> HIDE DEF e
      <4>2. o * c = o * d + o * e /\ o * e \in Nat /\ o * d \in Int
        BY <1>1, <1>4, <4>1
      <4> QED BY <4>2
    <3> QED BY <1>1, <1>2, <1>4, <1>5, <3>1
  <2> QED BY <1>4, <1>5, <2>1
<1>7. low + o = o * (c + 1) /\ o * (n + 1) = o * n + o
  BY <1>1, <1>2, <1>5
<1>8. high * w <= w * w - w /\ high * w \in Int /\ w * w \in Int
  <2>1. high * w <= (w - 1) * w
    BY <1>1, <1>2
  <2> QED BY <1>1, <1>2, <2>1
<1>9. \A x \in 0..(w - 1) : x % w = x
  BY <1>1
<1>10. w % w = 0
  BY <1>1
<1>11. CASE c + 1 < d
  <2>1. o * (c + 1) < o * d
    BY <1>1, <1>4, <1>5, <1>11
  <2>2. low + o \in 0..(w - 1) /\ low + o # 0
    BY <1>1, <1>2, <1>4, <1>7, <2>1
  <2>3. l = low + o /\ l # 0 /\ h = high
    BY <1>3, <1>9, <2>2
  <2>4. high * w + (low + o) = o * (n + 1)
    BY <1>1, <1>2, <1>7, <1>8
  <2>5. o * (n + 1) < w * w
    BY <1>1, <1>2, <1>8, <2>2, <2>4
  <2> QED BY <2>3, <2>4, <2>5 DEF w, o, n, h, l
<1>12. CASE c + 1 = d
  <2>1. low + o = w /\ l = 0
    BY <1>3, <1>4, <1>7, <1>10, <1>12
  <2>2. high * w + w = o * (n + 1)
    BY <1>1, <1>2, <1>7, <1>8, <2>1
  <2>3. CASE high + 1 = w
    <3>1. h = 0
      BY <1>3, <1>10, <2>1, <2>3
    <3>2. high * w + w = w * w
      <4>1. (high + 1) * w = high * w + w
        BY <1>1, <1>2
      <4> QED BY <2>3, <4>1
    <3> QED BY <2>1, <2>2, <3>1, <3>2 DEF w, o, n, h, l
  <2>4. CASE high + 1 # w
    <3>1. high + 1 \in 0..(w - 1)
      BY <1>1, <1>2, <2>4
    <3>2. h = high + 1 /\ h # 0
      BY <1>2, <1>3, <1>9, <2>1, <3>1
    <3>3. h * w = high * w + w /\ h * w \in Int
      BY <1>1, <1>2, <3>2
    <3>4. h * w < w * w
      BY <1>1, <1>2, <3>1, <3>2
    <3>5. h * w + l = o * (n + 1)
      BY <2>1, <2>2, <3>3
    <3>6. o * (n + 1) < w * w
      BY <2>2, <3>3, <3>4
    <3> QED BY <3>2, <3>5, <3>6 DEF w, o, n, h, l
  <2> QED BY <2>3, <2>4
<1> QED BY <1>4, <1>5, <1>6, <1>11, <1>12

LEMMA LengthNext ==
  ASSUME TypeOK, BusyInv, LengthKept, [Next]_vars
  PROVE  LengthKept'
<1>0. /\ WordLimit \in Nat \ {0} /\ OctetBits \in Nat \ {0} /\ message \in Nat
  BY Sizes DEF TypeOK
<1>1. CASE Clear
  <2>1. /\ message' = 0 /\ Length_High' = 0 /\ Length_Low' = 0
        /\ Corrupted' = FALSE /\ late' = FALSE
    BY <1>1 DEF Clear
  <2>2. OctetBits * 0 = 0 /\ 0 < WordLimit * WordLimit /\ 0 * WordLimit + 0 = 0
    BY <1>0
  <2> QED BY <2>1, <2>2 DEF LengthKept
<1>2. CASE Feed
  <2>1. /\ ~Corrupted /\ message' = message + 1 /\ late' = late
        /\ Corrupted' = (Length_Low' = 0 /\ Length_High' = 0)
        /\ AddOctet
    BY <1>2 DEF Feed, BusyInv, AddOctet
  <2>2. Length_High * WordLimit + Length_Low = OctetBits * message /\ ~late
    BY <2>1 DEF LengthKept
  <2>3. \/ /\ Length_High' * WordLimit + Length_Low' = OctetBits * message'
           /\ OctetBits * message' < WordLimit * WordLimit
           /\ ~Corrupted'
        \/ /\ OctetBits * message' = WordLimit * WordLimit
           /\ Corrupted'
    BY <2>1, <2>2, Carry
  <2>4. ~(WordLimit * WordLimit < WordLimit * WordLimit)
    BY <1>0
  <2>5. ~late'
    BY <2>1, <2>2
  <2> QED BY <2>3, <2>4, <2>5 DEF LengthKept
<1>3. CASE Result
  BY <1>3 DEF Result, lengthVars, LengthKept
<1>4. ASSUME NEW n \in ChunkSizes, Update(n) PROVE LengthKept'
  <2>1. /\ UNCHANGED <<lengthVars, message>>
        /\ Computed \/ Corrupted => Corrupted'
        /\ ~(Computed \/ Corrupted) => UNCHANGED Corrupted
        /\ late' = (late \/ Computed)
    BY <1>4 DEF Update
  <2>2. Corrupted \in BOOLEAN /\ Computed \in BOOLEAN /\ late \in BOOLEAN
    BY DEF TypeOK
  <2>3. CASE Computed
    BY <2>1, <2>2, <2>3 DEF lengthVars, LengthKept
  <2>4. CASE ~Computed
    BY <2>1, <2>2, <2>4 DEF lengthVars, LengthKept
  <2> QED BY <2>3, <2>4
<1>5. CASE UNCHANGED vars
  BY <1>5 DEF vars, lengthVars, flagVars, LengthKept
<1> QED BY <1>1, <1>2, <1>3, <1>4, <1>5 DEF Next

(***************************************************************************)
(* The two words of the length hold the message's length in bits, and the  *)
(* digest is corrupted exactly when it cannot be right: sha1_update loses  *)
(* no carry, and takes the carry out of the high word for what it is.      *)
(***************************************************************************)
THEOREM Sha1Length == Spec => []LengthKept
<1>1. Init => LengthKept
  <2>1. OctetBits * 0 = 0 /\ 0 < WordLimit * WordLimit /\ 0 * WordLimit + 0 = 0
    BY Sizes
  <2> QED BY <2>1 DEF Init, LengthKept
<1>2. TypeOK /\ BusyInv /\ LengthKept /\ [Next]_vars => LengthKept'
  BY LengthNext
<1> QED BY <1>1, <1>2, Sha1Types, Sha1Busy, PTL DEF Spec

-----------------------------------------------------------------------------
(* The message. *)

(* The blocks compressed and the octets held are the message so far.       *)
Held ==
  /\ Len(fed) + Message_Block_Index = message
  /\ \E q \in Nat : Len(fed) = q * BlockSize
  /\ \A k \in 1..Len(fed) : fed[k] = -k
  /\ \A j \in 0..(Message_Block_Index - 1) : Message_Block[j] = -(Len(fed) + j + 1)

HeldInv == ~Computed => Held

LEMMA HeldFeed ==
  ASSUME TypeOK, BusyInv, HeldInv, Feed
  PROVE  Held'
<1> DEFINE s == fed
           n == Len(fed)
           i == Message_Block_Index
           block == Message_Block'
<1>1. /\ s \in Seq(Int) /\ n = Len(s) /\ n \in Nat /\ message \in Int
      /\ BlockSize \in Nat \ {0} /\ i \in 0..(BlockSize - 1)
      /\ Message_Block \in [Octets -> Int]
  BY Sizes DEF TypeOK, Octets
<1>2. /\ n + i = message /\ message' = message + 1
      /\ \E q \in Nat : n = q * BlockSize
      /\ \A k \in 1..n : s[k] = -k
      /\ \A j \in 0..(i - 1) : Message_Block[j] = -(n + j + 1)
      /\ block = [Message_Block EXCEPT ![i] = -message']
  BY DEF BusyInv, HeldInv, Held, Feed
<1>3. block \in [Octets -> Int]
  <2>1. -message' \in Int
    BY <1>1, <1>2
  <2> QED BY <1>1, <1>2, <2>1
<1>4. \A j \in 0..i : block[j] = -(n + j + 1)
  <2> SUFFICES ASSUME NEW j \in 0..i PROVE block[j] = -(n + j + 1)
    OBVIOUS
  <2>1. j \in Octets
    BY <1>1 DEF Octets
  <2>2. CASE j = i
    BY <1>1, <1>2, <2>1, <2>2
  <2>3. CASE j # i
    <3>1. j \in 0..(i - 1) /\ block[j] = Message_Block[j]
      BY <1>1, <1>2, <2>1, <2>3
    <3> QED BY <1>2, <3>1
  <2> QED BY <2>2, <2>3
<1>5. CASE i + 1 = BlockSize
  <2>1. fed' = s \o AsSequence(block) /\ Message_Block_Index' = 0
    BY <1>5 DEF Feed, Compress
  <2> HIDE DEF s, n, i, block
  <2>2. /\ Len(fed') = n + BlockSize
        /\ \A k \in 1..n : fed'[k] = s[k]
        /\ \A j \in Octets : fed'[n + j + 1] = block[j]
    BY <1>1, <1>3, <2>1, Extend
  <2>3. Len(fed') + Message_Block_Index' = message'
    <3>1. n + BlockSize = message + 1 /\ (n + BlockSize) + 0 = n + BlockSize
      BY <1>1, <1>2, <1>5
    <3> QED BY <1>2, <2>1, <2>2, <3>1
  <2>4. \E q \in Nat : Len(fed') = q * BlockSize
    <3>1. PICK q \in Nat : n = q * BlockSize
      BY <1>2
    <3>2. Len(fed') = (q + 1) * BlockSize /\ q + 1 \in Nat
      BY <1>1, <2>2, <3>1
    <3> QED BY <3>2
  <2>5. ASSUME NEW k \in 1..Len(fed') PROVE fed'[k] = -k
    <3>1. CASE k <= n
      BY <1>1, <1>2, <2>2, <3>1
    <3>2. CASE k > n
      <4> DEFINE j == k - n - 1
      <4>1. j \in 0..i /\ j \in Octets /\ n + j + 1 = k
        BY <1>1, <1>5, <2>2, <3>2 DEF Octets
      <4> HIDE DEF j
      <4> QED BY <1>4, <2>2, <4>1
    <3> QED BY <1>1, <2>2, <3>1, <3>2
  <2>6. \A j \in 0..(Message_Block_Index' - 1) : Message_Block'[j] = -(Len(fed') + j + 1)
    BY <2>1
  <2> QED BY <2>3, <2>4, <2>5, <2>6 DEF Held
<1>6. CASE i + 1 # BlockSize
  <2>1. fed' = s /\ Message_Block_Index' = i + 1
    BY <1>6 DEF Feed
  <2>2. Len(fed') = n /\ block = Message_Block'
    BY <2>1
  <2> HIDE DEF s, n, i, block
  <2>3. n + (i + 1) = message' /\ (i + 1) - 1 = i
    BY <1>1, <1>2
  <2> QED BY <1>2, <1>4, <2>1, <2>2, <2>3 DEF Held
<1> QED BY <1>5, <1>6

LEMMA HeldNext ==
  ASSUME TypeOK, BusyInv, HeldInv, [Next]_vars
  PROVE  HeldInv'
<1>1. CASE Clear
  <2>1. fed' = <<>> /\ Message_Block_Index' = 0 /\ message' = 0
    BY <1>1 DEF Clear
  <2>2. Len(<<>>) = 0 /\ 0 = 0 * BlockSize
    BY Sizes
  <2> QED BY <2>1, <2>2 DEF HeldInv, Held
<1>2. CASE Feed
  BY <1>2, HeldFeed DEF HeldInv
<1>3. CASE Result
  BY <1>3 DEF Result, HeldInv
<1>4. ASSUME NEW n \in ChunkSizes, Update(n) PROVE HeldInv'
  BY <1>4 DEF Update, blockVars, HeldInv, Held
<1>5. CASE UNCHANGED vars
  BY <1>5 DEF vars, blockVars, flagVars, HeldInv, Held
<1> QED BY <1>1, <1>2, <1>3, <1>4, <1>5 DEF Next

LEMMA HeldAlways == Spec => []HeldInv
<1>1. Init => HeldInv
  <2>1. Len(<<>>) = 0 /\ 0 = 0 * BlockSize
    BY Sizes
  <2> QED BY <2>1 DEF Init, HeldInv, Held
<1>2. TypeOK /\ BusyInv /\ HeldInv /\ [Next]_vars => HeldInv'
  BY HeldNext
<1> QED BY <1>1, <1>2, Sha1Types, Sha1Busy, PTL DEF Spec

(***************************************************************************)
(* Until the padding, the blocks compressed and the filled part of         *)
(* Message_Block are the message, octet for octet: no octet is dropped     *)
(* when a block fills up, wherever the calls of sha1_update cut it.        *)
(***************************************************************************)
THEOREM Sha1Accumulates == Spec => []Accumulated
<1>1. TypeOK /\ HeldInv => Accumulated
  <2> SUFFICES ASSUME TypeOK, Held
               PROVE  fed \o SubSeq(AsSequence(Message_Block), 1, Message_Block_Index)
                        = [k \in 1..message |-> -k]
    BY DEF HeldInv, Accumulated
  <2> DEFINE i == Message_Block_Index
             n == Len(fed)
             b == AsSequence(Message_Block)
             t == SubSeq(b, 1, i)
             m == [k \in 1..message |-> -k]
  <2>1. /\ b \in Seq(Int) /\ Len(b) = BlockSize
        /\ \A j \in Octets : b[j + 1] = Message_Block[j]
    BY BlockSeq DEF TypeOK
  <2>2. /\ BlockSize \in Nat /\ i \in 0..(BlockSize - 1) /\ n \in Nat /\ fed \in Seq(Int)
        /\ message = n + i
    BY Sizes DEF TypeOK, Octets, Held
  <2>3. t \in Seq(Int) /\ Len(t) = i /\ \A j \in 1..i : t[j] = b[j]
    <3> HIDE DEF b, i
    <3>1. i <= Len(b) /\ 1 \in 1..(Len(b) + 1) /\ i \in 0..Len(b)
      BY <2>1, <2>2
    <3> QED BY <2>1, <2>2, <3>1, SubSeqProperties
  <2>4. \A j \in 0..(i - 1) : Message_Block[j] = -(n + j + 1)
    BY DEF Held
  <2>5. \A k \in 1..n : fed[k] = -k
    BY DEF Held
  <2> HIDE DEF t, b, n, i, m
  <2>6. /\ fed \o t \in Seq(Int) /\ Len(fed \o t) = n + i
        /\ \A k \in 1..(n + i) : (fed \o t)[k] = IF k <= n THEN fed[k] ELSE t[k - n]
    BY <2>2, <2>3, ConcatProperties DEF n
  <2>7. ASSUME NEW k \in 1..(n + i) PROVE (fed \o t)[k] = -k
    <3>0. k \in Int /\ 1 <= k /\ k <= n + i
      BY <2>2
    <3>1. CASE k <= n
      BY <2>2, <2>5, <2>6, <3>0, <3>1
    <3>2. CASE k > n
      <4> DEFINE j == k - n - 1
      <4>1. j \in 0..(i - 1) /\ j \in Octets /\ j + 1 \in 1..i /\ k - n = j + 1 /\ n + j + 1 = k
        BY <2>2, <3>0, <3>2 DEF Octets
      <4>2. ~(k <= n)
        BY <2>2, <3>0, <3>2
      <4>3. (fed \o t)[k] = t[j + 1]
        BY <2>6, <4>1, <4>2
      <4> HIDE DEF j
      <4> QED BY <2>1, <2>3, <2>4, <4>1, <4>3
    <3>3. k <= n \/ k > n
      BY <2>2, <3>0
    <3> QED BY <3>1, <3>2, <3>3
  <2>8. m \in Seq(Int) /\ Len(m) = n + i
    <3>1. n + i \in Nat /\ m = [k \in 1..(n + i) |-> -k]
      BY <2>2 DEF m
    <3>2. \A k \in 1..(n + i) : -k \in Int
      OBVIOUS
    <3> QED BY <3>1, <3>2, IsASeq
  <2>9. fed \o t = m
    <3>1. \A k \in 1..(n + i) : m[k] = -k
      BY <2>2 DEF m
    <3> QED BY <2>2, <2>6, <2>7, <2>8, <3>1, SeqEqual
  <2> QED BY <2>9 DEF t, b, i, m
<1> QED BY <1>1, Sha1Types, HeldAlways, PTL

-----------------------------------------------------------------------------
(* The padding. *)

(* What is known of a padded message, octet for octet.                     *)
LEMMA PaddedIs ==
  ASSUME NEW n \in Nat, NEW total \in Nat, NEW f \in Seq(Int),
         total = ((n + LengthSize) \div BlockSize + 1) * BlockSize,
         n + 1 <= total - LengthSize,
         Len(f) = total,
         \A k \in 1..n : f[k] = -k,
         f[n + 1] = Mark,
         \A k \in (n + 2)..(total - LengthSize) : f[k] = 0,
         \A k \in 1..total : k > n + 1 /\ k > total - LengthSize =>
           f[k] = ((OctetBits * n) \div OctetLimit ^ (total - k)) % OctetLimit
  PROVE  f = Padded(n)
<1> DEFINE at(k) == CASE k <= n                 -> -k
                      [] k = n + 1              -> Mark
                      [] k > total - LengthSize ->
                           ((OctetBits * n) \div OctetLimit ^ (total - k)) % OctetLimit
                      [] OTHER                  -> 0
<1>1. Padded(n) = [k \in 1..total |-> at(k)]
  BY DEF Padded
<1>2. ASSUME NEW k \in 1..total PROVE f[k] = at(k)
  <2>0. LengthSize \in Nat /\ k \in Int /\ 1 <= k /\ k <= total
    BY Sizes
  <2>1. CASE k <= n
    <3>1. k # n + 1 /\ ~(k > total - LengthSize) /\ k \in 1..n
      BY <2>0, <2>1
    <3>2. at(k) = -k
      BY <2>1, <3>1
    <3> QED BY <3>1, <3>2
  <2>2. CASE k = n + 1
    <3>1. ~(k <= n) /\ ~(k > total - LengthSize)
      BY <2>0, <2>2
    <3>2. at(k) = Mark
      BY <2>2, <3>1
    <3> QED BY <2>2, <3>2
  <2>3. CASE k > n + 1 /\ k > total - LengthSize
    <3>1. ~(k <= n) /\ k # n + 1
      BY <2>0, <2>3
    <3>2. at(k) = ((OctetBits * n) \div OctetLimit ^ (total - k)) % OctetLimit
      BY <2>3, <3>1
    <3> QED BY <2>3, <3>2
  <2>4. CASE k > n + 1 /\ ~(k > total - LengthSize)
    <3>1. ~(k <= n) /\ k # n + 1 /\ k \in (n + 2)..(total - LengthSize)
      BY <2>0, <2>4
    <3>2. at(k) = 0
      BY <2>4, <3>1
    <3> QED BY <3>1, <3>2
  <2>5. k <= n \/ k = n + 1 \/ k > n + 1
    BY <2>0
  <2> QED BY <2>1, <2>2, <2>3, <2>4, <2>5
<1>3. f = [k \in 1..total |-> f[k]]
  BY LenProperties
<1> HIDE DEF at
<1> QED BY <1>1, <1>2, <1>3

(* The octets of the two blocks the padding is made from.                  *)
LEMMA EndedIs ==
  ASSUME NEW block \in [Octets -> Int]
  PROVE  \A j \in Octets :
           Ended(block)[j] = IF j < TailStart THEN block[j] ELSE LengthOctet(j - TailStart)
BY DEF Ended

LEMMA MarkedIs ==
  ASSUME Message_Block_Index \in Int
  PROVE  \A j \in Octets : /\ j < Message_Block_Index => Marked[j] = Message_Block[j]
                           /\ j = Message_Block_Index => Marked[j] = Mark
                           /\ j > Message_Block_Index => Marked[j] = 0
<1> SUFFICES ASSUME NEW j \in Octets
             PROVE  /\ j < Message_Block_Index => Marked[j] = Message_Block[j]
                    /\ j = Message_Block_Index => Marked[j] = Mark
                    /\ j > Message_Block_Index => Marked[j] = 0
  OBVIOUS
<1>1. Marked[j] = CASE j < Message_Block_Index -> Message_Block[j]
                    [] j = Message_Block_Index -> Mark
                    [] OTHER                   -> 0
  BY DEF Marked
<1>2. j \in Int
  BY Sizes DEF Octets
<1>3. j = Message_Block_Index => ~(j < Message_Block_Index)
  BY <1>2
<1>4. j > Message_Block_Index => ~(j < Message_Block_Index) /\ j # Message_Block_Index
  BY <1>2
<1> QED BY <1>1, <1>3, <1>4

(* The length is where SHA-1 wants it, at the end of the last block.       *)
LEMMA TailIs ==
  ASSUME TypeOK, Length_High * WordLimit + Length_Low = OctetBits * message,
         NEW j \in Octets, j >= TailStart
  PROVE  LengthOctet(j - TailStart)
           = ((OctetBits * message) \div OctetLimit ^ (BlockSize - 1 - j)) % OctetLimit
<1>1. /\ message \in Nat /\ Length_High \in Nat /\ Length_Low \in 0..(WordLimit - 1)
  BY Sizes DEF TypeOK
<1>2. /\ j - TailStart \in 0..(LengthSize - 1)
      /\ LengthSize - 1 - (j - TailStart) = BlockSize - 1 - j
  BY Sizes DEF Octets
<1>3. LengthOctet(j - TailStart)
        = ((OctetBits * message) \div OctetLimit ^ (LengthSize - 1 - (j - TailStart)))
            % OctetLimit
  BY <1>1, <1>2, LengthOctetIs
<1> QED BY <1>2, <1>3

(* One block is enough: the mark and the length follow the message in it.  *)
LEMMA PadOne ==
  ASSUME TypeOK, Held, Result, ~Computed, ~TooFull,
         Length_High * WordLimit + Length_Low = OctetBits * message
  PROVE  fed' = Padded(message)
<1> DEFINE s == Len(fed)
           i == Message_Block_Index
           total == s + BlockSize
           block == Ended(Marked)
<1>1. /\ message \in Nat /\ s \in Nat /\ i \in Nat /\ fed \in Seq(Int)
      /\ i <= TailStart - 1 /\ message = s + i
      /\ \A k \in 1..s : fed[k] = -k
      /\ \A j \in 0..(i - 1) : Message_Block[j] = -(s + j + 1)
  BY Sizes DEF TypeOK, Octets, Held, TooFull
<1>2. PICK q \in Nat : s = q * BlockSize
  BY DEF Held
<1>3. fed' = fed \o AsSequence(block)
  BY DEF Result, Pad, Compress
<1>4. Marked \in [Octets -> Int] /\ block \in [Octets -> Int]
  BY Blocks
<1>5. \A j \in Octets :
        block[j] = IF j < TailStart THEN Marked[j] ELSE LengthOctet(j - TailStart)
  BY <1>4, EndedIs
<1>6. \A j \in Octets : /\ j < i => Marked[j] = Message_Block[j]
                        /\ j = i => Marked[j] = Mark
                        /\ j > i => Marked[j] = 0
  BY <1>1, MarkedIs
<1>7. \A j \in Octets : j >= TailStart =>
        LengthOctet(j - TailStart)
          = ((OctetBits * message) \div OctetLimit ^ (BlockSize - 1 - j)) % OctetLimit
  BY TailIs
<1> HIDE DEF s, i, block
<1>8. /\ fed' \in Seq(Int) /\ Len(fed') = total
      /\ \A k \in 1..s : fed'[k] = fed[k]
      /\ \A j \in Octets : fed'[s + j + 1] = block[j]
  BY <1>1, <1>3, <1>4, Extend DEF s
<1>9. /\ BlockSize \in Nat \ {0} /\ LengthSize \in Nat /\ TailStart \in Nat \ {0}
      /\ TailStart + LengthSize = BlockSize /\ Octets = 0..(BlockSize - 1)
  BY Sizes DEF Octets
<1>10. total = ((message + LengthSize) \div BlockSize + 1) * BlockSize
  <2>1. /\ message + LengthSize = q * BlockSize + (i + LengthSize)
        /\ i + LengthSize \in 0..(BlockSize - 1) /\ message + LengthSize \in Int
    BY <1>1, <1>2, <1>9
  <2>2. (message + LengthSize) \div BlockSize = q
    BY <1>2, <1>9, <2>1, DivUnique
  <2>3. (q + 1) * BlockSize = q * BlockSize + BlockSize
    BY <1>2, <1>9
  <2> QED BY <1>2, <2>2, <2>3
<1>11. total \in Nat /\ total - LengthSize = s + TailStart
  BY <1>1, <1>9
<1> HIDE DEF total
<1>12. message + 1 <= total - LengthSize
  BY <1>1, <1>9, <1>11
<1>13. ASSUME NEW k \in 1..message PROVE fed'[k] = -k
  <2>0. k \in Int /\ 1 <= k /\ k <= s + i
    BY <1>1
  <2>1. CASE k <= s
    BY <1>1, <1>8, <2>0, <2>1
  <2>2. CASE k > s
    <3> DEFINE j == k - s - 1
    <3>1. /\ j \in Octets /\ j \in 0..(i - 1) /\ j < i /\ j < TailStart
          /\ s + j + 1 = k
      BY <1>1, <1>9, <2>0, <2>2
    <3> HIDE DEF j
    <3>2. block[j] = Message_Block[j]
      BY <1>5, <1>6, <3>1
    <3> QED BY <1>1, <1>8, <3>1, <3>2
  <2>3. k <= s \/ k > s
    BY <1>1, <2>0
  <2> QED BY <2>1, <2>2, <2>3
<1>14. fed'[message + 1] = Mark
  <2>1. i \in Octets /\ i < TailStart /\ s + i + 1 = message + 1
    BY <1>1, <1>9
  <2> QED BY <1>5, <1>6, <1>8, <2>1
<1>15. ASSUME NEW k \in (message + 2)..(total - LengthSize) PROVE fed'[k] = 0
  <2> DEFINE j == k - s - 1
  <2>1. j \in Octets /\ j > i /\ j < TailStart /\ s + j + 1 = k
    BY <1>1, <1>9, <1>11
  <2> HIDE DEF j
  <2> QED BY <1>5, <1>6, <1>8, <2>1
<1>16. ASSUME NEW k \in 1..total, k > message + 1, k > total - LengthSize
       PROVE  fed'[k]
                = ((OctetBits * message) \div OctetLimit ^ (total - k)) % OctetLimit
  <2> DEFINE j == k - s - 1
  <2>1. /\ j \in Octets /\ ~(j < TailStart) /\ j >= TailStart /\ s + j + 1 = k
        /\ BlockSize - 1 - j = total - k
    BY <1>1, <1>9, <1>11, <1>16 DEF total
  <2> HIDE DEF j
  <2>2. fed'[k] = LengthOctet(j - TailStart)
    BY <1>5, <1>8, <2>1
  <2> QED BY <1>7, <2>1, <2>2
<1>17. \A k \in 1..total : k > message + 1 /\ k > total - LengthSize =>
         fed'[k] = ((OctetBits * message) \div OctetLimit ^ (total - k)) % OctetLimit
  BY <1>16
<1> QED BY <1>1, <1>8, <1>10, <1>11, <1>12, <1>13, <1>14, <1>15, <1>17, PaddedIs

(* The message, the mark and zeros to the end of a block, then a block     *)
(* of zeros and the length.                                                *)
LEMMA PadTwo ==
  ASSUME TypeOK, Held, Result, ~Computed, TooFull,
         Length_High * WordLimit + Length_Low = OctetBits * message
  PROVE  fed' = Padded(message)
<1> DEFINE s == Len(fed)
           i == Message_Block_Index
           total == s + BlockSize + BlockSize
           zeros == [k \in Octets |-> 0]
           f == fed \o AsSequence(Marked)
           block == Ended(zeros)
<1>1. /\ message \in Nat /\ s \in Nat /\ i \in Nat /\ fed \in Seq(Int)
      /\ TailStart <= i /\ i <= BlockSize - 1 /\ message = s + i
      /\ \A k \in 1..s : fed[k] = -k
      /\ \A j \in 0..(i - 1) : Message_Block[j] = -(s + j + 1)
  BY Sizes DEF TypeOK, Octets, Held, TooFull
<1>2. PICK q \in Nat : s = q * BlockSize
  BY DEF Held
<1>3. fed' = f \o AsSequence(block)
  BY DEF Result, Pad
<1>4. /\ Marked \in [Octets -> Int] /\ zeros \in [Octets -> Int]
      /\ block \in [Octets -> Int]
  BY Blocks
<1>5. \A j \in Octets :
        block[j] = IF j < TailStart THEN zeros[j] ELSE LengthOctet(j - TailStart)
  BY <1>4, EndedIs
<1>6. \A j \in Octets : /\ j < i => Marked[j] = Message_Block[j]
                        /\ j = i => Marked[j] = Mark
                        /\ j > i => Marked[j] = 0
  BY <1>1, MarkedIs
<1>7. \A j \in Octets : j >= TailStart =>
        LengthOctet(j - TailStart)
          = ((OctetBits * message) \div OctetLimit ^ (BlockSize - 1 - j)) % OctetLimit
  BY TailIs
<1>8. \A j \in Octets : zeros[j] = 0
  OBVIOUS
<1> HIDE DEF s, i, block, zeros, f
<1>9. /\ BlockSize \in Nat \ {0} /\ LengthSize \in Nat /\ TailStart \in Nat \ {0}
      /\ TailStart + LengthSize = BlockSize /\ Octets = 0..(BlockSize - 1)
  BY Sizes DEF Octets
<1>10. /\ f \in Seq(Int) /\ Len(f) = s + BlockSize
       /\ \A k \in 1..s : f[k] = fed[k]
       /\ \A j \in Octets : f[s + j + 1] = Marked[j]
  BY <1>1, <1>4, Extend DEF s, f
<1>11. /\ fed' \in Seq(Int) /\ Len(fed') = total
       /\ \A k \in 1..(s + BlockSize) : fed'[k] = f[k]
       /\ \A j \in Octets : fed'[s + BlockSize + j + 1] = block[j]
  <2>1. /\ fed' \in Seq(Int) /\ Len(fed') = Len(f) + BlockSize
        /\ \A k \in 1..Len(f) : fed'[k] = f[k]
        /\ \A j \in Octets : fed'[Len(f) + j + 1] = block[j]
    BY <1>3, <1>4, <1>10, Extend
  <2> QED BY <1>10, <2>1
<1>12. total = ((message + LengthSize) \div BlockSize + 1) * BlockSize
  <2>1. /\ message + LengthSize = q * BlockSize + BlockSize + (i - TailStart)
        /\ i - TailStart \in 0..(BlockSize - 1) /\ message + LengthSize \in Int
    BY <1>1, <1>2, <1>9
  <2>2. (q + 1) * BlockSize = q * BlockSize + BlockSize /\ q + 1 \in Int
    BY <1>2, <1>9
  <2>3. (message + LengthSize) \div BlockSize = q + 1
    <3> DEFINE r == i - TailStart
               p == q + 1
    <3>1. /\ message + LengthSize = p * BlockSize + r /\ r \in 0..(BlockSize - 1)
          /\ p \in Int /\ message + LengthSize \in Int
      BY <2>1, <2>2
    <3> HIDE DEF r, p
    <3>2. (message + LengthSize) \div BlockSize = p
      BY <1>9, <3>1, DivUnique
    <3> QED BY <3>2 DEF p
  <2>4. (q + 1 + 1) * BlockSize = q * BlockSize + BlockSize + BlockSize
    BY <1>2, <1>9
  <2> QED BY <1>2, <2>3, <2>4
<1>13. total \in Nat /\ total - LengthSize = s + BlockSize + TailStart
  BY <1>1, <1>9
<1> HIDE DEF total
<1>14. message + 1 <= total - LengthSize
  BY <1>1, <1>9, <1>13
<1>15. ASSUME NEW k \in 1..message PROVE fed'[k] = -k
  <2>0. k \in Int /\ 1 <= k /\ k <= s + i /\ k \in 1..(s + BlockSize)
    BY <1>1, <1>9
  <2>1. CASE k <= s
    BY <1>1, <1>10, <1>11, <2>0, <2>1
  <2>2. CASE k > s
    <3> DEFINE j == k - s - 1
    <3>1. j \in Octets /\ j \in 0..(i - 1) /\ j < i /\ s + j + 1 = k
      BY <1>1, <1>9, <2>0, <2>2
    <3> HIDE DEF j
    <3> QED BY <1>1, <1>6, <1>10, <1>11, <2>0, <3>1
  <2>3. k <= s \/ k > s
    BY <1>1, <2>0
  <2> QED BY <2>1, <2>2, <2>3
<1>16. fed'[message + 1] = Mark
  <2>1. i \in Octets /\ s + i + 1 = message + 1 /\ s + i + 1 \in 1..(s + BlockSize)
    BY <1>1, <1>9
  <2> QED BY <1>6, <1>10, <1>11, <2>1
<1>17. ASSUME NEW k \in (message + 2)..(total - LengthSize) PROVE fed'[k] = 0
  <2>0. k \in Int /\ s + i + 2 <= k /\ k <= s + BlockSize + TailStart
    BY <1>1, <1>9, <1>13
  <2>1. CASE k <= s + BlockSize
    <3> DEFINE j == k - s - 1
    <3>1. j \in Octets /\ j > i /\ s + j + 1 = k /\ k \in 1..(s + BlockSize)
      BY <1>1, <1>9, <2>0, <2>1
    <3> HIDE DEF j
    <3> QED BY <1>6, <1>10, <1>11, <3>1
  <2>2. CASE k > s + BlockSize
    <3> DEFINE j == k - s - BlockSize - 1
    <3>1. j \in Octets /\ j < TailStart /\ s + BlockSize + j + 1 = k
      BY <1>1, <1>9, <2>0, <2>2
    <3> HIDE DEF j
    <3> QED BY <1>5, <1>8, <1>11, <3>1
  <2>3. k <= s + BlockSize \/ k > s + BlockSize
    BY <1>1, <1>9, <2>0
  <2> QED BY <2>1, <2>2, <2>3
<1>18. ASSUME NEW k \in 1..total, k > message + 1, k > total - LengthSize
       PROVE  fed'[k]
                = ((OctetBits * message) \div OctetLimit ^ (total - k)) % OctetLimit
  <2> DEFINE j == k - s - BlockSize - 1
  <2>1. /\ j \in Octets /\ ~(j < TailStart) /\ j >= TailStart
        /\ s + BlockSize + j + 1 = k /\ BlockSize - 1 - j = total - k
    BY <1>1, <1>9, <1>13, <1>18 DEF total
  <2> HIDE DEF j
  <2>2. fed'[k] = LengthOctet(j - TailStart)
    BY <1>5, <1>11, <2>1
  <2> QED BY <1>7, <2>1, <2>2
<1>19. \A k \in 1..total : k > message + 1 /\ k > total - LengthSize =>
         fed'[k] = ((OctetBits * message) \div OctetLimit ^ (total - k)) % OctetLimit
  BY <1>18
<1> QED BY <1>1, <1>11, <1>12, <1>13, <1>14, <1>15, <1>16, <1>17, <1>19, PaddedIs

-----------------------------------------------------------------------------
(* The digest. *)

(* Once it is computed nothing is fed until the next sha1_clear.           *)
DigestInv ==
  /\ Computed => fed = Padded(message)
  /\ hash # <<>> => Computed /\ hash = fed

LEMMA DigestNext ==
  ASSUME TypeOK, BusyInv, HeldInv, LengthKept, DigestInv, [Next]_vars
  PROVE  DigestInv'
<1>1. CASE Clear
  BY <1>1 DEF Clear, DigestInv
<1>2. CASE Feed
  BY <1>2 DEF Feed, BusyInv, DigestInv
<1>3. CASE Result
  <2>1. /\ Computed' = TRUE /\ hash' = fed' /\ message' = message /\ ~Corrupted
    BY <1>3 DEF Result
  <2>2. fed' = Padded(message)
    <3>1. CASE Computed
      BY <1>3, <3>1 DEF Result, blockVars, DigestInv
    <3>2. CASE ~Computed
      <4>1. Length_High * WordLimit + Length_Low = OctetBits * message
        BY <2>1 DEF LengthKept
      <4> QED BY <1>3, <3>2, <4>1, PadOne, PadTwo DEF HeldInv
    <3> QED BY <3>1, <3>2
  <2> QED BY <2>1, <2>2 DEF DigestInv, Padded
<1>4. ASSUME NEW n \in ChunkSizes, Update(n) PROVE DigestInv'
  BY <1>4 DEF Update, blockVars, DigestInv, Padded
<1>5. CASE UNCHANGED vars
  BY <1>5 DEF vars, blockVars, flagVars, DigestInv, Padded
<1> QED BY <1>1, <1>2, <1>3, <1>4, <1>5 DEF Next

(***************************************************************************)
(* What sha1_result gives is the digest of the whole message, padded as    *)
(* SHA-1 says, for every message it answers for, every way to cut it into  *)
(* calls of sha1_update and every later call of sha1_result.               *)
(***************************************************************************)
THEOREM Sha1Digests == Spec => []DigestOfMessage
<1>1. Init => DigestInv
  BY DEF Init, DigestInv
<1>2. /\ TypeOK /\ BusyInv /\ HeldInv /\ LengthKept /\ DigestInv /\ [Next]_vars
      => DigestInv'
  BY DigestNext
<1>3. DigestInv => DigestOfMessage
  BY DEF DigestInv, DigestOfMessage
<1> QED BY <1>1, <1>2, <1>3, Sha1Types, Sha1Busy, HeldAlways, Sha1Length, PTL DEF Spec
=============================================================================
