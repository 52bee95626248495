-------------------------------- MODULE Codec --------------------------------
(***************************************************************************)
(* Containers, encoder and decoder together: a caller fills a dictionary   *)
(* and a list, encodes one of them, and decodes what has arrived of it; or *)
(* it decodes octets from elsewhere; or the program starts with a file.    *)
(***************************************************************************)
EXTENDS Containers, Startup

CONSTANT Payload   \* the value of bencode that each object is

ASSUME CodecAssumption ==
  /\ MaxDepth # 0 /\ Payload \in [Objects -> Nested[MaxDepth - 1]]
  /\ MaxLevel <= MaxDepth

LongLongs == (-MaxLongLong - 1)..MaxLongLong

(* What there can be of numbers and strings: ll is a long long, and the    *)
(* length of a string no more than one.                                    *)
HeldSimple == {b \in Simple : /\ b.type = "int" => b.ll \in LongLongs
                              /\ b.type = "str" => Len(b.s) <= MaxLongLong}

(* And of containers: ben_dict_set leaves one entry of each key.           *)
HeldDeeper(V) ==
  HeldSimple \union [type : {"list"}, values : Seq(V)]
             \union {d \in [type : {"dict"}, keys : Seq(AllKeys \intersect HeldSimple),
                            values : Seq(V)] :
                       Len(d.keys) = Len(d.values) /\ IsInjective(d.keys)}

(* The values a caller can hold, of those that nest at most n deep.        *)
Holdable[n \in Nat] == IF n = 0 THEN HeldSimple ELSE HeldDeeper(Holdable[n - 1])

ASSUME HoldableAssumption ==
  /\ Payload \in [Objects -> Holdable[MaxDepth - 1]] /\ Keys \subseteq HeldSimple
  /\ \A n \in LongLongs : Len(Numeral(n)) < LongLongSize

VARIABLE sent   \* the value whose encoding is decoded, None if there is none

vars == <<containerVars, decoderVars, startupVars, sent>>

BuiltDict == BenDict(keys, [i \in DOMAIN values |-> Payload[values[i]]])
BuiltList == BenList([i \in DOMAIN items |-> Payload[items[i]]])

Init == ContainersInit /\ DecoderInit /\ StartupInit /\ sent = None

Untouched ==
  /\ status = "idle" /\ run = "idle"
  /\ alloc = 0 /\ itemsAlloc = 0
  /\ \A o \in Objects : owner[o] = "caller"

(* A bound: encoded is a container that has all the objects not yet freed. *)
Settled(c) ==
  /\ status = "idle" /\ run = "idle" /\ broken = {}
  /\ \A o \in Objects : owner[o] \in {c, "freed"}

(* The caller works on its containers before it decodes anything.          *)
Edit ==
  /\ status = "idle" /\ run = "idle"
  /\ ContainersNext
  /\ UNCHANGED <<decoderVars, startupVars, sent>>

(* ben_encode, and the decoding of the first n octets of it.               *)
EncodeDecode(b, n) ==
  /\ sent' = b
  /\ \/ BenDecode2(SubSeq(Serialize(b), 1, n), 0)
     \/ n = EncodedSize(b) /\ BenDecode(Serialize(b))
  /\ UNCHANGED <<containerVars, startupVars>>

(* A bound: where ben_decode2 is told to start. *)
Starts(d) == {0, 1, Len(d)} \intersect 0..Len(d)

DecodeForeign(d) ==
  /\ BenDecode(d) \/ \E from \in Starts(d) : BenDecode2(d, from)
  /\ UNCHANGED <<containerVars, startupVars, sent>>

Step == DecoderStep /\ UNCHANGED <<containerVars, startupVars, sent>>

(* The value behind the first is not the one that was sent.                *)
Continue == GoOn /\ sent' = None /\ UNCHANGED <<containerVars, startupVars>>

Start ==
  /\ \/ Untouched /\ \E f \in Files : OpenFile(f)
     \/ StartupStep
  /\ UNCHANGED <<containerVars, sent>>

Next ==
  \/ Edit
  \/ Settled("dict") /\ \E n \in 0..EncodedSize(BuiltDict) : EncodeDecode(BuiltDict, n)
  \/ Settled("list") /\ \E n \in 0..EncodedSize(BuiltList) : EncodeDecode(BuiltList, n)
  \/ Untouched /\ \E d \in Inputs : DecodeForeign(d)
  \/ Step \/ Continue \/ Start

Spec     == Init /\ [][Next]_vars
FairSpec == Spec /\ WF_vars(Step)

-----------------------------------------------------------------------------
TypeOK == ContainersTypeOK /\ DecoderTypeOK

(* A value with the entries of its dictionaries in the order of the keys.  *)
NormalWith(normal, b) ==
  CASE b.type = "list" -> BenList([i \in DOMAIN b.values |-> normal[b.values[i]]])
    [] b.type = "dict" ->
         LET pairs == Sorted(b)
         IN  BenDict([i \in DOMAIN pairs |-> pairs[i][1]],
                     [i \in DOMAIN pairs |-> normal[pairs[i][2]]])
    [] OTHER -> b

Normal(b) == ByParts(NormalWith)[b]

(* How many values there are in a value, itself and keys among them.       *)
CountWith(count, b) ==
  CASE b.type = "list" -> 1 + Total([i \in DOMAIN b.values |-> count[b.values[i]]])
    [] b.type = "dict" ->
         1 + Len(b.keys) + Total([i \in DOMAIN b.values |-> count[b.values[i]]])
    [] OTHER -> 1

Count(b) == ByParts(CountWith)[b]

(* When ben_blob finds no memory, no error is set.                         *)
OutOfMemory ==
  /\ status = "failed"
  /\ \/ error = "no memory" /\ {"struct", "array"} \intersect Fallible # {}
     \/ error = "ok" /\ "blob" \in Fallible

(***************************************************************************)
(* What was encoded decodes to itself, in whatever order its entries were  *)
(* put in and popped, and every part of it that stops short is told from   *)
(* invalid data, wherever it breaks off.  It must have at most MaxLevel    *)
(* values, and memory must not run out.                                    *)
(***************************************************************************)
RoundTrip ==
  sent # None /\ Count(sent) <= MaxLevel /\ ~OutOfMemory =>
    IF Len(data) = Len(Serialize(sent))
      THEN status # "failed" /\ (status = "ok" => value = Normal(sent))
      ELSE status # "ok" /\ (status = "failed" => error = "insufficient")

(* The octets the open containers have taken so far.                       *)
FrameText(f) ==
  <<IF f.type = "dict" THEN "d" ELSE "l">>
    \o FlattenSeq([i \in DOMAIN f.values |->
         (IF f.type = "dict" THEN Serialize(f.keys[i]) ELSE <<>>)
           \o Serialize(f.values[i])])
    \o (IF f.key = None THEN <<>> ELSE Serialize(f.key))

(***************************************************************************)
(* There is one encoding of each value, as read_long_long's comment        *)
(* demands: what the decoder accepts, and what it has taken at every point *)
(* before, is what the encoder would write.  The info hash is computed     *)
(* from an encoding of what was decoded, and is the torrent's only if this *)
(* holds.  The exception is a number with a zero octet and anything behind *)
(* it: strtoll stops at the zero, and the test of its end cannot tell.     *)
(***************************************************************************)
OneEncoding ==
  ~clipped =>
    LET taken == SubSeq(data, start + 1, off) IN
      /\ status = "ok"   => Serialize(value) = taken
      /\ status = "busy" =>
           FlattenSeq([i \in DOMAIN stack |-> FrameText(stack[i])]) = taken

(***************************************************************************)
(* The assertions of ben_encode and ben_print: the sizes that are          *)
(* allocated beforehand are those of the texts that are written.           *)
(***************************************************************************)
SizesAgree ==
  LET Fits(b) == /\ Len(Serialize(b)) = EncodedSize(b)
                 /\ Len(Printed(b)) = PrintedSize(b)
  IN  IF status = "idle" THEN Fits(BuiltDict) /\ Fits(BuiltList)
                         ELSE status = "ok" => Fits(value)

(***************************************************************************)
(* bencode.h says that BEN_INVALID means invalid data; what ben_encode     *)
(* wrote is not.                                                           *)
(***************************************************************************)
EncodedIsValid == sent # None /\ status = "failed" => error # "invalid"

(***************************************************************************)
(* Every call returns, whatever it is given.                               *)
(***************************************************************************)
Returns == (status = "busy") ~> (status # "busy")
=============================================================================
