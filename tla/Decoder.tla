------------------------------- MODULE Decoder -------------------------------
(***************************************************************************)
(* The decoder of bencode.c.  A call of decode for a dictionary or a list  *)
(* that is still open is a frame of `stack`; the variables off, level and  *)
(* error are those of struct decode.  A step is one call of decode up to   *)
(* its own calls, or what the loop of an open container does at its end.   *)
(***************************************************************************)
EXTENDS Bencode

CONSTANTS
  MaxLevel,      \* 256
  LongLongSize,  \* 21: digits and sign of a number, and the terminating zero
  MaxLongLong,   \* 2^63 - 1
  Inputs         \* what the decoder may be given

ASSUME DecoderAssumption ==
  /\ MaxLevel \in Nat
  /\ LongLongSize \in Nat
  /\ MaxLongLong \in Nat
  /\ Inputs \subseteq Seq(Octet)

VARIABLES
  data,     \* the octets given to ben_decode or ben_decode2
  exact,    \* is it ben_decode, which wants nothing behind the value?
  start,    \* where ben_decode2 was told to start
  off, level, error,
  stack,    \* the containers being decoded, the innermost last
  value,    \* what was returned, None while there is nothing
  status,   \* "idle", "busy", "ok", "failed" or "undefined"
  clipped   \* history: has a number been read of which strtoll saw only a part?

ctxVars     == <<off, level, error>>
callVars    == <<data, exact, start>>
decoderVars == <<callVars, ctxVars, stack, value, status, clipped>>

DigitOf == [c \in {"0", "1", "2", "3", "4", "5", "6", "7", "8", "9"} |->
              CASE c = "0" -> 0 [] c = "1" -> 1 [] c = "2" -> 2 [] c = "3" -> 3
                [] c = "4" -> 4 [] c = "5" -> 5 [] c = "6" -> 6 [] c = "7" -> 7
                [] c = "8" -> 8 [] OTHER -> 9]

IsDigit(c) == c \in DOMAIN DigitOf

Here     == data[off + 1]
AtEnd    == off >= Len(data)

(* A container being decoded; key is the key whose value comes next. *)
Frame(type) == [type |-> type, keys |-> <<>>, values |-> <<>>, key |-> None]
Top         == Last(stack)

-----------------------------------------------------------------------------
(* How a call ends.  An error unwinds all open calls, which free what they *)
(* have.                                                                   *)

Fail(e) ==
  /\ status' = "failed" /\ error' = e
  /\ stack' = <<>> /\ value' = None

(* ben_decode refuses a value that something follows; it sets no error.    *)
Return(v) ==
  /\ stack' = <<>>
  /\ IF exact /\ off' # Len(data)
       THEN status' = "failed" /\ value' = None
       ELSE status' = "ok" /\ value' = v
  /\ UNCHANGED error

Replace(frames, f) == /\ stack' = Append(Front(frames), f)
                      /\ UNCHANGED <<error, value, status>>

ArrayFails(n) == "array" \in Fallible /\ \E k \in 0..n : n = 0 \/ n = FirstAlloc * 2 ^ k

(* Mutant: a key equal to the one before it is let through. *)
BadKeyIfLess(f, v) == \/ v.type \notin KeyTypes
                      \/ f.keys # <<>> /\ Cmp(Last(f.keys), v) > 0

(* Keys are integers or strings, each greater than the one before it. *)
BadKey(f, v) == \/ v.type \notin KeyTypes
                \/ f.keys # <<>> /\ Cmp(Last(f.keys), v) >= 0

(* decode returns v to the innermost of the calls that are open. *)
Deliver(v, frames) ==
  LET f == Last(frames) IN
  \/ frames = <<>> /\ Return(v)
  \/ /\ frames # <<>> /\ f.type = "list"
     /\ \/ Replace(frames, [f EXCEPT !.values = Append(@, v)])
        \/ ArrayFails(Len(f.values)) /\ Fail("no memory")
  \/ /\ frames # <<>> /\ f.type = "dict" /\ f.key = None
     /\ IF BadKey(f, v) THEN Fail("invalid")
                        ELSE Replace(frames, [f EXCEPT !.key = v])
  \/ /\ frames # <<>> /\ f.type = "dict" /\ f.key # None
     /\ Replace(frames, [f EXCEPT !.keys = Append(@, f.key),
                                  !.values = Append(@, v), !.key = None])

-----------------------------------------------------------------------------
(* Where decode is called: at the outset, for the value of a key, and by   *)
(* the loop of a container that has not come to its end.                   *)
Calls ==
  /\ status = "busy"
  /\ stack # <<>> /\ Top.key = None => ~AtEnd /\ Here # "e"

(* Mutant: the call that goes beyond the limit is let through. *)
EnterTooLate ==
  /\ Calls
  /\ level' = level + 1
  /\ level <= MaxLevel
  /\ ~AtEnd
  /\ UNCHANGED callVars

(* decode, up to its switch. *)
Enter ==
  /\ Calls
  /\ level' = level + 1
  /\ level' <= MaxLevel
  /\ ~AtEnd
  /\ UNCHANGED callVars

TooManyValues ==
  /\ Calls
  /\ level' = level + 1
  /\ level' > MaxLevel
  /\ Fail("invalid")
  /\ UNCHANGED <<callVars, off, clipped>>

Truncated ==
  /\ Calls
  /\ level' = level + 1
  /\ level' <= MaxLevel
  /\ AtEnd
  /\ Fail("insufficient")
  /\ UNCHANGED <<callVars, off, clipped>>

UnknownType ==
  /\ Enter
  /\ ~IsDigit(Here) /\ Here \notin {"b", "d", "i", "l"}
  /\ Fail("invalid")
  /\ UNCHANGED <<off, clipped>>

(* Mutant: NULL without oom_ptr. *)
NoStructNoError ==
  /\ "struct" \in Fallible
  /\ Fail(error)

NoStruct ==
  /\ "struct" \in Fallible
  /\ Fail("no memory")

DecodeBool ==
  /\ Enter
  /\ Here = "b"
  /\ UNCHANGED clipped
  /\ \/ /\ off + 2 > Len(data)
        /\ Fail("insufficient")
        /\ UNCHANGED off
     \/ /\ off + 2 <= Len(data)
        /\ data[off + 2] \notin {"0", "1"}
        /\ Fail("invalid")
        /\ UNCHANGED off
     \/ /\ off + 2 <= Len(data)
        /\ data[off + 2] \in {"0", "1"}
        /\ \/ off' = off + 2 /\ Deliver(BenBool(data[off + 2] = "1"), stack)
           \/ NoStruct /\ UNCHANGED off

-----------------------------------------------------------------------------
(* Numbers. *)

(* Where there is a c, from position p on. *)
Ends(p, c) == {k \in p..(Len(data) - 1) : data[k + 1] = c}

(* find. *)
Find(p, c) == Min(Ends(p, c))

(* The octets read_long_long takes for a number, from p to the next c. *)
NumberText(p, c) == SubSeq(data, p + 1, Find(p, c))

(* What strtoll sees of them: a zero ends the string. *)
CString(s) ==
  LET zeros == {k \in DOMAIN s : s[k] = "NUL"}
  IN  IF zeros = {} THEN s ELSE SubSeq(s, 1, Min(zeros) - 1)

HasSign(s)  == s # <<>> /\ s[1] = "-"
Figures(s)  == IF HasSign(s) THEN Tail(s) ELSE s

(* The number that figures are the digits of. *)
Number(figures) ==
  LET n[k \in 0..Len(figures)] ==
        IF k = 0 THEN 0 ELSE 10 * n[k - 1] + DigitOf[figures[k]]
  IN  n[Len(figures)]

LongLong(s) == IF HasSign(s) THEN -Number(Figures(s)) ELSE Number(Figures(s))

(* strtoll comes to the end of the string, and the number is in range. *)
IsLongLong(s) ==
  /\ Figures(s) # <<>>
  /\ \A k \in DOMAIN Figures(s) : IsDigit(Figures(s)[k])
  /\ LongLong(s) \in (-MaxLongLong - 1)..MaxLongLong

(* Mutant: a zero may be signed, as in "-0". *)
WellFormedSignedZero(s) ==
  /\ Len(s) \in 1..(LongLongSize - 1)
  /\ IsLongLong(CString(s))
  /\ s[1] = "0" => Len(s) = 1

(* The tests of read_long_long: one form for each number. *)
WellFormed(s) ==
  /\ Len(s) \in 1..(LongLongSize - 1)
  /\ IsLongLong(CString(s))
  /\ ~(s[1] = "-" /\ s[2] = "0")
  /\ s[1] = "0" => Len(s) = 1

(* A zero octet has hidden the end of a number. *)
Clip(s) == clipped' = (clipped \/ CString(s) # s)

DecodeInt ==
  LET p == off + 1
      s == NumberText(p, "e")
  IN  /\ Enter
      /\ Here = "i"
      /\ \/ Ends(p, "e") = {} /\ off' = p /\ Fail("insufficient") /\ UNCHANGED clipped
         \/ /\ Ends(p, "e") # {} /\ ~WellFormed(s)
            /\ off' = p /\ Fail("invalid") /\ UNCHANGED clipped
         \/ /\ Ends(p, "e") # {} /\ WellFormed(s)
            /\ off' = Find(p, "e") + 1
            /\ Clip(s)
            /\ Deliver(BenInt(LongLong(CString(s))), stack) \/ NoStruct

(* read_size_t. *)
IsSize(s) == WellFormed(s) /\ LongLong(CString(s)) >= 0

TooShort(p, n) == p + n > Len(data)

(* The length comes first; off is behind it when the octets are too few.   *)
(* ben_blob's failures set no error.                                       *)
DecodeStr ==
  LET s == NumberText(off, ":")
      n == LongLong(CString(s))
      p == Find(off, ":") + 1
  IN  /\ Enter
      /\ IsDigit(Here)
      /\ \/ Ends(off, ":") = {} /\ off' = off /\ Fail("insufficient") /\ UNCHANGED clipped
         \/ /\ Ends(off, ":") # {} /\ ~IsSize(s)
            /\ off' = off /\ Fail("invalid") /\ UNCHANGED clipped
         \/ /\ Ends(off, ":") # {} /\ IsSize(s) /\ TooShort(p, n)
            /\ off' = p /\ Fail("insufficient") /\ Clip(s)
         \/ /\ Ends(off, ":") # {} /\ IsSize(s) /\ ~TooShort(p, n)
            /\ off' = p + n
            /\ Clip(s)
            /\ \/ Deliver(BenStr(SubSeq(data, p + 1, p + n)), stack)
               \/ "blob" \in Fallible /\ Fail(error)

-----------------------------------------------------------------------------
(* Containers. *)

(* Mutant: off is not moved behind the letter. *)
OpenInPlace(c, type) ==
  /\ Enter
  /\ Here = c
  /\ stack' = Append(stack, Frame(type))
  /\ UNCHANGED <<off, error, value, status, clipped>>

Open(c, type) ==
  /\ Enter
  /\ Here = c
  /\ \/ /\ off' = off + 1
        /\ stack' = Append(stack, Frame(type))
        /\ UNCHANGED <<error, value, status>>
     \/ NoStruct /\ UNCHANGED off
  /\ UNCHANGED clipped

OpenDict == Open("d", "dict")
OpenList == Open("l", "list")

(* At the head of the loop of decode_dict or decode_list. *)
Looping == status = "busy" /\ stack # <<>> /\ Top.key = None

(* Mutant: that the data ended is no error. *)
EndOfDataUnseen ==
  /\ Looping
  /\ off > Len(data)
  /\ Fail("insufficient")
  /\ UNCHANGED <<callVars, off, level, clipped>>

EndOfData ==
  /\ Looping
  /\ AtEnd
  /\ Fail("insufficient")
  /\ UNCHANGED <<callVars, off, level, clipped>>

(* When only one realloc of resize_dict fails, the entries are then freed  *)
(* through an array that is no longer there.                               *)
NoRoomForKey ==
  /\ Looping
  /\ ~AtEnd /\ Here # "e"
  /\ Top.type = "dict" /\ ArrayFails(Len(Top.keys))
  /\ \/ Fail("no memory")
     \/ Top.keys # <<>> /\ status' = "undefined" /\ UNCHANGED <<error, stack, value>>
  /\ UNCHANGED <<callVars, off, level, clipped>>

Close ==
  /\ Looping
  /\ ~AtEnd /\ Here = "e"
  /\ off' = off + 1
  /\ Deliver(IF Top.type = "dict" THEN BenDict(Top.keys, Top.values)
                                  ELSE BenList(Top.values), Front(stack))
  /\ UNCHANGED <<callVars, level, clipped>>

-----------------------------------------------------------------------------
(* The calls.  ben_decode starts at the first octet; the caller of         *)
(* ben_decode2 may go on behind a value it was given.                      *)

DecoderInit ==
  /\ data = <<>> /\ exact = FALSE /\ start = 0
  /\ off = 0 /\ level = 0 /\ error = "ok"
  /\ stack = <<>> /\ value = None /\ status = "idle" /\ clipped = FALSE

BenDecode(d) ==
  /\ status = "idle"
  /\ data' = d /\ exact' = TRUE
  /\ status' = "busy"
  /\ UNCHANGED <<start, ctxVars, stack, value, clipped>>

BenDecode2(d, from) ==
  /\ status = "idle"
  /\ data' = d /\ exact' = FALSE
  /\ start' = from /\ off' = from
  /\ status' = "busy"
  /\ UNCHANGED <<level, error, stack, value, clipped>>

GoOn ==
  /\ status = "ok" /\ ~exact /\ ~AtEnd
  /\ start' = off /\ level' = 0
  /\ value' = None /\ status' = "busy" /\ clipped' = FALSE
  /\ UNCHANGED <<data, exact, off, error, stack>>

DecoderStep ==
  \/ TooManyValues \/ Truncated \/ UnknownType
  \/ DecodeBool \/ DecodeInt \/ DecodeStr \/ OpenDict \/ OpenList
  \/ EndOfData \/ NoRoomForKey \/ Close

DecoderNext ==
  \/ \E d \in Inputs : BenDecode(d) \/ \E from \in 0..Len(d) : BenDecode2(d, from)
  \/ DecoderStep
  \/ GoOn

DecoderSpec == DecoderInit /\ [][DecoderNext]_decoderVars

-----------------------------------------------------------------------------
DecoderTypeOK ==
  /\ data \in Seq(Octet) /\ exact \in BOOLEAN
  /\ level \in 0..(MaxLevel + 1)
  /\ error \in {"ok", "invalid", "insufficient", "no memory"}
  /\ status \in {"idle", "busy", "ok", "failed", "undefined"}
  /\ \A i \in DOMAIN stack : stack[i].type \in {"dict", "list"}
  /\ clipped \in BOOLEAN

(***************************************************************************)
(* The decoder never reads or stands behind the end of the data, whatever  *)
(* the data: assert (ctx->off < ctx->len) of decode.  Each open container  *)
(* has taken an octet of its own, so their number is bounded by the data.  *)
(***************************************************************************)
InBounds ==
  /\ start \in Nat /\ off \in start..Len(data)
  /\ Len(stack) <= off - start

(* A string's encoding begins at p and ends where off stands.              *)
StringFrom(p) ==
  /\ Ends(p, ":") # {} /\ WellFormed(NumberText(p, ":"))
  /\ off = Find(p, ":") + 1 + LongLong(CString(NumberText(p, ":")))

(***************************************************************************)
(* The assertion of ben_decode2: a value, or else an error.  ben_blob      *)
(* fails without setting one, so the assertion fails when there is no      *)
(* memory for a string that is all there, and only then.                   *)
(***************************************************************************)
ErrorReported ==
  /\ status = "ok" => error = "ok" /\ value # None
  /\ status = "failed" => value = None
  /\ status = "failed" /\ error = "ok" =>
       \/ exact
       \/ "blob" \in Fallible /\ \E p \in start..off : StringFrom(p)

(***************************************************************************)
(* The keys of a dictionary being decoded are integers and strings and     *)
(* strictly ascend: none occurs twice, and its order is the encoder's, so  *)
(* that the info dictionary encodes to the octets it was read from.        *)
(***************************************************************************)
KeysAscend ==
  \A i \in DOMAIN stack :
    LET f == stack[i] IN
      /\ Len(f.keys) = Len(f.values) \/ f.type = "list"
      /\ \A j \in DOMAIN f.keys : f.keys[j] \in AllKeys
      /\ \A j \in 2..Len(f.keys) : Cmp(f.keys[j - 1], f.keys[j]) < 0
      /\ f.key # None /\ f.keys # <<>> => Cmp(Last(f.keys), f.key) < 0

(***************************************************************************)
(* A call of ben_decode or ben_decode2 comes to its end: each of its steps *)
(* is the last, or takes at least one octet of the data and leaves off     *)
(* within them.  So the loops of decode_dict and decode_list turn no more  *)
(* often than there are octets, however containers nest in each other.     *)
(***************************************************************************)
Advances ==
  [][status = "busy" =>
       /\ UNCHANGED callVars
       /\ \/ status' = "busy" /\ off < off' /\ off' <= Len(data)
          \/ status' \in {"ok", "failed", "undefined"}]_decoderVars
=============================================================================
