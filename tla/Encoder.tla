------------------------------- MODULE Encoder -------------------------------
(***************************************************************************)
(* What bencode.c writes of a value, encoded and printed, and the sizes it *)
(* allocates beforehand.  ben_encode, ben_encode2 and ben_print fail when  *)
(* the text outgrows the buffer; every put of theirs tests that before it  *)
(* writes, so the whole text is what decides.                              *)
(***************************************************************************)
EXTENDS Bencode

CONSTANT Printable   \* the octets isprint says yes to

Digits == <<"0", "1", "2", "3", "4", "5", "6", "7", "8", "9">>

ASSUME EncoderAssumption ==
  Range(Digits) \union {"-", ":", "b", "d", "e", "i", "l"} \subseteq Octet

(* snprintf of a number, "%lld", "%llu" and "%zu". *)
Decimal[n \in Nat] ==
  IF n < 10 THEN <<Digits[n + 1]>>
            ELSE Decimal[n \div 10] \o <<Digits[(n % 10) + 1]>>

Numeral(n) == IF n < 0 THEN <<"-">> \o Decimal[-n] ELSE Decimal[n]

(* Mutant: qsort without ben_cmp_qsort leaves the pairs as they are. *)
AsInserted(d) == [i \in DOMAIN d.keys |-> <<d.keys[i], d.values[i]>>]

(* The pairs of a dictionary, as qsort puts them with ben_cmp_qsort. *)
Sorted(d) ==
  LET places == DOMAIN d.keys
      order  == CHOOSE p \in Bijection(places, places) :
                  \A i, j \in places : i < j => Cmp(d.keys[p[i]], d.keys[p[j]]) <= 0
  IN  [i \in places |-> <<d.keys[order[i]], d.values[order[i]]>>]

(* serialize, given what it writes of the values inside. *)
SerializeWith(text, b) ==
  CASE b.type = "bool" -> <<"b", IF b.b THEN "1" ELSE "0">>
    [] b.type = "int"  -> <<"i">> \o Numeral(b.ll) \o <<"e">>
    [] b.type = "str"  -> Numeral(Len(b.s)) \o <<":">> \o b.s
    [] b.type = "list" ->
         <<"l">> \o FlattenSeq([i \in DOMAIN b.values |-> text[b.values[i]]]) \o <<"e">>
    [] b.type = "dict" ->
         LET pairs == Sorted(b)
         IN  <<"d">> \o FlattenSeq([i \in DOMAIN pairs |->
                                     text[pairs[i][1]] \o text[pairs[i][2]]])
                     \o <<"e">>

Serialize(b) == ByParts(SerializeWith)[b]

Total(sizes) ==
  LET sum[i \in 0..Len(sizes)] == IF i = 0 THEN 0 ELSE sum[i - 1] + sizes[i]
  IN  sum[Len(sizes)]

(* get_size, given the sizes of the values inside. *)
SizeWith(size, b) ==
  CASE b.type = "bool" -> 2
    [] b.type = "int"  -> 2 + Len(Numeral(b.ll))
    [] b.type = "str"  -> Len(Numeral(Len(b.s))) + 1 + Len(b.s)
    [] b.type = "list" -> 2 + Total([i \in DOMAIN b.values |-> size[b.values[i]]])
    [] b.type = "dict" ->
         2 + Total([i \in DOMAIN b.keys |-> size[b.keys[i]] + size[b.values[i]]])

EncodedSize(b) == ByParts(SizeWith)[b]

-----------------------------------------------------------------------------
(* The Python notation of ben_print.  A text is a sequence of pieces, each *)
(* the characters one put adds: only their numbers matter for the size.    *)

NeedEscape == {"'", "\\"}

Hex(c) == <<"\\", "x", c, c>>   \* "\\x%.2x"

PutChar(c) == IF c \notin Printable THEN Hex(c)
              ELSE IF c \in NeedEscape THEN <<"\\", c>>
              ELSE <<c>>

(* Pieces with ", " between them. *)
Separated(pieces) ==
  FlattenSeq([i \in DOMAIN pieces |->
               IF i < Len(pieces) THEN pieces[i] \o <<",", " ">> ELSE pieces[i]])

(* print, given what it writes of the values inside. *)
PrintWith(text, b) ==
  CASE b.type = "bool" -> IF b.b THEN <<"T", "r", "u", "e">>
                                 ELSE <<"F", "a", "l", "s", "e">>
    [] b.type = "int"  -> Numeral(b.ll)
    [] b.type = "str"  ->
         <<"'">> \o FlattenSeq([i \in DOMAIN b.s |-> PutChar(b.s[i])]) \o <<"'">>
    [] b.type = "list" ->
         <<"[">> \o Separated([i \in DOMAIN b.values |-> text[b.values[i]]]) \o <<"]">>
    [] b.type = "dict" ->
         LET pairs == Sorted(b)
         IN  <<"{">> \o Separated([i \in DOMAIN pairs |->
                                    text[pairs[i][1]] \o <<":", " ">> \o text[pairs[i][2]]])
                     \o <<"}">>

Printed(b) == ByParts(PrintWith)[b]

(* What the separators of n pieces take. *)
Separators(n) == IF n = 0 THEN 0 ELSE 2 * (n - 1)

CharSizeNoEscape(c) == IF c \notin Printable THEN 4 ELSE 1

CharSize(c) == IF c \notin Printable THEN 4 ELSE IF c \in NeedEscape THEN 2 ELSE 1

(* get_printed_size, given the sizes of the values inside. *)
PrintedSizeWith(size, b) ==
  CASE b.type = "bool" -> IF b.b THEN 4 ELSE 5
    [] b.type = "int"  -> Len(Numeral(b.ll))
    [] b.type = "str"  -> 2 + Total([i \in DOMAIN b.s |-> CharSize(b.s[i])])
    [] b.type = "list" ->
         2 + Separators(Len(b.values)) + Total([i \in DOMAIN b.values |-> size[b.values[i]]])
    [] b.type = "dict" ->
         2 + Separators(Len(b.keys))
           + Total([i \in DOMAIN b.keys |-> size[b.keys[i]] + 2 + size[b.values[i]]])

PrintedSize(b) == ByParts(PrintedSizeWith)[b]
=============================================================================
