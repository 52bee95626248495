------------------------------- MODULE Bencode -------------------------------
(***************************************************************************)
(* The values of bencode.h, and what the decoder and the containers share: *)
(* the order of keys and when an array has to grow.                        *)
(*                                                                         *)
(* An octet is a string with its character; a string of bencode is a       *)
(* sequence of octets.  A dictionary has its keys and values at the same   *)
(* positions of two arrays, in whatever order they were put there.         *)
(***************************************************************************)
EXTENDS Integers, SequencesExt

CONSTANTS
  Code,         \* the number of each octet that occurs, which memcmp compares
  FirstAlloc,   \* 4: the size of a container's first arrays
  MaxDepth,     \* a bound: how deep containers nest
  Fallible      \* which allocations may fail: "struct", "blob", "array"

Octet == DOMAIN Code

ASSUME BencodeAssumption ==
  /\ Code \in [Octet -> Nat]
  /\ \A c, d \in Octet : Code[c] = Code[d] => c = d
  /\ FirstAlloc \in Nat \ {0}
  /\ MaxDepth \in Nat
  /\ Fallible \subseteq {"struct", "blob", "array"}

None == [type |-> "none"]   \* NULL

BenBool(b) == [type |-> "bool", b |-> b]
BenInt(n)  == [type |-> "int", ll |-> n]
BenStr(s)  == [type |-> "str", s |-> s]
BenList(values)       == [type |-> "list", values |-> values]
BenDict(keys, values) == [type |-> "dict", keys |-> keys, values |-> values]

KeyTypes == {"int", "str"}

IntKeys == [type : {"int"}, ll : Int]
StrKeys == [type : {"str"}, s : Seq(Octet)]
AllKeys == IntKeys \union StrKeys

Simple == [type : {"bool"}, b : BOOLEAN] \union AllKeys

(* Those values, and the containers of values of V. *)
OneDeeper(V) ==
  Simple \union [type : {"list"}, values : Seq(V)]
         \union {d \in [type : {"dict"}, keys : Seq(AllKeys), values : Seq(V)] :
                   Len(d.keys) = Len(d.values)}

(* The values whose containers nest at most n deep. *)
Nested[n \in Nat] == IF n = 0 THEN Simple ELSE OneDeeper(Nested[n - 1])

(* What a recursive function of the code computes of a value: With says    *)
(* what from what it computes of the values inside.                        *)
ByParts(With(_, _)) ==
  LET f[n \in Nat] == IF n = 0 THEN [b \in Simple |-> With(<<>>, b)]
                               ELSE [b \in Nested[n] |-> With(f[n - 1], b)]
  IN  f[MaxDepth]

Sign(n) == IF n < 0 THEN -1 ELSE IF n > 0 THEN 1 ELSE 0

(* Where two strings differ, within the shorter of the two. *)
Differences(s, t) == {i \in DOMAIN s \intersect DOMAIN t : s[i] # t[i]}

(* memcmp of the common length, and the lengths when that finds nothing. *)
StrCmp(s, t) ==
  IF Differences(s, t) = {}
    THEN Sign(Len(s) - Len(t))
    ELSE LET i == CHOOSE k \in Differences(s, t) :
                    \A j \in Differences(s, t) : k <= j
         IN  Sign(Code[s[i]] - Code[t[i]])

(* ben_cmp: an integer is less than a string. *)
Cmp(a, b) ==
  IF a.type # b.type THEN IF a.type = "int" THEN -1 ELSE 1
  ELSE IF a.type = "int" THEN Sign(a.ll - b.ll)
  ELSE StrCmp(a.s, b.s)

(* Mutant: strcmp alone, which stops at a zero octet of the key. *)
SameStrNoLength(key, s) ==
  /\ key.type = "str"
  /\ LET zeros == {i \in DOMAIN key.s : key.s[i] = "NUL"}
     IN  (IF zeros = {} THEN key.s ELSE SubSeq(key.s, 1, Min(zeros) - 1)) = s

(* The tests of ben_dict_get_by_str for a C string s: the lengths, and     *)
(* strcmp, which sees the key up to its first zero octet.                  *)
SameStr(key, s) ==
  /\ key.type = "str"
  /\ Len(key.s) = Len(s)
  /\ LET zeros == {i \in DOMAIN key.s : key.s[i] = "NUL"}
     IN  (IF zeros = {} THEN key.s ELSE SubSeq(key.s, 1, Min(zeros) - 1)) = s

(* ben_dict_get_by_str. *)
GetByStr(ks, vs, s) ==
  LET found == {i \in DOMAIN ks : SameStr(ks[i], s)}
  IN  IF found = {} THEN None ELSE vs[Min(found)]

(* Arrays grow from nothing to FirstAlloc, and then twofold. *)
Grown(alloc) == IF alloc = 0 THEN FirstAlloc ELSE 2 * alloc
=============================================================================
