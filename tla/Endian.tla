------------------------------- MODULE Endian --------------------------------
(***************************************************************************)
(* The macros of util.h by which a field of a message is split in four     *)
(* octets, the highest first, and joined again.  int has 32 bits and short *)
(* has 16; a cast to an unsigned type takes the remainder, one to int      *)
(* gives the upper half of the range the negative numbers, and >> of a     *)
(* negative int keeps its sign.                                            *)
(***************************************************************************)
EXTENDS Integers

Octet == {n \in Nat : n < 256}
Short == {n \in Nat : n < 65536}
Int32 == {n \in Int : -2147483648 <= n /\ n <= 2147483647}

ToInt(n) == IF n <= 2147483647 THEN n ELSE n - 4294967296

LOWORD(l) == l % 65536
HIWORD(l) == (l \div 65536) % 65536
LOBYTE(w) == w % 256
HIBYTE(w) == (w \div 256) % 256

HH(x) == HIBYTE(HIWORD(x))
HL(x) == LOBYTE(HIWORD(x))
LH(x) == HIBYTE(LOWORD(x))
LL(x) == LOBYTE(LOWORD(x))

(* The octets are unsigned char, so the masks of the macros change nothing. *)
MAKEWORD(a, b)      == a + 256 * b
MAKELONG(low, high) == ToInt(low + 65536 * high)

(* How requestblock_message writes a field, and how the fields of piece    *)
(* and the size of a message are read.                                     *)
Field(x)       == <<HH(x), HL(x), LH(x), LL(x)>>
FieldValue(b) == MAKELONG(MAKEWORD(b[4], b[3]), MAKEWORD(b[2], b[1]))

=============================================================================
