------------------------------- MODULE MCSha1 --------------------------------
(***************************************************************************)
(* Values for TLC: blocks of 8 octets of 2 bits and words of 2 octets, so  *)
(* that a message of 128 octets is too long, as one of 2^61 is in the code.*)
(***************************************************************************)
EXTENDS Sha1

Chunks == {1, 3, 7, 8, 9}
=============================================================================
