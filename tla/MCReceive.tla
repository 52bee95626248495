----------------------------- MODULE MCReceive -------------------------------
(***************************************************************************)
(* Values for TLC: a short handshake, sizes of two bytes, and five         *)
(* messages: a bitfield, an unchoke, a keep-alive and two pieces.  recv    *)
(* holds the second piece, but not the first when it comes at once.        *)
(***************************************************************************)
EXTENDS Receive

Sizes  == <<2, 1, 0, 4, 3>>
Starts == <<3, 7, 10, 12, 18, 23>>

(* The peer closes anywhere. *)
Anywhere == 0..StreamSize
=============================================================================
