-------------------------------- MODULE Fetch --------------------------------
(***************************************************************************)
(* What nano-torrent promises: the pieces of the torrent come to be on     *)
(* disk one after another, in order, none is ever lost, and the program    *)
(* says that the download is complete only when the last one is there.     *)
(***************************************************************************)
EXTENDS Integers

CONSTANT Pieces   \* how many pieces the torrent has

VARIABLES
  have,   \* how many pieces are on disk
  done    \* has the program said that it has them all?

vars == <<have, done>>

Init == have = 0 /\ done = FALSE

StorePiece ==
  /\ have < Pieces
  /\ ~done
  /\ have' = have + 1
  /\ UNCHANGED done

Report ==
  /\ have = Pieces
  /\ ~done
  /\ done' = TRUE
  /\ UNCHANGED have

(* The program is started again. *)
Forget ==
  /\ done
  /\ done' = FALSE
  /\ UNCHANGED have

Next == StorePiece \/ Report \/ Forget

Spec     == Init /\ [][Next]_vars
FairSpec == Spec /\ WF_vars(StorePiece)
=============================================================================
