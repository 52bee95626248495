----------------------------- MODULE MCDownload ------------------------------
(***************************************************************************)
(* Values for TLC: small torrents whose pieces and files cut each other.   *)
(***************************************************************************)
EXTENDS Download

(* Three pieces of 4, 4 and 3 bytes over four files: the first piece ends  *)
(* the first file, passes an empty one and starts the third; the last      *)
(* piece is cut by a file's end, and its last block is a short one.        *)
CrossBounds == <<0, 3, 3, 9, 11>>
CrossNames  == <<"a", "b", "c", "d">>

(* A single file of the same length. *)
OneBounds == <<0, 11>>
OneName   == <<"a">>
=============================================================================
