------------------------------- MODULE Torrent -------------------------------
(***************************************************************************)
(* The metadata parse_torrent takes from the .torrent file, and the        *)
(* geometry bittorrent.c computes with it: the files of the torrent laid   *)
(* end to end are one run of bytes, cut into pieces of PieceLength bytes.  *)
(*                                                                         *)
(* A byte of the torrent is modelled by its position in that run, so a     *)
(* file on disk is right exactly when it holds the right positions in      *)
(* order.  Garbage stands for every byte that is not the torrent's.        *)
(***************************************************************************)
EXTENDS Integers, Sequences

CONSTANTS
  PieceLength,  \* piece_length, the "piece length" of the info dictionary
  SizeRecv,     \* SIZE_RECV, the block size the client asks for
  MultiFile,    \* does the info dictionary have a "files" list?
  NumFiles,     \* files->n, or 1 for a torrent of a single file
  Bounds,       \* file f holds the bytes Bounds[f] .. Bounds[f+1] - 1
  FileName      \* the name file f is opened by: the last part of its path

ASSUME TorrentAssumption ==
  /\ PieceLength \in Nat \ {0}
  /\ SizeRecv \in Nat \ {0}
  /\ MultiFile \in BOOLEAN
  /\ NumFiles \in Nat \ {0}
  /\ ~MultiFile => NumFiles = 1
  /\ Bounds \in [1..(NumFiles + 1) -> Nat]
  /\ Bounds[1] = 0
  /\ \A f, g \in 1..(NumFiles + 1) : f <= g => Bounds[f] <= Bounds[g]
  /\ Bounds[NumFiles + 1] > 0
  /\ DOMAIN FileName = 1..NumFiles

Files == 1..NumFiles
Names == {FileName[f] : f \in Files}

(* The "length" of file f, and their sum, which is the last bound. *)
FileLen(f)  == Bounds[f + 1] - Bounds[f]
FileLength  == Bounds[NumFiles + 1]

Garbage == -1
Bytes   == 0..(FileLength - 1)

NumPieces == (FileLength + PieceLength - 1) \div PieceLength

(* All pieces are PieceLength long but the last, which ends with the torrent. *)
PieceSize(p) ==
  IF (p + 1) * PieceLength <= FileLength
    THEN PieceLength
    ELSE FileLength - p * PieceLength

(* Mutant: a short last piece never ends. *)
FullPieceEnds(p, off) == off = PieceLength

(* Where piece_message takes a block to be the last of its piece. *)
PieceEnds(p, off) ==
  off = PieceLength \/ p * PieceLength + off = FileLength

Lesser(a, b) == IF a <= b THEN a ELSE b

-----------------------------------------------------------------------------
(***************************************************************************)
(* The file system: d[name] is the content of the file of that name.  A    *)
(* file that does not exist is modelled as an empty one, because           *)
(* check_next_piece and save_piece treat getfilesize's -1 as they treat 0. *)
(***************************************************************************)

(* The sum check_next_piece takes of the sizes on disk, one file of the *)
(* torrent after the other.                                             *)
TotalSize(d) ==
  LET sum[f \in 0..NumFiles] ==
        IF f = 0 THEN 0 ELSE sum[f - 1] + Len(d[FileName[f]])
  IN  sum[NumFiles]

(* Mutants: the download is complete when the last piece has begun; a byte *)
(* short in the division.                                                  *)
NextPieceInPieces(d) ==
  IF TotalSize(d) \div PieceLength = NumPieces - 1
    THEN -1
    ELSE TotalSize(d) \div PieceLength
NextPieceOffByOne(d) ==
  CASE TotalSize(d) = FileLength -> -1
    [] TotalSize(d) = 0          -> 0
    [] OTHER                     -> (TotalSize(d) - 1) \div PieceLength

(* The piece to ask for next, or -1 when the sizes say all is on disk. *)
CheckNextPiece(d) ==
  IF TotalSize(d) = FileLength THEN -1 ELSE TotalSize(d) \div PieceLength

(* Mutant: the length is checked, the digest is not. *)
CheckLength(buf, p, len) == p \in 0..(NumPieces - 1) /\ len = PieceSize(p)

(* The first `len` bytes of the buffer have the SHA1 the torrent lists for *)
(* piece p: distinct contents are taken to have distinct digests.          *)
CheckSha1Piece(buf, p, len) ==
  /\ p \in 0..(NumPieces - 1)
  /\ len = PieceSize(p)
  /\ \A k \in 0..(len - 1) : buf[k] = p * PieceLength + k

(* What the bytes buf[from] .. buf[from + n - 1] look like in a file. *)
BufBytes(buf, from, n) == [k \in 1..n |-> buf[from + k - 1]]
=============================================================================
