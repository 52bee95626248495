------------------------------ MODULE Download -------------------------------
(***************************************************************************)
(* The client and its peer together, over one connection after another,    *)
(* and what the download promises.                                         *)
(***************************************************************************)
EXTENDS Client, Peer, FiniteSets

vars == <<wireVars, clientVars>>

Init == WireInit /\ ClientInit
Next == ClientNext \/ (PeerNext /\ UNCHANGED clientVars)
Spec == Init /\ [][Next]_vars

(* The program runs on, is started again when it ended, and the peer      *)
(* answers; nothing the environment is free to do is required of it.      *)
Fairness ==
  /\ WF_vars(ParseTorrent) /\ WF_vars(Connect) /\ WF_vars(HandshakeOk)
  /\ WF_vars(GiveUp)       /\ WF_vars(MessageLoop)
  /\ WF_vars(SavePiece)    /\ WF_vars(Restart)
  /\ WF_vars(UNCHANGED clientVars /\ (PeerHandshake \/ PeerInterested))
  /\ WF_vars(UNCHANGED clientVars /\ PeerUnchoke)
  /\ WF_vars(UNCHANGED clientVars /\ (PeerServe \/ PeerRefuse))

FairSpec == Spec /\ Fairness

-----------------------------------------------------------------------------
TypeOK ==
  /\ toPeer \in Seq(ToPeerMsgs)
  /\ toClient \in Seq(ToClientMsgs)
  /\ open \in BOOLEAN /\ choking \in BOOLEAN /\ interested \in BOOLEAN
  /\ disturbed \in 0..MaxDisturbances
  /\ pc \in PCs
  /\ ret \in {-1, 0, 1}
  /\ requested_piece \in Nat \cup {-1}
  /\ piece_buf \in [0..(PieceLength - 1) -> Bytes \cup {Garbage}]
  /\ piece \in Nat /\ offset \in Nat /\ i \in Nat
  /\ index \in Nat /\ bytes_to_write \in Nat
  /\ disk \in [Names -> Seq(Bytes \cup {Garbage})]

(* How many bytes of file f are among the first n of the torrent. *)
Held(f, n) == IF n <= Bounds[f] THEN 0
              ELSE Lesser(n - Bounds[f], FileLen(f))

(* The files hold the first n bytes of the torrent, and nothing else. *)
DiskHolds(n) ==
  \A f \in Files :
    disk[FileName[f]] = [k \in 1..Held(f, n) |-> Bounds[f] + k - 1]

(***************************************************************************)
(* Whatever connections are lost, blocks are corrupt, reads are cut and    *)
(* runs are killed between pieces, the files together hold a prefix of the *)
(* torrent: no byte twice, none missing, none in the wrong file, also in   *)
(* the middle of a piece that save_piece spreads over several files.       *)
(***************************************************************************)
DiskIsPrefix == \E n \in 0..FileLength : DiskHolds(n)

(***************************************************************************)
(* When start_peer_connection returns 1 ("download complete", line 110 of  *)
(* bittorrent.c) every file is whole and right.                            *)
(***************************************************************************)
CompleteIsWhole == ret = 1 => DiskHolds(FileLength)

(***************************************************************************)
(* No byte that failed the SHA1 check reaches a file, in any environment:  *)
(* whatever blocks overwrite each other in piece_buf, whatever part of an  *)
(* append is lost.                                                         *)
(***************************************************************************)
OnlyVerified ==
  \A name \in Names : \A k \in DOMAIN disk[name] : disk[name][k] # Garbage

(***************************************************************************)
(* requested_piece, computed by check_next_piece from sizes alone and used *)
(* a whole round trip later, is still the first piece not on disk when its *)
(* blocks come back.                                                       *)
(***************************************************************************)
RequestIsNext ==
  pc = "recv" =>
    IF requested_piece = -1 THEN DiskHolds(FileLength)
                            ELSE DiskHolds(requested_piece * PieceLength)

(***************************************************************************)
(* What the client asks for of a piece is within that piece, as a peer may *)
(* drop a request or a connection that asks for more.  Piece -1, which a   *)
(* run that starts with everything on disk asks for, is the subject of     *)
(* DoneAsksNothing.                                                        *)
(***************************************************************************)
RequestsInRange ==
  \A k \in DOMAIN toPeer :
    toPeer[k].type = "request" /\ toPeer[k].index # -1
      => ValidRequest(toPeer[k])

(***************************************************************************)
(* There is one thread of requests: of the unchoke that starts it, the     *)
(* request, the block that answers it and the piece being saved, at most   *)
(* one is there.  A second thread writes into the same piece_buf.          *)
(***************************************************************************)
Drives == {"unchoke", "request", "piece"}
Driving(queue) == {k \in DOMAIN queue : queue[k].type \in Drives}
Threads ==
  ({"asked"} \X Driving(toPeer)) \cup ({"answered"} \X Driving(toClient))
    \cup (IF pc \in {"save", "reply"} THEN {<<"working", 0>>} ELSE {})
OneThread == \A x, y \in Threads : x = y

(***************************************************************************)
(* The block that arrives is of the piece that is asked for, and the bytes *)
(* before it in piece_buf are that piece's unless one was corrupt.         *)
(***************************************************************************)
BlockBelongs ==
  \A k \in DOMAIN toClient :
    LET m == toClient[k]
    IN  m.type = "piece" /\ pc = "recv" =>
          /\ m.index = requested_piece
          /\ \A b \in 0..(m.begin - 1) :
               piece_buf[b] \in {m.index * PieceLength + b, Garbage}

(***************************************************************************)
(* Line 202 of bittorrent.c: when the download is finished no new piece is *)
(* asked for.                                                              *)
(***************************************************************************)
DoneAsksNothing ==
  DiskHolds(FileLength) =>
    \A k \in DOMAIN toPeer : toPeer[k].type # "request"

-----------------------------------------------------------------------------
(***************************************************************************)
(* The download implements Fetch: a piece counts as stored when it and all *)
(* before it are on disk, which the last append of save_piece brings       *)
(* about, and done is the result 1.                                        *)
(***************************************************************************)
OnDisk(b) ==
  \E f \in Files : /\ Bounds[f] <= b /\ b < Bounds[f + 1]
                   /\ Len(disk[FileName[f]]) > b - Bounds[f]
                   /\ disk[FileName[f]][b - Bounds[f] + 1] = b

PieceOnDisk(p) ==
  \A b \in (p * PieceLength)..(p * PieceLength + PieceSize(p) - 1) : OnDisk(b)

StoredPieces ==
  {p \in 0..(NumPieces - 1) : \A q \in 0..p : PieceOnDisk(q)}

AbstractFetch == INSTANCE Fetch WITH
  Pieces <- NumPieces,
  have   <- Cardinality(StoredPieces),
  done   <- ret = 1

ImplementsFetch     == AbstractFetch!Spec
ImplementsFairFetch == AbstractFetch!FairSpec

(***************************************************************************)
(* With a peer that answers, and a user who starts the program again, the  *)
(* torrent comes to be on disk, whatever finitely many blocks are corrupt, *)
(* connections lost and runs killed.                                       *)
(***************************************************************************)
Completes == <>[]DiskHolds(FileLength)

-----------------------------------------------------------------------------
(***************************************************************************)
(* Why the files stay right: an invariant that every step preserves where  *)
(* nothing chokes the client or cuts an append short, and no two files     *)
(* share a name.                                                           *)
(***************************************************************************)
Orderly ==
  /\ Disturbances \cap {"choke", "torn", "full"} = {}
  /\ \A f, g \in Files : FileName[f] = FileName[g] => f = g

None(queue)      == Driving(queue) = {}
AtMostOne(queue) == \A j, k \in Driving(queue) : j = k

(* One thread of requests at most, and none that outlives its connection. *)
ThreadInv ==
  /\ AtMostOne(toPeer) /\ AtMostOne(toClient)
  /\ None(toPeer) \/ None(toClient)
  /\ choking \/ pc \in {"save", "reply"} => None(toPeer) /\ None(toClient)
  /\ pc \in {"save", "reply"} => ~choking
  /\ pc \in {"parse", "connect", "exit"} =>
       toPeer = <<>> /\ toClient = <<>> /\ choking /\ ~open

(* Whatever is asked for or answered is of the piece to ask for. *)
Concerns(queue, p) ==
  \A k \in DOMAIN queue :
    queue[k].type \in {"request", "piece"} => queue[k].index = p

AskedInv ==
  pc \in {"handshake", "recv"} =>
    Concerns(toPeer, requested_piece) /\ Concerns(toClient, requested_piece)

(* The pieces before p are on disk and no more; -1 stands for all of them. *)
Settled(p) ==
  IF p = -1 THEN DiskHolds(FileLength)
            ELSE p \in 0..(NumPieces - 1) /\ DiskHolds(p * PieceLength)

(* save_piece has brought `index` bytes of the piece to disk, and file i is *)
(* the one the next byte belongs to, or an empty or full one before it.     *)
SavingInv ==
  /\ piece \in 0..(NumPieces - 1)
  /\ bytes_to_write > 0
  /\ index + bytes_to_write = PieceSize(piece)
  /\ \A k \in 0..(PieceSize(piece) - 1) :
       piece_buf[k] = piece * PieceLength + k
  /\ i \in 1..(NumFiles + 1)
  /\ Bounds[i] <= piece * PieceLength + index
  /\ DiskHolds(piece * PieceLength + index)
  /\ ~MultiFile => i = 1 /\ index = 0

DiskInv ==
  /\ pc \in {"connect", "handshake", "recv"} => Settled(requested_piece)
  /\ pc \in {"parse", "exit", "reply"} => \E p \in (-1)..(NumPieces - 1) : Settled(p)
  /\ pc = "save" => SavingInv
  /\ ret = 1 => pc = "exit" /\ Settled(-1)

DownloadInv == ThreadInv /\ AskedInv /\ DiskInv
=============================================================================
