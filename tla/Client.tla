------------------------------- MODULE Client --------------------------------
(***************************************************************************)
(* One run after another of the nano-torrent program: main.c, the message  *)
(* handlers of bittorrent.c and the socket calls of net.c.  The files on   *)
(* disk outlive a run, everything else is fresh in the next one.           *)
(*                                                                         *)
(* A message is read, acted on and answered in one step, except a piece    *)
(* that ends: save_piece appends to one file after another, each append a  *)
(* step, so that the program can die between two.                          *)
(***************************************************************************)
EXTENDS Wire

VARIABLES
  pc,               \* where the program is
  ret,              \* start_peer_connection's result, -1 when there is none
  requested_piece,  \* the piece to ask for
  piece_buf,        \* the piece under way
  piece, offset,    \* piece_message's locals
  i, index,         \* save_piece's locals: the file, and where in piece_buf
  bytes_to_write,   \* save_piece's local: what is left of the piece
  disk              \* the content of each file

saveVars   == <<piece, offset, i, index, bytes_to_write>>
clientVars == <<pc, ret, requested_piece, piece_buf, saveVars, disk>>

PCs == {"parse", "connect", "handshake", "recv", "save", "reply", "exit"}
NoBytes == [k \in 0..(PieceLength - 1) |-> Garbage]

ClientInit ==
  /\ pc = "parse"
  /\ ret = -1
  /\ requested_piece = 0
  /\ piece_buf = NoBytes
  /\ piece = 0 /\ offset = 0
  /\ i = 0 /\ index = 0 /\ bytes_to_write = 0
  /\ disk = [name \in Names |-> <<>>]

-----------------------------------------------------------------------------
(* Starting a run. *)

(* parse_torrent, of a .torrent file that is there and well formed. *)
ParseTorrent ==
  /\ pc = "parse"
  /\ pc' = "connect"
  /\ requested_piece' = CheckNextPiece(disk)
  /\ Calm
  /\ UNCHANGED <<linkVars, ret, piece_buf, saveVars, disk>>

(* uclconnect, and the first half of handshake_message. *)
Connect ==
  /\ pc = "connect"
  /\ pc' = "handshake"
  /\ OpenLink(Handshake)
  /\ Calm
  /\ UNCHANGED <<ret, requested_piece, piece_buf, saveVars, disk>>

(* uclconnect finds no peer, and error() ends the program. *)
ConnectFails ==
  /\ pc = "connect"
  /\ Disturb("close")
  /\ pc' = "exit"
  /\ UNCHANGED <<linkVars, ret, requested_piece, piece_buf, saveVars, disk>>

(* The second half of handshake_message: 68 bytes, whatever they are. *)
HandshakeOk ==
  /\ pc = "handshake"
  /\ toClient # <<>>
  /\ pc' = "recv"
  /\ ReadMsg
  /\ Calm
  /\ UNCHANGED <<toPeer, open, choking, interested,
                 ret, requested_piece, piece_buf, saveVars, disk>>

(* A read at the end of the stream, or one that returns too few bytes. *)
ShortRead == \/ toClient = <<>> /\ ~open /\ Calm
             \/ toClient # <<>> /\ Disturb("cut")

(* handshake_message returns 0, or the header of a message is not whole. *)
GiveUp ==
  /\ pc \in {"handshake", "recv"}
  /\ ShortRead
  /\ pc' = "exit"
  /\ ret' = 0
  /\ CloseLink
  /\ UNCHANGED <<requested_piece, piece_buf, saveVars, disk>>

(* A read or a write on a connection the peer has reset: error() exits. *)
SocketError ==
  /\ \/ pc \in {"handshake", "recv"}
     \/ pc = "reply" /\ CheckNextPiece(disk) >= 0
  /\ ~open
  /\ pc' = "exit"
  /\ CloseLink
  /\ Calm
  /\ UNCHANGED <<ret, requested_piece, piece_buf, saveVars, disk>>

-----------------------------------------------------------------------------
(* process_message_loop, one iteration per action. *)

Receives(types) ==
  /\ pc = "recv"
  /\ toClient # <<>>
  /\ Head(toClient).type \in types
  /\ ReadMsg

(* A keep-alive, and the messages the switch has no case for. *)
ReceiveIgnored ==
  /\ Receives({"keepalive", "choke", "have"})
  /\ Calm
  /\ UNCHANGED <<toPeer, open, choking, interested, clientVars>>

(* A body that is not read whole at once is read to its end and dropped. *)
(* A body of one byte cannot be cut.                                     *)
DrainMessage ==
  /\ Receives({"have", "bitfield", "piece"})
  /\ Disturb("cut")
  /\ UNCHANGED <<toPeer, open, choking, interested, clientVars>>

(* Mutant: a run that resumes starts over. *)
ReceiveUnchokeAfresh ==
  /\ Receives({"unchoke"})
  /\ Write(<<Request(0, 0, SizeRecv)>>)
  /\ Calm
  /\ UNCHANGED <<open, choking, interested, clientVars>>

ReceiveUnchoke ==
  /\ Receives({"unchoke"})
  /\ Write(<<Request(requested_piece, 0, SizeRecv)>>)
  /\ Calm
  /\ UNCHANGED <<open, choking, interested, clientVars>>

(* Mutant: the first request does not wait for the unchoke. *)
ReceiveBitfieldEagerly ==
  /\ Receives({"bitfield"})
  /\ Write(<<Interested, Request(requested_piece, 0, SizeRecv)>>)
  /\ Calm
  /\ UNCHANGED <<open, choking, interested, clientVars>>

ReceiveBitfield ==
  /\ Receives({"bitfield"})
  /\ Write(<<Interested>>)
  /\ Calm
  /\ UNCHANGED <<open, choking, interested, clientVars>>

(* piece_buf with the block of m copied into it. *)
Filled(m) ==
  [k \in DOMAIN piece_buf |->
     IF k \in m.begin..(m.begin + m.length - 1)
       THEN BlockByte(m, k - m.begin)
       ELSE piece_buf[k]]

(* piece_message up to its call of save_piece, which is the steps below. *)
ReceivePiece ==
  LET m    == Head(toClient)
      off  == m.begin + m.length
      ends == PieceEnds(m.index, off)
      good == ends /\ CheckSha1Piece(Filled(m), m.index, off)
  IN  /\ Receives({"piece"})
      /\ piece_buf' = Filled(m)
      /\ piece' = m.index
      /\ offset' = IF ends THEN 0 ELSE off
      /\ pc' = IF good THEN "save" ELSE "reply"
      /\ i' = 1
      /\ index' = 0
      /\ bytes_to_write' = IF good THEN off ELSE 0
      /\ Calm
      /\ UNCHANGED <<toPeer, open, choking, interested,
                     ret, requested_piece, disk>>

(* Mutant: every block has the standard size. *)
StandardSize == SizeRecv

(* The length to ask for: that of the block after `offset` in the piece just *)
(* received, whichever piece is asked for.                                   *)
SizeToReceive ==
  Lesser(SizeRecv, FileLength - (piece * PieceLength + offset))

(* The rest of piece_message: the next request, or the end of the download. *)
Reply ==
  /\ pc = "reply"
  /\ requested_piece' = CheckNextPiece(disk)
  /\ IF requested_piece' >= 0
       THEN /\ pc' = "recv"
            /\ Write(<<Request(requested_piece', offset, SizeToReceive)>>)
            /\ UNCHANGED <<toClient, open, choking, interested, ret>>
       ELSE /\ pc' = "exit"
            /\ ret' = 1
            /\ CloseLink
  /\ Calm
  /\ UNCHANGED <<piece_buf, saveVars, disk>>

-----------------------------------------------------------------------------
(* save_piece. *)

(* Mutant: what is on disk of the file is forgotten. *)
WholeFile(f) == FileLen(f)

(* The bytes file f lacks, and how many of them this append brings. *)
Room(f)   == FileLen(f) - Len(disk[FileName[f]])
Amount(f) == IF MultiFile THEN Lesser(Room(f), bytes_to_write)
                          ELSE bytes_to_write

Saving(f) ==
  /\ pc = "save"
  /\ f = i
  /\ f \in Files

(* The append puts n bytes in file f. *)
AppendTo(f, n) ==
  disk' = [disk EXCEPT ![FileName[f]] = @ \o BufBytes(piece_buf, index, n)]

(* fwrite: nobody looks at what it returns. *)
Fwrite(f) ==
  \/ AppendTo(f, Amount(f)) /\ Calm
  \/ Disturb("full") /\ \E n \in 0..(Amount(f) - 1) : AppendTo(f, n)

(* A file that is whole, or nothing left to write. *)
SaveSkip ==
  /\ MultiFile
  /\ \E f \in Files : Saving(f) /\ ~(Room(f) > 0 /\ bytes_to_write > 0)
  /\ i' = i + 1
  /\ Calm
  /\ UNCHANGED <<linkVars, pc, ret, requested_piece, piece_buf,
                 piece, offset, index, bytes_to_write, disk>>

(* Mutant: the file's length is taken off, not the room it had. *)
LeftAfterFile(f) == bytes_to_write - FileLen(f)

(* What is left of the piece once file f is full. *)
LeftAfter(f) == bytes_to_write - Room(f)

(* The piece crosses the end of this file. *)
SaveFill ==
  /\ MultiFile
  /\ \E f \in Files :
       /\ Saving(f)
       /\ Room(f) > 0
       /\ bytes_to_write > Room(f)
       /\ Fwrite(f)
       /\ index' = index + Room(f)
       /\ bytes_to_write' = LeftAfter(f)
  /\ i' = i + 1
  /\ UNCHANGED <<linkVars, pc, ret, requested_piece, piece_buf,
                 piece, offset>>

(* The rest of the piece fits in this file, or there is only one file. *)
SaveRest ==
  /\ \E f \in Files :
       /\ Saving(f)
       /\ MultiFile => bytes_to_write \in 1..Room(f)
       /\ Fwrite(f)
  /\ pc' = "reply"
  /\ UNCHANGED <<linkVars, ret, requested_piece, piece_buf, saveVars>>

(* The loop over the files ends with bytes left. *)
SaveEnds ==
  /\ pc = "save"
  /\ i > NumFiles
  /\ pc' = "reply"
  /\ Calm
  /\ UNCHANGED <<linkVars, ret, requested_piece, piece_buf, saveVars, disk>>

-----------------------------------------------------------------------------
(* The process, ended from outside and started again. *)

(* The program is killed.  In the middle of save_piece any part of the *)
(* append under way may have reached the disk.                         *)
Killed ==
  /\ pc # "exit"
  /\ IF pc = "save"
       THEN /\ Disturb("torn")
            /\ \/ UNCHANGED disk
               \/ \E f \in Files : Saving(f)
                    /\ \E n \in 1..Amount(f) : AppendTo(f, n)
       ELSE Disturb("crash") /\ UNCHANGED disk
  /\ pc' = "exit"
  /\ CloseLink
  /\ UNCHANGED <<ret, requested_piece, piece_buf, saveVars>>

(* The user starts the program again. *)
Restart ==
  /\ pc = "exit"
  /\ IF ret = 1 THEN Disturb("rerun") ELSE Calm
  /\ pc' = "parse"
  /\ ret' = -1
  /\ requested_piece' = 0
  /\ piece_buf' = NoBytes
  /\ piece' = 0 /\ offset' = 0
  /\ i' = 0 /\ index' = 0 /\ bytes_to_write' = 0
  /\ UNCHANGED <<linkVars, disk>>

StartUp     == ParseTorrent \/ Connect \/ ConnectFails \/ HandshakeOk
Stop        == GiveUp \/ SocketError \/ Killed
MessageLoop == \/ ReceiveIgnored \/ DrainMessage \/ ReceiveUnchoke
               \/ ReceiveBitfield \/ ReceivePiece \/ Reply
SavePiece   == SaveSkip \/ SaveFill \/ SaveRest \/ SaveEnds

ClientNext == StartUp \/ MessageLoop \/ SavePiece \/ Stop \/ Restart
=============================================================================
