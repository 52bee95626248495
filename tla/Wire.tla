-------------------------------- MODULE Wire ---------------------------------
(***************************************************************************)
(* The TCP connection between the client and its one peer, as two FIFO     *)
(* queues of whole BitTorrent messages, and the disturbances of the        *)
(* environment a run allows.  How reads cut the byte stream is the subject *)
(* of module Receive; here a disturbance says which message a cut hits.    *)
(***************************************************************************)
EXTENDS Torrent

CONSTANTS
  Disturbances,     \* the disturbances that may happen
  MaxDisturbances   \* how many may happen in all: the bound of the model

(***************************************************************************)
(* "chat"     the peer sends a message the client has no use for           *)
(* "corrupt"  the peer sends a block whose bytes are wrong                 *)
(* "choke"    the peer chokes the client, and may unchoke it again         *)
(* "close"    the peer closes the connection                               *)
(* "cut"      a read returns less than the client asked for                *)
(* "crash"    the client dies, but not while save_piece runs               *)
(* "torn"     the client dies while save_piece runs                        *)
(* "full"     an fwrite of save_piece writes less than it was given        *)
(* "rerun"    the program is started although the download is complete     *)
(***************************************************************************)
AllDisturbances ==
  {"chat", "corrupt", "choke", "close", "cut",
   "crash", "torn", "full", "rerun"}

ASSUME WireAssumption ==
  /\ Disturbances \subseteq AllDisturbances
  /\ MaxDisturbances \in Nat

VARIABLES
  toPeer,       \* what the client has written and the peer has not read
  toClient,     \* what the peer has written and the client has not read
  open,         \* is there a connection that the peer has not closed?
  choking,      \* does the peer choke the client?
  interested,   \* has the peer read that the client is interested?
  disturbed     \* how many disturbances there have been

linkVars == <<toPeer, toClient, open, choking, interested>>
wireVars == <<linkVars, disturbed>>

(* Messages.  `good` says whether the bytes of a block are the torrent's. *)
Handshake   == [type |-> "handshake"]
Bitfield    == [type |-> "bitfield"]
Interested  == [type |-> "interested"]
Unchoke     == [type |-> "unchoke"]
Choke       == [type |-> "choke"]
Have        == [type |-> "have"]
KeepAlive   == [type |-> "keepalive"]
Request(p, b, l) ==
  [type |-> "request", index |-> p, begin |-> b, length |-> l]
Piece(p, b, l, g) ==
  [type |-> "piece", index |-> p, begin |-> b, length |-> l, good |-> g]

(* A request for bytes the torrent has, the only kind a peer answers. *)
ValidRequest(m) ==
  /\ m.index \in 0..(NumPieces - 1)
  /\ m.begin >= 0
  /\ m.length > 0
  /\ m.begin + m.length <= PieceSize(m.index)

(* Byte k of the block a piece message carries. *)
BlockByte(m, k) ==
  IF m.good THEN m.index * PieceLength + m.begin + k ELSE Garbage

Requests == [type : {"request"}, index : Int, begin : Int, length : Int]
Pieces   == [type : {"piece"}, index : Int, begin : Int, length : Int,
             good : BOOLEAN]
ToPeerMsgs   == {Handshake, Interested} \cup Requests
ToClientMsgs == {Handshake, Bitfield, Unchoke, Choke, Have, KeepAlive}
                  \cup {m \in Pieces : ValidRequest(m)}

WireInit ==
  /\ toPeer = <<>>
  /\ toClient = <<>>
  /\ open = FALSE
  /\ choking = TRUE
  /\ interested = FALSE
  /\ disturbed = 0

(* A connection starts choked and not interested, with nothing under way. *)
OpenLink(first) ==
  /\ toPeer' = <<first>>
  /\ toClient' = <<>>
  /\ open' = TRUE
  /\ choking' = TRUE
  /\ interested' = FALSE

(* The client's end is closed: nothing is read of what is under way. *)
CloseLink ==
  /\ toPeer' = <<>>
  /\ toClient' = <<>>
  /\ open' = FALSE
  /\ choking' = TRUE
  /\ interested' = FALSE

(* The client reads one message and writes the messages `replies`, which *)
(* are lost when the peer has closed.                                    *)
ReadMsg == toClient' = Tail(toClient)
Write(replies) == toPeer' = IF open THEN toPeer \o replies ELSE toPeer

(* Nothing disturbs this step; or one more disturbance, of kind d. *)
Calm == UNCHANGED disturbed
Disturb(d) ==
  /\ d \in Disturbances
  /\ disturbed < MaxDisturbances
  /\ disturbed' = disturbed + 1
=============================================================================
