-------------------------------- MODULE Peer ---------------------------------
(***************************************************************************)
(* The seed the client downloads from.  Nothing under src/ is a peer: this *)
(* is the BitTorrent protocol as bittorrent.c counts on it.  The peer has  *)
(* every piece, says so in a bitfield, unchokes a client that is           *)
(* interested, and answers a request it can serve unless it chokes.        *)
(***************************************************************************)
EXTENDS Wire

PeerSends(msgs) == toClient' = toClient \o msgs

PeerReads(types) ==
  /\ open
  /\ toPeer # <<>>
  /\ Head(toPeer).type \in types
  /\ toPeer' = Tail(toPeer)

PeerHandshake ==
  /\ PeerReads({"handshake"})
  /\ PeerSends(<<Handshake, Bitfield>>)
  /\ Calm
  /\ UNCHANGED <<open, choking, interested>>

PeerInterested ==
  /\ PeerReads({"interested"})
  /\ interested' = TRUE
  /\ Calm
  /\ UNCHANGED <<toClient, open, choking>>

PeerUnchoke ==
  /\ open /\ interested /\ choking
  /\ choking' = FALSE
  /\ PeerSends(<<Unchoke>>)
  /\ Calm
  /\ UNCHANGED <<toPeer, open, interested>>

PeerChoke ==
  /\ open /\ ~choking
  /\ Disturb("choke")
  /\ choking' = TRUE
  /\ PeerSends(<<Choke>>)
  /\ UNCHANGED <<toPeer, open, interested>>

CanServe(m) == ~choking /\ ValidRequest(m)

Serves(good) ==
  /\ PeerReads({"request"})
  /\ LET m == Head(toPeer)
     IN  /\ CanServe(m)
         /\ PeerSends(<<Piece(m.index, m.begin, m.length, good)>>)
  /\ UNCHANGED <<open, choking, interested>>

PeerServe   == Serves(TRUE) /\ Calm
PeerCorrupt == Serves(FALSE) /\ Disturb("corrupt")

PeerRefuse ==
  /\ PeerReads({"request"})
  /\ ~CanServe(Head(toPeer))
  /\ Calm
  /\ UNCHANGED <<toClient, open, choking, interested>>

(* Messages the client ignores, at a time the peer may send them. *)
PeerChat ==
  /\ open /\ interested
  /\ Disturb("chat")
  /\ \E m \in {KeepAlive, Have} : PeerSends(<<m>>)
  /\ UNCHANGED <<toPeer, open, choking, interested>>

(* What the peer has sent can still be read; what it has not read is gone. *)
PeerClose ==
  /\ open
  /\ Disturb("close")
  /\ open' = FALSE
  /\ toPeer' = <<>>
  /\ UNCHANGED <<toClient, choking, interested>>

PeerNext ==
  \/ PeerHandshake \/ PeerInterested \/ PeerUnchoke \/ PeerChoke
  \/ PeerServe \/ PeerCorrupt \/ PeerRefuse \/ PeerChat \/ PeerClose
=============================================================================
