--------------------------- MODULE DownloadProofs ----------------------------
(***************************************************************************)
(* What holds of the download for every torrent, every environment and     *)
(* every number of lost connections, cut reads, corrupt blocks and kills   *)
(* between pieces: what is written was verified; the files hold a prefix   *)
(* of the torrent, and the whole of it when the program says so; what is   *)
(* asked for and what arrives is as it should be; and the download         *)
(* implements Fetch.                                                       *)
(***************************************************************************)
EXTENDS Download, TLAPS, SequenceTheorems, FiniteSetTheorems

(* The lemmas on the naturals; nothing is defined by this recursion. *)
LOCAL INSTANCE Recursion WITH Base <- 0, Step <- LAMBDA n, x : x

-----------------------------------------------------------------------------
(* The geometry of a torrent and check_next_piece's sum, for every torrent *)
(* TorrentAssumption allows.                                               *)

(* The bounds of the files are naturals in order, the last the length. *)
LEMMA BoundsType ==
  /\ NumFiles \in Nat \ {0} /\ PieceLength \in Nat \ {0}
  /\ SizeRecv \in Nat \ {0}
  /\ FileLength \in Nat \ {0}
  /\ \A f \in Files : /\ Bounds[f] \in Nat /\ Bounds[f + 1] \in Nat
                      /\ FileLen(f) \in Nat
                      /\ Bounds[f] <= Bounds[f + 1]
                      /\ Bounds[f + 1] <= FileLength
                      /\ FileName[f] \in Names
BY TorrentAssumption DEF Files, Names, FileLength, FileLen

LEMMA DivOfMultiple == ASSUME NEW p \in Nat PROVE (p * PieceLength) \div PieceLength = p
BY TorrentAssumption

(* A piece that the torrent has lies in the torrent. *)
LEMMA PieceInTorrent ==
  ASSUME NEW p \in 0..(NumPieces - 1)
  PROVE  /\ p * PieceLength \in Nat
         /\ p * PieceLength < FileLength
         /\ PieceSize(p) \in 1..PieceLength
         /\ p * PieceLength + PieceSize(p) <= FileLength
         /\ \/ p * PieceLength + PieceSize(p) = FileLength
            \/ p * PieceLength + PieceSize(p) = (p + 1) * PieceLength
<1> DEFINE q == (FileLength + PieceLength - 1) \div PieceLength
<1>1. PieceLength \in Nat \ {0} /\ FileLength \in Nat \ {0}
  BY BoundsType
<1>2. q \in Nat /\ q * PieceLength <= FileLength + PieceLength - 1
  BY <1>1
<1>3. p \in Nat /\ p + 1 <= q
  BY <1>2 DEF NumPieces
<1>4. (p + 1) * PieceLength <= q * PieceLength
  BY <1>1, <1>2, <1>3
<1>5. (p + 1) * PieceLength = p * PieceLength + PieceLength
  BY <1>1, <1>3
<1>6. p * PieceLength \in Nat /\ q * PieceLength \in Nat
  BY <1>1, <1>2, <1>3
<1>7. p * PieceLength < FileLength
  BY <1>1, <1>2, <1>4, <1>5, <1>6
<1> QED BY <1>1, <1>5, <1>6, <1>7 DEF PieceSize

-----------------------------------------------------------------------------
(***************************************************************************)
(* The running sum: TotalSize is the last value of any function that adds  *)
(* up the sizes, and there is such a function.                             *)
(***************************************************************************)
RunningSum(g, d, n) ==
  /\ g \in [0..n -> Nat]
  /\ g[0] = 0
  /\ \A f \in 1..n : g[f] = g[f - 1] + Len(d[FileName[f]])

LEMMA TotalSizeIsSum ==
  ASSUME NEW d, NEW g, RunningSum(g, d, NumFiles)
  PROVE  TotalSize(d) = g[NumFiles]
<1> DEFINE sum == CHOOSE s : s = [f \in 0..NumFiles |->
                     IF f = 0 THEN 0 ELSE s[f - 1] + Len(d[FileName[f]])]
           E == {n \in Nat : n \in 0..NumFiles => sum[n] = g[n]}
<1>1. NumFiles \in Nat \ {0}
  BY BoundsType
<1>2. g = [f \in 0..NumFiles |->
             IF f = 0 THEN 0 ELSE g[f - 1] + Len(d[FileName[f]])]
  BY <1>1 DEF RunningSum
<1>3. sum = [f \in 0..NumFiles |->
               IF f = 0 THEN 0 ELSE sum[f - 1] + Len(d[FileName[f]])]
  BY <1>2
<1> HIDE DEF sum
<1>4. 0 \in E
  BY <1>1, <1>3 DEF RunningSum
<1>5. ASSUME NEW n \in Nat, n \in E PROVE n + 1 \in E
  <2>1. SUFFICES ASSUME n + 1 \in 0..NumFiles PROVE sum[n + 1] = g[n + 1]
    OBVIOUS
  <2>2. sum[n] = g[n]
    BY <1>1, <1>5, <2>1
  <2>3. sum[n + 1] = sum[(n + 1) - 1] + Len(d[FileName[n + 1]])
    BY <1>1, <1>3, <2>1
  <2>4. g[n + 1] = g[(n + 1) - 1] + Len(d[FileName[n + 1]])
    BY <1>1, <2>1 DEF RunningSum
  <2>5. (n + 1) - 1 = n
    OBVIOUS
  <2> QED BY <2>2, <2>3, <2>4, <2>5
<1>6. Nat \subseteq E
  <2> HIDE DEF E
  <2> QED BY <1>4, <1>5, NatSetInduction
<1>7. sum[NumFiles] = g[NumFiles]
  BY <1>1, <1>6
<1> QED BY <1>7 DEF TotalSize, sum

(* Every content of the disk has a size. *)
LEMMA TotalSizeType ==
  ASSUME NEW B, NEW d \in [Names -> Seq(B)]
  PROVE  TotalSize(d) \in Nat
<1> DEFINE E == {n \in Nat : n <= NumFiles => \E g : RunningSum(g, d, n)}
<1>1. NumFiles \in Nat \ {0}
  BY BoundsType
<1>2. 0 \in E
  <2>1. RunningSum([f \in 0..0 |-> 0], d, 0)
    BY DEF RunningSum
  <2> QED BY <2>1
<1>3. ASSUME NEW n \in Nat, n \in E PROVE n + 1 \in E
  <2>1. SUFFICES ASSUME n + 1 <= NumFiles
                 PROVE  \E g : RunningSum(g, d, n + 1)
    OBVIOUS
  <2>2. PICK g : RunningSum(g, d, n)
    BY <1>1, <1>3, <2>1
  <2>3. n + 1 \in Files
    BY <1>1, <2>1 DEF Files
  <2>4. Len(d[FileName[n + 1]]) \in Nat
    BY <2>3, BoundsType
  <2> DEFINE h == [f \in 0..(n + 1) |->
                     IF f = n + 1 THEN g[n] + Len(d[FileName[n + 1]])
                                  ELSE g[f]]
  <2>5. h \in [0..(n + 1) -> Nat]
    BY <2>2, <2>4 DEF RunningSum
  <2>6. h[0] = 0
    BY <2>2 DEF RunningSum
  <2>7. ASSUME NEW f \in 1..(n + 1)
        PROVE  h[f] = h[f - 1] + Len(d[FileName[f]])
    <3>1. CASE f = n + 1
      <4>1. h[f] = g[n] + Len(d[FileName[f]])
        BY <3>1
      <4>2. h[f - 1] = g[n]
        BY <3>1
      <4> QED BY <4>1, <4>2
    <3>2. CASE f # n + 1
      <4>1. f \in 1..n /\ f - 1 \in 0..n
        BY <3>2
      <4>2. h[f] = g[f] /\ h[f - 1] = g[f - 1]
        BY <4>1
      <4> QED BY <2>2, <4>1, <4>2 DEF RunningSum
    <3> QED BY <3>1, <3>2
  <2> HIDE DEF h
  <2>8. RunningSum(h, d, n + 1)
    BY <2>5, <2>6, <2>7 DEF RunningSum
  <2> QED BY <2>8
<1>4. Nat \subseteq E
  <2> HIDE DEF E
  <2> QED BY <1>2, <1>3, NatSetInduction
<1>5. PICK g : RunningSum(g, d, NumFiles)
  BY <1>1, <1>4
<1>6. g[NumFiles] \in Nat
  BY <1>1, <1>5 DEF RunningSum
<1> QED BY <1>5, <1>6, TotalSizeIsSum

(* So check_next_piece returns a piece number or -1. *)
LEMMA CheckNextPieceType ==
  ASSUME NEW B, NEW d \in [Names -> Seq(B)]
  PROVE  CheckNextPiece(d) \in Nat \cup {-1}
<1>1. TotalSize(d) \in Nat
  BY TotalSizeType
<1> QED BY <1>1, BoundsType DEF CheckNextPiece

-----------------------------------------------------------------------------

USE DEF Calm

Byte == Bytes \cup {Garbage}

(* Each append of save_piece stays inside what was received of the piece. *)
SaveFits == pc = "save" => index + bytes_to_write <= PieceLength

TypeInv == TypeOK /\ SaveFits

-----------------------------------------------------------------------------
(* The messages. *)

LEMMA MessageTypes ==
  /\ Handshake \in ToPeerMsgs /\ Interested \in ToPeerMsgs
  /\ {Handshake, Bitfield, Unchoke, Choke, Have, KeepAlive}
       \subseteq ToClientMsgs
  /\ \A p, b, l \in Int : Request(p, b, l) \in ToPeerMsgs
  /\ \A m \in ToPeerMsgs : m.type = "request" => m \in Requests
  /\ \A m \in ToClientMsgs :
       m.type = "piece" => m \in Pieces /\ ValidRequest(m)
BY DEF ToPeerMsgs, ToClientMsgs, Requests, Pieces, Request, Handshake,
       Interested, Bitfield, Unchoke, Choke, Have, KeepAlive

(* A block the peer may send lies in its piece, and the piece in the buffer. *)
LEMMA BlockFits ==
  ASSUME NEW m, m.begin \in Int, m.length \in Int, ValidRequest(m)
  PROVE  /\ m.index \in 0..(NumPieces - 1)
         /\ m.index * PieceLength \in Nat
         /\ m.begin \in Nat /\ m.length \in Nat \ {0}
         /\ m.begin + m.length <= PieceSize(m.index)
         /\ m.begin + m.length <= PieceLength
         /\ m.index * PieceLength + m.begin + m.length <= FileLength
<1>1. m.index \in 0..(NumPieces - 1)
  BY DEF ValidRequest
<1>2. /\ m.index * PieceLength \in Nat
      /\ PieceSize(m.index) \in 1..PieceLength
      /\ m.index * PieceLength + PieceSize(m.index) <= FileLength
  BY <1>1, PieceInTorrent
<1> DEFINE at == m.index * PieceLength
           size == PieceSize(m.index)
<1>3. /\ m.begin >= 0 /\ m.length > 0 /\ m.begin + m.length <= size
  BY DEF ValidRequest
<1>4. at \in Nat /\ size \in 1..PieceLength /\ at + size <= FileLength
  BY <1>2
<1>5. PieceLength \in Nat /\ FileLength \in Nat
  BY BoundsType
<1> HIDE DEF at, size
<1>6. /\ m.begin + m.length <= PieceLength
      /\ at + m.begin + m.length <= FileLength
  BY <1>3, <1>4, <1>5
<1> QED BY <1>1, <1>2, <1>3, <1>6 DEF at, size

LEMMA DisturbType ==
  ASSUME disturbed \in 0..MaxDisturbances, NEW d, Disturb(d)
  PROVE  disturbed' \in 0..MaxDisturbances
BY WireAssumption DEF Disturb

LEMMA FilledType ==
  ASSUME NEW m \in Pieces, ValidRequest(m),
         piece_buf \in [0..(PieceLength - 1) -> Byte]
  PROVE  Filled(m) \in [0..(PieceLength - 1) -> Byte]
<1>1. /\ m.index * PieceLength \in Nat
      /\ m.begin \in Nat /\ m.length \in Nat
      /\ m.index * PieceLength + m.begin + m.length <= FileLength
      /\ m.begin \in Int /\ m.length \in Int
  BY BlockFits DEF Pieces
<1>2. ASSUME NEW k \in m.begin..(m.begin + m.length - 1)
      PROVE  BlockByte(m, k - m.begin) \in Byte
  <2> DEFINE at == m.index * PieceLength
             b  == m.begin
             l  == m.length
  <2>1. at \in Nat /\ b \in Nat /\ l \in Nat /\ at + b + l <= FileLength
    BY <1>1
  <2>2. k \in b..(b + l - 1) /\ FileLength \in Nat
    BY BoundsType
  <2> HIDE DEF at, b, l
  <2>3. at + b + (k - b) \in 0..(FileLength - 1)
    BY <2>1, <2>2
  <2> QED BY <2>3 DEF at, b, BlockByte, Byte, Bytes
<1> QED BY <1>2 DEF Filled

LEMMA AppendToType ==
  ASSUME TypeOK, NEW f \in Files, NEW n \in Nat,
         index + n <= PieceLength, AppendTo(f, n)
  PROVE  disk' \in [Names -> Seq(Byte)]
<1> DEFINE chunk == BufBytes(piece_buf, index, n)
<1>1. chunk \in Seq(Byte)
  BY BoundsType DEF TypeOK, BufBytes, Byte
<1>2. FileName[f] \in Names
  BY BoundsType
<1>3. disk[FileName[f]] \o chunk \in Seq(Byte)
  <2> HIDE DEF chunk
  <2> QED BY <1>1, <1>2 DEF TypeOK, Byte
<1> HIDE DEF chunk
<1> QED BY <1>2, <1>3 DEF AppendTo, chunk, TypeOK, Byte

-----------------------------------------------------------------------------
(* Type correctness. *)

LEMMA TypeInit == Init => TypeInv
<1> SUFFICES ASSUME Init PROVE TypeInv
  OBVIOUS
<1> USE BoundsType, WireAssumption DEF Init, WireInit, ClientInit
<1>1. piece_buf \in [0..(PieceLength - 1) -> Byte]
  BY DEF NoBytes, Byte
<1>2. disk \in [Names -> Seq(Byte)]
  OBVIOUS
<1>3. SaveFits
  BY DEF SaveFits
<1> QED BY <1>1, <1>2, <1>3 DEF TypeInv, TypeOK, Byte, PCs

(* The steps of the peer. *)
LEMMA TypePeer ==
  ASSUME TypeInv, PeerNext, UNCHANGED clientVars
  PROVE  TypeInv'
<1>1. /\ toPeer \in Seq(ToPeerMsgs) /\ toClient \in Seq(ToClientMsgs)
      /\ disturbed \in 0..MaxDisturbances
      /\ open \in BOOLEAN /\ choking \in BOOLEAN /\ interested \in BOOLEAN
  BY DEF TypeInv, TypeOK
<1>2. ASSUME NEW good \in BOOLEAN, Serves(good)
      PROVE  toClient' \in Seq(ToClientMsgs)
  <2> DEFINE m == Head(toPeer)
             r == Piece(m.index, m.begin, m.length, good)
  <2>1. m \in Requests /\ ValidRequest(m) /\ toClient' = toClient \o <<r>>
    BY <1>1, <1>2, MessageTypes DEF Serves, PeerReads, PeerSends, CanServe
  <2>2. r \in Pieces /\ ValidRequest(r)
    BY <2>1 DEF Requests, Pieces, Piece, ValidRequest
  <2> HIDE DEF r
  <2>3. r \in ToClientMsgs
    BY <2>2 DEF ToClientMsgs
  <2> QED BY <1>1, <2>1, <2>3
<1>3. ASSUME NEW msgs \in Seq(ToClientMsgs), PeerSends(msgs)
      PROVE  toClient' \in Seq(ToClientMsgs)
  BY <1>1, <1>3 DEF PeerSends
<1>4. /\ <<Handshake, Bitfield>> \in Seq(ToClientMsgs)
      /\ <<Unchoke>> \in Seq(ToClientMsgs)
      /\ <<Choke>> \in Seq(ToClientMsgs)
      /\ <<KeepAlive>> \in Seq(ToClientMsgs)
      /\ <<Have>> \in Seq(ToClientMsgs)
  BY MessageTypes
<1>5. toClient' \in Seq(ToClientMsgs)
  <2>1. CASE PeerServe \/ PeerCorrupt
    BY <1>2, <2>1 DEF PeerServe, PeerCorrupt
  <2>2. CASE \E msgs \in {<<Handshake, Bitfield>>, <<Unchoke>>, <<Choke>>,
                         <<KeepAlive>>, <<Have>>} : PeerSends(msgs)
    BY ONLY <1>3, <1>4, <2>2
  <2>3. CASE UNCHANGED toClient
    BY <1>1, <2>3
  <2> QED BY <2>1, <2>2, <2>3 DEF PeerNext, PeerHandshake, PeerInterested,
             PeerUnchoke, PeerChoke, PeerRefuse, PeerChat, PeerClose
<1>6. toPeer' \in Seq(ToPeerMsgs)
  <2>1. \/ toPeer # <<>> /\ toPeer' = Tail(toPeer)
        \/ toPeer' = <<>>
        \/ UNCHANGED toPeer
    BY DEF PeerNext, PeerHandshake, PeerInterested, PeerUnchoke, PeerChoke,
     PeerServe, PeerCorrupt, Serves, PeerRefuse, PeerChat, PeerClose, PeerReads
  <2>2. CASE toPeer # <<>> /\ toPeer' = Tail(toPeer)
    BY <1>1, <2>2
  <2>3. CASE toPeer' = <<>>
    BY <2>3
  <2> QED BY <1>1, <2>1, <2>2, <2>3
<1>7. disturbed' \in 0..MaxDisturbances
  <2>1. UNCHANGED disturbed \/ \E d \in AllDisturbances : Disturb(d)
    BY DEF PeerNext, PeerHandshake, PeerInterested, PeerUnchoke,
     PeerChoke, PeerServe, PeerCorrupt, PeerRefuse, PeerChat, PeerClose, AllDisturbances
  <2> QED BY <1>1, <2>1, DisturbType
<1>8. /\ open' \in BOOLEAN /\ choking' \in BOOLEAN /\ interested' \in BOOLEAN
  BY <1>1 DEF PeerNext, PeerHandshake, PeerInterested, PeerUnchoke, PeerChoke,
     PeerServe, PeerCorrupt, Serves, PeerRefuse, PeerChat, PeerClose, PeerReads
<1> QED BY <1>5, <1>6, <1>7, <1>8 DEF TypeInv, TypeOK, SaveFits, clientVars, saveVars

(* What a step of the client does to the connection. *)
LEMMA TypeLink ==
  ASSUME TypeInv, ClientNext
  PROVE  /\ toPeer' \in Seq(ToPeerMsgs) /\ toClient' \in Seq(ToClientMsgs)
         /\ open' \in BOOLEAN /\ choking' \in BOOLEAN /\ interested' \in BOOLEAN
         /\ disturbed' \in 0..MaxDisturbances
<1>1. /\ toPeer \in Seq(ToPeerMsgs) /\ toClient \in Seq(ToClientMsgs)
      /\ disturbed \in 0..MaxDisturbances
      /\ open \in BOOLEAN /\ choking \in BOOLEAN /\ interested \in BOOLEAN
  BY DEF TypeInv, TypeOK
<1> USE DEF ClientNext, StartUp, MessageLoop, SavePiece, Stop,
            ParseTorrent, Connect, ConnectFails, HandshakeOk, GiveUp,
            SocketError, ReceiveIgnored, DrainMessage, ReceiveUnchoke,
            ReceiveBitfield, ReceivePiece, Reply, SaveSkip, SaveFill,
            SaveRest, SaveEnds, Killed, Restart, Receives, ReadMsg,
            OpenLink, CloseLink, linkVars, ShortRead
<1>2. toClient' \in Seq(ToClientMsgs)
  <2>1. \/ toClient # <<>> /\ toClient' = Tail(toClient)
        \/ toClient' = <<>>
        \/ UNCHANGED toClient
    OBVIOUS
  <2>2. CASE toClient # <<>> /\ toClient' = Tail(toClient)
    BY ONLY <1>1, <2>2
  <2>3. CASE toClient' = <<>>
    BY ONLY <2>3
  <2> QED BY ONLY <1>1, <2>1, <2>2, <2>3
<1>3. toPeer' \in Seq(ToPeerMsgs)
  <2>1. \/ toPeer' = <<Handshake>>
        \/ toPeer' = <<>>
        \/ UNCHANGED toPeer
        \/ toPeer' = toPeer \o <<Interested>>
        \/ toPeer' = toPeer \o <<Request(requested_piece, 0, SizeRecv)>>
        \/ toPeer' = toPeer \o
             <<Request(CheckNextPiece(disk), offset, SizeToReceive)>>
    BY DEF Write
  <2>2. Request(requested_piece, 0, SizeRecv) \in ToPeerMsgs
    BY MessageTypes, BoundsType DEF TypeInv, TypeOK
  <2>3. Request(CheckNextPiece(disk), offset, SizeToReceive) \in ToPeerMsgs
    <3>1. CheckNextPiece(disk) \in Int
      BY CheckNextPieceType DEF TypeInv, TypeOK
    <3>2. SizeToReceive \in Int /\ offset \in Int
      BY BoundsType DEF SizeToReceive, Lesser, TypeInv, TypeOK
    <3> QED BY ONLY <3>1, <3>2, MessageTypes
  <2>4. ASSUME NEW m \in ToPeerMsgs
        PROVE  toPeer \o <<m>> \in Seq(ToPeerMsgs)
    BY ONLY <1>1
  <2>5. <<Handshake>> \in Seq(ToPeerMsgs) /\ <<>> \in Seq(ToPeerMsgs)
    BY ONLY MessageTypes
  <2> QED BY ONLY <1>1, <2>1, <2>2, <2>3, <2>4, <2>5, MessageTypes
<1>4. open' \in BOOLEAN /\ choking' \in BOOLEAN /\ interested' \in BOOLEAN
  BY <1>1
<1>5. disturbed' \in 0..MaxDisturbances
  <2>1. UNCHANGED disturbed \/ \E d \in AllDisturbances : Disturb(d)
    BY DEF AllDisturbances, Fwrite
  <2> QED BY ONLY <1>1, <2>1, DisturbType
<1> QED BY ONLY <1>2, <1>3, <1>4, <1>5

(* What a step of the client does to its own variables. *)
Locals ==
  /\ pc \in PCs
  /\ ret \in {-1, 0, 1}
  /\ requested_piece \in Nat \cup {-1}
  /\ piece_buf \in [0..(PieceLength - 1) -> Byte]
  /\ piece \in Nat /\ offset \in Nat /\ i \in Nat
  /\ index \in Nat /\ bytes_to_write \in Nat
  /\ disk \in [Names -> Seq(Byte)]
  /\ SaveFits

LEMMA TypeLocals ==
  ASSUME TypeInv, ClientNext
  PROVE  Locals'
<1>1. Locals
  BY DEF Locals, TypeInv, TypeOK, Byte
<1>2. CheckNextPiece(disk) \in Nat \cup {-1}
  BY <1>1, CheckNextPieceType DEF Locals
<1>3. \A f \in Files : Room(f) \in Int /\ Amount(f) \in Int
                      /\ Amount(f) <= bytes_to_write
  BY <1>1, BoundsType DEF Locals, Room, Amount, Lesser
<1>4. ASSUME NEW f \in Files, NEW n \in Nat, pc = "save",
             n <= Amount(f), AppendTo(f, n)
      PROVE  disk' \in [Names -> Seq(Byte)]
  <2>1. index + n <= PieceLength
    BY <1>1, <1>3, <1>4, BoundsType DEF Locals, SaveFits
  <2> QED BY <1>4, <2>1, AppendToType DEF TypeInv
<1>5. ASSUME NEW f \in Files, pc = "save", Amount(f) >= 0, Fwrite(f)
      PROVE  disk' \in [Names -> Seq(Byte)]
  <2>1. CASE AppendTo(f, Amount(f))
    BY <1>3, <1>4, <1>5, <2>1
  <2>2. CASE \E n \in 0..(Amount(f) - 1) : AppendTo(f, n)
    BY <1>3, <1>4, <1>5, <2>2
  <2> QED BY <1>5, <2>1, <2>2 DEF Fwrite
<1> USE <1>1 DEF Locals, SaveFits, PCs, saveVars, clientVars
<1>6. CASE StartUp
  BY <1>2, <1>6 DEF StartUp, ParseTorrent, Connect, ConnectFails, HandshakeOk
<1>7. CASE GiveUp \/ SocketError
  BY <1>7 DEF GiveUp, SocketError
<1>8. CASE Killed
  <2>1. disk' \in [Names -> Seq(Byte)]
    <3>1. CASE pc = "save"
      BY <1>3, <1>4, <1>8, <3>1 DEF Killed, Saving
    <3>2. CASE pc # "save"
      BY <1>8, <3>2 DEF Killed
    <3> QED BY <3>1, <3>2
  <2> QED BY <1>8, <2>1 DEF Killed
<1>9. CASE Restart
  BY <1>9 DEF Restart, NoBytes, Byte
<1>10. CASE ReceiveIgnored \/ DrainMessage \/ ReceiveUnchoke \/ ReceiveBitfield
  BY <1>10 DEF ReceiveIgnored, DrainMessage, ReceiveUnchoke, ReceiveBitfield,
     Receives
<1>11. CASE ReceivePiece
  <2> DEFINE m == Head(toClient)
  <2>1. m \in Pieces /\ ValidRequest(m)
    BY <1>11, MessageTypes DEF ReceivePiece, Receives, TypeInv, TypeOK
  <2>2. /\ m.index \in Nat /\ m.begin + m.length \in Nat
        /\ m.begin + m.length <= PieceLength
    BY <2>1, BlockFits DEF Pieces
  <2>3. Filled(m) \in [0..(PieceLength - 1) -> Byte]
    BY <2>1, FilledType
  <2> HIDE DEF m
  <2> QED BY <1>11, <2>2, <2>3 DEF ReceivePiece, m
<1>12. CASE Reply
  BY <1>2, <1>12 DEF Reply
<1>13. CASE SaveSkip \/ SaveEnds
  BY <1>13 DEF SaveSkip, SaveEnds
<1>14. CASE SaveFill
  <2>1. PICK f \in Files :
          /\ pc = "save" /\ Room(f) > 0 /\ bytes_to_write > Room(f)
          /\ Fwrite(f)
          /\ index' = index + Room(f)
          /\ bytes_to_write' = LeftAfter(f)
    BY <1>14 DEF SaveFill, Saving
  <2>2. Amount(f) >= 0
    BY <1>3, <2>1 DEF Amount, Lesser
  <2>3. disk' \in [Names -> Seq(Byte)]
    BY <1>5, <2>1, <2>2
  <2>4. /\ index' \in Nat /\ bytes_to_write' \in Nat
        /\ index' + bytes_to_write' = index + bytes_to_write
    BY <1>3, <2>1 DEF LeftAfter
  <2>5. /\ i' = i + 1
        /\ UNCHANGED <<pc, ret, requested_piece, piece_buf, piece, offset>>
    BY <1>14 DEF SaveFill
  <2> QED BY <2>1, <2>3, <2>4, <2>5
<1>15. CASE SaveRest
  <2>1. PICK f \in Files :
          /\ pc = "save" /\ Fwrite(f)
          /\ MultiFile => bytes_to_write \in 1..Room(f)
    BY <1>15 DEF SaveRest, Saving
  <2>2. Amount(f) >= 0
    BY <1>3, <2>1, TorrentAssumption DEF Amount, Lesser
  <2>3. disk' \in [Names -> Seq(Byte)]
    BY <1>5, <2>1, <2>2
  <2> QED BY <1>15, <2>3 DEF SaveRest
<1> QED BY <1>6, <1>7, <1>8, <1>9, <1>10, <1>11, <1>12, <1>13, <1>14, <1>15
        DEF ClientNext, MessageLoop, SavePiece, Stop

(***************************************************************************)
(* Every variable keeps its type, and every append takes bytes that        *)
(* piece_buf has, in every environment.                                    *)
(***************************************************************************)
THEOREM TypeCorrect == Spec => []TypeInv
<1>1. Init => TypeInv
  BY TypeInit
<1>2. TypeInv /\ [Next]_vars => TypeInv'
  <2> SUFFICES ASSUME TypeInv, [Next]_vars PROVE TypeInv'
    OBVIOUS
  <2>1. CASE ClientNext
    BY <2>1, TypeLink, TypeLocals DEF TypeInv, TypeOK, Locals, Byte
  <2>2. CASE PeerNext /\ UNCHANGED clientVars
    BY <2>2, TypePeer
  <2>3. CASE UNCHANGED vars
    BY <2>3 DEF TypeInv, TypeOK, SaveFits, vars, wireVars, linkVars,
       clientVars, saveVars
  <2> QED BY <2>1, <2>2, <2>3 DEF Next
<1> QED BY <1>1, <1>2, PTL DEF Spec

(* The types as the runs state them. *)
THEOREM TypesHold == Spec => []TypeOK
BY TypeCorrect, PTL DEF TypeInv

-----------------------------------------------------------------------------
(* What reaches a file was verified. *)

(* Every byte save_piece has still to write was verified. *)
BufferVerified ==
  pc = "save" =>
    \A k \in index..(index + bytes_to_write - 1) : piece_buf[k] # Garbage

VerifiedInv == OnlyVerified /\ BufferVerified

(* An append that stays inside what is left of the piece. *)
LEMMA AppendVerified ==
  ASSUME TypeInv, VerifiedInv, NEW f \in Files, NEW n \in Nat, pc = "save",
         n <= bytes_to_write, AppendTo(f, n)
  PROVE  OnlyVerified'
<1> DEFINE chunk == BufBytes(piece_buf, index, n)
           old == disk[FileName[f]]
<1>1. FileName[f] \in Names /\ disk \in [Names -> Seq(Byte)]
  BY BoundsType DEF TypeInv, TypeOK, Byte
<1>2. index \in Nat /\ bytes_to_write \in Nat
  BY DEF TypeInv, TypeOK
<1>3. chunk \in Seq(Byte) /\ old \in Seq(Byte)
  <2>1. index + n <= PieceLength
    BY <1>2, BoundsType DEF TypeInv, SaveFits
  <2> QED BY <1>1, <1>2, <2>1, BoundsType DEF BufBytes, TypeInv, TypeOK, Byte
<1>4. /\ Len(chunk) = n
      /\ \A k \in 1..n : chunk[k] # Garbage
  <2>1. \A k \in 1..n : index + k - 1 \in index..(index + bytes_to_write - 1)
    BY <1>2
  <2>2. DOMAIN chunk = 1..n /\ \A k \in 1..n : chunk[k] = piece_buf[index + k - 1]
    BY DEF BufBytes
  <2>3. DOMAIN chunk = 1..Len(chunk) /\ Len(chunk) \in Nat
    BY <1>3
  <2> HIDE DEF chunk
  <2>4. Len(chunk) = n
    BY ONLY <2>2, <2>3, n \in Nat
  <2>5. \A k \in index..(index + bytes_to_write - 1) : piece_buf[k] # Garbage
    BY DEF VerifiedInv, BufferVerified
  <2> QED BY <2>1, <2>2, <2>4, <2>5
<1>5. \A k \in DOMAIN old : old[k] # Garbage
  BY <1>1 DEF VerifiedInv, OnlyVerified
<1> HIDE DEF chunk
<1>6. \A k \in DOMAIN (old \o chunk) : (old \o chunk)[k] # Garbage
  <2> HIDE DEF old
  <2> QED BY <1>3, <1>4, <1>5
<1>7. disk' = [disk EXCEPT ![FileName[f]] = old \o chunk]
  BY DEF AppendTo, chunk
<1> HIDE DEF old
<1>8. SUFFICES ASSUME NEW name \in Names, NEW k \in DOMAIN disk'[name]
               PROVE  disk'[name][k] # Garbage
  BY DEF OnlyVerified
<1>9. CASE name = FileName[f]
  BY <1>1, <1>6, <1>7, <1>9
<1>10. CASE name # FileName[f]
  <2>1. disk'[name] = disk[name]
    BY <1>1, <1>7, <1>10
  <2> QED BY <2>1 DEF VerifiedInv, OnlyVerified
<1> QED BY <1>9, <1>10

LEMMA FwriteVerified ==
  ASSUME TypeInv, VerifiedInv, NEW f \in Files, pc = "save",
         Amount(f) \in Nat, Fwrite(f)
  PROVE  OnlyVerified'
<1>1. Amount(f) <= bytes_to_write
  BY BoundsType DEF Amount, Room, Lesser, TypeInv, TypeOK
<1>2. CASE AppendTo(f, Amount(f))
  BY <1>1, <1>2, AppendVerified
<1>3. CASE \E n \in 0..(Amount(f) - 1) : AppendTo(f, n)
  <2>1. PICK n \in 0..(Amount(f) - 1) : AppendTo(f, n)
    BY <1>3
  <2>2. n \in Nat /\ n <= bytes_to_write
    BY <1>1, <2>1 DEF TypeInv, TypeOK
  <2> QED BY <2>1, <2>2, AppendVerified
<1> QED BY <1>2, <1>3 DEF Fwrite

(***************************************************************************)
(* Only bytes of a piece whose SHA1 is right are ever written to a file,   *)
(* in every environment: with two threads of requests filling piece_buf,   *)
(* with appends cut short and with the program killed in any of them.      *)
(***************************************************************************)
THEOREM OnlyVerifiedIsWritten == Spec => []OnlyVerified
<1>1. Init => VerifiedInv
  BY DEF Init, ClientInit, VerifiedInv, OnlyVerified, BufferVerified
<1>2. TypeInv /\ VerifiedInv /\ [Next]_vars => VerifiedInv'
  <2> SUFFICES ASSUME TypeInv, VerifiedInv, [Next]_vars PROVE VerifiedInv'
    OBVIOUS
  <2>1. /\ index \in Nat /\ bytes_to_write \in Nat
        /\ \A f \in Files : Room(f) \in Int
    BY BoundsType DEF Room, TypeInv, TypeOK
  <2>2. CASE ReceivePiece
    <3> DEFINE m == Head(toClient)
               off == m.begin + m.length
    <3>1. UNCHANGED disk
      BY <2>2 DEF ReceivePiece
    <3>2. ASSUME pc' = "save" PROVE BufferVerified'
      <4>1. /\ CheckSha1Piece(Filled(m), m.index, off)
            /\ piece_buf' = Filled(m) /\ index' = 0 /\ bytes_to_write' = off
        BY <2>2, <3>2 DEF ReceivePiece
      <4>2. m \in Pieces /\ ValidRequest(m)
        BY <2>2, MessageTypes DEF ReceivePiece, Receives, TypeInv, TypeOK
      <4>3. m.index * PieceLength \in Nat /\ off \in Nat
        BY <4>2, BlockFits DEF Pieces
      <4> HIDE DEF m, off
      <4>4. \A k \in 0..(off - 1) : piece_buf'[k] = m.index * PieceLength + k
        BY <4>1 DEF CheckSha1Piece
      <4> DEFINE at == m.index * PieceLength
      <4>5. at \in Nat
        BY <4>3
      <4> HIDE DEF at
      <4>6. \A k \in 0..(off - 1) : at + k # Garbage
        BY <4>5 DEF Garbage
      <4> QED BY <4>1, <4>3, <4>4, <4>6 DEF BufferVerified, at
    <3> QED BY <3>1, <3>2 DEF VerifiedInv, OnlyVerified, BufferVerified
  <2>3. CASE SaveFill
    <3>1. PICK f \in Files :
            /\ pc = "save" /\ Room(f) > 0 /\ bytes_to_write > Room(f)
            /\ Fwrite(f)
            /\ index' = index + Room(f)
            /\ bytes_to_write' = LeftAfter(f)
      BY <2>3 DEF SaveFill, Saving
    <3>2. Amount(f) \in Nat
      BY <2>1, <3>1 DEF Amount, Lesser
    <3>3. OnlyVerified'
      BY <3>1, <3>2, FwriteVerified
    <3>4. UNCHANGED piece_buf
      BY <2>3 DEF SaveFill
    <3>5. \A k \in index'..(index' + bytes_to_write' - 1) :
            k \in index..(index + bytes_to_write - 1)
      BY <2>1, <3>1 DEF LeftAfter
    <3> QED BY <3>1, <3>3, <3>4, <3>5 DEF VerifiedInv, BufferVerified
  <2>4. CASE SaveRest
    <3>1. PICK f \in Files :
            /\ pc = "save" /\ Fwrite(f)
            /\ MultiFile => bytes_to_write \in 1..Room(f)
      BY <2>4 DEF SaveRest, Saving
    <3>2. Amount(f) \in Nat
      BY <2>1, <3>1, TorrentAssumption DEF Amount, Lesser
    <3>3. OnlyVerified'
      BY <3>1, <3>2, FwriteVerified
    <3> QED BY <2>4, <3>3 DEF SaveRest, VerifiedInv, BufferVerified
  <2>5. CASE Killed
    <3>1. pc' # "save"
      BY <2>5 DEF Killed
    <3>2. CASE UNCHANGED disk
      BY <2>5, <3>1, <3>2 DEF VerifiedInv, OnlyVerified, BufferVerified
    <3>3. CASE pc = "save" /\ disk' # disk
      <4>1. PICK f \in Files : \E n \in 1..Amount(f) : AppendTo(f, n)
        BY <2>5, <3>3 DEF Killed
      <4>2. PICK n \in 1..Amount(f) : AppendTo(f, n)
        BY <4>1
      <4>3. Amount(f) \in Int /\ Amount(f) <= bytes_to_write
        BY <2>1 DEF Amount, Lesser
      <4>4. n \in Nat /\ n <= bytes_to_write
        BY <2>1, <4>2, <4>3
      <4> QED BY <3>1, <3>3, <4>2, <4>4, AppendVerified
              DEF VerifiedInv, BufferVerified
    <3> QED BY <2>5, <3>2, <3>3 DEF Killed
  <2>6. CASE UNCHANGED <<disk, piece_buf, index, bytes_to_write>>
             /\ (pc' = "save" => pc = "save")
    BY <2>6 DEF VerifiedInv, OnlyVerified, BufferVerified
  <2>7. CASE pc' # "save" /\ UNCHANGED disk
    BY <2>7 DEF VerifiedInv, OnlyVerified, BufferVerified
  <2> QED BY <2>2, <2>3, <2>4, <2>5, <2>6, <2>7
      DEF Next, ClientNext, StartUp, MessageLoop, SavePiece, Stop,
          ParseTorrent, Connect, ConnectFails, HandshakeOk, GiveUp,
          SocketError, ReceiveIgnored, DrainMessage, ReceiveUnchoke,
          ReceiveBitfield, Reply, SaveSkip, SaveEnds, Restart,
          vars, clientVars, saveVars
<1>3. Spec => []TypeInv
  BY TypeCorrect
<1> QED BY <1>1, <1>2, <1>3, PTL DEF Spec, VerifiedInv

-----------------------------------------------------------------------------
(* The files hold a prefix of the torrent.                                 *)

(* What a file holds of the first n bytes, and how much that is. *)
LEMMA HeldFacts ==
  ASSUME NEW f \in Files, NEW n \in Nat
  PROVE  /\ Held(f, n) \in Nat /\ Held(f, n) <= FileLen(f)
         /\ n <= Bounds[f] => Held(f, n) = 0
         /\ n >= Bounds[f + 1] => Held(f, n) = FileLen(f)
         /\ n >= Bounds[f] /\ n <= Bounds[f + 1] => Held(f, n) = n - Bounds[f]
BY BoundsType DEF Held, Lesser, FileLen

LEMMA FileHolds ==
  ASSUME NEW n \in Nat, DiskHolds(n), NEW f \in Files
  PROVE  /\ disk[FileName[f]] \in Seq(Int)
         /\ Len(disk[FileName[f]]) = Held(f, n)
         /\ \A k \in 1..Held(f, n) : disk[FileName[f]][k] = Bounds[f] + k - 1
<1> DEFINE c == disk[FileName[f]]
           h == Held(f, n)
<1>1. h \in Nat /\ Bounds[f] \in Nat
  BY HeldFacts, BoundsType
<1>2. c = [k \in 1..h |-> Bounds[f] + k - 1]
  BY DEF DiskHolds
<1> HIDE DEF c, h
<1>3. c \in Seq(Int) /\ DOMAIN c = 1..h
  BY <1>1, <1>2
<1>4. Len(c) = h
  BY <1>1, <1>3
<1> QED BY <1>1, <1>2, <1>3, <1>4 DEF c, h

(* The sizes of the files add up to the prefix they hold. *)
LEMMA SizeOfPrefix ==
  ASSUME NEW n \in 0..FileLength, DiskHolds(n)
  PROVE  TotalSize(disk) = n
<1> DEFINE g == [f \in 0..NumFiles |-> Lesser(n, Bounds[f + 1])]
<1>1. n \in Nat /\ FileLength \in Nat /\ NumFiles \in Nat
  BY BoundsType
<1>2. g \in [0..NumFiles -> Nat]
  BY <1>1, TorrentAssumption DEF Lesser
<1>3. g[0] = 0
  BY <1>1, TorrentAssumption DEF Lesser
<1>4. ASSUME NEW f \in 1..NumFiles
      PROVE  g[f] = g[f - 1] + Len(disk[FileName[f]])
  <2>1. f \in Files /\ f \in 0..NumFiles /\ f - 1 \in 0..NumFiles
    BY <1>1 DEF Files
  <2>2. Len(disk[FileName[f]]) = Held(f, n)
    BY <1>1, <2>1, FileHolds
  <2>3. g[f] = Lesser(n, Bounds[f + 1]) /\ g[f - 1] = Lesser(n, Bounds[f])
    BY <1>1, <2>1
  <2> HIDE DEF g
  <2> QED BY <1>1, <2>1, <2>2, <2>3, BoundsType DEF Held, Lesser, FileLen
<1>5. g[NumFiles] = n
  BY <1>1 DEF Lesser, FileLength
<1> HIDE DEF g
<1>6. RunningSum(g, disk, NumFiles)
  BY <1>2, <1>3, <1>4 DEF RunningSum
<1> QED BY <1>5, <1>6, TotalSizeIsSum

(* check_next_piece finds the first piece that is not on disk. *)
LEMMA SettledIsNext ==
  ASSUME NEW p \in (-1)..(NumPieces - 1), Settled(p)
  PROVE  CheckNextPiece(disk) = p
<1>1. CASE p = -1
  <2>1. DiskHolds(FileLength) /\ FileLength \in 0..FileLength
    BY <1>1, BoundsType DEF Settled
  <2>2. TotalSize(disk) = FileLength
    BY <2>1, SizeOfPrefix
  <2> QED BY <1>1, <2>2 DEF CheckNextPiece
<1>2. CASE p # -1
  <2>1. p \in 0..(NumPieces - 1) /\ DiskHolds(p * PieceLength)
    BY <1>2 DEF Settled
  <2>2. p * PieceLength \in Nat /\ p * PieceLength < FileLength
    BY <2>1, PieceInTorrent
  <2>3. TotalSize(disk) = p * PieceLength
    BY <2>1, <2>2, SizeOfPrefix, BoundsType
  <2>4. (p * PieceLength) \div PieceLength = p
    BY <2>1, DivOfMultiple
  <2> QED BY <2>2, <2>3, <2>4, BoundsType DEF CheckNextPiece
<1> QED BY <1>1, <1>2

(* The first piece is to ask for when nothing is on disk. *)
LEMMA NothingSettled == DiskHolds(0) => Settled(0)
<1>1. 0 \in 0..(NumPieces - 1) /\ 0 * PieceLength = 0
  BY BoundsType DEF NumPieces
<1> QED BY <1>1 DEF Settled

(* A step brings a piece more to disk, and the next one is to ask for. *)
LEMMA NextSettled ==
  ASSUME NEW p \in 0..(NumPieces - 1),
         DiskHolds(p * PieceLength + PieceSize(p))'
  PROVE  \E q \in (-1)..(NumPieces - 1) : Settled(q)'
<1> DEFINE at == p * PieceLength
           next == (p + 1) * PieceLength
<1>1. NumPieces \in Nat /\ PieceLength \in Nat \ {0} /\ FileLength \in Nat
  BY BoundsType DEF NumPieces
<1>2. CASE p * PieceLength + PieceSize(p) = FileLength
  <2>1. DiskHolds(FileLength)'
    BY <1>2 DEF DiskHolds
  <2>2. Settled(-1)'
    BY <2>1 DEF Settled
  <2> QED BY <1>1, <2>2
<1>3. CASE p * PieceLength + PieceSize(p) # FileLength
  <2>1. at + PieceSize(p) = next /\ next < FileLength
    BY <1>1, <1>3, PieceInTorrent
  <2>2. p + 1 \in 0..(NumPieces - 1) /\ p + 1 # -1
    BY <1>1, <2>1 DEF NumPieces
  <2>3. DiskHolds((p + 1) * PieceLength)'
    BY <2>1 DEF DiskHolds
  <2>4. Settled(p + 1)'
    BY <2>2, <2>3 DEF Settled
  <2> QED BY <1>1, <2>2, <2>4
<1> QED BY <1>2, <1>3

(* Positions that follow each other, laid end to end. *)
LEMMA Consecutive ==
  ASSUME NEW a \in Nat, NEW l \in Nat, NEW c \in Nat
  PROVE  [k \in 1..l |-> a + k - 1] \o [k \in 1..c |-> a + l + k - 1]
           = [k \in 1..(l + c) |-> a + k - 1]
<1> DEFINE x == [k \in 1..l |-> a + k - 1]
           y == [k \in 1..c |-> a + l + k - 1]
           z == [k \in 1..(l + c) |-> a + k - 1]
<1>1. x \in Seq(Int) /\ DOMAIN x = 1..l
  OBVIOUS
<1>2. y \in Seq(Int) /\ DOMAIN y = 1..c
  OBVIOUS
<1>3. z \in Seq(Int) /\ DOMAIN z = 1..(l + c)
  OBVIOUS
<1>4. \A k \in 1..l : x[k] = z[k]
  OBVIOUS
<1>5. \A k \in 1..c : y[k] = z[l + k]
  OBVIOUS
<1> HIDE DEF x, y, z
<1>6. Len(x) = l /\ Len(y) = c /\ Len(z) = l + c
  BY <1>1, <1>2, <1>3
<1>7. /\ x \o y \in Seq(Int) /\ Len(x \o y) = l + c
      /\ \A k \in 1..(l + c) : (x \o y)[k] = IF k <= l THEN x[k] ELSE y[k - l]
  BY <1>1, <1>2, <1>6, ConcatProperties
<1>8. ASSUME NEW k \in 1..(l + c) PROVE (x \o y)[k] = z[k]
  <2>1. CASE k <= l
    BY <1>4, <1>7, <2>1
  <2>2. CASE k > l
    <3>1. k - l \in 1..c /\ l + (k - l) = k
      BY <2>2
    <3>2. (x \o y)[k] = y[k - l]
      BY <1>7, <2>2
    <3>3. y[k - l] = z[l + (k - l)]
      BY <1>5, <3>1
    <3>4. z[l + (k - l)] = z[k]
      BY <3>1
    <3> QED BY <3>2, <3>3, <3>4
  <2>3. k <= l \/ k > l
    OBVIOUS
  <2> QED BY ONLY <2>1, <2>2, <2>3
<1>9. x \o y = z
  BY <1>3, <1>6, <1>7, <1>8, SeqEqual
<1> QED BY <1>9 DEF x, y, z

(* An append of the next c bytes of the torrent to the file they belong to *)
(* makes a longer prefix of a prefix.                                      *)
LEMMA AppendExtends ==
  ASSUME Orderly, NEW n \in Nat, DiskHolds(n), NEW f \in Files, NEW c \in Nat,
         disk \in [Names -> Seq(Byte)],
         Bounds[f] <= n, n + c <= Bounds[f + 1], index \in Nat,
         \A k \in 0..(c - 1) : piece_buf[index + k] = n + k,
         AppendTo(f, c)
  PROVE  DiskHolds(n + c)'
<1> DEFINE chunk == BufBytes(piece_buf, index, c)
           old == disk[FileName[f]]
<1>1. /\ Bounds[f] \in Nat /\ Bounds[f + 1] \in Nat /\ FileName[f] \in Names
      /\ n - Bounds[f] \in Nat /\ n <= Bounds[f + 1]
      /\ n + c \in Nat /\ Bounds[f] <= n + c
  BY BoundsType
<1>2. chunk = [k \in 1..c |-> n + k - 1]
  <2>1. ASSUME NEW k \in 1..c PROVE piece_buf[index + k - 1] = n + k - 1
    <3>1. k - 1 \in 0..(c - 1) /\ index + (k - 1) = index + k - 1
      OBVIOUS
    <3>2. piece_buf[index + (k - 1)] = n + (k - 1)
      BY <3>1
    <3> QED BY <3>1, <3>2
  <2> QED BY <2>1 DEF BufBytes
<1>3. old = [k \in 1..(n - Bounds[f]) |-> Bounds[f] + k - 1]
  <2>1. Held(f, n) = n - Bounds[f]
    BY <1>1, HeldFacts
  <2> QED BY <2>1 DEF DiskHolds
<1>4. disk' = [disk EXCEPT ![FileName[f]] = old \o chunk]
  BY DEF AppendTo
<1> HIDE DEF chunk, old
<1>5. old \o chunk = [k \in 1..(n + c - Bounds[f]) |-> Bounds[f] + k - 1]
  <2> DEFINE a == Bounds[f]
             l == n - Bounds[f]
  <2>1. a \in Nat /\ l \in Nat /\ a + l = n /\ l + c = n + c - Bounds[f]
    BY <1>1
  <2>2. old = [k \in 1..l |-> a + k - 1]
    BY <1>3
  <2>3. chunk = [k \in 1..c |-> a + l + k - 1]
    BY <1>2, <2>1
  <2>4. old \o chunk = [k \in 1..(l + c) |-> a + k - 1]
    <3> HIDE DEF a, l
    <3> QED BY ONLY <2>1, <2>2, <2>3, Consecutive, c \in Nat
  <2> QED BY <2>1, <2>4
<1>6. ASSUME NEW g \in Files
      PROVE  disk'[FileName[g]] = [k \in 1..Held(g, n + c) |-> Bounds[g] + k - 1]
  <2>1. CASE g = f
    <3>1. Held(f, n + c) = n + c - Bounds[f]
      BY ONLY <1>1, HeldFacts, f \in Files, n + c <= Bounds[f + 1]
    <3> QED BY <1>1, <1>4, <1>5, <2>1, <3>1
  <2>2. CASE g # f
    <3>1. FileName[g] # FileName[f] /\ FileName[g] \in Names
      BY <2>2, BoundsType DEF Orderly
    <3>2. disk'[FileName[g]] = disk[FileName[g]]
      BY <1>1, <1>4, <3>1
    <3>3. Held(g, n + c) = Held(g, n)
      <4>1. CASE g < f
        <5>1. Bounds[g + 1] <= Bounds[f]
          BY <4>1, TorrentAssumption DEF Files
        <5>2. n >= Bounds[g + 1] /\ n + c >= Bounds[g + 1]
          BY <1>1, <5>1, BoundsType
        <5> QED BY ONLY <1>1, <5>2, HeldFacts, g \in Files, n \in Nat
      <4>2. CASE g > f
        <5>1. Bounds[f + 1] <= Bounds[g]
          BY <4>2, TorrentAssumption DEF Files
        <5>2. n <= Bounds[g] /\ n + c <= Bounds[g]
          BY <1>1, <5>1, BoundsType
        <5> QED BY ONLY <1>1, <5>2, HeldFacts, g \in Files, n \in Nat
      <4> QED BY <2>2, <4>1, <4>2 DEF Files
    <3> QED BY <3>2, <3>3 DEF DiskHolds
  <2> QED BY <2>1, <2>2
<1> QED BY <1>6 DEF DiskHolds

-----------------------------------------------------------------------------
(* The queues, and the messages that drive the download. *)

LEMMA TailOfQueue ==
  ASSUME NEW S, NEW q \in Seq(S), q # <<>>
  PROVE  /\ AtMostOne(q) => AtMostOne(Tail(q))
         /\ None(q) => None(Tail(q))
         /\ AtMostOne(q) /\ Head(q).type \in Drives => None(Tail(q))
         /\ None(q) => Head(q).type \notin Drives
         /\ \A p : Concerns(q, p) => Concerns(Tail(q), p)
<1>1. /\ Len(q) \in Nat /\ Len(q) > 0 /\ DOMAIN q = 1..Len(q)
      /\ DOMAIN Tail(q) = 1..(Len(q) - 1)
      /\ \A k \in 1..(Len(q) - 1) : Tail(q)[k] = q[k + 1]
      /\ Head(q) = q[1]
  OBVIOUS
<1>2. \A k \in Driving(Tail(q)) : k \in Nat \ {0} /\ k + 1 \in Driving(q)
  BY <1>1 DEF Driving
<1>3. Head(q).type \in Drives => 1 \in Driving(q)
  BY <1>1 DEF Driving
<1>4. AtMostOne(q) => AtMostOne(Tail(q))
  <2> SUFFICES ASSUME AtMostOne(q), NEW j \in Driving(Tail(q)),
                      NEW k \in Driving(Tail(q))
               PROVE  j = k
    BY DEF AtMostOne
  <2>1. j + 1 = k + 1 /\ j \in Nat /\ k \in Nat
    BY <1>2 DEF AtMostOne
  <2> QED BY <2>1
<1>5. AtMostOne(q) /\ Head(q).type \in Drives => None(Tail(q))
  <2> SUFFICES ASSUME AtMostOne(q), 1 \in Driving(q), NEW k \in Driving(Tail(q))
               PROVE  FALSE
    BY <1>3 DEF None
  <2>1. k + 1 = 1 /\ k \in Nat \ {0}
    BY <1>2 DEF AtMostOne
  <2> QED BY <2>1
<1>6. \A p : Concerns(q, p) => Concerns(Tail(q), p)
  BY <1>1 DEF Concerns
<1> QED BY <1>2, <1>3, <1>4, <1>5, <1>6 DEF None

LEMMA EndOfQueue ==
  ASSUME NEW S, NEW q \in Seq(S), NEW m \in S
  PROVE  /\ None(q) => AtMostOne(q \o <<m>>)
         /\ m.type \notin Drives /\ AtMostOne(q) => AtMostOne(q \o <<m>>)
         /\ m.type \notin Drives /\ None(q) => None(q \o <<m>>)
<1> DEFINE r == q \o <<m>>
<1>1. /\ Len(q) \in Nat /\ DOMAIN q = 1..Len(q)
      /\ DOMAIN r = 1..(Len(q) + 1)
      /\ \A k \in 1..Len(q) : r[k] = q[k]
      /\ r[Len(q) + 1] = m
  OBVIOUS
<1> HIDE DEF r
<1>2. \A k \in Driving(r) :
        k \in Driving(q) \/ (k = Len(q) + 1 /\ m.type \in Drives)
  BY <1>1 DEF Driving
<1> QED BY <1>2 DEF r, None, AtMostOne

LEMMA EndConcerns ==
  ASSUME NEW S, NEW q \in Seq(S), NEW m \in S, NEW p, Concerns(q, p),
         m.type \in {"request", "piece"} => m.index = p
  PROVE  Concerns(q \o <<m>>, p)
<1> DEFINE r == q \o <<m>>
<1>1. /\ Len(q) \in Nat /\ DOMAIN q = 1..Len(q)
      /\ DOMAIN r = 1..(Len(q) + 1)
      /\ \A k \in 1..Len(q) : r[k] = q[k]
      /\ r[Len(q) + 1] = m
  OBVIOUS
<1> HIDE DEF r
<1> QED BY <1>1 DEF r, Concerns

-----------------------------------------------------------------------------
(* One thread of requests. *)

LEMMA PairOfMsgs ==
  ASSUME NEW S, NEW a \in S, NEW b \in S
  PROVE  <<a, b>> = <<a>> \o <<b>>
<1> DEFINE x == <<a>>
           y == <<b>>
           z == <<a, b>>
<1>1. /\ x \in Seq(S) /\ y \in Seq(S) /\ z \in Seq(S)
      /\ Len(x) = 1 /\ Len(y) = 1 /\ Len(z) = 2
      /\ x[1] = a /\ y[1] = b /\ z[1] = a /\ z[2] = b
  OBVIOUS
<1> HIDE DEF x, y, z
<1>2. /\ x \o y \in Seq(S) /\ Len(x \o y) = 1 + 1
      /\ \A k \in 1..(1 + 1) : (x \o y)[k] = IF k <= 1 THEN x[k] ELSE y[k - 1]
  BY <1>1, ConcatProperties
<1>3. z = x \o y
  BY <1>1, <1>2, SeqEqual
<1> QED BY <1>3 DEF x, y, z

LEMMA ThreadPeer ==
  ASSUME Orderly, TypeInv, ThreadInv, PeerNext, UNCHANGED clientVars
  PROVE  ThreadInv'
<1>1. toPeer \in Seq(ToPeerMsgs) /\ toClient \in Seq(ToClientMsgs)
  BY DEF TypeInv, TypeOK
<1>2. /\ open /\ UNCHANGED pc
      /\ pc \notin {"parse", "connect", "exit"}
  BY DEF ThreadInv, PeerNext, PeerHandshake, PeerInterested, PeerUnchoke,
     PeerChoke, PeerServe, PeerCorrupt, Serves, PeerRefuse, PeerChat, PeerClose,
     PeerReads, clientVars
<1>3. ASSUME NEW m \in ToClientMsgs, m.type \notin Drives, toClient' = toClient \o <<m>>
      PROVE  /\ AtMostOne(toClient') /\ (None(toClient) => None(toClient'))
  BY <1>1, <1>3, EndOfQueue DEF ThreadInv
<1>4. ASSUME toPeer # <<>>, toPeer' = Tail(toPeer)
      PROVE  AtMostOne(toPeer') /\ (None(toPeer) => None(toPeer'))
  BY <1>1, <1>4, TailOfQueue DEF ThreadInv
<1> USE <1>2 DEF ThreadInv
<1>5. CASE PeerHandshake
  <2> DEFINE q == toClient \o <<Handshake>>
  <2>1. toClient' = q \o <<Bitfield>>
    <3>1. toClient' = toClient \o <<Handshake, Bitfield>>
      BY <1>5 DEF PeerHandshake, PeerSends
    <3>2. <<Handshake>> \in Seq(ToClientMsgs) /\ <<Bitfield>> \in Seq(ToClientMsgs)
      BY MessageTypes
    <3>3. toClient' = toClient \o (<<Handshake>> \o <<Bitfield>>)
      BY <3>1, PairOfMsgs, MessageTypes
    <3> QED BY <1>1, <3>2, <3>3, ConcatAssociative
  <2>2. /\ Handshake \in ToClientMsgs /\ Bitfield \in ToClientMsgs
        /\ Handshake.type \notin Drives /\ Bitfield.type \notin Drives
    BY MessageTypes DEF Handshake, Bitfield, Drives
  <2>3. q \in Seq(ToClientMsgs)
    BY <1>1, <2>2
  <2>4. AtMostOne(q) /\ (None(toClient) => None(q))
    BY <1>1, <2>2, EndOfQueue
  <2> HIDE DEF q
  <2>5. AtMostOne(toClient') /\ (None(toClient) => None(toClient'))
    BY <2>1, <2>2, <2>3, <2>4, EndOfQueue
  <2>6. AtMostOne(toPeer') /\ (None(toPeer) => None(toPeer'))
    BY <1>4, <1>5 DEF PeerHandshake, PeerReads
  <2> QED BY <1>5, <2>5, <2>6 DEF PeerHandshake
<1>6. CASE PeerInterested \/ PeerRefuse
  <2>1. /\ toPeer # <<>> /\ toPeer' = Tail(toPeer)
        /\ UNCHANGED <<toClient, open, choking>>
    BY <1>6 DEF PeerInterested, PeerRefuse, PeerReads
  <2>2. AtMostOne(toPeer') /\ (None(toPeer) => None(toPeer'))
    BY <1>4, <2>1
  <2> QED BY <2>1, <2>2
<1>7. CASE PeerUnchoke
  <2>1. None(toPeer) /\ None(toClient) /\ toClient' = toClient \o <<Unchoke>>
    BY <1>7 DEF PeerUnchoke, PeerSends
  <2>2. AtMostOne(toClient')
    BY <1>1, <2>1, MessageTypes, EndOfQueue
  <2> QED BY <1>7, <2>1, <2>2 DEF PeerUnchoke
<1>8. CASE PeerServe \/ PeerCorrupt
  <2>1. PICK good \in BOOLEAN : Serves(good)
    BY <1>8 DEF PeerServe, PeerCorrupt
  <2> DEFINE m == Head(toPeer)
             r == Piece(m.index, m.begin, m.length, good)
  <2>2. /\ toPeer # <<>> /\ m.type = "request" /\ toPeer' = Tail(toPeer)
        /\ ~choking /\ ValidRequest(m) /\ toClient' = toClient \o <<r>>
        /\ UNCHANGED <<open, choking>>
    BY <2>1 DEF Serves, PeerReads, PeerSends, CanServe
  <2>3. None(toPeer') /\ ~None(toPeer)
    BY <1>1, <2>2, TailOfQueue DEF Drives
  <2>4. m \in Requests
    BY <1>1, <2>2, MessageTypes
  <2>5. r \in ToClientMsgs
    BY <2>2, <2>4 DEF Requests, Pieces, Piece, ValidRequest, ToClientMsgs
  <2> HIDE DEF r
  <2>6. AtMostOne(toClient')
    BY <1>1, <2>2, <2>3, <2>5, EndOfQueue
  <2> QED BY <2>2, <2>3, <2>6 DEF None, AtMostOne
<1>9. CASE PeerChoke
  BY <1>9 DEF PeerChoke, Disturb, Orderly
<1>10. CASE PeerChat
  <2>1. PICK m \in {KeepAlive, Have} : toClient' = toClient \o <<m>>
    BY <1>10 DEF PeerChat, PeerSends
  <2>2. m \in ToClientMsgs /\ m.type \notin Drives
    BY MessageTypes DEF KeepAlive, Have, Drives
  <2> QED BY <1>3, <1>10, <2>1, <2>2 DEF PeerChat
<1>11. CASE PeerClose
  <2>1. None(toPeer') /\ AtMostOne(toPeer')
    BY <1>11 DEF PeerClose, None, AtMostOne, Driving
  <2> QED BY <1>11, <2>1 DEF PeerClose
<1> QED BY <1>5, <1>6, <1>7, <1>8, <1>9, <1>10, <1>11 DEF PeerNext

LEMMA ThreadClient ==
  ASSUME TypeInv, ThreadInv, ClientNext
  PROVE  ThreadInv'
<1>1. toPeer \in Seq(ToPeerMsgs) /\ toClient \in Seq(ToClientMsgs) /\ pc \in PCs
  BY DEF TypeInv, TypeOK
<1>2. None(<<>>) /\ AtMostOne(<<>>)
  BY DEF None, AtMostOne, Driving
<1>3. ASSUME NEW m \in ToPeerMsgs, Write(<<m>>), None(toPeer)
      PROVE  /\ AtMostOne(toPeer')
             /\ m.type \notin Drives => None(toPeer')
  <2>1. None(toPeer) => AtMostOne(toPeer)
    BY DEF None, AtMostOne
  <2> QED BY <1>1, <1>3, <2>1, EndOfQueue DEF Write
<1>4. ASSUME NEW m \in ToPeerMsgs, Write(<<m>>), m.type \notin Drives
      PROVE  /\ AtMostOne(toPeer')
             /\ None(toPeer) => None(toPeer')
  BY <1>1, <1>4, EndOfQueue DEF Write, ThreadInv
<1>5. ASSUME toClient # <<>>, ReadMsg
      PROVE  /\ AtMostOne(toClient')
             /\ None(toClient) => None(toClient')
             /\ Head(toClient).type \in Drives =>
                  None(toClient') /\ ~None(toClient)
  BY <1>1, <1>5, TailOfQueue DEF ReadMsg, ThreadInv
<1>6. SizeToReceive \in Int /\ offset \in Int /\ requested_piece' \in Int
  <2>1. requested_piece' \in Int
    BY TypeLocals DEF Locals
  <2> QED BY <2>1, BoundsType DEF SizeToReceive, Lesser, TypeInv, TypeOK
<1> USE DEF ThreadInv
<1>7. CASE ParseTorrent \/ ConnectFails \/ Restart
  BY <1>7 DEF ParseTorrent, ConnectFails, Restart, linkVars
<1>8. CASE Connect
  <2>1. toPeer' = <<Handshake>> /\ None(<<Handshake>>) /\ AtMostOne(<<Handshake>>)
    BY <1>8 DEF Connect, OpenLink, None, AtMostOne, Driving, Handshake, Drives
  <2> QED BY <1>2, <1>8, <2>1 DEF Connect, OpenLink
<1>9. CASE GiveUp \/ SocketError \/ Killed
  BY <1>2, <1>9 DEF GiveUp, SocketError, Killed, CloseLink
<1>10. CASE HandshakeOk
  BY <1>5, <1>10 DEF HandshakeOk
<1>11. CASE ReceiveIgnored \/ DrainMessage
  BY <1>5, <1>11 DEF ReceiveIgnored, DrainMessage, Receives, clientVars
<1>12. CASE ReceiveUnchoke
  <2>1. /\ pc = "recv" /\ UNCHANGED <<pc, open, choking>>
        /\ toClient # <<>> /\ ReadMsg /\ Head(toClient).type \in Drives
        /\ Write(<<Request(requested_piece, 0, SizeRecv)>>)
    BY <1>12 DEF ReceiveUnchoke, Receives, clientVars, Drives
  <2>2. Request(requested_piece, 0, SizeRecv) \in ToPeerMsgs
    BY MessageTypes, BoundsType DEF TypeInv, TypeOK
  <2>3. None(toClient') /\ ~None(toClient)
    BY <1>5, <2>1
  <2>4. AtMostOne(toPeer')
    BY <1>3, <2>1, <2>2, <2>3
  <2> QED BY <1>5, <2>1, <2>3, <2>4
<1>13. CASE ReceiveBitfield
  <2>1. /\ pc = "recv" /\ UNCHANGED <<pc, open, choking>>
        /\ toClient # <<>> /\ ReadMsg /\ Write(<<Interested>>)
    BY <1>13 DEF ReceiveBitfield, Receives, clientVars
  <2>2. Interested \in ToPeerMsgs /\ Interested.type \notin Drives
    BY MessageTypes DEF Interested, Drives
  <2> QED BY <1>4, <1>5, <2>1, <2>2
<1>14. CASE ReceivePiece
  <2>1. /\ pc' \in {"save", "reply"} /\ UNCHANGED <<toPeer, open, choking>>
        /\ toClient # <<>> /\ ReadMsg /\ Head(toClient).type \in Drives
    BY <1>14 DEF ReceivePiece, Receives, Drives
  <2>2. None(toClient') /\ ~None(toClient)
    BY <1>5, <2>1
  <2> QED BY <1>5, <2>1, <2>2
<1>15. CASE Reply
  <2>1. CASE requested_piece' >= 0
    <3>1. /\ pc = "reply" /\ pc' = "recv" /\ UNCHANGED <<toClient, open, choking>>
          /\ Write(<<Request(requested_piece', offset, SizeToReceive)>>)
      BY <1>15, <2>1 DEF Reply
    <3>2. Request(requested_piece', offset, SizeToReceive) \in ToPeerMsgs
      BY <1>6, MessageTypes
    <3>3. AtMostOne(toPeer')
      BY <1>3, <3>1, <3>2
    <3> QED BY <3>1, <3>3
  <2>2. CASE ~(requested_piece' >= 0)
    BY <1>2, <1>15, <2>2 DEF Reply, CloseLink
  <2> QED BY <2>1, <2>2
<1>16. CASE SavePiece
  BY <1>16 DEF SavePiece, SaveSkip, SaveFill, SaveRest, SaveEnds, Saving, linkVars
<1> QED BY <1>7, <1>8, <1>9, <1>10, <1>11, <1>12, <1>13, <1>14, <1>15, <1>16
        DEF ClientNext, StartUp, MessageLoop, Stop

-----------------------------------------------------------------------------
(* Whatever is under way concerns the piece to ask for. *)

LEMMA AskedPeer ==
  ASSUME TypeInv, AskedInv, PeerNext, UNCHANGED clientVars
  PROVE  AskedInv'
<1>1. toPeer \in Seq(ToPeerMsgs) /\ toClient \in Seq(ToClientMsgs)
  BY DEF TypeInv, TypeOK
<1>2. SUFFICES ASSUME Concerns(toPeer, requested_piece),
                      Concerns(toClient, requested_piece)
               PROVE  /\ Concerns(toPeer', requested_piece)
                      /\ Concerns(toClient', requested_piece)
  BY DEF AskedInv, clientVars
<1>3. Concerns(toPeer', requested_piece)
  <2>1. \/ toPeer # <<>> /\ toPeer' = Tail(toPeer)
        \/ toPeer' = <<>>
        \/ UNCHANGED toPeer
    BY DEF PeerNext, PeerHandshake, PeerInterested, PeerUnchoke, PeerChoke,
     PeerServe, PeerCorrupt, Serves, PeerRefuse, PeerChat, PeerClose, PeerReads
  <2>2. Concerns(<<>>, requested_piece)
    BY DEF Concerns
  <2>3. toPeer # <<>> => Concerns(Tail(toPeer), requested_piece)
    BY <1>1, <1>2, TailOfQueue
  <2> QED BY <1>2, <2>1, <2>2, <2>3
<1>4. ASSUME NEW m \in ToClientMsgs, m.type \notin {"request", "piece"}
      PROVE  Concerns(toClient \o <<m>>, requested_piece)
  BY <1>1, <1>2, <1>4, EndConcerns
<1>5. CASE PeerHandshake
  <2> DEFINE q == toClient \o <<Handshake>>
  <2>1. toClient' = q \o <<Bitfield>>
    <3>1. toClient' = toClient \o <<Handshake, Bitfield>>
      BY <1>5 DEF PeerHandshake, PeerSends
    <3>2. <<Handshake>> \in Seq(ToClientMsgs) /\ <<Bitfield>> \in Seq(ToClientMsgs)
      BY MessageTypes
    <3>3. toClient' = toClient \o (<<Handshake>> \o <<Bitfield>>)
      BY <3>1, PairOfMsgs, MessageTypes
    <3> QED BY <1>1, <3>2, <3>3, ConcatAssociative
  <2>2. /\ Handshake \in ToClientMsgs /\ Bitfield \in ToClientMsgs
        /\ Handshake.type \notin {"request", "piece"}
        /\ Bitfield.type \notin {"request", "piece"}
    BY MessageTypes DEF Handshake, Bitfield
  <2>3. q \in Seq(ToClientMsgs) /\ Concerns(q, requested_piece)
    BY <1>1, <1>4, <2>2
  <2> HIDE DEF q
  <2>4. Concerns(q \o <<Bitfield>>, requested_piece)
    BY <2>2, <2>3, EndConcerns
  <2> QED BY <1>3, <2>1, <2>4
<1>6. CASE PeerUnchoke \/ PeerChoke \/ PeerChat
  <2>1. PICK m \in {Unchoke, Choke, KeepAlive, Have} : toClient' = toClient \o <<m>>
    BY <1>6 DEF PeerUnchoke, PeerChoke, PeerChat, PeerSends
  <2>2. m \in ToClientMsgs /\ m.type \notin {"request", "piece"}
    BY MessageTypes DEF Unchoke, Choke, KeepAlive, Have
  <2> QED BY <1>3, <1>4, <2>1, <2>2
<1>7. CASE PeerServe \/ PeerCorrupt
  <2>1. PICK good \in BOOLEAN : Serves(good)
    BY <1>7 DEF PeerServe, PeerCorrupt
  <2> DEFINE m == Head(toPeer)
             r == Piece(m.index, m.begin, m.length, good)
  <2>2. /\ toPeer # <<>> /\ m.type = "request" /\ ValidRequest(m)
        /\ toClient' = toClient \o <<r>>
    BY <2>1 DEF Serves, PeerReads, PeerSends, CanServe
  <2>3. m.index = requested_piece
    BY <1>1, <1>2, <2>2 DEF Concerns
  <2>4. m \in Requests
    BY <1>1, <2>2, MessageTypes
  <2>5. r \in ToClientMsgs /\ r.index = requested_piece
    BY <2>2, <2>3, <2>4 DEF Requests, Pieces, Piece, ValidRequest, ToClientMsgs
  <2> HIDE DEF r
  <2>6. Concerns(toClient \o <<r>>, requested_piece)
    BY <1>1, <1>2, <2>5, EndConcerns
  <2> QED BY <1>3, <2>2, <2>6
<1>8. CASE UNCHANGED toClient
  BY <1>2, <1>3, <1>8
<1> QED BY <1>5, <1>6, <1>7, <1>8 DEF PeerNext, PeerInterested, PeerRefuse, PeerClose

LEMMA AskedClient ==
  ASSUME TypeInv, ThreadInv, AskedInv, ClientNext
  PROVE  AskedInv'
<1>1. toPeer \in Seq(ToPeerMsgs) /\ toClient \in Seq(ToClientMsgs)
  BY DEF TypeInv, TypeOK
<1>2. \A p : Concerns(<<>>, p)
  BY DEF Concerns
<1>3. ASSUME toClient # <<>>, ReadMsg
      PROVE  \A p : Concerns(toClient, p) => Concerns(toClient', p)
  BY <1>1, <1>3, TailOfQueue DEF ReadMsg
<1>4. ASSUME NEW p, NEW m \in ToPeerMsgs, Concerns(toPeer, p), Write(<<m>>),
             m.type \in {"request", "piece"} => m.index = p
      PROVE  Concerns(toPeer', p)
  BY <1>1, <1>4, EndConcerns DEF Write
<1> USE DEF AskedInv
<1>5. CASE Connect
  <2>1. \A p : Concerns(<<Handshake>>, p)
    BY DEF Concerns, Handshake
  <2> QED BY <1>2, <1>5, <2>1 DEF Connect, OpenLink
<1>6. CASE HandshakeOk
  BY <1>3, <1>6 DEF HandshakeOk
<1>7. CASE ReceiveIgnored \/ DrainMessage
  BY <1>3, <1>7 DEF ReceiveIgnored, DrainMessage, Receives, clientVars
<1>8. CASE ReceiveUnchoke
  <2>1. /\ pc = "recv" /\ UNCHANGED requested_piece /\ toClient # <<>> /\ ReadMsg
        /\ Write(<<Request(requested_piece, 0, SizeRecv)>>)
    BY <1>8 DEF ReceiveUnchoke, Receives, clientVars
  <2>2. /\ Request(requested_piece, 0, SizeRecv) \in ToPeerMsgs
        /\ Request(requested_piece, 0, SizeRecv).index = requested_piece
    BY MessageTypes, BoundsType DEF TypeInv, TypeOK, Request
  <2>3. Concerns(toPeer', requested_piece)
    BY <1>4, <2>1, <2>2
  <2> QED BY <1>3, <2>1, <2>3
<1>9. CASE ReceiveBitfield
  <2>1. /\ pc = "recv" /\ UNCHANGED requested_piece /\ toClient # <<>> /\ ReadMsg
        /\ Write(<<Interested>>)
    BY <1>9 DEF ReceiveBitfield, Receives, clientVars
  <2>2. Interested \in ToPeerMsgs /\ Interested.type \notin {"request", "piece"}
    BY MessageTypes DEF Interested
  <2>3. Concerns(toPeer', requested_piece)
    BY <1>4, <2>1, <2>2
  <2> QED BY <1>3, <2>1, <2>3
<1>10. CASE Reply
  <2>1. SUFFICES ASSUME requested_piece' >= 0 PROVE AskedInv'
    BY <1>10 DEF Reply
  <2>2. /\ pc = "reply" /\ UNCHANGED toClient
        /\ Write(<<Request(requested_piece', offset, SizeToReceive)>>)
    BY <1>10, <2>1 DEF Reply
  <2>3. Concerns(toPeer, requested_piece') /\ Concerns(toClient, requested_piece')
    BY <2>2 DEF ThreadInv, None, Driving, Drives, Concerns
  <2>4. requested_piece' \in Int /\ offset \in Int /\ SizeToReceive \in Int
    BY TypeLocals, BoundsType DEF Locals, SizeToReceive, Lesser, TypeInv, TypeOK
  <2>5. /\ Request(requested_piece', offset, SizeToReceive) \in ToPeerMsgs
        /\ Request(requested_piece', offset, SizeToReceive).index = requested_piece'
    BY <2>4, MessageTypes DEF Request
  <2>6. Concerns(toPeer', requested_piece')
    BY <1>4, <2>2, <2>3, <2>5
  <2> QED BY <2>2, <2>3, <2>6
<1>11. CASE pc' \notin {"handshake", "recv"}
  BY <1>11
<1> QED BY <1>5, <1>6, <1>7, <1>8, <1>9, <1>10, <1>11
        DEF ClientNext, StartUp, MessageLoop, SavePiece, Stop,
          ParseTorrent, ConnectFails, GiveUp, SocketError, ReceivePiece,
          SaveSkip, SaveFill, SaveRest, SaveEnds, Saving, Killed, Restart

-----------------------------------------------------------------------------
(* What is on disk. *)

(* DiskHolds and Settled depend on the files alone. *)
LEMMA DiskUnchanged ==
  ASSUME UNCHANGED disk
  PROVE  /\ \A n : DiskHolds(n)' <=> DiskHolds(n)
         /\ \A p : Settled(p)' <=> Settled(p)
BY DEF DiskHolds, Settled

(* A block that completes its piece starts save_piece off. *)
LEMMA DiskReceivePiece ==
  ASSUME TypeInv, AskedInv, DiskInv, ReceivePiece
  PROVE  DiskInv'
<1> DEFINE m == Head(toClient)
           off == m.begin + m.length
<1>1. /\ pc = "recv" /\ toClient # <<>> /\ m.type = "piece"
      /\ UNCHANGED <<disk, ret, requested_piece>>
  BY DEF ReceivePiece, Receives
<1>2. m \in Pieces /\ ValidRequest(m)
  BY <1>1, MessageTypes DEF TypeInv, TypeOK
<1>3. m.index = requested_piece
  BY <1>1 DEF AskedInv, Concerns, TypeInv, TypeOK
<1>4. m.index \in 0..(NumPieces - 1) /\ m.index * PieceLength \in Nat
  BY <1>2, BlockFits DEF Pieces
<1>5. DiskHolds(m.index * PieceLength)
  BY <1>1, <1>3, <1>4 DEF DiskInv, Settled
<1>6. ret # 1
  BY <1>1 DEF DiskInv
<1>7. CASE pc' = "reply"
  <2>1. requested_piece \in (-1)..(NumPieces - 1) /\ Settled(requested_piece)
    BY <1>1, <1>3, <1>4 DEF DiskInv
  <2> QED BY <1>1, <1>6, <1>7, <2>1, DiskUnchanged DEF DiskInv
<1>8. CASE pc' = "save"
  <2>1. /\ CheckSha1Piece(Filled(m), m.index, off)
        /\ piece_buf' = Filled(m) /\ piece' = m.index
        /\ i' = 1 /\ index' = 0 /\ bytes_to_write' = off
    BY <1>8 DEF ReceivePiece
  <2>2. off = PieceSize(m.index) /\ PieceSize(m.index) \in Nat \ {0}
    BY <1>4, <2>1, PieceInTorrent DEF CheckSha1Piece
  <2>3. \A k \in 0..(PieceSize(m.index) - 1) :
          piece_buf'[k] = m.index * PieceLength + k
    BY <2>1, <2>2 DEF CheckSha1Piece
  <2>4. 1 \in 1..(NumFiles + 1) /\ Bounds[1] <= m.index * PieceLength + 0
    BY <1>4, TorrentAssumption
  <2>5. DiskHolds(piece * PieceLength + index)'
    <3>1. PICK p \in 0..(NumPieces - 1) : p = m.index
      BY <1>4
    <3>2. DiskHolds(p * PieceLength)'
      BY <1>1, <1>5, <3>1, DiskUnchanged
    <3>3. p * PieceLength \in Nat
      BY <1>4, <3>1
    <3>4. piece' * PieceLength + index' = p * PieceLength
      BY <2>1, <3>1, <3>3
    <3> QED BY <3>2, <3>4 DEF DiskHolds
  <2>6. MultiFile \/ (i' = 1 /\ index' = 0)
    BY <2>1
  <2> HIDE DEF m, off
  <2>7. SavingInv'
    BY <1>4, <2>1, <2>2, <2>3, <2>4, <2>5, <2>6 DEF SavingInv
  <2> QED BY <1>1, <1>6, <1>8, <2>7 DEF DiskInv
<1> QED BY <1>7, <1>8 DEF ReceivePiece

(* Where save_piece stands: n bytes are on disk, file i takes the next. *)
LEMMA SavingFacts ==
  ASSUME TypeInv, SavingInv
  PROVE  LET n == piece * PieceLength + index
         IN  /\ n \in Nat /\ DiskHolds(n)
             /\ n + bytes_to_write = piece * PieceLength + PieceSize(piece)
             /\ n + bytes_to_write <= FileLength
             /\ piece * PieceLength \in Nat /\ PieceSize(piece) \in Nat
             /\ \A k \in 0..(bytes_to_write - 1) : piece_buf[index + k] = n + k
             /\ \A f \in Files : f = i =>
                  /\ Bounds[f] <= n
                  /\ Room(f) = FileLen(f) - Held(f, n)
                  /\ Room(f) > 0 => Room(f) = Bounds[f + 1] - n
                  /\ Room(f) <= 0 => Bounds[f + 1] <= n
<1> DEFINE at == piece * PieceLength
           size == PieceSize(piece)
           n == at + index
<1>1. at \in Nat /\ size \in Nat /\ at + size <= FileLength
  BY PieceInTorrent DEF SavingInv
<1>2. index \in Nat /\ bytes_to_write \in Nat /\ index + bytes_to_write = size
  BY DEF SavingInv, TypeInv, TypeOK
<1>3. DiskHolds(n) /\ Bounds[i] <= n
  BY DEF SavingInv
<1>4. \A k \in 0..(size - 1) : piece_buf[k] = at + k
  BY DEF SavingInv
<1> HIDE DEF at, size
<1>5. n \in Nat /\ n + bytes_to_write = at + size /\ FileLength \in Nat
  BY <1>1, <1>2, BoundsType
<1>6. ASSUME NEW k \in 0..(bytes_to_write - 1) PROVE piece_buf[index + k] = n + k
  <2>1. index + k \in 0..(size - 1)
    BY <1>1, <1>2
  <2>2. piece_buf[index + k] = at + (index + k)
    BY <1>4, <2>1
  <2> QED BY <1>1, <1>2, <2>2
<1> HIDE DEF n
<1>7. ASSUME NEW f \in Files, f = i
      PROVE  /\ Bounds[f] <= n
             /\ Room(f) = FileLen(f) - Held(f, n)
             /\ Room(f) > 0 => Room(f) = Bounds[f + 1] - n
             /\ Room(f) <= 0 => Bounds[f + 1] <= n
  <2>1. Room(f) = FileLen(f) - Held(f, n)
    BY <1>3, <1>5, FileHolds DEF Room
  <2> QED BY <1>3, <1>5, <1>7, <2>1, BoundsType DEF Held, Lesser, FileLen
<1> QED BY <1>1, <1>3, <1>5, <1>6, <1>7 DEF at, size, n

(* The last append brings the rest of the piece to disk.                   *)
LEMMA DiskSaveRest ==
  ASSUME Orderly, TypeInv, DiskInv, SaveRest
  PROVE  DiskHolds(piece * PieceLength + PieceSize(piece))'
<1>1. pc = "save" /\ SavingInv /\ UNCHANGED piece
  BY DEF SaveRest, Saving, DiskInv, saveVars
<1> DEFINE at == piece * PieceLength
           n == at + index
<1>2. /\ n \in Nat /\ at \in Nat /\ PieceSize(piece) \in Nat
      /\ DiskHolds(n)
      /\ n + bytes_to_write = at + PieceSize(piece)
      /\ n + bytes_to_write <= FileLength
      /\ \A k \in 0..(bytes_to_write - 1) : piece_buf[index + k] = n + k
      /\ \A f \in Files : f = i =>
           /\ Bounds[f] <= n
           /\ Room(f) > 0 => Room(f) = Bounds[f + 1] - n
           /\ Room(f) <= 0 => Bounds[f + 1] <= n
  BY <1>1, SavingFacts
<1>3. /\ piece \in 0..(NumPieces - 1) /\ bytes_to_write > 0
      /\ index \in Nat /\ bytes_to_write \in Nat
      /\ ~MultiFile => i = 1 /\ index = 0
  BY <1>1 DEF SavingInv, TypeInv, TypeOK
<1>4. disk \in [Names -> Seq(Byte)]
  BY DEF TypeInv, TypeOK, Byte
<1>5. ASSUME NEW f \in Files, Fwrite(f) PROVE AppendTo(f, Amount(f))
  BY <1>5 DEF Fwrite, Disturb, Orderly
<1>6. PICK p \in Nat : p = n
  BY <1>2
<1> HIDE DEF n, at
<1>7. \A f \in Files : Room(f) \in Int
  BY <1>4, BoundsType DEF Room
<1>8. PICK f \in Files :
        /\ f = i /\ Fwrite(f) /\ (MultiFile => bytes_to_write \in 1..Room(f))
  BY DEF SaveRest, Saving
<1>9. PICK c \in Nat : c = bytes_to_write
  BY <1>3
<1>10. Amount(f) = c /\ p + c <= Bounds[f + 1] /\ Bounds[f] <= p
  <2>1. CASE MultiFile
    BY <1>2, <1>3, <1>6, <1>7, <1>8, <1>9, <2>1, BoundsType DEF Amount, Lesser
  <2>2. CASE ~MultiFile
    <3>1. f = NumFiles /\ Bounds[f + 1] = FileLength
      BY <1>3, <1>8, <2>2, TorrentAssumption DEF FileLength
    <3> QED BY <1>2, <1>6, <1>8, <1>9, <2>2, <3>1 DEF Amount
  <2> QED BY <2>1, <2>2
<1>11. \A k \in 0..(c - 1) : piece_buf[index + k] = p + k
  BY <1>2, <1>6, <1>9
<1>12. DiskHolds(p)
  BY <1>2, <1>6
<1>13. DiskHolds(p + c)'
  BY <1>3, <1>4, <1>5, <1>8, <1>10, <1>11, <1>12, AppendExtends
<1>14. p + c = piece' * PieceLength + PieceSize(piece')
  BY <1>1, <1>2, <1>6, <1>9 DEF at
<1> QED BY <1>13, <1>14 DEF DiskHolds

(* Each step of save_piece brings the next bytes to the file they are of. *)
LEMMA DiskSavePiece ==
  ASSUME Orderly, TypeInv, DiskInv, SavePiece
  PROVE  DiskInv'
<1>1. pc = "save" /\ SavingInv /\ ret # 1 /\ UNCHANGED <<ret, piece_buf, piece>>
  BY DEF SavePiece, SaveSkip, SaveFill, SaveRest, SaveEnds, Saving, DiskInv,
     saveVars
<1> DEFINE at == piece * PieceLength
           n == at + index
<1>2. /\ n \in Nat /\ at \in Nat /\ PieceSize(piece) \in Nat
      /\ DiskHolds(n)
      /\ n + bytes_to_write = at + PieceSize(piece)
      /\ n + bytes_to_write <= FileLength
      /\ \A k \in 0..(bytes_to_write - 1) : piece_buf[index + k] = n + k
      /\ \A f \in Files : f = i =>
           /\ Bounds[f] <= n
           /\ Room(f) > 0 => Room(f) = Bounds[f + 1] - n
           /\ Room(f) <= 0 => Bounds[f + 1] <= n
  BY <1>1, SavingFacts
<1>3. /\ piece \in 0..(NumPieces - 1) /\ bytes_to_write > 0 /\ i \in 1..(NumFiles + 1)
      /\ index + bytes_to_write = PieceSize(piece)
      /\ index \in Nat /\ bytes_to_write \in Nat
      /\ Bounds[i] <= n
      /\ ~MultiFile => i = 1 /\ index = 0
  BY <1>1 DEF SavingInv, TypeInv, TypeOK
<1>4. disk \in [Names -> Seq(Byte)]
  BY DEF TypeInv, TypeOK, Byte
<1>5. ASSUME NEW f \in Files, Fwrite(f) PROVE AppendTo(f, Amount(f))
  BY <1>5 DEF Fwrite, Disturb, Orderly
<1>6. PICK p \in Nat : p = n
  BY <1>2
<1> HIDE DEF n, at
<1>7. \A f \in Files : Room(f) \in Int
  BY <1>4, BoundsType DEF Room
<1>8. CASE SaveSkip
  <2>1. PICK f \in Files : f = i /\ ~(Room(f) > 0 /\ bytes_to_write > 0)
    BY <1>8 DEF SaveSkip, Saving
  <2>2. Bounds[f + 1] <= n
    BY <1>2, <1>3, <1>7, <2>1
  <2>3. /\ i' = i + 1 /\ UNCHANGED <<pc, index, bytes_to_write, disk>>
        /\ MultiFile
    BY <1>8 DEF SaveSkip
  <2>4. i' \in 1..(NumFiles + 1) /\ Bounds[i'] <= n
    BY <1>3, <2>1, <2>2, <2>3, BoundsType DEF Files
  <2>5. SavingInv'
    BY <1>1, <1>3, <2>3, <2>4, DiskUnchanged DEF SavingInv, n, at, DiskHolds
  <2> QED BY <1>1, <2>3, <2>5 DEF DiskInv
<1>9. CASE SaveFill
  <2>1. PICK f \in Files :
          /\ f = i /\ Room(f) > 0 /\ bytes_to_write > Room(f)
          /\ Fwrite(f)
          /\ index' = index + Room(f)
          /\ bytes_to_write' = LeftAfter(f)
    BY <1>9 DEF SaveFill, Saving
  <2>2. PICK c \in Nat : c = Room(f)
    BY <1>2, <2>1, BoundsType
  <2>3. Amount(f) = c /\ MultiFile
    BY <1>3, <1>9, <2>1, <2>2 DEF SaveFill, Amount, Lesser
  <2>4. p + c = Bounds[f + 1] /\ p + c <= Bounds[f + 1] /\ Bounds[f] <= p
    BY <1>2, <1>6, <2>1, <2>2, BoundsType
  <2>5. \A k \in 0..(c - 1) : piece_buf[index + k] = p + k
    BY <1>2, <1>3, <1>6, <2>1, <2>2
  <2>6. DiskHolds(p)
    BY <1>2, <1>6
  <2>7. DiskHolds(p + c)'
    BY <1>3, <1>4, <1>5, <2>1, <2>3, <2>4, <2>5, <2>6, AppendExtends
  <2>8. /\ i' = i + 1 /\ UNCHANGED pc
        /\ index' = index + c /\ bytes_to_write' = bytes_to_write - c
        /\ bytes_to_write' > 0 /\ index' + bytes_to_write' = PieceSize(piece)
    BY <1>3, <1>9, <2>1, <2>2 DEF SaveFill, LeftAfter
  <2>9. i' \in 1..(NumFiles + 1) /\ Bounds[i'] = p + c
    BY <1>3, <2>1, <2>4, <2>8, BoundsType DEF Files
  <2>10. piece' * PieceLength + index' = p + c
    BY <1>1, <1>2, <1>3, <1>6, <2>8 DEF n, at
  <2>11. DiskHolds(piece * PieceLength + index)'
    BY <2>7, <2>10 DEF DiskHolds
  <2>12. Bounds[i'] <= piece' * PieceLength + index'
    BY <2>4, <2>9, <2>10, BoundsType
  <2>13. SavingInv'
    BY <1>1, <1>3, <2>3, <2>8, <2>9, <2>11, <2>12 DEF SavingInv
  <2> QED BY <1>1, <2>8, <2>13 DEF DiskInv
<1>10. CASE SaveRest
  <2>1. PICK r \in 0..(NumPieces - 1) : r = piece
    BY <1>3
  <2>2. DiskHolds(piece * PieceLength + PieceSize(piece))'
    BY <1>10, DiskSaveRest
  <2>3. DiskHolds(r * PieceLength + PieceSize(r))'
    BY <1>1, <2>1, <2>2 DEF DiskHolds
  <2>4. \E q \in (-1)..(NumPieces - 1) : Settled(q)'
    BY <2>3, NextSettled
  <2> QED BY <1>1, <1>10, <2>4 DEF SaveRest, DiskInv
<1>11. CASE SaveEnds
  <2>1. i = NumFiles + 1
    BY <1>3, <1>11, BoundsType DEF SaveEnds
  <2>2. FileLength <= n
    BY <1>3, <2>1 DEF FileLength
  <2> QED BY <1>2, <1>3, <2>2, BoundsType
<1> QED BY <1>8, <1>9, <1>10, <1>11 DEF SavePiece

LEMMA DiskReply ==
  ASSUME TypeInv, DiskInv, Reply
  PROVE  DiskInv'
<1>1. pc = "reply" /\ UNCHANGED disk /\ requested_piece' = CheckNextPiece(disk)
  BY DEF Reply
<1>2. PICK p \in (-1)..(NumPieces - 1) : Settled(p)
  BY <1>1 DEF DiskInv
<1>3. requested_piece' = p /\ Settled(p)'
  BY <1>1, <1>2, SettledIsNext, DiskUnchanged
<1>4. CASE p >= 0
  <2>1. pc' = "recv" /\ ret' = ret /\ ret # 1
    BY <1>1, <1>3, <1>4 DEF Reply, DiskInv
  <2>2. Settled(requested_piece)'
    BY <1>3 DEF Settled, DiskHolds
  <2> QED BY <2>1, <2>2 DEF DiskInv
<1>5. CASE p = -1
  <2>1. pc' = "exit" /\ Settled(-1)'
    BY <1>3, <1>5 DEF Reply
  <2> QED BY <1>2, <1>3, <2>1 DEF DiskInv
<1> QED BY <1>2, <1>4, <1>5

LEMMA DiskStartUp ==
  ASSUME DiskInv, StartUp
  PROVE  DiskInv'
<1>1. UNCHANGED <<disk, ret>> /\ ret # 1 /\ pc' # "save"
  BY DEF StartUp, ParseTorrent, Connect, ConnectFails, HandshakeOk, DiskInv
<1>2. CASE ParseTorrent
  <2>1. PICK p \in (-1)..(NumPieces - 1) : Settled(p)
    BY <1>2 DEF ParseTorrent, DiskInv
  <2>2. requested_piece' = p /\ Settled(p)'
    BY <1>1, <1>2, <2>1, SettledIsNext, DiskUnchanged DEF ParseTorrent
  <2>3. Settled(requested_piece)'
    BY <2>2 DEF Settled, DiskHolds
  <2> QED BY <1>1, <1>2, <2>3 DEF ParseTorrent, DiskInv
<1>3. CASE Connect \/ HandshakeOk
  <2>1. /\ UNCHANGED requested_piece /\ Settled(requested_piece)
        /\ pc' \in {"handshake", "recv"}
    BY <1>3 DEF Connect, HandshakeOk, DiskInv
  <2>2. Settled(requested_piece)'
    BY <1>1, <2>1 DEF Settled, DiskHolds
  <2> QED BY <1>1, <2>1, <2>2 DEF DiskInv
<1>4. CASE ConnectFails
  <2>1. Settled(requested_piece) /\ pc' = "exit"
    BY <1>4 DEF ConnectFails, DiskInv
  <2>2. requested_piece \in (-1)..(NumPieces - 1)
    BY <2>1, BoundsType DEF Settled, NumPieces
  <2>3. PICK p \in (-1)..(NumPieces - 1) : Settled(p)
    BY <2>1, <2>2
  <2>4. Settled(p)'
    BY <1>1, <2>3, DiskUnchanged
  <2> QED BY <1>1, <2>1, <2>4 DEF DiskInv
<1> QED BY <1>2, <1>3, <1>4 DEF StartUp

LEMMA DiskStop ==
  ASSUME Orderly, TypeInv, DiskInv, Stop \/ Restart
  PROVE  DiskInv'
<1>1. /\ UNCHANGED disk /\ pc # "save" /\ pc' \in {"exit", "parse"} /\ ret' # 1
  BY DEF Stop, GiveUp, SocketError, Killed, Restart, DiskInv, Disturb, Orderly
<1>2. \E p \in (-1)..(NumPieces - 1) : Settled(p)
  <2>1. CASE pc \in {"parse", "exit", "reply"}
    BY <2>1 DEF DiskInv
  <2>2. CASE pc \in {"connect", "handshake", "recv"}
    BY <2>2, BoundsType DEF DiskInv, Settled, NumPieces
  <2> QED BY <1>1, <2>1, <2>2 DEF TypeInv, TypeOK, PCs
<1>3. PICK p \in (-1)..(NumPieces - 1) : Settled(p)
  BY <1>2
<1>4. Settled(p)'
  BY <1>1, <1>3, DiskUnchanged
<1> QED BY <1>1, <1>4 DEF DiskInv

-----------------------------------------------------------------------------
LEMMA InvInit == Init => DownloadInv
<1> SUFFICES ASSUME Init PROVE DownloadInv
  OBVIOUS
<1>1. ThreadInv /\ AskedInv
  BY DEF Init, WireInit, ClientInit, ThreadInv, AskedInv, None, AtMostOne, Driving
<1>2. DiskHolds(0)
  <2> SUFFICES ASSUME NEW f \in Files
               PROVE  disk[FileName[f]] = [k \in 1..Held(f, 0) |-> Bounds[f] + k - 1]
    BY DEF DiskHolds
  <2>1. Held(f, 0) = 0
    BY HeldFacts, BoundsType
  <2>2. disk[FileName[f]] = <<>>
    BY BoundsType DEF Init, ClientInit
  <2> QED BY <2>1, <2>2
<1>3. Settled(0) /\ 0 \in (-1)..(NumPieces - 1)
  BY <1>2, NothingSettled DEF Settled
<1>4. DiskInv
  BY <1>3 DEF DiskInv, Init, ClientInit
<1> QED BY <1>1, <1>4 DEF DownloadInv

LEMMA InvNext ==
  ASSUME Orderly, TypeInv, DownloadInv, [Next]_vars
  PROVE  DownloadInv'
<1> USE DEF DownloadInv
<1>1. CASE ClientNext
  <2>1. ThreadInv' /\ AskedInv'
    BY <1>1, ThreadClient, AskedClient
  <2>2. CASE ReceiveIgnored \/ DrainMessage \/ ReceiveUnchoke \/ ReceiveBitfield
    <3>1. UNCHANGED <<pc, ret, requested_piece, disk>> /\ pc = "recv"
      BY <2>2 DEF ReceiveIgnored, DrainMessage, ReceiveUnchoke, ReceiveBitfield,
         Receives, clientVars
    <3>2. DiskInv'
      BY <3>1 DEF DiskInv, Settled, DiskHolds
    <3> QED BY <2>1, <3>2
  <2>3. DiskInv'
    BY <1>1, <2>2, DiskStartUp, DiskReceivePiece, DiskReply, DiskSavePiece, DiskStop
       DEF ClientNext, MessageLoop
  <2> QED BY <2>1, <2>3
<1>2. CASE PeerNext /\ UNCHANGED clientVars
  <2>1. ThreadInv' /\ AskedInv'
    BY <1>2, ThreadPeer, AskedPeer
  <2>2. DiskInv'
    BY <1>2 DEF clientVars, saveVars, DiskInv, SavingInv, Settled, DiskHolds
  <2> QED BY <2>1, <2>2
<1>3. CASE UNCHANGED vars
  BY <1>3 DEF vars, wireVars, linkVars, clientVars, saveVars, ThreadInv, AskedInv,
     DiskInv, SavingInv, Settled, DiskHolds
<1> QED BY <1>1, <1>2, <1>3 DEF Next

(***************************************************************************)
(* The invariant the files rest on holds in every run.                     *)
(***************************************************************************)
THEOREM InvHolds == ASSUME Orderly PROVE Spec => []DownloadInv
<1>1. Init => DownloadInv
  BY InvInit
<1>2. TypeInv /\ DownloadInv /\ [Next]_vars => DownloadInv'
  BY InvNext
<1>3. Spec => []TypeInv
  BY TypeCorrect
<1> QED BY <1>1, <1>2, <1>3, PTL DEF Spec

(***************************************************************************)
(* The files hold a prefix of the torrent at all times, so that a run that *)
(* was cut short leaves what the next one resumes from.                    *)
(***************************************************************************)
THEOREM PrefixHolds == ASSUME Orderly PROVE Spec => []DiskIsPrefix
<1>1. TypeInv /\ DownloadInv => DiskIsPrefix
  <2> SUFFICES ASSUME TypeInv, DownloadInv PROVE DiskIsPrefix
    OBVIOUS
  <2>1. ASSUME NEW p, Settled(p) PROVE DiskIsPrefix
    <3>1. CASE p = -1
      BY <2>1, <3>1, BoundsType DEF Settled, DiskIsPrefix
    <3>2. CASE p # -1
      <4>1. p \in 0..(NumPieces - 1) /\ DiskHolds(p * PieceLength)
        BY <2>1, <3>2 DEF Settled
      <4>2. p * PieceLength \in 0..FileLength
        BY <4>1, PieceInTorrent, BoundsType
      <4> QED BY <4>1, <4>2 DEF DiskIsPrefix
    <3> QED BY <3>1, <3>2
  <2>2. CASE pc = "save"
    <3>1. SavingInv
      BY <2>2 DEF DownloadInv, DiskInv
    <3> DEFINE n == piece * PieceLength + index
    <3>2. n \in Nat /\ DiskHolds(n) /\ n + bytes_to_write <= FileLength
      BY <3>1, SavingFacts
    <3> HIDE DEF n
    <3>3. n \in 0..FileLength
      BY <3>2, BoundsType DEF TypeInv, TypeOK
    <3> QED BY <3>2, <3>3 DEF DiskIsPrefix
  <2>3. CASE pc # "save"
    BY <2>1, <2>3 DEF TypeInv, TypeOK, PCs, DownloadInv, DiskInv
  <2> QED BY <2>2, <2>3
<1>2. Spec => []TypeInv
  BY TypeCorrect
<1>3. Spec => []DownloadInv
  BY InvHolds
<1> QED BY <1>1, <1>2, <1>3, PTL

(***************************************************************************)
(* When the program says that the download is complete, it is.             *)
(***************************************************************************)
THEOREM CompleteHolds == ASSUME Orderly PROVE Spec => []CompleteIsWhole
<1>1. DownloadInv => CompleteIsWhole
  BY DEF DownloadInv, DiskInv, Settled, CompleteIsWhole
<1>2. Spec => []DownloadInv
  BY InvHolds
<1> QED BY <1>1, <1>2, PTL

(***************************************************************************)
(* The piece asked for is the first one that is not on disk, also a round  *)
(* trip after check_next_piece chose it.                                   *)
(***************************************************************************)
THEOREM RequestIsNextHolds == ASSUME Orderly PROVE Spec => []RequestIsNext
<1>1. DownloadInv => RequestIsNext
  BY DEF DownloadInv, DiskInv, Settled, RequestIsNext
<1>2. Spec => []DownloadInv
  BY InvHolds
<1> QED BY <1>1, <1>2, PTL

(***************************************************************************)
(* There is never more than one thread of requests.                        *)
(***************************************************************************)
THEOREM OneThreadHolds == ASSUME Orderly PROVE Spec => []OneThread
<1>1. DownloadInv => OneThread
  BY DEF DownloadInv, ThreadInv, None, AtMostOne, OneThread, Threads
<1>2. Spec => []DownloadInv
  BY InvHolds
<1> QED BY <1>1, <1>2, PTL

-----------------------------------------------------------------------------
(* Blocks and the requests for them, of whatever kind T. *)

Each(queue, T) ==
  \A k \in DOMAIN queue : queue[k].type \in {"request", "piece"} => queue[k] \in T

LEMMA TailEach ==
  ASSUME NEW S, NEW q \in Seq(S), q # <<>>, NEW T, Each(q, T)
  PROVE  Each(Tail(q), T)
<1>1. /\ DOMAIN q = 1..Len(q) /\ Len(q) \in Nat
      /\ DOMAIN Tail(q) = 1..(Len(q) - 1)
      /\ \A k \in 1..(Len(q) - 1) : Tail(q)[k] = q[k + 1]
  OBVIOUS
<1> QED BY <1>1 DEF Each

LEMMA EndEach ==
  ASSUME NEW S, NEW q \in Seq(S), NEW m \in S, NEW T, Each(q, T),
         m.type \in {"request", "piece"} => m \in T
  PROVE  Each(q \o <<m>>, T)
<1> DEFINE r == q \o <<m>>
<1>1. /\ Len(q) \in Nat /\ DOMAIN q = 1..Len(q)
      /\ DOMAIN r = 1..(Len(q) + 1)
      /\ \A k \in 1..Len(q) : r[k] = q[k]
      /\ r[Len(q) + 1] = m
  OBVIOUS
<1> HIDE DEF r
<1> QED BY <1>1 DEF r, Each

LEMMA NoneEach ==
  ASSUME NEW q, None(q), NEW T
  PROVE  Each(q, T)
BY DEF None, Driving, Drives, Each

(* The peer's blocks are of the kind of the requests they answer. *)
LEMMA EachPeer ==
  ASSUME TypeInv, PeerNext, NEW T, Each(toPeer, T), Each(toClient, T),
         \A m \in Requests, good \in BOOLEAN :
           m \in T /\ ValidRequest(m)
             => Piece(m.index, m.begin, m.length, good) \in T
  PROVE  Each(toPeer', T) /\ Each(toClient', T)
<1>1. toPeer \in Seq(ToPeerMsgs) /\ toClient \in Seq(ToClientMsgs)
  BY DEF TypeInv, TypeOK
<1>2. Each(toPeer', T)
  <2>1. \/ toPeer # <<>> /\ toPeer' = Tail(toPeer)
        \/ toPeer' = <<>>
        \/ UNCHANGED toPeer
    BY DEF PeerNext, PeerHandshake, PeerInterested, PeerUnchoke, PeerChoke,
     PeerServe, PeerCorrupt, Serves, PeerRefuse, PeerChat, PeerClose, PeerReads
  <2>2. Each(<<>>, T)
    BY DEF Each
  <2>3. toPeer # <<>> => Each(Tail(toPeer), T)
    BY <1>1, TailEach
  <2> QED BY <2>1, <2>2, <2>3
<1>3. ASSUME NEW m \in ToClientMsgs, m.type \notin {"request", "piece"}
      PROVE  Each(toClient \o <<m>>, T)
  BY <1>1, <1>3, EndEach
<1>4. CASE PeerHandshake
  <2> DEFINE q == toClient \o <<Handshake>>
  <2>1. toClient' = q \o <<Bitfield>>
    <3>1. toClient' = toClient \o <<Handshake, Bitfield>>
      BY <1>4 DEF PeerHandshake, PeerSends
    <3>2. <<Handshake>> \in Seq(ToClientMsgs) /\ <<Bitfield>> \in Seq(ToClientMsgs)
      BY MessageTypes
    <3>3. toClient' = toClient \o (<<Handshake>> \o <<Bitfield>>)
      BY <3>1, PairOfMsgs, MessageTypes
    <3> QED BY <1>1, <3>2, <3>3, ConcatAssociative
  <2>2. /\ Handshake \in ToClientMsgs /\ Bitfield \in ToClientMsgs
        /\ Handshake.type \notin {"request", "piece"}
        /\ Bitfield.type \notin {"request", "piece"}
    BY MessageTypes DEF Handshake, Bitfield
  <2>3. q \in Seq(ToClientMsgs) /\ Each(q, T)
    BY <1>1, <1>3, <2>2
  <2> HIDE DEF q
  <2>4. Each(q \o <<Bitfield>>, T)
    BY <2>2, <2>3, EndEach
  <2> QED BY <1>2, <2>1, <2>4
<1>5. CASE PeerUnchoke \/ PeerChoke \/ PeerChat
  <2>1. PICK m \in {Unchoke, Choke, KeepAlive, Have} : toClient' = toClient \o <<m>>
    BY <1>5 DEF PeerUnchoke, PeerChoke, PeerChat, PeerSends
  <2>2. m \in ToClientMsgs /\ m.type \notin {"request", "piece"}
    BY MessageTypes DEF Unchoke, Choke, KeepAlive, Have
  <2> QED BY <1>2, <1>3, <2>1, <2>2
<1>6. CASE PeerServe \/ PeerCorrupt
  <2>1. PICK good \in BOOLEAN : Serves(good)
    BY <1>6 DEF PeerServe, PeerCorrupt
  <2> DEFINE m == Head(toPeer)
             r == Piece(m.index, m.begin, m.length, good)
  <2>2. /\ toPeer # <<>> /\ m.type = "request" /\ ValidRequest(m)
        /\ toClient' = toClient \o <<r>>
    BY <2>1 DEF Serves, PeerReads, PeerSends, CanServe
  <2>3. m \in Requests
    BY <1>1, <2>2, MessageTypes
  <2>4. m \in T
    BY <1>1, <2>2 DEF Each
  <2>5. r \in T
    BY <2>2, <2>3, <2>4
  <2>6. r \in ToClientMsgs
    BY <2>2, <2>3 DEF Requests, Pieces, Piece, ValidRequest, ToClientMsgs
  <2> HIDE DEF r
  <2>7. Each(toClient \o <<r>>, T)
    BY <1>1, <2>5, <2>6, EndEach
  <2> QED BY <1>2, <2>2, <2>7
<1>7. CASE UNCHANGED toClient
  BY <1>2, <1>7
<1> QED BY <1>4, <1>5, <1>6, <1>7 DEF PeerNext, PeerInterested, PeerRefuse, PeerClose

(* The client's steps between connecting and a piece that ends: its        *)
(* requests start a piece or are the one of Reply.                         *)
LEMMA EachClient ==
  ASSUME TypeInv, ThreadInv, ClientNext, NEW T, pc' \in {"handshake", "recv"},
         pc \in {"handshake", "recv"} => Each(toPeer, T) /\ Each(toClient, T),
         pc = "recv" => Request(requested_piece, 0, SizeRecv) \in T,
         Reply /\ requested_piece' >= 0
           => Request(requested_piece', offset, SizeToReceive) \in T
  PROVE  Each(toPeer', T) /\ Each(toClient', T)
<1>1. toPeer \in Seq(ToPeerMsgs) /\ toClient \in Seq(ToClientMsgs)
  BY DEF TypeInv, TypeOK
<1>2. Each(<<>>, T)
  BY DEF Each
<1>3. ASSUME toClient # <<>>, ReadMsg, pc \in {"handshake", "recv"}
      PROVE  Each(toClient', T)
  BY <1>1, <1>3, TailEach DEF ReadMsg
<1>4. ASSUME NEW m \in ToPeerMsgs, Each(toPeer, T), Write(<<m>>),
             m.type \in {"request", "piece"} => m \in T
      PROVE  Each(toPeer', T)
  BY <1>1, <1>4, EndEach DEF Write
<1>5. CASE Connect
  <2>1. Each(<<Handshake>>, T)
    BY DEF Each, Handshake
  <2> QED BY <1>2, <1>5, <2>1 DEF Connect, OpenLink
<1>6. CASE HandshakeOk
  BY <1>3, <1>6 DEF HandshakeOk
<1>7. CASE ReceiveIgnored \/ DrainMessage
  BY <1>3, <1>7 DEF ReceiveIgnored, DrainMessage, Receives, clientVars
<1>8. CASE ReceiveUnchoke
  <2>1. /\ pc = "recv" /\ toClient # <<>> /\ ReadMsg
        /\ Write(<<Request(requested_piece, 0, SizeRecv)>>)
    BY <1>8 DEF ReceiveUnchoke, Receives
  <2>2. Request(requested_piece, 0, SizeRecv) \in ToPeerMsgs
    BY MessageTypes, BoundsType DEF TypeInv, TypeOK
  <2> QED BY <1>3, <1>4, <2>1, <2>2
<1>9. CASE ReceiveBitfield
  <2>1. pc = "recv" /\ toClient # <<>> /\ ReadMsg /\ Write(<<Interested>>)
    BY <1>9 DEF ReceiveBitfield, Receives
  <2>2. Interested \in ToPeerMsgs /\ Interested.type \notin {"request", "piece"}
    BY MessageTypes DEF Interested
  <2> QED BY <1>3, <1>4, <2>1, <2>2
<1>10. CASE Reply
  <2>1. /\ pc = "reply" /\ UNCHANGED toClient /\ requested_piece' >= 0
        /\ Write(<<Request(requested_piece', offset, SizeToReceive)>>)
    BY <1>10 DEF Reply
  <2>2. Each(toPeer, T) /\ Each(toClient, T)
    BY <2>1, NoneEach DEF ThreadInv
  <2>3. requested_piece' \in Int /\ offset \in Int /\ SizeToReceive \in Int
    BY TypeLocals, BoundsType DEF Locals, SizeToReceive, Lesser, TypeInv, TypeOK
  <2>4. Request(requested_piece', offset, SizeToReceive) \in ToPeerMsgs
    BY <2>3, MessageTypes
  <2> QED BY <1>4, <1>10, <2>1, <2>2, <2>4
<1> QED BY <1>5, <1>6, <1>7, <1>8, <1>9, <1>10
        DEF ClientNext, StartUp, MessageLoop, SavePiece, Stop,
          ParseTorrent, ConnectFails, GiveUp, SocketError, ReceivePiece,
          SaveSkip, SaveFill, SaveRest, SaveEnds, Saving, Killed, Restart

-----------------------------------------------------------------------------
(* What piece_buf holds in front of a block that is asked for or arrives.  *)

(* The first n bytes of piece_buf are those of piece p, or corrupt.        *)
Holds(p, n) == \A b \in 0..(n - 1) : piece_buf[b] \in {p * PieceLength + b, Garbage}

Backed == {m \in Requests \cup Pieces : Holds(m.index, m.begin)}

BufferInv ==
  /\ pc \in {"handshake", "recv"} => Each(toPeer, Backed) /\ Each(toClient, Backed)
  /\ pc = "save" => offset = 0
  /\ pc = "reply" => /\ Holds(piece, offset)
                     /\ piece \in 0..(NumPieces - 1)
                     /\ offset > 0 => Settled(piece)

LEMMA BufferPeer ==
  ASSUME TypeInv, BufferInv, PeerNext, UNCHANGED clientVars
  PROVE  BufferInv'
<1>1. UNCHANGED <<pc, disk, piece_buf, piece, offset>>
  BY DEF clientVars, saveVars
<1>2. ASSUME pc \in {"handshake", "recv"}
      PROVE  (Each(toPeer, Backed) /\ Each(toClient, Backed))'
  <2>1. Backed' = Backed
    BY <1>1 DEF Backed, Holds
  <2>2. ASSUME NEW m \in Requests, NEW good \in BOOLEAN, m \in Backed, ValidRequest(m)
        PROVE  Piece(m.index, m.begin, m.length, good) \in Backed
    <3> DEFINE r == Piece(m.index, m.begin, m.length, good)
    <3>1. r \in Pieces /\ r.index = m.index /\ r.begin = m.begin
      BY DEF Requests, Pieces, Piece
    <3> HIDE DEF r
    <3>2. Holds(r.index, r.begin)
      BY <2>2, <3>1 DEF Backed
    <3> QED BY <3>1, <3>2 DEF Backed, r
  <2>3. Each(toPeer', Backed) /\ Each(toClient', Backed)
    <3>1. Each(toPeer, Backed) /\ Each(toClient, Backed)
      BY <1>2 DEF BufferInv
    <3> QED BY <2>2, <3>1, EachPeer
  <2> QED BY <2>1, <2>3 DEF Each
<1>3. pc = "reply" => (offset > 0 => Settled(piece))'
  BY <1>1 DEF BufferInv, Settled, DiskHolds
<1> QED BY <1>1, <1>2, <1>3 DEF BufferInv, Holds

(* The block of a piece that has not ended is put behind the others.       *)
LEMMA BufferReceive ==
  ASSUME TypeInv, AskedInv, DiskInv, BufferInv, ReceivePiece
  PROVE  BufferInv'
<1> DEFINE m == Head(toClient)
           off == m.begin + m.length
<1>1. /\ pc = "recv" /\ toClient # <<>> /\ m.type = "piece"
      /\ UNCHANGED <<disk, requested_piece>>
      /\ piece' = m.index /\ piece_buf' = Filled(m) /\ pc' \in {"save", "reply"}
  BY DEF ReceivePiece, Receives
<1>2. m \in Pieces /\ ValidRequest(m)
  BY <1>1, MessageTypes DEF TypeInv, TypeOK
<1>3. /\ m.index = requested_piece /\ m \in Backed
  BY <1>1 DEF AskedInv, Concerns, TypeInv, TypeOK, BufferInv, Each
<1>4. /\ m.index \in 0..(NumPieces - 1) /\ m.index * PieceLength \in Nat
      /\ m.begin \in Nat /\ m.length \in Nat \ {0} /\ off <= PieceLength
  BY <1>2, BlockFits DEF Pieces
<1>5. CASE pc' = "save"
  BY <1>5 DEF ReceivePiece, BufferInv
<1>6. CASE pc' = "reply" /\ offset' = 0
  BY <1>1, <1>4, <1>6 DEF BufferInv, Holds
<1>7. CASE pc' = "reply" /\ offset' # 0
  <2>1. offset' = off
    BY <1>7 DEF ReceivePiece
  <2>2. Settled(piece)'
    BY <1>1, <1>3 DEF DiskInv, Settled, DiskHolds
  <2>3. ASSUME NEW b \in 0..(off - 1)
        PROVE  Filled(m)[b] \in {m.index * PieceLength + b, Garbage}
    <3>1. b \in DOMAIN piece_buf
      BY <1>4, BoundsType DEF TypeInv, TypeOK
    <3>2. CASE b \in m.begin..(m.begin + m.length - 1)
      <4>1. Filled(m)[b] = BlockByte(m, b - m.begin)
        BY <3>1, <3>2 DEF Filled
      <4> QED BY <1>4, <4>1 DEF BlockByte
    <3>3. CASE b \notin m.begin..(m.begin + m.length - 1)
      <4>1. Filled(m)[b] = piece_buf[b]
        BY <3>1, <3>3 DEF Filled
      <4>2. b \in 0..(m.begin - 1)
        BY <1>4, <3>3
      <4> QED BY <1>3, <4>1, <4>2 DEF Backed, Holds
    <3> QED BY <3>2, <3>3
  <2> HIDE DEF m, off
  <2>4. Holds(piece, offset)'
    BY <1>1, <2>1, <2>3 DEF Holds
  <2> QED BY <1>1, <1>4, <1>7, <2>2, <2>4 DEF BufferInv
<1> QED BY <1>1, <1>5, <1>6, <1>7

LEMMA BufferClient ==
  ASSUME TypeInv, DownloadInv, BufferInv, ClientNext
  PROVE  BufferInv'
<1>1. ThreadInv /\ AskedInv /\ DiskInv
  BY DEF DownloadInv
<1>2. CASE ReceivePiece
  BY <1>1, <1>2, BufferReceive
<1>3. CASE SavePiece
  <2>1. pc = "save" /\ offset = 0 /\ UNCHANGED <<offset, piece>> /\ pc' \in {"save", "reply"}
    BY <1>3 DEF SavePiece, SaveSkip, SaveFill, SaveRest, SaveEnds, Saving, saveVars, BufferInv
  <2>2. piece \in 0..(NumPieces - 1)
    BY <1>1, <2>1 DEF DiskInv, SavingInv
  <2> QED BY <2>1, <2>2 DEF BufferInv, Holds
<1>4. CASE pc' \in {"handshake", "recv"}
  <2>1. UNCHANGED piece_buf
    BY <1>4 DEF ClientNext, StartUp, MessageLoop, SavePiece, Stop, ParseTorrent, Connect,
     ConnectFails, HandshakeOk, ReceiveIgnored, DrainMessage, ReceiveUnchoke,
     ReceiveBitfield, ReceivePiece, Reply, SaveSkip, SaveFill, SaveRest, SaveEnds,
     Saving, GiveUp, SocketError, Killed, Restart, clientVars, saveVars
  <2>2. Request(requested_piece, 0, SizeRecv) \in Backed
    <3> DEFINE r == Request(requested_piece, 0, SizeRecv)
    <3>1. r \in Requests /\ r.begin = 0
      BY BoundsType DEF Requests, Request, TypeInv, TypeOK
    <3> HIDE DEF r
    <3>2. Holds(r.index, r.begin)
      BY <3>1 DEF Holds
    <3> QED BY <3>1, <3>2 DEF Backed, r
  <2>3. ASSUME Reply, requested_piece' >= 0
        PROVE  Request(requested_piece', offset, SizeToReceive) \in Backed
    <3> DEFINE r == Request(requested_piece', offset, SizeToReceive)
    <3>1. /\ pc = "reply" /\ requested_piece' = CheckNextPiece(disk)
      BY <2>3 DEF Reply
    <3>2. requested_piece' \in Int /\ offset \in Nat /\ SizeToReceive \in Int
      BY TypeLocals, BoundsType DEF Locals, SizeToReceive, Lesser, TypeInv, TypeOK
    <3>3. r \in Requests /\ r.index = requested_piece' /\ r.begin = offset
      BY <3>2 DEF Requests, Request
    <3> HIDE DEF r
    <3>4. Holds(r.index, r.begin)
      <4>1. CASE offset = 0
        BY <3>3, <4>1 DEF Holds
      <4>2. CASE offset > 0
        <5>1. Settled(piece) /\ piece \in (-1)..(NumPieces - 1) /\ Holds(piece, offset)
          BY <3>1, <4>2 DEF BufferInv
        <5>2. requested_piece' = piece
          <6>1. PICK p \in (-1)..(NumPieces - 1) : p = piece
            BY <5>1
          <6>2. Settled(p)
            BY <5>1, <6>1
          <6> QED BY <3>1, <6>1, <6>2, SettledIsNext
        <5> QED BY <3>3, <5>1, <5>2
      <4> QED BY <3>2, <4>1, <4>2
    <3> QED BY <3>3, <3>4 DEF Backed, r
  <2>4. pc \in {"handshake", "recv"} => Each(toPeer, Backed) /\ Each(toClient, Backed)
    BY DEF BufferInv
  <2>5. Each(toPeer', Backed) /\ Each(toClient', Backed)
    BY <1>1, <1>4, <2>2, <2>3, <2>4, EachClient
  <2>6. Backed' = Backed
    BY <2>1 DEF Backed, Holds
  <2> QED BY <1>4, <2>5, <2>6 DEF BufferInv, Each
<1>5. CASE pc' \notin {"handshake", "recv", "save", "reply"}
  BY <1>5 DEF BufferInv
<1>6. ASSUME pc' \in {"save", "reply"} PROVE ReceivePiece \/ SavePiece
  BY <1>6 DEF ClientNext, StartUp, MessageLoop, Stop, ParseTorrent, Connect,
     ConnectFails, HandshakeOk, ReceiveIgnored, DrainMessage, ReceiveUnchoke,
     ReceiveBitfield, Receives, Reply, GiveUp, SocketError, Killed, Restart,
     clientVars
<1> QED BY <1>2, <1>3, <1>4, <1>5, <1>6

LEMMA BufferInit == Init => BufferInv
BY DEF Init, ClientInit, BufferInv

LEMMA BufferNext ==
  ASSUME TypeInv, DownloadInv, BufferInv, [Next]_vars
  PROVE  BufferInv'
<1>1. CASE UNCHANGED vars
  BY <1>1 DEF vars, wireVars, linkVars, clientVars, saveVars, BufferInv, Each, Backed,
     Holds, Settled, DiskHolds
<1> QED BY <1>1, BufferPeer, BufferClient DEF Next

(***************************************************************************)
(* A block that arrives is of the piece asked for, and what is in front of *)
(* it in piece_buf is of that piece too, for every torrent, whatever       *)
(* blocks were dropped and whatever runs were killed before.               *)
(***************************************************************************)
THEOREM BlockBelongsHolds == ASSUME Orderly PROVE Spec => []BlockBelongs
<1>1. TypeInv /\ DownloadInv /\ BufferInv => BlockBelongs
  <2> SUFFICES ASSUME TypeInv, DownloadInv, BufferInv, pc = "recv",
                      NEW k \in DOMAIN toClient, toClient[k].type = "piece"
               PROVE  /\ toClient[k].index = requested_piece
                      /\ \A b \in 0..(toClient[k].begin - 1) :
                           piece_buf[b] \in {toClient[k].index * PieceLength + b, Garbage}
    BY DEF BlockBelongs
  <2>1. toClient[k] \in Backed
    BY DEF BufferInv, Each
  <2> QED BY <2>1 DEF DownloadInv, AskedInv, Concerns, Backed, Holds
<1> QED BY <1>1, TypeCorrect, InvHolds, BufferInit, BufferNext, PTL DEF Spec

-----------------------------------------------------------------------------
(* Where pieces are of whole blocks, what is asked for is within its piece. *)

WholeBlocks ==
  /\ \E d \in Nat : PieceLength = d * SizeRecv
  /\ \A p \in 0..(NumPieces - 1) : PieceSize(p) >= SizeRecv

(* A block begins where blocks begin and is as long as they are, or the    *)
(* last of the torrent.                                                    *)
Regular(m) ==
  /\ ValidRequest(m)
  /\ \E c \in Nat : m.begin = c * SizeRecv
  /\ m.length = SizeRecv \/ m.index * PieceLength + m.begin + m.length = FileLength

InRange == {m \in Requests \cup Pieces : m.index # -1 => Regular(m)}

RangeInv ==
  /\ pc \in {"handshake", "recv"} => Each(toPeer, InRange) /\ Each(toClient, InRange)
  /\ pc = "reply" => /\ \E c \in Nat : offset = c * SizeRecv
                     /\ offset < PieceSize(piece)

(* The block behind a whole number of blocks of its piece. *)
LEMMA BlockBehind ==
  ASSUME WholeBlocks, NEW p \in 0..(NumPieces - 1), NEW c \in Nat,
         c * SizeRecv < PieceSize(p)
  PROVE  LET o == c * SizeRecv
             l == Lesser(SizeRecv, FileLength - (p * PieceLength + o))
         IN  /\ o \in Nat /\ l \in Nat \ {0} /\ o + l <= PieceSize(p)
             /\ l = SizeRecv \/ p * PieceLength + o + l = FileLength
             /\ o = 0 => l = SizeRecv
<1> DEFINE o == c * SizeRecv
           at == p * PieceLength
           size == PieceSize(p)
           l == Lesser(SizeRecv, FileLength - (at + o))
<1>1. /\ SizeRecv \in Nat \ {0} /\ PieceLength \in Nat \ {0} /\ FileLength \in Nat
  BY BoundsType
<1>2. /\ at \in Nat /\ size \in 1..PieceLength /\ at + size <= FileLength
      /\ at + size = FileLength \/ at + size = (p + 1) * PieceLength
  BY PieceInTorrent
<1>3. (p + 1) * PieceLength = at + PieceLength
  BY <1>1
<1>4. size >= SizeRecv
  BY DEF WholeBlocks
<1>5. o \in Nat /\ o < size
  BY <1>1
<1>6. o + SizeRecv <= PieceLength
  <2>1. PICK d \in Nat : PieceLength = d * SizeRecv
    BY DEF WholeBlocks
  <2>2. c + 1 <= d
    <3>1. ASSUME d <= c PROVE d * SizeRecv <= c * SizeRecv
      BY <1>1, <3>1
    <3>2. c * SizeRecv < d * SizeRecv
      BY <1>1, <1>2, <1>5, <2>1
    <3> QED BY <1>1, <3>1, <3>2
  <2>3. (c + 1) * SizeRecv <= d * SizeRecv
    BY <1>1, <2>2
  <2>4. (c + 1) * SizeRecv = c * SizeRecv + SizeRecv
    BY <1>1
  <2> QED BY <2>1, <2>3, <2>4
<1> HIDE DEF o, at, size
<1>7. /\ l \in Nat \ {0} /\ o + l <= size
      /\ l = SizeRecv \/ at + o + l = FileLength
      /\ o = 0 => l = SizeRecv
  BY <1>1, <1>2, <1>3, <1>4, <1>5, <1>6 DEF Lesser
<1> QED BY <1>5, <1>7 DEF o, at, size

LEMMA RangePeer ==
  ASSUME TypeInv, RangeInv, PeerNext, UNCHANGED clientVars
  PROVE  RangeInv'
<1>1. UNCHANGED <<pc, piece, offset>>
  BY DEF clientVars, saveVars
<1>2. ASSUME NEW m \in Requests, NEW good \in BOOLEAN, m \in InRange, ValidRequest(m)
      PROVE  Piece(m.index, m.begin, m.length, good) \in InRange
  <2> DEFINE r == Piece(m.index, m.begin, m.length, good)
  <2>1. r \in Pieces /\ r.index = m.index /\ r.begin = m.begin /\ r.length = m.length
    BY DEF Requests, Pieces, Piece
  <2> HIDE DEF r
  <2>2. m.index # -1 /\ Regular(m)
    BY <1>2 DEF InRange, ValidRequest
  <2>3. Regular(r)
    BY <2>1, <2>2 DEF Regular, ValidRequest
  <2> QED BY <2>1, <2>3 DEF InRange, r
<1>3. ASSUME Each(toPeer, InRange), Each(toClient, InRange)
      PROVE  Each(toPeer', InRange) /\ Each(toClient', InRange)
  BY <1>2, <1>3, EachPeer
<1> QED BY <1>1, <1>3 DEF RangeInv

LEMMA RangeReceive ==
  ASSUME TypeInv, RangeInv, ReceivePiece
  PROVE  RangeInv'
<1> DEFINE m == Head(toClient)
           off == m.begin + m.length
<1>1. /\ pc = "recv" /\ toClient # <<>> /\ m.type = "piece"
      /\ piece' = m.index /\ pc' \in {"save", "reply"}
      /\ offset' = IF PieceEnds(m.index, off) THEN 0 ELSE off
  BY DEF ReceivePiece, Receives
<1>2. m \in Pieces /\ ValidRequest(m) /\ m \in InRange
  BY <1>1, MessageTypes DEF TypeInv, TypeOK, RangeInv, Each
<1>3. /\ m.index \in 0..(NumPieces - 1) /\ m.index * PieceLength \in Nat
      /\ m.begin \in Nat /\ m.length \in Nat \ {0} /\ off <= PieceSize(m.index)
  BY <1>2, BlockFits DEF Pieces
<1>4. Regular(m)
  BY <1>2, <1>3 DEF InRange
<1>5. PICK c \in Nat : m.begin = c * SizeRecv
  BY <1>4 DEF Regular
<1>6. PieceSize(m.index) \in 1..PieceLength
      /\ (\/ m.index * PieceLength + PieceSize(m.index) = FileLength
          \/ m.index * PieceLength + PieceSize(m.index) = (m.index + 1) * PieceLength)
  BY <1>3, PieceInTorrent
<1>7. CASE PieceEnds(m.index, off)
  <2>1. offset' = 0 * SizeRecv /\ offset' < PieceSize(piece')
    BY <1>1, <1>6, <1>7, BoundsType
  <2> QED BY <1>1, <2>1 DEF RangeInv
<1>8. CASE ~PieceEnds(m.index, off)
  <2> DEFINE at == m.index * PieceLength
             size == PieceSize(m.index)
             b == m.begin
             l == m.length
  <2>1. /\ at \in Nat /\ size \in Nat /\ b \in Nat /\ l \in Nat /\ b + l <= size
        /\ b + l # PieceLength /\ at + (b + l) # FileLength
        /\ at + size = FileLength \/ at + size = (m.index + 1) * PieceLength
    BY <1>3, <1>6, <1>8, BoundsType DEF PieceEnds
  <2>2. l = SizeRecv \/ at + b + l = FileLength
    BY <1>4 DEF Regular
  <2>3. (m.index + 1) * PieceLength = at + PieceLength
    BY <1>3, BoundsType
  <2> HIDE DEF at, size, b, l
  <2>4. l = SizeRecv /\ b + l < size
    BY <2>1, <2>2, <2>3, BoundsType
  <2>5. b + l = (c + 1) * SizeRecv
    <3>1. (c + 1) * SizeRecv = c * SizeRecv + SizeRecv
      BY BoundsType
    <3> QED BY <1>5, <2>4, <3>1 DEF b
  <2>6. offset' = b + l
    BY <1>1, <1>8 DEF b, l
  <2>7. offset' = (c + 1) * SizeRecv /\ offset' < PieceSize(piece')
    BY <1>1, <2>4, <2>5, <2>6 DEF size
  <2> QED BY <1>1, <2>7 DEF RangeInv
<1> QED BY <1>7, <1>8

LEMMA RangeClient ==
  ASSUME WholeBlocks, TypeInv, DownloadInv, BufferInv, RangeInv, ClientNext
  PROVE  RangeInv'
<1>1. ThreadInv /\ AskedInv /\ DiskInv
  BY DEF DownloadInv
<1>2. CASE ReceivePiece
  BY <1>2, RangeReceive
<1>3. CASE SavePiece
  <2>1. pc = "save" /\ offset' = 0 /\ UNCHANGED piece /\ pc' \in {"save", "reply"}
    BY <1>3 DEF SavePiece, SaveSkip, SaveFill, SaveRest, SaveEnds, Saving, saveVars, BufferInv
  <2>2. piece \in 0..(NumPieces - 1)
    BY <1>1, <2>1 DEF DiskInv, SavingInv
  <2>3. offset' = 0 * SizeRecv /\ offset' < PieceSize(piece')
    BY <2>1, <2>2, PieceInTorrent, BoundsType
  <2> QED BY <2>1, <2>3 DEF RangeInv
<1>4. CASE pc' \in {"handshake", "recv"}
  <2>1. ASSUME pc = "recv" PROVE Request(requested_piece, 0, SizeRecv) \in InRange
    <3> DEFINE r == Request(requested_piece, 0, SizeRecv)
    <3>1. /\ r \in Requests /\ r.index = requested_piece /\ r.begin = 0
          /\ r.length = SizeRecv
      BY BoundsType DEF Requests, Request, TypeInv, TypeOK
    <3> HIDE DEF r
    <3>2. CASE requested_piece # -1
      <4>1. requested_piece \in 0..(NumPieces - 1)
        BY <1>1, <2>1, <3>2 DEF DiskInv, Settled
      <4>2. PieceSize(requested_piece) >= SizeRecv /\ PieceSize(requested_piece) \in Nat
        BY <4>1, PieceInTorrent DEF WholeBlocks
      <4>3. ValidRequest(r)
        BY <3>1, <4>1, <4>2, BoundsType DEF ValidRequest
      <4>4. r.begin = 0 * SizeRecv
        BY <3>1, BoundsType
      <4> QED BY <3>1, <4>3, <4>4 DEF InRange, Regular, r
    <3> QED BY <3>1, <3>2 DEF InRange, r
  <2>2. ASSUME Reply, requested_piece' >= 0
        PROVE  Request(requested_piece', offset, SizeToReceive) \in InRange
    <3> DEFINE q == requested_piece'
               l == SizeToReceive
               r == Request(q, offset, l)
    <3>1. /\ pc = "reply" /\ q = CheckNextPiece(disk)
      BY <2>2 DEF Reply
    <3>2. /\ piece \in 0..(NumPieces - 1) /\ offset < PieceSize(piece)
          /\ offset > 0 => Settled(piece)
      BY <3>1 DEF BufferInv, RangeInv
    <3>3. PICK c \in Nat : offset = c * SizeRecv
      BY <3>1 DEF RangeInv
    <3>4. /\ offset \in Nat /\ l \in Nat \ {0} /\ offset + l <= PieceSize(piece)
          /\ l = SizeRecv \/ piece * PieceLength + offset + l = FileLength
          /\ offset = 0 => l = SizeRecv
      BY <3>2, <3>3, BlockBehind DEF SizeToReceive
    <3>5. PICK p \in (-1)..(NumPieces - 1) : Settled(p)
      BY <1>1, <3>1 DEF DiskInv
    <3>6. q = p /\ p \in 0..(NumPieces - 1)
      BY <2>2, <3>1, <3>5, SettledIsNext
    <3>7. offset > 0 => q = piece
      <4>1. PICK p2 \in (-1)..(NumPieces - 1) : p2 = piece
        BY <3>2
      <4> QED BY <3>1, <3>2, <4>1, SettledIsNext
    <3> HIDE DEF q, l
    <3>8. r \in Requests /\ r.index = q /\ r.begin = offset /\ r.length = l
      BY <3>4, <3>6 DEF Requests, Request
    <3> HIDE DEF r
    <3>9. /\ offset + l <= PieceSize(q)
          /\ l = SizeRecv \/ q * PieceLength + offset + l = FileLength
      <4>1. CASE offset = 0
        BY <3>4, <3>6, <4>1, BoundsType DEF WholeBlocks
      <4>2. CASE offset > 0
        BY <3>4, <3>7, <4>2
      <4> QED BY <3>4, <4>1, <4>2
    <3>10. Regular(r)
      BY <3>3, <3>4, <3>6, <3>8, <3>9 DEF Regular, ValidRequest
    <3> QED BY <3>8, <3>10 DEF InRange, r, q, l
  <2>3. pc \in {"handshake", "recv"} => Each(toPeer, InRange) /\ Each(toClient, InRange)
    BY DEF RangeInv
  <2>4. Each(toPeer', InRange) /\ Each(toClient', InRange)
    BY <1>1, <1>4, <2>1, <2>2, <2>3, EachClient
  <2> QED BY <1>4, <2>4 DEF RangeInv
<1>5. CASE pc' \notin {"handshake", "recv", "reply"}
  BY <1>5 DEF RangeInv
<1>6. ASSUME pc' = "reply" PROVE ReceivePiece \/ SavePiece
  BY <1>6 DEF ClientNext, StartUp, MessageLoop, Stop, ParseTorrent, Connect,
     ConnectFails, HandshakeOk, ReceiveIgnored, DrainMessage, ReceiveUnchoke,
     ReceiveBitfield, Receives, Reply, GiveUp, SocketError, Killed, Restart,
     clientVars
<1> QED BY <1>2, <1>3, <1>4, <1>5, <1>6

LEMMA RangeInit == Init => RangeInv
BY DEF Init, ClientInit, RangeInv

LEMMA RangeNext ==
  ASSUME WholeBlocks, TypeInv, DownloadInv, BufferInv, RangeInv, [Next]_vars
  PROVE  RangeInv'
<1>1. CASE UNCHANGED vars
  BY <1>1 DEF vars, wireVars, linkVars, clientVars, saveVars, RangeInv, Each
<1> QED BY <1>1, RangePeer, RangeClient DEF Next

(***************************************************************************)
(* Where pieces are of whole blocks and the last is not shorter than one,  *)
(* no request but that of piece -1 reaches past the end of its piece,      *)
(* though its length is computed for the piece before.                     *)
(***************************************************************************)
THEOREM RequestsInRangeHolds ==
  ASSUME Orderly, WholeBlocks PROVE Spec => []RequestsInRange
<1>1. TypeInv /\ DownloadInv /\ RangeInv => RequestsInRange
  <2> SUFFICES ASSUME TypeInv, DownloadInv, RangeInv, NEW k \in DOMAIN toPeer,
                      toPeer[k].type = "request", toPeer[k].index # -1
               PROVE  ValidRequest(toPeer[k])
    BY DEF RequestsInRange
  <2>1. pc \in {"handshake", "recv"}
    <3>1. ~None(toPeer) /\ toPeer # <<>>
      BY DEF None, Driving, Drives
    <3> QED BY <3>1 DEF DownloadInv, ThreadInv, TypeInv, TypeOK, PCs
  <2>2. toPeer[k] \in InRange
    BY <2>1 DEF RangeInv, Each
  <2> QED BY <2>2 DEF InRange, Regular
<1>2. TypeInv /\ DownloadInv /\ BufferInv /\ RangeInv /\ [Next]_vars => RangeInv'
  BY RangeNext
<1> QED BY <1>1, <1>2, TypeCorrect, InvHolds, BufferInit, BufferNext, RangeInit, PTL DEF Spec

-----------------------------------------------------------------------------
(* The refinement: how many pieces the files hold.                         *)

(* Every byte of the torrent is of a file. *)
LEMMA FileOfByte ==
  ASSUME NEW b \in 0..(FileLength - 1)
  PROVE  \E f \in Files : Bounds[f] <= b /\ b < Bounds[f + 1]
<1> DEFINE S == {f \in 1..(NumFiles + 1) : b < Bounds[f]}
<1>1. S \subseteq Nat /\ S # {}
  <2>1. NumFiles + 1 \in S
    BY BoundsType DEF FileLength
  <2> QED BY <2>1, BoundsType
<1>2. PICK m \in S : \A k \in S : m <= k
  BY <1>1, NatMinimum
<1>3. m # 1
  BY TorrentAssumption
<1>4. m - 1 \in Files /\ (m - 1) + 1 = m
  BY <1>3, BoundsType DEF Files
<1>5. m - 1 \notin S
  BY <1>1, <1>2
<1>6. Bounds[m - 1] <= b
  BY <1>4, <1>5, BoundsType DEF Files
<1> QED BY <1>4, <1>6

(* Of a prefix, exactly its bytes are on disk. *)
LEMMA OnDiskIs ==
  ASSUME NEW n \in Nat, DiskHolds(n), NEW b \in 0..(FileLength - 1)
  PROVE  OnDisk(b) <=> b < n
<1>1. ASSUME NEW f \in Files, Bounds[f] <= b, b < Bounds[f + 1]
      PROVE  Len(disk[FileName[f]]) > b - Bounds[f] <=> b < n
  <2>1. Len(disk[FileName[f]]) = Held(f, n)
    BY FileHolds
  <2> QED BY <1>1, <2>1, BoundsType DEF Held, Lesser, FileLen
<1>2. OnDisk(b) => b < n
  BY <1>1 DEF OnDisk
<1>3. ASSUME b < n PROVE OnDisk(b)
  <2>1. PICK f \in Files : Bounds[f] <= b /\ b < Bounds[f + 1]
    BY FileOfByte
  <2>2. Len(disk[FileName[f]]) > b - Bounds[f] /\ Len(disk[FileName[f]]) = Held(f, n)
    BY <1>1, <1>3, <2>1, FileHolds
  <2>3. b - Bounds[f] + 1 \in 1..Held(f, n)
    <3>1. Held(f, n) \in Nat /\ Bounds[f] \in Nat
      BY HeldFacts, BoundsType
    <3>2. Held(f, n) > b - Bounds[f]
      BY <2>2
    <3> QED BY <2>1, <3>1, <3>2
  <2>4. disk[FileName[f]][b - Bounds[f] + 1] = Bounds[f] + (b - Bounds[f] + 1) - 1
    BY <2>3, FileHolds
  <2> QED BY <2>1, <2>2, <2>4, BoundsType DEF OnDisk
<1> QED BY <1>2, <1>3

(* The files hold the first k pieces, and not the one after them. *)
Stored(k) ==
  \E n \in 0..FileLength :
    /\ DiskHolds(n)
    /\ k = NumPieces => n = FileLength
    /\ k # NumPieces => k * PieceLength <= n /\ n < k * PieceLength + PieceSize(k)

LEMMA StoredIs ==
  ASSUME NEW k \in 0..NumPieces, Stored(k)
  PROVE  Cardinality(StoredPieces) = k
<1>1. /\ NumPieces \in Nat /\ PieceLength \in Nat \ {0} /\ FileLength \in Nat
  BY BoundsType DEF NumPieces
<1>2. PICK n \in 0..FileLength :
        /\ DiskHolds(n)
        /\ k = NumPieces => n = FileLength
        /\ k # NumPieces => k * PieceLength <= n /\ n < k * PieceLength + PieceSize(k)
  BY DEF Stored
<1>3. ASSUME NEW p \in 0..(NumPieces - 1)
      PROVE  PieceOnDisk(p) <=> p * PieceLength + PieceSize(p) <= n
  <2> DEFINE at == p * PieceLength
             size == PieceSize(p)
  <2>1. at \in Nat /\ size \in Nat \ {0} /\ at + size <= FileLength
    BY <1>1, PieceInTorrent
  <2> HIDE DEF at, size
  <2>2. \A b \in at..(at + size - 1) : OnDisk(b) <=> b < n
    <3>1. \A b \in at..(at + size - 1) : b \in 0..(FileLength - 1)
      BY <1>1, <2>1
    <3> QED BY <1>1, <1>2, <3>1, OnDiskIs
  <2>3. (\A b \in at..(at + size - 1) : b < n) <=> at + size <= n
    <3>1. at + size - 1 \in at..(at + size - 1)
      BY <2>1
    <3> QED BY <1>1, <2>1, <3>1
  <2> QED BY <2>2, <2>3 DEF PieceOnDisk, at, size
<1>4. ASSUME NEW p \in 0..(k - 1) PROVE p \in 0..(NumPieces - 1) /\ PieceOnDisk(p)
  <2>1. p \in 0..(NumPieces - 1)
    BY <1>1
  <2>2. /\ p * PieceLength \in Nat /\ PieceSize(p) \in 1..PieceLength
        /\ p * PieceLength + PieceSize(p) <= FileLength
    BY <2>1, PieceInTorrent
  <2>3. p * PieceLength + PieceSize(p) <= n
    <3>1. CASE k = NumPieces
      BY <1>2, <2>2, <3>1
    <3>2. CASE k # NumPieces
      <4>1. p + 1 <= k /\ p + 1 \in Nat
        BY <1>1
      <4>2. (p + 1) * PieceLength <= k * PieceLength
        BY <1>1, <4>1
      <4>3. (p + 1) * PieceLength = p * PieceLength + PieceLength
        BY <1>1
      <4>4. k * PieceLength \in Nat
        BY <1>1
      <4>5. k * PieceLength <= n
        BY <1>2, <3>2
      <4> QED BY <1>1, <2>2, <4>2, <4>3, <4>4, <4>5
    <3> QED BY <3>1, <3>2
  <2> QED BY <1>3, <2>1, <2>3
<1>5. k # NumPieces => k \in 0..(NumPieces - 1) /\ ~PieceOnDisk(k)
  <2> SUFFICES ASSUME k # NumPieces PROVE k \in 0..(NumPieces - 1) /\ ~PieceOnDisk(k)
    OBVIOUS
  <2>1. k \in 0..(NumPieces - 1)
    BY <1>1
  <2>2. k * PieceLength \in Nat /\ PieceSize(k) \in Nat
    BY <2>1, PieceInTorrent
  <2>3. ~(k * PieceLength + PieceSize(k) <= n)
    BY <1>1, <1>2, <2>2
  <2> QED BY <1>3, <2>1, <2>3
<1>6. StoredPieces = 0..(k - 1)
  <2>1. ASSUME NEW p \in 0..(k - 1) PROVE p \in StoredPieces
    <3>1. \A q \in 0..p : q \in 0..(k - 1)
      BY <1>1
    <3> QED BY <1>4, <3>1 DEF StoredPieces
  <2>2. ASSUME NEW p \in StoredPieces PROVE p \in 0..(k - 1)
    <3>1. p \in 0..(NumPieces - 1) /\ \A q \in 0..p : PieceOnDisk(q)
      BY DEF StoredPieces
    <3>2. ASSUME k <= p PROVE FALSE
      <4>1. k # NumPieces /\ k \in 0..p
        BY <1>1, <3>1, <3>2
      <4> QED BY <1>5, <3>1, <4>1
    <3> QED BY <1>1, <3>1, <3>2
  <2> QED BY <2>1, <2>2
<1>7. Cardinality(0..(k - 1)) = IF 0 > k - 1 THEN 0 ELSE (k - 1) - 0 + 1
  BY FS_Interval
<1> QED BY <1>6, <1>7

LEMMA SettledIsStored ==
  ASSUME NEW p \in (-1)..(NumPieces - 1), Settled(p)
  PROVE  IF p = -1 THEN Stored(NumPieces) ELSE Stored(p)
<1>1. NumPieces \in Nat /\ FileLength \in 0..FileLength
  BY BoundsType DEF NumPieces
<1>2. CASE p = -1
  BY <1>1, <1>2 DEF Settled, Stored
<1>3. CASE p # -1
  <2>1. p \in 0..(NumPieces - 1) /\ DiskHolds(p * PieceLength)
    BY <1>3 DEF Settled
  <2>2. /\ p * PieceLength \in Nat /\ p * PieceLength < FileLength
        /\ PieceSize(p) \in 1..PieceLength
    BY <2>1, PieceInTorrent
  <2>3. p * PieceLength \in 0..FileLength /\ p # NumPieces
    BY <1>1, <2>1, <2>2
  <2>4. p * PieceLength < p * PieceLength + PieceSize(p)
    BY <2>2
  <2>5. Stored(p)
    BY <2>1, <2>2, <2>3, <2>4 DEF Stored
  <2> QED BY <1>3, <2>5
<1> QED BY <1>2, <1>3

(* Within save_piece the piece that is saved does not count yet. *)
LEMMA SavingIsStored ==
  ASSUME TypeInv, SavingInv
  PROVE  piece \in 0..(NumPieces - 1) /\ Stored(piece)
<1> DEFINE at == piece * PieceLength
           size == PieceSize(piece)
           n == at + index
<1>1. /\ piece \in 0..(NumPieces - 1) /\ bytes_to_write > 0 /\ DiskHolds(n)
      /\ index + bytes_to_write = size
      /\ index \in Nat /\ bytes_to_write \in Nat
  BY DEF SavingInv, TypeInv, TypeOK
<1>2. at \in Nat /\ size \in Nat /\ at + size <= FileLength /\ FileLength \in Nat
  BY <1>1, PieceInTorrent, BoundsType
<1>3. piece # NumPieces
  BY <1>1, BoundsType DEF NumPieces
<1> HIDE DEF at, size
<1>4. n \in 0..FileLength /\ at <= n /\ n < at + size
  BY <1>1, <1>2
<1>5. Stored(piece)
  BY <1>1, <1>3, <1>4 DEF Stored, at, size
<1> QED BY <1>1, <1>5

(* Both facts hold of the files before a step and behind it.               *)
Counted ==
  /\ \A k \in 0..NumPieces : Stored(k) => Cardinality(StoredPieces) = k
  /\ TypeInv /\ SavingInv => Cardinality(StoredPieces) = piece

LEMMA CountedHolds == Counted
<1>1. \A k \in 0..NumPieces : Stored(k) => Cardinality(StoredPieces) = k
  BY StoredIs
<1>2. TypeInv /\ SavingInv => piece \in 0..NumPieces /\ Stored(piece)
  BY SavingIsStored, BoundsType DEF NumPieces
<1> QED BY <1>1, <1>2 DEF Counted

LEMMA CountedThen == Counted'
BY CountedHolds, PTL

LEMMA StoredInit == Init => AbstractFetch!Init
<1> SUFFICES ASSUME Init PROVE AbstractFetch!Init
  OBVIOUS
<1>1. Settled(0) /\ 0 \in (-1)..(NumPieces - 1)
  <2>1. DiskHolds(0)
    <3> SUFFICES ASSUME NEW f \in Files
                 PROVE  disk[FileName[f]] = [k \in 1..Held(f, 0) |-> Bounds[f] + k - 1]
      BY DEF DiskHolds
    <3>1. Held(f, 0) = 0
      BY HeldFacts, BoundsType
    <3>2. disk[FileName[f]] = <<>>
      BY BoundsType DEF Init, ClientInit
    <3> QED BY <3>1, <3>2
  <2> QED BY <2>1, NothingSettled DEF Settled
<1>2. Stored(0) /\ 0 \in 0..NumPieces
  BY <1>1, SettledIsStored, BoundsType DEF NumPieces
<1>3. Cardinality(StoredPieces) = 0
  BY <1>2, StoredIs
<1> QED BY <1>3 DEF AbstractFetch!Init, Init, ClientInit

(* What is stored depends on the files alone. *)
LEMMA StoredUnchanged ==
  ASSUME UNCHANGED disk
  PROVE  StoredPieces' = StoredPieces
BY DEF StoredPieces, PieceOnDisk, OnDisk

(* The last append of a piece stores it; the others store none. *)
LEMMA StoredSavePiece ==
  ASSUME Orderly, TypeInv, TypeInv', DownloadInv, DownloadInv', SavePiece
  PROVE  AbstractFetch!StorePiece \/ UNCHANGED AbstractFetch!vars
<1>1. /\ pc = "save" /\ SavingInv /\ ret # 1 /\ ret' = ret /\ piece' = piece
  BY DEF SavePiece, SaveSkip, SaveFill, SaveRest, SaveEnds, Saving, saveVars,
     DownloadInv, DiskInv
<1>2. NumPieces \in Nat /\ PieceLength \in Nat \ {0} /\ FileLength \in Nat
  BY BoundsType DEF NumPieces
<1>3. PICK p \in 0..(NumPieces - 1) : p = piece
  BY <1>1 DEF SavingInv
<1>4. Cardinality(StoredPieces) = p
  BY <1>1, <1>3, CountedHolds DEF Counted
<1>5. CASE pc' = "save"
  <2>1. SavingInv'
    BY <1>5 DEF DownloadInv, DiskInv
  <2>2. Cardinality(StoredPieces)' = piece'
    BY <2>1, CountedThen DEF Counted
  <2> QED BY <1>1, <1>3, <1>4, <2>2 DEF AbstractFetch!vars
<1>6. CASE SaveRest
  <2>1. DiskHolds(p * PieceLength + PieceSize(p))'
    <3>1. DiskHolds(piece * PieceLength + PieceSize(piece))'
      BY <1>6, DiskSaveRest DEF DownloadInv
    <3> QED BY <1>1, <1>3, <3>1 DEF DiskHolds
  <2> DEFINE n == p * PieceLength + PieceSize(p)
  <2>2. /\ p * PieceLength \in Nat /\ PieceSize(p) \in 1..PieceLength
        /\ n \in 0..FileLength
        /\ n = FileLength \/ n = (p + 1) * PieceLength
    BY <1>2, PieceInTorrent
  <2>3. p + 1 = NumPieces => n = FileLength
    <3> SUFFICES ASSUME p + 1 = NumPieces, n # FileLength PROVE FALSE
      OBVIOUS
    <3>1. n = (p + 1) * PieceLength /\ n < FileLength
      BY <1>2, <2>2
    <3>2. (p + 1) * PieceLength < FileLength => p + 1 < NumPieces
      BY <1>2 DEF NumPieces
    <3> QED BY <1>2, <3>1, <3>2
  <2>4. ASSUME p + 1 # NumPieces
        PROVE  (p + 1) * PieceLength <= n /\ n < (p + 1) * PieceLength + PieceSize(p + 1)
    <3>1. p + 1 \in 0..(NumPieces - 1)
      BY <1>2, <2>4
    <3>2. /\ (p + 1) * PieceLength \in Nat /\ (p + 1) * PieceLength < FileLength
          /\ PieceSize(p + 1) \in 1..PieceLength
      BY <3>1, PieceInTorrent
    <3>3. (p + 1) * PieceLength = p * PieceLength + PieceLength
      BY <1>2
    <3>4. n = (p + 1) * PieceLength
      BY <1>2, <2>2, <3>2, <3>3
    <3> QED BY <1>2, <3>2, <3>4
  <2> HIDE DEF n
  <2>5. Stored(p + 1)' /\ p + 1 \in 0..NumPieces
    <3>1. DiskHolds(n)'
      BY <2>1 DEF n, DiskHolds
    <3> QED BY <1>2, <2>2, <2>3, <2>4, <3>1 DEF Stored
  <2>6. Cardinality(StoredPieces)' = p + 1
    <3>1. \A k \in 0..NumPieces : Stored(k)' => Cardinality(StoredPieces)' = k
      BY CountedThen DEF Counted
    <3> QED BY <2>5, <3>1
  <2> QED BY <1>1, <1>2, <1>4, <2>6 DEF AbstractFetch!StorePiece
<1>7. CASE SaveEnds
  BY <1>1, <1>7, StoredUnchanged DEF SaveEnds, AbstractFetch!vars
<1> QED BY <1>1, <1>5, <1>6, <1>7 DEF SavePiece, SaveSkip, SaveFill

(* The result 1 reports that every piece is stored. *)
LEMMA StoredReply ==
  ASSUME DownloadInv, Reply
  PROVE  AbstractFetch!Report \/ UNCHANGED AbstractFetch!vars
<1>1. /\ pc = "reply" /\ UNCHANGED disk /\ requested_piece' = CheckNextPiece(disk)
      /\ ret # 1
  BY DEF Reply, DownloadInv, DiskInv
<1>2. PICK p \in (-1)..(NumPieces - 1) : Settled(p)
  BY <1>1 DEF DownloadInv, DiskInv
<1>3. requested_piece' = p
  BY <1>1, <1>2, SettledIsNext
<1>4. CASE p >= 0
  BY <1>1, <1>3, <1>4, StoredUnchanged DEF Reply, AbstractFetch!vars
<1>5. CASE p = -1
  <2>1. ret' = 1
    BY <1>3, <1>5 DEF Reply
  <2>2. Stored(NumPieces) /\ NumPieces \in 0..NumPieces
    BY <1>2, <1>5, SettledIsStored, BoundsType DEF NumPieces
  <2>3. Cardinality(StoredPieces) = NumPieces
    BY <2>2, StoredIs
  <2> QED BY <1>1, <2>1, <2>3, StoredUnchanged DEF AbstractFetch!Report
<1> QED BY <1>2, <1>4, <1>5

LEMMA StoredNext ==
  ASSUME Orderly, TypeInv, TypeInv', DownloadInv, DownloadInv', [Next]_vars
  PROVE  [AbstractFetch!Next]_AbstractFetch!vars
<1>1. CASE SavePiece
  BY <1>1, StoredSavePiece DEF AbstractFetch!Next
<1>2. CASE Reply
  BY <1>2, StoredReply DEF AbstractFetch!Next
<1>3. CASE Restart
  BY <1>3, StoredUnchanged
     DEF Restart, AbstractFetch!Next, AbstractFetch!Forget, AbstractFetch!vars
<1>4. CASE UNCHANGED <<disk, ret>>
  BY <1>4, StoredUnchanged DEF AbstractFetch!vars
<1>5. CASE Stop
  <2>1. UNCHANGED disk /\ pc # "exit" /\ (ret' = ret \/ ret' = 0)
    BY <1>5 DEF Stop, GiveUp, SocketError, Killed, Disturb, Orderly
  <2>2. ret # 1 /\ ret' # 1
    BY <2>1 DEF DownloadInv, DiskInv
  <2> QED BY <2>1, <2>2, StoredUnchanged DEF AbstractFetch!vars
<1>6. ASSUME StartUp \/ ReceiveIgnored \/ DrainMessage \/ ReceiveUnchoke
               \/ ReceiveBitfield \/ ReceivePiece
      PROVE  UNCHANGED <<disk, ret>>
  BY <1>6 DEF StartUp, ParseTorrent, Connect, ConnectFails, HandshakeOk, ReceiveIgnored,
     DrainMessage, ReceiveUnchoke, ReceiveBitfield, ReceivePiece, clientVars
<1>7. CASE UNCHANGED vars \/ UNCHANGED clientVars
  BY <1>4, <1>7 DEF vars, clientVars
<1> QED BY <1>1, <1>2, <1>3, <1>4, <1>5, <1>6, <1>7 DEF Next, ClientNext, MessageLoop

(***************************************************************************)
(* The download implements Fetch, for every torrent: pieces come to be on  *)
(* disk one by one and in order, none is lost over crashes and restarts,   *)
(* and the result 1 is given only when all are there.                      *)
(***************************************************************************)
THEOREM DownloadImplementsFetch == ASSUME Orderly PROVE Spec => ImplementsFetch
<1>1. Spec => [][AbstractFetch!Next]_(AbstractFetch!vars)
  <2>1. TypeInv /\ TypeInv' /\ DownloadInv /\ DownloadInv' /\ [Next]_vars
          => [AbstractFetch!Next]_AbstractFetch!vars
    BY StoredNext
  <2> QED BY <2>1, TypeCorrect, InvHolds, PTL DEF Spec
<1> QED BY <1>1, StoredInit, PTL DEF Spec, ImplementsFetch, AbstractFetch!Spec
=============================================================================
