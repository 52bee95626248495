------------------------------- MODULE Receive -------------------------------
(***************************************************************************)
(* How handshake_message and process_message_loop cut the byte stream of   *)
(* the connection into messages.  A read returns what has arrived, up to   *)
(* what was asked for; the loop never asks again for the rest of a header, *)
(* and reads the rest of a body only to throw it away.                     *)
(*                                                                         *)
(* A byte of the stream is its position.  What the bytes of a body say is  *)
(* the subject of module Client, which takes each message as one step.     *)
(* A body is read into recv whatever its size: a read that returns more    *)
(* than recv holds leaves the run "undefined", and nothing is said of what *)
(* follows.                                                                *)
(***************************************************************************)
EXTENDS Integers, Sequences

CONSTANTS
  HandshakeSize,  \* pstrlen + 49
  HeaderSize,     \* the bytes of a message's size
  RecvSize,       \* 2048: what recv holds
  NumMessages,    \* how many messages the peer sends after its handshake
  Start,          \* message m begins at byte Start[m] of the stream
  Size,           \* the length of its body
  CloseAt         \* how much the peer may have sent when it closes

LargestInt == 2147483647

(* A larger size is a negative int to the code: the peer sends none. *)
ASSUME ReceiveAssumption ==
  /\ HandshakeSize \in Nat \ {0}
  /\ HeaderSize \in Nat \ {0}
  /\ RecvSize \in Nat \ {0}
  /\ NumMessages \in Nat
  /\ Start \in [1..(NumMessages + 1) -> Nat]
  /\ Size \in [1..NumMessages -> 0..LargestInt]
  /\ Start[1] = HandshakeSize
  /\ \A m \in 1..NumMessages : Start[m + 1] = Start[m] + HeaderSize + Size[m]

Messages   == 1..NumMessages
StreamSize == Start[NumMessages + 1]

VARIABLES
  arrived,          \* the bytes of the stream that have reached the client
  link,             \* what has become of the peer's end
  consumed,         \* the bytes the client has read
  pc,               \* which read is next, or how the program has ended
  size_to_receive,  \* the bytes of the body still to read
  acted             \* the messages whose handler has run

netVars == <<arrived, link>>
vars == <<netVars, consumed, pc, size_to_receive, acted>>

Links   == {"open", "closed", "reset"}
Reading == {"handshake", "header", "body", "drain"}
Ended   == {"failed", "finished", "killed", "undefined"}

Init ==
  /\ arrived = 0
  /\ link = "open"
  /\ consumed = 0
  /\ pc = "handshake"
  /\ size_to_receive = 0
  /\ acted = <<>>

-----------------------------------------------------------------------------
(* The network and the peer. *)

Arrive ==
  /\ link = "open"
  /\ \E n \in (arrived + 1)..StreamSize : arrived' = n
  /\ UNCHANGED <<link, consumed, pc, size_to_receive, acted>>

Close ==
  /\ link = "open"
  /\ arrived \in CloseAt
  /\ link' = "closed"
  /\ UNCHANGED <<arrived, consumed, pc, size_to_receive, acted>>

Reset ==
  /\ link = "open"
  /\ link' = "reset"
  /\ UNCHANGED <<arrived, consumed, pc, size_to_receive, acted>>

-----------------------------------------------------------------------------
(* The program: the reads of uclreceive. *)

Lesser(a, b) == IF a <= b THEN a ELSE b

(* read(2) waits for a byte or the end of the stream; uclreceive(buf, max) *)
(* returns n, which is less than max when fewer bytes are there.           *)
Read(max, n) ==
  /\ arrived > consumed \/ link = "closed"
  /\ n = Lesser(max, arrived - consumed)
  /\ consumed' = consumed + n
  /\ UNCHANGED netVars

(* uclreceive finds the connection reset, and error() ends the program. *)
ReadError ==
  /\ pc \in Reading
  /\ link = "reset"
  /\ pc' = "killed"
  /\ UNCHANGED <<netVars, consumed, size_to_receive, acted>>

ReceiveHandshake ==
  /\ pc = "handshake"
  /\ \E n \in 0..HandshakeSize :
       /\ Read(HandshakeSize, n)
       /\ pc' = IF n = HandshakeSize THEN "header" ELSE "failed"
  /\ UNCHANGED <<size_to_receive, acted>>

(* The size just read, consumed' bytes into the stream, is message m's.  *)
(* InSync says that there is such an m whenever a header is read.        *)
SizeOf(m) ==
  /\ Start[m] = consumed
  /\ size_to_receive' = Size[m]
  /\ pc' = IF Size[m] = 0 THEN "header" ELSE "body"

(* Mutant: a size that is not whole is asked for again. *)
ReceiveHeaderAgain ==
  /\ pc = "header"
  /\ \E n \in 0..HeaderSize :
       /\ Read(HeaderSize, n)
       /\ IF n = HeaderSize
            THEN \E m \in Messages : SizeOf(m)
            ELSE UNCHANGED <<pc, size_to_receive>>
  /\ UNCHANGED acted

ReceiveHeader ==
  /\ pc = "header"
  /\ \E n \in 0..HeaderSize :
       /\ Read(HeaderSize, n)
       /\ IF n = HeaderSize
            THEN \E m \in Messages : SizeOf(m)
            ELSE pc' = "failed" /\ UNCHANGED size_to_receive
  /\ UNCHANGED acted

(* The whole body of message m is read; the handler of the last piece says *)
(* that the download is finished.                                          *)
ActOn(m) ==
  /\ Start[m] + HeaderSize = consumed
  /\ acted' = Append(acted, m)
  /\ pc' \in {"header", "finished"}
  /\ UNCHANGED size_to_receive

(* No read asks whether recv holds what it may return. *)
Overflow ==
  /\ pc \in {"body", "drain"}
  /\ Lesser(size_to_receive, arrived - consumed) > RecvSize
  /\ pc' = "undefined"
  /\ UNCHANGED <<netVars, consumed, size_to_receive, acted>>

(* Mutant: a body is acted on however much of it came. *)
ReceiveBodyAnyway ==
  /\ pc = "body"
  /\ \E n \in 0..size_to_receive :
       /\ n <= RecvSize /\ Read(size_to_receive, n)
       /\ \E m \in Messages : ActOn(m)

ReceiveBody ==
  /\ pc = "body"
  /\ \E n \in 0..size_to_receive :
       /\ n <= RecvSize /\ Read(size_to_receive, n)
       /\ \/ n = size_to_receive /\ \E m \in Messages : ActOn(m)
          \/ /\ n \in 1..(size_to_receive - 1)
             /\ size_to_receive' = size_to_receive - n
             /\ pc' = "drain"
             /\ UNCHANGED acted
          \/ /\ n = 0
             /\ pc' = "failed"
             /\ UNCHANGED <<size_to_receive, acted>>

(* Mutants: the drain reads on into the next message; one read is enough. *)
DrainAll ==
  /\ pc = "drain"
  /\ \E n \in 0..StreamSize :
       /\ n <= RecvSize /\ Read(StreamSize, n)
       /\ size_to_receive' = size_to_receive - n
       /\ pc' = IF size_to_receive' > 0 THEN "drain" ELSE "header"
  /\ UNCHANGED acted
DrainOnce ==
  /\ pc = "drain"
  /\ \E n \in 0..size_to_receive :
       /\ n <= RecvSize /\ Read(size_to_receive, n)
       /\ size_to_receive' = size_to_receive - n
       /\ pc' = "header"
  /\ UNCHANGED acted

(* The loop "receiving a DHT hash table".  At the end of the stream a read *)
(* returns 0 and the loop goes round unchanged.                            *)
Drain ==
  /\ pc = "drain"
  /\ \E n \in 0..size_to_receive :
       /\ n <= RecvSize /\ Read(size_to_receive, n)
       /\ size_to_receive' = size_to_receive - n
       /\ pc' = IF size_to_receive' > 0 THEN "drain" ELSE "header"
  /\ UNCHANGED acted

ClientReads == \/ ReceiveHandshake \/ ReceiveHeader \/ ReceiveBody
               \/ Drain \/ Overflow \/ ReadError

Next == Arrive \/ Close \/ Reset \/ ClientReads
Spec == Init /\ [][Next]_vars

(* The program is scheduled; the network and the peer owe it nothing. *)
FairSpec == Spec /\ WF_vars(ClientReads)

-----------------------------------------------------------------------------
TypeOK ==
  /\ arrived \in 0..StreamSize
  /\ link \in Links
  /\ consumed \in 0..arrived
  /\ pc \in Reading \cup Ended
  /\ size_to_receive \in Nat
  /\ acted \in Seq(Messages)

(***************************************************************************)
(* However reads cut the stream, the four bytes the loop takes for a size  *)
(* are the size of a message: a read that came short never leaves the loop *)
(* in the middle of one.                                                   *)
(***************************************************************************)
InSync == pc = "header" => \E m \in 1..(NumMessages + 1) : consumed = Start[m]

(* The message under way, and what is left of its body. *)
Underway(m) ==
  /\ pc = "body"  => consumed = Start[m] + HeaderSize
  /\ pc = "drain" => consumed > Start[m] + HeaderSize
  /\ size_to_receive > 0
  /\ consumed + size_to_receive = Start[m + 1]

ReceiveInv ==
  /\ InSync
  /\ pc = "handshake" => consumed = 0
  /\ pc \in {"body", "drain"} => \E m \in Messages : Underway(m)

(***************************************************************************)
(* The loop implements Inbox: whatever is cut, the handlers see whole      *)
(* messages, in order, none twice, and every message of one byte.          *)
(***************************************************************************)
Past == {m \in Messages : Start[m + 1] <= consumed}

Delivery == INSTANCE Inbox WITH
  past  <- Past,
  ended <- pc \in Ended

ImplementsInbox == Delivery!Spec

(***************************************************************************)
(* Lines 347 and 398 of bittorrent.c: once the peer's end is closed or     *)
(* reset the loop ends (and "close connection and return").                *)
(***************************************************************************)
Stops == (link # "open") ~> (pc \in Ended)

(***************************************************************************)
(* The one place where the loop may go on for ever is the drain, with      *)
(* nothing left to read.                                                   *)
(***************************************************************************)
StopsOrDrains ==
  (link # "open") ~> \/ pc \in Ended
                     \/ pc = "drain" /\ consumed = arrived
=============================================================================
