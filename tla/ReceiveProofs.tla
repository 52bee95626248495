---------------------------- MODULE ReceiveProofs ----------------------------
(***************************************************************************)
(* However the stream is cut, and whatever messages it carries whose size  *)
(* is no negative int, the loop stays in step with it, and implements      *)
(* Inbox, up to a read that returns more than recv holds.                  *)
(***************************************************************************)
EXTENDS Receive, Endian, TLAPS

(* The lemmas on the naturals; nothing is defined by this recursion. *)
LOCAL INSTANCE Recursion WITH Base <- 0, Step <- LAMBDA n, x : x

(* The messages lie one after the other in the stream. *)
LEMMA StartType ==
  /\ NumMessages \in Nat /\ HeaderSize \in Nat \ {0}
  /\ HandshakeSize \in Nat \ {0} /\ RecvSize \in Nat \ {0}
  /\ StreamSize \in Nat
  /\ Start[1] = HandshakeSize
  /\ \A m \in Messages :
       /\ Start[m] \in Nat /\ Start[m + 1] \in Nat /\ Size[m] \in Nat
       /\ Start[m + 1] = Start[m] + HeaderSize + Size[m]
BY ReceiveAssumption DEF Messages, StreamSize

(* An earlier message ends before a later one begins. *)
LEMMA StartOrder ==
  ASSUME NEW k \in Messages, NEW m \in 1..(NumMessages + 1), k < m
  PROVE  Start[k + 1] <= Start[m]
<1> DEFINE S == {d \in Nat : k + 1 + d <= NumMessages + 1
                               => Start[k + 1] <= Start[k + 1 + d]}
<1>1. 0 \in S
  <2>1. Start[k + 1] \in Nat
    BY StartType
  <2>2. k + 1 + 0 = k + 1
    BY StartType DEF Messages
  <2> QED BY <2>1, <2>2
<1>2. ASSUME NEW d \in Nat, d \in S
      PROVE  d + 1 \in S
  <2>1. SUFFICES ASSUME k + 1 + (d + 1) <= NumMessages + 1
                 PROVE  Start[k + 1] <= Start[k + 1 + (d + 1)]
    OBVIOUS
  <2>2. k + 1 + d \in Messages /\ (k + 1 + d) + 1 = k + 1 + (d + 1)
    BY <2>1, StartType DEF Messages
  <2>3. Start[k + 1] <= Start[k + 1 + d]
    BY <1>2, <2>1, StartType DEF Messages
  <2>4. Start[k + 1 + d] <= Start[k + 1 + (d + 1)]
    BY <2>2, StartType
  <2>5. Start[k + 1] \in Nat
    BY StartType
  <2> HIDE DEF S
  <2> QED BY <2>2, <2>3, <2>4, <2>5, StartType
<1>3. Nat \subseteq S
  <2> HIDE DEF S
  <2> QED BY <1>1, <1>2, NatSetInduction
<1>4. PICK d \in Nat : k + 1 + d = m
  <2>1. m - (k + 1) \in Nat /\ k + 1 + (m - (k + 1)) = m
    BY StartType DEF Messages
  <2> QED BY <2>1
<1>5. d \in S
  BY <1>3
<1> QED BY <1>4, <1>5, StartType

-----------------------------------------------------------------------------
(* What every step keeps. *)

LEMMA TypeInit == Init => TypeOK
BY StartType DEF Init, TypeOK, Links, Reading

(* A read takes what was asked for or all there is. *)
LEMMA ReadType ==
  ASSUME TypeOK, NEW max \in Nat, NEW n, Read(max, n)
  PROVE  /\ n \in 0..max
         /\ consumed' = consumed + n
         /\ consumed' \in 0..arrived'
         /\ arrived' \in 0..StreamSize
         /\ link' \in Links
         /\ n = 0 => max = 0 \/ arrived = consumed
BY StartType DEF TypeOK, Read, Lesser, netVars

LEMMA TypeNext == TypeOK /\ [Next]_vars => TypeOK'
<1> SUFFICES ASSUME TypeOK, [Next]_vars PROVE TypeOK'
  OBVIOUS
<1>1. CASE Arrive \/ Close \/ Reset
  BY <1>1, StartType DEF Arrive, Close, Reset, TypeOK, Links
<1>2. CASE ReceiveHandshake
  <2>1. PICK n \in 0..HandshakeSize :
          /\ Read(HandshakeSize, n)
          /\ pc' = IF n = HandshakeSize THEN "header" ELSE "failed"
    BY <1>2 DEF ReceiveHandshake
  <2> QED BY <1>2, <2>1, ReadType, StartType
          DEF ReceiveHandshake, TypeOK, Reading, Ended
<1>3. CASE ReceiveHeader
  <2>1. PICK n \in 0..HeaderSize : Read(HeaderSize, n)
    BY <1>3 DEF ReceiveHeader
  <2>2. pc' \in Reading \cup Ended /\ size_to_receive' \in Nat
    BY <1>3, StartType DEF ReceiveHeader, SizeOf, TypeOK, Reading, Ended
  <2>3. UNCHANGED acted
    BY <1>3 DEF ReceiveHeader
  <2> QED BY <2>1, <2>2, <2>3, ReadType, StartType DEF TypeOK
<1>4. CASE ReceiveBody
  <2>1. PICK n \in 0..size_to_receive :
          /\ Read(size_to_receive, n)
          /\ \/ n = size_to_receive /\ \E m \in Messages : ActOn(m)
             \/ /\ n \in 1..(size_to_receive - 1)
                /\ size_to_receive' = size_to_receive - n
                /\ pc' = "drain"
                /\ UNCHANGED acted
             \/ /\ n = 0
                /\ pc' = "failed"
                /\ UNCHANGED <<size_to_receive, acted>>
    BY <1>4 DEF ReceiveBody
  <2>2. size_to_receive \in Nat /\ acted \in Seq(Messages)
    BY DEF TypeOK
  <2>3. /\ pc' \in Reading \cup Ended /\ size_to_receive' \in Nat
        /\ acted' \in Seq(Messages)
    BY <2>1, <2>2 DEF ActOn, Reading, Ended
  <2> QED BY <2>1, <2>2, <2>3, ReadType DEF TypeOK
<1>5. CASE Drain
  <2>1. PICK n \in 0..size_to_receive :
          /\ Read(size_to_receive, n)
          /\ size_to_receive' = size_to_receive - n
          /\ pc' = IF size_to_receive' > 0 THEN "drain" ELSE "header"
    BY <1>5 DEF Drain
  <2>2. size_to_receive \in Nat
    BY DEF TypeOK
  <2>3. size_to_receive' \in Nat /\ pc' \in Reading
    BY <2>1, <2>2 DEF Reading
  <2> QED BY <1>5, <2>1, <2>2, <2>3, ReadType DEF Drain, TypeOK
<1>6. CASE ReadError
  BY <1>6 DEF ReadError, TypeOK, Ended, netVars
<1>7. CASE Overflow
  BY <1>7 DEF Overflow, TypeOK, Ended, netVars
<1>8. CASE UNCHANGED vars
  BY <1>8 DEF vars, netVars, TypeOK
<1> QED BY <1>1, <1>2, <1>3, <1>4, <1>5, <1>6, <1>7, <1>8 DEF Next, ClientReads

(***************************************************************************)
(* Type correctness: in particular no read takes more than is left of a    *)
(* body, so what is left never falls below 0 (the drain of line 389), for  *)
(* messages whose size is no negative int.                                 *)
(***************************************************************************)
THEOREM ReceiveTypes == Spec => []TypeOK
BY TypeInit, TypeNext, PTL DEF Spec

LEMMA InvInit == Init => ReceiveInv
BY DEF Init, ReceiveInv, InSync

LEMMA InvNext == TypeOK /\ ReceiveInv /\ [Next]_vars => ReceiveInv'
<1> SUFFICES ASSUME TypeOK, ReceiveInv, [Next]_vars PROVE ReceiveInv'
  OBVIOUS
<1>1. CASE Arrive \/ Close \/ Reset
  BY <1>1 DEF Arrive, Close, Reset, ReceiveInv, InSync, Underway
<1>2. CASE ReceiveHandshake
  <2>1. PICK n \in 0..HandshakeSize :
          /\ Read(HandshakeSize, n)
          /\ pc' = IF n = HandshakeSize THEN "header" ELSE "failed"
    BY <1>2 DEF ReceiveHandshake
  <2>2. consumed = 0 /\ consumed' = consumed + n
    BY <1>2, <2>1, ReadType, StartType DEF ReceiveHandshake, ReceiveInv
  <2>3. pc' = "header" => consumed' = Start[1] /\ 1 \in 1..(NumMessages + 1)
    BY <2>1, <2>2, StartType
  <2> QED BY <2>1, <2>3 DEF ReceiveInv, InSync
<1>3. CASE ReceiveHeader
  <2>1. PICK n \in 0..HeaderSize :
          /\ Read(HeaderSize, n)
          /\ IF n = HeaderSize
               THEN \E m \in Messages : SizeOf(m)
               ELSE pc' = "failed" /\ UNCHANGED size_to_receive
    BY <1>3 DEF ReceiveHeader
  <2>2. CASE n # HeaderSize
    BY <2>1, <2>2 DEF ReceiveInv, InSync
  <2>3. CASE n = HeaderSize
    <3>1. PICK m \in Messages : SizeOf(m)
      BY <2>1, <2>3
    <3>2. consumed' = Start[m] + HeaderSize
      BY <2>1, <2>3, <3>1, ReadType, StartType DEF SizeOf
    <3>3. CASE Size[m] = 0
      <4>1. m + 1 \in 1..(NumMessages + 1) /\ consumed' = Start[m + 1]
        BY <3>2, <3>3, StartType DEF Messages
      <4> QED BY <3>1, <3>3, <4>1 DEF SizeOf, ReceiveInv, InSync
    <3>4. CASE Size[m] # 0
      <4>1. Underway(m)' /\ pc' = "body"
        BY <3>1, <3>2, <3>4, StartType DEF SizeOf, Underway
      <4> QED BY <4>1 DEF ReceiveInv, InSync
    <3> QED BY <3>3, <3>4
  <2> QED BY <2>2, <2>3
<1>4. CASE ReceiveBody
  <2>1. PICK n \in 0..size_to_receive :
          /\ Read(size_to_receive, n)
          /\ \/ n = size_to_receive /\ \E m \in Messages : ActOn(m)
             \/ /\ n \in 1..(size_to_receive - 1)
                /\ size_to_receive' = size_to_receive - n
                /\ pc' = "drain"
                /\ UNCHANGED acted
             \/ /\ n = 0
                /\ pc' = "failed"
                /\ UNCHANGED <<size_to_receive, acted>>
    BY <1>4 DEF ReceiveBody
  <2>2. PICK m \in Messages : Underway(m) /\ consumed = Start[m] + HeaderSize
    BY <1>4 DEF ReceiveBody, ReceiveInv, Underway
  <2>3. /\ size_to_receive \in Nat \ {0} /\ consumed' = consumed + n
        /\ consumed + size_to_receive = Start[m + 1]
        /\ consumed \in Nat
    BY <2>1, <2>2, ReadType DEF Underway, TypeOK
  <2>4. CASE n = size_to_receive /\ pc' \in {"header", "finished"}
    <3>1. m + 1 \in 1..(NumMessages + 1) /\ consumed' = Start[m + 1]
      BY <2>3, <2>4, StartType DEF Messages
    <3> QED BY <2>4, <3>1 DEF ReceiveInv, InSync
  <2>5. CASE n \in 1..(size_to_receive - 1) /\ pc' = "drain"
                /\ size_to_receive' = size_to_receive - n
    <3>1. Underway(m)'
      BY <2>2, <2>3, <2>5, StartType DEF Underway
    <3> QED BY <2>5, <3>1 DEF ReceiveInv, InSync
  <2>6. CASE pc' = "failed"
    BY <2>6 DEF ReceiveInv, InSync
  <2> QED BY <2>1, <2>4, <2>5, <2>6 DEF ActOn
<1>5. CASE Drain
  <2>1. PICK n \in 0..size_to_receive :
          /\ Read(size_to_receive, n)
          /\ size_to_receive' = size_to_receive - n
          /\ pc' = IF size_to_receive' > 0 THEN "drain" ELSE "header"
    BY <1>5 DEF Drain
  <2>2. PICK m \in Messages : Underway(m) /\ consumed > Start[m] + HeaderSize
    BY <1>5 DEF Drain, ReceiveInv, Underway
  <2>3. /\ size_to_receive \in Nat \ {0} /\ consumed' = consumed + n
        /\ consumed + size_to_receive = Start[m + 1]
        /\ consumed \in Nat
    BY <2>1, <2>2, ReadType DEF Underway, TypeOK
  <2>4. CASE pc' = "header" /\ size_to_receive' = 0
    <3>1. m + 1 \in 1..(NumMessages + 1) /\ consumed' = Start[m + 1]
      BY <2>1, <2>3, <2>4, StartType DEF Messages
    <3> QED BY <2>4, <3>1 DEF ReceiveInv, InSync
  <2>5. CASE pc' = "drain" /\ size_to_receive' > 0
    <3>1. Underway(m)'
      BY <2>1, <2>2, <2>3, <2>5, StartType DEF Underway
    <3> QED BY <2>5, <3>1 DEF ReceiveInv, InSync
  <2> QED BY <2>1, <2>3, <2>4, <2>5
<1>6. CASE ReadError
  BY <1>6 DEF ReadError, ReceiveInv, InSync
<1>7. CASE Overflow
  BY <1>7 DEF Overflow, ReceiveInv, InSync
<1>8. CASE UNCHANGED vars
  BY <1>8 DEF vars, netVars, ReceiveInv, InSync, Underway
<1> QED BY <1>1, <1>2, <1>3, <1>4, <1>5, <1>6, <1>7, <1>8 DEF Next, ClientReads

(***************************************************************************)
(* However reads cut the stream, and wherever the peer closes, the loop    *)
(* takes for a size only what the peer sent as one, as long as no read     *)
(* returns more than recv holds.                                           *)
(***************************************************************************)
THEOREM SyncHolds == Spec => []ReceiveInv
BY InvInit, InvNext, ReceiveTypes, PTL DEF Spec

-----------------------------------------------------------------------------
(* Inbox. *)

PastAt(c) == {m \in Messages : Start[m + 1] <= c}

(* In the middle of message m the loop is done with those before it. *)
LEMMA PastWithin ==
  ASSUME NEW m \in Messages, NEW c \in Nat, Start[m] <= c, c < Start[m + 1]
  PROVE  PastAt(c) = 1..(m - 1)
<1>1. ASSUME NEW k \in Messages, k < m PROVE Start[k + 1] <= c
  <2>1. m \in 1..(NumMessages + 1)
    BY StartType DEF Messages
  <2> QED BY <1>1, <2>1, StartOrder, StartType
<1>2. ASSUME NEW k \in Messages, m < k PROVE ~(Start[k + 1] <= c)
  <2>1. k \in 1..(NumMessages + 1)
    BY StartType DEF Messages
  <2>2. Start[m + 1] <= Start[k]
    BY <1>2, <2>1, StartOrder
  <2> QED BY <2>2, StartType
<1>3. \A k \in Messages : k < m \/ k = m \/ m < k
  BY StartType DEF Messages
<1>4. \A k : k \in 1..(m - 1) <=> k \in Messages /\ k < m
  BY StartType DEF Messages
<1> QED BY <1>1, <1>2, <1>3, <1>4, StartType DEF PastAt

LEMMA PastAtEnd ==
  ASSUME NEW m \in Messages
  PROVE  PastAt(Start[m + 1]) = 1..m
<1>1. CASE m = NumMessages
  <2>1. ASSUME NEW k \in Messages PROVE Start[k + 1] <= Start[m + 1]
    <3>1. CASE k = m
      BY <3>1, StartType
    <3>2. CASE k < m
      <4>1. m \in 1..(NumMessages + 1)
        BY StartType DEF Messages
      <4>2. Start[k + 1] <= Start[m] /\ Start[m] <= Start[m + 1]
        BY <3>2, <4>1, StartOrder, StartType
      <4> QED BY <4>2, StartType
    <3> QED BY <1>1, <3>1, <3>2, StartType DEF Messages
  <2> QED BY <1>1, <2>1 DEF PastAt, Messages
<1>2. CASE m # NumMessages
  <2>1. m + 1 \in Messages /\ (m + 1) - 1 = m
    BY <1>2, StartType DEF Messages
  <2>2. Start[m + 1] \in Nat /\ Start[m + 1] < Start[(m + 1) + 1]
    BY <2>1, StartType
  <2> QED BY <2>1, <2>2, PastWithin
<1> QED BY <1>1, <1>2

(* The end of message m is a step of Inbox. *)
LEMMA MessageEnds ==
  ASSUME NEW m \in Messages, consumed \in Nat,
         Start[m] <= consumed, consumed < Start[m + 1],
         consumed' = Start[m + 1]
  PROVE  Delivery!IsNext(m) /\ Past' = Past \cup {m}
<1>1. Past = 1..(m - 1) /\ Past' = 1..m
  BY PastWithin, PastAtEnd DEF Past, PastAt
<1>2. m \in Nat \ {0}
  BY StartType DEF Messages
<1>3. 1..m = 1..(m - 1) \cup {m} /\ m \notin 1..(m - 1)
  BY <1>2
<1>4. \A k \in Messages : k < m => k \in 1..(m - 1)
  BY <1>2, StartType DEF Messages
<1> QED BY <1>1, <1>3, <1>4 DEF Delivery!IsNext

(* Within a message, and before the first, nothing shows. *)
LEMMA NothingEnds ==
  /\ \A m \in Messages :
       consumed \in Nat /\ consumed' \in Nat /\ Start[m] <= consumed
         /\ consumed <= consumed' /\ consumed' < Start[m + 1]
       => Past' = Past
  /\ consumed = 0 /\ consumed' \in 0..HandshakeSize => Past' = Past
<1>1. ASSUME NEW m \in Messages, consumed \in Nat, consumed' \in Nat,
             Start[m] <= consumed, consumed <= consumed',
             consumed' < Start[m + 1]
      PROVE  Past' = Past
  <2>1. Start[m] <= consumed' /\ consumed < Start[m + 1]
    BY <1>1, StartType
  <2>2. Past = 1..(m - 1)
    BY <1>1, <2>1, PastWithin DEF Past, PastAt
  <2>3. Past' = 1..(m - 1)
    BY <1>1, <2>1, PastWithin DEF Past, PastAt
  <2> QED BY <2>2, <2>3
<1>2. ASSUME NEW c \in 0..HandshakeSize PROVE PastAt(c) = {}
  <2>1. SUFFICES ASSUME NEW m \in Messages, Start[m + 1] <= c PROVE FALSE
    BY DEF PastAt
  <2>2. HandshakeSize <= Start[m]
    <3>1. CASE m = 1
      BY <3>1, StartType
    <3>2. CASE m # 1
      <4>1. /\ 1 \in Messages /\ m \in 1..(NumMessages + 1) /\ 1 < m
        BY <3>2, StartType DEF Messages
      <4>2. Start[1 + 1] <= Start[m]
        BY <4>1, StartOrder
      <4> QED BY <4>1, <4>2, StartType
    <3> QED BY <3>1, <3>2
  <2>3. Start[m + 1] > Start[m]
    BY StartType
  <2> QED BY <2>1, <2>2, <2>3, StartType
<1>3. ASSUME consumed = 0, consumed' \in 0..HandshakeSize
      PROVE  Past' = Past
  <2>1. PastAt(consumed) = {} /\ PastAt(consumed') = {}
    BY <1>2, <1>3, StartType
  <2> QED BY <2>1 DEF Past, PastAt
<1> QED BY <1>1, <1>3

LEMMA InboxInit == Init => Delivery!Init
<1> SUFFICES ASSUME Init PROVE Delivery!Init
  OBVIOUS
<1>1. Past = {}
  <2>1. SUFFICES ASSUME NEW m \in Messages, Start[m + 1] <= 0 PROVE FALSE
    BY DEF Init, Past
  <2> QED BY <2>1, StartType
<1> QED BY <1>1 DEF Init, Delivery!Init, Ended

LEMMA InboxNext ==
  TypeOK /\ ReceiveInv /\ [Next]_vars => [Delivery!Next]_(Delivery!vars)
<1> SUFFICES ASSUME TypeOK, ReceiveInv, [Next]_vars
             PROVE  Delivery!Next \/ UNCHANGED Delivery!vars
  OBVIOUS
<1>0. consumed \in Nat
  BY DEF TypeOK
<1>1. CASE UNCHANGED <<consumed, pc, acted>>
  BY <1>1 DEF Delivery!vars, Past
<1>2. CASE ReceiveHandshake
  <2>1. PICK n \in 0..HandshakeSize :
          /\ Read(HandshakeSize, n)
          /\ pc' = IF n = HandshakeSize THEN "header" ELSE "failed"
    BY <1>2 DEF ReceiveHandshake
  <2>2. consumed = 0 /\ consumed' \in 0..HandshakeSize
    BY <1>2, <2>1, ReadType, StartType DEF ReceiveHandshake, ReceiveInv
  <2>3. Past' = Past
    BY <2>2, NothingEnds
  <2> QED BY <1>2, <2>1, <2>3
          DEF ReceiveHandshake, Delivery!Next, Delivery!End, Delivery!vars,
              Ended
<1>3. CASE ReceiveHeader
  <2>1. PICK n \in 0..HeaderSize :
          /\ Read(HeaderSize, n)
          /\ IF n = HeaderSize
               THEN \E m \in Messages : SizeOf(m)
               ELSE pc' = "failed" /\ UNCHANGED size_to_receive
    BY <1>3 DEF ReceiveHeader
  <2>2. consumed' = consumed + n /\ UNCHANGED acted /\ pc = "header"
    BY <1>3, <2>1, ReadType, StartType DEF ReceiveHeader
  <2>3. CASE n = HeaderSize
    <3>1. PICK m \in Messages : SizeOf(m)
      BY <2>1, <2>3
    <3>2. Start[m] = consumed /\ consumed' = Start[m] + HeaderSize
      BY <2>2, <2>3, <3>1 DEF SizeOf
    <3>3. pc \notin Ended /\ pc' \notin Ended
      BY <2>2, <3>1 DEF SizeOf, Ended
    <3>4. CASE Size[m] = 0
      <4>1. consumed < Start[m + 1] /\ consumed' = Start[m + 1]
        BY <3>2, <3>4, StartType
      <4>2. Delivery!IsNext(m) /\ Past' = Past \cup {m}
        BY <1>0, <3>2, <4>1, MessageEnds, StartType
      <4>3. Delivery!Lose(m)
        BY <2>2, <3>3, <3>4, <4>2 DEF Delivery!Lose
      <4> QED BY <4>3 DEF Delivery!Next
    <3>5. CASE Size[m] # 0
      <4>1. consumed' < Start[m + 1] /\ consumed <= consumed'
              /\ consumed' \in Nat
        BY <3>2, <3>5, StartType
      <4>2. Past' = Past
        BY <1>0, <3>2, <4>1, NothingEnds, StartType
      <4> QED BY <2>2, <3>3, <4>2 DEF Delivery!vars
    <3> QED BY <3>4, <3>5
  <2>4. CASE n # HeaderSize
    <3>1. pc' \in Ended
      BY <2>1, <2>4 DEF Ended
    <3>2. PICK m \in 1..(NumMessages + 1) : consumed = Start[m]
      BY <2>2 DEF ReceiveInv, InSync
    <3>3. CASE m \in Messages
      <4>1. consumed' < Start[m + 1] /\ consumed <= consumed'
              /\ consumed' \in Nat
        BY <1>0, <2>2, <2>4, <3>2, <3>3, StartType
      <4>2. Past' = Past
        BY <1>0, <3>2, <3>3, <4>1, NothingEnds, StartType
      <4> QED BY <2>2, <3>1, <4>2 DEF Delivery!Next, Delivery!End
    <3>4. CASE m \notin Messages
      <4>1. m = NumMessages + 1
        BY <3>4, StartType DEF Messages
      <4>2. consumed = StreamSize /\ consumed' \in 0..StreamSize
        BY <2>1, <3>2, <4>1, ReadType, StartType DEF StreamSize
      <4>3. consumed' = consumed
        BY <2>1, <2>2, <4>2, StartType
      <4> QED BY <2>2, <3>1, <4>3 DEF Delivery!Next, Delivery!End, Past
    <3> QED BY <3>3, <3>4
  <2> QED BY <2>3, <2>4
<1>4. CASE ReceiveBody
  <2>1. PICK n \in 0..size_to_receive :
          /\ Read(size_to_receive, n)
          /\ \/ n = size_to_receive /\ \E m \in Messages : ActOn(m)
             \/ /\ n \in 1..(size_to_receive - 1)
                /\ size_to_receive' = size_to_receive - n
                /\ pc' = "drain"
                /\ UNCHANGED acted
             \/ /\ n = 0
                /\ pc' = "failed"
                /\ UNCHANGED <<size_to_receive, acted>>
    BY <1>4 DEF ReceiveBody
  <2>2. PICK m \in Messages : Underway(m) /\ consumed = Start[m] + HeaderSize
    BY <1>4 DEF ReceiveBody, ReceiveInv, Underway
  <2>3. /\ size_to_receive \in Nat \ {0} /\ consumed' = consumed + n
        /\ consumed + size_to_receive = Start[m + 1]
        /\ Start[m] <= consumed /\ consumed < Start[m + 1]
        /\ pc = "body"
    <3>1. pc = "body" /\ size_to_receive \in Nat
      BY <1>4 DEF ReceiveBody, TypeOK
    <3>2. consumed' = consumed + n
      BY <2>1, <3>1, ReadType
    <3>3. size_to_receive > 0 /\ consumed + size_to_receive = Start[m + 1]
      BY <2>2 DEF Underway
    <3> QED BY <1>0, <2>2, <3>1, <3>2, <3>3, StartType
  <2>4. CASE n = size_to_receive /\ \E k \in Messages : ActOn(k)
    <3>1. PICK k \in Messages : ActOn(k)
      BY <2>4
    <3>2. k = m
      <4>1. Start[k] = Start[m]
        BY <2>2, <3>1, StartType DEF ActOn
      <4>2. \A a, b \in Messages : a < b => Start[a] < Start[b]
        <5> TAKE a, b \in Messages
        <5>1. b \in 1..(NumMessages + 1) /\ Start[a] < Start[a + 1]
          BY StartType DEF Messages
        <5> QED BY <5>1, StartOrder, StartType
      <4>3. k < m \/ k = m \/ m < k
        BY StartType DEF Messages
      <4> QED BY <4>1, <4>2, <4>3, StartType
    <3>3. Delivery!IsNext(m) /\ Past' = Past \cup {m}
      BY <1>0, <2>3, <2>4, MessageEnds, StartType
    <3>4. Size[m] > 0
      BY <2>2, <2>3, StartType
    <3>5. Delivery!Act(m)
      BY <2>3, <3>1, <3>2, <3>3, <3>4 DEF ActOn, Delivery!Act, Ended
    <3> QED BY <3>5 DEF Delivery!Next
  <2>5. CASE n \in 0..(size_to_receive - 1) /\ UNCHANGED acted
                /\ pc' \in {"drain", "failed"}
    <3>1. consumed' < Start[m + 1] /\ consumed <= consumed' /\ consumed' \in Nat
      BY <1>0, <2>3, <2>5
    <3>2. Past' = Past
      BY <1>0, <2>3, <3>1, NothingEnds
    <3> QED BY <2>3, <2>5, <3>2
            DEF Delivery!Next, Delivery!End, Delivery!vars, Ended
  <2> QED BY <2>1, <2>3, <2>4, <2>5
<1>5. CASE Drain
  <2>1. PICK n \in 0..size_to_receive :
          /\ Read(size_to_receive, n)
          /\ size_to_receive' = size_to_receive - n
          /\ pc' = IF size_to_receive' > 0 THEN "drain" ELSE "header"
    BY <1>5 DEF Drain
  <2>2. PICK m \in Messages : Underway(m) /\ consumed > Start[m] + HeaderSize
    BY <1>5 DEF Drain, ReceiveInv, Underway
  <2>3. /\ size_to_receive \in Nat \ {0} /\ consumed' = consumed + n
        /\ consumed + size_to_receive = Start[m + 1]
        /\ Start[m] <= consumed /\ consumed < Start[m + 1]
        /\ pc \notin Ended /\ pc' \notin Ended /\ UNCHANGED acted
    <3>1. pc = "drain" /\ UNCHANGED acted /\ size_to_receive \in Nat
      BY <1>5 DEF Drain, TypeOK
    <3>2. consumed' = consumed + n
      BY <2>1, <3>1, ReadType
    <3>3. size_to_receive > 0 /\ consumed + size_to_receive = Start[m + 1]
      BY <2>2 DEF Underway
    <3>4. pc \notin Ended /\ pc' \notin Ended
      BY <2>1, <3>1 DEF Ended
    <3> QED BY <1>0, <2>2, <3>1, <3>2, <3>3, <3>4, StartType
  <2>4. CASE n = size_to_receive
    <3>1. Delivery!IsNext(m) /\ Past' = Past \cup {m}
      BY <1>0, <2>3, <2>4, MessageEnds
    <3>2. Size[m] # 1
      BY <1>0, <2>2, <2>3, StartType
    <3>3. Delivery!Lose(m)
      BY <2>3, <3>1, <3>2 DEF Delivery!Lose
    <3> QED BY <3>3 DEF Delivery!Next
  <2>5. CASE n # size_to_receive
    <3>1. consumed' < Start[m + 1] /\ consumed <= consumed' /\ consumed' \in Nat
      BY <1>0, <2>1, <2>3, <2>5
    <3>2. Past' = Past
      BY <1>0, <2>3, <3>1, NothingEnds
    <3> QED BY <2>3, <3>2 DEF Delivery!vars
  <2> QED BY <2>4, <2>5
<1>6. CASE ReadError
  BY <1>6 DEF ReadError, Delivery!Next, Delivery!End, Past, Ended
<1>7. CASE Overflow
  BY <1>7 DEF Overflow, Delivery!Next, Delivery!End, Past, Ended
<1> QED BY <1>1, <1>2, <1>3, <1>4, <1>5, <1>6, <1>7
        DEF Next, ClientReads, Arrive, Close, Reset, vars

(***************************************************************************)
(* The loop implements Inbox, for every stream of messages whose size is   *)
(* no negative int and every way to cut it: the handlers see whole         *)
(* messages, in order, none twice, and none of one byte is lost, up to a   *)
(* read that returns more than recv holds, where all ends.                 *)
(***************************************************************************)
THEOREM ReceiveImplementsInbox == Spec => ImplementsInbox
<1>1. Spec => [][Delivery!Next]_(Delivery!vars)
  BY InboxNext, ReceiveTypes, SyncHolds, PTL DEF Spec
<1> QED BY <1>1, InboxInit, PTL DEF Spec, ImplementsInbox, Delivery!Spec

-----------------------------------------------------------------------------
(* Quotient and remainder by 256 and 65536. *)
LEMMA ByOctets ==
  ASSUME NEW w \in Int
  PROVE  w \div 256 \in Int /\ w % 256 \in Octet /\ w = 256 * (w \div 256) + (w % 256)
  BY SMT DEF Octet

LEMMA ByWords ==
  ASSUME NEW x \in Int
  PROVE  /\ x \div 65536 \in Int /\ x % 65536 \in Short
         /\ x = 65536 * (x \div 65536) + (x % 65536)
  BY SMT DEF Short

(* A 16-bit number is made of its octets again. *)
LEMMA WordOfOctets ==
  ASSUME NEW w \in Short
  PROVE  /\ HIBYTE(w) \in Octet /\ LOBYTE(w) \in Octet
         /\ MAKEWORD(LOBYTE(w), HIBYTE(w)) = w
<1> w \in Int /\ 0 <= w /\ w < 65536
  BY SMT DEF Short
<1> DEFINE q == w \div 256
<1>1. q \in Int /\ w % 256 \in Octet /\ w = 256 * q + (w % 256)
  BY ByOctets
<1>2. q \in Octet
  <2> HIDE DEF q
  <2>. QED BY <1>1, SMT DEF Octet
<1>3. q % 256 = q
  <2> HIDE DEF q
  <2>. QED BY <1>2 DEF Octet
<1>4. HIBYTE(w) = q /\ LOBYTE(w) = w % 256
  BY <1>3 DEF HIBYTE, LOBYTE
<1>. QED
  BY <1>1, <1>2, <1>4 DEF MAKEWORD, Octet

(* An int is made of its two halves again: the upper one is the quotient,  *)
(* and 2^16 more of it if the int is negative.                             *)
LEMMA IntOfWords ==
  ASSUME NEW x \in Int32
  PROVE  /\ HIWORD(x) \in Short /\ LOWORD(x) \in Short
         /\ MAKELONG(LOWORD(x), HIWORD(x)) = x
<1> x \in Int /\ -2147483648 <= x /\ x <= 2147483647
  BY SMT DEF Int32
<1> DEFINE q == x \div 65536
           r == x % 65536
<1>1. q \in Int /\ r \in Short /\ x = 65536 * q + r
  BY ByWords
<1>2. -32768 <= q /\ q <= 32767
  <2> HIDE DEF q, r
  <2>. QED BY <1>1, SMT DEF Short
<1>3. q % 65536 = IF q < 0 THEN q + 65536 ELSE q
  <2> HIDE DEF q
  <2> DEFINE a == q \div 65536
             b == q % 65536
  <2>1. a \in Int /\ b \in Short /\ q = 65536 * a + b
    BY <1>1, ByWords
  <2> HIDE DEF a, b
  <2>2. b \in Int /\ 0 <= b /\ b < 65536
    BY <2>1, SMT DEF Short
  <2>3. CASE q < 0
    <3>1. a = -1
      BY <1>1, <1>2, <2>1, <2>2, <2>3, SMT
    <3>. QED BY <1>1, <2>1, <2>2, <2>3, <3>1, SMT DEF b
  <2>4. CASE q >= 0
    <3>1. a = 0
      BY <1>1, <1>2, <2>1, <2>2, <2>4, SMT
    <3>. QED BY <1>1, <2>1, <2>2, <2>4, <3>1, SMT DEF b
  <2>. QED BY <1>1, <2>3, <2>4, SMT
<1>4. HIWORD(x) = (IF q < 0 THEN q + 65536 ELSE q) /\ LOWORD(x) = r
  BY <1>3 DEF HIWORD, LOWORD
<1>5. HIWORD(x) \in Short
  BY <1>1, ByWords DEF HIWORD
<1>6. MAKELONG(r, IF q < 0 THEN q + 65536 ELSE q) = x
  <2> HIDE DEF q, r
  <2>. QED BY <1>1, <1>2, SMT DEF MAKELONG, ToInt, Short
<1>. QED
  BY <1>1, <1>4, <1>5, <1>6

(***************************************************************************)
(* What is read of a field is what was written of it, for every int, -1    *)
(* among them: so the index, begin and length a request states are those   *)
(* the client asked for, and those a piece states those the peer sent.     *)
(***************************************************************************)
THEOREM FieldRoundTrip ==
  ASSUME NEW x \in Int32
  PROVE  FieldValue(Field(x)) = x
<1>1. /\ HIWORD(x) \in Short /\ LOWORD(x) \in Short
      /\ MAKELONG(LOWORD(x), HIWORD(x)) = x
  BY IntOfWords
<1>2. MAKEWORD(HL(x), HH(x)) = HIWORD(x) /\ MAKEWORD(LL(x), LH(x)) = LOWORD(x)
  BY <1>1, WordOfOctets DEF HH, HL, LH, LL
<1>. QED
  BY <1>1, <1>2 DEF Field, FieldValue

(***************************************************************************)
(* Every sequence of four octets is a field of one int only, so two peers  *)
(* that agree on the octets agree on the number.                           *)
(***************************************************************************)
THEOREM FieldsDiffer ==
  ASSUME NEW x \in Int32, NEW y \in Int32, Field(x) = Field(y)
  PROVE  x = y
  BY FieldRoundTrip
=============================================================================
