-------------------------------- MODULE Inbox --------------------------------
(***************************************************************************)
(* What the message loop promises its handlers: the messages of the peer   *)
(* are acted on in the order they were sent, none twice and none in part;  *)
(* a message may be lost, but never one whose body is a single byte (the   *)
(* unchoke among them); and the loop may end between any two.              *)
(***************************************************************************)
EXTENDS Integers, Sequences

CONSTANTS
  Messages,   \* the messages of the stream, numbered in the order sent
  Size        \* Size[m] is the length of the body of m, 0 for a keep-alive

VARIABLES
  past,    \* the messages the loop is done with
  acted,   \* the ones whose handler has run, in order
  ended    \* has the loop ended?

vars == <<past, acted, ended>>

Init == past = {} /\ acted = <<>> /\ ended = FALSE

IsNext(m) == m \notin past /\ \A k \in Messages : k < m => k \in past

(* The handler of the last piece ends the loop. *)
Act(m) ==
  /\ ~ended
  /\ IsNext(m)
  /\ Size[m] > 0
  /\ past' = past \cup {m}
  /\ acted' = Append(acted, m)
  /\ ended' \in BOOLEAN

Lose(m) ==
  /\ ~ended
  /\ IsNext(m)
  /\ Size[m] # 1
  /\ past' = past \cup {m}
  /\ UNCHANGED <<acted, ended>>

End ==
  /\ ended' = TRUE
  /\ UNCHANGED <<past, acted>>

Next == End \/ \E m \in Messages : Act(m) \/ Lose(m)

Spec == Init /\ [][Next]_vars
=============================================================================
