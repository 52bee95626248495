----------------------------- MODULE Collections -----------------------------
(***************************************************************************)
(* What a caller sees of a dictionary and a list: a map from keys to       *)
(* values and a sequence of values, and which values were given back to    *)
(* the allocator on the way.                                               *)
(***************************************************************************)
EXTENDS Integers, Sequences

CONSTANTS Keys, Objects

VARIABLES map, list, freed

vars == <<map, list, freed>>

Init == map = [k \in {} |-> {}] /\ list = <<>> /\ freed = {}

Put(k, o) ==
  /\ map' = [x \in DOMAIN map \union {k} |-> IF x = k THEN o ELSE map[x]]
  /\ freed' = freed \union (IF k \in DOMAIN map THEN {map[k]} ELSE {})
  /\ UNCHANGED list

(* The caller gets the value. *)
Take(k) ==
  /\ k \in DOMAIN map
  /\ map' = [x \in DOMAIN map \ {k} |-> map[x]]
  /\ UNCHANGED <<list, freed>>

Add(o) ==
  /\ list' = Append(list, o)
  /\ UNCHANGED <<map, freed>>

Exchange(i, o) ==
  /\ i \in DOMAIN list
  /\ list' = [list EXCEPT ![i] = o]
  /\ freed' = freed \union {list[i]}
  /\ UNCHANGED map

ClearMap ==
  /\ map' = [k \in {} |-> {}]
  /\ freed' = freed \union {map[k] : k \in DOMAIN map}
  /\ UNCHANGED list

ClearList ==
  /\ list' = <<>>
  /\ freed' = freed \union {list[i] : i \in DOMAIN list}
  /\ UNCHANGED map

(* A value that was never put anywhere. *)
Discard(o) ==
  /\ freed' = freed \union {o}
  /\ UNCHANGED <<map, list>>

Next ==
  \/ \E k \in Keys : Take(k) \/ \E o \in Objects : Put(k, o)
  \/ \E o \in Objects : Add(o) \/ Discard(o) \/ \E i \in DOMAIN list : Exchange(i, o)
  \/ ClearMap \/ ClearList

Spec == Init /\ [][Next]_vars
=============================================================================
