----------------------------- MODULE Containers ------------------------------
(***************************************************************************)
(* The dictionary and the list of bencode.c as a caller uses them, and who *)
(* has to free a value.  A dictionary is two arrays, of which the first    *)
(* Len(keys) places are used; a value is an object with an owner.          *)
(***************************************************************************)
EXTENDS Bencode

CONSTANTS
  Keys,      \* the keys of the calls
  Objects    \* the values a caller makes

ASSUME ContainersAssumption == Keys \subseteq AllKeys

VARIABLES
  keys, values, alloc,   \* the dictionary
  items, itemsAlloc,     \* the list
  owner,                 \* of each object: "caller", "dict", "list" or "freed"
  broken                 \* containers whose arrays a failed resize has spoilt

dictVars      == <<keys, values, alloc>>
listVars      == <<items, itemsAlloc>>
containerVars == <<dictVars, listVars, owner, broken>>

ContainersInit ==
  /\ keys = <<>> /\ values = <<>> /\ alloc = 0
  /\ items = <<>> /\ itemsAlloc = 0
  /\ owner = [o \in Objects |-> "caller"]
  /\ broken = {}

(* Where the key is found. *)
Positions(k) == {i \in DOMAIN keys : Cmp(keys[i], k) = 0}

(* ben_dict_get: the first that compares equal. *)
DictGet(k) == IF Positions(k) = {} THEN None ELSE values[Min(Positions(k))]

DictGetByStr(s) == GetByStr(keys, values, s)

(* Mutant: the last entry is not moved, only cut off. *)
ReplaceWithLastCut(arr, i) == SubSeq(arr, 1, Len(arr) - 1)

(* replacewithlast, and the last place given up. *)
ReplaceWithLast(arr, i) == SubSeq([arr EXCEPT ![i] = Last(arr)], 1, Len(arr) - 1)

Without(arr, k) ==
  IF Positions(k) = {} THEN arr ELSE ReplaceWithLast(arr, Min(Positions(k)))

Held(k) == IF Positions(k) = {} THEN {} ELSE {values[Min(Positions(k))]}

(* The owner of the objects of a set changes. *)
Give(objects, to) == [o \in Objects |-> IF o \in objects THEN to ELSE owner[o]]

DictPop(k) ==
  /\ "dict" \notin broken
  /\ keys' = Without(keys, k) /\ values' = Without(values, k)
  /\ owner' = Give(Held(k), "caller")
  /\ UNCHANGED <<alloc, listVars, broken>>

(* An array of n places that are all used grows before anything else.      *)
Resized(n, size) == IF n = size THEN Grown(size) ELSE size

(* Mutant: the value that was there is forgotten and not freed. *)
DictStoreNoFree(k, o) ==
  /\ keys' = Append(Without(keys, k), k)
  /\ values' = Append(Without(values, k), o)
  /\ owner' = Give({o}, "dict")

(* The old entry is popped, its value freed, and the new one put last. *)
DictStore(k, o) ==
  /\ keys' = Append(Without(keys, k), k)
  /\ values' = Append(Without(values, k), o)
  /\ owner' = [Give(Held(k), "freed") EXCEPT ![o] = "dict"]

(* resize_dict fails: alloc has grown and the arrays have not, and if one  *)
(* realloc succeeded its array is freed.                                   *)
DictResizeFails ==
  /\ "array" \in Fallible
  /\ Len(keys) = alloc
  /\ alloc' = Grown(alloc)
  /\ broken' = broken \union {"dict"}
  /\ UNCHANGED <<keys, values, listVars>>

DictSet(k, o) ==
  /\ "dict" \notin broken /\ owner[o] = "caller"
  /\ \/ /\ alloc' = Resized(Len(keys), alloc)
        /\ DictStore(k, o)
        /\ UNCHANGED <<listVars, broken>>
     \/ DictResizeFails /\ UNCHANGED owner

(* The function makes the value from a string as well, and frees it again  *)
(* when key or array find no memory.                                       *)
DictSetStrByStr(k, o) ==
  /\ "dict" \notin broken /\ owner[o] = "caller" /\ k.type = "str"
  /\ \/ /\ alloc' = Resized(Len(keys), alloc)
        /\ DictStore(k, o)
        /\ UNCHANGED <<listVars, broken>>
     \/ DictResizeFails /\ owner' = Give({o}, "freed")
     \/ /\ "blob" \in Fallible
        /\ owner' = Give({o}, "freed")
        /\ UNCHANGED <<dictVars, listVars, broken>>

(* ben_free, and a new dictionary in the place of the old one. *)
FreeDict ==
  /\ "dict" \notin broken
  /\ keys' = <<>> /\ values' = <<>> /\ alloc' = 0
  /\ owner' = Give({values[i] : i \in DOMAIN values}, "freed")
  /\ UNCHANGED <<listVars, broken>>

ListAppend(o) ==
  /\ "list" \notin broken /\ owner[o] = "caller"
  /\ itemsAlloc' = Resized(Len(items), itemsAlloc)
  /\ \/ /\ items' = Append(items, o)
        /\ owner' = Give({o}, "list")
        /\ UNCHANGED broken
     \/ /\ "array" \in Fallible /\ Len(items) = itemsAlloc
        /\ broken' = broken \union {"list"}
        /\ UNCHANGED <<items, owner>>
  /\ UNCHANGED dictVars

ListSet(i, o) ==
  /\ i \in DOMAIN items /\ owner[o] = "caller"
  /\ items' = [items EXCEPT ![i] = o]
  /\ owner' = [Give({items[i]}, "freed") EXCEPT ![o] = "list"]
  /\ UNCHANGED <<dictVars, itemsAlloc, broken>>

(* The list's one array outlives a realloc that failed. *)
FreeList ==
  /\ items' = <<>> /\ itemsAlloc' = 0
  /\ owner' = Give({items[i] : i \in DOMAIN items}, "freed")
  /\ broken' = broken \ {"list"}
  /\ UNCHANGED dictVars

ContainersNext ==
  \/ \E k \in Keys :
       DictPop(k) \/ \E o \in Objects : DictSet(k, o) \/ DictSetStrByStr(k, o)
  \/ \E o \in Objects : ListAppend(o) \/ \E i \in DOMAIN items : ListSet(i, o)
  \/ FreeDict \/ FreeList

ContainersSpec == ContainersInit /\ [][ContainersNext]_containerVars

-----------------------------------------------------------------------------
(* Types, and what each array holds is within what was allocated for it.   *)
ContainersTypeOK ==
  /\ keys \in Seq(Keys) /\ values \in Seq(Objects) /\ alloc \in Nat
  /\ Len(keys) <= alloc /\ Len(values) <= alloc
  /\ items \in Seq(Objects) /\ itemsAlloc \in Nat /\ Len(items) <= itemsAlloc
  /\ owner \in [Objects -> {"caller", "dict", "list", "freed"}]
  /\ broken \subseteq {"dict", "list"}

(***************************************************************************)
(* Keys and values stay paired, and no key is in the dictionary twice,     *)
(* though ben_dict_pop moves the last entry.                               *)
(***************************************************************************)
OneEntryPerKey ==
  /\ Len(keys) = Len(values)
  /\ \A i, j \in DOMAIN keys : Cmp(keys[i], keys[j]) = 0 => i = j

(***************************************************************************)
(* What a container holds it owns, once, and nothing it owns is lost: no   *)
(* value is freed twice, used after it was freed, or freed by nobody.      *)
(***************************************************************************)
OwnedOnce ==
  /\ \A o \in Objects : owner[o] = "dict" <=> \E i \in DOMAIN values : values[i] = o
  /\ \A o \in Objects : owner[o] = "list" <=> \E i \in DOMAIN items : items[i] = o
  /\ \A i, j \in DOMAIN values : values[i] = values[j] => i = j
  /\ \A i, j \in DOMAIN items : items[i] = items[j] => i = j

(***************************************************************************)
(* ben_dict_get_by_str finds what ben_dict_get finds for the same string,  *)
(* also when keys have zero octets, at which strcmp stops.                 *)
(***************************************************************************)
ByStrAgrees ==
  \A k \in Keys :
    k.type = "str" /\ (\A i \in DOMAIN k.s : k.s[i] # "NUL")
      => DictGetByStr(k.s) = DictGet(k)

-----------------------------------------------------------------------------
(***************************************************************************)
(* The containers implement Collections: the dictionary is the map its     *)
(* entries make, in whatever order they are, and the list is itself.       *)
(***************************************************************************)
KeySet == {keys[i] : i \in DOMAIN keys}
Abstract == INSTANCE Collections WITH
  map   <- [k \in KeySet |-> DictGet(k)],
  list  <- items,
  freed <- {o \in Objects : owner[o] = "freed"}

ImplementsCollections == Abstract!Spec
=============================================================================
