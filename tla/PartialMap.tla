----------------------------- MODULE PartialMap -----------------------------
(***************************************************************************)
(* What a map from keys to values promises: a key has at most one value,   *)
(* the one it was inserted with, until it is erased.  PointerHashMap.tla   *)
(* is shown to implement it.                                               *)
(***************************************************************************)
CONSTANTS Keys, Values

VARIABLE pairs   \* the <<key, value>> pairs in the map

HasKey(k) == \E v \in Values : <<k, v>> \in pairs

PInit == pairs = {}

PInsert(k, v) ==
  /\ ~HasKey(k)
  /\ pairs' = pairs \cup {<<k, v>>}

PErase(k) ==
  /\ HasKey(k)
  /\ pairs' = {p \in pairs : p[1] # k}

PNext == \E k \in Keys : PErase(k) \/ \E v \in Values : PInsert(k, v)

PSpec == PInit /\ [][PNext]_pairs
=============================================================================
