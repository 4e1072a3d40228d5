----------------------------- MODULE ListNodes -----------------------------
(***************************************************************************)
(* What the intrusive lists of the two allocators share: the links are two *)
(* words inside the nodes, which belong to a client whenever the node is   *)
(* not listed.  So a node comes in with whatever was last written there.   *)
(* Each list keeps the sequence of its nodes, front first, as a history    *)
(* variable.                                                               *)
(***************************************************************************)
EXTENDS Naturals, Sequences, SequencesExt

CONSTANTS
  Node,    \* addresses of nodes
  End,     \* where a list begins and ends: nullptr, or the list object itself
  Garbage  \* what clients write over the words of their nodes

Address == Node \cup {End}

ASSUME EndAssumption == End \notin Node
ASSUME GarbageAssumption == Garbage \subseteq Address

Listed(n, s) == \E i \in 1..Len(s) : s[i] = n

\* The i-th node of a sequence, End before and after it.
At(s, i) == IF i \in 1..Len(s) THEN s[i] ELSE End

Distinct(s) == \A i, j \in 1..Len(s) : s[i] = s[j] => i = j
=============================================================================
