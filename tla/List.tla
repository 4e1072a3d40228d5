-------------------------------- MODULE List --------------------------------
(***************************************************************************)
(* class List of include/Utility/IList.h: the circular lists of a slab     *)
(* allocator's pages.  The list object itself is a node, whose two words   *)
(* are called first and last.  Unlisted nodes hold old values.             *)
(***************************************************************************)
EXTENDS ListNodes

VARIABLES
  succ, pred,  \* the two words of every node, and of the list object
  ring         \* the nodes listed

ringVars == <<succ, pred, ring>>

RingInit ==
  /\ succ \in [Address -> Garbage \cup {End}] /\ succ[End] = End
  /\ pred \in [Address -> Garbage \cup {End}] /\ pred[End] = End
  /\ ring = <<>>

empty == succ[End] = End
front == succ[End]
back == pred[End]
-----------------------------------------------------------------------------
(* The two words of all nodes after an operation, from a pair of functions. *)

\* Mutant (before the definition it would replace): one neighbour only.
UnlinkedOneWay(l, n) == [next |-> [l.next EXCEPT ![l.prev[n]] = l.next[n]], prev |-> l.prev]

Unlinked(l, n) ==
  [next |-> [l.next EXCEPT ![l.prev[n]] = l.next[n]],
   prev |-> [l.prev EXCEPT ![l.next[n]] = l.prev[n]]]

LinkedFront(l, n) ==
  LET first == l.next[End]
  IN [next |-> [l.next EXCEPT ![n] = first, ![End] = n],
      prev |-> [l.prev EXCEPT ![n] = End, ![first] = n]]

LinkedBack(l, n) ==
  LET last == l.prev[End]
  IN [next |-> [l.next EXCEPT ![n] = End, ![last] = n],
      prev |-> [l.prev EXCEPT ![n] = last, ![End] = n]]

Links == [next |-> succ, prev |-> pred]

Become(l) == succ' = l.next /\ pred' = l.prev
-----------------------------------------------------------------------------
push_front(n) ==
  /\ ~Listed(n, ring)
  /\ Become(LinkedFront(Links, n))
  /\ ring' = <<n>> \o ring

push_back(n) ==
  /\ ~Listed(n, ring)
  /\ Become(LinkedBack(Links, n))
  /\ ring' = Append(ring, n)

removeFromRing(n) ==
  \E i \in 1..Len(ring) :
    /\ ring[i] = n
    /\ Become(Unlinked(Links, n))
    /\ ring' = RemoveAt(ring, i)

\* Both return the list object itself when the list is empty, which is why
\* SlabAllocator.cpp:110 asks empty() first.
pop_front == ~empty /\ removeFromRing(front)

pop_back == ~empty /\ removeFromRing(back)

move_front(n) ==
  \E i \in 1..Len(ring) :
    /\ ring[i] = n
    /\ Become(LinkedFront(Unlinked(Links, n), n))
    /\ ring' = <<n>> \o RemoveAt(ring, i)

move_back(n) ==
  \E i \in 1..Len(ring) :
    /\ ring[i] = n
    /\ Become(LinkedBack(Unlinked(Links, n), n))
    /\ ring' = Append(RemoveAt(ring, i), n)

\* The owner of an unlisted node writes over its words.
RingClientWrites(n) ==
  /\ ~Listed(n, ring)
  /\ \E x, y \in Garbage : succ' = [succ EXCEPT ![n] = x] /\ pred' = [pred EXCEPT ![n] = y]
  /\ UNCHANGED ring

RingNext ==
  \/ pop_front
  \/ pop_back
  \/ \E n \in Node : \/ push_front(n) \/ push_back(n)
                     \/ removeFromRing(n)
                     \/ move_front(n) \/ move_back(n)
                     \/ RingClientWrites(n)

RingSpec == RingInit /\ [][RingNext]_ringVars
-----------------------------------------------------------------------------
\* Type invariant.
RingTypeOK ==
  /\ succ \in [Address -> Address]
  /\ pred \in [Address -> Address]
  /\ ring \in Seq(Node)

Ring(l, s) ==
  \A i \in 0..Len(s) : /\ l.next[At(s, i)] = At(s, i + 1)
                       /\ l.prev[At(s, i + 1)] = At(s, i)

\* From the list object around and back, in both directions, the links spell
\* the content: front, back and empty tell the truth after any mix of moves
\* and removes, also of the first, last or only node, and whatever the nodes
\* held before they were listed (IList.h:310-358).
RingIntact == Distinct(ring) /\ Ring(Links, ring)
=============================================================================
