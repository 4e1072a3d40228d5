---------------------------- MODULE ForwardList ----------------------------
(***************************************************************************)
(* class ForwardList of include/Utility/IList.h: the lists of free buddy   *)
(* blocks, whose links are the first two words of the nodes.               *)
(***************************************************************************)
EXTENDS ListNodes

VARIABLES m_head, next, prev, content

forwardVars == <<m_head, next, prev, content>>

ForwardInit ==
  /\ m_head = End
  /\ next \in [Node -> Garbage]
  /\ prev \in [Node -> Garbage]
  /\ content = <<>>
-----------------------------------------------------------------------------
\* A node is pushed by who owns it, so it is on no list.
push(n) ==
  /\ ~Listed(n, content)
  /\ prev' = [x \in Node |-> IF x = n THEN End
                             ELSE IF x = m_head THEN n
                             ELSE prev[x]]
  /\ next' = [next EXCEPT ![n] = m_head]
  /\ m_head' = n
  /\ content' = <<n>> \o content

\* Mutant (before the definition it would replace): the new first node keeps
\* its neighbour before.
PopKeepsPrev(x) == prev[x]

PrevAfterPop(x) == IF x = next[m_head] THEN End ELSE prev[x]

\* pop, and remove of the first node.  (An empty list is left as it is.)
pop ==
  /\ m_head # End
  /\ m_head' = next[m_head]
  /\ prev' = [x \in Node |-> PrevAfterPop(x)]
  /\ content' = Tail(content)
  /\ UNCHANGED next

RemoveInner(n) ==
  /\ next' = [next EXCEPT ![prev[n]] = next[n]]
  /\ prev' = [x \in Node |-> IF x = next[n] THEN prev[n] ELSE prev[x]]
  /\ UNCHANGED m_head

\* Clients remove only what is on the list: see BuddyManager's invariant
\* FreeSpaceListed.
remove(n) ==
  \E i \in 1..Len(content) :
    /\ content[i] = n
    /\ IF m_head = n
       THEN pop
       ELSE RemoveInner(n) /\ content' = RemoveAt(content, i)

popAll ==
  /\ m_head # End
  /\ m_head' = End
  /\ content' = <<>>
  /\ UNCHANGED <<next, prev>>

\* The owner of an unlisted node writes over its words.
ForwardClientWrites(n) ==
  /\ ~Listed(n, content)
  /\ \E x, y \in Garbage : next' = [next EXCEPT ![n] = x] /\ prev' = [prev EXCEPT ![n] = y]
  /\ UNCHANGED <<m_head, content>>

ForwardNext ==
  \/ pop
  \/ popAll
  \/ \E n \in Node : push(n) \/ remove(n) \/ ForwardClientWrites(n)

ForwardSpec == ForwardInit /\ [][ForwardNext]_forwardVars
-----------------------------------------------------------------------------
\* Type invariant: the head and the words of the nodes.
ForwardTypeOK ==
  /\ m_head \in Address
  /\ next \in [Node -> Address]
  /\ prev \in [Node -> Address]
  /\ content \in Seq(Node)

Chained ==
  /\ m_head = At(content, 1)
  /\ \A i \in 1..Len(content) : /\ next[content[i]] = At(content, i + 1)
                                /\ prev[content[i]] = At(content, i - 1)

\* Both chains spell the content, one in each direction, whatever the nodes
\* held before they were pushed: a remove in the middle always finds its true
\* neighbours (IList.h:124-147).
ForwardListIntact == Distinct(content) /\ Chained
=============================================================================
