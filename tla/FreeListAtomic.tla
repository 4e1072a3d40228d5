--------------------------- MODULE FreeListAtomic ---------------------------
(***************************************************************************)
(* The lock-free list of include/Utility/IList.h: a singly linked chain    *)
(* threaded through the nodes themselves (`next' is the first word of the  *)
(* node's own memory) behind one atomic head pointer.  Every action is one *)
(* access to shared memory, so a thread may be overtaken between loading   *)
(* the head, linking its node and the compare-and-swap.                    *)
(*                                                                         *)
(* pop dereferences the head it loaded and would be open to ABA with a     *)
(* second consumer; the repository only ever runs one popping thread       *)
(* (testUtility.cpp), or popAll (SlabAllocator::reclaim_remote_free),      *)
(* which never dereferences.  ConsumerAssumption states that contract.     *)
(***************************************************************************)
EXTENDS Sequences, Integers, Functions

CONSTANTS
  Node,            \* the nodes (objects) that circulate
  Null,            \* nullptr
  Pushers,         \* the threads that call push
  Poppers,         \* the threads that call pop
  Drainers,        \* the threads that call popAll and walk the result
  SpuriousFailure  \* may compare_exchange_weak fail although the value matches?

ASSUME NodeAssumption == Null \notin Node
ASSUME ConsumerAssumption == \A p \in Poppers : Poppers \cup Drainers = {p}
ASSUME SpuriousAssumption == SpuriousFailure \in BOOLEAN

Proc == Pushers \cup Poppers \cup Drainers

VARIABLES
  m_head,   \* the atomic head pointer
  next,     \* next[n]: the link word inside node n
  pc,       \* pc[p]: the next shared access of thread p
  arg,      \* arg[p]: push's parameter `node' (Null outside push)
  hd,       \* hd[p]: the local `head'; while walking, the node to visit next
  nx,       \* nx[p]: pop's local `next'
  owned,    \* owned[p]: the nodes p holds (client state)
  content,  \* history: the nodes on the list, the top first
  batch     \* history: the rest of the chain popAll gave to p

vars == <<m_head, next, pc, arg, hd, nx, owned, content, batch>>
-----------------------------------------------------------------------------
\* The state the list's own code keeps, given who owns which node.
ListInit ==
  /\ m_head = Null
  /\ pc = [p \in Proc |-> "idle"]
  /\ arg = [p \in Proc |-> Null]
  /\ hd = [p \in Proc |-> Null]
  /\ nx = [p \in Proc |-> Null]
  /\ content = <<>>
  /\ batch = [p \in Proc |-> <<>>]

Init ==
  /\ ListInit
  /\ next = [n \in Node |-> Null]
  /\ owned \in [Proc -> SUBSET Node]
  /\ \A p, q \in Proc : p # q => owned[p] \cap owned[q] = {}

Goto(p, label) == pc' = [pc EXCEPT ![p] = label]

\* compare_exchange_weak(head, new): `ok' holds when the swap happened.
CasSucceeds(p, new) == m_head = hd[p] /\ m_head' = new
CasFails(p) == (m_head # hd[p] \/ SpuriousFailure) /\ m_head' = m_head
-----------------------------------------------------------------------------
(* push *)

CallPush(p, n) ==
  /\ p \in Pushers /\ pc[p] = "idle" /\ n \in owned[p]
  /\ owned' = [owned EXCEPT ![p] = @ \ {n}]
  /\ arg' = [arg EXCEPT ![p] = n]
  /\ Goto(p, "push_load")
  /\ UNCHANGED <<m_head, next, hd, nx, content, batch>>

PushLoad(p) ==
  /\ pc[p] = "push_load"
  /\ hd' = [hd EXCEPT ![p] = m_head]
  /\ Goto(p, "push_link")
  /\ UNCHANGED <<m_head, next, arg, nx, owned, content, batch>>

PushLink(p) ==
  /\ pc[p] = "push_link"
  /\ next' = [next EXCEPT ![arg[p]] = hd[p]]
  /\ Goto(p, "push_cas")
  /\ UNCHANGED <<m_head, arg, hd, nx, owned, content, batch>>

PushSwap(p) ==
  /\ pc[p] = "push_cas"
  /\ CasSucceeds(p, arg[p])
  /\ content' = <<arg[p]>> \o content
  /\ arg' = [arg EXCEPT ![p] = Null]
  /\ Goto(p, "idle")
  /\ UNCHANGED <<next, hd, nx, owned, batch>>

\* Mutants: the retry keeps the link of the failed round; the retry gives up.
PushRetryStaleLink(p) ==
  /\ pc[p] = "push_cas"
  /\ CasFails(p)
  /\ hd' = [hd EXCEPT ![p] = m_head]
  /\ UNCHANGED <<m_head, next, pc, arg, nx, owned, content, batch>>

PushGivesUp(p) ==
  /\ pc[p] = "push_cas"
  /\ CasFails(p)
  /\ Goto(p, "idle")
  /\ UNCHANGED <<next, arg, hd, nx, owned, content, batch>>

PushRetry(p) ==
  /\ pc[p] = "push_cas"
  /\ CasFails(p)
  /\ Goto(p, "push_load")
  /\ UNCHANGED <<next, arg, hd, nx, owned, content, batch>>
-----------------------------------------------------------------------------
(* pop *)

CallPop(p) ==
  /\ p \in Poppers /\ pc[p] = "idle"
  /\ Goto(p, "pop_load")
  /\ UNCHANGED <<m_head, next, arg, hd, nx, owned, content, batch>>

PopLoad(p) ==
  /\ pc[p] = "pop_load"
  /\ hd' = [hd EXCEPT ![p] = m_head]
  /\ Goto(p, IF m_head = Null THEN "idle" ELSE "pop_next")
  /\ UNCHANGED <<m_head, next, arg, nx, owned, content, batch>>

PopNext(p) ==
  /\ pc[p] = "pop_next"
  /\ nx' = [nx EXCEPT ![p] = next[hd[p]]]
  /\ Goto(p, "pop_cas")
  /\ UNCHANGED <<m_head, next, arg, hd, owned, content, batch>>

\* Mutant: the new head is stored without comparing.
PopStore(p) ==
  /\ pc[p] = "pop_cas"
  /\ content # <<>>
  /\ m_head' = nx[p]
  /\ content' = Tail(content)
  /\ owned' = [owned EXCEPT ![p] = @ \cup {hd[p]}]
  /\ Goto(p, "idle")
  /\ UNCHANGED <<next, arg, hd, nx, batch>>

PopSwap(p) ==
  /\ pc[p] = "pop_cas"
  /\ CasSucceeds(p, nx[p])
  /\ content' = Tail(content)
  /\ owned' = [owned EXCEPT ![p] = @ \cup {hd[p]}]
  /\ Goto(p, "idle")
  /\ UNCHANGED <<next, arg, hd, nx, batch>>

\* Mutant: the retry takes the head the failed swap reported, but keeps the
\* successor of the old one.
PopRetryStaleNext(p) ==
  /\ pc[p] = "pop_cas"
  /\ CasFails(p)
  /\ hd' = [hd EXCEPT ![p] = m_head]
  /\ UNCHANGED <<m_head, next, pc, arg, nx, owned, content, batch>>

PopRetry(p) ==
  /\ pc[p] = "pop_cas"
  /\ CasFails(p)
  /\ Goto(p, "pop_load")
  /\ UNCHANGED <<next, arg, hd, nx, owned, content, batch>>
-----------------------------------------------------------------------------
(* popAll, and its caller's walk over the detached chain *)

CallPopAll(p) ==
  /\ p \in Drainers /\ pc[p] = "idle"
  /\ Goto(p, "popall_load")
  /\ UNCHANGED <<m_head, next, arg, hd, nx, owned, content, batch>>

PopAllLoad(p) ==
  /\ pc[p] = "popall_load"
  /\ hd' = [hd EXCEPT ![p] = m_head]
  /\ Goto(p, IF m_head = Null THEN "idle" ELSE "popall_cas")
  /\ UNCHANGED <<m_head, next, arg, nx, owned, content, batch>>

\* Mutant: the list is not emptied.
PopAllKeepsList(p) ==
  /\ pc[p] = "popall_cas"
  /\ CasSucceeds(p, m_head)
  /\ batch' = [batch EXCEPT ![p] = content]
  /\ Goto(p, "walk")
  /\ UNCHANGED <<next, arg, hd, nx, owned, content>>

PopAllSwap(p) ==
  /\ pc[p] = "popall_cas"
  /\ CasSucceeds(p, Null)
  /\ batch' = [batch EXCEPT ![p] = content]
  /\ content' = <<>>
  /\ Goto(p, "walk")
  /\ UNCHANGED <<next, arg, hd, nx, owned>>

\* Mutant: the retry compares with the old head again.
PopAllRetryNoReload(p) ==
  /\ pc[p] = "popall_cas"
  /\ CasFails(p)
  /\ UNCHANGED <<m_head, pc, next, arg, hd, nx, owned, content, batch>>

PopAllRetry(p) ==
  /\ pc[p] = "popall_cas"
  /\ CasFails(p)
  /\ Goto(p, "popall_load")
  /\ UNCHANGED <<next, arg, hd, nx, owned, content, batch>>

\* The walker reads get_next() first and only then gives the node away.
WalkLinks(p) ==
  /\ pc[p] = "walk"
  /\ hd' = [hd EXCEPT ![p] = next[hd[p]]]
  /\ batch' = [batch EXCEPT ![p] = Tail(@)]
  /\ Goto(p, IF next[hd[p]] = Null THEN "idle" ELSE "walk")
  /\ UNCHANGED <<m_head, arg, nx, content>>

Walk(p) ==
  /\ WalkLinks(p)
  /\ owned' = [owned EXCEPT ![p] = @ \cup {hd[p]}]
  /\ UNCHANGED next
-----------------------------------------------------------------------------
Push(p) == PushLoad(p) \/ PushLink(p) \/ PushSwap(p) \/ PushRetry(p)
Pop(p) == PopLoad(p) \/ PopNext(p) \/ PopSwap(p) \/ PopRetry(p)
PopAll(p) == PopAllLoad(p) \/ PopAllSwap(p) \/ PopAllRetry(p)

Step(p) ==
  \/ \E n \in Node : CallPush(p, n)
  \/ Push(p)
  \/ CallPop(p)
  \/ Pop(p)
  \/ CallPopAll(p)
  \/ PopAll(p)
  \/ Walk(p)

Next == \E p \in Proc : Step(p)

Spec == Init /\ [][Next]_vars

\* Every thread keeps running and keeps calling, as the test's threads do.
FairSpec == Spec /\ \A p \in Proc : WF_vars(Step(p))
-----------------------------------------------------------------------------
NodeOrNull == Node \cup {Null}

Labels == {"idle", "push_load", "push_link", "push_cas", "pop_load", "pop_next",
           "pop_cas", "popall_load", "popall_cas", "walk"}

\* Type invariant of the list of IList.h:184-255 and of its callers' locals; a
\* loaded head that is about to be dereferenced or returned is a node.
TypeOK ==
  /\ m_head \in NodeOrNull
  /\ next \in [Node -> NodeOrNull]
  /\ pc \in [Proc -> Labels]
  /\ arg \in [Proc -> NodeOrNull]
  /\ hd \in [Proc -> NodeOrNull]
  /\ nx \in [Proc -> NodeOrNull]
  /\ owned \in [Proc -> SUBSET Node]
  /\ content \in Seq(Node)
  /\ batch \in [Proc -> Seq(Node)]
  /\ \A p \in Proc :
       pc[p] \in {"pop_next", "pop_cas", "popall_cas", "walk"} => hd[p] \in Node

\* The i-th node of a chain that is terminated by a null link.
NodeAt(s, i) == IF i <= Len(s) THEN s[i] ELSE Null

\* `first' heads a null-terminated chain of links through exactly s.
Chained(link, first, s) ==
  /\ first = NodeAt(s, 1)
  /\ \A i \in 1..Len(s) : link[s[i]] = NodeAt(s, i + 1)

Distinct(s) == \A i, j \in 1..Len(s) : s[i] = s[j] => i = j

\* The links reachable from m_head are exactly the nodes pushed and not yet
\* removed, newest first: no interleaving of push, pop and popAll loses a
\* node, links one twice or leaves a dangling link (IList.h:205-251).
ListIntact == Chained(next, m_head, content)

\* The chain popAll detached stays intact while its caller walks it, although
\* other threads keep pushing onto the list it came from (IList.h:237-251,
\* SlabAllocator.cpp:156-167).
BatchIntact ==
  \A p \in Proc :
     IF pc[p] = "walk" THEN batch[p] # <<>> /\ Chained(next, hd[p], batch[p])
                       ELSE batch[p] = <<>>

\* No chain is ever broken, neither the list's nor one that popAll detached.
ChainsIntact == TypeOK /\ ListIntact /\ BatchIntact

\* What one thread answers for: what it owns, is pushing, or has detached.
HeldBy(p) == owned[p] \cup ({arg[p]} \ {Null}) \cup Range(batch[p])

\* A node is in one place only: on the list once, in one detached chain once,
\* in one push call or owned by one thread.  Two threads never both hold it,
\* which for an allocator would be one object handed out twice.
OnePlace ==
  /\ Distinct(content)
  /\ \A p \in Proc :
       /\ Distinct(batch[p])
       /\ HeldBy(p) \cap Range(content) = {}
       /\ Range(batch[p]) \cap owned[p] = {}
       /\ arg[p] \notin owned[p] \cup Range(batch[p])
       /\ \A q \in Proc \ {p} : HeldBy(p) \cap HeldBy(q) = {}

\* Between linking its node and the swap, a pusher's node points at the head
\* the swap is going to compare with; nobody else rewrites that link.
PushLinked ==
  \A p \in Proc :
     /\ (pc[p] \in {"push_load", "push_link", "push_cas"}) <=> (arg[p] # Null)
     /\ pc[p] = "push_cas" => next[arg[p]] = hd[p]

\* A thread is inside a call only of the kind it makes.
InOwnCall ==
  \A p \in Proc :
     /\ pc[p] \in {"pop_load", "pop_next", "pop_cas"} => p \in Poppers
     /\ pc[p] \in {"popall_load", "popall_cas", "walk"} => p \in Drainers

\* The node a pop is about to remove is still on the list, and the successor
\* it read is still that node's link, so the swap installs the right head:
\* what a second consumer would break (ABA).
PopStable ==
  \A p \in Poppers :
     /\ pc[p] \in {"pop_next", "pop_cas"} => hd[p] \in Range(content)
     /\ pc[p] = "pop_cas" => nx[p] = next[hd[p]]

\* The list is a linearizable stack: every step of the code is a step of the
\* abstract stack or changes nothing an observer of it can see.
Abstract == INSTANCE AtomicStack WITH stack <- content, pending <- arg
IsAtomicStack == Abstract!ASpec

\* Every node the pushers start with reaches the single consumer for good:
\* the count testUtility.cpp:268-272 waits for.
AllConsumed ==
  \A n \in Node :
     (\E p \in Pushers : n \in owned[p]) ~> (\E c \in Poppers \cup Drainers : n \in owned[c])
=============================================================================
