---------------------------- MODULE MCStructures ----------------------------
\* The sequential structures under both allocators, for TLC: one of the three
\* lists, the hash map or the buddy allocator of one chunk is in use; the
\* others keep their initial values.
EXTENDS PointerHashMap, ForwardList, List, SpanList, StandAloneBuddyManager

CONSTANTS v1, v2

TwoValues == {v1, v2}

NoLinks == [n \in Node |-> End]
NoRingLinks == [n \in Address |-> End]

VARIABLE used  \* the structure in use

chunkVars == vars
allVars == <<mapVars, forwardVars, ringVars, spanVars, chunkVars, used>>

StructuresInit ==
  /\ used \in {"map", "forward", "ring", "spans", "chunk"}
  /\ MapInit
  /\ ForwardInit /\ (used # "forward" => next = NoLinks /\ prev = NoLinks)
  /\ RingInit /\ (used # "ring" => succ = NoRingLinks /\ pred = NoRingLinks)
  /\ SpanInit /\ (used # "spans" => next_span = NoLinks /\ prev_span = NoLinks)
  /\ Init

MapLoop ==
  used = "map" /\ Loop /\ UNCHANGED <<forwardVars, ringVars, spanVars, chunkVars, used>>

StructuresNext ==
  \/ MapLoop
  \/ used = "map" /\ Call /\ UNCHANGED <<forwardVars, ringVars, spanVars, chunkVars, used>>
  \/ used = "forward" /\ ForwardNext /\ UNCHANGED <<mapVars, ringVars, spanVars, chunkVars, used>>
  \/ used = "ring" /\ RingNext /\ UNCHANGED <<mapVars, forwardVars, spanVars, chunkVars, used>>
  \/ used = "spans" /\ SpanNext /\ UNCHANGED <<mapVars, forwardVars, ringVars, chunkVars, used>>
  \/ used = "chunk" /\ Next /\ UNCHANGED <<mapVars, forwardVars, ringVars, spanVars, used>>

StructuresSpec == StructuresInit /\ [][StructuresNext]_allVars /\ WF_allVars(MapLoop)
=============================================================================
