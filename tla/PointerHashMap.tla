--------------------------- MODULE PointerHashMap ---------------------------
(***************************************************************************)
(* The open-addressing table of src/PointerHashMap.cpp: linear probing,    *)
(* erase by shifting later entries back, resize by inserting everything    *)
(* again.  BuddyManager finds a chunk's bookkeeping node with it.  One     *)
(* thread calls it; the loops of erase and resize are one action per       *)
(* iteration, so that what each iteration relies on can be stated.         *)
(***************************************************************************)
EXTENDS Integers, FiniteSetsExt

CONSTANTS
  Key,             \* the addresses used as keys
  Val,             \* the values stored
  Null,            \* the value of an empty cell
  InitialBuckets,  \* num_buckets
  LoadNum, LoadDen \* m_load_factor is LoadNum / LoadDen

nullptr == 0  \* as a key

ASSUME KeyAssumption == Key \subseteq Nat \ {nullptr}
ASSUME NullAssumption == Null \notin Val

\* The masks of get_ideal_bucket and get_next_bucket are remainders only for
\* powers of two; DEFAULT_NUM_BUCKETS is one.  The constructor refuses a load
\* factor above 0.99, and with the defaults one entry always fits.  It does
\* not check the other conjuncts, but nobody calls it with other values.
ASSUME TableAssumption ==
  /\ InitialBuckets \in Nat \ {0}
  /\ \E k \in 0..InitialBuckets : InitialBuckets = 2^k
  /\ LoadNum \in Nat /\ LoadDen \in Nat \ {0}
  /\ 100 * LoadNum <= 99 * LoadDen
  /\ InitialBuckets * LoadNum >= LoadDen

VARIABLES
  m_num_buckets,
  m_buckets,        \* m_buckets[b]: the cell of bucket b
  m_element_count,
  loop,             \* "idle", or inside the loop of "resize" or "erase"
  old_buckets,      \* resize: the table being emptied
  index,            \* resize: the next bucket of old_buckets
  pending,          \* resize: the pair insert was called with
  hole,             \* erase: `bucket', the cell that will be emptied
  neighbour         \* erase: the cell looked at next

mapVars == <<m_num_buckets, m_buckets, m_element_count, loop, old_buckets, index,
          pending, hole, neighbour>>

EmptyCell == [first |-> nullptr, second |-> Null]
Bucket == 0..(m_num_buckets - 1)
EmptyTable(n) == [b \in 0..(n - 1) |-> EmptyCell]

hash(key) == key  \* std::hash of a pointer is its address

\* The map at rest, between two calls.
AtRest ==
  /\ loop = "idle"
  /\ old_buckets = <<>> /\ index = 0 /\ pending = EmptyCell
  /\ hole = 0 /\ neighbour = 0

MapInit ==
  /\ m_num_buckets = InitialBuckets
  /\ m_buckets = EmptyTable(InitialBuckets)
  /\ m_element_count = 0
  /\ AtRest
-----------------------------------------------------------------------------
get_ideal_bucket(key) == hash(key) % m_num_buckets

get_next_bucket(bucket) == (bucket + 1) % m_num_buckets

\* CIRCULAR_OFFSET: how many steps of get_next_bucket lead from a to b.
Offset(a, b) == (b - a) % m_num_buckets

\* The first bucket from the ideal one on that is empty or has the key.
get_bucket(key) ==
  LET ideal == get_ideal_bucket(key)
      stops == {d \in Bucket : m_buckets[(ideal + d) % m_num_buckets].first \in {nullptr, key}}
  IN (ideal + Min(stops)) % m_num_buckets

\* Mutant (here and below, each before the definition it would replace): no
\* wraparound.
IsBetweenNoWrap(bucket, start, end) == start <= bucket /\ bucket < end

is_between(bucket, start, end) == Offset(start, bucket) < Offset(start, end)

find(key) ==
  LET cell == m_buckets[get_bucket(key)]
  IN IF key # nullptr /\ cell.first # nullptr THEN cell.second ELSE Null
-----------------------------------------------------------------------------
(* insert *)

NeedsResize == (m_element_count + 1) * LoadDen > m_num_buckets * LoadNum

\* The rest of insert.  A null key and a key that is there change nothing.
Put(key, val) ==
  IF key # nullptr /\ m_buckets[get_bucket(key)].first = nullptr
  THEN /\ m_buckets' = [m_buckets EXCEPT ![get_bucket(key)] = [first |-> key, second |-> val]]
       /\ m_element_count' = m_element_count + 1
  ELSE UNCHANGED <<m_buckets, m_element_count>>

Insert(key, val) ==
  /\ loop = "idle"
  /\ ~NeedsResize
  /\ Put(key, val)
  /\ UNCHANGED <<m_num_buckets, loop, old_buckets, index, pending, hole, neighbour>>

SameBuckets == m_num_buckets  \* mutant: the number is not doubled

NewBuckets == 2 * m_num_buckets

\* insert up to the loop of resize.
InsertResizes(key, val) ==
  /\ loop = "idle"
  /\ NeedsResize
  /\ loop' = "resize"
  /\ old_buckets' = m_buckets
  /\ m_num_buckets' = NewBuckets
  /\ m_buckets' = EmptyTable(NewBuckets)
  /\ m_element_count' = 0
  /\ index' = 0
  /\ pending' = [first |-> key, second |-> val]
  /\ UNCHANGED <<hole, neighbour>>

OldBuckets == m_num_buckets \div 2

LastBucketMissed == OldBuckets - 1  \* mutant: the loop is one round short

RoundsOfResize == OldBuckets

\* One round: insert what the old bucket holds.  That this insert needs no
\* resize of its own is ResizeIsEnough.
ResizeMoves ==
  /\ loop = "resize"
  /\ index < RoundsOfResize
  /\ Put(old_buckets[index].first, old_buckets[index].second)
  /\ index' = index + 1
  /\ UNCHANGED <<m_num_buckets, loop, old_buckets, pending, hole, neighbour>>

\* The loop is over: the insert that needed the room goes on.
ResizeEnds ==
  /\ loop = "resize"
  /\ index = RoundsOfResize
  /\ Put(pending.first, pending.second)
  /\ loop' = "idle"
  /\ old_buckets' = <<>>
  /\ index' = 0
  /\ pending' = EmptyCell
  /\ UNCHANGED <<m_num_buckets, hole, neighbour>>
-----------------------------------------------------------------------------
(* erase *)

\* A null key and a key that is not there change nothing.
Erase(key) ==
  /\ loop = "idle"
  /\ key # nullptr
  /\ m_buckets[get_bucket(key)].first = key
  /\ loop' = "erase"
  /\ hole' = get_bucket(key)
  /\ neighbour' = get_next_bucket(get_bucket(key))
  /\ UNCHANGED <<m_num_buckets, m_buckets, m_element_count, old_buckets, index, pending>>

Fits(n) == is_between(hole, get_ideal_bucket(m_buckets[n].first), n)

\* The neighbour may live in the hole: they change places.
EraseShifts ==
  /\ loop = "erase"
  /\ m_buckets[neighbour].first # nullptr
  /\ Fits(neighbour)
  /\ m_buckets' = [m_buckets EXCEPT ![hole] = m_buckets[neighbour],
                                    ![neighbour] = m_buckets[hole]]
  /\ hole' = neighbour
  /\ neighbour' = get_next_bucket(neighbour)
  /\ UNCHANGED <<m_num_buckets, m_element_count, loop, old_buckets, index, pending>>

SameNeighbour == neighbour  \* mutant: the loop does not go on

NextNeighbour == get_next_bucket(neighbour)

EraseSkips ==
  /\ loop = "erase"
  /\ m_buckets[neighbour].first # nullptr
  /\ ~Fits(neighbour)
  /\ neighbour' = NextNeighbour
  /\ UNCHANGED <<m_num_buckets, m_buckets, m_element_count, loop, old_buckets, index,
                 pending, hole>>

EraseEnds ==
  /\ loop = "erase"
  /\ m_buckets[neighbour].first = nullptr
  /\ m_buckets' = [m_buckets EXCEPT ![hole] = EmptyCell]
  /\ m_element_count' = m_element_count - 1
  /\ loop' = "idle"
  /\ hole' = 0
  /\ neighbour' = 0
  /\ UNCHANGED <<m_num_buckets, old_buckets, index, pending>>
-----------------------------------------------------------------------------
Loop == ResizeMoves \/ ResizeEnds \/ EraseShifts \/ EraseSkips \/ EraseEnds

Call ==
  \/ \E key \in Key \cup {nullptr}, val \in Val : Insert(key, val) \/ InsertResizes(key, val)
  \/ \E key \in Key : Erase(key)

MapNext == Call \/ Loop

MapSpec == MapInit /\ [][MapNext]_mapVars

\* A call that is in a loop goes on; nobody has to make a call.
MapFairSpec == MapSpec /\ WF_mapVars(Loop)
-----------------------------------------------------------------------------
Full(cell) == cell.first # nullptr
Occupied == {b \in Bucket : Full(m_buckets[b])}

\* Type invariant: the fields of PointerHashMap.h:55-58 and the loops' locals.
MapTypeOK ==
  /\ m_num_buckets \in Nat \ {0}
  /\ m_buckets \in [Bucket -> [first : Key \cup {nullptr}, second : Val \cup {Null}]]
  /\ m_element_count \in 0..m_num_buckets
  /\ loop \in {"idle", "resize", "erase"}
  /\ loop = "resize" => /\ old_buckets \in [0..(OldBuckets - 1) ->
                             [first : Key \cup {nullptr}, second : Val \cup {Null}]]
                      /\ index \in 0..OldBuckets
  /\ pending \in [first : Key \cup {nullptr}, second : Val \cup {Null}]
  /\ hole \in Bucket /\ neighbour \in Bucket

\* Between an entry and its ideal bucket no cell is empty, also across the end
\* of the table, so that a probe finds it (PointerHashMap.cpp:60-61).  While
\* erase shifts, no entry already passed depends on the cell about to be
\* emptied (PointerHashMap.cpp:112-123).
ProbesUnbroken ==
  \A b \in Occupied :
    LET ideal == get_ideal_bucket(m_buckets[b].first)
    IN ~(loop = "erase" /\ b = hole) =>
         /\ \A c \in Bucket : Offset(ideal, c) < Offset(ideal, b) => c \in Occupied
         /\ (loop = "erase" /\ Offset(hole, b) < Offset(hole, neighbour))
              => ~is_between(hole, ideal, b)

\* A cell is always free, which is what ends the loops of get_bucket and of
\* erase (PointerHashMap.cpp:60, 113).
NeverFull == Occupied # Bucket

\* The inserts of resize do not resize: the recursion insert - resize -
\* insert is one deep (PointerHashMap.cpp:81, 142-143).
ResizeIsEnough == loop = "resize" => ~NeedsResize

\* The pairs in the map: during erase the hole's entry is gone, during resize
\* entries are in one of two tables.
CellPair(cell) == <<cell.first, cell.second>>
Pairs ==
  {CellPair(m_buckets[b]) : b \in Occupied \ (IF loop = "erase" THEN {hole} ELSE {})}
  \cup (IF loop = "resize"
        THEN {CellPair(old_buckets[i]) :
                i \in {j \in index..(OldBuckets - 1) : Full(old_buckets[j])}}
        ELSE {})

\* find gives exactly the value a key was inserted with (PointerHashMap.cpp:73-77).
FindCorrect ==
  loop = "idle" =>
    \A key \in Key : IF \E v \in Val : <<key, v>> \in Pairs
                     THEN <<key, find(key)>> \in Pairs
                     ELSE find(key) = Null

\* Whatever is in the map can be reached, and every probe ends.
EntriesReachable == MapTypeOK /\ NeverFull /\ ProbesUnbroken /\ FindCorrect

\* The table implements the abstract map: no call, and no iteration of a loop,
\* loses or invents an entry.
Map == INSTANCE PartialMap WITH Keys <- Key, Values <- Val, pairs <- Pairs
IsPartialMap == Map!PSpec

\* Every insert and every erase returns.
CallsReturn == loop # "idle" ~> loop = "idle"
=============================================================================
