--------------------------------- MODULE MapWalk ---------------------------------
(***************************************************************************)
(* A Map or a Set while it is walked: forEach, for-of and stored iterators *)
(* hold an index into the entries array between two steps, and the program *)
(* may change the map in between (jsrt_map.c; the stored iterators of      *)
(* jsrt_iterator.c; the for-of loops codegen/index.ts emits).              *)
(***************************************************************************)
EXTENDS MapStorage

CONSTANTS
  Walk,          \* walks that may be in progress at a time
  Idle,          \* the cursor of a walk that is not in progress
  MaxCapacity,   \* bound: the array is not grown beyond this
  ClearInWalk    \* may the program clear the map while it is walked?

ASSUME WalkAssumption ==
  Idle \notin Nat /\ IsFiniteSet(Walk) /\ MaxCapacity \in Nat /\ ClearInWalk \in BOOLEAN

VARIABLES
  map,     \* the storage
  cursor,  \* entries each walk has passed, or Idle
  seen     \* history: the keys each walk was given, while they stay in the map

vars == <<map, cursor, seen>>

Walking == {w \in Walk : cursor[w] # Idle}

Init ==
  /\ map = Reset(0)
  /\ cursor = [w \in Walk |-> Idle]
  /\ seen = [w \in Walk |-> {}]

Set(k, v) ==
  /\ Used(map) = map.capacity => GrownCapacity(map) <= MaxCapacity
  /\ map' = Put(map, k, v)
  /\ UNCHANGED <<cursor, seen>>

Remove(k) ==
  /\ map' = Delete(map, k)
  /\ seen' = [w \in Walk |-> seen[w] \ {NormalizedKey(k)}]
  /\ UNCHANGED cursor

ClearAll ==
  /\ Walking # {} => ClearInWalk
  /\ map' = Clear(map)
  /\ seen' = [w \in Walk |-> {}]
  /\ UNCHANGED cursor

\* forEach, the head of a for-of, or the making of a stored iterator.
Begin(w) ==
  /\ cursor[w] = Idle
  /\ map' = [map EXCEPT !.iterating = @ + 1]
  /\ cursor' = [cursor EXCEPT ![w] = 0]
  /\ UNCHANGED seen

\* The live entries a walk has still ahead of it.
Ahead(w) == {i \in (cursor[w] + 1)..Used(map) : map.entries[i].live}

\* The next live entry is given to the body, which runs until the next action of w.
Visit(w) ==
  /\ cursor[w] # Idle
  /\ \E i \in Ahead(w) :
       /\ \A j \in Ahead(w) : i <= j
       /\ cursor' = [cursor EXCEPT ![w] = i]
       /\ seen' = [seen EXCEPT ![w] = @ \cup {map.entries[i].key}]
  /\ UNCHANGED map

EndWalk(w) ==
  /\ map' = [map EXCEPT !.iterating = @ - 1]
  /\ cursor' = [cursor EXCEPT ![w] = Idle]
  /\ seen' = [seen EXCEPT ![w] = {}]

\* The step that finds nothing more ends the walk.
Exhaust(w) == cursor[w] # Idle /\ Ahead(w) = {} /\ EndWalk(w)

\* A break, a return or a throw out of the body; a pending exception in forEach.
Leave(w) == cursor[w] # Idle /\ EndWalk(w)

Next ==
  \/ \E k \in Key, v \in Val : Set(k, v)
  \/ \E k \in Key : Remove(k)
  \/ ClearAll
  \/ \E w \in Walk : Begin(w) \/ Visit(w) \/ Exhaust(w) \/ Leave(w)

Spec == Init /\ [][Next]_vars

-----------------------------------------------------------------------------

TypeOK ==
  /\ map.size \in Nat /\ map.capacity \in Nat /\ map.iterating \in Nat
  /\ map.entries \in Seq(Entry) /\ Used(map) <= map.capacity
  /\ map.index \in [DOMAIN map.index -> 0..Used(map)]
  /\ cursor \in [Walk -> Nat \cup {Idle}]
  /\ seen \in [Walk -> SUBSET Key]

LiveAt(k) == {i \in 1..Used(map) : map.entries[i].live /\ SameValueZero(map.entries[i].key, k)}

\* The index is exact: for every key the probe ends, and finds the one live entry
\* that holds it if there is one; size counts the live entries.
IndexExact ==
  /\ map.size = Cardinality({i \in 1..Used(map) : map.entries[i].live})
  /\ \A k \in Key :
       /\ map.index # <<>> => ProbeEnds(map.entries, map.index, k)
       /\ LiveAt(k) = IF Find(map, k) = 0 THEN {} ELSE {Find(map, k)}

\* A walk has been given every live entry it has passed, and none of those ahead of
\* it: nothing is skipped and nothing is given twice, whatever the body adds,
\* deletes or overwrites.
WalkExact ==
  \A w \in Walking :
    \A i \in 1..Used(map) :
      map.entries[i].live => (i <= cursor[w] <=> map.entries[i].key \in seen[w])

\* "the spec visits entries added during the walk" (jsrt_map.c, for_each): a walk
\* never goes past a live entry it has not been given, so an entry added while it
\* is in progress is visited before it ends.
AddedIsVisited ==
  \A w \in Walking :
    \A i \in 1..Used(map) :
      i <= cursor[w] /\ map.entries[i].live => map.entries[i].key \in seen[w]

\* A set/delete loop does not grow the array without bound, and neither does an
\* iterator that was stored and has ended: only a walk still in progress makes the
\* array larger than four entries for each live one.
StorageBounded ==
  [][map'.capacity > map.capacity =>
       \/ Walking # {}
       \/ map'.capacity <= FirstCapacity
       \/ map'.capacity < 4 * (Cardinality({i \in 1..Used(map) : map.entries[i].live}) + 1)]_vars

\* Whatever the program does, the storage is sound and the map knows how many walks
\* are in progress, which is what forbids compaction under them.
StoredInv == TypeOK /\ StorageInv(map) /\ map.iterating = Cardinality(Walking)

\* A walk is within the entries, and has been given exactly the live ones it has
\* passed.
WalkInv ==
  /\ \A w \in Walking : cursor[w] <= Used(map)
  /\ \A w \in Walk :
       seen[w] = IF cursor[w] = Idle THEN {}
                 ELSE {map.entries[i].key : i \in LiveIn(map.entries) \cap (1..cursor[w])}

\* The inductive invariant of a map that no body clears while it is walked.
MapInv == StoredInv /\ WalkInv

-----------------------------------------------------------------------------
(* What the program sees: the live entries in order, and how many of them  *)
(* each walk has passed.                                                   *)

LiveUpTo(n) ==
  LET upTo == Kept(map.entries)[n]
  IN [i \in DOMAIN upTo |-> [key |-> upTo[i].key, value |-> upTo[i].value]]

order == LiveUpTo(Used(map))
passed == [w \in Walk |-> IF cursor[w] = Idle THEN Idle
                          ELSE Len(LiveUpTo(IF cursor[w] < Used(map) THEN cursor[w] ELSE Used(map)))]

Abstract == INSTANCE OrderedMap WITH Same <- SameValueZero, Normal <- NormalizedKey

\* The dense array, the index and the cursors implement an insertion-ordered map
\* whose walks go on through every change.
ImplementsOrderedMap == Abstract!Spec
================================================================================
