------------------------------- MODULE MapStorage -------------------------------
(***************************************************************************)
(* The storage of a Map or a Set (packages/runtime/src/jsrt_map.c): a      *)
(* dense array of entries in insertion order, where a deletion leaves a    *)
(* dead entry, and an open-addressed index of it, probed linearly, that    *)
(* deletions never touch.  One map is a record m:                          *)
(*   size       live entries                                               *)
(*   entries    entries[0..used) of the C array, numbered from 1           *)
(*   capacity   how many entries the array has room for                    *)
(*   index      slot -> 0 (empty) or the number of an entry                *)
(*   iterating  walks in progress, which suppress compaction               *)
(***************************************************************************)
EXTENDS Naturals, Sequences, FiniteSets

CONSTANTS
  Key, Val,         \* keys and values
  PosZero, NegZero, \* +0 and -0, which may or may not be among the keys
  Undefined,        \* what a deleted entry holds
  Refused,          \* the keys a weak collection refuses ({} for Map and Set)
  Hash,             \* the mixed hash of a key, before the index mask
  FirstCapacity,    \* capacity of the first allocation (8 in the code)
  FirstSlots        \* least number of index slots (16 in the code)

ASSUME MapAssumption ==
  /\ PosZero # NegZero
  /\ NegZero \in Key => PosZero \in Key
  /\ Undefined \notin Key \cup Val
  /\ Refused \subseteq Key
  /\ Hash \in [Key -> Nat]
  /\ FirstCapacity \in Nat \ {0} /\ FirstSlots \in Nat \ {0}

Entry == [key : Key \cup {Undefined}, value : Val \cup {Undefined}, live : BOOLEAN]

\* -0 is stored, and hashed, as +0.
NormalizedKey(k) == IF k = NegZero THEN PosZero ELSE k
HashKey(k) == Hash[NormalizedKey(k)]
SameValueZero(a, b) == NormalizedKey(a) = NormalizedKey(b)

Used(m) == Len(m.entries)
Slots(m) == Cardinality(DOMAIN m.index)

\* clear() and a fresh map share this state, but for the walks in progress.
Reset(iterating) == [size |-> 0, entries |-> <<>>, capacity |-> 0,
                     index |-> <<>>, iterating |-> iterating]

-----------------------------------------------------------------------------

\* The slot d steps along the probe chain of k, and whether the probe stops there.
ProbeSlot(index, k, d) == (HashKey(k) + d) % Cardinality(DOMAIN index)

IsHit(entries, index, k, s) ==
  index[s] # 0 /\ entries[index[s]].live /\ SameValueZero(entries[index[s]].key, k)

Stops(entries, index, k, d) ==
  LET s == ProbeSlot(index, k, d) IN index[s] = 0 \/ IsHit(entries, index, k, s)

ProbeEnds(entries, index, k) == \E d \in 0..(Cardinality(DOMAIN index) - 1) : Stops(entries, index, k, d)

\* The slot the probe for k leaves the caller on.
Probe(entries, index, k) ==
  ProbeSlot(index, k,
            CHOOSE d \in 0..(Cardinality(DOMAIN index) - 1) :
              Stops(entries, index, k, d) /\ \A e \in 0..(d - 1) : ~Stops(entries, index, k, e))

\* The number of the live entry that holds k, or 0.
Find(m, k) == IF m.index = <<>> THEN 0
              ELSE LET s == Probe(m.entries, m.index, k)
                   IN IF IsHit(m.entries, m.index, k, s) THEN m.index[s] ELSE 0

-----------------------------------------------------------------------------

\* Mutants of GrownCapacity: compaction is not expected while a walk is in progress
\* (the array keeps its size); dead entries are counted as if they were live.
GrownCapacityLive(m) ==
  IF m.size + 1 > m.capacity \div 2
  THEN IF m.capacity = 0 THEN FirstCapacity ELSE 2 * m.capacity
  ELSE m.capacity

GrownCapacityUsed(m) == IF m.capacity = 0 THEN FirstCapacity ELSE 2 * m.capacity

\* Room for one more: double when the live entries fill half the array, or when
\* a walk forbids compacting the dead ones away.
GrownCapacity(m) ==
  IF m.iterating > 0 \/ m.size + 1 > m.capacity \div 2
  THEN IF m.capacity = 0 THEN FirstCapacity ELSE 2 * m.capacity
  ELSE m.capacity

SlotCount(capacity) ==
  LET s[n \in 0..capacity] == IF n = 0 THEN FirstSlots
                              ELSE IF s[n - 1] < capacity * 2 THEN 2 * s[n - 1] ELSE s[n - 1]
  IN s[capacity]

\* The copying loop, after each entry: the live ones of those before, in order.
Kept(entries) ==
  LET kept[n \in 0..Len(entries)] ==
        IF n = 0 THEN <<>>
        ELSE IF entries[n].live THEN Append(kept[n - 1], entries[n])
             ELSE kept[n - 1]
  IN kept

\* Mutant of Survivors: compacts under the feet of a walk.
SurvivorsAlways(m) == Kept(m.entries)[Used(m)]

Survivors(m) == IF m.iterating = 0 THEN Kept(m.entries)[Used(m)] ELSE m.entries

\* The index over the live ones of the entries, inserted in order.
Reindexed(entries, slots) ==
  LET index[n \in 0..Len(entries)] ==
        IF n = 0 THEN [s \in 0..(slots - 1) |-> 0]
        ELSE IF entries[n].live
             THEN [index[n - 1] EXCEPT ![Probe(entries, index[n - 1], entries[n].key)] = n]
             ELSE index[n - 1]
  IN index[Len(entries)]

Grow(m) ==
  LET capacity == GrownCapacity(m)
      entries  == Survivors(m)
  IN [m EXCEPT !.capacity = capacity,
               !.entries = entries,
               !.index = Reindexed(entries, SlotCount(capacity))]

\* Mutant of Put: the key is stored as it was given, -0 included.
PutRaw(m, rawKey, v) ==
  LET at == Find(m, rawKey)
      g  == IF Used(m) = m.capacity THEN Grow(m) ELSE m
  IN CASE rawKey \in Refused -> m
       [] rawKey \notin Refused /\ at # 0 -> [m EXCEPT !.entries[at].value = v]
       [] OTHER -> [g EXCEPT !.index[Probe(g.entries, g.index, rawKey)] = Used(g) + 1,
                             !.entries = Append(@, [key |-> rawKey, value |-> v, live |-> TRUE]),
                             !.size = @ + 1]

\* map_put: an existing key keeps its place; a new one is appended.
Put(m, rawKey, v) ==
  LET key == NormalizedKey(rawKey)
      at  == Find(m, key)
      g   == IF Used(m) = m.capacity THEN Grow(m) ELSE m
  IN CASE rawKey \in Refused -> m
       [] rawKey \notin Refused /\ at # 0 -> [m EXCEPT !.entries[at].value = v]
       [] OTHER -> [g EXCEPT !.index[Probe(g.entries, g.index, key)] = Used(g) + 1,
                             !.entries = Append(@, [key |-> key, value |-> v, live |-> TRUE]),
                             !.size = @ + 1]

\* Mutant of Delete: the slot that led to the entry is emptied too, which cuts the
\* probe chains that pass it.
DeleteUnindexed(m, k) ==
  LET at == Find(m, k)
  IN IF at = 0 THEN m
     ELSE [m EXCEPT !.entries[at] = [key |-> Undefined, value |-> Undefined, live |-> FALSE],
                    !.index[Probe(m.entries, m.index, NormalizedKey(k))] = 0,
                    !.size = @ - 1]

\* Blanked, not removed: the entries after it keep their numbers, and the index
\* still leads to it.
Delete(m, k) ==
  LET at == Find(m, k)
  IN IF at = 0 THEN m
     ELSE [m EXCEPT !.entries[at] = [key |-> Undefined, value |-> Undefined, live |-> FALSE],
                    !.size = @ - 1]

Clear(m) == Reset(m.iterating)

-----------------------------------------------------------------------------
(* What holds of every storage the operators above build.                  *)

LiveIn(entries) == {i \in 1..Len(entries) : entries[i].live}

\* A live entry holds a key in its normal form, and no other entry holds it.
KeysOnce(entries) ==
  \A i \in LiveIn(entries) :
    /\ entries[i].key \in Key /\ NormalizedKey(entries[i].key) = entries[i].key
    /\ entries[i].value \in Val
    /\ \A j \in LiveIn(entries) : entries[j].key = entries[i].key => i = j

\* The probe for k comes to entry n before any empty slot.
OnChain(index, k, n) ==
  \E d \in 0..(Cardinality(DOMAIN index) - 1) :
    /\ index[ProbeSlot(index, k, d)] = n
    /\ \A e \in 0..(d - 1) : index[ProbeSlot(index, k, e)] # 0

\* The slots lead to the first n entries, one to each at most, and every live one
\* of them is on the chain of its key: no deletion has cut it.
Indexed(entries, index, n) ==
  /\ index \in [0..(Cardinality(DOMAIN index) - 1) -> 0..n]
  /\ \A s, t \in DOMAIN index : index[s] = index[t] /\ index[s] # 0 => s = t
  /\ \A i \in 1..n : entries[i].live => OnChain(index, entries[i].key, i)

StorageInv(m) ==
  /\ m = [size |-> m.size, entries |-> m.entries, capacity |-> m.capacity,
          index |-> m.index, iterating |-> m.iterating]
  /\ m.capacity \in Nat /\ m.iterating \in Nat
  /\ m.entries \in Seq(Entry) /\ Used(m) <= m.capacity
  /\ KeysOnce(m.entries)
  /\ m.size = Cardinality(LiveIn(m.entries))
  /\ m.capacity = 0 => m.index = <<>>
  /\ m.capacity > 0 => /\ Indexed(m.entries, m.index, Used(m))
                       /\ Slots(m) \in Nat /\ Slots(m) > m.capacity
================================================================================
