------------------------------- MODULE MapProofs -------------------------------
(***************************************************************************)
(* The storage of a map, with its index and its walks, for any keys, any   *)
(* hash of them and any number of walks.                                   *)
(***************************************************************************)
EXTENDS MapWalk, Induction, FiniteSetTheorems, SequenceTheorems

-----------------------------------------------------------------------------
(* Keys.                                                                   *)

\* The normal form is a key, and has the hash of the key it stands for.
LEMMA NormalKey ==
  ASSUME NEW k \in Key
  PROVE  /\ NormalizedKey(k) \in Key /\ NormalizedKey(NormalizedKey(k)) = NormalizedKey(k)
         /\ HashKey(k) \in Nat /\ HashKey(NormalizedKey(k)) = HashKey(k)
BY MapAssumption DEF NormalizedKey, HashKey

-----------------------------------------------------------------------------
(* One probe.                                                              *)

\* An index of n slots.
Table(index, n) == n \in Nat \ {0} /\ index \in [0..(n - 1) -> Nat]

\* The numbers from 1 to n are n.
LEMMA CountUpTo ==
  ASSUME NEW n \in Nat
  PROVE  IsFiniteSet(1..n) /\ Cardinality(1..n) = n
<1>1. 1 \in Int /\ n \in Int
  OBVIOUS
<1> QED BY <1>1, FS_Interval

\* A table of n slots has n slots, by its domain.
LEMMA TableSize ==
  ASSUME NEW index, NEW n, Table(index, n)
  PROVE  Cardinality(DOMAIN index) = n /\ n \in Nat /\ n > 0
<1>1. DOMAIN index = 0..(n - 1) /\ n \in Nat /\ n > 0
  BY DEF Table
<1>2. Cardinality(0..(n - 1)) = n
  BY <1>1, FS_Interval
<1> QED BY <1>1, <1>2

\* Every step of a probe is on a slot, and one of its steps is on any given slot.
LEMMA ProbeSlots ==
  ASSUME NEW index, NEW n, Table(index, n), NEW k \in Key
  PROVE  /\ \A d \in Nat : ProbeSlot(index, k, d) \in 0..(n - 1)
         /\ \A s \in 0..(n - 1) : \E d \in 0..(n - 1) : ProbeSlot(index, k, d) = s
<1>1. Cardinality(DOMAIN index) = n /\ n \in Nat \ {0}
  BY TableSize
<1> DEFINE h == HashKey(k)
<1>2. h \in Nat
  BY NormalKey
<1>3. \A d : ProbeSlot(index, k, d) = (h + d) % n
  BY <1>1 DEF ProbeSlot
<1> HIDE DEF h
<1>4. ASSUME NEW d \in Nat PROVE (h + d) % n \in 0..(n - 1)
  BY <1>1, <1>2, ModRange
<1>5. ASSUME NEW s \in 0..(n - 1) PROVE \E d \in 0..(n - 1) : (h + d) % n = s
  BY <1>1, <1>2, ProbeReaches
<1> QED BY <1>3, <1>4, <1>5

\* The probe leaves the caller on the first slot it stops at.
StopsFirst(entries, index, k, d) ==
  /\ Stops(entries, index, k, d) /\ Probe(entries, index, k) = ProbeSlot(index, k, d)
  /\ \A e \in 0..(d - 1) : ~Stops(entries, index, k, e)

\* A probe ends when some slot is empty, on the first slot it stops at.
LEMMA ProbeStops ==
  ASSUME NEW entries, NEW index, NEW n, Table(index, n), NEW k \in Key,
         NEW s \in 0..(n - 1), index[s] = 0
  PROVE  /\ ProbeEnds(entries, index, k)
         /\ \E d \in 0..(n - 1) : StopsFirst(entries, index, k, d)
<1>1. Cardinality(DOMAIN index) = n /\ n \in Nat \ {0}
  BY TableSize
<1> DEFINE T == {d \in 0..(n - 1) : Stops(entries, index, k, d)}
<1>2. PICK c \in 0..(n - 1) : ProbeSlot(index, k, c) = s
  BY ProbeSlots
<1>3. c \in T
  BY <1>2 DEF Stops
<1>4. PICK d \in T : \A e \in T : d <= e
  <2>1. T \subseteq Nat /\ T # {}
    BY <1>1, <1>3
  <2> HIDE DEF T
  <2> QED BY <2>1, LeastNat
<1>5. d \in 0..(n - 1) /\ Stops(entries, index, k, d) /\ \A e \in 0..(d - 1) : ~Stops(entries, index, k, e)
  BY <1>1, <1>4
<1> DEFINE First(x) == Stops(entries, index, k, x) /\ \A e \in 0..(x - 1) : ~Stops(entries, index, k, e)
           b == CHOOSE x \in 0..(n - 1) : First(x)
<1>6. b \in 0..(n - 1) /\ First(b)
  BY <1>5
<1>7. Probe(entries, index, k) = ProbeSlot(index, k, b)
  BY <1>1 DEF Probe
<1>8. StopsFirst(entries, index, k, b)
  BY <1>6, <1>7 DEF StopsFirst
<1>9. ProbeEnds(entries, index, k)
  BY <1>1, <1>5 DEF ProbeEnds
<1> QED BY <1>6, <1>8, <1>9

\* Two keys that are the same have one hash, and one chain.
LEMMA SameChain ==
  ASSUME NEW j \in Key, NEW k \in Key, SameValueZero(j, k), NEW index, NEW d
  PROVE  ProbeSlot(index, j, d) = ProbeSlot(index, k, d)
BY NormalKey DEF SameValueZero, ProbeSlot, HashKey

-----------------------------------------------------------------------------
(* A probe of an index that is not full.                                   *)

\* The index of the first n entries, with at least one slot more than those.
Roomy(entries, index, n, slots) ==
  /\ entries \in Seq(Entry) /\ n \in 0..Len(entries)
  /\ Indexed(entries, index, n)
  /\ slots = Cardinality(DOMAIN index) /\ slots \in Nat /\ slots > n

\* What Roomy says of the slots.
LEMMA RoomyTable ==
  ASSUME NEW entries, NEW index, NEW n, NEW slots, Roomy(entries, index, n, slots)
  PROVE  /\ Table(index, slots) /\ index \in [0..(slots - 1) -> 0..n]
         /\ n \in Nat /\ slots \in Nat
<1>1. /\ index \in [0..(slots - 1) -> 0..n] /\ n \in Nat /\ slots \in Nat \ {0}
  BY DEF Roomy, Indexed
<1> QED BY <1>1 DEF Table

\* Such an index has an empty slot, because its slots lead to different entries.
LEMMA EmptySlot ==
  ASSUME NEW entries, NEW index, NEW n, NEW slots, Roomy(entries, index, n, slots)
  PROVE  \E s \in 0..(slots - 1) : index[s] = 0
<1>1. index \in [0..(slots - 1) -> 0..n] /\ n \in Nat /\ slots \in Nat /\ slots > n
  BY RoomyTable DEF Roomy
<1> SUFFICES ASSUME \A s \in 0..(slots - 1) : index[s] # 0 PROVE FALSE
  OBVIOUS
<1>2. index \in [0..(slots - 1) -> 1..n]
  BY <1>1
<1>3. /\ IsFiniteSet(0..(slots - 1)) /\ Cardinality(0..(slots - 1)) = slots
      /\ IsFiniteSet(1..n) /\ Cardinality(1..n) = n
  BY <1>1, FS_Interval
<1>4. PICK s, t \in 0..(slots - 1) : s # t /\ index[s] = index[t]
  BY <1>1, <1>2, <1>3, FS_PigeonHole
<1>5. \A a, b \in DOMAIN index : index[a] = index[b] /\ index[a] # 0 => a = b
  BY DEF Roomy, Indexed
<1> QED BY <1>1, <1>4, <1>5

\* Where the probe for k ends: on the slot of the live entry that holds k, or, if
\* none does, on an empty one that the chain of k comes to.
Lands(entries, index, n, k, slots, s) ==
  /\ s \in 0..(slots - 1)
  /\ \/ /\ IsHit(entries, index, k, s) /\ index[s] \in 1..n
     \/ /\ ~IsHit(entries, index, k, s) /\ index[s] = 0
        /\ \A i \in 1..n : entries[i].live => ~SameValueZero(entries[i].key, k)
        /\ \E d \in 0..(slots - 1) : /\ ProbeSlot(index, k, d) = s
                                     /\ \A e \in 0..(d - 1) : index[ProbeSlot(index, k, e)] # 0

\* On an index with an empty slot, a probe ends, and lands on the entry of its key or on an
\* empty slot, which shows that no entry holds the key.
LEMMA ProbeLands ==
  ASSUME NEW entries, NEW index, NEW n, NEW slots, Roomy(entries, index, n, slots),
         \A i \in 1..n : entries[i].live => entries[i].key \in Key,
         NEW k \in Key
  PROVE  ProbeEnds(entries, index, k) /\ Lands(entries, index, n, k, slots, Probe(entries, index, k))
<1>1. /\ Table(index, slots) /\ index \in [0..(slots - 1) -> 0..n]
      /\ n \in Nat /\ slots \in Nat
  BY RoomyTable
<1>2. PICK z \in 0..(slots - 1) : index[z] = 0
  BY EmptySlot
<1>3. ProbeEnds(entries, index, k)
  BY <1>1, <1>2, ProbeStops
<1>4. PICK d \in 0..(slots - 1) : StopsFirst(entries, index, k, d)
  BY <1>1, <1>2, ProbeStops
<1> DEFINE s == Probe(entries, index, k)
<1>5. s = ProbeSlot(index, k, d) /\ s \in 0..(slots - 1)
  <2>1. s = ProbeSlot(index, k, d) /\ d \in Nat
    BY <1>1, <1>4 DEF StopsFirst
  <2> QED BY <1>1, <2>1, ProbeSlots
<1>6. index[s] = 0 \/ IsHit(entries, index, k, s)
  BY <1>4, <1>5 DEF StopsFirst, Stops
<1>7. \A e \in 0..(d - 1) : index[ProbeSlot(index, k, e)] # 0 /\ ~IsHit(entries, index, k, ProbeSlot(index, k, e))
  BY <1>4 DEF StopsFirst, Stops
<1> HIDE DEF s
<1>8. CASE IsHit(entries, index, k, s)
  <2>1. index[s] \in 1..n
    BY <1>1, <1>5, <1>8 DEF IsHit
  <2> QED BY <1>3, <1>5, <1>8, <2>1 DEF Lands, s
<1>9. CASE ~IsHit(entries, index, k, s)
  <2>1. ASSUME NEW i \in 1..n, entries[i].live, SameValueZero(entries[i].key, k) PROVE FALSE
    <3>1. OnChain(index, entries[i].key, i) /\ entries[i].key \in Key
      BY <2>1 DEF Roomy, Indexed
    <3>2. PICK c \in 0..(slots - 1) :
            /\ index[ProbeSlot(index, entries[i].key, c)] = i
            /\ \A e \in 0..(c - 1) : index[ProbeSlot(index, entries[i].key, e)] # 0
      BY <3>1 DEF OnChain, Roomy
    <3>3. \A e : ProbeSlot(index, entries[i].key, e) = ProbeSlot(index, k, e)
      BY <2>1, <3>1, SameChain
    <3>4. /\ index[ProbeSlot(index, k, c)] = i
          /\ \A e \in 0..(c - 1) : index[ProbeSlot(index, k, e)] # 0
      BY <3>2, <3>3
    <3>5. IsHit(entries, index, k, ProbeSlot(index, k, c))
      BY <2>1, <3>4 DEF IsHit
    <3>6. ~(c < d)
      BY <1>1, <1>7, <3>5
    <3>7. c # d
      BY <1>5, <1>9, <3>5
    <3>8. d \in 0..(c - 1)
      BY <1>1, <3>6, <3>7
    <3>9. index[s] # 0
      BY <1>5, <3>4, <3>8
    <3> QED BY <1>6, <1>9, <3>9
  <2> QED BY <1>3, <1>5, <1>6, <1>7, <1>9, <2>1 DEF Lands, s
<1> QED BY <1>8, <1>9

-----------------------------------------------------------------------------
(* Building an index.                                                      *)

\* An index of empty slots.
LEMMA EmptyRoomy ==
  ASSUME NEW entries \in Seq(Entry), NEW slots \in Nat \ {0}
  PROVE  Roomy(entries, [s \in 0..(slots - 1) |-> 0], 0, slots)
<1> DEFINE index == [s \in 0..(slots - 1) |-> 0]
<1>1. Cardinality(DOMAIN index) = slots
  <2>1. Cardinality(0..(slots - 1)) = slots
    BY FS_Interval
  <2> QED BY <2>1
<1>2. index \in [0..(slots - 1) -> 0..0] /\ \A s \in DOMAIN index : index[s] = 0
  OBVIOUS
<1> HIDE DEF index
<1> QED BY <1>1, <1>2 DEF Roomy, Indexed, index

\* A dead entry is passed over.
LEMMA SkipRoomy ==
  ASSUME NEW entries, NEW index, NEW n, NEW slots, Roomy(entries, index, n, slots),
         n + 1 <= Len(entries), slots > n + 1, ~entries[n + 1].live
  PROVE  Roomy(entries, index, n + 1, slots)
<1>1. index \in [0..(slots - 1) -> 0..(n + 1)] /\ n \in Nat
  BY RoomyTable
<1>2. n + 1 \in 0..Len(entries) /\ \A i \in 1..(n + 1) : i \in 1..n \/ i = n + 1
  BY <1>1 DEF Roomy
<1> QED BY <1>1, <1>2 DEF Roomy, Indexed

\* A new entry goes where the probe for its key ends, which cuts no chain.
LEMMA InsertRoomy ==
  ASSUME NEW entries, NEW index, NEW n, NEW slots, Roomy(entries, index, n, slots), slots > n + 1,
         \A i \in 1..n : entries[i].live => entries[i].key \in Key,
         NEW k \in Key, \A i \in 1..n : entries[i].live => ~SameValueZero(entries[i].key, k),
         NEW after \in Seq(Entry), n + 1 <= Len(after), \A i \in 1..n : after[i] = entries[i],
         after[n + 1].live => after[n + 1].key = k,
         NEW index2, index2 = [index EXCEPT ![Probe(entries, index, k)] = n + 1]
  PROVE  Roomy(after, index2, n + 1, slots)
<1> DEFINE s == Probe(entries, index, k)
<1>1. /\ Table(index, slots) /\ index \in [0..(slots - 1) -> 0..n] /\ n \in Nat /\ slots \in Nat
  BY RoomyTable
<1>0. Cardinality(DOMAIN index) = slots
  BY DEF Roomy
<1>2. Lands(entries, index, n, k, slots, s)
  BY ProbeLands
<1>3. ~IsHit(entries, index, k, s)
  <2> SUFFICES ASSUME IsHit(entries, index, k, s) PROVE FALSE
    OBVIOUS
  <2>1. index[s] \in 1..n
    BY <1>2 DEF Lands
  <2> QED BY <2>1 DEF IsHit
<1>4. /\ s \in 0..(slots - 1) /\ index[s] = 0
      /\ \E d \in 0..(slots - 1) : /\ ProbeSlot(index, k, d) = s
                                   /\ \A e \in 0..(d - 1) : index[ProbeSlot(index, k, e)] # 0
  BY <1>2, <1>3 DEF Lands
<1> HIDE DEF s
<1>5. /\ DOMAIN index2 = DOMAIN index /\ DOMAIN index = 0..(slots - 1)
      /\ index2[s] = n + 1 /\ \A t \in 0..(slots - 1) : t # s => index2[t] = index[t]
  BY <1>1, <1>4 DEF s
<1>6. index2 \in [0..(slots - 1) -> 0..(n + 1)]
  <2>1. index2 = [index EXCEPT ![s] = n + 1]
    BY DEF s
  <2> QED BY <1>1, <1>4, <2>1
<1>7. \A t, u \in DOMAIN index2 : index2[t] = index2[u] /\ index2[t] # 0 => t = u
  <2>1. \A t, u \in DOMAIN index : index[t] = index[u] /\ index[t] # 0 => t = u
    BY DEF Roomy, Indexed
  <2>2. \A t \in 0..(slots - 1) : index[t] # n + 1
    BY <1>1
  <2> QED BY <1>5, <2>1, <2>2
<1>8. \A j, d : ProbeSlot(index2, j, d) = ProbeSlot(index, j, d)
  BY <1>5 DEF ProbeSlot
<1>9. \A t \in 0..(slots - 1) : index[t] # 0 => index2[t] = index[t]
  BY <1>4, <1>5
<1>10. ASSUME NEW i \in 1..(n + 1), after[i].live
       PROVE  OnChain(index2, after[i].key, i)
  <2>1. CASE i = n + 1
    <3>1. PICK d \in 0..(slots - 1) : /\ ProbeSlot(index, k, d) = s
                                      /\ \A e \in 0..(d - 1) : index[ProbeSlot(index, k, e)] # 0
      BY <1>4
    <3>2. ASSUME NEW e \in 0..(d - 1) PROVE index2[ProbeSlot(index2, k, e)] # 0
      <4>1. e \in Nat
        BY <1>1, <3>1
      <4>2. ProbeSlot(index, k, e) \in 0..(slots - 1)
        BY <1>1, <4>1, ProbeSlots
      <4> QED BY <1>8, <1>9, <3>1, <4>2
    <3>3. index2[ProbeSlot(index2, k, d)] = n + 1
      BY <1>5, <1>8, <3>1
    <3>4. OnChain(index2, k, n + 1)
      BY <1>0, <1>5, <3>2, <3>3 DEF OnChain
    <3> QED BY <1>10, <2>1, <3>4
  <2>2. CASE i # n + 1
    <3>1. i \in 1..n /\ after[i] = entries[i]
      BY <1>1, <2>2
    <3>2. entries[i].key \in Key /\ OnChain(index, entries[i].key, i)
      BY <1>10, <3>1 DEF Roomy, Indexed
    <3> DEFINE j == entries[i].key
    <3> HIDE DEF j
    <3>3. j \in Key /\ OnChain(index, j, i)
      BY <3>2 DEF j
    <3>4. PICK d \in 0..(slots - 1) : /\ index[ProbeSlot(index, j, d)] = i
                                      /\ \A e \in 0..(d - 1) : index[ProbeSlot(index, j, e)] # 0
      BY <1>0, <3>3 DEF OnChain
    <3>5. ASSUME NEW e \in 0..d PROVE index2[ProbeSlot(index2, j, e)] = index[ProbeSlot(index, j, e)]
      <4>1. e \in Nat /\ (e \in 0..(d - 1) \/ e = d)
        BY <1>1, <3>4
      <4>2. ProbeSlot(index, j, e) \in 0..(slots - 1) /\ index[ProbeSlot(index, j, e)] # 0
        BY <1>1, <3>1, <3>3, <3>4, <4>1, ProbeSlots
      <4> QED BY <1>8, <1>9, <4>2
    <3>6. d \in 0..d /\ \A e \in 0..(d - 1) : e \in 0..d
      BY <1>1
    <3>7. index2[ProbeSlot(index2, j, d)] = i
      BY <3>4, <3>5, <3>6
    <3>8. \A e \in 0..(d - 1) : index2[ProbeSlot(index2, j, e)] # 0
      BY <3>4, <3>5, <3>6
    <3>9. OnChain(index2, j, i)
      <4>1. Cardinality(DOMAIN index2) = slots
        BY <1>0, <1>5
      <4> QED BY <3>7, <3>8, <4>1 DEF OnChain
    <3> QED BY <3>1, <3>9 DEF j
  <2> QED BY <2>1, <2>2
<1>11. Cardinality(DOMAIN index2) = slots /\ n + 1 \in 0..Len(after)
  BY <1>0, <1>1, <1>5
<1> QED BY <1>1, <1>6, <1>7, <1>10, <1>11 DEF Roomy, Indexed

\* A rebuilt index leads to every live entry.
LEMMA ReindexedRoomy ==
  ASSUME NEW entries \in Seq(Entry), KeysOnce(entries),
         NEW slots \in Nat, slots > Len(entries)
  PROVE  Roomy(entries, Reindexed(entries, slots), Len(entries), slots)
<1> DEFINE L == Len(entries)
           X == [0..(slots - 1) -> Nat]
           a == [s \in 0..(slots - 1) |-> 0]
           Step(n, x) == IF entries[n].live THEN [x EXCEPT ![Probe(entries, x, entries[n].key)] = n] ELSE x
           G == [p \in (1..L) \X X |-> Step(p[1], p[2])]
           Defines(f) == f = [n \in 0..L |-> IF n = 0 THEN a ELSE Step(n, f[n - 1])]
<1>1. L \in Nat /\ a \in X
  OBVIOUS
<1>2. G \in [(1..L) \X X -> X]
  <2>1. ASSUME NEW n \in 1..L, NEW x \in X PROVE Step(n, x) \in X
    <3> DEFINE s == Probe(entries, x, entries[n].key)
    <3> HIDE DEF s
    <3>1. n \in Nat
      BY <1>1
    <3> DEFINE y == [x EXCEPT ![s] = n]
    <3>2. y = [t \in 0..(slots - 1) |-> IF t = s THEN n ELSE x[t]]
      OBVIOUS
    <3>3. y \in X
      BY <3>1, <3>2
    <3> QED BY <3>3 DEF s
  <2> HIDE DEF Step, X
  <2> QED BY <2>1
<1>3. PICK f : Recursion(f, L, X, a, G)
  <2> HIDE DEF L, X, a, G
  <2> QED BY <1>1, <1>2, Recursive
<1>4. Defines(f)
  <2>1. f \in [0..L -> X] /\ f[0] = a /\ \A n \in 1..L : f[n] = G[<<n, f[n - 1]>>]
    BY <1>3 DEF Recursion
  <2>2. ASSUME NEW n \in 1..L PROVE f[n] = Step(n, f[n - 1])
    <3> HIDE DEF Step, X, G, L
    <3>1. f[n - 1] \in X
      BY <1>1, <2>1
    <3>2. G[<<n, f[n - 1]>>] = Step(n, f[n - 1])
      BY <3>1 DEF G
    <3> QED BY <2>1, <3>2
  <2> HIDE DEF Step, X, a, G
  <2> QED BY <1>1, <2>1, <2>2
<1> DEFINE g == CHOOSE h : Defines(h)
<1>5. Defines(g)
  <2> HIDE DEF Defines
  <2> QED BY <1>4
<1>6. Reindexed(entries, slots) = g[L]
  BY DEF Reindexed
<1> HIDE DEF g, G, X
<1>7. g[0] = a /\ \A n \in 1..L : g[n] = Step(n, g[n - 1])
  <2> HIDE DEF Step, a, L
  <2> QED BY <1>1, <1>5
<1> DEFINE S == {n \in 0..L : Roomy(entries, g[n], n, slots)}
<1>8. 0 \in S
  BY <1>1, <1>7, EmptyRoomy
<1>9. ASSUME NEW n \in 0..(L - 1), n \in S PROVE n + 1 \in S
  <2>1. /\ Roomy(entries, g[n], n, slots) /\ n \in Nat /\ n + 1 \in 1..L /\ n + 1 <= Len(entries)
        /\ slots > n + 1 /\ (n + 1) - 1 = n
    BY <1>1, <1>9
  <2>2. g[n + 1] = Step(n + 1, g[n])
    BY <1>7, <2>1
  <2>3. CASE ~entries[n + 1].live
    <3>1. g[n + 1] = g[n]
      BY <2>2, <2>3
    <3>2. Roomy(entries, g[n], n + 1, slots)
      <4> HIDE DEF S
      <4> QED BY <2>1, <2>3, SkipRoomy
    <3> QED BY <1>1, <2>1, <3>1, <3>2
  <2>4. CASE entries[n + 1].live
    <3> DEFINE k == entries[n + 1].key
    <3>1. g[n + 1] = [g[n] EXCEPT ![Probe(entries, g[n], k)] = n + 1]
      BY <2>2, <2>4
    <3>2. \A i \in 1..(n + 1) : i \in 1..Len(entries)
      BY <2>1
    <3>3. /\ \A i \in 1..(n + 1) : entries[i].live =>
               entries[i].key \in Key /\ NormalizedKey(entries[i].key) = entries[i].key
          /\ \A i \in 1..n : entries[i].live => entries[i].key # k
      <4>1. \A i \in 1..n : i \in 1..(n + 1) /\ i # n + 1
        BY <2>1
      <4> QED BY <2>1, <2>4, <3>2, <4>1 DEF KeysOnce, LiveIn
    <3>4. k \in Key /\ NormalizedKey(k) = k
      BY <2>1, <2>4, <3>3
    <3>5. \A i \in 1..n : entries[i].live => entries[i].key \in Key /\ ~SameValueZero(entries[i].key, k)
      <4>1. \A i \in 1..n : i \in 1..(n + 1)
        BY <2>1
      <4> QED BY <3>3, <3>4, <4>1 DEF SameValueZero
    <3> HIDE DEF k, S
    <3>6. Roomy(entries, g[n + 1], n + 1, slots)
      BY <2>1, <3>1, <3>4, <3>5, InsertRoomy DEF k
    <3> QED BY <1>1, <2>1, <3>6 DEF S
  <2> QED BY <2>3, <2>4
<1>10. L \in S
  <2> HIDE DEF S, L
  <2>1. \A n \in 0..L : n \in S
    BY <1>1, <1>8, <1>9, UpTo
  <2> QED BY <1>1, <2>1
<1> QED BY <1>6, <1>10

\* The number of slots: doubled until the entries fill half of them at most.
LEMMA SlotCountRoom ==
  ASSUME NEW capacity \in Nat
  PROVE  SlotCount(capacity) \in Nat \ {0} /\ SlotCount(capacity) > capacity
<1> DEFINE Step(n, x) == IF x < capacity * 2 THEN 2 * x ELSE x
           G == [p \in (1..capacity) \X Nat |-> Step(p[1], p[2])]
           Defines(f) == f = [n \in 0..capacity |-> IF n = 0 THEN FirstSlots ELSE Step(n, f[n - 1])]
<1>1. FirstSlots \in Nat /\ FirstSlots > 0
  BY MapAssumption
<1>2. G \in [(1..capacity) \X Nat -> Nat]
  OBVIOUS
<1>3. PICK f : Recursion(f, capacity, Nat, FirstSlots, G)
  <2> HIDE DEF G
  <2> QED BY <1>1, <1>2, Recursive
<1>4. Defines(f)
  <2>1. f \in [0..capacity -> Nat] /\ f[0] = FirstSlots /\ \A n \in 1..capacity : f[n] = G[<<n, f[n - 1]>>]
    BY <1>3 DEF Recursion
  <2>2. ASSUME NEW n \in 1..capacity PROVE f[n] = Step(n, f[n - 1])
    <3> HIDE DEF Step, G
    <3>1. f[n - 1] \in Nat
      BY <2>1
    <3>2. G[<<n, f[n - 1]>>] = Step(n, f[n - 1])
      BY <3>1 DEF G
    <3> QED BY <2>1, <3>2
  <2> HIDE DEF Step, G
  <2> QED BY <2>1, <2>2
<1> DEFINE g == CHOOSE h : Defines(h)
<1>5. Defines(g)
  <2> HIDE DEF Defines
  <2> QED BY <1>4
<1>6. SlotCount(capacity) = g[capacity]
  BY DEF SlotCount
<1> HIDE DEF g, G
<1>7. g[0] = FirstSlots /\ \A n \in 1..capacity : g[n] = Step(n, g[n - 1])
  <2> HIDE DEF Step
  <2> QED BY <1>5
<1> DEFINE S == {n \in 0..capacity : g[n] \in Nat /\ g[n] > 0 /\ (g[n] >= capacity * 2 \/ g[n] > n)}
<1>8. 0 \in S
  BY <1>1, <1>7
<1>9. ASSUME NEW n \in 0..(capacity - 1), n \in S PROVE n + 1 \in S
  <2> DEFINE x == g[n]
             y == g[n + 1]
  <2>1. y = Step(n + 1, x)
    BY <1>7
  <2>2. x \in Nat /\ x > 0 /\ (x >= capacity * 2 \/ x > n)
    BY <1>9
  <2> HIDE DEF x, y
  <2>3. y \in Nat /\ y > 0 /\ (y >= capacity * 2 \/ y > n + 1)
    BY <2>1, <2>2
  <2> QED BY <2>3 DEF y
<1>10. capacity \in S
  <2> HIDE DEF S
  <2>1. \A n \in 0..capacity : n \in S
    BY <1>8, <1>9, UpTo
  <2> QED BY <2>1
<1> QED BY <1>6, <1>10

-----------------------------------------------------------------------------
(* Compaction.                                                             *)

\* What the copying loop has after each entry.
KeptBy(entries, kept) ==
  /\ kept \in [0..Len(entries) -> Seq(Entry)]
  /\ kept[0] = <<>>
  /\ \A n \in 1..Len(entries) :
       kept[n] = IF entries[n].live THEN Append(kept[n - 1], entries[n]) ELSE kept[n - 1]

\* The copying loop, entry by entry.
LEMMA KeptSteps ==
  ASSUME NEW entries \in Seq(Entry)
  PROVE  KeptBy(entries, Kept(entries))
<1> DEFINE L == Len(entries)
           X == Seq(Entry)
           Step(n, x) == IF entries[n].live THEN Append(x, entries[n]) ELSE x
           G == [p \in (1..L) \X X |-> Step(p[1], p[2])]
           Defines(f) == f = [n \in 0..L |-> IF n = 0 THEN <<>> ELSE Step(n, f[n - 1])]
<1>1. L \in Nat /\ <<>> \in X
  OBVIOUS
<1>2. \A n \in 1..L : \A x \in X : Step(n, x) \in X
  OBVIOUS
<1>3. G \in [(1..L) \X X -> X]
  <2> HIDE DEF Step, X
  <2> QED BY <1>2
<1>4. PICK f : Recursion(f, L, X, <<>>, G)
  <2> HIDE DEF L, X, G
  <2> QED BY <1>1, <1>3, Recursive
<1>5. Defines(f)
  <2> HIDE DEF Step, X, G, L
  <2>1. f \in [0..L -> X] /\ f[0] = <<>> /\ \A n \in 1..L : f[n] = G[<<n, f[n - 1]>>]
    BY <1>4 DEF Recursion
  <2>2. ASSUME NEW n \in 1..L PROVE f[n] = Step(n, f[n - 1])
    <3>1. f[n - 1] \in X
      BY <1>1, <2>1
    <3>2. G[<<n, f[n - 1]>>] = Step(n, f[n - 1])
      BY <3>1 DEF G
    <3> QED BY <2>1, <3>2
  <2> QED BY <1>1, <2>1, <2>2
<1> DEFINE g == CHOOSE h : Defines(h)
<1>6. Defines(g)
  <2> HIDE DEF Defines
  <2> QED BY <1>5
<1>7. Kept(entries) = g
  BY DEF Kept
<1> HIDE DEF g, G
<1>8. DOMAIN g = 0..L /\ g[0] = <<>> /\ \A n \in 1..L : g[n] = Step(n, g[n - 1])
  <2> HIDE DEF Step, L
  <2> QED BY <1>1, <1>6
<1>9. \A n \in 0..L : g[n] \in X
  <2> DEFINE S == {n \in 0..L : g[n] \in X}
  <2> HIDE DEF Step, X, L
  <2>1. 0 \in S
    BY <1>1, <1>8
  <2>2. ASSUME NEW n \in 0..(L - 1), n \in S PROVE n + 1 \in S
    <3>1. n + 1 \in 1..L /\ (n + 1) - 1 = n /\ n + 1 \in 0..L
      BY <1>1
    <3> QED BY <1>2, <1>8, <2>2, <3>1
  <2> HIDE DEF S
  <2>3. \A n \in 0..L : n \in S
    BY <1>1, <2>1, <2>2, UpTo
  <2> QED BY <2>3 DEF S
<1>10. g = [n \in 0..L |-> g[n]]
  <2> HIDE DEF Step, L
  <2> QED BY <1>6
<1>11. g \in [0..L -> X]
  <2> HIDE DEF X, L
  <2> QED BY <1>9, <1>10
<1> QED BY <1>7, <1>8, <1>11 DEF KeptBy

\* The live ones of the first n entries.
LiveTo(entries, n) == {i \in 1..n : entries[i].live}

\* What has been kept of the first n entries: the live ones, each once.
KeptTo(entries, x, n) ==
  /\ x \in Seq(Entry) /\ Len(x) = Cardinality(LiveTo(entries, n))
  /\ \A j \in 1..Len(x) : \E i \in LiveTo(entries, n) : x[j] = entries[i]
  /\ KeysOnce(x)

\* The live ones of the first n entries can be counted, one entry at a time.
LEMMA LiveFinite ==
  ASSUME NEW entries, NEW n \in Nat
  PROVE  /\ IsFiniteSet(LiveTo(entries, n)) /\ Cardinality(LiveTo(entries, n)) \in 0..n
         /\ IsFiniteSet(LiveTo(entries, n + 1))
         /\ Cardinality(LiveTo(entries, n + 1))
              = Cardinality(LiveTo(entries, n)) + IF entries[n + 1].live THEN 1 ELSE 0
<1>1. IsFiniteSet(1..n) /\ Cardinality(1..n) = n
  BY CountUpTo
<1>2. LiveTo(entries, n) \in SUBSET (1..n)
  BY DEF LiveTo
<1>3. /\ IsFiniteSet(LiveTo(entries, n)) /\ Cardinality(LiveTo(entries, n)) <= n
  BY <1>1, <1>2, FS_Subset
<1>4. Cardinality(LiveTo(entries, n)) \in Nat
  BY <1>3, FS_CardinalityType
<1>5. LiveTo(entries, n + 1) = IF entries[n + 1].live THEN LiveTo(entries, n) \cup {n + 1} ELSE LiveTo(entries, n)
  BY DEF LiveTo
<1>6. n + 1 \notin LiveTo(entries, n)
  BY DEF LiveTo
<1>7. /\ IsFiniteSet(LiveTo(entries, n) \cup {n + 1})
      /\ Cardinality(LiveTo(entries, n) \cup {n + 1}) = Cardinality(LiveTo(entries, n)) + 1
  BY <1>3, <1>6, FS_AddElement
<1> QED BY <1>3, <1>4, <1>5, <1>7

\* The loop keeps the live entries, each once, in every one of its steps.
LEMMA KeptTos ==
  ASSUME NEW entries \in Seq(Entry), KeysOnce(entries)
  PROVE  \A n \in 0..Len(entries) : KeptTo(entries, Kept(entries)[n], n)
<1> DEFINE L == Len(entries)
           kept == Kept(entries)
           S == {n \in 0..L : KeptTo(entries, kept[n], n)}
<1>1. L \in Nat /\ KeptBy(entries, kept)
  BY KeptSteps
<1> HIDE DEF kept
<1>2. 0 \in S
  <2>1. LiveTo(entries, 0) = {} /\ Cardinality({}) = 0
    BY FS_EmptySet DEF LiveTo
  <2>2. LiveIn(<<>>) = {}
    BY DEF LiveIn
  <2>3. KeysOnce(<<>>)
    BY <2>2 DEF KeysOnce
  <2>4. KeptTo(entries, <<>>, 0)
    <3>1. <<>> \in Seq(Entry) /\ Len(<<>>) = 0 /\ 1..0 = {}
      OBVIOUS
    <3> HIDE DEF L
    <3> QED BY <2>1, <2>3, <3>1 DEF KeptTo
  <2> QED BY <1>1, <2>4 DEF KeptBy
<1>3. ASSUME NEW n \in 0..(L - 1), n \in S PROVE n + 1 \in S
  <2> DEFINE x == kept[n]
             y == kept[n + 1]
             e == entries[n + 1]
  <2>1. /\ n \in Nat /\ n + 1 \in 1..L /\ KeptTo(entries, x, n) /\ e \in Entry
        /\ y = IF e.live THEN Append(x, e) ELSE x
    BY <1>1, <1>3 DEF KeptBy
  <2>2. /\ Cardinality(LiveTo(entries, n + 1)) = Cardinality(LiveTo(entries, n)) + IF e.live THEN 1 ELSE 0
        /\ Cardinality(LiveTo(entries, n)) \in Nat
    BY <2>1, LiveFinite
  <2>3. LiveTo(entries, n + 1) = IF e.live THEN LiveTo(entries, n) \cup {n + 1} ELSE LiveTo(entries, n)
    BY <2>1 DEF LiveTo
  <2> HIDE DEF x, y, e
  <2>4. CASE ~e.live
    BY <2>1, <2>2, <2>3, <2>4 DEF KeptTo, y
  <2>5. CASE e.live
    <3>1. y = Append(x, e) /\ x \in Seq(Entry) /\ Len(x) \in Nat
      BY <2>1, <2>5 DEF KeptTo
    <3>2. /\ y \in Seq(Entry) /\ Len(y) = Len(x) + 1 /\ y[Len(x) + 1] = e
          /\ \A j \in 1..Len(x) : y[j] = x[j]
      BY <2>1, <3>1
    <3>3. Len(y) = Cardinality(LiveTo(entries, n + 1))
      BY <2>1, <2>2, <2>5, <3>2 DEF KeptTo
    <3>4. ASSUME NEW j \in 1..Len(y) PROVE \E i \in LiveTo(entries, n + 1) : y[j] = entries[i]
      <4>1. CASE j = Len(x) + 1
        BY <2>3, <2>5, <3>2, <4>1 DEF e
      <4>2. CASE j # Len(x) + 1
        <5>1. j \in 1..Len(x) /\ y[j] = x[j]
          BY <3>1, <3>2, <4>2
        <5> QED BY <2>1, <2>3, <2>5, <5>1 DEF KeptTo
      <4> QED BY <4>1, <4>2
    <3>5. /\ \A j \in 1..Len(x) : x[j].key # e.key
          /\ \A j \in 1..Len(x) : x[j].live
      <4> SUFFICES ASSUME NEW j \in 1..Len(x) PROVE x[j].key # e.key /\ x[j].live
        OBVIOUS
      <4>1. PICK i \in LiveTo(entries, n) : x[j] = entries[i]
        BY <2>1 DEF KeptTo
      <4>2. i \in LiveIn(entries) /\ n + 1 \in LiveIn(entries) /\ i # n + 1 /\ entries[i].live
        BY <2>1, <2>5 DEF LiveIn, LiveTo, e
      <4> QED BY <4>1, <4>2 DEF KeysOnce, e
    <3>6. KeysOnce(y)
      <4>1. e.key \in Key /\ NormalizedKey(e.key) = e.key /\ e.value \in Val
        BY <2>1, <2>5 DEF KeysOnce, LiveIn, e
      <4>2. KeysOnce(x)
        BY <2>1 DEF KeptTo
      <4>3. ASSUME NEW i \in LiveIn(y)
            PROVE  /\ y[i].key \in Key /\ NormalizedKey(y[i].key) = y[i].key /\ y[i].value \in Val
                   /\ \A j \in LiveIn(y) : y[j].key = y[i].key => i = j
        <5>1. \A j \in LiveIn(y) : \/ j \in LiveIn(x) /\ y[j] = x[j] /\ x[j].key # e.key
                                \/ j = Len(x) + 1
          <6> SUFFICES ASSUME NEW j \in LiveIn(y), j # Len(x) + 1
                       PROVE  j \in LiveIn(x) /\ y[j] = x[j] /\ x[j].key # e.key
            OBVIOUS
          <6>1. j \in 1..Len(x)
            BY <3>1, <3>2 DEF LiveIn
          <6> QED BY <3>2, <3>5, <6>1 DEF LiveIn
        <5>2. CASE i = Len(x) + 1
          BY <3>2, <4>1, <5>1, <5>2
        <5>3. CASE i # Len(x) + 1
          <6>1. i \in LiveIn(x) /\ y[i] = x[i] /\ x[i].key # e.key
            BY <5>1, <5>3
          <6> QED BY <3>2, <4>2, <5>1, <6>1 DEF KeysOnce
        <5> QED BY <5>2, <5>3
      <4> QED BY <4>3 DEF KeysOnce
    <3>7. KeptTo(entries, y, n + 1)
      BY <3>2, <3>3, <3>4, <3>6 DEF KeptTo
    <3> QED BY <2>1, <3>7 DEF y
  <2> QED BY <2>4, <2>5
<1>4. \A n \in 0..L : n \in S
  <2> HIDE DEF S, L
  <2> QED BY <1>1, <1>2, <1>3, UpTo
<1> QED BY <1>4 DEF kept

\* Compaction keeps every live entry, and only those.
Compacts(entries, x) ==
  /\ x \in Seq(Entry) /\ KeysOnce(x) /\ Len(x) <= Len(entries)
  /\ Len(x) = Cardinality(LiveIn(entries)) /\ LiveIn(x) = 1..Len(x)
  /\ \A i \in LiveIn(x) : \E j \in LiveIn(entries) : x[i] = entries[j]

\* So compaction keeps every live entry, and only those.
LEMMA KeptCompacts ==
  ASSUME NEW entries \in Seq(Entry), KeysOnce(entries)
  PROVE  Compacts(entries, Kept(entries)[Len(entries)])
<1> DEFINE n == Len(entries)
           x == Kept(entries)[n]
<1>1. n \in Nat /\ LiveTo(entries, n) = LiveIn(entries)
  BY DEF LiveTo, LiveIn
<1>2. KeptTo(entries, x, n)
  BY <1>1, KeptTos
<1>3. Cardinality(LiveTo(entries, n)) <= n
  BY <1>1, LiveFinite
<1> HIDE DEF x
<1>4. \A j \in 1..Len(x) : x[j].live
  BY <1>2 DEF KeptTo, LiveTo
<1>5. LiveIn(x) = 1..Len(x)
  BY <1>4 DEF LiveIn
<1>6. Compacts(entries, x)
  <2> HIDE DEF n
  <2> QED BY <1>1, <1>2, <1>3, <1>5 DEF KeptTo, Compacts, n
<1> QED BY <1>6 DEF x

-----------------------------------------------------------------------------
(* One storage.                                                            *)

\* An index, once there is one, has room for a probe.
LEMMA StorageRoomy ==
  ASSUME NEW m, StorageInv(m), m.capacity > 0
  PROVE  /\ Roomy(m.entries, m.index, Used(m), Slots(m))
         /\ Slots(m) > m.capacity /\ m.index # <<>>
         /\ \A i \in 1..Used(m) : m.entries[i].live => m.entries[i].key \in Key
<1>1. /\ m.entries \in Seq(Entry) /\ Used(m) = Len(m.entries) /\ Len(m.entries) \in Nat
      /\ Used(m) <= m.capacity /\ m.capacity \in Nat
      /\ Indexed(m.entries, m.index, Used(m)) /\ Slots(m) \in Nat /\ Slots(m) > m.capacity
  BY DEF StorageInv, Used
<1>2. m.index # <<>>
  <2>1. DOMAIN m.index = {} => Slots(m) = 0
    BY FS_EmptySet DEF Slots
  <2>2. DOMAIN <<>> = {}
    OBVIOUS
  <2> QED BY <1>1, <2>1, <2>2
<1>3. \A i \in 1..Used(m) : m.entries[i].live => m.entries[i].key \in Key
  BY <1>1 DEF StorageInv, KeysOnce, LiveIn
<1>4. Roomy(m.entries, m.index, Used(m), Slots(m))
  BY <1>1 DEF Roomy, Slots
<1> QED BY <1>1, <1>2, <1>3, <1>4

\* What Find finds: the live entry that holds the key, or that there is none.
Found(m, k, at) ==
  IF at = 0 THEN \A i \in LiveIn(m.entries) : ~SameValueZero(m.entries[i].key, k)
  ELSE at \in LiveIn(m.entries) /\ SameValueZero(m.entries[at].key, k)

\* Find returns the live entry that holds the key, or shows that there is none.
LEMMA FindFound ==
  ASSUME NEW m, StorageInv(m), NEW k \in Key
  PROVE  Found(m, k, Find(m, k)) /\ (m.index # <<>> => ProbeEnds(m.entries, m.index, k))
<1>1. CASE m.capacity = 0
  <2>1. m.index = <<>> /\ m.entries \in Seq(Entry) /\ Len(m.entries) = 0
    BY <1>1 DEF StorageInv, Used
  <2>2. LiveIn(m.entries) = {} /\ Find(m, k) = 0
    BY <2>1 DEF LiveIn, Find
  <2> QED BY <2>1, <2>2 DEF Found
<1>2. CASE m.capacity # 0
  <2> DEFINE s == Probe(m.entries, m.index, k)
             n == Used(m)
  <2>1. /\ Roomy(m.entries, m.index, n, Slots(m)) /\ m.index # <<>>
        /\ \A i \in 1..n : m.entries[i].live => m.entries[i].key \in Key
    BY <1>2, StorageRoomy DEF StorageInv
  <2>2. ProbeEnds(m.entries, m.index, k) /\ Lands(m.entries, m.index, n, k, Slots(m), s)
    <3> HIDE DEF n
    <3> QED BY <2>1, ProbeLands
  <2>3. Find(m, k) = IF IsHit(m.entries, m.index, k, s) THEN m.index[s] ELSE 0
    BY <2>1 DEF Find
  <2>4. n = Len(m.entries)
    BY DEF Used
  <2> HIDE DEF s, n
  <2>5. CASE IsHit(m.entries, m.index, k, s)
    <3>1. m.index[s] \in 1..n /\ Find(m, k) = m.index[s]
      BY <2>2, <2>3, <2>5 DEF Lands, IsHit
    <3>2. m.index[s] # 0 /\ m.entries[m.index[s]].live /\ SameValueZero(m.entries[m.index[s]].key, k)
      BY <2>5 DEF IsHit
    <3> QED BY <2>2, <2>4, <3>1, <3>2 DEF Found, LiveIn
  <2>6. CASE ~IsHit(m.entries, m.index, k, s)
    BY <2>2, <2>3, <2>4, <2>6 DEF Lands, Found, LiveIn
  <2> QED BY <2>5, <2>6
<1> QED BY <1>1, <1>2

\* Only one entry holds a key.
LEMMA FoundOnly ==
  ASSUME NEW m, StorageInv(m), NEW k \in Key, NEW i \in LiveIn(m.entries),
         SameValueZero(m.entries[i].key, k)
  PROVE  Find(m, k) = i
<1>1. Found(m, k, Find(m, k)) /\ KeysOnce(m.entries)
  BY FindFound DEF StorageInv
<1>2. Find(m, k) # 0
  BY <1>1 DEF Found
<1>3. Find(m, k) \in LiveIn(m.entries) /\ SameValueZero(m.entries[Find(m, k)].key, k)
  BY <1>1, <1>2 DEF Found
<1> DEFINE at == Find(m, k)
<1> HIDE DEF at
<1>4. m.entries[at].key = m.entries[i].key
  BY <1>1, <1>3 DEF KeysOnce, SameValueZero, at
<1>5. at = i
  BY <1>1, <1>3, <1>4 DEF KeysOnce, at
<1> QED BY <1>5 DEF at

\* The live entries are finitely many, no more than there are entries.
LEMMA LiveCount ==
  ASSUME NEW entries \in Seq(Entry)
  PROVE  /\ IsFiniteSet(LiveIn(entries)) /\ Cardinality(LiveIn(entries)) \in 0..Len(entries)
<1>1. Len(entries) \in Nat /\ LiveIn(entries) = LiveTo(entries, Len(entries))
  BY DEF LiveIn, LiveTo
<1> QED BY <1>1, LiveFinite

\* Growing: room for one more, the same live entries, and a new index over them. A
\* walk in progress finds every entry where it was.
Grown(m, g) ==
  /\ StorageInv(g) /\ Used(g) < g.capacity
  /\ g.capacity = GrownCapacity(m) /\ g.size = m.size /\ g.iterating = m.iterating
  /\ g.entries = Survivors(m)
  /\ m.iterating > 0 => g.entries = m.entries
  /\ \A i \in LiveIn(g.entries) : \E j \in LiveIn(m.entries) : g.entries[i] = m.entries[j]

\* jsrt_map_grow makes room for one more, and leaves a sound storage.
LEMMA GrowGrown ==
  ASSUME NEW m, StorageInv(m), Used(m) = m.capacity
  PROVE  Grown(m, Grow(m))
<1> DEFINE c == GrownCapacity(m)
           x == Survivors(m)
           g == Grow(m)
<1>1. /\ m.entries \in Seq(Entry) /\ Len(m.entries) = m.capacity /\ m.capacity \in Nat
      /\ m.iterating \in Nat /\ KeysOnce(m.entries) /\ m.size = Cardinality(LiveIn(m.entries))
      /\ m.size \in 0..m.capacity
  BY LiveCount DEF StorageInv, Used
<1>2. /\ x \in Seq(Entry) /\ KeysOnce(x) /\ m.size = Cardinality(LiveIn(x))
      /\ \A i \in LiveIn(x) : \E j \in LiveIn(m.entries) : x[i] = m.entries[j]
      /\ Len(x) \in Nat /\ Len(x) <= m.capacity
      /\ m.iterating = 0 => Len(x) = m.size
      /\ m.iterating > 0 => x = m.entries
  <2>1. CASE m.iterating = 0
    <3>1. x = Kept(m.entries)[Len(m.entries)]
      BY <2>1 DEF Survivors, Used
    <3> HIDE DEF x
    <3>4. Compacts(m.entries, x)
      BY <1>1, <3>1, KeptCompacts
    <3>2. /\ x \in Seq(Entry) /\ KeysOnce(x) /\ Len(x) <= Len(m.entries)
          /\ Len(x) = m.size /\ LiveIn(x) = 1..Len(x)
          /\ \A i \in LiveIn(x) : \E j \in LiveIn(m.entries) : x[i] = m.entries[j]
      BY <1>1, <3>4 DEF Compacts
    <3>3. Len(x) \in Nat /\ Cardinality(1..Len(x)) = Len(x)
      <4>1. Len(x) \in Nat
        BY <3>2
      <4> QED BY <4>1, CountUpTo
    <3> QED BY <1>1, <2>1, <3>2, <3>3
  <2>2. CASE m.iterating # 0
    <3>1. x = m.entries
      BY <2>2 DEF Survivors
    <3> HIDE DEF x
    <3> QED BY <1>1, <2>2, <3>1
  <2> QED BY <2>1, <2>2
<1>3. c \in Nat /\ c > Len(x)
  <2>1. FirstCapacity \in Nat /\ FirstCapacity > 0
    BY MapAssumption
  <2> DEFINE n == Len(x)
             h == m.capacity \div 2
  <2>2. h \in Nat /\ h <= m.capacity
    BY <1>1
  <2>3. c = IF m.iterating > 0 \/ m.size + 1 > h
            THEN IF m.capacity = 0 THEN FirstCapacity ELSE 2 * m.capacity
            ELSE m.capacity
    BY DEF GrownCapacity
  <2> HIDE DEF x, c, n, h
  <2>4. n \in Nat /\ n <= m.capacity /\ (m.iterating = 0 => n = m.size)
    BY <1>2 DEF n
  <2>5. c \in Nat /\ c > n
    BY <1>1, <2>1, <2>2, <2>3, <2>4
  <2> QED BY <2>5 DEF n
<1> HIDE DEF x, c
<1>4. SlotCount(c) \in Nat \ {0} /\ SlotCount(c) > c
  BY <1>3, SlotCountRoom
<1>5. Roomy(x, Reindexed(x, SlotCount(c)), Len(x), SlotCount(c))
  BY <1>2, <1>3, <1>4, ReindexedRoomy
<1>6. g = [m EXCEPT !.capacity = c, !.entries = x, !.index = Reindexed(x, SlotCount(c))]
  BY DEF Grow, x, c
<1> HIDE DEF g
<1>7. m = [size |-> m.size, entries |-> m.entries, capacity |-> m.capacity,
           index |-> m.index, iterating |-> m.iterating]
  BY DEF StorageInv
<1>8. /\ g.size = m.size /\ g.entries = x /\ g.capacity = c /\ g.iterating = m.iterating
      /\ g.index = Reindexed(x, SlotCount(c))
      /\ g = [size |-> g.size, entries |-> g.entries, capacity |-> g.capacity,
              index |-> g.index, iterating |-> g.iterating]
  BY <1>6, <1>7
<1>9. /\ Indexed(x, g.index, Len(x)) /\ Slots(g) = SlotCount(c)
  BY <1>5, <1>8 DEF Roomy, Slots
<1>10. StorageInv(g)
  <2>1. Used(g) = Len(x) /\ c # 0
    BY <1>2, <1>3, <1>8 DEF Used
  <2> QED BY <1>1, <1>2, <1>3, <1>4, <1>8, <1>9, <2>1 DEF StorageInv
<1>11. Used(g) = Len(x)
  BY <1>8 DEF Used
<1>12. Grown(m, g)
  BY <1>2, <1>3, <1>8, <1>10, <1>11 DEF Grown, x, c
<1> QED BY <1>12 DEF g

\* Deleting and overwriting cut no chain.
LEMMA FewerIndexed ==
  ASSUME NEW entries, NEW index, NEW n, Indexed(entries, index, n),
         NEW after, \A i \in 1..n : after[i].live => entries[i].live /\ after[i].key = entries[i].key
  PROVE  Indexed(after, index, n)
BY DEF Indexed

\* An entry written in place: at keeps its key, or dies.
WrittenAt(m, g, at, e) ==
  /\ g = [size |-> g.size, entries |-> g.entries, capacity |-> g.capacity,
          index |-> g.index, iterating |-> g.iterating]
  /\ g.entries = [m.entries EXCEPT ![at] = e]
  /\ g.capacity = m.capacity /\ g.index = m.index /\ g.iterating = m.iterating

Written(m, g, at, e) ==
  /\ StorageInv(g) /\ Used(g) = Used(m)
  /\ LiveIn(g.entries) = IF e.live THEN LiveIn(m.entries) ELSE LiveIn(m.entries) \ {at}
  /\ \A i \in LiveIn(m.entries) : i # at => g.entries[i] = m.entries[i]
  /\ g.entries[at] = e

\* Writing an entry in place, its key kept or its life ended, leaves a sound storage.
LEMMA WrittenInv ==
  ASSUME NEW m, StorageInv(m), NEW at \in LiveIn(m.entries), NEW e \in Entry, NEW g,
         WrittenAt(m, g, at, e),
         e.live => e.key = m.entries[at].key /\ e.value \in Val,
         g.size = IF e.live THEN m.size ELSE m.size - 1
  PROVE  Written(m, g, at, e)
<1> DEFINE x == m.entries
           y == g.entries
<1>1. /\ x \in Seq(Entry) /\ KeysOnce(x) /\ m.capacity \in Nat /\ m.iterating \in Nat
      /\ Len(x) \in Nat /\ Len(x) <= m.capacity /\ m.size = Cardinality(LiveIn(x))
      /\ Used(m) = Len(x) /\ Used(g) = Len(y)
  BY DEF StorageInv, Used
<1>2. at \in 1..Len(x) /\ x[at].live /\ y = [x EXCEPT ![at] = e]
  BY DEF LiveIn, WrittenAt
<1> HIDE DEF x, y
<1>3. /\ y \in Seq(Entry) /\ Len(y) = Len(x) /\ y[at] = e
      /\ \A i \in 1..Len(x) : i # at => y[i] = x[i]
  BY <1>1, <1>2
<1>4. LiveIn(y) = IF e.live THEN LiveIn(x) ELSE LiveIn(x) \ {at}
  BY <1>2, <1>3 DEF LiveIn
<1>5. KeysOnce(y)
  <2>1. \A i \in LiveIn(y) : /\ i \in LiveIn(x) /\ y[i].key = x[i].key /\ y[i].value \in Val
    <3> SUFFICES ASSUME NEW i \in LiveIn(y)
                 PROVE  i \in LiveIn(x) /\ y[i].key = x[i].key /\ y[i].value \in Val
      OBVIOUS
    <3>1. i \in LiveIn(x) /\ i \in 1..Len(x) /\ (i = at => e.live)
      BY <1>2, <1>3, <1>4 DEF LiveIn
    <3> QED BY <1>1, <1>3, <3>1 DEF KeysOnce, x
  <2> QED BY <1>1, <2>1 DEF KeysOnce
<1>6. /\ IsFiniteSet(LiveIn(x)) /\ Cardinality(LiveIn(x)) \in Nat
      /\ Cardinality(LiveIn(x) \ {at}) = Cardinality(LiveIn(x)) - 1
  <2>1. IsFiniteSet(LiveIn(x)) /\ Cardinality(LiveIn(x)) \in 0..Len(x) /\ at \in LiveIn(x)
    BY <1>1, LiveCount DEF x
  <2>2. Cardinality(LiveIn(x)) \in Nat
    BY <1>1, <2>1
  <2> QED BY <2>1, <2>2, FS_RemoveElement
<1>7. g.size = Cardinality(LiveIn(y))
  BY <1>1, <1>4, <1>6
<1>8. m.capacity > 0 => Indexed(y, m.index, Len(x)) /\ Slots(g) = Slots(m)
  <2> SUFFICES ASSUME m.capacity > 0 PROVE Indexed(y, m.index, Len(x)) /\ Slots(g) = Slots(m)
    OBVIOUS
  <2>1. Indexed(x, m.index, Len(x))
    BY <1>1 DEF StorageInv, x
  <2>2. \A i \in 1..Len(x) : y[i].live => x[i].live /\ y[i].key = x[i].key
    BY <1>2, <1>3 DEF x
  <2>3. Indexed(y, m.index, Len(x))
    BY <2>1, <2>2, FewerIndexed
  <2> QED BY <2>3 DEF Slots, WrittenAt
<1>9. StorageInv(g)
  <2>1. /\ g.capacity = m.capacity /\ g.index = m.index /\ g.iterating = m.iterating
        /\ g = [size |-> g.size, entries |-> g.entries, capacity |-> g.capacity,
                index |-> g.index, iterating |-> g.iterating]
    BY DEF WrittenAt
  <2>2. m.capacity > 0 => Slots(m) \in Nat /\ Slots(m) > m.capacity
    BY DEF StorageInv
  <2>3. m.capacity = 0 => m.index = <<>>
    BY DEF StorageInv
  <2> QED BY <1>1, <1>3, <1>5, <1>7, <1>8, <2>1, <2>2, <2>3 DEF StorageInv, y
<1>10. \A i \in LiveIn(x) : i \in 1..Len(x)
  BY DEF LiveIn
<1> QED BY <1>1, <1>3, <1>4, <1>9, <1>10 DEF x, y, Written

\* A new key, appended where its probe ends.
Appends(b, key, v) ==
  [b EXCEPT !.index[Probe(b.entries, b.index, key)] = Used(b) + 1,
            !.entries = Append(@, [key |-> key, value |-> v, live |-> TRUE]),
            !.size = @ + 1]

AppendedTo(b, g, key, v) ==
  /\ StorageInv(g) /\ Used(g) = Used(b) + 1 /\ g.capacity = b.capacity /\ g.iterating = b.iterating
  /\ LiveIn(g.entries) = LiveIn(b.entries) \cup {Used(b) + 1}
  /\ \A i \in 1..Used(b) : g.entries[i] = b.entries[i]
  /\ g.entries = Append(b.entries, [key |-> key, value |-> v, live |-> TRUE])
  /\ g.entries[Used(b) + 1] = [key |-> key, value |-> v, live |-> TRUE]

\* Appending a key no live entry holds leaves a sound storage, with every entry in place.
LEMMA AppendsInv ==
  ASSUME NEW b, StorageInv(b), Used(b) < b.capacity, NEW key \in Key, NormalizedKey(key) = key,
         NEW v \in Val, \A i \in LiveIn(b.entries) : b.entries[i].key # key
  PROVE  AppendedTo(b, Appends(b, key, v), key, v)
<1> DEFINE x == b.entries
           e == [key |-> key, value |-> v, live |-> TRUE]
           y == Append(x, e)
           n == Len(x)
           s == Probe(x, b.index, key)
           index2 == [b.index EXCEPT ![s] = n + 1]
           g == Appends(b, key, v)
<1>1. /\ x \in Seq(Entry) /\ KeysOnce(x) /\ b.capacity \in Nat /\ b.iterating \in Nat
      /\ n \in Nat /\ n < b.capacity /\ b.size = Cardinality(LiveIn(x)) /\ Used(b) = n
      /\ b = [size |-> b.size, entries |-> b.entries, capacity |-> b.capacity,
              index |-> b.index, iterating |-> b.iterating]
  BY DEF StorageInv, Used
<1>2. e \in Entry /\ e.live /\ e.key = key /\ e.value = v
  BY DEF Entry
<1> HIDE DEF e
<1>3. /\ y \in Seq(Entry) /\ Len(y) = n + 1 /\ y[n + 1] = e /\ \A i \in 1..n : y[i] = x[i]
  BY <1>1, <1>2
<1>4a. g = [size |-> b.size + 1, entries |-> y, capacity |-> b.capacity,
            index |-> index2, iterating |-> b.iterating]
  <2>1. g = [b EXCEPT !.index[s] = n + 1, !.entries = y, !.size = @ + 1]
    BY DEF Appends, e, Used
  <2> HIDE DEF g, y, x, s
  <2> QED BY <1>1, <2>1 DEF x
<1> HIDE DEF g, x, y
<1>4. /\ g.size = b.size + 1 /\ g.entries = y /\ g.capacity = b.capacity
      /\ g.iterating = b.iterating /\ g.index = index2
      /\ g = [size |-> g.size, entries |-> g.entries, capacity |-> g.capacity,
              index |-> g.index, iterating |-> g.iterating]
  BY <1>4a
<1>5. LiveIn(y) = LiveIn(x) \cup {n + 1} /\ n + 1 \notin LiveIn(x)
  BY <1>1, <1>2, <1>3 DEF LiveIn
<1>6. /\ IsFiniteSet(LiveIn(x)) /\ Cardinality(LiveIn(x)) \in Nat
      /\ Cardinality(LiveIn(y)) = Cardinality(LiveIn(x)) + 1
  <2>1. IsFiniteSet(LiveIn(x)) /\ Cardinality(LiveIn(x)) \in 0..Len(x)
    BY <1>1, LiveCount
  <2>2. Cardinality(LiveIn(x) \cup {n + 1}) = Cardinality(LiveIn(x)) + 1
    BY <1>5, <2>1, FS_AddElement
  <2> QED BY <1>1, <1>5, <2>1, <2>2
<1>7. KeysOnce(y)
  <2>1. \A i \in LiveIn(y) : \/ i = n + 1 /\ y[i] = e
                             \/ i \in LiveIn(x) /\ y[i] = x[i] /\ x[i].key # key
    BY <1>3, <1>5 DEF LiveIn, x
  <2> QED BY <1>1, <1>2, <2>1 DEF KeysOnce
<1>8. /\ Roomy(x, b.index, n, Slots(b)) /\ Slots(b) > b.capacity /\ Slots(b) \in Nat
      /\ \A i \in 1..n : x[i].live => x[i].key \in Key /\ ~SameValueZero(x[i].key, key)
  <2>1. Roomy(x, b.index, n, Slots(b)) /\ Slots(b) > b.capacity /\ b.capacity > 0
    BY <1>1, StorageRoomy DEF x
  <2>2. \A i \in 1..n : x[i].live => i \in LiveIn(x)
    BY DEF LiveIn
  <2>3. \A i \in LiveIn(x) : x[i].key \in Key /\ NormalizedKey(x[i].key) = x[i].key /\ x[i].key # key
    BY <1>1 DEF KeysOnce, x
  <2> QED BY <2>1, <2>2, <2>3 DEF SameValueZero, Roomy
<1>9. Roomy(y, index2, n + 1, Slots(b))
  <2> HIDE DEF n, index2
  <2>1. Slots(b) > n + 1 /\ n + 1 <= Len(y)
    BY <1>1, <1>3, <1>8
  <2>2. index2 = [b.index EXCEPT ![Probe(x, b.index, key)] = n + 1]
    BY DEF index2
  <2> QED BY <1>1, <1>2, <1>3, <1>8, <2>1, <2>2, InsertRoomy
<1>10. Indexed(y, index2, n + 1) /\ Cardinality(DOMAIN index2) = Slots(b)
  BY <1>9 DEF Roomy
<1>11. StorageInv(g)
  <2> HIDE DEF index2, n
  <2>1. Used(g) = n + 1 /\ Slots(g) = Slots(b)
    BY <1>3, <1>4, <1>10 DEF Used, Slots
  <2>2. b.capacity # 0
    BY <1>1
  <2> QED BY <1>1, <1>3, <1>4, <1>6, <1>7, <1>8, <1>10, <2>1, <2>2 DEF StorageInv
<1>12. AppendedTo(b, g, key, v)
  <2>1. Used(g) = n + 1
    BY <1>3, <1>4 DEF Used
  <2> QED BY <1>1, <1>3, <1>4, <1>5, <1>11, <2>1 DEF AppendedTo, e, x, y
<1> QED BY <1>12 DEF g

-----------------------------------------------------------------------------
(* The operations of the program.                                          *)

\* Putting: the growth, and what a walk in progress sees of it. Where entries moved
\* there was no walk.
PutTo(m, g) ==
  /\ StorageInv(g) /\ g.iterating = m.iterating
  /\ g.capacity > m.capacity => Used(m) = m.capacity /\ g.capacity = GrownCapacity(m)
  /\ m.iterating > 0 => /\ Used(g) >= Used(m)
                        /\ LiveIn(g.entries) \cap (1..Used(m)) = LiveIn(m.entries)
                        /\ \A i \in LiveIn(m.entries) : g.entries[i].key = m.entries[i].key

\* An existing key: its entry is written in place.
Overwrites(m, at, v) == [m EXCEPT !.entries[at].value = v]

\* A put on an existing key leaves a sound storage, and every key where it was.
LEMMA OverwritesInv ==
  ASSUME NEW m, StorageInv(m), NEW at \in LiveIn(m.entries), NEW v \in Val
  PROVE  /\ PutTo(m, Overwrites(m, at, v))
         /\ Written(m, Overwrites(m, at, v), at, [m.entries[at] EXCEPT !.value = v])
<1> DEFINE e == [m.entries[at] EXCEPT !.value = v]
           x == m.entries
           g == Overwrites(m, at, v)
<1>1. /\ x \in Seq(Entry) /\ at \in 1..Len(x) /\ x[at].live /\ x[at] \in Entry
      /\ Used(m) = Len(x) /\ Len(x) \in Nat /\ m.capacity \in Nat
      /\ m = [size |-> m.size, entries |-> m.entries, capacity |-> m.capacity,
              index |-> m.index, iterating |-> m.iterating]
  BY DEF StorageInv, LiveIn, Used
<1>2. e \in Entry /\ e.live /\ e.key = x[at].key /\ e.value = v
  BY <1>1 DEF Entry
<1>3. g = [size |-> m.size, entries |-> [x EXCEPT ![at] = e], capacity |-> m.capacity,
           index |-> m.index, iterating |-> m.iterating]
  <2>1. g = [m EXCEPT !.entries[at] = e]
    BY DEF Overwrites
  <2> HIDE DEF g, e
  <2> QED BY <1>1, <2>1
<1> HIDE DEF g, e
<1>4. WrittenAt(m, g, at, e) /\ g.size = m.size
  BY <1>3 DEF WrittenAt
<1>8. Written(m, g, at, e)
  <2>1. e.live => e.key = m.entries[at].key /\ e.value \in Val
    BY <1>2
  <2>2. g.size = IF e.live THEN m.size ELSE m.size - 1
    BY <1>2, <1>4
  <2> QED BY <1>2, <1>4, <2>1, <2>2, WrittenInv
<1>5. /\ StorageInv(g) /\ Used(g) = Used(m) /\ LiveIn(g.entries) = LiveIn(m.entries)
      /\ \A i \in LiveIn(m.entries) : i # at => g.entries[i] = m.entries[i]
      /\ g.entries[at] = e
  BY <1>2, <1>8 DEF Written
<1>6. \A i \in LiveIn(m.entries) : i \in 1..Used(m) /\ g.entries[i].key = m.entries[i].key
  BY <1>1, <1>2, <1>5 DEF LiveIn
<1>7. PutTo(m, g)
  BY <1>1, <1>4, <1>5, <1>6 DEF PutTo, WrittenAt
<1> QED BY <1>7, <1>8 DEF g, e

\* A walk finds every entry it had ahead of it, and those it has passed.
LEMMA AppendsSeen ==
  ASSUME NEW b, NEW g, NEW key, NEW v, AppendedTo(b, g, key, v),
         Used(b) \in Nat, LiveIn(b.entries) \subseteq 1..Used(b)
  PROVE  /\ Used(g) >= Used(b)
         /\ LiveIn(g.entries) \cap (1..Used(b)) = LiveIn(b.entries)
         /\ \A i \in LiveIn(b.entries) : g.entries[i].key = b.entries[i].key
<1> DEFINE n == Used(b)
           before == LiveIn(b.entries)
           after == LiveIn(g.entries)
<1>1. /\ n \in Nat /\ before \subseteq 1..n /\ after = before \cup {n + 1} /\ Used(g) = n + 1
      /\ \A i \in 1..n : g.entries[i] = b.entries[i]
  BY DEF AppendedTo
<1> HIDE DEF n, before, after
<1>2. Used(g) >= n
  BY <1>1
<1>4. after \cap (1..n) = before
  <2>1. n + 1 \notin 1..n
    BY <1>1
  <2> QED BY <1>1, <2>1
<1>3. \A i \in before : g.entries[i].key = b.entries[i].key
  BY <1>1
<1> QED BY <1>2, <1>3, <1>4 DEF n, before, after

\* map_put leaves a sound storage; a walk in progress finds every entry it had ahead.
LEMMA PutInv ==
  ASSUME NEW m, StorageInv(m), NEW k \in Key, NEW v \in Val
  PROVE  PutTo(m, Put(m, k, v))
<1> DEFINE key == NormalizedKey(k)
           at == Find(m, key)
           b == IF Used(m) = m.capacity THEN Grow(m) ELSE m
<1>1. key \in Key /\ NormalizedKey(key) = key
  BY NormalKey
<1>2. Found(m, key, at)
  BY <1>1, FindFound
<1>3. /\ m.capacity \in Nat /\ m.iterating \in Nat /\ Used(m) \in Nat /\ Used(m) <= m.capacity
      /\ KeysOnce(m.entries) /\ LiveIn(m.entries) \subseteq 1..Used(m)
  BY DEF StorageInv, Used, LiveIn
<1>4. CASE k \in Refused
  <2>1. Put(m, k, v) = m
    BY <1>4 DEF Put
  <2> HIDE DEF key, at, b
  <2> QED BY <1>3, <2>1 DEF PutTo
<1>5. CASE k \notin Refused /\ at # 0
  <2>1. Put(m, k, v) = Overwrites(m, at, v)
    BY <1>5 DEF Put, Overwrites
  <2>2. at \in LiveIn(m.entries)
    BY <1>2, <1>5 DEF Found
  <2> HIDE DEF key, at
  <2> QED BY <2>1, <2>2, OverwritesInv
<1>6. CASE k \notin Refused /\ at = 0
  <2>1. Put(m, k, v) = Appends(b, key, v)
    BY <1>6 DEF Put, Appends
  <2>2. \A i \in LiveIn(m.entries) : m.entries[i].key # key
    BY <1>1, <1>2, <1>6 DEF Found, SameValueZero
  <2>3. CASE Used(m) = m.capacity
    <3>1. b = Grow(m)
      BY <2>3
    <3> HIDE DEF key, at, b
    <3>2. Grown(m, b)
      BY <2>3, <3>1, GrowGrown
    <3>3. StorageInv(b) /\ Used(b) < b.capacity /\ \A i \in LiveIn(b.entries) : b.entries[i].key # key
      BY <2>2, <3>2 DEF Grown
    <3>4. AppendedTo(b, Appends(b, key, v), key, v)
      BY <1>1, <3>3, AppendsInv
    <3>5. PutTo(m, Appends(b, key, v))
      <4> DEFINE g == Appends(b, key, v)
      <4> HIDE DEF g
      <4>1. AppendedTo(b, g, key, v)
        BY <3>4 DEF g
      <4>2. StorageInv(g) /\ g.iterating = m.iterating /\ g.capacity = GrownCapacity(m)
        BY <3>2, <4>1 DEF AppendedTo, Grown
      <4>3. ASSUME m.iterating > 0
            PROVE  /\ Used(g) >= Used(m)
                   /\ LiveIn(g.entries) \cap (1..Used(m)) = LiveIn(m.entries)
                   /\ \A i \in LiveIn(m.entries) : g.entries[i].key = m.entries[i].key
        <5>1. b.entries = m.entries /\ Used(b) = Used(m)
          BY <3>2, <4>3 DEF Grown, Used
        <5> QED BY <1>3, <4>1, <5>1, AppendsSeen
      <4>4. PutTo(m, g)
        BY <2>3, <4>2, <4>3 DEF PutTo
      <4> QED BY <4>4 DEF g
    <3> QED BY <2>1, <3>5
  <2>4. CASE Used(m) # m.capacity
    <3>1. b = m
      BY <2>4
    <3> HIDE DEF key, at, b
    <3>2. AppendedTo(m, Appends(m, key, v), key, v)
      BY <1>1, <1>3, <2>2, <2>4, AppendsInv
    <3> DEFINE g == Appends(m, key, v)
    <3> HIDE DEF g
    <3>3. AppendedTo(m, g, key, v)
      BY <3>2 DEF g
    <3>4. PutTo(m, g)
      <4>1. StorageInv(g) /\ g.iterating = m.iterating /\ g.capacity = m.capacity
        BY <3>3 DEF AppendedTo
      <4>2. /\ Used(g) >= Used(m)
            /\ LiveIn(g.entries) \cap (1..Used(m)) = LiveIn(m.entries)
            /\ \A i \in LiveIn(m.entries) : g.entries[i].key = m.entries[i].key
        BY <1>3, <3>3, AppendsSeen
      <4> QED BY <1>3, <4>1, <4>2 DEF PutTo
    <3> QED BY <2>1, <3>1, <3>4 DEF g
  <2> QED BY <2>3, <2>4
<1> QED BY <1>4, <1>5, <1>6

\* Deleting: the entry of the key dies where it is.
DeletedFrom(m, g, k) ==
  /\ StorageInv(g) /\ g.iterating = m.iterating /\ g.capacity = m.capacity /\ Used(g) = Used(m)
  /\ LiveIn(g.entries) = {i \in LiveIn(m.entries) : m.entries[i].key # NormalizedKey(k)}
  /\ \A i \in LiveIn(g.entries) : g.entries[i] = m.entries[i]

\* jsrt_map_delete leaves a sound storage, without the key and with all others in place.
LEMMA DeleteInv ==
  ASSUME NEW m, StorageInv(m), NEW k \in Key
  PROVE  DeletedFrom(m, Delete(m, k), k)
<1> DEFINE at == Find(m, k)
           x == m.entries
           g == Delete(m, k)
           e == [key |-> Undefined, value |-> Undefined, live |-> FALSE]
<1>1. Found(m, k, at) /\ KeysOnce(x)
  BY FindFound DEF StorageInv
<1>2. /\ x \in Seq(Entry) /\ Used(m) = Len(x)
      /\ m = [size |-> m.size, entries |-> m.entries, capacity |-> m.capacity,
              index |-> m.index, iterating |-> m.iterating]
  BY DEF StorageInv, Used
<1>3. \A i \in LiveIn(x) : SameValueZero(x[i].key, k) <=> x[i].key = NormalizedKey(k)
  BY <1>1 DEF KeysOnce, SameValueZero
<1>4. CASE at = 0
  <2>1. g = m
    BY <1>4 DEF Delete
  <2>2. \A i \in LiveIn(x) : x[i].key # NormalizedKey(k)
    BY <1>1, <1>3, <1>4 DEF Found
  <2> HIDE DEF g
  <2> QED BY <2>1, <2>2 DEF DeletedFrom, g
<1>5. CASE at # 0
  <2>1. at \in LiveIn(x) /\ x[at].key = NormalizedKey(k)
    BY <1>1, <1>3, <1>5 DEF Found
  <2>2. g = [size |-> m.size - 1, entries |-> [x EXCEPT ![at] = e], capacity |-> m.capacity,
             index |-> m.index, iterating |-> m.iterating]
    <3>1. g = [m EXCEPT !.entries[at] = e, !.size = @ - 1]
      BY <1>5 DEF Delete
    <3> HIDE DEF g, at, e
    <3> QED BY <1>2, <3>1
  <2>3. e \in Entry /\ ~e.live
    BY DEF Entry
  <2> HIDE DEF g, e, at
  <2>4. WrittenAt(m, g, at, e) /\ g.size = m.size - 1
    BY <2>2 DEF WrittenAt
  <2>5. /\ StorageInv(g) /\ Used(g) = Used(m) /\ LiveIn(g.entries) = LiveIn(x) \ {at}
        /\ \A i \in LiveIn(x) : i # at => g.entries[i] = x[i]
    <3>1. g.size = IF e.live THEN m.size ELSE m.size - 1
      BY <2>3, <2>4
    <3>2. Written(m, g, at, e)
      BY <2>1, <2>3, <2>4, <3>1, WrittenInv
    <3> QED BY <2>3, <3>2 DEF Written
  <2>6. \A i \in LiveIn(x) : i = at <=> x[i].key = NormalizedKey(k)
    BY <1>1, <2>1 DEF KeysOnce
  <2>7. LiveIn(g.entries) = {i \in LiveIn(x) : x[i].key # NormalizedKey(k)}
    BY <2>1, <2>5, <2>6
  <2>8. DeletedFrom(m, g, k)
    BY <2>4, <2>5, <2>7 DEF DeletedFrom, WrittenAt
  <2> QED BY <2>8 DEF g
<1> QED BY <1>4, <1>5

\* A map that is new, or that has been cleared.
LEMMA ResetInv ==
  ASSUME NEW n \in Nat
  PROVE  /\ StorageInv(Reset(n)) /\ Reset(n).iterating = n /\ Reset(n).capacity = 0
         /\ Used(Reset(n)) = 0 /\ LiveIn(Reset(n).entries) = {}
<1> DEFINE g == Reset(n)
<1>1. /\ g.size = 0 /\ g.entries = <<>> /\ g.capacity = 0 /\ g.index = <<>> /\ g.iterating = n
      /\ g = [size |-> g.size, entries |-> g.entries, capacity |-> g.capacity,
              index |-> g.index, iterating |-> g.iterating]
  BY DEF Reset
<1> HIDE DEF g
<1>2. LiveIn(<<>>) = {} /\ Len(<<>>) = 0 /\ <<>> \in Seq(Entry)
  BY DEF LiveIn
<1>3. KeysOnce(<<>>)
  BY <1>2 DEF KeysOnce
<1>4. Cardinality({}) = 0
  BY FS_EmptySet
<1>5. StorageInv(g) /\ Used(g) = 0
  BY <1>1, <1>2, <1>3, <1>4 DEF StorageInv, Used
<1> QED BY <1>1, <1>2, <1>5 DEF g

\* Counting walks leaves the storage alone.
LEMMA IteratingInv ==
  ASSUME NEW m, StorageInv(m), NEW n \in Nat
  PROVE  LET g == [m EXCEPT !.iterating = n]
         IN /\ StorageInv(g) /\ g.iterating = n /\ g.capacity = m.capacity
            /\ g.entries = m.entries /\ g.index = m.index /\ Used(g) = Used(m)
<1> DEFINE g == [m EXCEPT !.iterating = n]
<1>1. m = [size |-> m.size, entries |-> m.entries, capacity |-> m.capacity,
           index |-> m.index, iterating |-> m.iterating]
  BY DEF StorageInv
<1>2. /\ g.size = m.size /\ g.entries = m.entries /\ g.capacity = m.capacity
      /\ g.index = m.index /\ g.iterating = n
      /\ g = [size |-> g.size, entries |-> g.entries, capacity |-> g.capacity,
              index |-> g.index, iterating |-> g.iterating]
  BY <1>1
<1> HIDE DEF g
<1>3. Used(g) = Used(m) /\ Slots(g) = Slots(m)
  BY <1>2 DEF Used, Slots
<1>4. StorageInv(g)
  BY <1>2, <1>3 DEF StorageInv
<1> QED BY <1>2, <1>3, <1>4 DEF g

\* What the fields of a storage are.
LEMMA StorageTypes ==
  ASSUME NEW m, StorageInv(m)
  PROVE  /\ m.size \in Nat /\ m.capacity \in Nat /\ m.iterating \in Nat
         /\ m.entries \in Seq(Entry) /\ Used(m) \in Nat /\ Used(m) <= m.capacity
         /\ m.index \in [DOMAIN m.index -> 0..Used(m)]
         /\ LiveIn(m.entries) \subseteq 1..Used(m)
         /\ \A i \in LiveIn(m.entries) : m.entries[i].key \in Key
<1>1. /\ m.capacity \in Nat /\ m.iterating \in Nat /\ m.entries \in Seq(Entry)
      /\ Used(m) \in Nat /\ Used(m) <= m.capacity /\ Used(m) = Len(m.entries)
  BY DEF StorageInv, Used
<1>2. m.size \in Nat
  <2>1. Cardinality(LiveIn(m.entries)) \in 0..Len(m.entries)
    BY <1>1, LiveCount
  <2>2. m.size = Cardinality(LiveIn(m.entries))
    BY DEF StorageInv
  <2> QED BY <1>1, <2>1, <2>2
<1>3. m.index \in [DOMAIN m.index -> 0..Used(m)]
  <2>1. CASE m.capacity = 0
    <3>1. m.index = <<>> /\ DOMAIN <<>> = {}
      BY <2>1 DEF StorageInv
    <3>2. <<>> \in [{} -> 0..Used(m)]
      OBVIOUS
    <3> QED BY <3>1, <3>2
  <2>2. CASE m.capacity # 0
    <3>1. m.index \in [0..(Cardinality(DOMAIN m.index) - 1) -> 0..Used(m)]
      BY <1>1, <2>2 DEF StorageInv, Indexed
    <3> QED BY <3>1
  <2> QED BY <2>1, <2>2
<1>4. LiveIn(m.entries) \subseteq 1..Used(m) /\ \A i \in LiveIn(m.entries) : m.entries[i].key \in Key
  BY <1>1 DEF LiveIn, StorageInv, KeysOnce
<1> QED BY <1>1, <1>2, <1>3, <1>4

-----------------------------------------------------------------------------
(* The walks in progress.                                                  *)

\* The walks in progress for a given cursor of each.
WalkingIn(cur) == {w \in Walk : cur[w] # Idle}

\* Beginning a walk makes the walks in progress one more, ending it one fewer.
LEMMA WalkCount ==
  ASSUME NEW cur \in [Walk -> Nat \cup {Idle}]
  PROVE  /\ Cardinality(WalkingIn(cur)) \in Nat
         /\ Cardinality(WalkingIn(cur)) = 0 <=> WalkingIn(cur) = {}
         /\ \A w \in Walk : cur[w] = Idle =>
              Cardinality(WalkingIn([cur EXCEPT ![w] = 0])) = Cardinality(WalkingIn(cur)) + 1
         /\ \A w \in Walk, i \in Nat : cur[w] # Idle => WalkingIn([cur EXCEPT ![w] = i]) = WalkingIn(cur)
         /\ \A w \in Walk : cur[w] # Idle =>
              Cardinality(WalkingIn([cur EXCEPT ![w] = Idle])) = Cardinality(WalkingIn(cur)) - 1
<1>1. IsFiniteSet(Walk) /\ \A i \in Nat : i # Idle
  BY WalkAssumption
<1>2. IsFiniteSet(WalkingIn(cur))
  <2>1. WalkingIn(cur) \in SUBSET Walk
    BY DEF WalkingIn
  <2> QED BY <1>1, <2>1, FS_Subset
<1>3. Cardinality(WalkingIn(cur)) \in Nat
  BY <1>2, FS_CardinalityType
<1>4. Cardinality(WalkingIn(cur)) = 0 <=> WalkingIn(cur) = {}
  BY <1>2, FS_EmptySet
<1>5. ASSUME NEW w \in Walk, cur[w] = Idle
      PROVE  Cardinality(WalkingIn([cur EXCEPT ![w] = 0])) = Cardinality(WalkingIn(cur)) + 1
  <2>1. WalkingIn([cur EXCEPT ![w] = 0]) = WalkingIn(cur) \cup {w} /\ w \notin WalkingIn(cur)
    BY <1>1, <1>5 DEF WalkingIn
  <2>2. Cardinality(WalkingIn(cur) \cup {w}) = Cardinality(WalkingIn(cur)) + 1
    BY <1>2, <2>1, FS_AddElement
  <2> QED BY <2>1, <2>2
<1>6. ASSUME NEW w \in Walk, NEW i \in Nat, cur[w] # Idle
      PROVE  WalkingIn([cur EXCEPT ![w] = i]) = WalkingIn(cur)
  BY <1>1, <1>6 DEF WalkingIn
<1>7. ASSUME NEW w \in Walk, cur[w] # Idle
      PROVE  Cardinality(WalkingIn([cur EXCEPT ![w] = Idle])) = Cardinality(WalkingIn(cur)) - 1
  <2>1. WalkingIn([cur EXCEPT ![w] = Idle]) = WalkingIn(cur) \ {w} /\ w \in WalkingIn(cur)
    BY <1>7 DEF WalkingIn
  <2>2. Cardinality(WalkingIn(cur) \ {w}) = Cardinality(WalkingIn(cur)) - 1
    BY <1>2, <1>3, <2>1, FS_RemoveElement
  <2> QED BY <2>1, <2>2
<1> QED BY <1>3, <1>4, <1>5, <1>6, <1>7

\* The storage after a step, and the types of what goes with it.
LEMMA StoredFrom ==
  ASSUME StorageInv(map'), cursor' \in [Walk -> Nat \cup {Idle}], seen' \in [Walk -> SUBSET Key],
         map'.iterating = Cardinality(WalkingIn(cursor'))
  PROVE  StoredInv'
<1> DEFINE m == map'
<1>1. StorageInv(m)
  OBVIOUS
<1> HIDE DEF m
<1>2. /\ m.size \in Nat /\ m.capacity \in Nat /\ m.iterating \in Nat
      /\ m.entries \in Seq(Entry) /\ Used(m) <= m.capacity
      /\ m.index \in [DOMAIN m.index -> 0..Used(m)]
  BY <1>1, StorageTypes
<1>3. Walking' = WalkingIn(cursor')
  BY DEF Walking, WalkingIn
<1>4. TypeOK'
  BY <1>2 DEF TypeOK, m, Used
<1>5. (StorageInv(map))'
  OBVIOUS
<1> QED BY <1>3, <1>4, <1>5 DEF StoredInv

\* A new map is sound.
LEMMA StoredInit == Init => StoredInv
<1> SUFFICES ASSUME Init PROVE StoredInv
  OBVIOUS
<1>1. /\ StorageInv(map) /\ map.iterating = 0
      /\ cursor = [w \in Walk |-> Idle] /\ seen = [w \in Walk |-> {}]
  BY ResetInv DEF Init
<1>2. Walking = {} /\ Cardinality({}) = 0
  BY <1>1, FS_EmptySet DEF Walking
<1>3. TypeOK
  BY <1>1, StorageTypes DEF TypeOK
<1> QED BY <1>1, <1>2, <1>3 DEF StoredInv

\* What StoredInv says, for the actions.
LEMMA StoredFacts ==
  ASSUME StoredInv
  PROVE  /\ StorageInv(map) /\ cursor \in [Walk -> Nat \cup {Idle}] /\ seen \in [Walk -> SUBSET Key]
         /\ map.iterating = Cardinality(WalkingIn(cursor)) /\ map.iterating \in Nat
         /\ Walking = WalkingIn(cursor)
         /\ map.iterating = 0 <=> Walking = {}
<1>1. /\ StorageInv(map) /\ cursor \in [Walk -> Nat \cup {Idle}] /\ seen \in [Walk -> SUBSET Key]
      /\ map.iterating = Cardinality(Walking) /\ map.iterating \in Nat /\ Walking = WalkingIn(cursor)
  BY DEF StoredInv, TypeOK, Walking, WalkingIn
<1>2. Cardinality(WalkingIn(cursor)) = 0 <=> WalkingIn(cursor) = {}
  BY <1>1, WalkCount
<1> QED BY <1>1, <1>2

\* Every action of the program keeps the storage sound.
LEMMA StoredStep == StoredInv /\ [Next]_vars => StoredInv'
<1> SUFFICES ASSUME StoredInv, [Next]_vars PROVE StoredInv'
  OBVIOUS
<1>1. /\ StorageInv(map) /\ cursor \in [Walk -> Nat \cup {Idle}] /\ seen \in [Walk -> SUBSET Key]
      /\ map.iterating = Cardinality(WalkingIn(cursor)) /\ map.iterating \in Nat
  BY StoredFacts
<1>2. ASSUME NEW k \in Key, NEW v \in Val, Set(k, v) PROVE StoredInv'
  <2>1. map' = Put(map, k, v) /\ cursor' = cursor /\ seen' = seen
    BY <1>2 DEF Set
  <2>2. PutTo(map, Put(map, k, v))
    BY <1>1, PutInv
  <2>3. StorageInv(map') /\ map'.iterating = map.iterating
    BY <2>1, <2>2 DEF PutTo
  <2> QED BY <1>1, <2>1, <2>3, StoredFrom
<1>3. ASSUME NEW k \in Key, Remove(k) PROVE StoredInv'
  <2>1. /\ map' = Delete(map, k) /\ cursor' = cursor
        /\ seen' = [w \in Walk |-> seen[w] \ {NormalizedKey(k)}]
    BY <1>3 DEF Remove
  <2>2. DeletedFrom(map, Delete(map, k), k)
    BY <1>1, DeleteInv
  <2>3. StorageInv(map') /\ map'.iterating = map.iterating
    BY <2>1, <2>2 DEF DeletedFrom
  <2>4. seen' \in [Walk -> SUBSET Key]
    BY <1>1, <2>1
  <2> QED BY <1>1, <2>1, <2>3, <2>4, StoredFrom
<1>4. ASSUME ClearAll PROVE StoredInv'
  <2>1. map' = Reset(map.iterating) /\ cursor' = cursor /\ seen' = [w \in Walk |-> {}]
    BY <1>4 DEF ClearAll, Clear
  <2>2. StorageInv(Reset(map.iterating)) /\ Reset(map.iterating).iterating = map.iterating
    BY <1>1, ResetInv
  <2>3. seen' \in [Walk -> SUBSET Key]
    BY <2>1
  <2> QED BY <1>1, <2>1, <2>2, <2>3, StoredFrom
<1>5. ASSUME NEW w \in Walk, Begin(w) PROVE StoredInv'
  <2>1. /\ map' = [map EXCEPT !.iterating = map.iterating + 1] /\ cursor' = [cursor EXCEPT ![w] = 0]
        /\ seen' = seen /\ cursor[w] = Idle
    BY <1>5 DEF Begin
  <2>2. map.iterating + 1 \in Nat
    BY <1>1
  <2>3. StorageInv(map') /\ map'.iterating = map.iterating + 1
    BY <1>1, <2>1, <2>2, IteratingInv
  <2>4. Cardinality(WalkingIn(cursor')) = map.iterating + 1
    BY <1>1, <2>1, WalkCount
  <2>5. cursor' \in [Walk -> Nat \cup {Idle}]
    BY <1>1, <2>1
  <2> QED BY <1>1, <2>1, <2>3, <2>4, <2>5, StoredFrom
<1>6. ASSUME NEW w \in Walk, Visit(w) PROVE StoredInv'
  <2>1. PICK i \in Ahead(w) : /\ cursor' = [cursor EXCEPT ![w] = i]
                              /\ seen' = [seen EXCEPT ![w] = @ \cup {map.entries[i].key}]
    BY <1>6 DEF Visit
  <2>2. map' = map /\ cursor[w] # Idle
    BY <1>6 DEF Visit
  <2>3. i \in Nat /\ map.entries[i].key \in Key
    <3>1. cursor[w] \in Nat
      BY <1>1, <2>2
    <3>2. i \in LiveIn(map.entries) /\ i \in Nat
      BY <3>1 DEF Ahead, LiveIn, Used
    <3> QED BY <1>1, <3>2, StorageTypes
  <2>4. WalkingIn(cursor') = WalkingIn(cursor)
    BY <1>1, <2>1, <2>2, <2>3, WalkCount
  <2>5. cursor' \in [Walk -> Nat \cup {Idle}] /\ seen' \in [Walk -> SUBSET Key]
    BY <1>1, <2>1, <2>3
  <2> QED BY <1>1, <2>2, <2>4, <2>5, StoredFrom
<1>7. ASSUME NEW w \in Walk, Exhaust(w) \/ Leave(w) PROVE StoredInv'
  <2>1. /\ map' = [map EXCEPT !.iterating = map.iterating - 1] /\ cursor' = [cursor EXCEPT ![w] = Idle]
        /\ seen' = [seen EXCEPT ![w] = {}] /\ cursor[w] # Idle
    BY <1>7 DEF Exhaust, Leave, EndWalk
  <2>2. Cardinality(WalkingIn(cursor')) = map.iterating - 1
    BY <1>1, <2>1, WalkCount
  <2>3. cursor' \in [Walk -> Nat \cup {Idle}] /\ seen' \in [Walk -> SUBSET Key]
    BY <1>1, <2>1
  <2>4. map.iterating - 1 \in Nat
    BY <2>2, <2>3, WalkCount
  <2>5. StorageInv(map') /\ map'.iterating = map.iterating - 1
    BY <1>1, <2>1, <2>4, IteratingInv
  <2> QED BY <2>2, <2>3, <2>5, StoredFrom
<1>8. CASE UNCHANGED vars
  <2>1. map' = map /\ cursor' = cursor /\ seen' = seen
    BY <1>8 DEF vars
  <2> QED BY <1>1, <2>1, StoredFrom
<1> QED BY <1>2, <1>3, <1>4, <1>5, <1>6, <1>7, <1>8 DEF Next

\* The keys of the live ones of the first c entries.
Given(m, c) == {m.entries[i].key : i \in LiveIn(m.entries) \cap (1..c)}

\* No action takes a walk past an entry it was not given, or back to one it was: of all the
\* program can do, only clear() moves entries under a walk.
LEMMA WalkStep ==
  ASSUME ~ClearInWalk
  PROVE  StoredInv /\ WalkInv /\ [Next]_vars => WalkInv'
<1> SUFFICES ASSUME StoredInv, WalkInv, [Next]_vars PROVE WalkInv'
  OBVIOUS
<1>1. /\ StorageInv(map) /\ cursor \in [Walk -> Nat \cup {Idle}] /\ seen \in [Walk -> SUBSET Key]
      /\ map.iterating \in Nat /\ Idle \notin Nat
      /\ map.iterating = 0 <=> \A w \in Walk : cursor[w] = Idle
  BY StoredFacts, WalkAssumption DEF Walking
<1>2. \A w \in Walk : cursor[w] = Idle => seen[w] = {}
  BY DEF WalkInv
<1>3. \A w \in Walk : cursor[w] # Idle => /\ cursor[w] \in Nat /\ cursor[w] <= Used(map)
                                          /\ seen[w] = Given(map, cursor[w])
  BY <1>1 DEF WalkInv, Walking, Given
<1>4. Used(map) \in Nat /\ LiveIn(map.entries) \subseteq 1..Used(map)
  BY <1>1, StorageTypes
<1>5. ASSUME \A w \in Walk : /\ cursor'[w] = Idle => seen'[w] = {}
                             /\ cursor'[w] # Idle => /\ cursor'[w] <= Used(map')
                                                     /\ seen'[w] = Given(map', cursor'[w])
      PROVE  WalkInv'
  BY <1>5 DEF WalkInv, Walking, Given, Used
<1>6. ASSUME NEW k \in Key, NEW v \in Val, Set(k, v) PROVE WalkInv'
  <2>1. map' = Put(map, k, v) /\ cursor' = cursor /\ seen' = seen
    BY <1>6 DEF Set
  <2>2. PutTo(map, map')
    BY <1>1, <2>1, PutInv
  <2>3. ASSUME NEW w \in Walk, cursor[w] # Idle
        PROVE  cursor[w] <= Used(map') /\ Given(map', cursor[w]) = Given(map, cursor[w])
    <3> DEFINE g == map'
               c == cursor[w]
    <3>1. map.iterating > 0
      BY <1>1, <2>3
    <3>2. c \in Nat /\ c <= Used(map)
      BY <1>3, <2>3
    <3> HIDE DEF g, c
    <3>3. /\ Used(g) >= Used(map) /\ Used(g) \in Nat
          /\ LiveIn(g.entries) \cap (1..Used(map)) = LiveIn(map.entries)
          /\ \A i \in LiveIn(map.entries) : g.entries[i].key = map.entries[i].key
      BY <2>2, <3>1, StorageTypes DEF PutTo, g
    <3>4. LiveIn(g.entries) \cap (1..c) = LiveIn(map.entries) \cap (1..c)
      <4>1. 1..c \subseteq 1..Used(map)
        BY <1>4, <3>2
      <4> QED BY <3>3, <4>1
    <3>5. Given(g, c) = Given(map, c)
      BY <3>3, <3>4 DEF Given
    <3> QED BY <1>4, <3>2, <3>3, <3>5 DEF g, c
  <2> QED BY <1>2, <1>3, <1>5, <2>1, <2>3
<1>7. ASSUME NEW k \in Key, Remove(k) PROVE WalkInv'
  <2>1. /\ map' = Delete(map, k) /\ cursor' = cursor
        /\ seen' = [w \in Walk |-> seen[w] \ {NormalizedKey(k)}]
    BY <1>7 DEF Remove
  <2>2. DeletedFrom(map, map', k)
    BY <1>1, <2>1, DeleteInv
  <2>3. ASSUME NEW c PROVE Given(map', c) = Given(map, c) \ {NormalizedKey(k)}
    <3> DEFINE g == map'
    <3> HIDE DEF g
    <3>1. /\ LiveIn(g.entries) = {i \in LiveIn(map.entries) : map.entries[i].key # NormalizedKey(k)}
          /\ \A i \in LiveIn(g.entries) : g.entries[i] = map.entries[i]
      BY <2>2 DEF DeletedFrom, g
    <3>2. Given(g, c) = Given(map, c) \ {NormalizedKey(k)}
      BY <3>1 DEF Given
    <3> QED BY <3>2 DEF g
  <2>4. Used(map') = Used(map)
    BY <2>2 DEF DeletedFrom
  <2> QED BY <1>2, <1>3, <1>5, <2>1, <2>3, <2>4
<1>8. ASSUME ClearAll PROVE WalkInv'
  <2>1. cursor' = cursor /\ seen' = [w \in Walk |-> {}] /\ Walking = {}
    BY <1>8 DEF ClearAll
  <2>2. \A w \in Walk : cursor'[w] = Idle /\ seen'[w] = {}
    BY <2>1 DEF Walking
  <2> QED BY <1>5, <2>2
<1>9. ASSUME NEW w \in Walk, Begin(w) PROVE WalkInv'
  <2>1. map' = [map EXCEPT !.iterating = map.iterating + 1] /\ cursor' = [cursor EXCEPT ![w] = 0]
        /\ seen' = seen /\ cursor[w] = Idle
    BY <1>9 DEF Begin
  <2>2. map'.entries = map.entries /\ Used(map') = Used(map)
    BY <1>1, <2>1, IteratingInv
  <2>3. Given(map', 0) = {} /\ \A c : Given(map', c) = Given(map, c)
    BY <2>2 DEF Given
  <2> QED BY <1>1, <1>2, <1>3, <1>4, <1>5, <2>1, <2>2, <2>3
<1>10. ASSUME NEW w \in Walk, Visit(w) PROVE WalkInv'
  <2>1. PICK i \in Ahead(w) : /\ \A j \in Ahead(w) : i <= j
                              /\ cursor' = [cursor EXCEPT ![w] = i]
                              /\ seen' = [seen EXCEPT ![w] = @ \cup {map.entries[i].key}]
    BY <1>10 DEF Visit
  <2>2. map' = map /\ cursor[w] # Idle
    BY <1>10 DEF Visit
  <2> DEFINE c == cursor[w]
  <2>3. c \in Nat /\ c <= Used(map) /\ seen[w] = Given(map, c)
    BY <1>3, <2>2
  <2>4. Ahead(w) = {j \in LiveIn(map.entries) : j > c}
    BY <1>4, <2>3 DEF Ahead, LiveIn, Used
  <2> HIDE DEF c
  <2>5. i \in LiveIn(map.entries) /\ i \in Nat /\ i <= Used(map) /\ i > c
        /\ \A j \in LiveIn(map.entries) : j \in Nat
    BY <1>4, <2>1, <2>4
  <2>6. LiveIn(map.entries) \cap (1..i) = (LiveIn(map.entries) \cap (1..c)) \cup {i}
    BY <1>4, <2>1, <2>3, <2>4, <2>5
  <2>7. Given(map, i) = Given(map, c) \cup {map.entries[i].key}
    BY <2>6 DEF Given
  <2>8. \A u \in Walk : cursor'[u] = (IF u = w THEN i ELSE cursor[u])
    BY <1>1, <2>1
  <2>9. \A u \in Walk : seen'[u] = IF u = w THEN seen[w] \cup {map.entries[i].key} ELSE seen[u]
    BY <1>1, <2>1
  <2>10. ASSUME NEW u \in Walk
         PROVE  /\ cursor'[u] = Idle => seen'[u] = {}
                /\ cursor'[u] # Idle => cursor'[u] <= Used(map') /\ seen'[u] = Given(map', cursor'[u])
    <3>1. CASE u = w
      BY <1>1, <2>2, <2>3, <2>5, <2>7, <2>8, <2>9, <3>1
    <3>2. CASE u # w
      BY <1>2, <1>3, <2>2, <2>8, <2>9, <3>2
    <3> QED BY <3>1, <3>2
  <2> QED BY <1>5, <2>10
<1>11. ASSUME NEW w \in Walk, Exhaust(w) \/ Leave(w) PROVE WalkInv'
  <2>1. /\ map' = [map EXCEPT !.iterating = map.iterating - 1] /\ cursor' = [cursor EXCEPT ![w] = Idle]
        /\ seen' = [seen EXCEPT ![w] = {}]
    BY <1>11 DEF Exhaust, Leave, EndWalk
  <2>2. map'.entries = map.entries /\ Used(map') = Used(map)
    <3>1. map = [size |-> map.size, entries |-> map.entries, capacity |-> map.capacity,
                 index |-> map.index, iterating |-> map.iterating]
      BY <1>1 DEF StorageInv
    <3>2. map'.entries = map.entries
      BY <2>1, <3>1
    <3> QED BY <3>2 DEF Used
  <2>3. \A c : Given(map', c) = Given(map, c)
    BY <2>2 DEF Given
  <2>4. \A u \in Walk : /\ cursor'[u] = IF u = w THEN Idle ELSE cursor[u]
                        /\ seen'[u] = IF u = w THEN {} ELSE seen[u]
    BY <1>1, <2>1
  <2> QED BY <1>2, <1>3, <1>5, <2>2, <2>3, <2>4
<1>12. CASE UNCHANGED vars
  <2>1. map' = map /\ cursor' = cursor /\ seen' = seen
    BY <1>12 DEF vars
  <2> QED BY <1>2, <1>3, <1>5, <2>1
<1> QED BY <1>6, <1>7, <1>8, <1>9, <1>10, <1>11, <1>12 DEF Next

\* No walk is in progress at first.
LEMMA WalkInit == Init => WalkInv
<1> SUFFICES ASSUME Init PROVE WalkInv
  OBVIOUS
<1>1. \A w \in Walk : cursor[w] = Idle /\ seen[w] = {}
  BY DEF Init
<1> QED BY <1>1 DEF WalkInv, Walking

-----------------------------------------------------------------------------
(* The theorems.                                                           *)

\* The storage of a map is sound after any calls, a clear() in the middle of a walk
\* included (map_put, map_grow, jsrt_map_delete, jsrt_map_clear): the index leads to
\* every live entry along unbroken chains, and one slot of it is empty.
THEOREM StorageInvariance == Spec => []StoredInv
<1>1. Init => StoredInv
  BY StoredInit
<1>2. StoredInv /\ [Next]_vars => StoredInv'
  BY StoredStep
<1> QED BY <1>1, <1>2, PTL DEF Spec

\* So a lookup always ends, and finds the one entry that holds the key.
LEMMA StoredIndexExact == StoredInv => IndexExact
<1> SUFFICES ASSUME StoredInv PROVE IndexExact
  OBVIOUS
<1>1. StorageInv(map)
  BY StoredFacts
<1>2. LiveIn(map.entries) = {i \in 1..Used(map) : map.entries[i].live}
  BY DEF LiveIn, Used
<1>3. map.size = Cardinality(LiveIn(map.entries))
  BY <1>1 DEF StorageInv
<1>4. ASSUME NEW k \in Key
      PROVE  /\ map.index # <<>> => ProbeEnds(map.entries, map.index, k)
             /\ LiveAt(k) = IF Find(map, k) = 0 THEN {} ELSE {Find(map, k)}
  <2> DEFINE at == Find(map, k)
  <2>1. Found(map, k, at) /\ (map.index # <<>> => ProbeEnds(map.entries, map.index, k))
    BY <1>1, FindFound
  <2>2. LiveAt(k) = {i \in LiveIn(map.entries) : SameValueZero(map.entries[i].key, k)}
    BY DEF LiveAt, LiveIn, Used
  <2>3. \A i \in LiveIn(map.entries) : SameValueZero(map.entries[i].key, k) => at = i
    BY <1>1, FoundOnly
  <2> HIDE DEF at
  <2>4. CASE at = 0
    BY <2>1, <2>2, <2>4 DEF Found, at
  <2>5. CASE at # 0
    <3>1. at \in LiveAt(k)
      BY <2>1, <2>2, <2>5 DEF Found
    <3>2. LiveAt(k) = {at}
      BY <2>2, <2>3, <3>1
    <3> QED BY <2>1, <2>5, <3>2 DEF at
  <2> QED BY <2>1, <2>4, <2>5 DEF at
<1> QED BY <1>2, <1>3, <1>4 DEF IndexExact

\* The index is exact, for every hash of the keys, however many of them collide and
\* whatever was deleted, grown over or cleared (IndexExact).
THEOREM LookupsExact == Spec => []IndexExact
<1>1. StoredInv => IndexExact
  BY StoredIndexExact
<1> QED BY <1>1, StorageInvariance, PTL

\* The inductive invariant of a map that no body clears while it is walked (MapInv).
THEOREM MapInvariance ==
  ASSUME ~ClearInWalk
  PROVE  Spec => []MapInv
<1>1. Init => WalkInv
  BY WalkInit
<1>2. StoredInv /\ WalkInv /\ [Next]_vars => WalkInv'
  BY WalkStep
<1> QED BY <1>1, <1>2, StorageInvariance, PTL DEF Spec, MapInv

\* The invariant of the walks is what WalkExact says.
LEMMA MapWalkExact == MapInv => WalkExact
<1> SUFFICES ASSUME MapInv PROVE WalkExact
  OBVIOUS
<1>1. KeysOnce(map.entries) /\ LiveIn(map.entries) \subseteq 1..Used(map)
  BY StoredFacts, StorageTypes DEF MapInv, StorageInv
<1>2. ASSUME NEW w \in Walking, NEW i \in 1..Used(map), map.entries[i].live
      PROVE  i <= cursor[w] <=> map.entries[i].key \in seen[w]
  <2>1. w \in Walk /\ cursor[w] # Idle /\ cursor[w] \in Nat
    BY StoredFacts DEF Walking, MapInv
  <2>2. seen[w] = {map.entries[j].key : j \in LiveIn(map.entries) \cap (1..cursor[w])}
    BY <2>1 DEF MapInv, WalkInv
  <2>3. i \in LiveIn(map.entries) /\ Used(map) \in Nat
    BY <1>2 DEF LiveIn, Used
  <2>4. i <= cursor[w] <=> i \in 1..cursor[w]
    BY <2>1, <2>3
  <2> QED BY <1>1, <2>2, <2>3, <2>4 DEF KeysOnce
<1> QED BY <1>2 DEF WalkExact

\* A forEach, a for-of or a stored iterator is given every entry once, in whatever
\* order the body and others add, overwrite and delete (WalkExact).
THEOREM WalksExact ==
  ASSUME ~ClearInWalk
  PROVE  Spec => []WalkExact
<1>1. MapInv => WalkExact
  BY MapWalkExact
<1> QED BY <1>1, MapInvariance, PTL

\* A set/delete loop does not grow the array without bound: capacity is doubled only
\* for live entries, or under a walk in progress (StorageBounded; map_grow).
THEOREM GrowthBounded == Spec => StorageBounded
<1> DEFINE Bounded ==
      map'.capacity > map.capacity =>
        \/ Walking # {}
        \/ map'.capacity <= FirstCapacity
        \/ map'.capacity < 4 * (Cardinality({i \in 1..Used(map) : map.entries[i].live}) + 1)
<1>1. StoredInv /\ [Next]_vars => Bounded \/ UNCHANGED vars
  <2> SUFFICES ASSUME StoredInv, [Next]_vars, map'.capacity > map.capacity, Walking = {}
               PROVE  \/ map'.capacity <= FirstCapacity
                      \/ map'.capacity < 4 * (Cardinality({i \in 1..Used(map) : map.entries[i].live}) + 1)
    OBVIOUS
  <2>1. /\ StorageInv(map) /\ map.iterating = 0 /\ map.capacity \in Nat /\ map.size \in Nat
        /\ map.iterating \in Nat
        /\ map.size = Cardinality({i \in 1..Used(map) : map.entries[i].live})
    BY StoredFacts, StorageTypes DEF StorageInv, LiveIn, Used
  <2> DEFINE c == map.capacity
             d == map'.capacity
  <2>2. ASSUME NEW n \in Nat, map' = [map EXCEPT !.iterating = n] PROVE FALSE
    BY <2>1, <2>2, IteratingInv
  <2>3. PICK k \in Key, v \in Val : Set(k, v)
    <3>1. ~ClearAll
      <4>1. Reset(map.iterating).capacity = 0
        BY <2>1, ResetInv
      <4> QED BY <2>1, <4>1 DEF ClearAll, Clear
    <3>2. \A k \in Key : ~Remove(k)
      <4> SUFFICES ASSUME NEW k \in Key, Remove(k) PROVE FALSE
        OBVIOUS
      <4>1. DeletedFrom(map, map', k)
        BY <2>1, DeleteInv DEF Remove
      <4> QED BY <2>1, <4>1 DEF DeletedFrom
    <3>3. ASSUME NEW w \in Walk PROVE ~Begin(w) /\ ~Visit(w) /\ ~Exhaust(w) /\ ~Leave(w)
      <4>1. ~Begin(w)
        BY <2>1, <2>2 DEF Begin
      <4>2. ~(map' = map)
        BY <2>1
      <4>3. cursor[w] = Idle
        BY DEF Walking
      <4> QED BY <4>1, <4>2, <4>3 DEF Visit, Exhaust, Leave
    <3>4. ~UNCHANGED vars
      BY <2>1 DEF vars
    <3> QED BY <3>1, <3>2, <3>3, <3>4 DEF Next
  <2>4. PutTo(map, map')
    BY <2>1, <2>3, PutInv DEF Set
  <2>5. d = GrownCapacity(map)
    BY <2>4 DEF PutTo
  <2>6. d = IF map.size + 1 > c \div 2 THEN IF c = 0 THEN FirstCapacity ELSE 2 * c ELSE c
    BY <2>1, <2>5 DEF GrownCapacity
  <2>7. FirstCapacity \in Nat
    BY MapAssumption
  <2> DEFINE s == map.size
  <2>8. s \in Nat /\ c \in Nat /\ d > c
    BY <2>1
  <2> HIDE DEF c, d, s
  <2>9. d <= FirstCapacity \/ d < 4 * (s + 1)
    BY <2>6, <2>7, <2>8 DEF s
  <2> QED BY <2>1, <2>9 DEF d, s
<1>2. StoredInv /\ [Next]_vars => [Bounded]_vars
  BY <1>1 DEF vars
<1> QED BY <1>2, StorageInvariance, PTL DEF Spec, StorageBounded

-----------------------------------------------------------------------------
(* The refinement: the live entries, in the order they were kept.          *)

\* How many of the first n entries are live: the place of a live entry n in the order.
Rank(x, n) == Cardinality(LiveTo(x, n))

\* Ranks grow with the entries, and strictly at a live one.
LEMMA RankSteps ==
  ASSUME NEW x, NEW i \in Nat, NEW j \in Nat
  PROVE  /\ Rank(x, i) \in 0..i
         /\ i < j => /\ Rank(x, i) <= Rank(x, j)
                     /\ x[j].live => Rank(x, i) + 1 <= Rank(x, j)
<1>1. /\ IsFiniteSet(LiveTo(x, i)) /\ Rank(x, i) \in 0..i
      /\ IsFiniteSet(LiveTo(x, j)) /\ Rank(x, j) \in 0..j
  BY LiveFinite DEF Rank
<1>2. ASSUME i < j PROVE Rank(x, i) <= Rank(x, j)
  <2>1. LiveTo(x, i) \in SUBSET LiveTo(x, j)
    BY <1>2 DEF LiveTo
  <2> QED BY <1>1, <2>1, FS_Subset DEF Rank
<1>3. ASSUME i < j, x[j].live PROVE Rank(x, i) + 1 <= Rank(x, j)
  <2>1. LiveTo(x, i) \cup {j} \in SUBSET LiveTo(x, j) /\ j \notin LiveTo(x, i)
    BY <1>3 DEF LiveTo
  <2>2. Cardinality(LiveTo(x, i) \cup {j}) = Cardinality(LiveTo(x, i)) + 1
    BY <1>1, <2>1, FS_AddElement
  <2>3. Cardinality(LiveTo(x, i) \cup {j}) <= Cardinality(LiveTo(x, j))
    BY <1>1, <2>1, FS_Subset
  <2> QED BY <2>2, <2>3 DEF Rank
<1> QED BY <1>1, <1>2, <1>3

\* What has been kept of the first n entries has each live one at its rank.
RankedTo(x, y, n) ==
  /\ Len(y) = Rank(x, n)
  /\ \A i \in LiveTo(x, n) : Rank(x, i) \in 1..Len(y) /\ y[Rank(x, i)] = x[i]
  /\ \A j \in 1..Len(y) : \E i \in LiveTo(x, n) : Rank(x, i) = j

\* The copying loop puts every live entry at its rank.
LEMMA KeptRanked ==
  ASSUME NEW x \in Seq(Entry), KeysOnce(x)
  PROVE  \A n \in 0..Len(x) : RankedTo(x, Kept(x)[n], n)
<1> DEFINE L == Len(x)
           kept == Kept(x)
           S == {n \in 0..L : RankedTo(x, kept[n], n)}
<1>1. L \in Nat /\ KeptBy(x, kept)
  BY KeptSteps
<1>2. \A n \in 0..L : kept[n] \in Seq(Entry) /\ Len(kept[n]) = Rank(x, n)
  BY KeptTos DEF KeptTo, Rank
<1> HIDE DEF kept
<1>3. 0 \in S
  <2>1. LiveTo(x, 0) = {}
    BY DEF LiveTo
  <2>2. kept[0] = <<>> /\ Len(kept[0]) = Rank(x, 0)
    BY <1>1, <1>2 DEF KeptBy
  <2>3. RankedTo(x, kept[0], 0)
    <3> HIDE DEF L
    <3> QED BY <2>1, <2>2 DEF RankedTo
  <2> QED BY <1>1, <2>3
<1>4. ASSUME NEW n \in 0..(L - 1), n \in S PROVE n + 1 \in S
  <2> DEFINE y == kept[n]
             z == kept[n + 1]
  <2>1. /\ n \in Nat /\ n + 1 \in 1..L /\ n + 1 \in 0..L /\ n \in 0..L /\ x[n + 1] \in Entry
        /\ RankedTo(x, y, n)
        /\ z = IF x[n + 1].live THEN Append(y, x[n + 1]) ELSE y
    BY <1>1, <1>4 DEF KeptBy
  <2>2. y \in Seq(Entry) /\ Len(y) \in Nat /\ Len(y) = Rank(x, n) /\ Len(z) = Rank(x, n + 1)
    <3>1. n \in 0..L /\ n + 1 \in 0..L
      BY <1>1, <1>4
    <3> HIDE DEF L
    <3>2. y \in Seq(Entry) /\ Len(y) = Rank(x, n)
      BY <1>2, <3>1
    <3>3. Len(z) = Rank(x, n + 1)
      BY <1>2, <3>1
    <3> QED BY <3>2, <3>3
  <2>3. LiveTo(x, n + 1) = IF x[n + 1].live THEN LiveTo(x, n) \cup {n + 1} ELSE LiveTo(x, n)
    BY <2>1 DEF LiveTo
  <2> HIDE DEF y, z, L
  <2>4. CASE ~x[n + 1].live
    <3>1. z = y /\ LiveTo(x, n + 1) = LiveTo(x, n) /\ Rank(x, n + 1) = Rank(x, n)
      BY <2>1, <2>3, <2>4 DEF Rank
    <3> QED BY <2>1, <3>1 DEF RankedTo, z
  <2>5. CASE x[n + 1].live
    <3>1. z = Append(y, x[n + 1]) /\ LiveTo(x, n + 1) = LiveTo(x, n) \cup {n + 1}
      BY <2>1, <2>3, <2>5
    <3>2. Len(z) = Len(y) + 1 /\ z[Len(y) + 1] = x[n + 1] /\ \A j \in 1..Len(y) : z[j] = y[j]
      BY <2>1, <2>2, <3>1
    <3>3. ASSUME NEW i \in LiveTo(x, n + 1)
          PROVE  Rank(x, i) \in 1..Len(z) /\ z[Rank(x, i)] = x[i]
      <4>1. CASE i = n + 1
        BY <2>2, <3>2, <4>1
      <4>2. CASE i # n + 1
        <5>1. Rank(x, i) \in 1..Len(y) /\ y[Rank(x, i)] = x[i]
          BY <2>1, <3>1, <4>2 DEF RankedTo
        <5> QED BY <2>2, <3>2, <5>1
      <4> QED BY <4>1, <4>2
    <3>4. ASSUME NEW j \in 1..Len(z) PROVE \E i \in LiveTo(x, n + 1) : Rank(x, i) = j
      <4>1. CASE j = Len(y) + 1
        BY <2>2, <3>1, <3>2, <4>1
      <4>2. CASE j # Len(y) + 1
        <5>1. j \in 1..Len(y)
          BY <2>2, <3>2, <4>2
        <5> QED BY <2>1, <3>1, <5>1 DEF RankedTo
      <4> QED BY <4>1, <4>2
    <3>5. RankedTo(x, z, n + 1)
      BY <2>2, <3>3, <3>4 DEF RankedTo
    <3> QED BY <2>1, <3>5 DEF z
  <2> QED BY <2>4, <2>5
<1>5. \A n \in 0..L : n \in S
  <2> HIDE DEF S, L
  <2> QED BY <1>1, <1>3, <1>4, UpTo
<1> QED BY <1>5 DEF kept

\* What the program sees of an entry, and of the entries.
Pair == [key : Key, value : Val]
PairOf(e) == [key |-> e.key, value |-> e.value]
Pairs(x) == [i \in DOMAIN Kept(x)[Len(x)] |-> PairOf(Kept(x)[Len(x)][i])]

\* o is the entries the program sees: each live one at its rank.
Orders(x, o) ==
  /\ o \in Seq(Pair) /\ Len(o) = Rank(x, Len(x))
  /\ \A i \in LiveIn(x) : Rank(x, i) \in 1..Len(o) /\ o[Rank(x, i)] = PairOf(x[i])

\* What the program sees is each live entry at its rank, and nothing else.
LEMMA PairsOrder ==
  ASSUME NEW x \in Seq(Entry), KeysOnce(x)
  PROVE  /\ Orders(x, Pairs(x))
         /\ \A j \in 1..Len(Pairs(x)) : \E i \in LiveIn(x) : Rank(x, i) = j
<1> DEFINE n == Len(x)
           y == Kept(x)[n]
           o == Pairs(x)
<1>1. n \in Nat /\ n \in 0..Len(x) /\ LiveTo(x, n) = LiveIn(x)
  BY DEF LiveTo, LiveIn
<1>2. RankedTo(x, y, n) /\ y \in Seq(Entry)
  BY <1>1, KeptRanked, KeptTos DEF KeptTo
<1>3. \A i \in LiveIn(x) : PairOf(x[i]) \in Pair
  BY DEF KeysOnce, PairOf, Pair
<1>4. o = [i \in DOMAIN y |-> PairOf(y[i])]
  BY DEF Pairs
<1> HIDE DEF n, y, o
<1>5. DOMAIN y = 1..Len(y) /\ Len(y) \in Nat
  BY <1>2
<1>6. \A j \in 1..Len(y) : \E i \in LiveIn(x) : Rank(x, i) = j /\ y[j] = x[i]
  <2> SUFFICES ASSUME NEW j \in 1..Len(y) PROVE \E i \in LiveIn(x) : Rank(x, i) = j /\ y[j] = x[i]
    OBVIOUS
  <2>1. PICK i \in LiveIn(x) : Rank(x, i) = j
    BY <1>1, <1>2 DEF RankedTo
  <2>2. y[Rank(x, i)] = x[i]
    BY <1>1, <1>2 DEF RankedTo
  <2> QED BY <2>1, <2>2
<1>7. \A j \in 1..Len(y) : PairOf(y[j]) \in Pair
  BY <1>3, <1>6
<1>8. o \in [1..Len(y) -> Pair] /\ \A j \in 1..Len(y) : o[j] = PairOf(y[j])
  BY <1>4, <1>5, <1>7
<1>9. o \in Seq(Pair) /\ Len(o) = Len(y)
  <2>1. o \in Seq(Pair)
    BY <1>5, <1>8, SeqDef
  <2>2. DOMAIN o = 1..Len(y) /\ DOMAIN o = 1..Len(o) /\ Len(o) \in Nat
    BY <1>8, <2>1, LenProperties
  <2> QED BY <1>5, <2>1, <2>2
<1>10. Len(y) = Rank(x, n) /\ \A i \in LiveIn(x) : Rank(x, i) \in 1..Len(y) /\ y[Rank(x, i)] = x[i]
  BY <1>1, <1>2 DEF RankedTo
<1>11. Orders(x, o)
  BY <1>8, <1>9, <1>10 DEF Orders, n
<1> QED BY <1>6, <1>9, <1>11 DEF o

\* There is one such order.
LEMMA OrdersOne ==
  ASSUME NEW x \in Seq(Entry), KeysOnce(x), NEW o, Orders(x, o)
  PROVE  o = Pairs(x)
<1> DEFINE p == Pairs(x)
<1>1. Orders(x, p) /\ \A j \in 1..Len(p) : \E i \in LiveIn(x) : Rank(x, i) = j
  BY PairsOrder
<1> HIDE DEF p
<1>2. o \in Seq(Pair) /\ p \in Seq(Pair) /\ Len(o) = Len(p)
  BY <1>1 DEF Orders
<1>3. \A j \in 1..Len(o) : o[j] = p[j]
  BY <1>1, <1>2 DEF Orders
<1>4. o = p
  BY <1>2, <1>3, SeqEqual
<1> QED BY <1>4 DEF p

\* Compaction changes nothing the program sees.
LEMMA CompactPairs ==
  ASSUME NEW x \in Seq(Entry), KeysOnce(x)
  PROVE  Pairs(Kept(x)[Len(x)]) = Pairs(x)
<1> DEFINE n == Len(x)
           y == Kept(x)[n]
           o == Pairs(x)
           p == Pairs(y)
<1>1. Compacts(x, y)
  BY KeptCompacts
<1>2. y \in Seq(Entry) /\ KeysOnce(y) /\ Len(y) \in Nat /\ LiveIn(y) = 1..Len(y)
  BY <1>1 DEF Compacts
<1>3. o = [i \in DOMAIN y |-> PairOf(y[i])]
  BY DEF Pairs
<1> HIDE DEF y
<1>4. Orders(y, p) /\ Orders(x, o)
  BY <1>2, PairsOrder
<1> HIDE DEF o, p
<1>5. ASSUME NEW i \in 1..Len(y) PROVE Rank(y, i) = i
  <2>1. LiveTo(y, i) = 1..i /\ i \in Nat
    BY <1>2, <1>5 DEF LiveTo, LiveIn
  <2>2. Cardinality(1..i) = i
    BY <2>1, CountUpTo
  <2> QED BY <2>1, <2>2 DEF Rank
<1>6. DOMAIN y = 1..Len(y) /\ DOMAIN o = 1..Len(o) /\ Len(o) \in Nat /\ o \in Seq(Pair) /\ p \in Seq(Pair)
  BY <1>2, <1>4, LenProperties DEF Orders
<1>7. Len(o) = Len(y)
  <2>1. Len(x) \in 0..Len(x)
    OBVIOUS
  <2>2. Len(y) = Rank(x, Len(x))
    BY <2>1, KeptTos DEF KeptTo, Rank, y
  <2> QED BY <1>4, <2>2 DEF Orders
<1>8. Len(p) = Len(y)
  <2>1. CASE Len(y) = 0
    <3>1. LiveTo(y, 0) = {} /\ Cardinality({}) = 0
      BY FS_EmptySet DEF LiveTo
    <3> QED BY <1>4, <2>1, <3>1 DEF Orders, Rank
  <2>2. CASE Len(y) # 0
    <3>1. Len(y) \in 1..Len(y)
      BY <1>2, <2>2
    <3>2. Rank(y, Len(y)) = Len(y)
      BY <1>5, <3>1
    <3> QED BY <1>4, <3>2 DEF Orders
  <2> QED BY <2>1, <2>2
<1>9. \A i \in 1..Len(p) : p[i] = o[i]
  <2> SUFFICES ASSUME NEW i \in 1..Len(p) PROVE p[i] = o[i]
    OBVIOUS
  <2>1. i \in 1..Len(y) /\ i \in LiveIn(y) /\ Rank(y, i) = i
    BY <1>2, <1>5, <1>8
  <2>2. p[Rank(y, i)] = PairOf(y[i])
    BY <1>4, <2>1 DEF Orders
  <2>3. o[i] = PairOf(y[i])
    BY <1>3, <1>6, <2>1
  <2> QED BY <2>1, <2>2, <2>3
<1>10. p = o
  BY <1>6, <1>7, <1>8, <1>9, SeqEqual
<1> QED BY <1>10 DEF o, p, y

\* An entry appended comes last.
LEMMA AppendPairs ==
  ASSUME NEW x \in Seq(Entry), KeysOnce(x), NEW e \in Entry, e.live, KeysOnce(Append(x, e))
  PROVE  /\ Pairs(Append(x, e)) = Append(Pairs(x), PairOf(e))
         /\ \A n \in 0..Len(x) : Rank(Append(x, e), n) = Rank(x, n)
<1> DEFINE y == Append(x, e)
           o == Pairs(x)
           n == Len(x)
           q == Append(o, PairOf(e))
<1>1. /\ n \in Nat /\ y \in Seq(Entry) /\ Len(y) = n + 1 /\ y[n + 1] = e
      /\ \A i \in 1..n : y[i] = x[i]
  OBVIOUS
<1>2. Orders(x, o) /\ KeysOnce(y)
  BY PairsOrder
<1> HIDE DEF y, o
<1>3. \A i \in 0..n : LiveTo(y, i) = LiveTo(x, i)
  BY <1>1 DEF LiveTo
<1>4. \A i \in 0..n : Rank(y, i) = Rank(x, i)
  BY <1>3 DEF Rank
<1>5. Rank(y, n + 1) = Rank(x, n) + 1 /\ Rank(x, n) \in Nat
  <2>1. Rank(y, n) = Rank(x, n)
    BY <1>1, <1>4
  <2>2. Rank(y, n + 1) = Rank(y, n) + 1
    BY <1>1, LiveFinite DEF Rank
  <2>3. Rank(x, n) \in 0..n
    BY <1>1, RankSteps
  <2> QED BY <1>1, <2>1, <2>2, <2>3
<1>6. PairOf(e) \in Pair
  <2>1. n + 1 \in LiveIn(y)
    BY <1>1 DEF LiveIn
  <2> QED BY <1>1, <1>2, <2>1 DEF KeysOnce, PairOf, Pair
<1>7. o \in Seq(Pair) /\ Len(o) = Rank(x, n) /\ Len(o) \in Nat
  BY <1>2 DEF Orders
<1>8. q \in Seq(Pair) /\ Len(q) = Len(o) + 1 /\ q[Len(o) + 1] = PairOf(e) /\ \A i \in 1..Len(o) : q[i] = o[i]
  BY <1>6, <1>7, AppendProperties
<1> HIDE DEF q
<1>9. ASSUME NEW i \in LiveIn(y) PROVE Rank(y, i) \in 1..Len(q) /\ q[Rank(y, i)] = PairOf(y[i])
  <2>1. CASE i = n + 1
    BY <1>1, <1>5, <1>7, <1>8, <2>1
  <2>2. CASE i # n + 1
    <3>1. i \in 1..n /\ i \in LiveIn(x) /\ y[i] = x[i] /\ i \in 0..n
      BY <1>1, <2>2 DEF LiveIn
    <3>2. Rank(x, i) \in 1..Len(o) /\ o[Rank(x, i)] = PairOf(x[i])
      BY <1>2, <3>1 DEF Orders
    <3> QED BY <1>4, <1>7, <1>8, <3>1, <3>2
  <2> QED BY <2>1, <2>2
<1>10. Orders(y, q)
  <2> HIDE DEF n
  <2> QED BY <1>1, <1>5, <1>7, <1>8, <1>9 DEF Orders
<1>11. q = Pairs(y)
  BY <1>1, <1>2, <1>10, OrdersOne
<1> QED BY <1>4, <1>11 DEF q, y, o

\* An entry written in place stays where it was.
LEMMA OverwritePairs ==
  ASSUME NEW x \in Seq(Entry), KeysOnce(x), NEW y \in Seq(Entry), KeysOnce(y), Len(y) = Len(x),
         LiveIn(y) = LiveIn(x), NEW at \in LiveIn(x), \A i \in LiveIn(x) : i # at => y[i] = x[i]
  PROVE  /\ Pairs(y) = [Pairs(x) EXCEPT ![Rank(x, at)] = PairOf(y[at])]
         /\ \A n \in 0..Len(x) : Rank(y, n) = Rank(x, n)
<1> DEFINE o == Pairs(x)
           r == Rank(x, at)
           q == [o EXCEPT ![r] = PairOf(y[at])]
           n == Len(x)
<1>1. Orders(x, o) /\ n \in Nat
  BY PairsOrder
<1> HIDE DEF o
<1>2. \A i \in 0..n : LiveTo(y, i) = LiveTo(x, i)
  BY DEF LiveTo, LiveIn
<1>3. \A i \in 0..n : Rank(y, i) = Rank(x, i)
  BY <1>2 DEF Rank
<1>4. PairOf(y[at]) \in Pair
  BY DEF KeysOnce, PairOf, Pair
<1>5. o \in Seq(Pair) /\ Len(o) = Rank(x, n) /\ r \in 1..Len(o)
  BY <1>1 DEF Orders
<1>6. q \in Seq(Pair) /\ Len(q) = Len(o) /\ q[r] = PairOf(y[at]) /\ \A j \in 1..Len(o) : j # r => q[j] = o[j]
  BY <1>4, <1>5, ExceptSeq
<1> HIDE DEF q
<1>7. ASSUME NEW i \in LiveIn(x) PROVE Rank(y, i) \in 1..Len(q) /\ q[Rank(y, i)] = PairOf(y[i])
  <2>1. Rank(x, i) \in 1..Len(o) /\ o[Rank(x, i)] = PairOf(x[i]) /\ i \in 0..n /\ at \in Nat /\ i \in Nat
        /\ x[i].live /\ x[at].live
    BY <1>1 DEF Orders, LiveIn
  <2>2. CASE i = at
    BY <1>3, <1>6, <2>1, <2>2
  <2>3. CASE i # at
    <3>1. Rank(x, i) # r
      <4>1. Rank(x, i) \in Nat /\ r \in Nat
        BY <2>1, RankSteps
      <4>2. CASE i < at
        BY <2>1, <4>1, <4>2, RankSteps
      <4>3. CASE at < i
        BY <2>1, <4>1, <4>3, RankSteps
      <4> QED BY <2>1, <2>3, <4>2, <4>3
    <3> QED BY <1>3, <1>6, <2>1, <2>3, <3>1
  <2> QED BY <2>2, <2>3
<1>8. Orders(y, q)
  <2>1. Rank(y, Len(y)) = Rank(x, n)
    BY <1>1, <1>3
  <2> QED BY <1>5, <1>6, <1>7, <2>1 DEF Orders
<1>9. q = Pairs(y)
  BY <1>8, OrdersOne
<1> QED BY <1>3, <1>9 DEF q, o

\* An entry that dies leaves those behind it one place nearer.
LEMMA DeletePairs ==
  ASSUME NEW x \in Seq(Entry), KeysOnce(x), NEW y \in Seq(Entry), KeysOnce(y), Len(y) = Len(x),
         NEW at \in LiveIn(x), LiveIn(y) = LiveIn(x) \ {at}, \A i \in LiveIn(y) : y[i] = x[i]
  PROVE  /\ Pairs(y) = SubSeq(Pairs(x), 1, Rank(x, at) - 1)
                         \o SubSeq(Pairs(x), Rank(x, at) + 1, Len(Pairs(x)))
         /\ Rank(x, at) \in 1..Len(Pairs(x))
         /\ \A n \in 0..Len(x) : Rank(y, n) = IF at <= n THEN Rank(x, n) - 1 ELSE Rank(x, n)
<1> DEFINE o == Pairs(x)
           r == Rank(x, at)
           l == Len(o)
           s == SubSeq(o, 1, r - 1)
           t == SubSeq(o, r + 1, l)
           q == s \o t
           n == Len(x)
<1>1. Orders(x, o) /\ n \in Nat /\ at \in 1..n /\ x[at].live
  BY PairsOrder DEF LiveIn
<1> HIDE DEF o
<1>2. ASSUME NEW i \in 0..n PROVE Rank(y, i) = IF at <= i THEN Rank(x, i) - 1 ELSE Rank(x, i)
  <2>1. LiveTo(y, i) = LiveTo(x, i) \ {at} /\ (at \in LiveTo(x, i) <=> at <= i)
    BY <1>1 DEF LiveTo, LiveIn
  <2>2. IsFiniteSet(LiveTo(x, i))
    BY <1>1, LiveFinite
  <2>3. Cardinality(LiveTo(x, i) \ {at}) = IF at \in LiveTo(x, i) THEN Cardinality(LiveTo(x, i)) - 1
                                           ELSE Cardinality(LiveTo(x, i))
    BY <2>2, FS_RemoveElement
  <2> QED BY <2>1, <2>3 DEF Rank
<1>3. o \in Seq(Pair) /\ l = Rank(x, n) /\ r \in 1..l /\ l \in Nat
  BY <1>1 DEF Orders
<1> HIDE DEF l, r
<1>4. \A i \in 1..l : o[i] \in Pair
  BY <1>3 DEF l
<1>5. /\ s \in Seq(Pair) /\ Len(s) = r - 1 /\ \A i \in 1..(r - 1) : s[i] = o[i]
      /\ t \in Seq(Pair) /\ Len(t) = l - r /\ \A i \in 1..(l - r) : t[i] = o[r + i]
  <2>1. /\ s \in Seq(Pair) /\ Len(s) = (IF 1 <= r - 1 THEN (r - 1) - 1 + 1 ELSE 0)
        /\ \A i \in 1..((r - 1) - 1 + 1) : s[i] = o[1 + i - 1]
    <3>1. 1 \in Int /\ r - 1 \in Int /\ \A i \in 1..(r - 1) : o[i] \in Pair
      BY <1>3, <1>4
    <3> QED BY <3>1, SubSeqProperties
  <2>2. /\ t \in Seq(Pair) /\ Len(t) = (IF r + 1 <= l THEN l - (r + 1) + 1 ELSE 0)
        /\ \A i \in 1..(l - (r + 1) + 1) : t[i] = o[(r + 1) + i - 1]
    <3>1. r + 1 \in Int /\ l \in Int /\ \A i \in (r + 1)..l : o[i] \in Pair
      BY <1>3, <1>4
    <3> QED BY <3>1, SubSeqProperties
  <2> HIDE DEF s, t
  <2> QED BY <1>3, <2>1, <2>2
<1> HIDE DEF s, t
<1>6. /\ q \in Seq(Pair) /\ Len(q) = l - 1
      /\ \A i \in 1..(l - 1) : q[i] = IF i < r THEN o[i] ELSE o[i + 1]
  <2>1. /\ q \in Seq(Pair) /\ Len(q) = Len(s) + Len(t)
        /\ \A i \in 1..Len(s) + Len(t) : q[i] = IF i <= Len(s) THEN s[i] ELSE t[i - Len(s)]
    <3>1. s \in Seq(Pair) /\ t \in Seq(Pair)
      BY <1>5
    <3> QED BY <3>1, ConcatProperties
  <2> HIDE DEF q
  <2>2. Len(q) = l - 1
    BY <1>3, <1>5, <2>1
  <2>3. ASSUME NEW i \in 1..(l - 1) PROVE q[i] = IF i < r THEN o[i] ELSE o[i + 1]
    <3>1. q[i] = IF i <= Len(s) THEN s[i] ELSE t[i - Len(s)]
      <4>1. Len(s) + Len(t) = l - 1
        BY <1>3, <1>5
      <4> QED BY <2>1, <4>1
    <3>2. CASE i < r
      <4>1. i \in 1..(r - 1) /\ i <= Len(s)
        BY <1>3, <1>5, <3>2
      <4> QED BY <1>5, <3>1, <3>2, <4>1
    <3>3. CASE ~(i < r)
      <4>1. i - (r - 1) \in 1..(l - r) /\ ~(i <= Len(s)) /\ Len(s) = r - 1 /\ r + (i - (r - 1)) = i + 1
        BY <1>3, <1>5, <3>3
      <4>2. t[i - (r - 1)] = o[r + (i - (r - 1))]
        BY <1>5, <4>1
      <4> QED BY <3>1, <3>3, <4>1, <4>2
    <3> QED BY <3>2, <3>3
  <2> QED BY <2>1, <2>2, <2>3
<1> HIDE DEF q
<1>7. ASSUME NEW i \in LiveIn(y) PROVE Rank(y, i) \in 1..Len(q) /\ q[Rank(y, i)] = PairOf(y[i])
  <2>1. /\ Rank(x, i) \in 1..l /\ o[Rank(x, i)] = PairOf(x[i]) /\ i \in 0..n /\ i # at
        /\ i \in Nat /\ at \in Nat /\ x[i].live
    BY <1>1 DEF Orders, LiveIn, l
  <2>2. CASE i < at
    <3>1. Rank(x, i) < r
      BY <1>1, <1>3, <2>1, <2>2, RankSteps DEF r
    <3> QED BY <1>2, <1>3, <1>6, <2>1, <2>2, <3>1
  <2>3. CASE at < i
    <3>1. Rank(x, i) > r
      BY <1>1, <1>3, <2>1, <2>3, RankSteps DEF r
    <3>2. Rank(y, i) = Rank(x, i) - 1
      BY <1>2, <2>1, <2>3
    <3> QED BY <1>3, <1>6, <2>1, <3>1, <3>2, SMTT(30)
  <2> QED BY <2>1, <2>2, <2>3
<1>8. Orders(y, q)
  <2>1. Rank(y, Len(y)) = Rank(x, n) - 1
    BY <1>1, <1>2
  <2> QED BY <1>3, <1>6, <1>7, <2>1 DEF Orders
<1>9. q = Pairs(y)
  BY <1>8, OrdersOne
<1> QED BY <1>2, <1>3, <1>9 DEF q, o, s, t, r, l

\* The places of a key in the order: that of the entry that holds it.
Places(o, k) == {j \in 1..Len(o) : SameValueZero(o[j].key, k)}

\* A key is in the order at the rank of the entry found for it, and nowhere else.
LEMMA FoundPlaces ==
  ASSUME NEW m, StorageInv(m), NEW k \in Key, NEW at, Found(m, k, at)
  PROVE  Places(Pairs(m.entries), k) = IF at = 0 THEN {} ELSE {Rank(m.entries, at)}
<1> DEFINE x == m.entries
           o == Pairs(x)
<1>1. x \in Seq(Entry) /\ KeysOnce(x)
  BY DEF StorageInv
<1>2. Orders(x, o) /\ \A j \in 1..Len(o) : \E i \in LiveIn(x) : Rank(x, i) = j
  BY <1>1, PairsOrder
<1> HIDE DEF o
<1>6. \A i \in LiveIn(x) : Rank(x, i) \in 1..Len(o) /\ o[Rank(x, i)].key = x[i].key
  <2> SUFFICES ASSUME NEW i \in LiveIn(x)
               PROVE  Rank(x, i) \in 1..Len(o) /\ o[Rank(x, i)].key = x[i].key
    OBVIOUS
  <2>1. Rank(x, i) \in 1..Len(o) /\ o[Rank(x, i)] = PairOf(x[i])
    BY <1>2 DEF Orders
  <2>2. PairOf(x[i]).key = x[i].key
    BY DEF PairOf
  <2> QED BY <2>1, <2>2
<1>3. \A j \in 1..Len(o) : \E i \in LiveIn(x) : Rank(x, i) = j /\ o[j].key = x[i].key
  BY <1>2, <1>6
<1>4. CASE at = 0
  <2>1. \A i \in LiveIn(x) : ~SameValueZero(x[i].key, k)
    BY <1>4 DEF Found
  <2>2. Places(o, k) = {}
    BY <1>3, <2>1 DEF Places, SameValueZero
  <2> QED BY <1>4, <2>2 DEF o
<1>5. CASE at # 0
  <2>1. at \in LiveIn(x) /\ SameValueZero(x[at].key, k)
    BY <1>5 DEF Found
  <2>2. \A i \in LiveIn(x) : SameValueZero(x[i].key, k) => i = at
    BY <1>1, <2>1 DEF KeysOnce, SameValueZero
  <2>3. Rank(x, at) \in 1..Len(o) /\ o[Rank(x, at)].key = x[at].key
    BY <1>6, <2>1
  <2>4. Rank(x, at) \in Places(o, k)
    BY <2>1, <2>3 DEF Places, SameValueZero
  <2>5. \A j \in Places(o, k) : j = Rank(x, at)
    BY <1>3, <2>2 DEF Places, SameValueZero
  <2>6. Places(o, k) = {Rank(x, at)}
    BY <2>4, <2>5
  <2> QED BY <1>5, <2>6 DEF o
<1> QED BY <1>4, <1>5

\* What the program sees of a put.
PutsPairs(m, g, k, v) ==
  /\ Pairs(g.entries) =
       IF Places(Pairs(m.entries), k) = {}
       THEN Append(Pairs(m.entries), [key |-> NormalizedKey(k), value |-> v])
       ELSE [i \in DOMAIN Pairs(m.entries) |->
               IF i \in Places(Pairs(m.entries), k) THEN [Pairs(m.entries)[i] EXCEPT !.value = v]
               ELSE Pairs(m.entries)[i]]
  /\ m.iterating > 0 => \A n \in 0..Used(m) : Rank(g.entries, n) = Rank(m.entries, n)

\* map_put is a put of the insertion-ordered map, and moves no walk in progress.
LEMMA PutPairs ==
  ASSUME NEW m, StorageInv(m), NEW k \in Key \ Refused, NEW v \in Val
  PROVE  PutsPairs(m, Put(m, k, v), k, v)
<1> DEFINE key == NormalizedKey(k)
           at == Find(m, key)
           b == IF Used(m) = m.capacity THEN Grow(m) ELSE m
           x == m.entries
           g == Put(m, k, v)
           o == Pairs(x)
<1>1. key \in Key /\ NormalizedKey(key) = NormalizedKey(k)
  BY NormalKey
<1>2. Found(m, key, at) /\ Found(m, k, at)
  BY <1>1, FindFound DEF Found, SameValueZero
<1>3. /\ m.iterating \in Nat /\ x \in Seq(Entry) /\ KeysOnce(x) /\ Used(m) = Len(x)
      /\ m.capacity \in Nat /\ Used(m) \in Nat /\ Used(m) <= m.capacity
  BY DEF StorageInv, Used
<1>4. Places(o, k) = IF at = 0 THEN {} ELSE {Rank(x, at)}
  BY <1>2, FoundPlaces
<1>5. CASE at # 0
  <2> DEFINE e == [x[at] EXCEPT !.value = v]
             r == Rank(x, at)
  <2>1. g = Overwrites(m, at, v)
    BY <1>5 DEF Put, Overwrites
  <2>2. at \in LiveIn(x)
    BY <1>2, <1>5 DEF Found
  <2>3. Written(m, Overwrites(m, at, v), at, e)
    <3> HIDE DEF at, key
    <3> QED BY <2>2, OverwritesInv
  <2>4. e.live /\ PairOf(e) = [key |-> x[at].key, value |-> v]
    BY <1>3, <2>2 DEF LiveIn, PairOf, Entry
  <2>5. Written(m, g, at, e)
    BY <2>1, <2>3
  <2> HIDE DEF g, e, at, key
  <2>6. /\ g.entries \in Seq(Entry) /\ KeysOnce(g.entries) /\ Len(g.entries) = Len(x)
        /\ LiveIn(g.entries) = LiveIn(x) /\ g.entries[at] = e
        /\ \A i \in LiveIn(x) : i # at => g.entries[i] = x[i]
    BY <1>3, <2>4, <2>5 DEF Written, StorageInv, Used
  <2>7. /\ Pairs(g.entries) = [o EXCEPT ![r] = PairOf(e)]
        /\ \A n \in 0..Len(x) : Rank(g.entries, n) = Rank(x, n)
    <3> DEFINE y == g.entries
    <3>1. /\ y \in Seq(Entry) /\ KeysOnce(y) /\ Len(y) = Len(x)
          /\ LiveIn(y) = LiveIn(x) /\ \A i \in LiveIn(x) : i # at => y[i] = x[i]
      BY <2>6
    <3> HIDE DEF y, x
    <3>2. /\ Pairs(y) = [Pairs(x) EXCEPT ![Rank(x, at)] = PairOf(y[at])]
          /\ \A n \in 0..Len(x) : Rank(y, n) = Rank(x, n)
      BY <1>3, <2>2, <3>1, OverwritePairs
    <3> QED BY <2>6, <3>2 DEF y
  <2>8. o \in Seq(Pair) /\ r \in 1..Len(o) /\ o[r] = PairOf(x[at])
    BY <1>3, <2>2, PairsOrder DEF Orders
  <2>9. [o[r] EXCEPT !.value = v] = PairOf(e)
    BY <2>4, <2>8 DEF PairOf
  <2>10. [o EXCEPT ![r] = PairOf(e)] =
         [i \in DOMAIN o |-> IF i \in {r} THEN [o[i] EXCEPT !.value = v] ELSE o[i]]
    <3> HIDE DEF o, r
    <3>1. DOMAIN o = 1..Len(o)
      BY <2>8
    <3>2. [o EXCEPT ![r] = PairOf(e)] = [i \in DOMAIN o |-> IF i = r THEN PairOf(e) ELSE o[i]]
      BY <2>8, <3>1
    <3> QED BY <2>9, <3>2
  <2>11. Places(o, k) = {r}
    BY <1>4, <1>5
  <2> HIDE DEF o, r, x
  <2>12. PutsPairs(m, g, k, v)
    <3>1. Pairs(g.entries) = IF Places(o, k) = {} THEN Append(o, [key |-> NormalizedKey(k), value |-> v])
                             ELSE [i \in DOMAIN o |-> IF i \in Places(o, k) THEN [o[i] EXCEPT !.value = v] ELSE o[i]]
      BY <2>7, <2>10, <2>11
    <3> QED BY <1>3, <2>7, <3>1 DEF PutsPairs, o, x
  <2> QED BY <2>12 DEF g
<1>6. CASE at = 0
  <2> DEFINE e == [key |-> key, value |-> v, live |-> TRUE]
  <2>1. g = Appends(b, key, v)
    BY <1>6 DEF Put, Appends
  <2>2. \A i \in LiveIn(x) : x[i].key # key
    BY <1>1, <1>2, <1>6 DEF Found, SameValueZero
  <2>3. /\ StorageInv(b) /\ Used(b) < b.capacity /\ \A i \in LiveIn(b.entries) : b.entries[i].key # key
        /\ Pairs(b.entries) = o /\ (m.iterating > 0 => b.entries = x)
    <3>1. CASE Used(m) = m.capacity
      <4>1. b = Grow(m)
        BY <3>1
      <4> HIDE DEF b, key
      <4>2. Grown(m, b)
        BY <3>1, <4>1, GrowGrown
      <4>3. Pairs(b.entries) = o
        <5>1. b.entries = IF m.iterating = 0 THEN Kept(x)[Len(x)] ELSE x
          BY <4>2 DEF Grown, Survivors, Used
        <5>2. Pairs(Kept(x)[Len(x)]) = Pairs(x)
          BY <1>3, CompactPairs
        <5> QED BY <5>1, <5>2
      <4> QED BY <2>2, <4>2, <4>3 DEF Grown
    <3>2. CASE Used(m) # m.capacity
      <4>1. b = m
        BY <3>2
      <4> HIDE DEF b, key
      <4> QED BY <1>3, <2>2, <3>2, <4>1
    <3> QED BY <3>1, <3>2
  <2> HIDE DEF b, at
  <2>4. AppendedTo(b, g, key, v)
    <3>1. AppendedTo(b, Appends(b, key, v), key, v)
      <4>1. NormalizedKey(key) = key
        BY <1>1
      <4> HIDE DEF key
      <4> QED BY <1>1, <2>3, <4>1, AppendsInv
    <3> QED BY <2>1, <3>1
  <2>5. e \in Entry /\ e.live /\ PairOf(e) = [key |-> NormalizedKey(k), value |-> v]
    BY <1>1 DEF Entry, PairOf
  <2> HIDE DEF g, e, key
  <2>6. g.entries = Append(b.entries, e) /\ KeysOnce(g.entries)
    BY <2>4 DEF AppendedTo, StorageInv, e
  <2>7. b.entries \in Seq(Entry) /\ KeysOnce(b.entries)
    BY <2>3 DEF StorageInv
  <2>8. /\ Pairs(g.entries) = Append(Pairs(b.entries), PairOf(e))
        /\ \A n \in 0..Len(b.entries) : Rank(g.entries, n) = Rank(b.entries, n)
    <3> DEFINE z == b.entries
    <3>1. KeysOnce(Append(z, e)) /\ z \in Seq(Entry) /\ KeysOnce(z)
      BY <2>6, <2>7
    <3> HIDE DEF z
    <3>2. /\ Pairs(Append(z, e)) = Append(Pairs(z), PairOf(e))
          /\ \A n \in 0..Len(z) : Rank(Append(z, e), n) = Rank(z, n)
      BY <2>5, <3>1, AppendPairs
    <3> QED BY <2>6, <3>2 DEF z
  <2>9. Places(o, k) = {}
    BY <1>4, <1>6
  <2>10. Pairs(g.entries) = Append(o, [key |-> NormalizedKey(k), value |-> v])
    BY <2>3, <2>5, <2>8
  <2>11. m.iterating > 0 => \A n \in 0..Used(m) : Rank(g.entries, n) = Rank(x, n)
    BY <1>3, <2>3, <2>8
  <2>12. PutsPairs(m, g, k, v)
    BY <2>9, <2>10, <2>11 DEF PutsPairs
  <2> QED BY <2>12 DEF g
<1> QED BY <1>5, <1>6

\* What the program sees of a deletion.
DeletesPairs(m, g, k) ==
  LET o == Pairs(m.entries)
  IN \/ g = m
     \/ \E at \in LiveIn(m.entries) :
          /\ Places(o, k) = {Rank(m.entries, at)}
          /\ Pairs(g.entries) = SubSeq(o, 1, Rank(m.entries, at) - 1)
                                  \o SubSeq(o, Rank(m.entries, at) + 1, Len(o))
          /\ \A n \in 0..Used(m) :
               Rank(g.entries, n) = IF at <= n THEN Rank(m.entries, n) - 1 ELSE Rank(m.entries, n)

\* jsrt_map_delete is a removal of the insertion-ordered map, which takes one from what each
\* walk has passed if it had passed the entry.
LEMMA DeletePlaces ==
  ASSUME NEW m, StorageInv(m), NEW k \in Key
  PROVE  DeletesPairs(m, Delete(m, k), k)
<1> DEFINE x == m.entries
           at == Find(m, k)
           g == Delete(m, k)
<1>1. x \in Seq(Entry) /\ KeysOnce(x) /\ Used(m) = Len(x)
  BY DEF StorageInv, Used
<1>2. Found(m, k, at) /\ DeletedFrom(m, g, k)
  BY FindFound, DeleteInv
<1>3. CASE at = 0
  <2>1. g = m
    BY <1>3 DEF Delete
  <2> HIDE DEF g, x, at
  <2> QED BY <2>1 DEF DeletesPairs, g
<1>4. CASE at # 0
  <2>1. at \in LiveIn(x) /\ SameValueZero(x[at].key, k)
    BY <1>2, <1>4 DEF Found
  <2>2. Places(Pairs(x), k) = {Rank(x, at)}
    BY <1>2, <1>4, FoundPlaces
  <2> HIDE DEF at, g
  <2>3. \A i \in LiveIn(x) : x[i].key # NormalizedKey(k) <=> i # at
    BY <1>1, <2>1 DEF KeysOnce, SameValueZero
  <2> DEFINE y == g.entries
  <2>4. /\ y \in Seq(Entry) /\ KeysOnce(y) /\ Len(y) = Len(x) /\ LiveIn(y) = LiveIn(x) \ {at}
        /\ \A i \in LiveIn(y) : y[i] = x[i]
    <3>1. y \in Seq(Entry) /\ KeysOnce(y) /\ Len(y) = Len(x) /\ \A i \in LiveIn(y) : y[i] = x[i]
      BY <1>1, <1>2 DEF DeletedFrom, StorageInv, Used
    <3>2. LiveIn(y) = {i \in LiveIn(x) : x[i].key # NormalizedKey(k)}
      BY <1>2 DEF DeletedFrom
    <3> QED BY <2>1, <2>3, <3>1, <3>2
  <2> HIDE DEF x, y
  <2>5. /\ Pairs(y) = SubSeq(Pairs(x), 1, Rank(x, at) - 1)
                        \o SubSeq(Pairs(x), Rank(x, at) + 1, Len(Pairs(x)))
        /\ \A n \in 0..Len(x) : Rank(y, n) = IF at <= n THEN Rank(x, n) - 1 ELSE Rank(x, n)
    BY <1>1, <2>1, <2>4, DeletePairs
  <2>6. DeletesPairs(m, g, k)
    <3>1. \E i \in LiveIn(x) :
            /\ Places(Pairs(x), k) = {Rank(x, i)}
            /\ Pairs(y) = SubSeq(Pairs(x), 1, Rank(x, i) - 1)
                            \o SubSeq(Pairs(x), Rank(x, i) + 1, Len(Pairs(x)))
            /\ \A n \in 0..Used(m) : Rank(y, n) = IF i <= n THEN Rank(x, n) - 1 ELSE Rank(x, n)
      <4>1. \A n \in 0..Used(m) : Rank(y, n) = IF at <= n THEN Rank(x, n) - 1 ELSE Rank(x, n)
        BY <1>1, <2>5
      <4>2. Pairs(y) = SubSeq(Pairs(x), 1, Rank(x, at) - 1)
                         \o SubSeq(Pairs(x), Rank(x, at) + 1, Len(Pairs(x)))
        BY <2>5
      <4>3. at \in LiveIn(x)
        BY <2>1
      <4> QED BY <2>2, <4>1, <4>2, <4>3, Zenon
    <3> QED BY <3>1 DEF DeletesPairs, x, y
  <2> QED BY <2>6 DEF g
<1> QED BY <1>3, <1>4

\* The state of the abstract map, in the terms above.
PassedOf(x, cur) == [w \in Walk |-> IF cur[w] = Idle THEN Idle ELSE Rank(x, cur[w])]
StateIs == order = Pairs(map.entries) /\ passed = PassedOf(map.entries, cursor)

\* The program sees as many entries as were kept.
LEMMA PairsLen ==
  ASSUME NEW y \in Seq(Entry)
  PROVE  Len([i \in DOMAIN y |-> PairOf(y[i])]) = Len(y)
<1> DEFINE S == {PairOf(e) : e \in Entry}
           o == [i \in DOMAIN y |-> PairOf(y[i])]
<1>1. Len(y) \in Nat /\ DOMAIN y = 1..Len(y)
  OBVIOUS
<1>2. o \in [1..Len(y) -> S]
  BY <1>1
<1>3. o \in Seq(S)
  BY <1>1, <1>2, SeqDef
<1> HIDE DEF o
<1>4. DOMAIN o = 1..Len(y) /\ DOMAIN o = 1..Len(o) /\ Len(o) \in Nat
  BY <1>2, <1>3, LenProperties
<1>5. Len(o) = Len(y)
  BY <1>1, <1>3, <1>4
<1> QED BY <1>5 DEF o

\* The refinement mapping, in terms of ranks.
LEMMA MapState == MapInv => StateIs
<1> SUFFICES ASSUME MapInv PROVE StateIs
  OBVIOUS
<1> DEFINE x == map.entries
           c(w) == IF cursor[w] < Used(map) THEN cursor[w] ELSE Used(map)
<1>1. /\ x \in Seq(Entry) /\ KeysOnce(x) /\ Used(map) = Len(x) /\ Len(x) \in Nat
      /\ cursor \in [Walk -> Nat \cup {Idle}]
  BY StoredFacts DEF MapInv, StorageInv, Used
<1>2. \A w \in Walk : cursor[w] # Idle => cursor[w] \in 0..Len(x)
  BY <1>1 DEF MapInv, WalkInv, Walking
<1>3. ASSUME NEW n \in 0..Len(x) PROVE Len(LiveUpTo(n)) = Rank(x, n)
  <2>1. Kept(x)[n] \in Seq(Entry) /\ Len(Kept(x)[n]) = Rank(x, n)
    BY <1>1, KeptTos DEF KeptTo, Rank
  <2>2. LiveUpTo(n) = [i \in DOMAIN Kept(x)[n] |-> PairOf(Kept(x)[n][i])]
    BY DEF LiveUpTo, PairOf
  <2> QED BY <2>1, <2>2, PairsLen
<1>4. order = Pairs(x)
  BY <1>1 DEF order, LiveUpTo, Pairs, PairOf
<1>5. \A w \in Walk : cursor[w] # Idle => c(w) = cursor[w]
  BY <1>1, <1>2
<1>6. \A w \in Walk : cursor[w] # Idle => Len(LiveUpTo(c(w))) = Rank(x, cursor[w])
  BY <1>2, <1>3, <1>5
<1>7. passed = [w \in Walk |-> IF cursor[w] = Idle THEN Idle ELSE Len(LiveUpTo(c(w)))]
  BY DEF passed
<1> HIDE DEF c
<1>8. passed = PassedOf(x, cursor)
  BY <1>6, <1>7 DEF PassedOf
<1> QED BY <1>4, <1>8 DEF StateIs

\* Every step of the storage and its walks is a step of an insertion-ordered map, or
\* none that the program sees.
LEMMA MapRefines ==
  ASSUME MapInv, MapInv', StateIs, StateIs', [Next]_vars
  PROVE  [Abstract!Next]_(Abstract!mvars)
<1> DEFINE x == map.entries
           y == map'.entries
<1>1. /\ StorageInv(map) /\ x \in Seq(Entry) /\ KeysOnce(x) /\ Used(map) = Len(x) /\ Len(x) \in Nat
      /\ cursor \in [Walk -> Nat \cup {Idle}] /\ map.iterating \in Nat
      /\ map.iterating = 0 <=> \A w \in Walk : cursor[w] = Idle
      /\ LiveIn(x) \subseteq 1..Len(x)
  BY StoredFacts, StorageTypes DEF MapInv, StorageInv, Used, Walking
<1>2. \A w \in Walk : cursor[w] # Idle => cursor[w] \in 0..Len(x)
  BY <1>1 DEF MapInv, WalkInv, Walking
<1>3. order = Pairs(x) /\ order' = Pairs(y) /\ passed = PassedOf(x, cursor) /\ passed' = PassedOf(y, cursor')
  BY DEF StateIs
<1>4. \A k : Abstract!At(k) = Places(order, k)
  BY DEF Abstract!At, Places
<1>5. Idle \notin Nat
  BY WalkAssumption
<1>6. ASSUME y = x, cursor' = cursor PROVE UNCHANGED Abstract!mvars
  BY <1>3, <1>6 DEF Abstract!mvars
<1> HIDE DEF y
<1>7. ASSUME NEW k \in Key, NEW v \in Val, Set(k, v) PROVE [Abstract!Next]_(Abstract!mvars)
  <2>1. map' = Put(map, k, v) /\ cursor' = cursor
    BY <1>7 DEF Set
  <2>2. CASE k \in Refused
    <3>1. Put(map, k, v) = map
      BY <2>2 DEF Put
    <3> QED BY <1>6, <2>1, <3>1 DEF y
  <2>3. CASE k \notin Refused
    <3>1. PutsPairs(map, map', k, v)
      BY <1>1, <2>1, <2>3, PutPairs
    <3>2. passed' = passed
      <4>1. CASE map.iterating = 0
        BY <1>1, <1>3, <2>1, <4>1 DEF PassedOf
      <4>2. CASE map.iterating > 0
        <5>1. \A n \in 0..Len(x) : Rank(y, n) = Rank(x, n)
          BY <1>1, <3>1, <4>2 DEF PutsPairs, y
        <5> QED BY <1>2, <1>3, <2>1, <5>1 DEF PassedOf
      <4> QED BY <1>1, <4>1, <4>2
    <3>3. order' = IF Places(order, k) = {} THEN Append(order, [key |-> NormalizedKey(k), value |-> v])
                   ELSE [i \in DOMAIN order |-> IF i \in Places(order, k) THEN [order[i] EXCEPT !.value = v]
                                                ELSE order[i]]
      BY <1>3, <3>1 DEF PutsPairs, y
    <3>4. Abstract!Set(k, v)
      BY <1>4, <3>2, <3>3 DEF Abstract!Set
    <3> QED BY <3>4 DEF Abstract!Next
  <2> QED BY <2>2, <2>3
<1>8. ASSUME NEW k \in Key, Remove(k) PROVE [Abstract!Next]_(Abstract!mvars)
  <2>1. map' = Delete(map, k) /\ cursor' = cursor
    BY <1>8 DEF Remove
  <2>2. DeletesPairs(map, map', k)
    BY <1>1, <2>1, DeletePlaces
  <2>3. CASE map' = map
    BY <1>6, <2>1, <2>3 DEF y
  <2>4. CASE map' # map
    <3>1. PICK at \in LiveIn(x) :
            /\ Places(Pairs(x), k) = {Rank(x, at)}
            /\ Pairs(y) = SubSeq(Pairs(x), 1, Rank(x, at) - 1)
                            \o SubSeq(Pairs(x), Rank(x, at) + 1, Len(Pairs(x)))
            /\ \A n \in 0..Used(map) : Rank(y, n) = IF at <= n THEN Rank(x, n) - 1 ELSE Rank(x, n)
      BY <2>2, <2>4 DEF DeletesPairs, y
    <3> DEFINE r == Rank(x, at)
    <3>2. at \in Nat /\ x[at].live
      BY <1>1 DEF LiveIn
    <3>3. ASSUME NEW n \in 0..Len(x) PROVE (r <= Rank(x, n) <=> at <= n) /\ Rank(x, n) \in Nat
      <4>1. Rank(x, n) \in Nat /\ r \in Nat
        BY <1>1, <3>2, RankSteps
      <4>2. CASE at <= n
        BY <1>1, <3>2, <4>1, <4>2, RankSteps
      <4>3. CASE n < at
        <5>1. Rank(x, n) + 1 <= r
          BY <1>1, <3>2, <4>3, RankSteps
        <5> HIDE DEF r
        <5> QED BY <1>1, <3>2, <4>1, <4>3, <5>1
      <4> QED BY <1>1, <3>2, <4>2, <4>3
    <3> HIDE DEF r
    <3>4. passed' = [w \in Walk |-> IF passed[w] # Idle /\ r <= passed[w] THEN passed[w] - 1 ELSE passed[w]]
      <4>1. ASSUME NEW w \in Walk
            PROVE  (IF cursor[w] = Idle THEN Idle ELSE Rank(y, cursor[w]))
                     = IF passed[w] # Idle /\ r <= passed[w] THEN passed[w] - 1 ELSE passed[w]
        <5>1. passed[w] = IF cursor[w] = Idle THEN Idle ELSE Rank(x, cursor[w])
          BY <1>3 DEF PassedOf
        <5>2. CASE cursor[w] = Idle
          BY <5>1, <5>2
        <5>3. CASE cursor[w] # Idle
          <6>1. cursor[w] \in 0..Len(x)
            BY <1>2, <5>3
          <6>2. Rank(y, cursor[w]) = IF at <= cursor[w] THEN Rank(x, cursor[w]) - 1 ELSE Rank(x, cursor[w])
            BY <1>1, <3>1, <6>1
          <6>3. (r <= Rank(x, cursor[w]) <=> at <= cursor[w]) /\ Rank(x, cursor[w]) # Idle
            BY <1>5, <3>3, <6>1
          <6> QED BY <5>1, <5>3, <6>2, <6>3
        <5> QED BY <5>2, <5>3
      <4> HIDE DEF x
      <4>2. passed' = [w \in Walk |-> IF cursor[w] = Idle THEN Idle ELSE Rank(y, cursor[w])]
        BY <1>3, <2>1 DEF PassedOf
      <4> QED BY <4>1, <4>2
    <3>5. r \in Abstract!At(k)
      BY <1>3, <1>4, <3>1 DEF r
    <3>6. order' = SubSeq(order, 1, r - 1) \o SubSeq(order, r + 1, Len(order))
      BY <1>3, <3>1 DEF r
    <3>7. Abstract!Remove(k)
      BY <3>4, <3>5, <3>6 DEF Abstract!Remove
    <3> QED BY <3>7 DEF Abstract!Next
  <2> QED BY <2>3, <2>4
<1>9. ASSUME ClearAll PROVE [Abstract!Next]_(Abstract!mvars)
  <2>1. map' = Reset(map.iterating) /\ cursor' = cursor
    BY <1>9 DEF ClearAll, Clear
  <2>2. y = <<>> /\ Used(map') = 0
    BY <1>1, <2>1, ResetInv DEF Reset, y
  <2>3. LiveIn(<<>>) = {} /\ <<>> \in Seq(Entry)
    BY DEF LiveIn
  <2>4. KeysOnce(<<>>)
    BY <2>3 DEF KeysOnce
  <2>5. Rank(<<>>, 0) = 0 /\ Len(<<>>) = 0
    BY RankSteps
  <2>6. Pairs(<<>>) \in Seq(Pair) /\ Len(Pairs(<<>>)) = 0
    BY <2>3, <2>4, <2>5, PairsOrder DEF Orders
  <2>7. order' = <<>>
    BY <1>3, <2>2, <2>6, EmptySeq
  <2>8. \A w \in Walk : cursor[w] # Idle => cursor[w] = 0
    <3>1. (\A w \in Walking : cursor[w] <= Used(map))'
      BY DEF MapInv, WalkInv
    <3>2. \A w \in Walk : cursor[w] # Idle => cursor[w] <= 0
      BY <2>1, <2>2, <3>1 DEF Walking
    <3> QED BY <1>2, <3>2
  <2>9. passed' = [w \in Walk |-> IF passed[w] = Idle THEN Idle ELSE 0]
    <3>1. \A w \in Walk : passed[w] = Idle <=> cursor[w] = Idle
      <4>1. \A w \in Walk : cursor[w] # Idle => Rank(x, cursor[w]) \in Nat
        BY <1>2, <1>1, RankSteps
      <4> QED BY <1>3, <1>5, <4>1 DEF PassedOf
    <3>2. passed' = [w \in Walk |-> IF cursor[w] = Idle THEN Idle ELSE Rank(<<>>, cursor[w])]
      BY <1>3, <2>1, <2>2 DEF PassedOf
    <3> QED BY <2>5, <2>8, <3>1, <3>2
  <2>10. Abstract!Clear
    BY <2>7, <2>9 DEF Abstract!Clear
  <2> QED BY <2>10 DEF Abstract!Next
<1>10. map = [size |-> map.size, entries |-> map.entries, capacity |-> map.capacity,
              index |-> map.index, iterating |-> map.iterating]
  BY <1>1 DEF StorageInv
<1>11. ASSUME NEW w \in Walk, Begin(w) PROVE [Abstract!Next]_(Abstract!mvars)
  <2>1. y = x /\ cursor' = [cursor EXCEPT ![w] = 0] /\ cursor[w] = Idle
    BY <1>10, <1>11 DEF Begin, y
  <2>2. Rank(x, 0) = 0
    BY RankSteps
  <2>3. passed[w] = Idle /\ passed' = [passed EXCEPT ![w] = 0]
    BY <1>1, <1>3, <1>5, <2>1, <2>2 DEF PassedOf
  <2>4. Abstract!Begin(w)
    BY <1>3, <2>1, <2>3 DEF Abstract!Begin
  <2> QED BY <2>4 DEF Abstract!Next
<1>12. ASSUME NEW w \in Walk, Visit(w) PROVE [Abstract!Next]_(Abstract!mvars)
  <2>1. PICK i \in Ahead(w) : (\A j \in Ahead(w) : i <= j) /\ cursor' = [cursor EXCEPT ![w] = i]
    BY <1>12 DEF Visit
  <2>2. y = x /\ cursor[w] # Idle
    BY <1>12 DEF Visit, y
  <2> DEFINE c == cursor[w]
  <2>3. c \in Nat /\ c <= Len(x)
    BY <1>2, <2>2
  <2>4. i \in Nat /\ i > c /\ i <= Len(x) /\ x[i].live
        /\ \A j \in Nat : c < j /\ j < i => ~x[j].live
    BY <1>1, <2>1, <2>3 DEF Ahead
  <2> HIDE DEF c, x
  <2>5. Rank(x, i) = Rank(x, c) + 1 /\ Rank(x, c) \in Nat
    <3>1. LiveTo(x, i) = LiveTo(x, c) \cup {i} /\ i \notin LiveTo(x, c)
      BY <2>3, <2>4 DEF LiveTo
    <3>2. IsFiniteSet(LiveTo(x, c)) /\ Rank(x, c) \in 0..c
      BY <2>3, LiveFinite DEF Rank
    <3>3. Cardinality(LiveTo(x, c) \cup {i}) = Cardinality(LiveTo(x, c)) + 1
      BY <3>1, <3>2, FS_AddElement
    <3> QED BY <2>3, <3>1, <3>2, <3>3 DEF Rank
  <2>6. Rank(x, i) <= Rank(x, Len(x))
    <3>1. CASE i = Len(x)
      BY <2>3, <2>4, <2>5, <3>1
    <3>2. CASE i < Len(x)
      BY <1>1, <2>4, <3>2, RankSteps DEF x
    <3> QED BY <1>1, <2>4, <3>1, <3>2 DEF x
  <2>7. Len(order) = Rank(x, Len(x)) /\ Rank(x, Len(x)) \in Nat
    BY <1>1, <1>3, PairsOrder, RankSteps DEF Orders, x
  <2>8. passed[w] = Rank(x, c)
    BY <1>3, <2>2 DEF PassedOf, c
  <2>9. passed' = [passed EXCEPT ![w] = Rank(x, i)]
    BY <1>1, <1>3, <1>5, <2>1, <2>2, <2>4 DEF PassedOf
  <2>10. passed[w] # Idle /\ passed[w] < Len(order)
    BY <1>5, <2>5, <2>6, <2>7, <2>8
  <2>11. passed' = [passed EXCEPT ![w] = @ + 1]
    BY <2>5, <2>8, <2>9
  <2>12. Abstract!Visit(w)
    BY <1>3, <2>2, <2>10, <2>11 DEF Abstract!Visit
  <2> QED BY <2>12 DEF Abstract!Next
<1>13. ASSUME NEW w \in Walk, Exhaust(w) \/ Leave(w) PROVE [Abstract!Next]_(Abstract!mvars)
  <2>1. y = x /\ cursor' = [cursor EXCEPT ![w] = Idle] /\ cursor[w] # Idle
    BY <1>10, <1>13 DEF Exhaust, Leave, EndWalk, y
  <2>2. Rank(x, cursor[w]) \in Nat
    BY <1>2, <2>1, RankSteps
  <2>3. passed[w] # Idle
    BY <1>3, <1>5, <2>1, <2>2 DEF PassedOf
  <2>4. passed' = [passed EXCEPT ![w] = Idle]
    BY <1>1, <1>3, <2>1 DEF PassedOf
  <2>5. Abstract!End(w)
    BY <1>3, <2>1, <2>3, <2>4 DEF Abstract!End
  <2> QED BY <2>5 DEF Abstract!Next
<1>14. CASE UNCHANGED vars
  BY <1>6, <1>14 DEF vars, y
<1> QED BY <1>7, <1>8, <1>9, <1>11, <1>12, <1>13, <1>14 DEF Next

\* A new map is an empty order, with no walk.
LEMMA MapStarts == Init /\ StateIs => Abstract!Init
<1> SUFFICES ASSUME Init, StateIs PROVE Abstract!Init
  OBVIOUS
<1>1. map.entries = <<>> /\ cursor = [w \in Walk |-> Idle]
  BY DEF Init, Reset
<1>2. LiveIn(<<>>) = {} /\ <<>> \in Seq(Entry)
  BY DEF LiveIn
<1>3. KeysOnce(<<>>)
  BY <1>2 DEF KeysOnce
<1>4. Rank(<<>>, 0) = 0 /\ Len(<<>>) = 0
  BY RankSteps
<1>5. Pairs(<<>>) \in Seq(Pair) /\ Len(Pairs(<<>>)) = 0
  BY <1>2, <1>3, <1>4, PairsOrder DEF Orders
<1>6. order = <<>>
  BY <1>1, <1>5, EmptySeq DEF StateIs
<1>7. passed = [w \in Walk |-> Idle]
  BY <1>1 DEF StateIs, PassedOf
<1> QED BY <1>6, <1>7 DEF Abstract!Init

\* A map that is not cleared under a walk implements an insertion-ordered map whose
\* walks go on through every change (ImplementsOrderedMap): the dense array, the dead
\* entries, the index, growth and compaction are invisible.
THEOREM MapImplements ==
  ASSUME ~ClearInWalk
  PROVE  Spec => ImplementsOrderedMap
<1>1. MapInv => StateIs
  BY MapState
<1>2. Init /\ StateIs => Abstract!Init
  BY MapStarts
<1>3. MapInv /\ MapInv' /\ StateIs /\ StateIs' /\ [Next]_vars => [Abstract!Next]_(Abstract!mvars)
  BY MapRefines
<1> QED BY <1>1, <1>2, <1>3, MapInvariance, PTL DEF Spec, ImplementsOrderedMap, Abstract!Spec
================================================================================
