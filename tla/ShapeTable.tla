----------------------------- MODULE ShapeTable -----------------------------
(***************************************************************************)
(* The shape table behind every dynamic object (jsrt_shape.zig): hidden     *)
(* classes linked from a shared root by the key each one added, and the     *)
(* out-of-line slots whose layout they give.  A table is the sequence of    *)
(* nodes in the order they were allocated; a node is named by its place in  *)
(* that sequence and the static root, which has no key, by Root.            *)
(***************************************************************************)
EXTENDS Integers, Sequences, FiniteSets, FiniteSetsExt

CONSTANTS
  Key,            \* property names
  Numeric,        \* [array-index keys -> their numeric value]
  FirstCapacity,  \* slots of the first block an object allocates
  Unset           \* what a fresh block holds beyond the live slots

ASSUME ShapeAssumption ==
  /\ DOMAIN Numeric \subseteq Key
  /\ \A k \in DOMAIN Numeric : Numeric[k] \in Nat
  /\ FirstCapacity \in Nat \ {0}

Root == 0

Node == [parent : Nat, key : Key, offset : Nat]

SlotCount(t, s) == IF s = Root THEN 0 ELSE t[s].offset + 1

(* The nodes on the path from s to the root: the keys an object on s owns.  *)
Chain(t, s) ==
  LET up[n \in 0 .. Len(t)] == IF n = Root THEN {} ELSE {n} \cup up[t[n].parent]
  IN  up[s]

Held(t, s, k) == {n \in Chain(t, s) : t[n].key = k}

(* The chain walk of every lookup: the nearest node that added the key, or  *)
(* Root when there is none.                                                 *)
Find(t, s, k) == Max({Root} \cup Held(t, s, k))

(* The chain in slot order, which is insertion order.                       *)
SlotOrder(t, s) ==
  LET chain == Chain(t, s)
  IN  [i \in 1 .. SlotCount(t, s) |-> CHOOSE n \in chain : t[n].offset = i - 1]

(* Enumeration order: array-index keys ascending, then the others by slot.  *)
Before(t, m, n) ==
  LET index(i) == t[i].key \in DOMAIN Numeric
      number(i) == Numeric[t[i].key]
  IN  IF index(m) # index(n) THEN index(m)
      ELSE IF index(m) /\ number(m) # number(n) THEN number(m) < number(n)
      ELSE t[m].offset < t[n].offset

(* The chain sorted: in place i + 1 the node that i others come before.     *)
PropertyOrder(t, s) ==
  LET chain == Chain(t, s)
      rank(n) == Cardinality({m \in chain : Before(t, m, n)})
  IN  [i \in 1 .. SlotCount(t, s) |-> CHOOSE n \in chain : rank(n) = i - 1]

Children(t, from, k) == {n \in DOMAIN t : t[n].parent = from /\ t[n].key = k}

(* An addition never looks for a child another object already made.         *)
TransitionFresh(t, from, k) ==
  [nodes |-> Append(t, [parent |-> from, key |-> k, offset |-> SlotCount(t, from)]),
   at    |-> Len(t) + 1]

(* Reuse before allocation: the table and the shape the addition leads to.  *)
Transition(t, from, k) ==
  IF Children(t, from, k) # {}
    THEN [nodes |-> t, at |-> Max(Children(t, from, k))]
    ELSE [nodes |-> Append(t, [parent |-> from, key |-> k,
                               offset |-> SlotCount(t, from)]),
          at    |-> Len(t) + 1]

Capacity(slots) == Cardinality(DOMAIN slots)

(* A block that is full is taken to have room for one more.                 *)
ReserveLate(slots, offset) ==
  LET cap   == Capacity(slots)
      first == IF cap = 0 THEN FirstCapacity ELSE 2 * cap
  IN  IF offset <= cap /\ cap > 0 THEN slots
      ELSE [i \in 0 .. first - 1 |-> IF i < cap THEN slots[i] ELSE Unset]

(* Doubling until the offset fits; the old slots are copied into a new      *)
(* block.                                                                   *)
Reserve(slots, offset) ==
  LET cap   == Capacity(slots)
      first == IF cap = 0 THEN FirstCapacity ELSE 2 * cap
      grown == first * 2 ^ Min({j \in 0 .. offset : first * 2 ^ j > offset})
  IN  IF offset < cap THEN slots
      ELSE [i \in 0 .. grown - 1 |-> IF i < cap THEN slots[i] ELSE Unset]

(* The chain in slot order without one of its nodes.                        *)
Kept(t, s, hit) ==
  LET order == SlotOrder(t, s)
  IN  [i \in 1 .. Len(order) - 1 |-> order[IF i <= t[hit].offset THEN i ELSE i + 1]]

(* The keys of some nodes, added again from the root one after the other.   *)
Replay(t, nodes) ==
  LET added[i \in 0 .. Len(nodes)] ==
        IF i = 0 THEN [nodes |-> t, at |-> Root]
        ELSE LET last == added[i - 1]
             IN  Transition(last.nodes, last.at, t[nodes[i]].key)
  IN  added[Len(nodes)]

(* A removal that replays the keys and leaves the values where they were.   *)
RemoveInPlace(t, s, slots, hit) ==
  LET last == Replay(t, Kept(t, s, hit))
  IN  [nodes |-> last.nodes, at |-> last.at, slots |-> slots]

(* A removal that gives the freed slot back to the allocator.               *)
RemovalShrinks(t, s, slots, hit) ==
  LET kept == Kept(t, s, hit)
      last == Replay(t, kept)
  IN  [nodes |-> last.nodes, at |-> last.at,
       slots |-> [i \in 0 .. Len(kept) - 1 |-> slots[t[kept[i + 1]].offset]]]

(* A removal replays the chain from the root without the node and compacts  *)
(* the slots to match.                                                      *)
Removal(t, s, slots, hit) ==
  LET kept == Kept(t, s, hit)
      last == Replay(t, kept)
  IN  [nodes |-> last.nodes, at |-> last.at,
       slots |-> [i \in DOMAIN slots |->
                    IF i < Len(kept) THEN slots[t[kept[i + 1]].offset] ELSE slots[i]]]
----------------------------------------------------------------------------
(* What a table is that only transitions have built: every node comes after *)
(* its parent, takes the next slot and adds a key its chain does not hold,  *)
(* and no parent has two children for one key.                              *)
Rooted(t) ==
  /\ t \in Seq(Node)
  /\ \A n \in 1 .. Len(t) : t[n].parent \in 0 .. n - 1

TableOK(t) ==
  /\ Rooted(t)
  /\ \A n \in 1 .. Len(t) : /\ t[n].offset = SlotCount(t, t[n].parent)
                            /\ Held(t, t[n].parent, t[n].key) = {}
  /\ \A m, n \in 1 .. Len(t) : t[m].parent = t[n].parent /\ t[m].key = t[n].key => m = n
=============================================================================
