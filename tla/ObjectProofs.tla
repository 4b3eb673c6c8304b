---------------------------- MODULE ObjectProofs ----------------------------
(***************************************************************************)
(* Proofs about DynObjects and EntriesWalk, for any objects, keys, values,  *)
(* sites and prototypes: what a shape table that only transitions have      *)
(* built means; that no operation changes a frozen object; that every cache *)
(* and every live slot is right; that shapes, slots and caches implement    *)
(* plain records; and that a walk over an object's entries reads stored     *)
(* values whatever its getters do.                                          *)
(*                                                                          *)
(* Three things carry the rest.  ChainsOK: the chain of a shape lists its    *)
(* slots, each once and under a key of its own.  RowStep: what a step does   *)
(* to shapes and tables is one of five things.  EntriesIn: the entries a     *)
(* shape and its slots stand for, through which additions, writes and        *)
(* removals are seen as those of a list.                                     *)
(***************************************************************************)
EXTENDS EntriesWalk, Induction, FiniteSetTheorems, FunctionTheorems, SequenceTheorems, TLAPS

----------------------------------------------------------------------------
\* Every property of the root that a node takes from its parent is a property of all nodes.
LEMMA ChainInduction ==
  ASSUME NEW t, Rooted(t), NEW S, 0 \in S,
         \A n \in 1 .. Len(t) : t[n].parent \in S => n \in S
  PROVE  \A n \in 0 .. Len(t) : n \in S
<1> SUFFICES ASSUME NEW k \in 0 .. Len(t), k \notin S PROVE FALSE
  OBVIOUS
<1> DEFINE T == {n \in 0 .. Len(t) : n \notin S}
<1>0. Len(t) \in Nat
  BY DEF Rooted
<1>1. T \subseteq Nat /\ T # {}
  BY <1>0
<1>2. PICK m \in T : \A n \in T : m <= n
  BY <1>1, LeastNat
<1>3. m \in 1 .. Len(t) /\ t[m].parent \in 0 .. m - 1
  BY <1>0, <1>2 DEF Rooted
<1>4. t[m].parent \in 0 .. Len(t) /\ ~(m <= t[m].parent)
  BY <1>0, <1>3
<1>5. t[m].parent \in S
  BY <1>2, <1>4
<1> QED BY <1>2, <1>3, <1>5

\* f gives the chains of the nodes up to L.
Chains(f, t, L) ==
  /\ f \in [0 .. L -> SUBSET Nat]
  /\ f[0] = {}
  /\ \A n \in 1 .. L : f[n] = {n} \cup f[t[n].parent]

\* Such a function exists, so the recursive definition of Chain is one.
LEMMA ChainsExist ==
  ASSUME NEW t, Rooted(t)
  PROVE  \E f : Chains(f, t, Len(t))
<1> DEFINE S == {L \in 0 .. Len(t) : \E f : Chains(f, t, L)}
<1>0. Len(t) \in Nat
  BY DEF Rooted
<1>1. 0 \in S
  <2> DEFINE f == [n \in 0 .. 0 |-> {}]
  <2>1. f \in [0 .. 0 -> SUBSET Nat] /\ f[0] = {} /\ 1 .. 0 = {}
    OBVIOUS
  <2>2. Chains(f, t, 0)
    BY <2>1 DEF Chains
  <2> QED BY <2>2, <1>0
<1>2. ASSUME NEW L \in 0 .. (Len(t) - 1), L \in S PROVE L + 1 \in S
  <2>1. PICK f : Chains(f, t, L)
    BY <1>2
  <2>2. t[L + 1].parent \in 0 .. L /\ L + 1 \in 0 .. Len(t)
    BY <1>0 DEF Rooted
  <2> DEFINE g == [n \in 0 .. L + 1 |-> IF n = L + 1 THEN {L + 1} \cup f[t[L + 1].parent] ELSE f[n]]
  <2>3. g \in [0 .. L + 1 -> SUBSET Nat] /\ g[0] = {}
    BY <2>1, <2>2 DEF Chains
  <2>4. ASSUME NEW n \in 1 .. L + 1 PROVE g[n] = {n} \cup g[t[n].parent]
    <3>1. t[n].parent \in 0 .. n - 1
      BY <1>0 DEF Rooted
    <3>2. g[t[n].parent] = f[t[n].parent]
      BY <3>1
    <3>3. CASE n = L + 1
      <4>1. g[n] = {L + 1} \cup f[t[L + 1].parent]
        BY <3>3
      <4> QED BY <3>2, <3>3, <4>1
    <3>4. CASE n # L + 1
      <4>1. n \in 1 .. L /\ g[n] = f[n]
        BY <3>4
      <4>2. f[n] = {n} \cup f[t[n].parent]
        BY <2>1, <4>1 DEF Chains
      <4> QED BY <3>2, <4>1, <4>2
    <3> QED BY <3>3, <3>4
  <2>5. Chains(g, t, L + 1)
    <3> HIDE DEF g
    <3> QED BY <2>3, <2>4 DEF Chains
  <2> QED BY <2>2, <2>5
<1>3. Len(t) \in S
  <2> HIDE DEF S
  <2>1. \A n \in 0 .. Len(t) - 1 : n \in S => n + 1 \in S
    BY <1>2
  <2>2. \A n \in 0 .. Len(t) : n \in S
    BY <1>0, <1>1, <2>1, UpTo
  <2> QED BY <1>0, <2>2
<1> QED BY <1>3

\* The chain of a node is the node and the chain of its parent.
LEMMA ChainSteps ==
  ASSUME NEW t, Rooted(t)
  PROVE  /\ Chain(t, Root) = {}
         /\ \A n \in 1 .. Len(t) : Chain(t, n) = {n} \cup Chain(t, t[n].parent)
<1> DEFINE F(f) == [n \in 0 .. Len(t) |-> IF n = Root THEN {} ELSE {n} \cup f[t[n].parent]]
           up == CHOOSE f : f = F(f)
<1>0. Len(t) \in Nat
  BY DEF Rooted
<1>1. \A s : Chain(t, s) = up[s]
  BY DEF Chain
<1>2. PICK f : Chains(f, t, Len(t))
  BY ChainsExist
<1>3. f = F(f)
  <2>1. ASSUME NEW n \in 0 .. Len(t) PROVE f[n] = F(f)[n]
    BY <1>2, <1>0 DEF Chains, Root
  <2>2. DOMAIN f = 0 .. Len(t) /\ f = [n \in 0 .. Len(t) |-> f[n]]
    BY <1>2 DEF Chains
  <2> QED BY <2>1, <2>2
<1>4. up = F(up)
  BY <1>3
<1> HIDE DEF up
<1>5. ASSUME NEW n \in 0 .. Len(t)
      PROVE  up[n] = IF n = Root THEN {} ELSE {n} \cup up[t[n].parent]
  BY <1>4
<1>6. up[0] = {} /\ \A n \in 1 .. Len(t) : up[n] = {n} \cup up[t[n].parent]
  <2>1. 0 \in 0 .. Len(t) /\ \A n \in 1 .. Len(t) : n \in 0 .. Len(t) /\ n # 0
    BY <1>0
  <2> QED BY <1>5, <2>1 DEF Root
<1> QED BY <1>1, <1>6 DEF Root

\* The chain of s has one node for each slot and each key at most once.
ChainOK(t, s) ==
  /\ SlotCount(t, s) \in Nat
  /\ \A n \in Chain(t, s) : /\ n \in 1 .. Len(t) /\ n <= s
                            /\ t[n].offset \in 0 .. SlotCount(t, s) - 1
  /\ \A i \in 0 .. SlotCount(t, s) - 1 : \E n \in Chain(t, s) : t[n].offset = i
  /\ \A m, n \in Chain(t, s) : t[m].offset = t[n].offset \/ t[m].key = t[n].key => m = n

\* The fields of a node, and the slots up to it.
LEMMA NodeTyped ==
  ASSUME NEW t, Rooted(t), NEW n \in 1 .. Len(t)
  PROVE  /\ Len(t) \in Nat /\ n \in DOMAIN t /\ t[n] \in Node
         /\ t[n].offset \in Nat /\ t[n].key \in Key /\ t[n].parent \in 0 .. n - 1
         /\ SlotCount(t, n) = t[n].offset + 1
<1>1. t \in Seq(Node) /\ t[n].parent \in 0 .. n - 1
  BY DEF Rooted
<1>2. Len(t) \in Nat /\ DOMAIN t = 1 .. Len(t) /\ t[n] \in Node
  BY <1>1
<1>3. t[n].offset \in Nat /\ t[n].key \in Key
  BY <1>2 DEF Node
<1> QED BY <1>1, <1>2, <1>3 DEF SlotCount, Root

\* Every shape's chain lists its slots, each once and under a key of its own.
LEMMA ChainsOK ==
  ASSUME NEW t, TableOK(t)
  PROVE  \A s \in 0 .. Len(t) : ChainOK(t, s)
<1> DEFINE S == {s \in 0 .. Len(t) : ChainOK(t, s)}
<1>0. Rooted(t) /\ Len(t) \in Nat
  BY DEF TableOK, Rooted
<1>1. 0 \in S
  <2>1. Chain(t, 0) = {} /\ SlotCount(t, 0) = 0
    BY <1>0, ChainSteps DEF SlotCount, Root
  <2>2. ChainOK(t, 0)
    BY <2>1 DEF ChainOK
  <2> QED BY <1>0, <2>2
<1>2. ASSUME NEW n \in 1 .. Len(t), t[n].parent \in S PROVE n \in S
  <2> DEFINE p == t[n].parent
             c == SlotCount(t, p)
  <2>1. ChainOK(t, p) /\ c \in Nat
    BY <1>2 DEF ChainOK
  <2>2. p \in 0 .. n - 1
    BY <1>0, NodeTyped
  <2>3. t[n].offset = c /\ Held(t, p, t[n].key) = {}
    BY DEF TableOK
  <2>4. Chain(t, n) = {n} \cup Chain(t, p)
    BY <1>0, ChainSteps
  <2>5. SlotCount(t, n) = c + 1
    BY <1>0, <2>3, NodeTyped
  <2> HIDE DEF p, c
  <2>6. ASSUME NEW m \in Chain(t, n)
        PROVE  m \in 1 .. Len(t) /\ m <= n /\ t[m].offset \in 0 .. c
    <3>1. CASE m = n
      BY <2>1, <2>3, <3>1
    <3>2. CASE m \in Chain(t, p)
      <4>1. m \in 1 .. Len(t) /\ m <= p /\ t[m].offset \in 0 .. c - 1
        BY <2>1, <3>2 DEF ChainOK, c
      <4> QED BY <2>1, <2>2, <4>1
    <3> QED BY <2>4, <2>6, <3>1, <3>2
  <2>7. ASSUME NEW i \in 0 .. c PROVE \E m \in Chain(t, n) : t[m].offset = i
    <3>1. CASE i = c
      BY <2>3, <2>4, <3>1
    <3>2. CASE i # c
      <4>1. i \in 0 .. c - 1
        BY <2>1, <3>2
      <4>2. PICK m \in Chain(t, p) : t[m].offset = i
        BY <2>1, <4>1 DEF ChainOK, c
      <4> QED BY <2>4, <4>2
    <3> QED BY <3>1, <3>2
  <2>8. \A m \in Chain(t, p) : t[m].offset # t[n].offset /\ t[m].key # t[n].key
    <3>1. \A m \in Chain(t, p) : t[m].offset \in 0 .. c - 1
      BY <2>1 DEF ChainOK, c
    <3>2. \A m \in Chain(t, p) : t[m].key # t[n].key
      BY <2>3 DEF Held
    <3> QED BY <2>1, <2>3, <3>1, <3>2
  <2>9. \A l, m \in Chain(t, n) : t[l].offset = t[m].offset \/ t[l].key = t[m].key => l = m
    <3>1. \A l, m \in Chain(t, p) : t[l].offset = t[m].offset \/ t[l].key = t[m].key => l = m
      BY <2>1 DEF ChainOK
    <3> QED BY <2>4, <2>8, <3>1
  <2>10. ChainOK(t, n)
    <3>1. c + 1 \in Nat /\ 0 .. (c + 1) - 1 = 0 .. c
      BY <2>1
    <3> QED BY <2>5, <2>6, <2>7, <2>9, <3>1 DEF ChainOK
  <2> QED BY <1>0, <2>10
<1> HIDE DEF S
<1>3. \A n \in 1 .. Len(t) : t[n].parent \in S => n \in S
  BY <1>2
<1>4. \A n \in 0 .. Len(t) : n \in S
  BY <1>0, <1>1, <1>3, ChainInduction
<1> QED BY <1>4 DEF S

\* The chain walk of a lookup finds the node of the key, or the root.
Finds(t, s, k, n) ==
  \/ n = Root /\ Held(t, s, k) = {}
  \/ n \in Chain(t, s) /\ t[n].key = k /\ n # Root

\* jsrt_shape_find returns the node of the chain that added the key, or the root.
LEMMA FindFinds ==
  ASSUME NEW t, TableOK(t), NEW s \in 0 .. Len(t), NEW k
  PROVE  Finds(t, s, k, Find(t, s, k))
<1> DEFINE H == Held(t, s, k)
<1>1. Find(t, s, k) = Max({Root} \cup H)
  BY DEF Find
<1>2. \A n \in H : n \in 1 .. Len(t) /\ n \in Chain(t, s) /\ t[n].key = k
  BY ChainsOK DEF ChainOK, Held
<1>3. \A m, n \in H : m = n
  BY ChainsOK DEF ChainOK, Held
<1> HIDE DEF H
<1>4. CASE H = {}
  <2>1. Max({Root} \cup H) = Root
    BY <1>4 DEF Max, Root
  <2> QED BY <1>1, <1>4, <2>1 DEF Finds, H
<1>5. CASE H # {}
  <2>1. PICK n \in H : TRUE
    BY <1>5
  <2>2. {Root} \cup H = {Root, n} /\ n \in 1 .. Len(t) /\ Len(t) \in Nat
    BY <1>2, <1>3, <2>1 DEF TableOK, Rooted
  <2>3. n \in Nat /\ n > 0
    BY <2>2
  <2>4. Max({Root, n}) = n
    BY <2>3 DEF Max, Root
  <2>5. Find(t, s, k) = n
    BY <1>1, <2>2, <2>4
  <2> QED BY <1>2, <2>1, <2>3, <2>5 DEF Finds, Root
<1> QED BY <1>4, <1>5

\* t2 has the nodes of t, and maybe more.
Extends(t, t2) ==
  /\ Len(t) <= Len(t2)
  /\ \A n \in 1 .. Len(t) : t2[n] = t[n]

\* A table that is left alone has grown at most.
LEMMA ExtendsItself ==
  ASSUME NEW t, TableOK(t)
  PROVE  Extends(t, t)
<1>1. Len(t) \in Nat
  BY DEF TableOK, Rooted
<1> QED BY <1>1 DEF Extends

\* What a shape means does not change when the table grows.
SameShape(t, t2, s) ==
  /\ Chain(t2, s) = Chain(t, s)
  /\ SlotCount(t2, s) = SlotCount(t, s)
  /\ \A k : Held(t2, s, k) = Held(t, s, k)

\* A shape means the same in a table that has grown.
LEMMA ShapesStay ==
  ASSUME NEW t, Rooted(t), NEW t2, Rooted(t2), Extends(t, t2)
  PROVE  \A s \in 0 .. Len(t) : s \in 0 .. Len(t2) /\ SameShape(t, t2, s)
<1> DEFINE S == {s \in 0 .. Len(t) : Chain(t2, s) = Chain(t, s) /\ Chain(t, s) \subseteq 1 .. Len(t)}
<1>0. Len(t) \in Nat /\ Len(t2) \in Nat /\ Len(t) <= Len(t2)
  BY DEF Rooted, Extends
<1>1. 0 \in S
  <2>1. Chain(t, 0) = {}
    BY ChainSteps DEF Root
  <2>2. Chain(t2, 0) = {}
    BY ChainSteps DEF Root
  <2>3. 0 \in 0 .. Len(t) /\ {} \subseteq 1 .. Len(t)
    BY <1>0
  <2> HIDE DEF S
  <2> QED BY <2>1, <2>2, <2>3, Zenon DEF S
<1>2. ASSUME NEW n \in 1 .. Len(t), t[n].parent \in S PROVE n \in S
  <2>1. t2[n] = t[n] /\ n \in 1 .. Len(t2)
    BY <1>0 DEF Extends
  <2>2. Chain(t, n) = {n} \cup Chain(t, t[n].parent)
    BY ChainSteps
  <2>3. Chain(t2, n) = {n} \cup Chain(t2, t[n].parent)
    BY <2>1, ChainSteps
  <2>4. /\ Chain(t2, t[n].parent) = Chain(t, t[n].parent)
        /\ Chain(t, t[n].parent) \subseteq 1 .. Len(t)
    BY <1>2
  <2>5. Chain(t2, n) = Chain(t, n) /\ Chain(t, n) \subseteq 1 .. Len(t) /\ n \in 0 .. Len(t)
    BY <1>0, <2>2, <2>3, <2>4
  <2> QED BY <2>5
<1> HIDE DEF S
<1>3. \A n \in 1 .. Len(t) : t[n].parent \in S => n \in S
  BY <1>2
<1>4. \A n \in 0 .. Len(t) : n \in S
  BY <1>1, <1>3, ChainInduction
<1>5. ASSUME NEW s \in 0 .. Len(t) PROVE s \in 0 .. Len(t2) /\ SameShape(t, t2, s)
  <2>1. Chain(t2, s) = Chain(t, s) /\ Chain(t, s) \subseteq 1 .. Len(t)
    BY <1>4 DEF S
  <2>2. \A n \in Chain(t, s) : t2[n] = t[n]
    BY <2>1 DEF Extends
  <2>3. \A k : Held(t2, s, k) = Held(t, s, k)
    BY <2>1, <2>2 DEF Held
  <2>4. SlotCount(t2, s) = SlotCount(t, s)
    <3>1. CASE s = 0
      BY <3>1 DEF SlotCount, Root
    <3>2. CASE s # 0
      <4>1. s \in 1 .. Len(t)
        BY <1>0, <3>2
      <4>2. t2[s] = t[s]
        BY <4>1 DEF Extends
      <4> QED BY <4>2 DEF SlotCount
    <3> QED BY <3>1, <3>2
  <2> QED BY <1>0, <2>1, <2>3, <2>4 DEF SameShape
<1> QED BY <1>5

\* Adding k to a shape leads to a node of a table that has grown at most.
Added(t, from, k, t2, at) ==
  /\ TableOK(t2) /\ Extends(t, t2)
  /\ at \in 1 .. Len(t2)
  /\ t2[at].parent = from /\ t2[at].key = k /\ t2[at].offset = SlotCount(t, from)

\* Taking the child there is.
LEMMA ReuseAdds ==
  ASSUME NEW t, TableOK(t), NEW from \in 0 .. Len(t), NEW k, Children(t, from, k) # {}
  PROVE  Added(t, from, k, t, Max(Children(t, from, k)))
<1>0. t \in Seq(Node) /\ Len(t) \in Nat /\ DOMAIN t = 1 .. Len(t)
  BY DEF TableOK, Rooted
<1>1. PICK n \in 1 .. Len(t) : t[n].parent = from /\ t[n].key = k
  BY <1>0 DEF Children
<1>2. Children(t, from, k) = {n}
  BY <1>0, <1>1 DEF Children, TableOK
<1>3. Max({n}) = n
  BY <1>1 DEF Max
<1>4. t[n].offset = SlotCount(t, from)
  BY <1>1 DEF TableOK
<1>5. Extends(t, t)
  BY <1>0 DEF Extends
<1> QED BY <1>1, <1>2, <1>3, <1>4, <1>5 DEF Added

\* Making a new child.
LEMMA FreshAdds ==
  ASSUME NEW t, TableOK(t), NEW from \in 0 .. Len(t), NEW k \in Key,
         Children(t, from, k) = {}, Held(t, from, k) = {}
  PROVE  Added(t, from, k,
               Append(t, [parent |-> from, key |-> k, offset |-> SlotCount(t, from)]),
               Len(t) + 1)
<1> DEFINE node == [parent |-> from, key |-> k, offset |-> SlotCount(t, from)]
           t2 == Append(t, node)
<1>0. t \in Seq(Node) /\ Len(t) \in Nat /\ DOMAIN t = 1 .. Len(t) /\ Rooted(t)
  BY DEF TableOK, Rooted
<1>1. node \in Node
  <2>1. SlotCount(t, from) \in Nat
    BY ChainsOK DEF ChainOK
  <2>2. from \in Nat
    BY <1>0
  <2> QED BY <2>1, <2>2 DEF Node
<1>1a. node.parent = from /\ node.key = k /\ node.offset = SlotCount(t, from)
  OBVIOUS
<1> HIDE DEF node
<1>2. /\ t2 \in Seq(Node) /\ Len(t2) = Len(t) + 1 /\ t2[Len(t) + 1] = node
      /\ \A n \in 1 .. Len(t) : t2[n] = t[n]
  BY <1>0, <1>1
<1> HIDE DEF t2
<1>3. Extends(t, t2)
  BY <1>0, <1>2 DEF Extends
<1>4. \A n \in 1 .. Len(t2) : n \in 1 .. Len(t) \/ n = Len(t) + 1
  BY <1>0, <1>2
<1>5. Rooted(t2)
  <2>1. ASSUME NEW n \in 1 .. Len(t2) PROVE t2[n].parent \in 0 .. n - 1
    <3>1. CASE n \in 1 .. Len(t)
      BY <1>0, <1>2, <3>1 DEF Rooted
    <3>2. CASE n = Len(t) + 1
      BY <1>0, <1>1a, <1>2, <3>2
    <3> QED BY <1>4, <3>1, <3>2
  <2> QED BY <1>2, <2>1 DEF Rooted
<1>6. \A s \in 0 .. Len(t) : SameShape(t, t2, s)
  BY <1>0, <1>3, <1>5, ShapesStay
<1>7. ASSUME NEW n \in 1 .. Len(t2)
      PROVE  t2[n].offset = SlotCount(t2, t2[n].parent) /\ Held(t2, t2[n].parent, t2[n].key) = {}
  <2>1. CASE n \in 1 .. Len(t)
    <3>1. t2[n] = t[n] /\ t[n].parent \in 0 .. Len(t)
      BY <1>0, <1>2, <2>1 DEF Rooted
    <3>2. t[n].offset = SlotCount(t, t[n].parent) /\ Held(t, t[n].parent, t[n].key) = {}
      BY <2>1 DEF TableOK
    <3> QED BY <1>6, <3>1, <3>2 DEF SameShape
  <2>2. CASE n = Len(t) + 1
    BY <1>1a, <1>2, <1>6, <2>2 DEF SameShape
  <2> QED BY <1>4, <2>1, <2>2
<1>8. ASSUME NEW m \in 1 .. Len(t2), NEW n \in 1 .. Len(t2),
             t2[m].parent = t2[n].parent, t2[m].key = t2[n].key
      PROVE  m = n
  <2>1. \A i \in 1 .. Len(t) : ~(t[i].parent = from /\ t[i].key = k)
    BY <1>0 DEF Children
  <2>2. CASE m \in 1 .. Len(t) /\ n \in 1 .. Len(t)
    BY <1>2, <1>8, <2>2 DEF TableOK
  <2>3. CASE m \in 1 .. Len(t) /\ n = Len(t) + 1
    BY <1>1a, <1>2, <1>8, <2>1, <2>3
  <2>4. CASE m = Len(t) + 1 /\ n \in 1 .. Len(t)
    BY <1>1a, <1>2, <1>8, <2>1, <2>4
  <2> QED BY <1>4, <2>2, <2>3, <2>4
<1>9. TableOK(t2)
  BY <1>5, <1>7, <1>8 DEF TableOK
<1>10. Len(t) + 1 \in 1 .. Len(t2)
  BY <1>0, <1>2
<1>11. Added(t, from, k, t2, Len(t) + 1)
  BY <1>1a, <1>2, <1>3, <1>9, <1>10 DEF Added
<1> QED BY <1>11 DEF t2, node

\* jsrt_shape_transition adds the key, whichever it does.
LEMMA TransitionAdds ==
  ASSUME NEW t, TableOK(t), NEW from \in 0 .. Len(t), NEW k \in Key, Held(t, from, k) = {}
  PROVE  Added(t, from, k, Transition(t, from, k).nodes, Transition(t, from, k).at)
<1>1. CASE Children(t, from, k) # {}
  <2>1. /\ Transition(t, from, k).nodes = t
        /\ Transition(t, from, k).at = Max(Children(t, from, k))
    BY <1>1 DEF Transition
  <2> QED BY <1>1, <2>1, ReuseAdds
<1>2. CASE Children(t, from, k) = {}
  <2>1. /\ Transition(t, from, k).nodes
             = Append(t, [parent |-> from, key |-> k, offset |-> SlotCount(t, from)])
        /\ Transition(t, from, k).at = Len(t) + 1
    BY <1>2 DEF Transition
  <2> QED BY <1>2, <2>1, FreshAdds
<1> QED BY <1>1, <1>2

\* What the shape it leads to means.
LEMMA AddedMeans ==
  ASSUME NEW t, TableOK(t), NEW from \in 0 .. Len(t), NEW k, NEW t2, NEW at,
         Added(t, from, k, t2, at)
  PROVE  /\ Chain(t2, at) = {at} \cup Chain(t, from)
         /\ SlotCount(t2, at) = SlotCount(t, from) + 1
         /\ at \notin Chain(t, from)
         /\ \A n \in Chain(t, from) : t2[n] = t[n]
<1>1. Rooted(t) /\ Rooted(t2) /\ Extends(t, t2) /\ at \in 1 .. Len(t2)
  BY DEF Added, TableOK
<1>2. SameShape(t, t2, from) /\ Chain(t2, at) = {at} \cup Chain(t2, from)
  BY <1>1, ShapesStay, ChainSteps DEF Added
<1>3. t2[at].offset = SlotCount(t, from) /\ SlotCount(t2, at) = SlotCount(t, from) + 1
  BY <1>1, NodeTyped DEF Added
<1>4. \A n \in Chain(t, from) : n \in 1 .. Len(t) /\ t[n].offset < SlotCount(t, from)
  BY ChainsOK DEF ChainOK
<1>5. \A n \in Chain(t, from) : t2[n] = t[n]
  BY <1>1, <1>4 DEF Extends
<1>6. at \notin Chain(t, from)
  <2>1. SlotCount(t, from) \in Nat
    BY ChainsOK DEF ChainOK
  <2> QED BY <1>3, <1>4, <1>5, <2>1
<1> QED BY <1>2, <1>3, <1>5, <1>6 DEF SameShape

\* The chain in slot order has the node of slot i in place i + 1.
LEMMA SlotNodes ==
  ASSUME NEW t, TableOK(t), NEW s \in 0 .. Len(t)
  PROVE  /\ Len(SlotOrder(t, s)) = SlotCount(t, s) /\ SlotCount(t, s) \in Nat
         /\ DOMAIN SlotOrder(t, s) = 1 .. SlotCount(t, s)
         /\ \A i \in 1 .. SlotCount(t, s) : /\ SlotOrder(t, s)[i] \in Chain(t, s)
                                           /\ t[SlotOrder(t, s)[i]].offset = i - 1
<1> DEFINE c == SlotCount(t, s)
           chain == Chain(t, s)
           order == [i \in 1 .. c |-> CHOOSE n \in chain : t[n].offset = i - 1]
<1>1. SlotOrder(t, s) = order
  BY DEF SlotOrder
<1>2. c \in Nat /\ \A i \in 0 .. c - 1 : \E n \in chain : t[n].offset = i
  BY ChainsOK DEF ChainOK
<1> HIDE DEF c, chain
<1>3. Len(order) = c /\ DOMAIN order = 1 .. c
  BY <1>2
<1>4. ASSUME NEW i \in 1 .. c PROVE order[i] \in chain /\ t[order[i]].offset = i - 1
  <2>1. i - 1 \in 0 .. c - 1
    BY <1>2
  <2>2. PICK n \in chain : t[n].offset = i - 1
    BY <1>2, <2>1
  <2>3. order[i] = CHOOSE m \in chain : t[m].offset = i - 1
    OBVIOUS
  <2> QED BY <2>2, <2>3
<1> HIDE DEF order
<1> QED BY <1>1, <1>2, <1>3, <1>4 DEF c, chain

\* Without the node of slot g, the later nodes have moved up by one.
KeptIs(t, s, hit, kept) ==
  /\ DOMAIN kept = 1 .. SlotCount(t, s) - 1 /\ Len(kept) = SlotCount(t, s) - 1
  /\ \A i \in 1 .. SlotCount(t, s) - 1 :
       /\ kept[i] \in Chain(t, s)
       /\ t[kept[i]].offset = IF i <= t[hit].offset THEN i - 1 ELSE i

\* The kept nodes are the others of the chain, in their order.
LEMMA KeptNodes ==
  ASSUME NEW t, TableOK(t), NEW s \in 0 .. Len(t), NEW hit \in Chain(t, s)
  PROVE  KeptIs(t, s, hit, Kept(t, s, hit))
<1> DEFINE c == SlotCount(t, s)
           order == SlotOrder(t, s)
           g == t[hit].offset
           kept == [i \in 1 .. Len(order) - 1 |-> order[IF i <= g THEN i ELSE i + 1]]
<1>1. Kept(t, s, hit) = kept
  BY DEF Kept
<1>2. g \in 0 .. c - 1
  BY ChainsOK DEF ChainOK
<1>3. /\ Len(order) = c /\ c \in Nat
      /\ \A i \in 1 .. c : order[i] \in Chain(t, s) /\ t[order[i]].offset = i - 1
  BY SlotNodes
<1> HIDE DEF c, order, g
<1>4. DOMAIN kept = 1 .. c - 1 /\ Len(kept) = c - 1
  <2>1. c - 1 \in Nat /\ Len(order) - 1 = c - 1
    BY <1>2, <1>3
  <2> QED BY <2>1
<1>5. ASSUME NEW i \in 1 .. c - 1
      PROVE  kept[i] \in Chain(t, s) /\ t[kept[i]].offset = IF i <= g THEN i - 1 ELSE i
  <2>1. kept[i] = order[IF i <= g THEN i ELSE i + 1]
    BY <1>3
  <2>2. CASE i <= g
    <3>1. kept[i] = order[i] /\ i \in 1 .. c
      BY <1>3, <2>1, <2>2
    <3> QED BY <1>3, <2>2, <3>1
  <2>3. CASE ~(i <= g)
    <3>1. kept[i] = order[i + 1] /\ i + 1 \in 1 .. c /\ (i + 1) - 1 = i
      BY <1>3, <2>1, <2>3
    <3> QED BY <1>3, <2>3, <3>1
  <2> QED BY <2>2, <2>3
<1> HIDE DEF kept
<1> QED BY <1>1, <1>4, <1>5 DEF KeptIs, c, g

----------------------------------------------------------------------------
\* One more key, for the recursion of Replay.
NextAdded(t, nodes, last, i) == Transition(last.nodes, last.at, t[nodes[i]].key)

Adds(f, t, nodes, n) ==
  /\ f = [i \in 0 .. n |-> f[i]]
  /\ f[0] = [nodes |-> t, at |-> Root]
  /\ \A i \in 1 .. n : f[i] = NextAdded(t, nodes, f[i - 1], i)

\* Such a function exists, so the recursive definition of Replay is one.
LEMMA AddsExist ==
  ASSUME NEW t, NEW nodes, NEW L \in Nat
  PROVE  \E f : Adds(f, t, nodes, L)
<1> DEFINE S == {n \in 0 .. L : \E f : Adds(f, t, nodes, n)}
           base == [nodes |-> t, at |-> Root]
<1>1. 0 \in S
  <2> HIDE DEF base
  <2> DEFINE f == [i \in 0 .. 0 |-> base]
  <2>1. f = [i \in 0 .. 0 |-> f[i]] /\ f[0] = base /\ 1 .. 0 = {}
    OBVIOUS
  <2>2. Adds(f, t, nodes, 0)
    <3> HIDE DEF f
    <3> QED BY <2>1 DEF Adds, base
  <2> QED BY <2>2
<1> HIDE DEF base
<1>2. ASSUME NEW n \in 0 .. (L - 1), n \in S PROVE n + 1 \in S
  <2>1. PICK f : Adds(f, t, nodes, n)
    BY <1>2
  <2> DEFINE new == NextAdded(t, nodes, f[n], n + 1)
             g == [i \in 0 .. n + 1 |-> IF i = n + 1 THEN new ELSE f[i]]
  <2> HIDE DEF new
  <2>2. g = [i \in 0 .. n + 1 |-> g[i]]
    OBVIOUS
  <2>3. g[0] = base
    BY <2>1 DEF Adds, base
  <2>4. ASSUME NEW i \in 1 .. n + 1 PROVE g[i] = NextAdded(t, nodes, g[i - 1], i)
    <3>1. g[i - 1] = f[i - 1]
      OBVIOUS
    <3>2. CASE i = n + 1
      <4>1. g[i] = new /\ i - 1 = n
        BY <3>2
      <4> QED BY <3>1, <3>2, <4>1 DEF new
    <3>3. CASE i # n + 1
      <4>1. i \in 1 .. n /\ g[i] = f[i]
        BY <3>3
      <4>2. f[i] = NextAdded(t, nodes, f[i - 1], i)
        BY <2>1, <4>1 DEF Adds
      <4> QED BY <3>1, <4>1, <4>2
    <3> QED BY <3>2, <3>3
  <2>5. Adds(g, t, nodes, n + 1)
    <3> HIDE DEF g
    <3> QED BY <2>2, <2>3, <2>4 DEF Adds, base
  <2> QED BY <2>5
<1> HIDE DEF S
<1>3. \A n \in 0 .. L - 1 : n \in S => n + 1 \in S
  BY <1>2
<1>4. \A n \in 0 .. L : n \in S
  BY <1>1, <1>3, UpTo
<1> QED BY <1>4 DEF S

\* Replay is a run of transitions.
LEMMA ReplayAdds ==
  ASSUME NEW t, NEW nodes, Len(nodes) \in Nat
  PROVE  \E f : Adds(f, t, nodes, Len(nodes)) /\ Replay(t, nodes) = f[Len(nodes)]
<1> DEFINE L == Len(nodes)
           base == [nodes |-> t, at |-> Root]
           F(f) == [i \in 0 .. L |-> IF i = 0 THEN base ELSE NextAdded(t, nodes, f[i - 1], i)]
           added == CHOOSE f : f = F(f)
<1>1. Replay(t, nodes) = added[L]
  BY DEF Replay, NextAdded
<1>2. PICK f : Adds(f, t, nodes, L)
  BY AddsExist
<1> HIDE DEF base
<1>3. f = F(f)
  <2>1. ASSUME NEW i \in 0 .. L PROVE f[i] = F(f)[i]
    BY <1>2 DEF Adds, base
  <2>2. f = [i \in 0 .. L |-> f[i]]
    BY <1>2 DEF Adds
  <2>3. F(f) = [i \in 0 .. L |-> F(f)[i]]
    OBVIOUS
  <2> HIDE DEF F
  <2> QED BY <2>1, <2>2, <2>3
<1>4. added = F(added)
  BY <1>3
<1> HIDE DEF added
<1>5. /\ added = [i \in 0 .. L |-> added[i]]
      /\ added[0] = base
      /\ \A i \in 1 .. L : added[i] = NextAdded(t, nodes, added[i - 1], i)
  <2> HIDE DEF L
  <2>0. L \in Nat
    BY DEF L
  <2>1. \A i \in 0 .. L : added[i] = F(added)[i]
    BY <1>4
  <2>2. DOMAIN added = 0 .. L
    BY <1>4
  <2>3. added = [i \in 0 .. L |-> added[i]]
    BY <1>4, <2>1, <2>2
  <2>4. 0 \in 0 .. L /\ \A i \in 1 .. L : i \in 0 .. L /\ i # 0
    BY <2>0
  <2>5. added[0] = base
    BY <2>1, <2>4
  <2>6. \A i \in 1 .. L : added[i] = NextAdded(t, nodes, added[i - 1], i)
    BY <2>1, <2>4
  <2> QED BY <2>3, <2>5, <2>6
<1>6. Adds(added, t, nodes, L)
  BY <1>5 DEF Adds, base
<1> QED BY <1>1, <1>6

\* After i keys: a table that has grown at most, and a chain of those keys in that order.
ReplayTo(t, nodes, u, at, i) ==
  /\ TableOK(u) /\ Extends(t, u) /\ at \in 0 .. Len(u)
  /\ SlotCount(u, at) = i
  /\ \A n \in Chain(u, at) : u[n].key = t[nodes[u[n].offset + 1]].key

\* Nodes that can be replayed: their keys differ.
Replayable(t, nodes) ==
  /\ Len(nodes) \in Nat
  /\ \A i \in 1 .. Len(nodes) : t[nodes[i]].key \in Key
  /\ \A i, j \in 1 .. Len(nodes) : t[nodes[i]].key = t[nodes[j]].key => i = j

\* One more transition of a replay.
LEMMA ReplayStep ==
  ASSUME NEW t, NEW nodes, Replayable(t, nodes), NEW i \in 1 .. Len(nodes),
         NEW u, NEW at, ReplayTo(t, nodes, u, at, i - 1),
         NEW w, NEW to, Len(t) \in Nat,
         Added(u, at, t[nodes[i]].key, w, to) \/ Held(u, at, t[nodes[i]].key) # {}
  PROVE  ReplayTo(t, nodes, w, to, i) /\ Held(u, at, t[nodes[i]].key) = {}
<1> DEFINE k == t[nodes[i]].key
<1>1. TableOK(u) /\ Extends(t, u) /\ at \in 0 .. Len(u) /\ SlotCount(u, at) = i - 1
  BY DEF ReplayTo
<1>2. \A n \in Chain(u, at) : u[n].offset \in 0 .. i - 2 /\ u[n].key = t[nodes[u[n].offset + 1]].key
  <2>1. ChainOK(u, at)
    BY <1>1, ChainsOK
  <2>2. (i - 1) - 1 = i - 2
    OBVIOUS
  <2> QED BY <1>1, <2>1, <2>2 DEF ChainOK, ReplayTo
<1>3. Held(u, at, k) = {}
  <2>1. ASSUME NEW n \in Chain(u, at), u[n].key = k PROVE FALSE
    <3>1. u[n].offset + 1 \in 1 .. Len(nodes) /\ u[n].offset + 1 # i
      BY <1>2 DEF Replayable
    <3>2. t[nodes[u[n].offset + 1]].key = t[nodes[i]].key
      BY <1>2, <2>1
    <3> QED BY <3>1, <3>2 DEF Replayable
  <2> QED BY <2>1 DEF Held
<1>4. Added(u, at, k, w, to)
  BY <1>3
<1> HIDE DEF k
<1>5. /\ Chain(w, to) = {to} \cup Chain(u, at)
      /\ SlotCount(w, to) = (i - 1) + 1
      /\ \A n \in Chain(u, at) : w[n] = u[n]
  BY <1>1, <1>4, AddedMeans
<1>6. TableOK(w) /\ Extends(u, w) /\ to \in 1 .. Len(w) /\ w[to].key = k /\ w[to].offset = i - 1
  BY <1>1, <1>4 DEF Added
<1>7. \A n \in Chain(w, to) : w[n].key = t[nodes[w[n].offset + 1]].key
  <2>1. w[to].key = t[nodes[w[to].offset + 1]].key
    <3>1. (i - 1) + 1 = i
      OBVIOUS
    <3> QED BY <1>6, <3>1 DEF k
  <2> QED BY <1>2, <1>5, <2>1
<1>8. Extends(t, w)
  <2>1. Len(t) <= Len(u) /\ Len(u) <= Len(w) /\ Len(u) \in Nat /\ Len(w) \in Nat
    BY <1>1, <1>6 DEF Extends, TableOK, Rooted
  <2>2. \A n \in 1 .. Len(t) : n \in 1 .. Len(u)
    BY <2>1
  <2> QED BY <1>1, <1>6, <2>1, <2>2 DEF Extends
<1>9. SlotCount(w, to) = i /\ to \in 0 .. Len(w)
  <2>1. Len(w) \in Nat
    BY <1>6 DEF TableOK, Rooted
  <2> QED BY <1>5, <1>6, <2>1
<1>10. ReplayTo(t, nodes, w, to, i)
  BY <1>6, <1>7, <1>8, <1>9 DEF ReplayTo
<1> QED BY <1>3, <1>10 DEF k

\* A replay leads to a shape that has the nodes' keys in their order.
LEMMA Replays ==
  ASSUME NEW t, TableOK(t), NEW nodes, Replayable(t, nodes)
  PROVE  ReplayTo(t, nodes, Replay(t, nodes).nodes, Replay(t, nodes).at, Len(nodes))
<1> DEFINE L == Len(nodes)
<1>0. L \in Nat /\ Len(t) \in Nat
  BY DEF Replayable, TableOK, Rooted
<1>1. PICK f : Adds(f, t, nodes, L) /\ Replay(t, nodes) = f[L]
  BY <1>0, ReplayAdds
<1> DEFINE S == {i \in 0 .. L : ReplayTo(t, nodes, f[i].nodes, f[i].at, i)}
<1>2. 0 \in S
  <2>1. f[0].nodes = t /\ f[0].at = 0
    BY <1>1 DEF Adds, Root
  <2>2. Chain(t, 0) = {} /\ SlotCount(t, 0) = 0
    BY ChainSteps DEF TableOK, SlotCount, Root
  <2>3. ReplayTo(t, nodes, t, 0, 0)
    BY <1>0, <2>2 DEF ReplayTo, Extends
  <2> QED BY <1>0, <2>1, <2>3
<1>3. ASSUME NEW n \in 0 .. (L - 1), n \in S PROVE n + 1 \in S
  <2> DEFINE i == n + 1
             u == f[n].nodes
             at == f[n].at
             k == t[nodes[i]].key
  <2>1. ReplayTo(t, nodes, u, at, i - 1) /\ i \in 1 .. L /\ i - 1 = n
    BY <1>3
  <2>2. f[i].nodes = Transition(u, at, k).nodes /\ f[i].at = Transition(u, at, k).at
    BY <1>1, <2>1 DEF Adds, NextAdded
  <2>3. TableOK(u) /\ at \in 0 .. Len(u) /\ k \in Key
    BY <2>1 DEF ReplayTo, Replayable
  <2> HIDE DEF u, at, i
  <2>4. Held(u, at, k) = {} => Added(u, at, k, f[i].nodes, f[i].at)
    BY <2>2, <2>3, TransitionAdds
  <2>5. ReplayTo(t, nodes, f[i].nodes, f[i].at, i)
    BY <1>0, <2>1, <2>4, ReplayStep
  <2>6. i \in 0 .. L
    BY <2>1
  <2> QED BY <2>5, <2>6 DEF i
<1> HIDE DEF S
<1>4. \A n \in 0 .. L - 1 : n \in S => n + 1 \in S
  BY <1>3
<1>5. \A n \in 0 .. L : n \in S
  BY <1>0, <1>2, <1>4, UpTo
<1>6. L \in S
  BY <1>0, <1>5
<1> QED BY <1>1, <1>6 DEF S

----------------------------------------------------------------------------
\* What a removal leaves: a table that has grown at most, and a shape with one slot less
\* whose slots have the keys and the values of the old ones but the removed one.
Without(t, s, hit, slots, r) ==
  LET c == SlotCount(t, s)
      g == t[hit].offset
  IN  /\ TableOK(r.nodes) /\ Extends(t, r.nodes) /\ r.at \in 0 .. Len(r.nodes)
      /\ SlotCount(r.nodes, r.at) = c - 1
      /\ \A n \in Chain(r.nodes, r.at), m \in Chain(t, s) :
           t[m].offset = (IF r.nodes[n].offset < g THEN r.nodes[n].offset
                                                   ELSE r.nodes[n].offset + 1)
             => r.nodes[n].key = t[m].key
      /\ DOMAIN r.slots = DOMAIN slots
      /\ \A i \in DOMAIN slots :
           r.slots[i] = IF i < c - 1 THEN slots[IF i < g THEN i ELSE i + 1] ELSE slots[i]

\* jsrt_shape_remove does that.
LEMMA RemovalWithout ==
  ASSUME NEW t, TableOK(t), NEW s \in 0 .. Len(t), NEW hit \in Chain(t, s), NEW slots,
         DOMAIN slots \subseteq Nat
  PROVE  Without(t, s, hit, slots, Removal(t, s, slots, hit))
<1> DEFINE c == SlotCount(t, s)
           g == t[hit].offset
           kept == Kept(t, s, hit)
           r == Removal(t, s, slots, hit)
<1>1. c \in Nat /\ g \in 0 .. c - 1
  BY ChainsOK DEF ChainOK
<1>2. /\ Len(kept) = c - 1
      /\ \A i \in 1 .. c - 1 : /\ kept[i] \in Chain(t, s)
                               /\ t[kept[i]].offset = IF i <= g THEN i - 1 ELSE i
  BY KeptNodes DEF KeptIs
<1>3. /\ r.nodes = Replay(t, kept).nodes /\ r.at = Replay(t, kept).at
      /\ DOMAIN r.slots = DOMAIN slots
      /\ \A i \in DOMAIN slots :
           r.slots[i] = IF i < Len(kept) THEN slots[t[kept[i + 1]].offset] ELSE slots[i]
  BY DEF Removal
<1>4. \A m, n \in Chain(t, s) : t[m].offset = t[n].offset \/ t[m].key = t[n].key => m = n
  BY ChainsOK DEF ChainOK
<1>5. \A n \in Chain(t, s) : n \in 1 .. Len(t) /\ t[n].key \in Key
  <2>1. \A n \in Chain(t, s) : n \in 1 .. Len(t)
    BY ChainsOK DEF ChainOK
  <2> QED BY <2>1, NodeTyped DEF TableOK
<1> HIDE DEF c, g, kept, r
<1>6. Replayable(t, kept)
  <2>1. Len(kept) \in Nat
    BY <1>1, <1>2
  <2>2. ASSUME NEW i \in 1 .. Len(kept), NEW j \in 1 .. Len(kept), t[kept[i]].key = t[kept[j]].key
        PROVE  i = j
    <3>1. kept[i] = kept[j]
      BY <1>2, <1>4, <2>2
    <3>2. t[kept[i]].offset = t[kept[j]].offset
      BY <3>1
    <3> QED BY <1>1, <1>2, <3>2
  <2>3. \A i \in 1 .. Len(kept) : t[kept[i]].key \in Key
    BY <1>2, <1>5
  <2> QED BY <2>1, <2>2, <2>3 DEF Replayable
<1>7. ReplayTo(t, kept, r.nodes, r.at, c - 1)
  BY <1>2, <1>3, <1>6, Replays
<1>8. ASSUME NEW n \in Chain(r.nodes, r.at), NEW m \in Chain(t, s),
             t[m].offset = IF r.nodes[n].offset < g THEN r.nodes[n].offset
                                                    ELSE r.nodes[n].offset + 1
      PROVE  r.nodes[n].key = t[m].key
  <2> DEFINE i == r.nodes[n].offset
  <2>1. i \in 0 .. c - 2
    <3>1. SlotCount(r.nodes, r.at) = c - 1 /\ ChainOK(r.nodes, r.at)
      BY <1>7, ChainsOK DEF ReplayTo
    <3>2. i \in 0 .. (c - 1) - 1
      BY <3>1 DEF ChainOK
    <3> QED BY <1>1, <3>2
  <2>2. r.nodes[n].key = t[kept[i + 1]].key
    BY <1>7 DEF ReplayTo
  <2> HIDE DEF i
  <2>3. i + 1 \in 1 .. c - 1 /\ (i + 1 <= g <=> i < g) /\ (i + 1) - 1 = i
    BY <1>1, <2>1
  <2>4. kept[i + 1] \in Chain(t, s) /\ t[kept[i + 1]].offset = IF i < g THEN i ELSE i + 1
    BY <1>2, <2>3
  <2>5. t[m].offset = IF i < g THEN i ELSE i + 1
    BY <1>8 DEF i
  <2>6. kept[i + 1] = m
    BY <1>4, <2>4, <2>5
  <2> QED BY <2>2, <2>6
<1>9. ASSUME NEW i \in DOMAIN slots
      PROVE  r.slots[i] = IF i < c - 1 THEN slots[IF i < g THEN i ELSE i + 1] ELSE slots[i]
  <2>1. CASE i < c - 1
    <3>1. i \in Nat /\ i + 1 \in 1 .. c - 1 /\ (i + 1 <= g <=> i < g) /\ (i + 1) - 1 = i
      BY <1>1, <2>1
    <3>2. t[kept[i + 1]].offset = IF i < g THEN i ELSE i + 1
      BY <1>2, <3>1
    <3>3. r.slots[i] = slots[t[kept[i + 1]].offset]
      BY <1>2, <1>3, <2>1
    <3> QED BY <2>1, <3>2, <3>3
  <2>2. CASE ~(i < c - 1)
    BY <1>2, <1>3, <2>2
  <2> QED BY <2>1, <2>2
<1> QED BY <1>3, <1>7, <1>8, <1>9 DEF Without, ReplayTo, c, g, r

\* One object's layout: its block holds a stored value in every slot of its shape.
RowOK(t, shape, slots) ==
  /\ shape \in 0 .. Len(t)
  /\ Capacity(slots) \in Nat
  /\ slots \in [0 .. Capacity(slots) - 1 -> Value \cup {Unset}]
  /\ \A i \in 0 .. SlotCount(t, shape) - 1 : i \in DOMAIN slots /\ slots[i] \in Value

\* The capacity of a block of m slots is m.
LEMMA BlockCapacity ==
  ASSUME NEW m \in Nat, NEW slots, DOMAIN slots = 0 .. m - 1
  PROVE  Capacity(slots) = m
<1>1. 0 \in Int /\ m - 1 \in Int
  OBVIOUS
<1>2. Cardinality(0 .. m - 1) = IF 0 > m - 1 THEN 0 ELSE (m - 1) - 0 + 1
  BY <1>1, FS_Interval
<1>3. Cardinality(0 .. m - 1) = m
  BY <1>2
<1> QED BY <1>3 DEF Capacity

\* An object does not notice that the table grows.
LEMMA RowStays ==
  ASSUME NEW t, TableOK(t), NEW t2, TableOK(t2), Extends(t, t2),
         NEW shape, NEW slots, RowOK(t, shape, slots)
  PROVE  RowOK(t2, shape, slots)
<1>1. shape \in 0 .. Len(t2) /\ SlotCount(t2, shape) = SlotCount(t, shape)
  BY ShapesStay DEF TableOK, RowOK, SameShape
<1> QED BY <1>1 DEF RowOK

\* A slot of the shape is in the block, which has room for all of them.
LEMMA RowRoom ==
  ASSUME NEW t, TableOK(t), NEW shape, NEW slots, RowOK(t, shape, slots)
  PROVE  SlotCount(t, shape) \in 0 .. Capacity(slots)
<1>1. SlotCount(t, shape) \in Nat
  BY ChainsOK DEF RowOK, ChainOK
<1>2. Capacity(slots) \in Nat /\ DOMAIN slots = 0 .. Capacity(slots) - 1
  BY DEF RowOK
<1>3. CASE SlotCount(t, shape) = 0
  BY <1>2, <1>3
<1>4. CASE SlotCount(t, shape) # 0
  <2>1. SlotCount(t, shape) - 1 \in 0 .. SlotCount(t, shape) - 1
    BY <1>1, <1>4
  <2>2. SlotCount(t, shape) - 1 \in DOMAIN slots
    BY <2>1 DEF RowOK
  <2> QED BY <1>1, <1>2, <2>2
<1> QED BY <1>3, <1>4

\* Overwriting a slot with a value keeps the layout.
LEMMA RowWritten ==
  ASSUME NEW t, NEW shape, NEW slots, RowOK(t, shape, slots), NEW at, NEW v \in Value
  PROVE  RowOK(t, shape, [slots EXCEPT ![at] = v])
<1> DEFINE new == [slots EXCEPT ![at] = v]
<1>1. DOMAIN new = DOMAIN slots /\ \A i \in DOMAIN slots : new[i] = IF i = at THEN v ELSE slots[i]
  OBVIOUS
<1>2. Capacity(new) = Capacity(slots)
  BY <1>1 DEF Capacity
<1>3. new \in [0 .. Capacity(slots) - 1 -> Value \cup {Unset}]
  BY DEF RowOK
<1> HIDE DEF new
<1> QED BY <1>1, <1>2, <1>3 DEF RowOK

\* A block of m slots with room for slot at and the cap values of the old one.
Roomy(slots, cap, at, new, m) ==
  /\ m \in Nat /\ m >= cap /\ m > at
  /\ DOMAIN new = 0 .. m - 1
  /\ \A i \in 0 .. m - 1 : new[i] = IF i < cap THEN slots[i] ELSE Unset

\* Making room for one more slot keeps the values there are.
LEMMA Reserved ==
  ASSUME NEW slots, NEW cap \in Nat, DOMAIN slots = 0 .. cap - 1, NEW at \in 0 .. cap
  PROVE  \E m : Roomy(slots, cap, at, Reserve(slots, at), m)
<1>1. Capacity(slots) = cap
  BY BlockCapacity
<1>2. CASE at < cap
  <2>1. Reserve(slots, at) = slots
    BY <1>1, <1>2 DEF Reserve
  <2>2. Roomy(slots, cap, at, slots, cap)
    BY <1>2 DEF Roomy
  <2> QED BY <2>1, <2>2
<1>3. CASE ~(at < cap)
  <2> DEFINE first == IF cap = 0 THEN FirstCapacity ELSE 2 * cap
             J == {j \in 0 .. at : first * 2 ^ j > at}
             m == first * 2 ^ Min(J)
  <2>1. first \in Nat /\ first > at /\ at = cap
    BY <1>3, ShapeAssumption
  <2>2. 0 \in J
    <3>1. 2 ^ 0 = 1
      OBVIOUS
    <3> QED BY <2>1, <3>1
  <2>3. J \subseteq Nat
    OBVIOUS
  <2>4. Reserve(slots, at) = [i \in 0 .. m - 1 |-> IF i < cap THEN slots[i] ELSE Unset]
    BY <1>1, <1>3 DEF Reserve
  <2> HIDE DEF J
  <2>5. Min(J) = 0
    <3>1. \A x \in J : 0 <= x /\ (x <= 0 => x = 0)
      BY <2>3
    <3>2. Min(J) \in J /\ Min(J) <= 0
      BY <2>2, <3>1 DEF Min
    <3> QED BY <3>1, <3>2
  <2>6. 2 ^ Min(J) = 1
    BY <2>5
  <2> HIDE DEF first
  <2>7. m = first
    BY <2>1, <2>6
  <2> HIDE DEF m
  <2>8. m \in Nat /\ m >= cap /\ m > at
    BY <2>1, <2>7
  <2>9. Roomy(slots, cap, at, Reserve(slots, at), m)
    BY <2>4, <2>8 DEF Roomy
  <2> QED BY <2>9
<1> QED BY <1>2, <1>3

\* A shape with one more slot, and the value in it.
LEMMA RowAdded ==
  ASSUME NEW t, TableOK(t), NEW shape, NEW slots, RowOK(t, shape, slots), NEW k,
         NEW t2, NEW at, Added(t, shape, k, t2, at), NEW v \in Value
  PROVE  RowOK(t2, at, [Reserve(slots, SlotCount(t, shape)) EXCEPT ![SlotCount(t, shape)] = v])
<1> DEFINE c == SlotCount(t, shape)
           cap == Capacity(slots)
           room == Reserve(slots, c)
           new == [room EXCEPT ![c] = v]
<1>1. /\ cap \in Nat /\ c \in 0 .. cap
      /\ slots \in [0 .. cap - 1 -> Value \cup {Unset}]
      /\ \A i \in 0 .. c - 1 : slots[i] \in Value
  BY RowRoom DEF RowOK
<1>2. SlotCount(t2, at) = c + 1
  BY AddedMeans DEF RowOK
<1>3. at \in 0 .. Len(t2)
  BY DEF Added, TableOK, Rooted
<1> HIDE DEF c, cap
<1>4a. PICK m : Roomy(slots, cap, c, room, m)
  <2>1. DOMAIN slots = 0 .. cap - 1
    BY <1>1
  <2>2. cap \in Nat /\ c \in 0 .. cap
    BY <1>1
  <2> QED BY <2>1, <2>2, Reserved
<1>4. /\ m \in Nat /\ m >= cap /\ m > c
      /\ DOMAIN room = 0 .. m - 1
      /\ \A i \in 0 .. m - 1 : room[i] = IF i < cap THEN slots[i] ELSE Unset
  BY <1>4a DEF Roomy
<1> HIDE DEF room
<1>5. /\ DOMAIN new = 0 .. m - 1 /\ new[c] = v
      /\ \A i \in 0 .. m - 1 : i # c => new[i] = IF i < cap THEN slots[i] ELSE Unset
  BY <1>1, <1>4
<1>6. new = [i \in 0 .. m - 1 |-> new[i]]
  BY <1>4
<1> HIDE DEF new
<1>7. Capacity(new) = m
  BY <1>4, <1>5, BlockCapacity
<1>8. \A i \in 0 .. m - 1 : new[i] \in Value \cup {Unset}
  BY <1>1, <1>5
<1>9. new \in [0 .. Capacity(new) - 1 -> Value \cup {Unset}]
  BY <1>6, <1>7, <1>8
<1>10. \A i \in 0 .. (c + 1) - 1 : i \in DOMAIN new /\ new[i] \in Value
  <2>1. ASSUME NEW i \in 0 .. (c + 1) - 1 PROVE i \in 0 .. m - 1 /\ new[i] \in Value
    <3>1. i \in 0 .. m - 1
      BY <1>1, <1>4
    <3>2. CASE i = c
      BY <1>5, <3>1, <3>2
    <3>3. CASE i # c
      <4>1. i \in 0 .. c - 1 /\ i < cap
        BY <1>1, <3>3
      <4> QED BY <1>1, <1>5, <3>1, <3>3, <4>1
    <3> QED BY <3>1, <3>2, <3>3
  <2> QED BY <1>5, <2>1
<1>11. RowOK(t2, at, new)
  BY <1>2, <1>4, <1>3, <1>7, <1>9, <1>10 DEF RowOK
<1> QED BY <1>11 DEF new, room, c

\* A shape with one slot less, and the other values moved together.
LEMMA RowRemoved ==
  ASSUME NEW t, TableOK(t), NEW shape, NEW slots, RowOK(t, shape, slots),
         NEW hit \in Chain(t, shape), NEW r, Without(t, shape, hit, slots, r),
         r.slots = [i \in DOMAIN r.slots |-> r.slots[i]]
  PROVE  RowOK(r.nodes, r.at, r.slots)
<1> DEFINE c == SlotCount(t, shape)
           g == t[hit].offset
           cap == Capacity(slots)
           new == r.slots
<1>1. /\ cap \in Nat /\ c \in 0 .. cap
      /\ slots \in [0 .. cap - 1 -> Value \cup {Unset}]
      /\ \A i \in 0 .. c - 1 : slots[i] \in Value
  BY RowRoom DEF RowOK
<1>2. g \in 0 .. c - 1
  BY ChainsOK DEF RowOK, ChainOK
<1>3. /\ SlotCount(r.nodes, r.at) = c - 1 /\ r.at \in 0 .. Len(r.nodes)
      /\ DOMAIN new = DOMAIN slots
      /\ \A i \in DOMAIN slots :
           new[i] = IF i < c - 1 THEN slots[IF i < g THEN i ELSE i + 1] ELSE slots[i]
  BY DEF Without
<1>4. Capacity(new) = cap
  BY <1>3 DEF Capacity
<1> HIDE DEF c, g, cap, new
<1>5. ASSUME NEW i \in 0 .. c - 2 PROVE i \in 0 .. cap - 1 /\ new[i] \in Value
  <2>1. i \in 0 .. cap - 1 /\ i < c - 1 /\ i \in 0 .. c - 1 /\ i + 1 \in 0 .. c - 1
    BY <1>1
  <2>2. new[i] = slots[IF i < g THEN i ELSE i + 1]
    BY <1>1, <1>3, <2>1
  <2> QED BY <1>1, <2>1, <2>2
<1>6. ASSUME NEW i \in 0 .. cap - 1 PROVE new[i] \in Value \cup {Unset}
  <2>1. CASE i < c - 1
    BY <1>1, <1>5, <2>1
  <2>2. CASE ~(i < c - 1)
    BY <1>1, <1>3, <2>2
  <2> QED BY <2>1, <2>2
<1>7. new \in [0 .. cap - 1 -> Value \cup {Unset}]
  <2>1. new = [i \in 0 .. cap - 1 |-> new[i]]
    BY <1>1, <1>3 DEF new
  <2> QED BY <1>6, <2>1
<1>8. (c - 1) - 1 = c - 2 /\ DOMAIN new = 0 .. cap - 1
  BY <1>1, <1>3
<1>9. \A i \in 0 .. (c - 1) - 1 : i \in DOMAIN new /\ new[i] \in Value
  BY <1>5, <1>8
<1> QED BY <1>1, <1>3, <1>4, <1>7, <1>9 DEF RowOK, new

----------------------------------------------------------------------------
(* The step leaves the tables of all objects but o alone, and o's own too   *)
(* when it is frozen; o stays frozen exactly if it was.                     *)
Touches(o) ==
  /\ DOMAIN table' = Obj
  /\ \A p \in Obj \ {o} : table'[p] = table[p]
  /\ table[o].frozen => table'[o] = table[o]
  /\ table'[o] = Layout(table'[o].shape, table'[o].slots, table[o].frozen)

(* A step that leaves every table alone touches none.                       *)
LEMMA NoTouch ==
  ASSUME FreezeInv, NEW o \in Obj, UNCHANGED table
  PROVE  Touches(o)
BY DEF FreezeInv, Touches

(* Giving an object that is not frozen another shape or other slots touches it. *)
LEMMA RowTouches ==
  ASSUME FreezeInv, NEW o \in Obj, ~table[o].frozen, NEW shape, NEW slots,
         table' = [table EXCEPT ![o] = Layout(shape, slots, table[o].frozen)]
  PROVE  Touches(o)
BY SMTT(30) DEF FreezeInv, Touches, Layout

(* So does writing an existing slot, unless it calls a setter.              *)
LEMMA WriteTouches ==
  ASSUME FreezeInv, NEW o \in Obj, ~table[o].frozen, NEW i, NEW v, WriteOwn(o, i, v)
  PROVE  Touches(o)
BY NoTouch, RowTouches, SMTT(40) DEF WriteOwn, PutSlot

(* And the addition of a property, directly or on a prototype's word.       *)
LEMMA AddTouches ==
  ASSUME FreezeInv, NEW o \in Obj, ~table[o].frozen, NEW k, NEW v, AddOwn(o, k, v)
  PROVE  Touches(o)
BY RowTouches DEF AddOwn

(* And its removal.                                                         *)
LEMMA RemoveTouches ==
  ASSUME FreezeInv, NEW o \in Obj, ~table[o].frozen, NEW k, RemoveOwn(o, k)
  PROVE  Touches(o)
BY RowTouches DEF RemoveOwn
----------------------------------------------------------------------------
(* What one step must do: keep the invariant, and leave every frozen        *)
(* dynamic object and every frozen overflow table as it is.                 *)
Safe ==
  /\ FreezeInv'
  /\ \A p \in Dyn : table[p].frozen => table'[p] = table[p]
  /\ \A p \in locked : table'[p] = table[p]

(* A step that touches one object is safe unless it reaches the table of a  *)
(* frozen fixed object that has none yet.                                   *)
LEMMA TouchSafe ==
  ASSUME FreezeInv, NEW o \in Obj, Touches(o),
         fresh' \subseteq fresh, locked' = locked,
         locked \cap grown' = locked \cap grown,
         o \in locked => o \in grown \/ UNCHANGED table
  PROVE  Safe
<1>1. \A p \in Obj : /\ table'[p] = Layout(table'[p].shape, table'[p].slots, table'[p].frozen)
                     /\ table'[p].frozen = table[p].frozen
  BY DEF FreezeInv, Touches, Layout
<1>2. FreezeInv'
  BY <1>1 DEF FreezeInv, Touches, Obj
<1>3. \A p \in Dyn : table[p].frozen => table'[p] = table[p]
  BY DEF Touches, Obj
<1>4. \A p \in locked : table'[p] = table[p]
  BY DEF FreezeInv, Touches, Obj
<1> QED BY <1>2, <1>3, <1>4 DEF Safe

(* A step that leaves the tables, the marks and the literals alone is safe. *)
LEMMA QuietSafe ==
  ASSUME FreezeInv, UNCHANGED <<table, locked, grown>>, fresh' \subseteq fresh
  PROVE  Safe
BY DEF FreezeInv, Safe, Layout

(* An entry of a literal lands on an object nobody can have frozen.         *)
LEMMA LiteralSafe ==
  ASSUME FreezeInv, NEW o \in fresh, NEW k, NEW v, LiteralEntry(o, k, v) \/ Define(o, k, v)
  PROVE  Safe
<1>1. o \in Obj /\ ~table[o].frozen /\ o \notin locked
  BY ObjectAssumption DEF FreezeInv, Obj
<1>2. Touches(o)
  BY <1>1, WriteTouches, AddTouches, RowTouches DEF LiteralEntry, Define, PutSlot
<1> QED BY <1>1, <1>2, TouchSafe DEF LiteralEntry, Define

(* store_prop on a dynamic object asks whether it is frozen before anything else. *)
LEMMA SetDynSafe ==
  ASSUME FreezeInv, NEW o \in Dyn, NEW x, NEW v, SetDyn(x, o, v)
  PROVE  Safe
<1>1. o \in Obj /\ o \notin locked
  BY ObjectAssumption DEF FreezeInv, Obj
<1>2. Touches(o)
  BY <1>1, NoTouch, WriteTouches, AddTouches DEF SetDyn, AddOrInherit, Refuse
<1> QED BY <1>1, <1>2, TouchSafe DEF SetDyn

(* store_prop on a fixed object: a locked one reaches its overflow table    *)
(* only for a name the table owns, so the table exists and is frozen.       *)
LEMMA SetFixedSafe ==
  ASSUME FreezeInv, NEW o \in Fixed, NEW k, NEW v, SetFixed(o, k, v)
  PROVE  Safe
<1>1. o \in Obj /\ o \notin Dyn
  BY ObjectAssumption DEF Obj
<1>2. Touches(o)
  BY <1>1, NoTouch, WriteTouches, AddTouches DEF SetFixed, Refuse
<1>3. CASE UNCHANGED <<table, grown>>
  BY <1>3, QuietSafe DEF SetFixed
<1>4. CASE ~UNCHANGED <<table, grown>>
  <2>1. /\ grown' = grown \cup {o}
        /\ o \in locked => o \in grown
    BY <1>1, <1>4 DEF SetFixed, Refuse, Has
  <2> QED BY <1>1, <1>2, <2>1, TouchSafe DEF SetFixed
<1> QED BY <1>3, <1>4

(* jsrt_delete removes a key only from a table that is not frozen.          *)
LEMMA DeleteSafe ==
  ASSUME FreezeInv, NEW o \in Obj, NEW k, Delete(o, k)
  PROVE  Safe
<1>1. CASE UNCHANGED table
  BY <1>1, QuietSafe DEF Delete
<1>2. CASE Has(o, k) /\ ~table[o].frozen /\ RemoveOwn(o, k)
  <2>1. o \in locked => o \in grown
    BY <1>2, ObjectAssumption DEF Has, FreezeInv
  <2> QED BY <1>2, <2>1, RemoveTouches, TouchSafe DEF Delete
<1> QED BY <1>1, <1>2 DEF Delete, Refuse

(* Freezing an object that is frozen already changes nothing.               *)
LEMMA FreezeSafe ==
  ASSUME FreezeInv, NEW o \in Obj, o \notin fresh, Freeze(o)
  PROVE  Safe
<1>1. CASE o \in Dyn \/ o \in grown
  <2>1. /\ DOMAIN table' = Obj
        /\ \A p \in Obj \ {o} : table'[p] = table[p]
        /\ table'[o] = Layout(table[o].shape, table[o].slots, TRUE)
    BY <1>1 DEF Freeze, FreezeInv
  <2>2. /\ table'[o].frozen = TRUE
        /\ table'[o].shape = table[o].shape /\ table'[o].slots = table[o].slots
    BY <2>1 DEF Layout
  <2>3. table[o].frozen => table'[o] = table[o]
    BY <2>1 DEF FreezeInv
  <2>4. o \in locked => table[o].frozen
    BY <1>1, ObjectAssumption DEF FreezeInv
  <2>5. FreezeInv'
    <3>1. \A p \in Obj : /\ table'[p] = Layout(table'[p].shape, table'[p].slots, table'[p].frozen)
                         /\ table'[p].frozen \in BOOLEAN
      BY <2>1, <2>2 DEF FreezeInv
    <3>2. fresh' \subseteq Dyn /\ locked' \subseteq Fixed
      BY DEF Freeze, FreezeInv
    <3>3. \A p \in fresh' : ~table'[p].frozen
      BY <2>1 DEF Freeze, FreezeInv, Obj
    <3>4. \A p \in locked' \cap grown' : table'[p].frozen
      BY <2>1, <2>2 DEF Freeze, FreezeInv, Obj
    <3> QED BY <2>1, <3>1, <3>2, <3>3, <3>4 DEF FreezeInv
  <2> QED BY <2>1, <2>3, <2>4, <2>5 DEF Safe, FreezeInv, Obj
<1>2. CASE ~(o \in Dyn \/ o \in grown)
  BY <1>2 DEF Freeze, FreezeInv, Safe, Layout
<1> QED BY <1>1, <1>2

----------------------------------------------------------------------------
(* One lemma for the whole next-state relation.                             *)
LEMMA StepSafe ==
  ASSUME FreezeInv, [Next]_vars
  PROVE  Safe
<1>1. CASE UNCHANGED vars
  BY <1>1, QuietSafe DEF vars
<1>2. CASE Next
  <2>1. CASE \E o \in fresh, k \in Key :
               \/ \E v \in Data : LiteralEntry(o, k, v)
               \/ \E c \in Cell : Define(o, k, c)
    BY <2>1, LiteralSafe
  <2>2. CASE \E o \in fresh : Built(o)
    BY <2>2, QuietSafe DEF Built
  <2>3. CASE \E o \in Obj : Usable(o) /\ Freeze(o)
    BY <2>3, FreezeSafe DEF Usable
  <2>4. CASE \E o \in Obj, k \in Key : Delete(o, k)
    BY <2>4, DeleteSafe
  <2>5. CASE \E o \in Obj : Keys(o) \/ \E k \in Key : In(o, k)
    BY <2>5, QuietSafe DEF Keys, In
  <2>6. CASE \E o \in Dyn, x \in Access : GetDyn(x, o)
    BY <2>6, QuietSafe DEF GetDyn
  <2>7. CASE \E o \in Dyn, x \in Access, v \in Data : SetDyn(x, o, v)
    BY <2>7, SetDynSafe
  <2>8. CASE \E o \in Fixed, k \in Key : GetFixed(o, k)
    BY <2>8, QuietSafe DEF GetFixed
  <2>9. CASE \E o \in Fixed, k \in Key, v \in Data : SetFixed(o, k, v)
    BY <2>9, SetFixedSafe
  <2>10. CASE \E o \in Fixed, k \in Declared, v \in Data : SetField(o, k, v)
    BY <2>10, QuietSafe DEF SetField
  <2> QED BY <1>2, <2>1, <2>2, <2>3, <2>4, <2>5, <2>6, <2>7, <2>8, <2>9, <2>10 DEF Next
<1> QED BY <1>1, <1>2

(* In every reachable state no object under construction is frozen, and a   *)
(* frozen fixed object's overflow table is frozen with it.                  *)
THEOREM FreezeInvariance == Spec => []FreezeInv
<1>1. Init => FreezeInv
  <2>1. ASSUME Init
        PROVE  /\ DOMAIN table = Obj
               /\ \A o \in Obj : table[o] = Layout(Root, <<>>, FALSE)
               /\ fresh \subseteq Dyn /\ locked = {}
    BY <2>1 DEF Init
  <2>2. ASSUME Init, NEW o \in Obj
        PROVE  /\ table[o].shape = Root /\ table[o].slots = <<>> /\ table[o].frozen = FALSE
    BY <2>1, <2>2 DEF Layout
  <2> QED BY <2>1, <2>2 DEF FreezeInv, Obj
<1>2. FreezeInv /\ [Next]_vars => FreezeInv'
  BY StepSafe DEF Safe
<1> QED BY <1>1, <1>2, PTL DEF Spec

(* No operation, cached or not, changes what a frozen dynamic object holds. *)
THEOREM FrozenKept == Spec => FrozenStays
<1>1. FreezeInv /\ [Next]_vars => [\A o \in Dyn : table[o].frozen => table'[o] = table[o]]_vars
  BY StepSafe DEF Safe
<1> QED BY <1>1, FreezeInvariance, PTL DEF Spec, FrozenStays

(* A frozen fixed object's overflow table is never changed again, whether   *)
(* it existed when the object was frozen or not.                            *)
THEOREM LockedKept == Spec => LockedStays
<1>1. FreezeInv /\ [Next]_vars => [\A o \in locked : table'[o] = table[o]]_vars
  BY StepSafe DEF Safe
<1> QED BY <1>1, FreezeInvariance, PTL DEF Spec, LockedStays

----------------------------------------------------------------------------
(* The layouts, the caches and the rest of the type invariant, apart.       *)
Layouts ==
  /\ TableOK(shapes)
  /\ \A o \in Obj : RowOK(shapes, table[o].shape, table[o].slots)

Caches ==
  /\ ic \in [Site -> [shape : 0 .. Len(shapes), offset : Nat]]
  /\ CacheExact

Marks ==
  /\ grown \subseteq Fixed /\ locked \subseteq Fixed
  /\ fresh \subseteq {o \in Dyn : Proto[o] = None}
  /\ fields \in [Fixed -> [Declared -> Data]]

\* The parts are the invariant.
LEMMA ObjectParts == ObjectInv <=> Layouts /\ Caches /\ Marks /\ FreezeInv
BY DEF ObjectInv, TypeOK, Layouts, RowOK, SlotsLive, Caches, Marks, FreezeInv, TableOK, Rooted

\* The shapes have grown at most, and every object's layout is sound.
Moves == Layouts' /\ Extends(shapes, shapes')

\* A step that leaves the shapes and the tables alone.
LEMMA QuietMoves ==
  ASSUME Layouts, UNCHANGED <<shapes, table>>
  PROVE  Moves
BY ExtendsItself DEF Layouts, Moves

\* One object takes another layout.
LEMMA RowMoves ==
  ASSUME Layouts, FreezeInv, NEW o \in Obj,
         TableOK(shapes'), Extends(shapes, shapes'),
         NEW shape, NEW slots, NEW frozen, RowOK(shapes', shape, slots),
         table' = [table EXCEPT ![o] = Layout(shape, slots, frozen)]
  PROVE  Moves
<1>1. table'[o].shape = shape /\ table'[o].slots = slots
  BY DEF FreezeInv, Layout
<1>2. \A p \in Obj \ {o} : table'[p] = table[p]
  BY DEF FreezeInv
<1>3. \A p \in Obj \ {o} : RowOK(shapes', table'[p].shape, table'[p].slots)
  BY <1>2, RowStays DEF Layouts
<1>4. \A p \in Obj : RowOK(shapes', table'[p].shape, table'[p].slots)
  BY <1>1, <1>3
<1> QED BY <1>4 DEF Moves, Layouts

\* Writing a slot, directly or past an accessor.
LEMMA PutMoves ==
  ASSUME Layouts, FreezeInv, NEW o \in Obj, NEW at, NEW v \in Value,
         PutSlot(o, at, v), UNCHANGED shapes
  PROVE  Moves
<1>1. RowOK(shapes', table[o].shape, [table[o].slots EXCEPT ![at] = v])
  BY RowWritten DEF Layouts
<1>2. TableOK(shapes') /\ Extends(shapes, shapes')
  BY ExtendsItself DEF Layouts
<1> QED BY <1>1, <1>2, RowMoves DEF PutSlot

\* A lookup finds a node of the object's chain, or the key is new to it.
LEMMA OwnFinds ==
  ASSUME Layouts, NEW o \in Obj, NEW k
  PROVE  Finds(shapes, table[o].shape, k, Own(o, k))
BY FindFinds DEF Layouts, RowOK, Own

\* Adding a key an object does not have.
LEMMA AddMoves ==
  ASSUME Layouts, FreezeInv, NEW o \in Obj, NEW k \in Key, NEW v \in Value,
         Own(o, k) = Root, AddOwn(o, k, v)
  PROVE  Moves
<1> DEFINE s == table[o].shape
           next == Transition(shapes, s, k)
           at == next.nodes[next.at].offset
           slots == [Reserve(table[o].slots, at) EXCEPT ![at] = v]
<1>1. TableOK(shapes) /\ RowOK(shapes, s, table[o].slots) /\ s \in 0 .. Len(shapes)
  BY DEF Layouts, RowOK
<1>2. Held(shapes, s, k) = {}
  BY OwnFinds DEF Finds
<1>3. Added(shapes, s, k, next.nodes, next.at)
  BY <1>1, <1>2, TransitionAdds
<1>4. at = SlotCount(shapes, s)
  <2> HIDE DEF next, s
  <2> QED BY <1>3, SMTT(30) DEF Added
<1>5. shapes' = next.nodes /\ table' = [table EXCEPT ![o] = Layout(next.at, slots, table[o].frozen)]
  BY DEF AddOwn
<1> HIDE DEF s, next
<1>6. RowOK(next.nodes, next.at, slots)
  BY <1>1, <1>3, <1>4, RowAdded
<1>7. TableOK(shapes') /\ Extends(shapes, shapes')
  BY <1>3, <1>5 DEF Added
<1> HIDE DEF slots
<1> QED BY <1>5, <1>6, <1>7, RowMoves

\* Removing one it has.
LEMMA RemoveMoves ==
  ASSUME Layouts, FreezeInv, NEW o \in Obj, NEW k \in Key, Own(o, k) # Root, RemoveOwn(o, k)
  PROVE  Moves
<1> DEFINE s == table[o].shape
           slots == table[o].slots
           hit == Own(o, k)
           r == Removal(shapes, s, slots, hit)
<1>1. TableOK(shapes) /\ RowOK(shapes, s, slots) /\ s \in 0 .. Len(shapes)
  BY DEF Layouts, RowOK
<1>2. hit \in Chain(shapes, s)
  BY OwnFinds DEF Finds
<1>3. DOMAIN slots \subseteq Nat
  BY <1>1 DEF RowOK
<1>4. r.slots = [i \in DOMAIN r.slots |-> r.slots[i]]
  BY DEF Removal
<1>5. shapes' = r.nodes /\ table' = [table EXCEPT ![o] = Layout(r.at, r.slots, table[o].frozen)]
  BY DEF RemoveOwn
<1> HIDE DEF s, slots, hit
<1>6. Without(shapes, s, hit, slots, r)
  BY <1>1, <1>2, <1>3, RemovalWithout
<1> HIDE DEF r
<1>7. RowOK(r.nodes, r.at, r.slots)
  BY <1>1, <1>2, <1>4, <1>6, RowRemoved
<1>8. TableOK(shapes') /\ Extends(shapes, shapes')
  BY <1>5, <1>6 DEF Without
<1> QED BY <1>5, <1>7, <1>8, RowMoves

\* Freezing an object.
LEMMA FreezeMoves ==
  ASSUME Layouts, FreezeInv, NEW o \in Obj, Freeze(o)
  PROVE  Moves
<1>1. CASE UNCHANGED table
  BY <1>1, QuietMoves DEF Freeze
<1>2. CASE table' = [table EXCEPT ![o] = Layout(table[o].shape, table[o].slots, TRUE)]
  <2>1. UNCHANGED shapes
    BY DEF Freeze
  <2>2. RowOK(shapes', table[o].shape, table[o].slots) /\ TableOK(shapes') /\ Extends(shapes, shapes')
    BY <2>1, ExtendsItself DEF Layouts
  <2> QED BY <1>2, <2>2, RowMoves
<1> QED BY <1>1, <1>2 DEF Freeze

\* A cache that is left alone stays exact: its shape means what it meant.
LEMMA CachesStay ==
  ASSUME Layouts, Caches, Moves, UNCHANGED ic
  PROVE  Caches'
<1>1. TableOK(shapes) /\ TableOK(shapes') /\ Extends(shapes, shapes')
  BY DEF Layouts, Moves
<1>2. \A s \in 0 .. Len(shapes) : s \in 0 .. Len(shapes') /\ SameShape(shapes, shapes', s)
  BY <1>1, ShapesStay DEF TableOK
<1>3. Len(shapes) \in Nat /\ Len(shapes') \in Nat /\ Len(shapes) <= Len(shapes')
  BY <1>1 DEF TableOK, Rooted, Extends
<1>4. ASSUME NEW s \in Site, ic[s].shape # Root
      PROVE  LET n == Find(shapes', ic[s].shape, SiteKey[s])
             IN  n # Root /\ shapes'[n].offset = ic[s].offset
  <2> DEFINE c == ic[s].shape
             n == Find(shapes, c, SiteKey[s])
  <2>1. c \in 0 .. Len(shapes)
    BY DEF Caches
  <2>2. n # Root /\ shapes[n].offset = ic[s].offset
    BY <1>4 DEF Caches, CacheExact
  <2>3. Find(shapes', c, SiteKey[s]) = n
    BY <1>2, <2>1 DEF Find, SameShape
  <2>4. n \in Chain(shapes, c)
    BY <1>1, <2>1, <2>2, FindFinds DEF Finds
  <2>5. n \in 1 .. Len(shapes)
    BY <1>1, <2>1, <2>4, ChainsOK DEF ChainOK
  <2>6. shapes'[n] = shapes[n]
    BY <1>1, <2>5 DEF Extends
  <2> QED BY <2>2, <2>3, <2>6
<1>5. CacheExact'
  BY <1>4 DEF CacheExact
<1>6. ic' \in [Site -> [shape : 0 .. Len(shapes'), offset : Nat]]
  BY <1>3 DEF Caches
<1> QED BY <1>5, <1>6 DEF Caches

\* A cache filled on a hit names the slot that was hit.
LEMMA CachesFilled ==
  ASSUME Layouts, Caches, NEW o \in Obj, NEW x \in Access, Own(o, x.key) # Root,
         Fill(x, o), UNCHANGED shapes
  PROVE  Caches'
<1>1. CASE x.site = None
  <2>1. ic' = ic
    BY <1>1 DEF Fill
  <2> QED BY <2>1 DEF Caches, CacheExact
<1>2. CASE x.site # None
  <2>1. PICK s \in Site : x.site = s /\ x.key = SiteKey[s]
    BY <1>2 DEF Access
  <2> DEFINE n == Own(o, x.key)
             c == table[o].shape
  <2>2. ic' = [ic EXCEPT ![s] = [shape |-> c, offset |-> shapes[n].offset]]
    BY <1>2, <2>1 DEF Fill
  <2>3. c \in 0 .. Len(shapes) /\ TableOK(shapes)
    BY DEF Layouts, RowOK
  <2>4. n \in Chain(shapes, c) /\ n = Find(shapes, c, SiteKey[s])
    BY <2>1, OwnFinds DEF Finds, Own
  <2>5. shapes[n].offset \in Nat
    <3>1. n \in 1 .. Len(shapes)
      BY <2>3, <2>4, ChainsOK DEF ChainOK
    <3> QED BY <2>3, <3>1, NodeTyped DEF TableOK
  <2>6. ic' \in [Site -> [shape : 0 .. Len(shapes), offset : Nat]]
    BY <2>2, <2>3, <2>5 DEF Caches
  <2>7. ASSUME NEW r \in Site, ic'[r].shape # Root
        PROVE  LET m == Find(shapes, ic'[r].shape, SiteKey[r])
               IN  m # Root /\ shapes[m].offset = ic'[r].offset
    <3>1. CASE r = s
      <4>1. ic'[s] = [shape |-> c, offset |-> shapes[n].offset]
        BY <2>2 DEF Caches
      <4>2. ic'[s].shape = c /\ ic'[s].offset = shapes[n].offset
        BY <4>1
      <4> QED BY <2>4, <3>1, <4>2
    <3>2. CASE r # s
      <4>1. ic'[r] = ic[r]
        BY <2>2, <3>2 DEF Caches
      <4> QED BY <2>7, <4>1 DEF Caches, CacheExact
    <3> QED BY <3>1, <3>2
  <2>8. CacheExact'
    BY <2>7 DEF CacheExact
  <2> QED BY <2>6, <2>8 DEF Caches
<1> QED BY <1>1, <1>2

----------------------------------------------------------------------------
(* What one step does to the shapes, the layouts and the caches.            *)
Filled ==
  \/ UNCHANGED ic
  \/ \E o \in Obj, x \in Access : Own(o, x.key) # Root /\ Fill(x, o) /\ UNCHANGED shapes

\* An access names a key.
LEMMA AccessKey ==
  ASSUME NEW x \in Access
  PROVE  x.key \in Key
BY ObjectAssumption DEF Access

\* A step leaves the shapes and the tables alone, freezes an object, puts a value
\* in one of its slots, adds a key to it or removes one.
RowStep ==
  \/ UNCHANGED <<shapes, table>>
  \/ \E o \in Obj : Freeze(o)
  \/ \E o \in Obj, v \in Value : UNCHANGED shapes /\ \E at : PutSlot(o, at, v)
  \/ \E o \in Obj, k \in Key, v \in Value : Own(o, k) = Root /\ AddOwn(o, k, v)
  \/ \E o \in Obj, k \in Key : Own(o, k) # Root /\ RemoveOwn(o, k)

\* Writing a slot puts the value there, or calls a setter.
LEMMA WriteRow ==
  ASSUME NEW o \in Obj, NEW at, NEW v \in Value, WriteOwn(o, at, v), UNCHANGED shapes
  PROVE  RowStep
BY DEF WriteOwn, RowStep

\* An entry of a literal, and a definition of an accessor.
LEMMA LiteralRow ==
  ASSUME NEW o \in Obj, NEW k \in Key, NEW v \in Value, LiteralEntry(o, k, v) \/ Define(o, k, v)
  PROVE  RowStep
<1>1. CASE UNCHANGED shapes /\ \E at : WriteOwn(o, at, v)
  BY <1>1, WriteRow
<1>2. CASE UNCHANGED shapes /\ \E at : PutSlot(o, at, v)
  BY <1>2 DEF RowStep
<1>3. CASE Own(o, k) = Root /\ AddOwn(o, k, v)
  BY <1>3 DEF RowStep
<1> QED BY <1>1, <1>2, <1>3 DEF LiteralEntry, Define

\* store_prop on a dynamic object.
LEMMA SetDynRow ==
  ASSUME NEW o \in Obj, NEW x, x.key \in Key, NEW v \in Value, SetDyn(x, o, v)
  PROVE  RowStep
<1>1. CASE UNCHANGED <<shapes, table>>
  BY <1>1 DEF RowStep
<1>2. CASE UNCHANGED shapes /\ \E at : WriteOwn(o, at, v)
  BY <1>2, WriteRow
<1>3. CASE Own(o, x.key) = Root /\ AddOwn(o, x.key, v)
  BY <1>3 DEF RowStep
<1> QED BY <1>1, <1>2, <1>3 DEF SetDyn, AddOrInherit, Refuse

\* store_prop on a fixed object.
LEMMA SetFixedRow ==
  ASSUME NEW o \in Obj, NEW k \in Key, NEW v \in Value, SetFixed(o, k, v)
  PROVE  RowStep
<1>1. CASE UNCHANGED <<shapes, table>>
  BY <1>1 DEF RowStep
<1>2. CASE UNCHANGED shapes /\ \E at : WriteOwn(o, at, v)
  BY <1>2, WriteRow
<1>3. CASE Own(o, k) = Root /\ AddOwn(o, k, v)
  BY <1>3 DEF RowStep
<1> QED BY <1>1, <1>2, <1>3 DEF SetFixed, Refuse

\* jsrt_delete.
LEMMA DeleteRow ==
  ASSUME NEW o \in Obj, NEW k \in Key, Delete(o, k)
  PROVE  RowStep
BY DEF Delete, Refuse, Has, RowStep

\* One lemma for the whole next-state relation.
LEMMA StepRow ==
  ASSUME FreezeInv, [Next]_vars
  PROVE  RowStep /\ Filled
<1>1. CASE UNCHANGED vars
  BY <1>1 DEF vars, Filled, RowStep
<1>2. CASE Next
  <2>1. ASSUME NEW o \in fresh, NEW k \in Key,
               \/ \E v \in Data : LiteralEntry(o, k, v)
               \/ \E c \in Cell : Define(o, k, c)
        PROVE  RowStep /\ Filled
    <3>1. o \in Obj
      BY DEF FreezeInv, Obj
    <3>2. Filled
      BY <2>1 DEF Filled, LiteralEntry, Define
    <3> QED BY <2>1, <3>1, <3>2, LiteralRow DEF Value
  <2>2. CASE \E o \in fresh : Built(o)
    BY <2>2 DEF Built, Filled, RowStep
  <2>3. CASE \E o \in Obj : Usable(o) /\ Freeze(o)
    BY <2>3 DEF Freeze, Filled, RowStep
  <2>4. CASE \E o \in Obj, k \in Key : Delete(o, k)
    BY <2>4, DeleteRow DEF Delete, Filled
  <2>5. CASE \E o \in Obj : Keys(o) \/ \E k \in Key : In(o, k)
    BY <2>5 DEF Keys, In, Filled, RowStep
  <2>6. ASSUME NEW o \in Dyn, NEW x \in Access, GetDyn(x, o)
        PROVE  RowStep /\ Filled
    BY <2>6 DEF GetDyn, Filled, RowStep, Obj
  <2>7. ASSUME NEW o \in Dyn, NEW x \in Access, NEW v \in Data, SetDyn(x, o, v)
        PROVE  RowStep /\ Filled
    <3>1. Filled
      BY <2>7 DEF SetDyn, Filled, Obj
    <3>2. RowStep
      BY <2>7, AccessKey, SetDynRow DEF Obj, Value
    <3> QED BY <3>1, <3>2
  <2>8. CASE \E o \in Fixed, k \in Key : GetFixed(o, k)
    BY <2>8 DEF GetFixed, Filled, RowStep
  <2>9. ASSUME NEW o \in Fixed, NEW k \in Key, NEW v \in Data, SetFixed(o, k, v)
        PROVE  RowStep /\ Filled
    <3>1. Filled
      BY <2>9 DEF SetFixed, Filled
    <3>2. RowStep
      BY <2>9, SetFixedRow DEF Obj, Value
    <3> QED BY <3>1, <3>2
  <2>10. CASE \E o \in Fixed, k \in Declared, v \in Data : SetField(o, k, v)
    BY <2>10 DEF SetField, Filled, RowStep
  <2> QED BY <1>2, <2>1, <2>2, <2>3, <2>4, <2>5, <2>6, <2>7, <2>8, <2>9, <2>10 DEF Next
<1> QED BY <1>1, <1>2

\* Every step keeps the layouts sound.
LEMMA StepMoves ==
  ASSUME Layouts, FreezeInv, [Next]_vars
  PROVE  Moves
<1>1. RowStep
  BY StepRow
<1> QED BY <1>1, QuietMoves, FreezeMoves, PutMoves, AddMoves, RemoveMoves DEF RowStep

\* Every step keeps the overflow tables' owners, the frozen ones, the literals and
\* the declared fields what the type invariant calls them.
LEMMA StepMarks ==
  ASSUME Marks, [Next]_vars
  PROVE  Marks'
<1>1. CASE UNCHANGED <<grown, locked, fields>> /\ fresh' \subseteq fresh
  BY <1>1 DEF Marks
<1>2. CASE \E o \in Obj : Freeze(o)
  BY <1>2 DEF Freeze, Marks
<1>3. ASSUME NEW o \in Fixed, NEW k \in Key, NEW v \in Data, SetFixed(o, k, v) \/ SetField(o, k, v),
             k \in Declared \/ UNCHANGED fields
      PROVE  Marks'
  <2>1. grown' \subseteq Fixed /\ locked' = locked /\ fresh' = fresh
    BY <1>3 DEF SetFixed, SetField, Marks
  <2>2. fields' = fields \/ fields' = [fields EXCEPT ![o][k] = v]
    <3>1. CASE SetFixed(o, k, v)
      BY <3>1 DEF SetFixed
    <3>2. CASE SetField(o, k, v)
      BY <3>2 DEF SetField
    <3> QED BY <1>3, <3>1, <3>2
  <2>3. fields' \in [Fixed -> [Declared -> Data]]
    <3>1. CASE fields' = fields
      BY <3>1 DEF Marks
    <3>2. CASE k \in Declared /\ fields' = [fields EXCEPT ![o][k] = v]
      BY <3>2 DEF Marks
    <3> QED BY <1>3, <2>2, <3>1, <3>2
  <2> QED BY <2>1, <2>3 DEF Marks
<1>4. CASE Next
  <2>1. CASE \E o \in fresh, k \in Key :
               \/ \E v \in Data : LiteralEntry(o, k, v)
               \/ \E c \in Cell : Define(o, k, c)
    BY <1>1, <2>1 DEF LiteralEntry, Define
  <2>2. CASE \E o \in fresh : Built(o)
    BY <1>1, <2>2 DEF Built
  <2>3. CASE \E o \in Obj : Usable(o) /\ Freeze(o)
    BY <1>2, <2>3
  <2>4. CASE \E o \in Obj, k \in Key : Delete(o, k)
    BY <1>1, <2>4 DEF Delete
  <2>5. CASE \E o \in Obj : Keys(o) \/ \E k \in Key : In(o, k)
    BY <1>1, <2>5 DEF Keys, In
  <2>6. CASE \E o \in Dyn, x \in Access : GetDyn(x, o)
    BY <1>1, <2>6 DEF GetDyn
  <2>7. CASE \E o \in Dyn, x \in Access, v \in Data : SetDyn(x, o, v)
    BY <1>1, <2>7 DEF SetDyn
  <2>8. CASE \E o \in Fixed, k \in Key : GetFixed(o, k)
    BY <1>1, <2>8 DEF GetFixed
  <2>9. CASE \E o \in Fixed, k \in Key, v \in Data : SetFixed(o, k, v)
    <3>1. PICK o \in Fixed, k \in Key, v \in Data : SetFixed(o, k, v)
      BY <2>9
    <3>2. k \in Declared \/ UNCHANGED fields
      BY <3>1 DEF SetFixed
    <3> QED BY <1>3, <3>1, <3>2
  <2>10. CASE \E o \in Fixed, k \in Declared, v \in Data : SetField(o, k, v)
    BY <1>3, <2>10, ObjectAssumption
  <2> QED BY <1>4, <2>1, <2>2, <2>3, <2>4, <2>5, <2>6, <2>7, <2>8, <2>9, <2>10 DEF Next
<1>5. CASE UNCHANGED vars
  BY <1>1, <1>5 DEF vars
<1> QED BY <1>4, <1>5

----------------------------------------------------------------------------
\* The invariant is inductive.
LEMMA ObjectStep ==
  ASSUME ObjectInv, [Next]_vars
  PROVE  ObjectInv'
<1>1. Layouts /\ Caches /\ Marks /\ FreezeInv
  BY ObjectParts
<1>2. Moves /\ Filled
  BY <1>1, StepMoves, StepRow
<1>3. Layouts'
  BY <1>2 DEF Moves
<1>4. Caches'
  BY <1>1, <1>2, CachesStay, CachesFilled DEF Filled
<1>5. Marks'
  BY <1>1, StepMarks
<1>6. FreezeInv'
  BY <1>1, StepSafe DEF Safe
<1>7. (Layouts /\ Caches /\ Marks /\ FreezeInv)'
  BY <1>3, <1>4, <1>5, <1>6
<1> QED BY <1>7, ObjectParts, PTL

\* Nothing in the invariant is about what the last operation answered.
LEMMA ObjectStays ==
  ASSUME ObjectInv, UNCHANGED <<shapes, ic, table, grown, fields, locked, fresh>>
  PROVE  ObjectInv'
<1>1. Layouts /\ Caches /\ Marks /\ FreezeInv
  BY ObjectParts
<1>2. (Layouts /\ Caches /\ Marks /\ FreezeInv)'
  BY <1>1 DEF Layouts, Caches, CacheExact, Marks, FreezeInv, Layout
<1> QED BY <1>2, ObjectParts, PTL

\* It holds of a program that has not begun.
LEMMA ObjectInit ==
  ASSUME Init
  PROVE  ObjectInv
<1>1. TableOK(shapes) /\ Len(shapes) = 0
  BY DEF Init, TableOK, Rooted
<1>2. ASSUME NEW o \in Obj
      PROVE  /\ table[o] = Layout(Root, <<>>, FALSE)
             /\ table[o].shape = Root /\ table[o].slots = <<>> /\ table[o].frozen = FALSE
  BY DEF Init, Layout
<1>3. DOMAIN <<>> = 0 .. 0 - 1
  OBVIOUS
<1>4. Capacity(<<>>) = 0
  BY <1>3, BlockCapacity
<1>5. RowOK(shapes, Root, <<>>)
  <2>1. <<>> \in [0 .. 0 - 1 -> Value \cup {Unset}]
    BY <1>3
  <2>2. SlotCount(shapes, Root) = 0
    BY DEF SlotCount
  <2> QED BY <1>1, <1>4, <2>1, <2>2 DEF RowOK, Root
<1>6. Layouts
  BY <1>1, <1>2, <1>5 DEF Layouts
<1>7. Caches
  BY <1>1 DEF Init, Caches, CacheExact, Root
<1>8. Marks
  BY DEF Init, Marks
<1>9. FreezeInv
  <2>1. DOMAIN table = Obj /\ fresh \subseteq Dyn /\ locked = {}
    BY DEF Init
  <2> QED BY <1>2, <2>1 DEF FreezeInv, Obj
<1> QED BY <1>6, <1>7, <1>8, <1>9, ObjectParts

\* In every reachable state the shape table is one that only additions and
\* removals have built, every object's shape names slots that are inside its block
\* and hold stored values, every filled cache names the slot of its site's key, and
\* the marks of freezing agree.
THEOREM ObjectInvariance == Spec => []ObjectInv
<1>1. Init => ObjectInv
  BY ObjectInit
<1>2. ObjectInv /\ [Next]_vars => ObjectInv'
  BY ObjectStep
<1> QED BY <1>1, <1>2, PTL DEF Spec

\* Comparing the shape pointer is enough to trust an inline cache's offset: in
\* every reachable state the slot a cache names is its key's slot in the cached
\* shape, whatever shapes have been added since (jsrt_get_prop, store_prop).
THEOREM CachesExact == Spec => []CacheExact
<1>1. ObjectInv => CacheExact
  BY DEF ObjectInv
<1> QED BY <1>1, ObjectInvariance, PTL

\* A removal's replay and compaction and a reallocation included, every slot an
\* object's shape calls live is inside its block and holds a stored value
\* (jsrt_shape_reserve, jsrt_shape_remove).
THEOREM SlotsKept == Spec => []SlotsLive
<1>1. ObjectInv => SlotsLive
  BY DEF ObjectInv
<1> QED BY <1>1, ObjectInvariance, PTL

\* Two ranges from 1 are equal only with equal ends.
LEMMA SameRange ==
  ASSUME NEW a \in Nat, NEW b \in Nat, 1 .. a = 1 .. b
  PROVE  a = b
<1>1. CASE a < b
  <2>1. b \in 1 .. b /\ b \notin 1 .. a
    BY <1>1
  <2> QED BY <2>1
<1>2. CASE b < a
  <2>1. a \in 1 .. a /\ a \notin 1 .. b
    BY <1>2
  <2> QED BY <2>1
<1> QED BY <1>1, <1>2

\* The history of a shape has the key of every node of its chain, by its slot.
LEMMA Histories ==
  ASSUME TableOK(shapes), NEW s \in 0 .. Len(shapes)
  PROVE  /\ SlotCount(shapes, s) \in Nat
         /\ KeyHistory(s) = [i \in 1 .. SlotCount(shapes, s) |-> KeyHistory(s)[i]]
         /\ DOMAIN KeyHistory(s) = 1 .. SlotCount(shapes, s)
         /\ \A n \in Chain(shapes, s) : /\ shapes[n].offset + 1 \in 1 .. SlotCount(shapes, s)
                                        /\ KeyHistory(s)[shapes[n].offset + 1] = shapes[n].key
         /\ \A i \in 1 .. SlotCount(shapes, s) : \E n \in Chain(shapes, s) : shapes[n].offset + 1 = i
<1> DEFINE c == SlotCount(shapes, s)
           order == SlotOrder(shapes, s)
           h == [i \in DOMAIN order |-> shapes[order[i]].key]
<1>1. KeyHistory(s) = h
  BY DEF KeyHistory
<1>2. /\ DOMAIN order = 1 .. c /\ c \in Nat
      /\ \A i \in 1 .. c : order[i] \in Chain(shapes, s) /\ shapes[order[i]].offset = i - 1
  BY SlotNodes
<1>3. ChainOK(shapes, s)
  BY ChainsOK
<1>4. \A n \in Chain(shapes, s) : shapes[n].offset \in 0 .. c - 1
  BY <1>3 DEF ChainOK
<1>5. \A m, n \in Chain(shapes, s) : shapes[m].offset = shapes[n].offset => m = n
  BY <1>3 DEF ChainOK
<1> HIDE DEF c, order
<1>6. ASSUME NEW n \in Chain(shapes, s)
      PROVE  shapes[n].offset + 1 \in 1 .. c /\ h[shapes[n].offset + 1] = shapes[n].key
  <2> DEFINE i == shapes[n].offset + 1
  <2>1. i \in 1 .. c /\ i - 1 = shapes[n].offset
    BY <1>2, <1>4
  <2> HIDE DEF i
  <2>2. order[i] = n
    BY <1>2, <1>5, <2>1
  <2>3. h[i] = shapes[n].key
    BY <1>2, <2>1, <2>2
  <2> QED BY <2>1, <2>3 DEF i
<1>7. ASSUME NEW i \in 1 .. c PROVE \E n \in Chain(shapes, s) : shapes[n].offset + 1 = i
  <2>1. order[i] \in Chain(shapes, s) /\ shapes[order[i]].offset + 1 = i
    BY <1>2
  <2> QED BY <2>1
<1>8. DOMAIN h = 1 .. c /\ h = [i \in 1 .. c |-> h[i]]
  BY <1>2
<1> HIDE DEF h
<1> QED BY <1>1, <1>2, <1>6, <1>7, <1>8 DEF c

\* The parent of a node has its history but the last key.
LEMMA ParentHistory ==
  ASSUME TableOK(shapes), NEW n \in 1 .. Len(shapes)
  PROVE  /\ shapes[n].parent \in 0 .. Len(shapes)
         /\ SlotCount(shapes, n) = SlotCount(shapes, shapes[n].parent) + 1
         /\ KeyHistory(n)[SlotCount(shapes, n)] = shapes[n].key
         /\ \A i \in 1 .. SlotCount(shapes, shapes[n].parent) :
              KeyHistory(shapes[n].parent)[i] = KeyHistory(n)[i]
<1> DEFINE p == shapes[n].parent
           c == SlotCount(shapes, p)
<1>1. p \in 0 .. Len(shapes) /\ n \in 0 .. Len(shapes) /\ Rooted(shapes)
  BY DEF TableOK, Rooted
<1>2. shapes[n].offset = c /\ SlotCount(shapes, n) = c + 1
  BY NodeTyped DEF TableOK
<1>3. Chain(shapes, n) = {n} \cup Chain(shapes, p)
  BY <1>1, ChainSteps
<1>4. KeyHistory(n)[c + 1] = shapes[n].key
  BY <1>1, <1>2, <1>3, Histories
<1>5. ASSUME NEW i \in 1 .. c PROVE KeyHistory(p)[i] = KeyHistory(n)[i]
  <2>1. PICK m \in Chain(shapes, p) : shapes[m].offset + 1 = i
    BY <1>1, <1>5, Histories
  <2>2. KeyHistory(p)[i] = shapes[m].key
    BY <1>1, <2>1, Histories
  <2>3. KeyHistory(n)[i] = shapes[m].key
    BY <1>1, <1>3, <2>1, Histories
  <2> QED BY <2>2, <2>3
<1> QED BY <1>1, <1>2, <1>4, <1>5

\* Two nodes with one history are one node.
LEMMA HistoriesDiffer ==
  ASSUME TableOK(shapes)
  PROVE  \A m, n \in 0 .. Len(shapes) : KeyHistory(m) = KeyHistory(n) => m = n
<1> DEFINE S == {m \in 0 .. Len(shapes) :
                   \A n \in 0 .. Len(shapes) : KeyHistory(m) = KeyHistory(n) => m = n}
<1>0. Len(shapes) \in Nat /\ Rooted(shapes)
  BY DEF TableOK, Rooted
<1>1. \A n \in 1 .. Len(shapes) : SlotCount(shapes, n) # 0 /\ SlotCount(shapes, n) \in Nat
  BY <1>0, NodeTyped
<1>2. 0 \in S
  <2>1. ASSUME NEW n \in 0 .. Len(shapes), KeyHistory(0) = KeyHistory(n) PROVE n = 0
    <3>1. DOMAIN KeyHistory(0) = 1 .. SlotCount(shapes, 0) /\ 0 \in 0 .. Len(shapes)
      BY <1>0, Histories
    <3>2. DOMAIN KeyHistory(n) = 1 .. SlotCount(shapes, n) /\ SlotCount(shapes, n) \in Nat
      BY Histories
    <3>3. SlotCount(shapes, 0) = 0
      BY DEF SlotCount, Root
    <3>4. 1 .. 0 = 1 .. SlotCount(shapes, n)
      BY <2>1, <3>1, <3>2, <3>3
    <3>5. SlotCount(shapes, n) = 0
      BY <3>2, <3>4, SameRange
    <3> QED BY <1>1, <3>5
  <2> QED BY <1>0, <2>1
<1>3. ASSUME NEW m \in 1 .. Len(shapes), shapes[m].parent \in S PROVE m \in S
  <2>1. ASSUME NEW n \in 0 .. Len(shapes), KeyHistory(m) = KeyHistory(n) PROVE m = n
    <3> DEFINE p == shapes[m].parent
               q == shapes[n].parent
               c == SlotCount(shapes, p)
    <3>1. /\ DOMAIN KeyHistory(m) = 1 .. SlotCount(shapes, m) /\ SlotCount(shapes, m) \in Nat
          /\ DOMAIN KeyHistory(n) = 1 .. SlotCount(shapes, n) /\ SlotCount(shapes, n) \in Nat
      BY <1>0, Histories
    <3>2. SlotCount(shapes, m) = SlotCount(shapes, n)
      BY <2>1, <3>1, SameRange
    <3>3. n \in 1 .. Len(shapes)
      <4>1. SlotCount(shapes, n) # 0
        BY <1>1, <3>2
      <4> QED BY <1>0, <4>1 DEF SlotCount, Root
    <3>4. /\ p \in 0 .. Len(shapes) /\ SlotCount(shapes, m) = c + 1
          /\ KeyHistory(m)[c + 1] = shapes[m].key
          /\ \A i \in 1 .. c : KeyHistory(p)[i] = KeyHistory(m)[i]
      BY ParentHistory
    <3>5. /\ q \in 0 .. Len(shapes) /\ SlotCount(shapes, n) = SlotCount(shapes, q) + 1
          /\ KeyHistory(n)[SlotCount(shapes, n)] = shapes[n].key
          /\ \A i \in 1 .. SlotCount(shapes, q) : KeyHistory(q)[i] = KeyHistory(n)[i]
      BY <3>3, ParentHistory
    <3>6. c \in Nat /\ SlotCount(shapes, q) \in Nat
      BY <3>4, <3>5, Histories
    <3>7. SlotCount(shapes, q) = c
      <4>1. SlotCount(shapes, m) = c + 1 /\ SlotCount(shapes, m) = SlotCount(shapes, q) + 1
        BY <3>2, <3>4, <3>5
      <4> HIDE DEF c, q
      <4> QED BY <3>6, <4>1
    <3>8. KeyHistory(p) = [i \in 1 .. c |-> KeyHistory(p)[i]]
      BY <3>4, Histories
    <3>9. KeyHistory(q) = [i \in 1 .. c |-> KeyHistory(q)[i]]
      BY <3>5, <3>7, Histories
    <3> HIDE DEF p, q, c
    <3>10. KeyHistory(p) = KeyHistory(q)
      <4>1. \A i \in 1 .. c : KeyHistory(p)[i] = KeyHistory(q)[i]
        BY <2>1, <3>4, <3>5, <3>7
      <4> QED BY <3>8, <3>9, <4>1
    <3>11. p = q
      BY <1>3, <3>5, <3>10 DEF p
    <3>12. shapes[m].key = shapes[n].key
      BY <2>1, <3>2, <3>4, <3>5
    <3> QED BY <3>3, <3>11, <3>12 DEF TableOK, p, q
  <2> QED BY <1>0, <2>1
<1> HIDE DEF S
<1>4. \A n \in 1 .. Len(shapes) : shapes[n].parent \in S => n \in S
  BY <1>3
<1>5. \A n \in 0 .. Len(shapes) : n \in S
  BY <1>0, <1>2, <1>4, ChainInduction
<1> QED BY <1>5 DEF S

\* Objects that gained the same keys in the same order share one shape, and no
\* shape has a key twice, whether they got there by additions or by a removal that
\* replayed them (jsrt_shape_transition, jsrt_shape_remove).
THEOREM HistoriesShared == Spec => []OneShapePerHistory
<1>1. ASSUME ObjectInv PROVE OneShapePerHistory
  <2>1. TableOK(shapes) /\ DOMAIN shapes = 1 .. Len(shapes) /\ Len(shapes) \in Nat
    <3>1. TableOK(shapes) /\ shapes \in Seq(Node)
      BY <1>1 DEF ObjectInv, TypeOK
    <3> QED BY <3>1
  <2>2. ASSUME NEW n \in DOMAIN shapes, NEW i \in DOMAIN KeyHistory(n), NEW j \in DOMAIN KeyHistory(n),
               KeyHistory(n)[i] = KeyHistory(n)[j]
        PROVE  i = j
    <3>1. n \in 0 .. Len(shapes)
      BY <2>1
    <3>2. i \in 1 .. SlotCount(shapes, n) /\ j \in 1 .. SlotCount(shapes, n)
      BY <2>1, <3>1, Histories
    <3>3. PICK l \in Chain(shapes, n) : shapes[l].offset + 1 = i
      BY <2>1, <3>1, <3>2, Histories
    <3>4. PICK m \in Chain(shapes, n) : shapes[m].offset + 1 = j
      BY <2>1, <3>1, <3>2, Histories
    <3>5. shapes[l].key = shapes[m].key
      BY <2>1, <2>2, <3>1, <3>3, <3>4, Histories
    <3>6. l = m
      BY <2>1, <3>1, <3>3, <3>4, <3>5, ChainsOK DEF ChainOK
    <3> QED BY <3>3, <3>4, <3>6
  <2>3. \A m, n \in DOMAIN shapes : KeyHistory(m) = KeyHistory(n) => m = n
    <3>1. \A n \in DOMAIN shapes : n \in 0 .. Len(shapes)
      BY <2>1
    <3> QED BY <2>1, <3>1, HistoriesDiffer
  <2> QED BY <2>2, <2>3 DEF OneShapePerHistory
<1> QED BY <1>1, ObjectInvariance, PTL

----------------------------------------------------------------------------
(* The walk up the prototypes, from any object to the nearest one of a set. *)
Lineage == Dyn \cup {None}

Nearest(f, owns) ==
  f = [q \in Lineage |-> IF q = None THEN None ELSE IF q \in owns THEN q ELSE f[Proto[q]]]

\* What must be above one that is not in the set is above its prototype.
Closed(T, owns) ==
  /\ <<None, None>> \in T
  /\ \A q \in Dyn : q \in owns => <<q, q>> \in T
  /\ \A q \in Dyn, h \in Lineage : q \notin owns /\ <<Proto[q], h>> \in T => <<q, h>> \in T

Leads(q, h, owns) == \A T \in SUBSET (Lineage \X Lineage) : Closed(T, owns) => <<q, h>> \in T

\* None is no object, and every prototype is an object or None.
LEMMA LineageFacts ==
  /\ None \notin Dyn /\ None \in Lineage
  /\ \A q \in Dyn : q \in Lineage /\ Proto[q] \in Lineage
BY ObjectAssumption DEF Lineage

\* A property of an object that it has whenever its prototype has it.
LEMMA ProtoInduction ==
  ASSUME NEW S, None \in S, \A q \in Dyn : Proto[q] \in S => q \in S
  PROVE  \A q \in Lineage : q \in S
<1> DEFINE T == {q \in Dyn : q \notin S}
<1>1. CASE T # {}
  <2>1. PICK o \in T : Proto[o] \notin T
    BY <1>1, ObjectAssumption
  <2>2. Proto[o] \in S
    BY <2>1, LineageFacts DEF Lineage
  <2> QED BY <2>1, <2>2
<1>2. CASE T = {}
  BY <1>2 DEF Lineage
<1> QED BY <1>1, <1>2

\* What the rules give.
LEMMA LeadsUp ==
  ASSUME NEW owns
  PROVE  /\ Leads(None, None, owns)
         /\ \A q \in Dyn : q \in owns => Leads(q, q, owns)
         /\ \A q \in Dyn, h \in Lineage : q \notin owns /\ Leads(Proto[q], h, owns) => Leads(q, h, owns)
BY DEF Leads, Closed

\* Nothing else leads anywhere.
LEMMA LeadsOnly ==
  ASSUME NEW owns
  PROVE  \A q, h \in Lineage : Leads(q, h, owns) =>
           \/ q = None /\ h = None
           \/ q \in Dyn /\ q \in owns /\ h = q
           \/ q \in Dyn /\ q \notin owns /\ Leads(Proto[q], h, owns)
<1> DEFINE T == {p \in Lineage \X Lineage :
                   \/ p[1] = None /\ p[2] = None
                   \/ p[1] \in Dyn /\ p[1] \in owns /\ p[2] = p[1]
                   \/ p[1] \in Dyn /\ p[1] \notin owns /\ Leads(Proto[p[1]], p[2], owns)}
<1>1. T \in SUBSET (Lineage \X Lineage)
  OBVIOUS
<1>2. <<None, None>> \in T
  BY LineageFacts
<1>3. ASSUME NEW q \in Dyn, q \in owns PROVE <<q, q>> \in T
  BY <1>3, LineageFacts
<1>4. ASSUME NEW q \in Dyn, NEW h \in Lineage, q \notin owns, <<Proto[q], h>> \in T
      PROVE  <<q, h>> \in T
  <2> DEFINE p == Proto[q]
  <2>0. p \in Lineage /\ q \in Lineage
    BY LineageFacts
  <2>1. \/ p = None /\ h = None
        \/ p \in Dyn /\ p \in owns /\ h = p
        \/ p \in Dyn /\ p \notin owns /\ Leads(Proto[p], h, owns)
    BY <1>4
  <2> HIDE DEF p
  <2>2. Leads(p, h, owns)
    BY <2>1, LeadsUp
  <2> QED BY <1>4, <2>0, <2>2 DEF p
<1>5. Closed(T, owns)
  <2> HIDE DEF T
  <2> QED BY <1>2, <1>3, <1>4 DEF Closed
<1>6. ASSUME NEW q \in Lineage, NEW h \in Lineage, Leads(q, h, owns) PROVE <<q, h>> \in T
  <2> HIDE DEF T
  <2> QED BY <1>1, <1>5, <1>6 DEF Leads
<1>7. ASSUME NEW q \in Lineage, NEW h \in Lineage, <<q, h>> \in T
      PROVE  \/ q = None /\ h = None
             \/ q \in Dyn /\ q \in owns /\ h = q
             \/ q \in Dyn /\ q \notin owns /\ Leads(Proto[q], h, owns)
  BY <1>7
<1> HIDE DEF T
<1> QED BY <1>6, <1>7

\* Every object leads to exactly one place, since prototypes have no cycles.
LEMMA LeadsOnce ==
  ASSUME NEW owns
  PROVE  \A q \in Lineage : /\ \E h \in Lineage : Leads(q, h, owns)
                            /\ \A g, h \in Lineage : Leads(q, g, owns) /\ Leads(q, h, owns) => g = h
<1> DEFINE S == {q \in Lineage : /\ \E h \in Lineage : Leads(q, h, owns)
                                 /\ \A g, h \in Lineage :
                                      Leads(q, g, owns) /\ Leads(q, h, owns) => g = h}
<1>1. None \in S
  <2>1. \A h \in Lineage : Leads(None, h, owns) => h = None
    BY LeadsOnly, LineageFacts
  <2> QED BY <2>1, LeadsUp, LineageFacts
<1>2. ASSUME NEW q \in Dyn, Proto[q] \in S PROVE q \in S
  <2>1. CASE q \in owns
    <3>1. \A h \in Lineage : Leads(q, h, owns) => h = q
      BY <2>1, LeadsOnly, LineageFacts
    <3> QED BY <2>1, <3>1, LeadsUp, LineageFacts
  <2>2. CASE q \notin owns
    <3>1. \A h \in Lineage : Leads(q, h, owns) => Leads(Proto[q], h, owns)
      BY <2>2, LeadsOnly, LineageFacts
    <3>2. PICK h \in Lineage : Leads(Proto[q], h, owns)
      BY <1>2
    <3>3. Leads(q, h, owns)
      BY <2>2, <3>2, LeadsUp
    <3>4. \A g, i \in Lineage : Leads(q, g, owns) /\ Leads(q, i, owns) => g = i
      BY <1>2, <3>1
    <3> QED BY <3>3, <3>4, LineageFacts
  <2> QED BY <2>1, <2>2
<1> HIDE DEF S
<1>3. \A q \in Lineage : q \in S
  BY <1>1, <1>2, ProtoInduction
<1> QED BY <1>3 DEF S

\* The recursive walk up the prototypes defines a function.
LEMMA NearestExists ==
  ASSUME NEW owns
  PROVE  \E f : Nearest(f, owns)
<1> DEFINE f == [q \in Lineage |-> CHOOSE h \in Lineage : Leads(q, h, owns)]
<1>1. \A q \in Lineage : f[q] \in Lineage /\ Leads(q, f[q], owns)
  BY LeadsOnce
<1>2. \A q \in Lineage, h \in Lineage : Leads(q, h, owns) => h = f[q]
  BY <1>1, LeadsOnce
<1>3. f = [q \in Lineage |-> f[q]]
  OBVIOUS
<1> HIDE DEF f
<1>4. ASSUME NEW q \in Lineage
      PROVE  f[q] = IF q = None THEN None ELSE IF q \in owns THEN q ELSE f[Proto[q]]
  <2>1. CASE q = None
    BY <1>2, <2>1, LeadsUp, LineageFacts
  <2>2. CASE q \in Dyn /\ q \in owns
    BY <1>2, <2>2, LeadsUp, LineageFacts
  <2>3. CASE q \in Dyn /\ q \notin owns
    <3>1. Proto[q] \in Lineage /\ q # None
      BY <2>3, LineageFacts
    <3>2. Leads(q, f[Proto[q]], owns)
      BY <1>1, <2>3, <3>1, LeadsUp
    <3> QED BY <1>1, <1>2, <2>3, <3>1, <3>2
  <2> QED BY <2>1, <2>2, <2>3 DEF Lineage
<1>5. Nearest(f, owns)
  <2> DEFINE b(q) == IF q = None THEN None ELSE IF q \in owns THEN q ELSE f[Proto[q]]
  <2>1. \A q \in Lineage : f[q] = b(q)
    BY <1>4
  <2> HIDE DEF b
  <2>2. f = [q \in Lineage |-> b(q)]
    BY <1>3, <2>1
  <2> QED BY <2>2 DEF Nearest, b
<1> QED BY <1>5

----------------------------------------------------------------------------
(* The properties a shape and its slots stand for.                          *)
EntriesIn(t, s, slots) ==
  LET order == SlotOrder(t, s)
  IN  [i \in DOMAIN order |-> [key |-> t[order[i]].key, value |-> slots[i - 1]]]

Entry(t, slots, n) == [key |-> t[n].key, value |-> slots[t[n].offset]]

\* e has c entries, that of each node of the chain at its slot.
EntriesAre(t, s, slots, e) ==
  /\ e = [i \in 1 .. SlotCount(t, s) |-> e[i]]
  /\ \A n \in Chain(t, s) : e[t[n].offset + 1] = Entry(t, slots, n)

\* The nodes of a chain and the places 1 to c stand for each other.
LEMMA Places ==
  ASSUME NEW t, TableOK(t), NEW s \in 0 .. Len(t)
  PROVE  /\ SlotCount(t, s) \in Nat
         /\ \A n \in Chain(t, s) : /\ t[n].offset \in 0 .. SlotCount(t, s) - 1
                                   /\ t[n].offset + 1 \in 1 .. SlotCount(t, s)
         /\ \A i \in 1 .. SlotCount(t, s) : \E n \in Chain(t, s) : t[n].offset + 1 = i
         /\ \A m, n \in Chain(t, s) : t[m].offset = t[n].offset \/ t[m].key = t[n].key => m = n
<1> DEFINE c == SlotCount(t, s)
<1>1. /\ c \in Nat
      /\ \A n \in Chain(t, s) : t[n].offset \in 0 .. c - 1
      /\ \A i \in 0 .. c - 1 : \E n \in Chain(t, s) : t[n].offset = i
      /\ \A m, n \in Chain(t, s) : t[m].offset = t[n].offset \/ t[m].key = t[n].key => m = n
  BY ChainsOK DEF ChainOK
<1> HIDE DEF c
<1>2. \A n \in Chain(t, s) : t[n].offset + 1 \in 1 .. c
  BY <1>1
<1>3. ASSUME NEW i \in 1 .. c PROVE \E n \in Chain(t, s) : t[n].offset + 1 = i
  <2>1. i - 1 \in 0 .. c - 1
    BY <1>1
  <2>2. PICK n \in Chain(t, s) : t[n].offset = i - 1
    BY <1>1, <2>1
  <2>3. t[n].offset + 1 = i
    BY <2>2
  <2> QED BY <2>3
<1> QED BY <1>1, <1>2, <1>3 DEF c

\* The entries of a shape are that list.
LEMMA EntriesFound ==
  ASSUME NEW t, TableOK(t), NEW s \in 0 .. Len(t), NEW slots
  PROVE  EntriesAre(t, s, slots, EntriesIn(t, s, slots))
<1> DEFINE c == SlotCount(t, s)
           order == SlotOrder(t, s)
           e == [i \in DOMAIN order |-> [key |-> t[order[i]].key, value |-> slots[i - 1]]]
<1>1. /\ DOMAIN order = 1 .. c /\ c \in Nat
      /\ \A i \in 1 .. c : order[i] \in Chain(t, s) /\ t[order[i]].offset = i - 1
  BY SlotNodes
<1>2. ASSUME NEW n \in Chain(t, s) PROVE e[t[n].offset + 1] = Entry(t, slots, n)
  <2> DEFINE i == t[n].offset + 1
  <2>1. i \in 1 .. c /\ i - 1 = t[n].offset
    BY Places
  <2> HIDE DEF c, order, i
  <2>2. order[i] = n
    BY <1>1, <2>1, Places
  <2>3. e[i] = [key |-> t[order[i]].key, value |-> slots[i - 1]]
    BY <1>1, <2>1
  <2> QED BY <2>1, <2>2, <2>3 DEF Entry, i
<1>3. e = [i \in 1 .. c |-> e[i]]
  BY <1>1
<1>4. EntriesIn(t, s, slots) = e
  BY DEF EntriesIn
<1> HIDE DEF e, c
<1> QED BY <1>2, <1>3, <1>4 DEF EntriesAre, c

\* There is only one such list.
LEMMA EntriesOnce ==
  ASSUME NEW t, TableOK(t), NEW s \in 0 .. Len(t), NEW slots, NEW e, EntriesAre(t, s, slots, e)
  PROVE  EntriesIn(t, s, slots) = e
<1> DEFINE c == SlotCount(t, s)
           d == EntriesIn(t, s, slots)
<1>1. EntriesAre(t, s, slots, d)
  BY EntriesFound
<1>2. ASSUME NEW i \in 1 .. c PROVE d[i] = e[i]
  <2>1. PICK n \in Chain(t, s) : t[n].offset + 1 = i
    BY Places
  <2> QED BY <1>1, <2>1 DEF EntriesAre
<1>3. d = [i \in 1 .. c |-> d[i]] /\ e = [i \in 1 .. c |-> e[i]]
  BY <1>1 DEF EntriesAre
<1> HIDE DEF d, c
<1>4. d = e
  BY <1>2, <1>3
<1> QED BY <1>4 DEF d

\* The entry list of a shape, and where its keys are.
LEMMA EntriesShape ==
  ASSUME NEW t, TableOK(t), NEW s \in 0 .. Len(t), NEW slots
  PROVE  /\ DOMAIN EntriesIn(t, s, slots) = 1 .. SlotCount(t, s)
         /\ Len(EntriesIn(t, s, slots)) = SlotCount(t, s)
         /\ EntriesIn(t, s, slots) = [i \in 1 .. SlotCount(t, s) |-> EntriesIn(t, s, slots)[i]]
         /\ \A n \in Chain(t, s) : EntriesIn(t, s, slots)[t[n].offset + 1] = Entry(t, slots, n)
<1> DEFINE c == SlotCount(t, s)
           e == EntriesIn(t, s, slots)
<1>1. EntriesAre(t, s, slots, e)
  BY EntriesFound
<1>2. e = [i \in 1 .. c |-> e[i]] /\ \A n \in Chain(t, s) : e[t[n].offset + 1] = Entry(t, slots, n)
  BY <1>1 DEF EntriesAre
<1>3. c \in Nat
  BY Places
<1> HIDE DEF c, e
<1>4. DOMAIN e = 1 .. c
  BY <1>2
<1>5. Len(e) = c
  BY <1>3, <1>4
<1> QED BY <1>2, <1>4, <1>5 DEF e, c

\* A table that grows leaves the entries as they were.
LEMMA EntriesStay ==
  ASSUME NEW t, TableOK(t), NEW t2, TableOK(t2), Extends(t, t2), NEW s \in 0 .. Len(t), NEW slots
  PROVE  EntriesIn(t2, s, slots) = EntriesIn(t, s, slots)
<1> DEFINE e == EntriesIn(t, s, slots)
<1>1. s \in 0 .. Len(t2) /\ SameShape(t, t2, s)
  BY ShapesStay DEF TableOK
<1>2. Chain(t2, s) = Chain(t, s) /\ SlotCount(t2, s) = SlotCount(t, s)
  BY <1>1 DEF SameShape
<1>3. \A n \in Chain(t, s) : t2[n] = t[n]
  BY ChainsOK DEF ChainOK, Extends
<1>4. EntriesAre(t, s, slots, e)
  BY EntriesFound
<1>5. EntriesAre(t2, s, slots, e)
  BY <1>2, <1>3, <1>4 DEF EntriesAre, Entry
<1> QED BY <1>1, <1>5, EntriesOnce

\* An entry list with another value for a key, and without the entry at a place.
Stored(e, k, v) ==
  [i \in DOMAIN e |-> IF e[i].key = k THEN [key |-> k, value |-> v] ELSE e[i]]
Dropped(e, at) == [j \in 1 .. Len(e) - 1 |-> e[IF j < at THEN j ELSE j + 1]]

\* A block with another value in the slot of a key.
SlotPut(t, s, slots, hit, k, v, new) ==
  /\ hit \in Chain(t, s) /\ t[hit].key = k
  /\ DOMAIN new = DOMAIN slots /\ new[t[hit].offset] = v
  /\ \A i \in DOMAIN slots : i # t[hit].offset => new[i] = slots[i]

\* Writing the slot of a key changes its value.
LEMMA EntriesPut ==
  ASSUME NEW t, TableOK(t), NEW s \in 0 .. Len(t), NEW slots, RowOK(t, s, slots),
         NEW hit, NEW k, NEW v, NEW new, SlotPut(t, s, slots, hit, k, v, new)
  PROVE  EntriesIn(t, s, new) = Stored(EntriesIn(t, s, slots), k, v)
<1> DEFINE e == EntriesIn(t, s, slots)
           g == t[hit].offset
           f == [i \in DOMAIN e |-> IF e[i].key = k THEN [key |-> k, value |-> v] ELSE e[i]]
<1>8. hit \in Chain(t, s) /\ t[hit].key = k
  BY DEF SlotPut
<1>0. SlotCount(t, s) \in 0 .. Capacity(slots) /\ Capacity(slots) \in Nat
  BY RowRoom DEF RowOK
<1>1. /\ DOMAIN e = 1 .. SlotCount(t, s)
      /\ \A n \in Chain(t, s) : e[t[n].offset + 1] = Entry(t, slots, n)
  BY EntriesShape
<1>9. DOMAIN new = DOMAIN slots /\ new[g] = v /\ \A i \in DOMAIN slots : i # g => new[i] = slots[i]
  BY DEF SlotPut
<1>2. g \in 0 .. Capacity(slots) - 1 /\ DOMAIN slots = 0 .. Capacity(slots) - 1
  <2>1. DOMAIN slots = 0 .. Capacity(slots) - 1
    BY DEF RowOK
  <2>2. g \in 0 .. SlotCount(t, s) - 1
    BY <1>8, Places
  <2> HIDE DEF g
  <2>3. g \in 0 .. Capacity(slots) - 1
    BY <1>0, <2>2
  <2> QED BY <2>1, <2>3
<1>3. ASSUME NEW n \in Chain(t, s) PROVE f[t[n].offset + 1] = Entry(t, new, n)
  <2> DEFINE i == t[n].offset + 1
  <2>1. i \in 1 .. SlotCount(t, s) /\ t[n].offset \in 0 .. Capacity(slots) - 1
    <3>1. i \in 1 .. SlotCount(t, s) /\ t[n].offset \in 0 .. SlotCount(t, s) - 1
      BY Places
    <3> QED BY <1>0, <3>1
  <2>2. e[i] = Entry(t, slots, n)
    BY <1>1
  <2>3. e[i].key = t[n].key
    BY <2>2 DEF Entry
  <2> HIDE DEF e, i
  <2>4. f[i] = IF e[i].key = k THEN [key |-> k, value |-> v] ELSE e[i]
    BY <1>1, <2>1
  <2>5. CASE n = hit
    <3>1. new[t[n].offset] = v
      BY <1>9, <2>5
    <3> QED BY <1>8, <2>3, <2>4, <2>5, <3>1 DEF Entry, i
  <2>6. CASE n # hit
    <3>1. t[n].key # k /\ t[n].offset # g
      BY <1>8, <2>6, Places
    <3>2. new[t[n].offset] = slots[t[n].offset]
      BY <1>9, <1>2, <2>1, <3>1
    <3> QED BY <2>2, <2>3, <2>4, <3>1, <3>2 DEF Entry, i
  <2> QED BY <2>5, <2>6
<1>4. f = [i \in 1 .. SlotCount(t, s) |-> f[i]]
  BY <1>1
<1> HIDE DEF f, e, g
<1>5. EntriesAre(t, s, new, f)
  BY <1>3, <1>4 DEF EntriesAre
<1>6. EntriesIn(t, s, new) = f
  BY <1>5, EntriesOnce
<1> QED BY <1>6 DEF f, e, g, Stored

\* An addition appends an entry.
LEMMA EntriesAdded ==
  ASSUME NEW t, TableOK(t), NEW s \in 0 .. Len(t), NEW slots, NEW k, NEW t2, NEW at,
         Added(t, s, k, t2, at), NEW new, NEW v,
         \A i \in 0 .. SlotCount(t, s) - 1 : new[i] = slots[i],
         new[SlotCount(t, s)] = v
  PROVE  EntriesIn(t2, at, new) = Append(EntriesIn(t, s, slots), [key |-> k, value |-> v])
<1> DEFINE c == SlotCount(t, s)
           e == EntriesIn(t, s, slots)
           x == [key |-> k, value |-> v]
           R == {e[i] : i \in 1 .. c} \cup {x}
<1>1. /\ DOMAIN e = 1 .. c /\ Len(e) = c /\ e = [i \in 1 .. c |-> e[i]]
      /\ \A n \in Chain(t, s) : e[t[n].offset + 1] = Entry(t, slots, n)
  BY EntriesShape
<1>2. /\ Chain(t2, at) = {at} \cup Chain(t, s)
      /\ SlotCount(t2, at) = c + 1
      /\ \A n \in Chain(t, s) : t2[n] = t[n]
  BY AddedMeans
<1>3. t2[at].key = k /\ t2[at].offset = c /\ TableOK(t2) /\ at \in 0 .. Len(t2)
  <2>1. t2[at].key = k /\ t2[at].offset = c /\ TableOK(t2) /\ at \in 1 .. Len(t2)
    BY DEF Added
  <2> QED BY <2>1
<1>4. c \in Nat /\ \A n \in Chain(t, s) : t[n].offset \in 0 .. c - 1
  BY Places
<1>5. new[c] = v /\ \A i \in 0 .. c - 1 : new[i] = slots[i]
  OBVIOUS
<1> HIDE DEF c, e
<1>6. e \in Seq(R)
  <2>1. e \in [1 .. c -> R]
    BY <1>1
  <2> HIDE DEF R
  <2> QED BY <1>4, <2>1, SeqDef
<1>7. x \in R
  OBVIOUS
<1> HIDE DEF x, R
<1>8. /\ Append(e, x) \in Seq(R) /\ Len(Append(e, x)) = c + 1
      /\ \A i \in 1 .. c : Append(e, x)[i] = e[i]
      /\ Append(e, x)[c + 1] = x
  <2>1. /\ Append(e, x) \in Seq(R) /\ Len(Append(e, x)) = Len(e) + 1
        /\ \A i \in 1 .. Len(e) : Append(e, x)[i] = e[i]
        /\ Append(e, x)[Len(e) + 1] = x
    BY <1>6, <1>7, AppendProperties
  <2>2. Len(e) = c
    BY <1>1
  <2> QED BY <2>1, <2>2
<1>9. Append(e, x) = [i \in 1 .. c + 1 |-> Append(e, x)[i]]
  <2> DEFINE a == Append(e, x)
  <2>1. a \in Seq(R) /\ Len(a) = c + 1
    BY <1>8
  <2> HIDE DEF a
  <2>2. a = [i \in 1 .. Len(a) |-> a[i]]
    BY <2>1
  <2> QED BY <2>1, <2>2 DEF a
<1>10. ASSUME NEW n \in Chain(t2, at) PROVE Append(e, x)[t2[n].offset + 1] = Entry(t2, new, n)
  <2>1. CASE n = at
    BY <1>3, <1>5, <1>8, <2>1 DEF Entry, x
  <2>2. CASE n \in Chain(t, s)
    <3>1. t[n].offset + 1 \in 1 .. c /\ new[t[n].offset] = slots[t[n].offset]
      BY <1>4, <1>5, <2>2
    <3>2. t2[n] = t[n] /\ e[t[n].offset + 1] = Entry(t, slots, n)
      BY <1>1, <1>2, <2>2
    <3> QED BY <1>8, <3>1, <3>2 DEF Entry
  <2> QED BY <1>2, <2>1, <2>2
<1>11. EntriesAre(t2, at, new, Append(e, x))
  BY <1>2, <1>9, <1>10 DEF EntriesAre
<1>12. EntriesIn(t2, at, new) = Append(e, x)
  BY <1>3, <1>11, EntriesOnce
<1> QED BY <1>12 DEF e, x

\* A removal drops an entry.
LEMMA EntriesRemoved ==
  ASSUME NEW t, TableOK(t), NEW s \in 0 .. Len(t), NEW slots, NEW hit \in Chain(t, s),
         Capacity(slots) \in Nat, SlotCount(t, s) \in 0 .. Capacity(slots),
         DOMAIN slots = 0 .. Capacity(slots) - 1,
         NEW r, Without(t, s, hit, slots, r)
  PROVE  EntriesIn(r.nodes, r.at, r.slots) = Dropped(EntriesIn(t, s, slots), t[hit].offset + 1)
<1> DEFINE c == SlotCount(t, s)
           e == EntriesIn(t, s, slots)
           g == t[hit].offset
           u == r.nodes
           new == r.slots
           f == [j \in 1 .. Len(e) - 1 |-> e[IF j < g + 1 THEN j ELSE j + 1]]
<1>1. /\ DOMAIN e = 1 .. c /\ Len(e) = c
      /\ \A n \in Chain(t, s) : e[t[n].offset + 1] = Entry(t, slots, n)
  BY EntriesShape
<1>2. /\ TableOK(u) /\ r.at \in 0 .. Len(u) /\ SlotCount(u, r.at) = c - 1
      /\ \A n \in Chain(u, r.at), m \in Chain(t, s) :
           t[m].offset = (IF u[n].offset < g THEN u[n].offset ELSE u[n].offset + 1)
             => u[n].key = t[m].key
      /\ \A i \in DOMAIN slots :
           new[i] = IF i < c - 1 THEN slots[IF i < g THEN i ELSE i + 1] ELSE slots[i]
  BY DEF Without
<1>3. c \in Nat /\ g \in 0 .. c - 1 /\ \A i \in 1 .. c : \E m \in Chain(t, s) : t[m].offset + 1 = i
  BY Places
<1>4. \A n \in Chain(u, r.at) : u[n].offset \in 0 .. (c - 1) - 1
  BY <1>2, Places
<1>5. \A i \in 0 .. c - 1 : i \in DOMAIN slots
  <2>1. c \in 0 .. Capacity(slots) /\ Capacity(slots) \in Nat
    OBVIOUS
  <2> HIDE DEF c
  <2> QED BY <2>1
<1> HIDE DEF c, e, g, u, new
<1>6. ASSUME NEW n \in Chain(u, r.at) PROVE f[u[n].offset + 1] = Entry(u, new, n)
  <2> DEFINE i == u[n].offset
             h == IF i < g THEN i ELSE i + 1
  <2>1. i \in 0 .. c - 2 /\ h \in 0 .. c - 1 /\ h + 1 \in 1 .. c
    <3>1. i \in 0 .. (c - 1) - 1
      BY <1>4
    <3> HIDE DEF i
    <3>2. i \in 0 .. c - 2
      BY <1>3, <3>1
    <3>3. CASE i < g
      BY <1>3, <3>2, <3>3
    <3>4. CASE ~(i < g)
      BY <1>3, <3>2, <3>4
    <3> QED BY <3>3, <3>4
  <2>2. PICK m \in Chain(t, s) : t[m].offset + 1 = h + 1
    <3> HIDE DEF h
    <3> QED BY <1>3, <2>1
  <2>3. t[m].offset = h
    <3>1. t[m].offset \in 0 .. c - 1
      BY Places DEF c
    <3> HIDE DEF h
    <3> QED BY <2>1, <2>2, <3>1
  <2>4. u[n].key = t[m].key
    BY <1>2, <2>3
  <2> HIDE DEF i
  <2>5. new[i] = slots[h]
    <3>1. i \in DOMAIN slots /\ i < c - 1
      BY <1>3, <1>5, <2>1
    <3> QED BY <1>2, <3>1
  <2>6. f[i + 1] = e[h + 1]
    <3>1. i + 1 \in 1 .. Len(e) - 1
      BY <1>1, <1>3, <2>1
    <3>2. f[i + 1] = e[IF i + 1 < g + 1 THEN i + 1 ELSE (i + 1) + 1]
      BY <3>1
    <3>3. (IF i + 1 < g + 1 THEN i + 1 ELSE (i + 1) + 1) = h + 1
      BY <1>3, <2>1
    <3> QED BY <3>2, <3>3
  <2>7. e[h + 1] = Entry(t, slots, m)
    BY <1>1, <2>2
  <2> HIDE DEF h
  <2> QED BY <2>3, <2>4, <2>5, <2>6, <2>7 DEF Entry, i
<1>7. f = [j \in 1 .. c - 1 |-> f[j]]
  BY <1>1
<1> HIDE DEF f
<1>8. EntriesAre(u, r.at, new, f)
  BY <1>2, <1>6, <1>7 DEF EntriesAre
<1>9. EntriesIn(u, r.at, new) = f
  BY <1>2, <1>8, EntriesOnce
<1> QED BY <1>9 DEF f, u, new, e, g, Dropped

----------------------------------------------------------------------------
(* The order of enumeration.                                                *)

\* Before orders the nodes of a chain.
LEMMA BeforeOrders ==
  ASSUME NEW t, TableOK(t), NEW s \in 0 .. Len(t)
  PROVE  /\ \A n \in Chain(t, s) : ~Before(t, n, n)
         /\ \A m, n \in Chain(t, s) : m # n => Before(t, m, n) \/ Before(t, n, m)
         /\ \A l, m, n \in Chain(t, s) : Before(t, l, m) /\ Before(t, m, n) => Before(t, l, n)
<1> DEFINE chain == Chain(t, s)
           num == [n \in chain |-> IF t[n].key \in DOMAIN Numeric THEN Numeric[t[n].key] ELSE 0]
           off == [n \in chain |-> t[n].offset]
           idx == [n \in chain |-> t[n].key \in DOMAIN Numeric]
<1>1. /\ \A n \in chain : off[n] \in Nat
      /\ \A m, n \in chain : off[m] = off[n] => m = n
  BY Places
<1>2. \A n \in chain : num[n] \in Nat
  BY ShapeAssumption
<1>3. \A m, n \in chain : Before(t, m, n) <=>
        IF idx[m] # idx[n] THEN idx[m]
        ELSE IF idx[m] /\ num[m] # num[n] THEN num[m] < num[n] ELSE off[m] < off[n]
  BY DEF Before
<1>4. \A n \in chain : idx[n] \in BOOLEAN
  OBVIOUS
<1> HIDE DEF chain, num, off, idx
<1>5. \A n \in chain : ~Before(t, n, n)
  BY <1>1, <1>3
<1>6. \A m, n \in chain : m # n => Before(t, m, n) \/ Before(t, n, m)
  BY <1>1, <1>2, <1>3, <1>4
<1>7. \A l, m, n \in chain : Before(t, l, m) /\ Before(t, m, n) => Before(t, l, n)
  BY <1>1, <1>2, <1>3, <1>4
<1> QED BY <1>5, <1>6, <1>7 DEF chain

\* A chain has as many nodes as slots.
LEMMA ChainSize ==
  ASSUME NEW t, TableOK(t), NEW s \in 0 .. Len(t)
  PROVE  IsFiniteSet(Chain(t, s)) /\ Cardinality(Chain(t, s)) = SlotCount(t, s)
<1> DEFINE c == SlotCount(t, s)
           chain == Chain(t, s)
           f == [n \in chain |-> t[n].offset + 1]
<1>1. /\ c \in Nat
      /\ \A n \in chain : t[n].offset \in Nat /\ t[n].offset + 1 \in 1 .. c
      /\ \A i \in 1 .. c : \E n \in chain : t[n].offset + 1 = i
      /\ \A m, n \in chain : t[m].offset = t[n].offset => m = n
  BY Places
<1> HIDE DEF c, chain
<1>2. f \in [chain -> 1 .. c]
  BY <1>1
<1>3. ASSUME NEW m \in chain, NEW n \in chain, f[m] = f[n] PROVE m = n
  <2>1. t[m].offset \in Nat /\ t[n].offset \in Nat
    BY <1>1
  <2>2. t[m].offset + 1 = t[n].offset + 1
    BY <1>3
  <2>3. t[m].offset = t[n].offset
    BY <2>1, <2>2
  <2> QED BY <1>1, <2>3
<1>4. ASSUME NEW i \in 1 .. c PROVE \E n \in chain : f[n] = i
  <2>1. PICK n \in chain : t[n].offset + 1 = i
    BY <1>1
  <2>2. f[n] = i
    BY <2>1
  <2> QED BY <2>2
<1> HIDE DEF f
<1>5. f \in Bijection(chain, 1 .. c)
  BY <1>2, <1>3, <1>4, Fun_IsBij
<1>6. ExistsBijection(1 .. c, chain)
  BY <1>5, Fun_ExistsBijSymmetric DEF ExistsBijection
<1>7. IsFiniteSet(1 .. c) /\ Cardinality(1 .. c) = c
  <2>1. 1 \in Int /\ c \in Int
    BY <1>1
  <2>2. IsFiniteSet(1 .. c) /\ Cardinality(1 .. c) = IF 1 > c THEN 0 ELSE c - 1 + 1
    BY <2>1, FS_Interval
  <2> QED BY <1>1, <2>2
<1>8. IsFiniteSet(chain) /\ Cardinality(chain) = Cardinality(1 .. c)
  BY <1>6, <1>7, FS_Bijection
<1> QED BY <1>7, <1>8 DEF c, chain

\* The chain in enumeration order: every node once, each before the next.
Sorted(t, s, order) ==
  /\ order = [i \in 1 .. SlotCount(t, s) |-> order[i]]
  /\ \A i \in 1 .. SlotCount(t, s) : order[i] \in Chain(t, s)
  /\ \A i, j \in 1 .. SlotCount(t, s) : i < j => Before(t, order[i], order[j])

\* jsrt_shape_property_order lists the whole chain, sorted.
LEMMA OrderSorted ==
  ASSUME NEW t, TableOK(t), NEW s \in 0 .. Len(t)
  PROVE  Sorted(t, s, PropertyOrder(t, s))
<1> DEFINE c == SlotCount(t, s)
           chain == Chain(t, s)
           earlier(n) == {m \in chain : Before(t, m, n)}
           rank == [n \in chain |-> Cardinality(earlier(n))]
           order == [i \in 1 .. c |-> CHOOSE n \in chain : Cardinality(earlier(n)) = i - 1]
<1>0. PropertyOrder(t, s) = order
  BY DEF PropertyOrder
<1>1. IsFiniteSet(chain) /\ Cardinality(chain) = c /\ c \in Nat
  BY ChainSize, Places
<1>2. /\ \A n \in chain : ~Before(t, n, n)
      /\ \A m, n \in chain : m # n => Before(t, m, n) \/ Before(t, n, m)
      /\ \A l, m, n \in chain : Before(t, l, m) /\ Before(t, m, n) => Before(t, l, n)
  BY BeforeOrders
<1> HIDE DEF c, chain
<1>3. \A n \in chain : IsFiniteSet(earlier(n)) /\ Cardinality(earlier(n)) \in Nat
  <2> SUFFICES ASSUME NEW n \in chain
               PROVE  IsFiniteSet(earlier(n)) /\ Cardinality(earlier(n)) \in Nat
    OBVIOUS
  <2> DEFINE E == earlier(n)
  <2>1. E \in SUBSET chain
    OBVIOUS
  <2> HIDE DEF E
  <2>2. IsFiniteSet(E)
    BY <1>1, <2>1, FS_Subset
  <2>3. Cardinality(E) \in Nat
    BY <2>2, FS_CardinalityType
  <2> QED BY <2>2, <2>3 DEF E
<1>4. ASSUME NEW n \in chain PROVE Cardinality(earlier(n)) \in 0 .. c - 1
  <2> DEFINE E == earlier(n)
  <2>1. E \cup {n} \in SUBSET chain /\ n \notin E
    BY <1>2
  <2>2. IsFiniteSet(E) /\ Cardinality(E) \in Nat
    BY <1>3
  <2> HIDE DEF E
  <2>3. Cardinality(E \cup {n}) = Cardinality(E) + 1
    BY <2>1, <2>2, FS_AddElement
  <2>4. Cardinality(E \cup {n}) <= Cardinality(chain)
    BY <1>1, <2>1, FS_Subset
  <2>5. Cardinality(E) \in 0 .. c - 1
    BY <1>1, <2>2, <2>3, <2>4
  <2> QED BY <2>5 DEF E
<1>5. ASSUME NEW m \in chain, NEW n \in chain, Before(t, m, n)
      PROVE  Cardinality(earlier(m)) < Cardinality(earlier(n))
  <2> DEFINE E == earlier(m)
             F == earlier(n)
  <2>1. E \cup {m} \in SUBSET F /\ m \notin E
    BY <1>2, <1>5
  <2>2. IsFiniteSet(E) /\ Cardinality(E) \in Nat /\ IsFiniteSet(F) /\ Cardinality(F) \in Nat
    BY <1>3
  <2> HIDE DEF E, F
  <2>3. Cardinality(E \cup {m}) = Cardinality(E) + 1
    BY <2>1, <2>2, FS_AddElement
  <2>4. Cardinality(E \cup {m}) <= Cardinality(F)
    BY <2>1, <2>2, FS_Subset
  <2>5. Cardinality(E) < Cardinality(F)
    BY <2>2, <2>3, <2>4
  <2> QED BY <2>5 DEF E, F
<1>6. ASSUME NEW m \in chain, NEW n \in chain, rank[m] = rank[n] PROVE m = n
  <2>1. Cardinality(earlier(m)) = Cardinality(earlier(n))
    BY <1>6
  <2>2. Cardinality(earlier(m)) \in Int /\ Cardinality(earlier(n)) \in Int
    BY <1>4
  <2> HIDE DEF earlier
  <2> QED BY <1>2, <1>5, <2>1, <2>2
<1>7. rank \in [chain -> 0 .. c - 1]
  BY <1>4
<1>8. \A n \in chain : rank[n] = Cardinality(earlier(n))
  OBVIOUS
<1> HIDE DEF rank, earlier
<1>9. \A i \in 0 .. c - 1 : \E n \in chain : rank[n] = i
  <2>1. rank \in Injection(chain, 0 .. c - 1)
    BY <1>6, <1>7, Fun_IsInj
  <2>2. IsFiniteSet(0 .. c - 1) /\ Cardinality(0 .. c - 1) = c
    <3>1. 0 \in Int /\ c - 1 \in Int
      BY <1>1
    <3>2. IsFiniteSet(0 .. c - 1) /\ Cardinality(0 .. c - 1) = IF 0 > c - 1 THEN 0 ELSE (c - 1) - 0 + 1
      BY <3>1, FS_Interval
    <3> QED BY <1>1, <3>2
  <2>3. rank \in Surjection(chain, 0 .. c - 1)
    BY <1>1, <2>1, <2>2, FS_Injection
  <2> QED BY <2>3 DEF Surjection
<1>10. ASSUME NEW i \in 1 .. c PROVE order[i] \in chain /\ Cardinality(earlier(order[i])) = i - 1
  <2>1. i - 1 \in 0 .. c - 1
    BY <1>1
  <2>2. PICK n \in chain : rank[n] = i - 1
    BY <1>9, <2>1
  <2>3. \E m \in chain : Cardinality(earlier(m)) = i - 1
    BY <1>8, <2>2
  <2>4. order[i] = CHOOSE m \in chain : Cardinality(earlier(m)) = i - 1
    OBVIOUS
  <2> QED BY <2>3, <2>4
<1>11. ASSUME NEW i \in 1 .. c, NEW j \in 1 .. c, i < j PROVE Before(t, order[i], order[j])
  <2> DEFINE m == order[i]
             n == order[j]
  <2>1. m \in chain /\ n \in chain /\ Cardinality(earlier(m)) = i - 1 /\ Cardinality(earlier(n)) = j - 1
    BY <1>10
  <2> HIDE DEF m, n
  <2>2. m # n
    BY <1>11, <2>1
  <2>3. ~Before(t, n, m)
    <3>1. ASSUME Before(t, n, m) PROVE FALSE
      <4>1. Cardinality(earlier(n)) < Cardinality(earlier(m))
        BY <1>5, <2>1, <3>1
      <4> QED BY <1>11, <2>1, <4>1
    <3> QED BY <3>1
  <2>4. Before(t, m, n)
    BY <1>2, <2>1, <2>2, <2>3
  <2> QED BY <2>4 DEF m, n
<1>12. order = [i \in 1 .. c |-> order[i]]
  OBVIOUS
<1> HIDE DEF order
<1> QED BY <1>0, <1>10, <1>11, <1>12 DEF Sorted, c, chain

----------------------------------------------------------------------------
(* The records an object table implements.                                  *)
Props == [o \in Dyn |-> Entries(o)]
Icy == {o \in Dyn : table[o].frozen}

\* The entries of an object, before a step and after it.
LEMMA EntriesMean ==
  /\ \A o : Entries(o) = EntriesIn(shapes, table[o].shape, table[o].slots)
  /\ \A o : Entries(o)' = EntriesIn(shapes', table'[o].shape, table'[o].slots)
BY DEF Entries, EntriesIn

\* A record has a key where its object's shape has the node that added it.
LEMMA RecordHas ==
  ASSUME Layouts, NEW o \in Dyn, NEW k
  PROVE  /\ Implemented!Has(o, k) <=> Own(o, k) # Root
         /\ Own(o, k) # Root => Implemented!ValueOf(o, k) = OwnSlot(o, k)
<1> DEFINE s == table[o].shape
           e == EntriesIn(shapes, s, table[o].slots)
           hit == Own(o, k)
<1>1. TableOK(shapes) /\ s \in 0 .. Len(shapes) /\ Finds(shapes, s, k, hit)
  BY OwnFinds DEF Layouts, RowOK, Obj
<1>2. /\ DOMAIN e = 1 .. SlotCount(shapes, s)
      /\ \A n \in Chain(shapes, s) : e[shapes[n].offset + 1] = Entry(shapes, table[o].slots, n)
  BY <1>1, EntriesShape
<1>3. /\ \A n \in Chain(shapes, s) : shapes[n].offset + 1 \in 1 .. SlotCount(shapes, s)
      /\ \A i \in 1 .. SlotCount(shapes, s) : \E n \in Chain(shapes, s) : shapes[n].offset + 1 = i
      /\ \A m, n \in Chain(shapes, s) : shapes[m].key = shapes[n].key => m = n
  BY <1>1, Places
<1>4. \A n \in Chain(shapes, s) : /\ e[shapes[n].offset + 1].key = shapes[n].key
                                  /\ e[shapes[n].offset + 1].value = table[o].slots[shapes[n].offset]
  <2> TAKE n \in Chain(shapes, s)
  <2> DEFINE row == e[shapes[n].offset + 1]
  <2>1. row = Entry(shapes, table[o].slots, n)
    BY <1>2
  <2> HIDE DEF row
  <2> QED BY <2>1 DEF Entry, row
<1>5. Props[o] = e
  BY EntriesMean DEF Props
<1>6. /\ Implemented!Has(o, k) <=> \E i \in DOMAIN e : e[i].key = k
      /\ Implemented!ValueOf(o, k) = e[CHOOSE i \in DOMAIN e : e[i].key = k].value
  <2> HIDE DEF e
  <2> QED BY <1>5 DEF Implemented!Has, Implemented!ValueOf, Props
<1> HIDE DEF e, s, hit
<1>7. CASE hit = Root
  <2>1. \A n \in Chain(shapes, s) : shapes[n].key # k
    BY <1>1, <1>7 DEF Finds, Held, Root
  <2>2. \A i \in DOMAIN e : e[i].key # k
    BY <1>2, <1>3, <1>4, <2>1
  <2> QED BY <1>6, <1>7, <2>2 DEF hit
<1>8. CASE hit # Root
  <2>1. hit \in Chain(shapes, s) /\ shapes[hit].key = k
    BY <1>1, <1>8 DEF Finds
  <2> DEFINE at == shapes[hit].offset + 1
  <2>2. at \in DOMAIN e /\ e[at].key = k
    BY <1>2, <1>3, <1>4, <2>1
  <2>3. ASSUME NEW i \in DOMAIN e, e[i].key = k PROVE i = at
    <3>1. PICK n \in Chain(shapes, s) : shapes[n].offset + 1 = i
      BY <1>2, <1>3
    <3>2. n = hit
      BY <1>3, <1>4, <2>1, <2>3, <3>1
    <3> QED BY <3>1, <3>2
  <2>4. e[at].value = table[o].slots[shapes[hit].offset]
    BY <1>4, <2>1
  <2> HIDE DEF at
  <2>5. (CHOOSE i \in DOMAIN e : e[i].key = k) = at
    BY <2>2, <2>3
  <2> QED BY <1>6, <1>8, <2>2, <2>4, <2>5 DEF hit, OwnSlot
<1> QED BY <1>7, <1>8

----------------------------------------------------------------------------
\* The two walks up the prototypes.
Up(f, k) ==
  f = [q \in Dyn \cup {None} |->
         IF q = None THEN None ELSE IF Own(q, k) # Root THEN q ELSE f[Proto[q]]]

RecordUp(f, k) ==
  f = [q \in Dyn \cup {None} |->
         IF q = None THEN None ELSE IF Implemented!Has(q, k) THEN q ELSE f[Proto[q]]]

\* inherited_get's walk up the prototypes, one object at a time.
LEMMA HolderWalk ==
  ASSUME NEW k
  PROVE  /\ Holder(None, k) = None
         /\ \A q \in Dyn : Holder(q, k) = IF Own(q, k) # Root THEN q ELSE Holder(Proto[q], k)
<1> DEFINE f == CHOOSE g : Up(g, k)
<1>1. \E g : Up(g, k)
  <2> DEFINE owns == {q \in Dyn : Own(q, k) # Root}
  <2>1. PICK g : Nearest(g, owns)
    BY NearestExists
  <2>2. \A q \in Dyn : q \in owns <=> Own(q, k) # Root
    OBVIOUS
  <2> HIDE DEF owns
  <2>3. g = [q \in Dyn \cup {None} |-> IF q = None THEN None ELSE IF q \in owns THEN q ELSE g[Proto[q]]]
    BY <2>1 DEF Nearest, Lineage
  <2>4. Up(g, k)
    BY <2>2, <2>3 DEF Up
  <2> QED BY <2>4
<1>2. Up(f, k)
  BY <1>1
<1>3. \A p : Holder(p, k) = f[p]
  BY DEF Holder, Up
<1> HIDE DEF f
<1>4. \A q \in Dyn \cup {None} :
        f[q] = IF q = None THEN None ELSE IF Own(q, k) # Root THEN q ELSE f[Proto[q]]
  BY <1>2 DEF Up
<1> QED BY <1>3, <1>4, LineageFacts

\* The same walk over the records.
LEMMA RecordWalk ==
  ASSUME NEW k
  PROVE  /\ Implemented!Holder(None, k) = None
         /\ \A q \in Dyn : Implemented!Holder(q, k) =
              IF Implemented!Has(q, k) THEN q ELSE Implemented!Holder(Proto[q], k)
<1> DEFINE f == CHOOSE g : RecordUp(g, k)
<1>1. \E g : RecordUp(g, k)
  <2> DEFINE owns == {q \in Dyn : Implemented!Has(q, k)}
  <2>1. PICK g : Nearest(g, owns)
    BY NearestExists
  <2>2. \A q \in Dyn : q \in owns <=> Implemented!Has(q, k)
    OBVIOUS
  <2> HIDE DEF owns
  <2>3. g = [q \in Dyn \cup {None} |-> IF q = None THEN None ELSE IF q \in owns THEN q ELSE g[Proto[q]]]
    BY <2>1 DEF Nearest, Lineage
  <2>4. RecordUp(g, k)
    BY <2>2, <2>3 DEF RecordUp
  <2> QED BY <2>4
<1>2. RecordUp(f, k)
  BY <1>1
<1>3. \A p : Implemented!Holder(p, k) = f[p]
  BY DEF Implemented!Holder, RecordUp
<1> HIDE DEF f
<1>4. \A q \in Dyn \cup {None} :
        f[q] = IF q = None THEN None ELSE IF Implemented!Has(q, k) THEN q ELSE f[Proto[q]]
  BY <1>2 DEF RecordUp
<1> QED BY <1>3, <1>4, LineageFacts

\* Objects and records agree on the holder of a key and on what it holds.
LEMMA HoldersAgree ==
  ASSUME Layouts, NEW k
  PROVE  \A p \in Lineage :
           /\ Implemented!Holder(p, k) = Holder(p, k)
           /\ Holder(p, k) \in Lineage
           /\ Holder(p, k) # None => Holder(p, k) \in Dyn /\ Own(Holder(p, k), k) # Root
<1> DEFINE S == {p \in Lineage :
                   /\ Implemented!Holder(p, k) = Holder(p, k)
                   /\ Holder(p, k) \in Lineage
                   /\ Holder(p, k) # None => Holder(p, k) \in Dyn /\ Own(Holder(p, k), k) # Root}
<1>1. None \in S
  BY HolderWalk, RecordWalk, LineageFacts
<1>2. ASSUME NEW q \in Dyn, Proto[q] \in S PROVE q \in S
  <2>1. /\ Holder(q, k) = IF Own(q, k) # Root THEN q ELSE Holder(Proto[q], k)
        /\ Implemented!Holder(q, k) = IF Own(q, k) # Root THEN q ELSE Implemented!Holder(Proto[q], k)
    <3>1. Implemented!Has(q, k) <=> Own(q, k) # Root
      BY RecordHas
    <3>2. Implemented!Holder(q, k) =
            IF Implemented!Has(q, k) THEN q ELSE Implemented!Holder(Proto[q], k)
      BY RecordWalk
    <3>3. Holder(q, k) = IF Own(q, k) # Root THEN q ELSE Holder(Proto[q], k)
      BY HolderWalk
    <3> QED BY <3>1, <3>2, <3>3
  <2> QED BY <1>2, <2>1, LineageFacts
<1> HIDE DEF S
<1>3. \A p \in Lineage : p \in S
  BY <1>1, <1>2, ProtoInduction
<1> QED BY <1>3 DEF S

----------------------------------------------------------------------------
(* What the steps do to the records.                                        *)
Recorded == Props' = Props
Iced == Icy' = Icy

\* An object whose table is left alone has the entries it had.
LEMMA EntriesKept ==
  ASSUME Layouts, Moves, NEW o \in Obj, table'[o] = table[o]
  PROVE  Entries(o)' = Entries(o)
<1>1. table[o].shape \in 0 .. Len(shapes)
  BY DEF Layouts, RowOK
<1>2. EntriesIn(shapes', table[o].shape, table[o].slots) = EntriesIn(shapes, table[o].shape, table[o].slots)
  BY <1>1, EntriesStay DEF Layouts, Moves
<1> QED BY <1>2, EntriesMean

\* A step that touches no dynamic object's table changes no record.
LEMMA RecordsKept ==
  ASSUME Layouts, Moves, \A p \in Dyn : table'[p] = table[p]
  PROVE  Recorded
<1>1. \A p \in Dyn : Entries(p)' = Entries(p)
  BY EntriesKept DEF Obj
<1> QED BY <1>1 DEF Recorded, Props

\* A step that touches one changes that one's record.
LEMMA RecordMoves ==
  ASSUME Layouts, Moves, NEW o \in Dyn, \A p \in Dyn \ {o} : table'[p] = table[p]
  PROVE  Props' = [Props EXCEPT ![o] = Entries(o)']
<1>1. \A p \in Dyn \ {o} : Entries(p)' = Entries(p)
  BY EntriesKept DEF Obj
<1> QED BY <1>1 DEF Props

\* An object's own step leaves every other object alone.
LEMMA RowOnly ==
  ASSUME FreezeInv, NEW o \in Obj, NEW shape, NEW slots, NEW frozen,
         table' = [table EXCEPT ![o] = Layout(shape, slots, frozen)]
  PROVE  /\ table'[o].shape = shape /\ table'[o].slots = slots /\ table'[o].frozen = frozen
         /\ \A p \in Obj \ {o} : table'[p] = table[p]
<1>1. table'[o] = Layout(shape, slots, frozen)
  BY DEF FreezeInv
<1>2. \A p \in Obj \ {o} : table'[p] = table[p]
  BY DEF FreezeInv
<1> QED BY <1>1, <1>2 DEF Layout

\* A step that freezes no dynamic object.
LEMMA IcyKept ==
  ASSUME FreezeInv, \A p \in Dyn : table'[p].frozen = table[p].frozen
  PROVE  Iced
BY DEF Iced, Icy

\* A value stored in the slot of a key the object has, or in a new slot.
LEMMA PutStores ==
  ASSUME Layouts, FreezeInv, NEW o \in Dyn, NEW k \in Key, NEW v \in Value,
         Own(o, k) # Root, PutSlot(o, shapes[Own(o, k)].offset, v), UNCHANGED shapes
  PROVE  Implemented!Store(o, k, v) /\ Iced
<1> DEFINE s == table[o].shape
           slots == table[o].slots
           hit == Own(o, k)
           g == shapes[hit].offset
           e == EntriesIn(shapes, s, slots)
           new == [slots EXCEPT ![g] = v]
<1>1. TableOK(shapes) /\ s \in 0 .. Len(shapes) /\ Finds(shapes, s, k, hit) /\ RowOK(shapes, s, slots)
  BY OwnFinds DEF Layouts, RowOK, Obj
<1>2. hit \in Chain(shapes, s) /\ shapes[hit].key = k
  BY <1>1 DEF Finds
<1>3. /\ Capacity(slots) \in Nat /\ SlotCount(shapes, s) \in 0 .. Capacity(slots)
      /\ DOMAIN slots = 0 .. Capacity(slots) - 1
  <2>1. slots \in [0 .. Capacity(slots) - 1 -> Value \cup {Unset}] /\ Capacity(slots) \in Nat
    BY <1>1 DEF RowOK
  <2> QED BY <1>1, <2>1, RowRoom
<1>4. /\ table'[o].shape = s /\ table'[o].slots = new /\ table'[o].frozen = table[o].frozen
      /\ \A p \in Obj \ {o} : table'[p] = table[p]
  <2>1. table' = [table EXCEPT ![o] = Layout(s, new, table[o].frozen)]
    BY DEF PutSlot
  <2> HIDE DEF s, new
  <2> QED BY <2>1, RowOnly DEF Obj
<1>5. Moves
  BY PutMoves DEF Obj
<1> HIDE DEF s, slots, hit
<1>6. EntriesIn(shapes, s, new)
        = [i \in DOMAIN e |-> IF e[i].key = k THEN [key |-> k, value |-> v] ELSE e[i]]
  <2>1. EntriesIn(shapes, s, new) = Stored(e, k, v)
    <3>1. DOMAIN new = DOMAIN slots /\ \A i \in DOMAIN slots : i # g => new[i] = slots[i]
      OBVIOUS
    <3>2. g \in DOMAIN slots
      <4>1. g \in 0 .. SlotCount(shapes, s) - 1 /\ SlotCount(shapes, s) \in Nat
        BY <1>1, <1>2, Places
      <4> HIDE DEF g
      <4> QED BY <1>3, <4>1
    <3>3. new[g] = v
      BY <3>2
    <3> HIDE DEF new
    <3>4. SlotPut(shapes, s, slots, hit, k, v, new)
      BY <1>2, <3>1, <3>3 DEF SlotPut
    <3> QED BY <1>1, <3>4, EntriesPut
  <2> HIDE DEF new, e
  <2> QED BY <1>2, <2>1 DEF Stored
<1>7. Entries(o)' = EntriesIn(shapes, s, new)
  BY <1>4, EntriesMean
<1>8. Props' = [Props EXCEPT ![o] = Entries(o)']
  BY <1>4, <1>5, RecordMoves DEF Obj
<1>9. Props[o] = e
  BY EntriesMean DEF Props, s, slots
<1> HIDE DEF e, new
<1>10. Props' = [Props EXCEPT ![o] =
                   [i \in DOMAIN Props[o] |->
                      IF Props[o][i].key = k THEN [key |-> k, value |-> v] ELSE Props[o][i]]]
  BY <1>6, <1>7, <1>8, <1>9
<1>11. Implemented!Has(o, k)
  BY RecordHas DEF hit
<1>12. Implemented!Store(o, k, v)
  <2> HIDE DEF Props
  <2>1. Props' = [Props EXCEPT ![o] =
                   IF Implemented!Has(o, k)
                     THEN [i \in DOMAIN Props[o] |->
                            IF Props[o][i].key = k THEN [key |-> k, value |-> v] ELSE Props[o][i]]
                     ELSE Append(Props[o], [key |-> k, value |-> v])]
    BY <1>10, <1>11
  <2> QED BY <2>1 DEF Implemented!Store, Props
<1>13. Iced
  BY <1>4, IcyKept DEF Obj
<1> QED BY <1>12, <1>13

\* A key that is added is stored in the record.
LEMMA AddStores ==
  ASSUME Layouts, FreezeInv, NEW o \in Dyn, NEW k \in Key, NEW v \in Value,
         Own(o, k) = Root, AddOwn(o, k, v)
  PROVE  Implemented!Store(o, k, v) /\ Iced
<1> DEFINE s == table[o].shape
           slots == table[o].slots
           next == Transition(shapes, s, k)
           at == next.nodes[next.at].offset
           room == Reserve(slots, at)
           new == [room EXCEPT ![at] = v]
           e == EntriesIn(shapes, s, slots)
<1>1. TableOK(shapes) /\ RowOK(shapes, s, slots) /\ s \in 0 .. Len(shapes)
  BY DEF Layouts, RowOK, Obj
<1>2. Held(shapes, s, k) = {}
  BY OwnFinds DEF Finds, Obj
<1>3. Added(shapes, s, k, next.nodes, next.at)
  BY <1>1, <1>2, TransitionAdds
<1>4. at = SlotCount(shapes, s)
  <2> HIDE DEF next, s
  <2> QED BY <1>3, SMTT(30) DEF Added
<1>5. shapes' = next.nodes /\ table' = [table EXCEPT ![o] = Layout(next.at, new, table[o].frozen)]
  BY DEF AddOwn
<1>6. Moves
  BY AddMoves DEF Obj
<1> HIDE DEF s, slots, next
<1>7. /\ Capacity(slots) \in Nat /\ SlotCount(shapes, s) \in 0 .. Capacity(slots)
      /\ DOMAIN slots = 0 .. Capacity(slots) - 1
  <2>1. slots \in [0 .. Capacity(slots) - 1 -> Value \cup {Unset}] /\ Capacity(slots) \in Nat
    BY <1>1 DEF RowOK
  <2> QED BY <1>1, <2>1, RowRoom
<1> HIDE DEF at
<1>8. PICK m : Roomy(slots, Capacity(slots), at, room, m)
  BY <1>4, <1>7, Reserved
<1>9. /\ at \in 0 .. Capacity(slots) /\ at \in DOMAIN room
      /\ \A i \in 0 .. at - 1 : i \in DOMAIN room /\ room[i] = slots[i]
  <2> DEFINE cap == Capacity(slots)
  <2>1. at \in 0 .. cap /\ cap \in Nat
    BY <1>4, <1>7
  <2>2. /\ m \in Nat /\ m >= cap /\ m > at /\ DOMAIN room = 0 .. m - 1
        /\ \A i \in 0 .. m - 1 : room[i] = IF i < cap THEN slots[i] ELSE Unset
    BY <1>8 DEF Roomy
  <2> HIDE DEF cap, room
  <2>3. at \in DOMAIN room
    BY <2>1, <2>2
  <2>4. \A i \in 0 .. at - 1 : i \in DOMAIN room /\ room[i] = slots[i]
    BY <2>1, <2>2
  <2> QED BY <2>1, <2>3, <2>4 DEF cap
<1> HIDE DEF room
<1>10. new[at] = v /\ \A i \in 0 .. at - 1 : new[i] = slots[i]
  BY <1>9
<1> HIDE DEF new
<1>11. EntriesIn(next.nodes, next.at, new) = Append(e, [key |-> k, value |-> v])
  BY <1>1, <1>3, <1>4, <1>10, EntriesAdded
<1>12. /\ table'[o].shape = next.at /\ table'[o].slots = new /\ table'[o].frozen = table[o].frozen
       /\ \A p \in Obj \ {o} : table'[p] = table[p]
  BY <1>5, RowOnly DEF Obj
<1>13. Entries(o)' = EntriesIn(next.nodes, next.at, new)
  BY <1>5, <1>12, EntriesMean
<1>14. Props' = [Props EXCEPT ![o] = Entries(o)']
  BY <1>6, <1>12, RecordMoves DEF Obj
<1>15. Props[o] = e
  BY EntriesMean DEF Props, s, slots
<1> HIDE DEF e
<1>16. ~Implemented!Has(o, k)
  BY RecordHas
<1>17. Implemented!Store(o, k, v)
  <2> HIDE DEF Props
  <2>1. Props' = [Props EXCEPT ![o] =
                   IF Implemented!Has(o, k)
                     THEN [i \in DOMAIN Props[o] |->
                            IF Props[o][i].key = k THEN [key |-> k, value |-> v] ELSE Props[o][i]]
                     ELSE Append(Props[o], [key |-> k, value |-> v])]
    BY <1>11, <1>13, <1>14, <1>15, <1>16
  <2> QED BY <2>1 DEF Implemented!Store, Props
<1>18. Iced
  BY <1>12, IcyKept DEF Obj
<1> QED BY <1>17, <1>18

\* A removal drops the key's entry.
LEMMA RemoveDrops ==
  ASSUME Layouts, FreezeInv, NEW o \in Dyn, NEW k \in Key, Own(o, k) # Root, RemoveOwn(o, k)
  PROVE  /\ \E i \in DOMAIN Props[o] :
              /\ Props[o][i].key = k
              /\ Props' = [Props EXCEPT ![o] =
                   [j \in 1 .. Len(Props[o]) - 1 |-> Props[o][IF j < i THEN j ELSE j + 1]]]
         /\ Iced
<1> DEFINE s == table[o].shape
           slots == table[o].slots
           hit == Own(o, k)
           r == Removal(shapes, s, slots, hit)
           e == EntriesIn(shapes, s, slots)
           at == shapes[hit].offset + 1
<1>1. TableOK(shapes) /\ RowOK(shapes, s, slots) /\ s \in 0 .. Len(shapes)
  BY DEF Layouts, RowOK, Obj
<1>2. hit \in Chain(shapes, s) /\ shapes[hit].key = k
  BY OwnFinds DEF Finds, Obj
<1>3. /\ Capacity(slots) \in Nat /\ SlotCount(shapes, s) \in 0 .. Capacity(slots)
      /\ DOMAIN slots = 0 .. Capacity(slots) - 1 /\ DOMAIN slots \subseteq Nat
  <2>1. slots \in [0 .. Capacity(slots) - 1 -> Value \cup {Unset}] /\ Capacity(slots) \in Nat
    BY <1>1 DEF RowOK
  <2> QED BY <1>1, <2>1, RowRoom
<1>4. shapes' = r.nodes /\ table' = [table EXCEPT ![o] = Layout(r.at, r.slots, table[o].frozen)]
  BY DEF RemoveOwn
<1>5. Moves
  BY RemoveMoves DEF Obj
<1> HIDE DEF s, slots, hit
<1>6. Without(shapes, s, hit, slots, r)
  BY <1>1, <1>2, <1>3, RemovalWithout
<1> HIDE DEF r
<1>7. EntriesIn(r.nodes, r.at, r.slots) = [j \in 1 .. Len(e) - 1 |-> e[IF j < at THEN j ELSE j + 1]]
  <2>1. EntriesIn(r.nodes, r.at, r.slots) = Dropped(e, at)
    BY <1>1, <1>2, <1>3, <1>6, EntriesRemoved
  <2> QED BY <2>1 DEF Dropped
<1>8. /\ table'[o].shape = r.at /\ table'[o].slots = r.slots /\ table'[o].frozen = table[o].frozen
      /\ \A p \in Obj \ {o} : table'[p] = table[p]
  BY <1>4, RowOnly DEF Obj
<1>9. Entries(o)' = EntriesIn(r.nodes, r.at, r.slots)
  BY <1>4, <1>8, EntriesMean
<1>10. Props' = [Props EXCEPT ![o] = Entries(o)']
  BY <1>5, <1>8, RecordMoves DEF Obj
<1>11. Props[o] = e
  BY EntriesMean DEF Props, s, slots
<1>12. at \in DOMAIN e /\ e[at].key = k
  <2>1. DOMAIN e = 1 .. SlotCount(shapes, s) /\ e[at] = Entry(shapes, slots, hit)
    BY <1>1, <1>2, EntriesShape
  <2>2. at \in 1 .. SlotCount(shapes, s)
    BY <1>1, <1>2, Places
  <2> HIDE DEF e, at
  <2>3. e[at].key = k
    BY <1>2, <2>1 DEF Entry
  <2> QED BY <2>1, <2>2, <2>3
<1> HIDE DEF e, at, Props
<1>13. Iced
  BY <1>8, IcyKept DEF Obj
<1> QED BY <1>7, <1>9, <1>10, <1>11, <1>12, <1>13

----------------------------------------------------------------------------
(* Every step of an object is a step of its record.                         *)
Recordless == UNCHANGED <<Props, Icy, fresh>>

\* What a lookup by the object's own name finds is what the record holds.
LEMMA RecordFinds ==
  ASSUME Layouts, NEW o \in Dyn, NEW k
  PROVE  /\ Own(o, k) # Root => Implemented!Holder(o, k) = o /\ Implemented!ValueOf(o, k) = OwnSlot(o, k)
         /\ Own(o, k) = Root => Implemented!Holder(o, k) = Holder(Proto[o], k)
         /\ Holder(Proto[o], k) # None =>
              Implemented!ValueOf(Holder(Proto[o], k), k) = OwnSlot(Holder(Proto[o], k), k)
<1>1. Implemented!Has(o, k) <=> Own(o, k) # Root
  BY RecordHas
<1>2. Implemented!Holder(o, k) =
        IF Implemented!Has(o, k) THEN o ELSE Implemented!Holder(Proto[o], k)
  BY RecordWalk
<1>3. /\ Implemented!Holder(Proto[o], k) = Holder(Proto[o], k)
      /\ Holder(Proto[o], k) # None =>
           Holder(Proto[o], k) \in Dyn /\ Own(Holder(Proto[o], k), k) # Root
  BY HoldersAgree, LineageFacts
<1>4. Own(o, k) # Root => Implemented!ValueOf(o, k) = OwnSlot(o, k)
  BY RecordHas
<1>5. Holder(Proto[o], k) # None =>
        Implemented!ValueOf(Holder(Proto[o], k), k) = OwnSlot(Holder(Proto[o], k), k)
  BY <1>3, RecordHas
<1> QED BY <1>1, <1>2, <1>3, <1>4, <1>5

\* A hit on a cache is a lookup of the key.
LEMMA HitFinds ==
  ASSUME Caches, NEW x \in Access, NEW o, Hit(x, o)
  PROVE  Own(o, x.key) # Root /\ shapes[Own(o, x.key)].offset = ic[x.site].offset
<1>1. PICK s \in Site : x.site = s /\ x.key = SiteKey[s]
  BY DEF Access, Hit
<1>2. ic[s].shape # Root /\ ic[s].shape = table[o].shape
  BY <1>1 DEF Hit
<1> QED BY <1>1, <1>2 DEF Caches, CacheExact, Own

\* A step that leaves the shapes and the tables alone changes no record.
LEMMA QuietRecords ==
  ASSUME Layouts, FreezeInv, UNCHANGED <<shapes, table>>
  PROVE  Recorded /\ Iced
<1>1. Recorded
  BY QuietMoves, RecordsKept
<1>2. Iced
  BY IcyKept
<1> QED BY <1>1, <1>2

\* jsrt_get_prop answers as the record does, through a cache or past it.
LEMMA GetRefines ==
  ASSUME Layouts, Caches, FreezeInv, NEW o \in Dyn, NEW x \in Access, GetDyn(x, o)
  PROVE  Implemented!Get(o, x.key)
<1> DEFINE k == x.key
           h == Implemented!Holder(o, k)
           held == Implemented!ValueOf(h, k)
<1>1. Recorded /\ Iced /\ fresh' = fresh
  BY QuietRecords DEF GetDyn
<1>2. /\ Own(o, k) # Root => h = o /\ Implemented!ValueOf(o, k) = OwnSlot(o, k)
      /\ Own(o, k) = Root => h = Holder(Proto[o], k)
      /\ Holder(Proto[o], k) # None =>
           Implemented!ValueOf(Holder(Proto[o], k), k) = OwnSlot(Holder(Proto[o], k), k)
  BY RecordFinds
<1>3. o # None
  BY LineageFacts
<1>4. \/ h # None /\ answer' = Resolved(held, o)
      \/ h = None /\ answer' = Reply("undefined", <<>>)
  <2> HIDE DEF h, k
  <2>1. CASE Hit(x, o)
    <3>1. Own(o, k) # Root /\ shapes[Own(o, k)].offset = ic[x.site].offset
      BY <2>1, HitFinds DEF k
    <3>2. answer' = Resolved(OwnSlot(o, k), o)
      BY <2>1, <3>1 DEF GetDyn, OwnSlot, k
    <3> QED BY <1>2, <1>3, <3>1, <3>2
  <2>2. CASE ~Hit(x, o) /\ Own(o, k) # Root
    <3>1. answer' = Resolved(OwnSlot(o, k), o)
      BY <2>2 DEF GetDyn, k
    <3> QED BY <1>2, <1>3, <2>2, <3>1
  <2>3. CASE ~Hit(x, o) /\ Own(o, k) = Root
    <3>1. answer' = Inherited(o, k)
      BY <2>3 DEF GetDyn, k
    <3> QED BY <1>2, <2>3, <3>1 DEF Inherited
  <2> QED BY <2>1, <2>2, <2>3
<1> HIDE DEF h, held
<1>5. /\ \/ h = None /\ answer' = Implemented!Reply("undefined", <<>>)
         \/ /\ h # None
            /\ \/ held \notin Cell /\ answer' = Implemented!Reply("value", <<held>>)
               \/ held \in Getter /\ answer' = Implemented!Reply("getter", <<held, o>>)
               \/ held \in Cell \ Getter /\ answer' = Implemented!Reply("undefined", <<>>)
  BY <1>4, ObjectAssumption DEF Resolved, Reply, Implemented!Reply
<1> QED BY <1>1, <1>5 DEF Implemented!Get, Implemented!Answer, h, held, k, Recorded, Iced, Props, Icy

\* An object the program can use is one it can use as a record.
LEMMA UsableRecord ==
  ASSUME NEW o \in Dyn
  PROVE  Usable(o) => Implemented!Usable(o)
BY DEF Usable, Implemented!Usable

\* jsrt_in answers as the record does, unless it calls the getter of an accessor
\* that a prototype has under the key.
LEMMA InRefines ==
  ASSUME Layouts, FreezeInv, NEW o \in Dyn, NEW k \in Key, Usable(o), In(o, k)
  PROVE  (Implemented!In(o, k) /\ Implemented!Usable(o)) \/ InRunsGetter
<1> DEFINE h == Holder(Proto[o], k)
           calls == Own(o, k) = Root /\ h # None /\ OwnSlot(h, k) \in Getter
<1>1. Recorded /\ Iced /\ UNCHANGED <<shapes, table, fresh>>
  BY QuietRecords DEF In
<1>2. /\ Implemented!Has(o, k) <=> Own(o, k) # Root
      /\ Implemented!Holder(o, k) # None <=> Own(o, k) # Root \/ h # None
      /\ h # None => Implemented!ValueOf(h, k) = OwnSlot(h, k)
  BY RecordHas, RecordFinds, LineageFacts
<1>3. Implemented!Holder(Proto[o], k) = h
  BY HoldersAgree, LineageFacts
<1>4. Implemented!Usable(o)
  BY UsableRecord
<1>5. /\ Has(o, k) <=> Own(o, k) # Root
      /\ o \notin Fixed
  BY ObjectAssumption DEF Has
<1>6. \/ calls /\ answer' = Reply("getter, then true", <<OwnSlot(h, k), o>>)
      \/ ~calls /\ answer' = Truth(Own(o, k) # Root \/ h # None)
  <2> HIDE DEF h
  <2>1. CASE Own(o, k) # Root
    BY <1>5, <2>1 DEF In
  <2>2. CASE Own(o, k) = Root
    BY <1>5, <2>2 DEF In, h
  <2> QED BY <2>1, <2>2
<1> HIDE DEF h
<1>7. CASE calls /\ answer' = Reply("getter, then true", <<OwnSlot(h, k), o>>)
  BY <1>1, <1>2, <1>3, <1>4, <1>7 DEF InRunsGetter
<1>8. CASE answer' = Truth(Own(o, k) # Root \/ h # None)
  <2>1. answer' = Truth(Implemented!Holder(o, k) # None)
    BY <1>2, <1>8 DEF Truth
  <2>2. Implemented!In(o, k)
    BY <1>1, <2>1 DEF Implemented!In, Implemented!Truth, Implemented!Reply, Truth, Reply,
                      Recorded, Iced, Props, Icy
  <2> QED BY <1>4, <2>2
<1> QED BY <1>6, <1>7, <1>8

\* A write of an own slot and an addition, as writes of the record.
LEMMA WriteRefines ==
  ASSUME Layouts, FreezeInv, NEW o \in Dyn, NEW k \in Key, NEW v \in Data, ~table[o].frozen,
         Own(o, k) # Root, WriteOwn(o, shapes[Own(o, k)].offset, v), UNCHANGED <<shapes, fresh>>
  PROVE  Implemented!Set(o, k, v)
<1> DEFINE h == Implemented!Holder(o, k)
           c == IF h = None THEN None ELSE Implemented!ValueOf(h, k)
<1>1. c = OwnSlot(o, k)
  BY RecordFinds, LineageFacts
<1>2. o \notin Icy
  BY DEF Icy
<1>3. CASE c \in Cell
  <2>1. UNCHANGED table /\ answer' = AccessorWrite(c, o, v)
    BY <1>1, <1>3 DEF WriteOwn, OwnSlot
  <2>2. Recorded /\ Iced
    BY <2>1, QuietRecords
  <2>3. \/ c \in Setter /\ answer' = Implemented!Reply("setter", <<c, o, v>>)
        \/ c \notin Setter /\ answer' = Implemented!Reply("TypeError", <<>>)
    <3> HIDE DEF c
    <3> QED BY <2>1 DEF AccessorWrite, Reply, Implemented!Reply
  <2> HIDE DEF c
  <2> QED BY <1>2, <1>3, <2>2, <2>3
      DEF Implemented!Set, Implemented!Answer, c, Recorded, Iced, Props, Icy
<1>4. CASE c \notin Cell
  <2>1. PutSlot(o, shapes[Own(o, k)].offset, v) /\ answer' = Reply("value", <<v>>)
    BY <1>1, <1>4 DEF WriteOwn, OwnSlot
  <2>2. Implemented!Store(o, k, v) /\ Iced
    BY <2>1, PutStores DEF Value
  <2> HIDE DEF c
  <2> QED BY <1>2, <1>4, <2>1, <2>2
      DEF Implemented!Set, Implemented!Answer, Implemented!Reply, Reply, c, Iced, Icy
<1> QED BY <1>3, <1>4

\* A write of a key the object does not have, which an inherited accessor may take.
LEMMA AddRefines ==
  ASSUME Layouts, FreezeInv, NEW o \in Dyn, NEW k \in Key, NEW v \in Data, ~table[o].frozen,
         Own(o, k) = Root, AddOrInherit(o, k, v), UNCHANGED fresh
  PROVE  Implemented!Set(o, k, v)
<1> DEFINE h == Implemented!Holder(o, k)
           c == IF h = None THEN None ELSE Implemented!ValueOf(h, k)
           g == Holder(Proto[o], k)
<1>1. c = IF g = None THEN None ELSE OwnSlot(g, k)
  BY RecordFinds
<1>2. o \notin Icy /\ None \notin Cell
  BY ObjectAssumption DEF Icy
<1>3. InheritedAccessor(o, k) = IF c \in Cell THEN c ELSE None
  BY <1>1, <1>2 DEF InheritedAccessor
<1> HIDE DEF c
<1>4. CASE c \in Cell
  <2>1. UNCHANGED <<shapes, table>> /\ answer' = AccessorWrite(c, o, v)
    BY <1>2, <1>3, <1>4 DEF AddOrInherit
  <2>2. Recorded /\ Iced
    BY <2>1, QuietRecords, SMTT(30)
  <2>3. \/ c \in Setter /\ answer' = Implemented!Reply("setter", <<c, o, v>>)
        \/ c \notin Setter /\ answer' = Implemented!Reply("TypeError", <<>>)
    BY <2>1, SMTT(30) DEF AccessorWrite, Reply, Implemented!Reply
  <2> QED BY <1>2, <1>4, <2>2, <2>3
      DEF Implemented!Set, Implemented!Answer, c, Recorded, Iced, Props, Icy
<1>5. CASE c \notin Cell
  <2>1. AddOwn(o, k, v) /\ answer' = Reply("value", <<v>>)
    BY <1>3, <1>5 DEF AddOrInherit, AddOwn
  <2>2. Implemented!Store(o, k, v) /\ Iced
    BY <2>1, AddStores DEF Value
  <2> QED BY <1>2, <1>5, <2>1, <2>2, SMTT(30)
      DEF Implemented!Set, Implemented!Answer, Implemented!Reply, Reply, c, Iced, Icy
<1> QED BY <1>4, <1>5

\* store_prop on a dynamic object is a write of the record.
LEMMA SetRefines ==
  ASSUME Layouts, Caches, FreezeInv, NEW o \in Dyn, NEW x \in Access, NEW v \in Data, SetDyn(x, o, v)
  PROVE  Implemented!Set(o, x.key, v)
<1> DEFINE k == x.key
<1>1. k \in Key /\ fresh' = fresh
  BY AccessKey DEF SetDyn
<1>2. CASE table[o].frozen
  <2>1. answer' = Reply("TypeError", <<>>) /\ UNCHANGED <<shapes, table>>
    BY <1>2 DEF SetDyn, Refuse
  <2>2. Recorded /\ Iced /\ o \in Icy
    BY <1>2, <2>1, QuietRecords DEF Icy
  <2> QED BY <1>1, <2>1, <2>2
      DEF Implemented!Set, Implemented!Answer, Implemented!Reply, Reply, Recorded, Iced, Props, Icy
<1>3. CASE ~table[o].frozen /\ Hit(x, o)
  <2>1. Own(o, k) # Root /\ shapes[Own(o, k)].offset = ic[x.site].offset
    BY <1>3, HitFinds
  <2>2. WriteOwn(o, shapes[Own(o, k)].offset, v) /\ UNCHANGED shapes
    BY <1>3, <2>1 DEF SetDyn
  <2> HIDE DEF k
  <2>3. Implemented!Set(o, k, v)
    BY <1>1, <1>3, <2>1, <2>2, WriteRefines
  <2> QED BY <2>3 DEF k
<1>4. CASE ~table[o].frozen /\ ~Hit(x, o) /\ Own(o, k) # Root
  <2>1. WriteOwn(o, shapes[Own(o, k)].offset, v) /\ UNCHANGED shapes
    BY <1>4 DEF SetDyn
  <2> HIDE DEF k
  <2>2. Implemented!Set(o, k, v)
    BY <1>1, <1>4, <2>1, WriteRefines
  <2> QED BY <2>2 DEF k
<1>5. CASE ~table[o].frozen /\ ~Hit(x, o) /\ Own(o, k) = Root
  <2>1. AddOrInherit(o, k, v)
    BY <1>5 DEF SetDyn
  <2> HIDE DEF k
  <2>2. Implemented!Set(o, k, v)
    BY <1>1, <1>5, <2>1, AddRefines
  <2> QED BY <2>2 DEF k
<1> QED BY <1>2, <1>3, <1>4, <1>5

\* An entry of a literal meets no prototype and no frozen object.
LEMMA LiteralRefines ==
  ASSUME Layouts, Marks, FreezeInv, NEW o \in fresh, NEW k \in Key, NEW v \in Data, LiteralEntry(o, k, v)
  PROVE  Implemented!Set(o, k, v)
<1>1. o \in Dyn /\ Proto[o] = None /\ ~table[o].frozen /\ fresh' = fresh
  BY DEF Marks, FreezeInv, LiteralEntry
<1>2. CASE Own(o, k) # Root
  <2>1. WriteOwn(o, shapes[Own(o, k)].offset, v) /\ UNCHANGED shapes
    BY <1>2 DEF LiteralEntry
  <2> QED BY <1>1, <1>2, <2>1, WriteRefines
<1>3. CASE Own(o, k) = Root
  <2>1. AddOwn(o, k, v)
    BY <1>3 DEF LiteralEntry
  <2>2. InheritedAccessor(o, k) = None
    BY <1>1, HolderWalk DEF InheritedAccessor
  <2>3. AddOrInherit(o, k, v)
    BY <2>1, <2>2 DEF AddOrInherit
  <2> QED BY <1>1, <1>3, <2>3, AddRefines
<1> QED BY <1>2, <1>3

\* jsrt_define_accessor stores the cell in the record.
LEMMA DefineRefines ==
  ASSUME Layouts, FreezeInv, NEW o \in Dyn, NEW k \in Key, NEW c \in Cell, Define(o, k, c)
  PROVE  Implemented!Define(o, k, c)
<1>1. fresh' = fresh /\ answer' = Reply("value", <<c>>) /\ c \in Value
  BY DEF Define, AddOwn, Value
<1>2. CASE Own(o, k) # Root
  <2>1. PutSlot(o, shapes[Own(o, k)].offset, c) /\ UNCHANGED shapes
    BY <1>2 DEF Define
  <2>2. Implemented!Store(o, k, c) /\ Iced
    BY <1>1, <1>2, <2>1, PutStores
  <2> QED BY <1>1, <2>2 DEF Implemented!Define, Implemented!Answer, Implemented!Reply, Reply, Iced, Icy
<1>3. CASE Own(o, k) = Root
  <2>1. AddOwn(o, k, c)
    BY <1>3 DEF Define
  <2>2. Implemented!Store(o, k, c) /\ Iced
    BY <1>1, <1>3, <2>1, AddStores
  <2> QED BY <1>1, <2>2 DEF Implemented!Define, Implemented!Answer, Implemented!Reply, Reply, Iced, Icy
<1> QED BY <1>2, <1>3, SMTT(30)

\* jsrt_delete drops the key from the record.
LEMMA DeleteRefines ==
  ASSUME Layouts, FreezeInv, NEW o \in Dyn, NEW k \in Key, Delete(o, k)
  PROVE  Implemented!Delete(o, k)
<1>1. o \notin Fixed /\ fresh' = fresh /\ (Has(o, k) <=> Own(o, k) # Root)
  BY ObjectAssumption DEF Delete, Has
<1>2. Implemented!Has(o, k) <=> Own(o, k) # Root
  BY RecordHas
<1>3. CASE Own(o, k) # Root /\ table[o].frozen
  <2>1. Refuse
    BY <1>1, <1>3 DEF Delete
  <2>2. Recorded /\ Iced /\ o \in Icy /\ answer' = Reply("TypeError", <<>>)
    BY <1>3, <2>1, QuietRecords DEF Refuse, Icy
  <2> QED BY <1>1, <1>2, <1>3, <2>2
      DEF Implemented!Delete, Implemented!Answer, Implemented!Reply, Reply, Recorded, Iced, Props, Icy
<1>4. CASE Own(o, k) # Root /\ ~table[o].frozen
  <2>1. RemoveOwn(o, k)
    BY <1>1, <1>4 DEF Delete
  <2>2. /\ \E i \in DOMAIN Props[o] :
             /\ Props[o][i].key = k
             /\ Props' = [Props EXCEPT ![o] =
                  [j \in 1 .. Len(Props[o]) - 1 |-> Props[o][IF j < i THEN j ELSE j + 1]]]
        /\ Iced
    BY <1>4, <2>1, RemoveDrops
  <2>3. answer' = Implemented!Truth(TRUE) /\ o \notin Icy
    BY <1>4, <2>1 DEF RemoveOwn, Truth, Reply, Implemented!Truth, Implemented!Reply, Icy
  <2> QED BY <1>1, <2>2, <2>3 DEF Implemented!Delete, Iced, Props, Icy
<1>5. CASE Own(o, k) = Root
  <2>1. answer' = Truth(TRUE) /\ UNCHANGED <<shapes, table>>
    BY <1>1, <1>5 DEF Delete
  <2>2. Recorded /\ Iced
    BY <2>1, QuietRecords
  <2> QED BY <1>1, <1>2, <1>5, <2>1, <2>2
      DEF Implemented!Delete, Implemented!Truth, Implemented!Reply, Truth, Reply, Recorded, Iced, Props, Icy
<1> QED BY <1>3, <1>4, <1>5

\* jsrt_object_freeze freezes the record.
LEMMA FreezeRefines ==
  ASSUME Layouts, FreezeInv, NEW o \in Dyn, Freeze(o)
  PROVE  Implemented!Freeze(o)
<1>1. /\ table' = [table EXCEPT ![o] = Layout(table[o].shape, table[o].slots, TRUE)]
      /\ answer' = Reply("value", <<o>>) /\ UNCHANGED <<shapes, fresh>>
  BY DEF Freeze
<1>2. /\ table'[o].shape = table[o].shape /\ table'[o].slots = table[o].slots /\ table'[o].frozen = TRUE
      /\ \A p \in Obj \ {o} : table'[p] = table[p]
  BY <1>1, RowOnly DEF Obj
<1>3. Moves
  BY FreezeMoves DEF Obj
<1>4. Entries(o)' = Entries(o)
  BY <1>1, <1>2, EntriesMean
<1>5. \A p \in Dyn : Entries(p)' = Entries(p)
  BY <1>2, <1>3, <1>4, EntriesKept DEF Obj
<1>6. Props' = Props
  BY <1>5 DEF Props
<1>7. Icy' = Icy \cup {o}
  BY <1>2 DEF Icy, Obj
<1> QED BY <1>1, <1>6, <1>7
    DEF Implemented!Freeze, Implemented!Answer, Implemented!Reply, Reply, Props, Icy

----------------------------------------------------------------------------
(* The order of the keys.                                                   *)
\* The record comparison is the comparison of the nodes.
LEMMA EarlierBefore ==
  ASSUME TableOK(shapes), NEW o \in Dyn, table[o].shape \in 0 .. Len(shapes),
         NEW m \in Chain(shapes, table[o].shape), NEW n \in Chain(shapes, table[o].shape),
         Before(shapes, m, n)
  PROVE  Implemented!Earlier(Props[o], shapes[m].offset + 1, shapes[n].offset + 1)
<1> DEFINE s == table[o].shape
           e == EntriesIn(shapes, s, table[o].slots)
           i == shapes[m].offset + 1
           j == shapes[n].offset + 1
           km == shapes[m].key
           kn == shapes[n].key
<1>1. /\ e[i] = Entry(shapes, table[o].slots, m)
      /\ e[j] = Entry(shapes, table[o].slots, n)
  BY EntriesShape
<1>2. Props[o] = e
  BY EntriesMean DEF Props
<1>3. shapes[m].offset \in Nat /\ shapes[n].offset \in Nat
  BY Places
<1>4. (shapes[m].offset < shapes[n].offset) <=> i < j
  BY <1>3
<1> HIDE DEF e, i, j
<1>5. e[i].key = km /\ e[j].key = kn
  BY <1>1 DEF Entry
<1>6. /\ km \in DOMAIN Numeric => Numeric[km] \in Nat
      /\ kn \in DOMAIN Numeric => Numeric[kn] \in Nat
  BY ShapeAssumption
<1>7. IF (km \in DOMAIN Numeric) # (kn \in DOMAIN Numeric) THEN km \in DOMAIN Numeric
      ELSE IF km \in DOMAIN Numeric /\ Numeric[km] # Numeric[kn] THEN Numeric[km] < Numeric[kn]
      ELSE i < j
  BY <1>4 DEF Before
<1>8. Implemented!Earlier(e, i, j)
  <2> HIDE DEF km, kn
  <2> QED BY <1>5, <1>6, <1>7 DEF Implemented!Earlier
<1> QED BY <1>2, <1>8 DEF i, j

\* Object.keys lists the record's keys in enumeration order.
LEMMA KeysRefines ==
  ASSUME Layouts, FreezeInv, NEW o \in Dyn, Keys(o)
  PROVE  Implemented!Keys(o)
<1> DEFINE s == table[o].shape
           c == SlotCount(shapes, s)
           order == PropertyOrder(shapes, s)
           e == EntriesIn(shapes, s, table[o].slots)
           place == [i \in 1 .. c |-> shapes[order[i]].offset + 1]
<1>1. TableOK(shapes) /\ s \in 0 .. Len(shapes)
  BY DEF Layouts, RowOK, Obj
<1>2. Recorded /\ Iced /\ fresh' = fresh
  BY QuietRecords DEF Keys
<1>3. answer' = Reply("keys", [i \in DOMAIN order |-> shapes[order[i]].key])
  BY DEF Keys
<1>4. /\ order = [i \in 1 .. c |-> order[i]]
      /\ \A i \in 1 .. c : order[i] \in Chain(shapes, s)
      /\ \A i, j \in 1 .. c : i < j => Before(shapes, order[i], order[j])
  BY <1>1, OrderSorted DEF Sorted
<1>5. Props[o] = e /\ DOMAIN e = 1 .. c
  BY <1>1, EntriesMean, EntriesShape DEF Props
<1>6. \A i \in 1 .. c : shapes[order[i]].offset + 1 \in 1 .. c
  <2> HIDE DEF order, c
  <2> QED BY <1>1, <1>4, Places DEF c
<1>7. place \in [DOMAIN Props[o] -> DOMAIN Props[o]]
  <2> HIDE DEF order, c, e
  <2> QED BY <1>5, <1>6
<1>8. ASSUME NEW i \in 1 .. c, NEW j \in 1 .. c, i < j
      PROVE  Implemented!Earlier(Props[o], place[i], place[j])
  <2>1. order[i] \in Chain(shapes, s) /\ order[j] \in Chain(shapes, s) /\ Before(shapes, order[i], order[j])
    BY <1>4, <1>8
  <2>2. place[i] = shapes[order[i]].offset + 1 /\ place[j] = shapes[order[j]].offset + 1
    OBVIOUS
  <2> HIDE DEF order, c, place
  <2> QED BY <1>1, <2>1, <2>2, EarlierBefore
<1>9. ASSUME NEW i \in 1 .. c PROVE Props[o][place[i]].key = shapes[order[i]].key
  <2>1. order[i] \in Chain(shapes, s) /\ place[i] = shapes[order[i]].offset + 1
    BY <1>4
  <2> HIDE DEF order, c, place
  <2>2. e[place[i]] = Entry(shapes, table[o].slots, order[i])
    BY <1>1, <2>1, EntriesShape
  <2> HIDE DEF e
  <2> QED BY <1>5, <2>2 DEF Entry
<1>10. [i \in DOMAIN order |-> shapes[order[i]].key] = [i \in DOMAIN Props[o] |-> Props[o][place[i]].key]
  <2>1. DOMAIN order = 1 .. c /\ DOMAIN Props[o] = 1 .. c
    BY <1>4, <1>5
  <2> HIDE DEF order, c, place, Props
  <2> QED BY <1>9, <2>1
<1>11. \A i, j \in DOMAIN Props[o] : i < j => Implemented!Earlier(Props[o], place[i], place[j])
  BY <1>5, <1>8
<1> HIDE DEF place, order, e, c
<1>12. \E p \in [DOMAIN Props[o] -> DOMAIN Props[o]] :
         /\ \A i, j \in DOMAIN Props[o] : i < j => Implemented!Earlier(Props[o], p[i], p[j])
         /\ answer' = Implemented!Reply("keys", [i \in DOMAIN Props[o] |-> Props[o][p[i]].key])
  <2>1. answer' = Implemented!Reply("keys", [i \in DOMAIN Props[o] |-> Props[o][place[i]].key])
    BY <1>3, <1>10 DEF Reply, Implemented!Reply
  <2> HIDE DEF Props
  <2> QED BY <1>7, <1>11, <2>1
<1> QED BY <1>2, <1>12
    DEF Implemented!Keys, Implemented!Answer, Recorded, Iced, Props, Icy

----------------------------------------------------------------------------
\* A step of a fixed object, and one that only ends a literal.
LEMMA ElsewhereRefines ==
  ASSUME Layouts, FreezeInv, Moves, Fixed # {}, \A p \in Dyn : table'[p] = table[p], fresh' = fresh
  PROVE  Implemented!Elsewhere
<1>1. Recorded
  BY RecordsKept
<1>2. Iced
  BY IcyKept
<1> QED BY <1>1, <1>2 DEF Implemented!Elsewhere, Recorded, Iced, Props, Icy

\* An operation on a fixed object.
FixedStep(o) ==
  \/ Freeze(o)
  \/ \E k \in Key : In(o, k) \/ Delete(o, k) \/ GetFixed(o, k) \/ \E v \in Data : SetFixed(o, k, v)
  \/ \E k \in Declared, v \in Data : SetField(o, k, v)

\* It changes no record.
LEMMA FixedRefines ==
  ASSUME Layouts, FreezeInv, Moves, NEW o \in Fixed, FixedStep(o)
  PROVE  Implemented!Elsewhere
<1>1. o \notin Dyn /\ o \in Obj /\ Fixed # {} /\ DOMAIN table = Obj /\ \A p \in Dyn : p \in Obj
  BY ObjectAssumption DEF Obj, FreezeInv
<1>2. fresh' = fresh
  BY DEF FixedStep, Freeze, In, Delete, GetFixed, SetFixed, SetField
<1>3. \A p \in Dyn : table'[p] = table[p]
  <2>1. CASE UNCHANGED table
    BY <2>1
  <2>2. CASE \E row : table' = [table EXCEPT ![o] = row]
    BY <1>1, <2>2
  <2>3. CASE Freeze(o)
    BY <2>1, <2>2, <2>3 DEF Freeze
  <2>4. CASE \E k \in Key : Delete(o, k)
    BY <2>1, <2>2, <2>4 DEF Delete, Refuse, RemoveOwn
  <2>5. CASE \E k \in Key, v \in Data : SetFixed(o, k, v)
    BY <2>1, <2>2, <2>5 DEF SetFixed, Refuse, WriteOwn, PutSlot, AddOwn
  <2> QED BY <2>1, <2>3, <2>4, <2>5 DEF FixedStep, In, GetFixed, SetField
<1> QED BY <1>1, <1>2, <1>3, ElsewhereRefines

\* Every step of the objects is a step of the records, or an `in` that calls a
\* getter.
LEMMA ObjectsRefine ==
  ASSUME ObjectInv, [Next]_vars
  PROVE  [Implemented!Next \/ InRunsGetter]_(Implemented!vars)
<1>0. Layouts /\ Caches /\ Marks /\ FreezeInv /\ Moves
  BY ObjectParts, StepMoves
<1>1. CASE UNCHANGED vars
  <2>1. Recorded /\ Iced /\ UNCHANGED <<fresh, answer>>
    BY <1>0, <1>1, QuietRecords DEF vars
  <2> QED BY <2>1 DEF Implemented!vars, Recorded, Iced, Props, Icy
<1>2. CASE Next
  <2>1. ASSUME NEW o \in fresh, NEW k \in Key,
               \/ \E v \in Data : LiteralEntry(o, k, v)
               \/ \E c \in Cell : Define(o, k, c)
        PROVE  Implemented!Next
    <3>1. o \in Dyn
      BY <1>0 DEF FreezeInv
    <3>2. (\E v \in Data : Implemented!Set(o, k, v)) \/ (\E c \in Cell : Implemented!Define(o, k, c))
      BY <1>0, <2>1, <3>1, LiteralRefines, DefineRefines
    <3> QED BY <3>2 DEF Implemented!Next
  <2>2. ASSUME NEW o \in fresh, Built(o) PROVE Implemented!Next
    <3>1. Recorded /\ Iced
      BY <1>0, <2>2, QuietRecords DEF Built
    <3>2. Implemented!Built(o)
      BY <2>2, <3>1 DEF Built, Implemented!Built, Recorded, Iced, Props, Icy
    <3> QED BY <3>2 DEF Implemented!Next
  <2>3. ASSUME NEW o \in Dyn, Usable(o), Keys(o) PROVE Implemented!Next
    <3>1. Implemented!Keys(o) /\ Implemented!Usable(o)
      BY <1>0, <2>3, KeysRefines, UsableRecord
    <3> QED BY <3>1 DEF Implemented!Next
  <2>4. ASSUME NEW o \in Dyn, Usable(o), Freeze(o) PROVE Implemented!Next
    <3>1. Implemented!Freeze(o) /\ Implemented!Usable(o)
      BY <1>0, <2>4, FreezeRefines, UsableRecord
    <3> QED BY <3>1 DEF Implemented!Next
  <2>5. ASSUME NEW o \in Dyn, Usable(o), NEW k \in Key, In(o, k) \/ Delete(o, k)
        PROVE  Implemented!Next \/ InRunsGetter
    <3>1. \/ (Implemented!In(o, k) \/ Implemented!Delete(o, k)) /\ Implemented!Usable(o)
          \/ InRunsGetter
      BY <1>0, <2>5, InRefines, DeleteRefines, UsableRecord
    <3> QED BY <3>1 DEF Implemented!Next
  <2>6. ASSUME NEW o \in Dyn, Usable(o), NEW x \in Access, GetDyn(x, o) PROVE Implemented!Next
    <3>1. Implemented!Get(o, x.key) /\ Implemented!Usable(o) /\ x.key \in Key
      BY <1>0, <2>6, GetRefines, UsableRecord, AccessKey
    <3> QED BY <3>1 DEF Implemented!Next
  <2>7. ASSUME NEW o \in Dyn, Usable(o), NEW x \in Access, NEW v \in Data, SetDyn(x, o, v)
        PROVE  Implemented!Next
    <3>1. Implemented!Set(o, x.key, v) /\ Implemented!Usable(o) /\ x.key \in Key
      BY <1>0, <2>7, SetRefines, UsableRecord, AccessKey
    <3> QED BY <3>1 DEF Implemented!Next
  <2>8. ASSUME NEW o \in Fixed, FixedStep(o) PROVE Implemented!Next
    BY <1>0, <2>8, FixedRefines DEF Implemented!Next
  <2> QED BY <1>2, <2>1, <2>2, <2>3, <2>4, <2>5, <2>6, <2>7, <2>8, ObjectAssumption DEF Next, FixedStep, Obj
<1> QED BY <1>1, <1>2

\* Objects that have no properties yet are empty records.
LEMMA RecordsStart ==
  ASSUME Init
  PROVE  Implemented!Init
<1>1. ASSUME NEW o \in Dyn
      PROVE  table[o].shape = Root /\ table[o].slots = <<>> /\ table[o].frozen = FALSE
  BY DEF Init, Layout, Obj
<1>2. ASSUME NEW o \in Dyn PROVE Entries(o) = <<>>
  <2> DEFINE order == SlotOrder(shapes, table[o].shape)
             b(i) == [key |-> shapes[order[i]].key, value |-> table[o].slots[i - 1]]
  <2>1. SlotCount(shapes, table[o].shape) = 0
    BY <1>1 DEF SlotCount
  <2>2. DOMAIN order = {}
    BY <2>1 DEF SlotOrder
  <2> HIDE DEF order
  <2>3. Entries(o) = [i \in DOMAIN order |-> b(i)]
    BY DEF Entries, order
  <2> HIDE DEF b
  <2> QED BY <2>2, <2>3
<1>3. Props = [o \in Dyn |-> <<>>]
  BY <1>2 DEF Props
<1>4. Icy = {}
  BY <1>1 DEF Icy
<1> QED BY <1>3, <1>4 DEF Init, Implemented!Init, Reply, Implemented!Reply, Props, Icy

\* Shapes, slots, inline caches and prototype walks implement plain
\* insertion-ordered records: every answer, through a cache or past it, is the
\* answer of the record, and every write, removal and freeze changes the record of
\* the one object it was asked of. The one step excepted is named: `in` calls the
\* getter of an accessor it finds on a prototype, which a record only looks for.
THEOREM RecordsImplemented == Spec => ImplementsRecords
<1>1. Init => Implemented!Init
  BY RecordsStart
<1>2. ObjectInv /\ [Next]_vars => [Implemented!Next \/ InRunsGetter]_(Implemented!vars)
  BY ObjectsRefine
<1> QED BY <1>1, <1>2, ObjectInvariance, PTL DEF Spec, ImplementsRecords

----------------------------------------------------------------------------
(* The walk over an object's entries.                                       *)
\* A block keeps its places, and every place that held a value holds one.
Survives(old, new) ==
  /\ DOMAIN old \subseteq DOMAIN new
  /\ \A i \in DOMAIN old : old[i] \in Value => new[i] \in Value

BlocksSurvive == \A o \in Obj : Survives(table[o].slots, table'[o].slots)

\* One object takes another block that keeps what the old one held.
LEMMA RowSurvives ==
  ASSUME FreezeInv, NEW o \in Obj, NEW shape, NEW slots, NEW frozen,
         table' = [table EXCEPT ![o] = Layout(shape, slots, frozen)],
         Survives(table[o].slots, slots)
  PROVE  BlocksSurvive
<1>1. table'[o].slots = slots /\ \A p \in Obj \ {o} : table'[p] = table[p]
  <2>1. table'[o] = Layout(shape, slots, frozen)
    BY DEF FreezeInv
  <2>2. \A p \in Obj \ {o} : table'[p] = table[p]
    BY DEF FreezeInv
  <2> QED BY <2>1, <2>2 DEF Layout
<1> QED BY <1>1 DEF BlocksSurvive, Survives

\* Making room copies the old block.
LEMMA AddSurvives ==
  ASSUME Layouts, FreezeInv, NEW o \in Obj, NEW k \in Key, NEW v \in Value,
         Own(o, k) = Root, AddOwn(o, k, v)
  PROVE  BlocksSurvive
<1> DEFINE s == table[o].shape
           slots == table[o].slots
           next == Transition(shapes, s, k)
           at == next.nodes[next.at].offset
           room == Reserve(slots, at)
           new == [room EXCEPT ![at] = v]
           cap == Capacity(slots)
<1>1. TableOK(shapes) /\ RowOK(shapes, s, slots) /\ s \in 0 .. Len(shapes)
  BY DEF Layouts, RowOK
<1>2. Held(shapes, s, k) = {}
  BY OwnFinds DEF Finds
<1>3. Added(shapes, s, k, next.nodes, next.at)
  BY <1>1, <1>2, TransitionAdds
<1>4. at = SlotCount(shapes, s)
  BY <1>3, SMTT(30) DEF Added
<1>5. table' = [table EXCEPT ![o] = Layout(next.at, new, table[o].frozen)]
  BY DEF AddOwn
<1> HIDE DEF s, slots, next, at
<1>6. cap \in Nat /\ DOMAIN slots = 0 .. cap - 1 /\ at \in 0 .. cap
  <2>1. slots \in [0 .. cap - 1 -> Value \cup {Unset}] /\ cap \in Nat
    BY <1>1 DEF RowOK
  <2> QED BY <1>1, <1>4, <2>1, RowRoom
<1> HIDE DEF cap
<1>7. PICK m : Roomy(slots, cap, at, room, m)
  BY <1>6, Reserved
<1> HIDE DEF room
<1>8. /\ m \in Nat /\ m >= cap /\ DOMAIN room = 0 .. m - 1
      /\ \A i \in 0 .. m - 1 : room[i] = IF i < cap THEN slots[i] ELSE Unset
  BY <1>7 DEF Roomy
<1>9. \A i \in DOMAIN slots : i \in DOMAIN new /\ (new[i] = slots[i] \/ new[i] = v)
  BY <1>6, <1>8
<1> HIDE DEF new
<1>10. Survives(slots, new)
  BY <1>9 DEF Survives
<1> QED BY <1>5, <1>10, RowSurvives DEF slots

\* A removal compacts the block and leaves what is beyond the last entry.
LEMMA RemoveSurvives ==
  ASSUME Layouts, FreezeInv, NEW o \in Obj, NEW k \in Key, Own(o, k) # Root, RemoveOwn(o, k)
  PROVE  BlocksSurvive
<1> DEFINE s == table[o].shape
           slots == table[o].slots
           hit == Own(o, k)
           r == Removal(shapes, s, slots, hit)
           c == SlotCount(shapes, s)
           g == shapes[hit].offset
           new == r.slots
<1>1. TableOK(shapes) /\ RowOK(shapes, s, slots) /\ s \in 0 .. Len(shapes)
  BY DEF Layouts, RowOK
<1>2. hit \in Chain(shapes, s)
  BY OwnFinds DEF Finds
<1>3. DOMAIN slots \subseteq Nat /\ \A i \in 0 .. c - 1 : slots[i] \in Value
  BY <1>1 DEF RowOK
<1>4. table' = [table EXCEPT ![o] = Layout(r.at, r.slots, table[o].frozen)]
  BY DEF RemoveOwn
<1> HIDE DEF s, slots, hit
<1>5. Without(shapes, s, hit, slots, r)
  BY <1>1, <1>2, <1>3, RemovalWithout
<1>6. c \in Nat /\ g \in Nat
  BY <1>1, <1>2, Places
<1>7. /\ DOMAIN new = DOMAIN slots
      /\ \A i \in DOMAIN slots :
           new[i] = IF i < c - 1 THEN slots[IF i < g THEN i ELSE i + 1] ELSE slots[i]
  BY <1>5 DEF Without
<1> HIDE DEF c, g, new
<1>8. ASSUME NEW i \in DOMAIN slots, slots[i] \in Value PROVE new[i] \in Value
  <2>1. CASE i < c - 1
    <3>1. i \in 0 .. c - 1 /\ i + 1 \in 0 .. c - 1
      BY <1>3, <1>6, <2>1
    <3>2. new[i] = slots[i] \/ new[i] = slots[i + 1]
      BY <1>7, <2>1
    <3> QED BY <1>3, <3>1, <3>2
  <2>2. CASE ~(i < c - 1)
    BY <1>7, <1>8, <2>2
  <2> QED BY <2>1, <2>2
<1>9. Survives(slots, new)
  BY <1>7, <1>8 DEF Survives
<1> HIDE DEF r
<1> QED BY <1>4, <1>9, RowSurvives DEF slots, new

\* No operation takes a stored value out of a block without another in its place.
LEMMA StepSurvives ==
  ASSUME Layouts, FreezeInv, RowStep
  PROVE  BlocksSurvive
<1>1. CASE UNCHANGED <<shapes, table>>
  BY <1>1 DEF BlocksSurvive, Survives
<1>2. ASSUME NEW o \in Obj, Freeze(o) PROVE BlocksSurvive
  <2>1. CASE UNCHANGED table
    BY <2>1 DEF BlocksSurvive, Survives
  <2>2. CASE table' = [table EXCEPT ![o] = Layout(table[o].shape, table[o].slots, TRUE)]
    <3>1. Survives(table[o].slots, table[o].slots)
      BY DEF Survives
    <3> QED BY <2>2, <3>1, RowSurvives
  <2> QED BY <1>2, <2>1, <2>2 DEF Freeze
<1>3. ASSUME NEW o \in Obj, NEW v \in Value, NEW at, PutSlot(o, at, v) PROVE BlocksSurvive
  <2> DEFINE new == [table[o].slots EXCEPT ![at] = v]
  <2>1. Survives(table[o].slots, new)
    BY DEF Survives
  <2>2. table' = [table EXCEPT ![o] = Layout(table[o].shape, new, table[o].frozen)]
    BY <1>3 DEF PutSlot
  <2> HIDE DEF new
  <2> QED BY <2>1, <2>2, RowSurvives
<1> QED BY <1>1, <1>2, <1>3, AddSurvives, RemoveSurvives DEF RowStep

----------------------------------------------------------------------------
\* Every entry of the walk finds a stored value in its block.
AllStored(t, links, block) ==
  \A i \in DOMAIN links : t[links[i]].offset \in DOMAIN block /\ block[t[links[i]].offset] \in Value

WalkParts ==
  /\ walk = [obj |-> walk.obj, links |-> walk.links, next |-> walk.next,
             calling |-> walk.calling, moved |-> walk.moved, block |-> walk.block]
  /\ walk.obj \in Dyn \cup {None} /\ walk.calling \in BOOLEAN
  /\ Len(walk.links) \in Nat /\ DOMAIN walk.links = 1 .. Len(walk.links)
  /\ walk.next \in 1 .. Len(walk.links) + 1
  /\ walk.calling => walk.next <= Len(walk.links)

LinksKnown == \A i \in DOMAIN walk.links : walk.links[i] \in DOMAIN shapes

WalkStored == Walking => AllStored(shapes, walk.links, Block)

\* The parts are the invariant of the walk.
LEMMA WalkMeans == WalkInv <=> ObjectInv /\ WalkParts /\ LinksKnown /\ WalkStored
BY DEF WalkInv, WalkParts, LinksKnown, WalkTypeOK, ObjectInv, AllStored, WalkStored

\* Growth of the table leaves what the links name.
LEMMA LinksStay ==
  ASSUME ObjectInv, Extends(shapes, shapes'), LinksKnown, walk'.links = walk.links
  PROVE  /\ LinksKnown'
         /\ \A i \in DOMAIN walk.links : shapes'[walk.links[i]] = shapes[walk.links[i]]
<1>1. DOMAIN shapes = 1 .. Len(shapes) /\ Len(shapes) \in Nat
  <2>1. shapes \in Seq(Node)
    BY DEF ObjectInv, TypeOK
  <2> QED BY <2>1
<1>2. \A n \in 1 .. Len(shapes) : n \in DOMAIN shapes' /\ shapes'[n] = shapes[n]
  BY <1>1 DEF Extends
<1> QED BY <1>1, <1>2 DEF LinksKnown

\* What every entry finds, it finds in a block that keeps it.
LEMMA StoredStays ==
  ASSUME NEW t, NEW t2, NEW links, NEW old, NEW new, AllStored(t, links, old), Survives(old, new),
         \A i \in DOMAIN links : t2[links[i]] = t[links[i]]
  PROVE  AllStored(t2, links, new)
BY DEF AllStored, Survives

\* A walk that begins takes links whose slots are live.
LEMMA BeginSafe ==
  ASSUME WalkInv, NEW o \in Dyn, Begin(o)
  PROVE  WalkInv'
<1> DEFINE s == table[o].shape
           c == SlotCount(shapes, s)
           order == PropertyOrder(shapes, s)
           slots == table[o].slots
<1>1. /\ ObjectInv /\ Layouts /\ Sorted(shapes, s, order) /\ RowOK(shapes, s, slots)
      /\ TableOK(shapes) /\ s \in 0 .. Len(shapes)
  <2>1. ObjectInv /\ Layouts
    BY WalkMeans, ObjectParts
  <2>2. TableOK(shapes) /\ RowOK(shapes, s, slots) /\ s \in 0 .. Len(shapes)
    BY <2>1 DEF Layouts, RowOK, Obj
  <2> QED BY <2>1, <2>2, OrderSorted
<1>2. walk' = [obj |-> o, links |-> order, next |-> 1, calling |-> FALSE, moved |-> FALSE, block |-> <<>>]
  BY DEF Begin, Idle
<1>3. UNCHANGED <<shapes, ic, table, grown, fields, locked, fresh>>
  BY DEF Begin, vars
<1>4. ObjectInv'
  BY <1>1, <1>3, ObjectStays
<1> HIDE DEF s, order, slots, c
<1>5. /\ c \in Nat /\ DOMAIN order = 1 .. c /\ \A i \in 1 .. c : order[i] \in Chain(shapes, s)
  BY <1>1, Places DEF Sorted, c
<1>6. Len(order) = c
  BY <1>5
<1>7. /\ walk'.obj = o /\ walk'.links = order /\ walk'.next = 1 /\ walk'.calling = FALSE
      /\ walk'.moved = FALSE
      /\ walk' = [obj |-> walk'.obj, links |-> walk'.links, next |-> walk'.next,
                  calling |-> walk'.calling, moved |-> walk'.moved, block |-> walk'.block]
  BY <1>2
<1>8. WalkParts'
  <2>1. /\ walk'.next \in 1 .. Len(walk'.links) + 1 /\ Len(walk'.links) \in Nat
        /\ DOMAIN walk'.links = 1 .. Len(walk'.links)
    BY <1>5, <1>6, <1>7
  <2>2. walk'.obj \in Dyn \cup {None} /\ walk'.calling \in BOOLEAN /\ ~walk'.calling
    BY <1>7
  <2> QED BY <1>7, <2>1, <2>2, Zenon DEF WalkParts
<1>9. \A n \in Chain(shapes, s) : n \in DOMAIN shapes /\ shapes[n].offset \in 0 .. c - 1
  <2>1. DOMAIN shapes = 1 .. Len(shapes)
    <3>1. shapes \in Seq(Node)
      BY <1>1 DEF ObjectInv, TypeOK
    <3> QED BY <3>1
  <2>2. \A n \in Chain(shapes, s) : n \in 1 .. Len(shapes)
    BY <1>1, ChainsOK DEF ChainOK
  <2>3. \A n \in Chain(shapes, s) : shapes[n].offset \in 0 .. c - 1
    BY <1>1, Places DEF c
  <2> QED BY <2>1, <2>2, <2>3
<1>10. LinksKnown'
  BY <1>3, <1>5, <1>7, <1>9 DEF LinksKnown
<1>11. Block' = slots
  BY <1>3, <1>7 DEF Block, slots
<1>12. \A i \in 0 .. c - 1 : i \in DOMAIN slots /\ slots[i] \in Value
  BY <1>1 DEF RowOK, c
<1>13. AllStored(shapes, order, slots)
  BY <1>5, <1>9, <1>12 DEF AllStored
<1>14. WalkStored'
  BY <1>3, <1>7, <1>11, <1>13 DEF WalkStored
<1> QED BY <1>4, <1>8, <1>10, <1>14, WalkMeans, PTL

\* An operation leaves the walk its block, or the old one when it is outgrown.
LEMMA ElsewhereSafe ==
  ASSUME WalkInv, Elsewhere
  PROVE  WalkInv'
<1>1. ObjectInv /\ WalkParts /\ LinksKnown /\ Layouts /\ FreezeInv
      /\ (Walking => AllStored(shapes, walk.links, Block))
  BY WalkMeans, ObjectParts DEF WalkStored
<1>2. [Next]_vars
  BY DEF Elsewhere
<1>3. ObjectInv' /\ BlocksSurvive /\ Extends(shapes, shapes')
  BY <1>1, <1>2, ObjectStep, StepMoves, StepRow, StepSurvives DEF Moves
<1> DEFINE outgrown == [walk EXCEPT !.moved = TRUE, !.block = table[walk.obj].slots]
<1>4. walk' = walk \/ (Walking /\ ~walk.moved /\ walk' = outgrown)
  BY DEF Elsewhere
<1>5. /\ walk'.obj = walk.obj /\ walk'.links = walk.links /\ walk'.next = walk.next
      /\ walk'.calling = walk.calling
      /\ walk' = [obj |-> walk'.obj, links |-> walk'.links, next |-> walk'.next,
                  calling |-> walk'.calling, moved |-> walk'.moved, block |-> walk'.block]
  <2>1. CASE walk' = walk
    BY <1>1, <2>1 DEF WalkParts
  <2>2. CASE walk' = outgrown
    <3>1. walk' = [obj |-> walk.obj, links |-> walk.links, next |-> walk.next,
                   calling |-> walk.calling, moved |-> TRUE, block |-> table[walk.obj].slots]
      BY <1>1, <2>2 DEF WalkParts
    <3> QED BY <3>1
  <2> QED BY <1>4, <2>1, <2>2
<1>6. WalkParts'
  BY <1>1, <1>5 DEF WalkParts
<1>7. LinksKnown' /\ \A i \in DOMAIN walk.links : shapes'[walk.links[i]] = shapes[walk.links[i]]
  BY <1>1, <1>3, <1>5, LinksStay
<1>8. ASSUME Walking PROVE Survives(Block, Block')
  <2>0. walk.obj \in Obj
    BY <1>1, <1>8 DEF WalkParts, Walking, Obj
  <2>1. CASE walk' = walk
    BY <1>3, <2>0, <2>1 DEF Block, BlocksSurvive, Survives
  <2>2. CASE ~walk.moved /\ walk' = outgrown
    <3>1. walk' = [obj |-> walk.obj, links |-> walk.links, next |-> walk.next,
                   calling |-> walk.calling, moved |-> TRUE, block |-> table[walk.obj].slots]
      BY <1>1, <2>2 DEF WalkParts
    <3>2. Block' = Block
      BY <2>2, <3>1 DEF Block
    <3> QED BY <3>2 DEF Survives
  <2> QED BY <1>4, <2>1, <2>2
<1>9. WalkStored'
  <2>1. Walking' => Walking
    BY <1>5 DEF Walking
  <2>2. ASSUME Walking PROVE AllStored(shapes', walk.links, Block')
    BY <1>1, <1>7, <1>8, <2>2, StoredStays
  <2> QED BY <1>5, <2>1, <2>2 DEF WalkStored
<1> QED BY <1>3, <1>6, <1>7, <1>9, WalkMeans, PTL

\* A step of the walk itself: it goes on in the same block, or ends.
LEMMA WalkOnSafe ==
  ASSUME WalkInv, UNCHANGED <<shapes, ic, table, grown, fields, locked, fresh>>,
         NEW next \in 1 .. Len(walk.links) + 1, NEW calling \in BOOLEAN,
         calling => next <= Len(walk.links),
         walk' = [walk EXCEPT !.next = next, !.calling = calling]
  PROVE  WalkInv'
<1>1. ObjectInv /\ WalkParts /\ LinksKnown /\ WalkStored
  BY WalkMeans
<1>2. ObjectInv'
  BY <1>1, ObjectStays
<1>3. walk' = [obj |-> walk.obj, links |-> walk.links, next |-> next,
               calling |-> calling, moved |-> walk.moved, block |-> walk.block]
  BY <1>1 DEF WalkParts
<1>4. WalkParts' /\ LinksKnown' /\ (Walking' <=> Walking) /\ Block' = Block /\ walk'.links = walk.links
  <2>1. /\ walk'.obj = walk.obj /\ walk'.links = walk.links /\ walk'.next = next
        /\ walk'.calling = calling /\ walk'.moved = walk.moved /\ walk'.block = walk.block
    BY <1>3
  <2>2. WalkParts'
    BY <1>1, <1>3, <2>1 DEF WalkParts
  <2>3. LinksKnown'
    BY <1>1, <2>1 DEF LinksKnown
  <2> QED BY <2>1, <2>2, <2>3 DEF Walking, Block
<1>5. WalkStored'
  BY <1>1, <1>4 DEF WalkStored
<1> QED BY <1>2, <1>4, <1>5, WalkMeans, PTL

\* A walk that ends is no walk.
LEMMA WalkEndSafe ==
  ASSUME WalkInv, UNCHANGED <<shapes, ic, table, grown, fields, locked, fresh>>, walk' = Idle
  PROVE  WalkInv'
<1>1. ObjectInv'
  BY WalkMeans, ObjectStays
<1>2. walk' = [obj |-> None, links |-> <<>>, next |-> 1,
               calling |-> FALSE, moved |-> FALSE, block |-> <<>>]
  BY DEF Idle
<1>3. /\ walk'.obj = None /\ walk'.links = <<>> /\ walk'.next = 1 /\ walk'.calling = FALSE
      /\ walk' = [obj |-> walk'.obj, links |-> walk'.links, next |-> walk'.next,
                  calling |-> walk'.calling, moved |-> walk'.moved, block |-> walk'.block]
  BY <1>2
<1>4. Len(<<>>) = 0 /\ DOMAIN <<>> = 1 .. 0 /\ \A i \in 1 .. 0 : FALSE
  OBVIOUS
<1>5. WalkParts' /\ LinksKnown' /\ WalkStored'
  <2>1. WalkParts'
    <3>1. /\ walk'.next \in 1 .. Len(walk'.links) + 1 /\ Len(walk'.links) \in Nat
          /\ DOMAIN walk'.links = 1 .. Len(walk'.links)
      BY <1>3, <1>4
    <3>2. walk'.obj \in Dyn \cup {None} /\ walk'.calling \in BOOLEAN /\ ~walk'.calling
      BY <1>3
    <3> QED BY <1>3, <3>1, <3>2, Zenon DEF WalkParts
  <2>2. LinksKnown'
    BY <1>3, <1>4 DEF LinksKnown
  <2> QED BY <1>3, <2>1, <2>2 DEF WalkStored, Walking
<1> QED BY <1>1, <1>5, WalkMeans, PTL

\* The invariant of the walk is inductive.
LEMMA WalkStep ==
  ASSUME WalkInv, [WalkNext]_wvars
  PROVE  WalkInv'
<1>0. WalkParts /\ ObjectInv
  BY WalkMeans
<1>1. ASSUME UNCHANGED wvars PROVE WalkInv'
  <2>1. UNCHANGED <<shapes, ic, table, grown, fields, locked, fresh>>
    BY <1>1 DEF wvars
  <2>2. walk' = [walk EXCEPT !.next = walk.next, !.calling = walk.calling]
    BY <1>0, <1>1 DEF WalkParts, wvars
  <2> QED BY <1>0, <2>1, <2>2, WalkOnSafe DEF WalkParts
<1>2. ASSUME Visit PROVE WalkInv'
  <2>1. UNCHANGED <<shapes, ic, table, grown, fields, locked, fresh>> /\ walk.next <= Len(walk.links)
    BY <1>2 DEF Visit
  <2>2. \/ walk' = [walk EXCEPT !.next = walk.next, !.calling = TRUE]
        \/ walk' = [walk EXCEPT !.next = walk.next + 1, !.calling = FALSE]
    BY <1>0, <1>2 DEF Visit, WalkParts
  <2>3. walk.next \in 1 .. Len(walk.links) + 1 /\ walk.next + 1 \in 1 .. Len(walk.links) + 1
    BY <1>0, <2>1 DEF WalkParts
  <2> QED BY <2>1, <2>2, <2>3, WalkOnSafe
<1>3. ASSUME Return PROVE WalkInv'
  <2>1. UNCHANGED <<shapes, ic, table, grown, fields, locked, fresh>> /\ walk.next <= Len(walk.links)
    BY <1>0, <1>3 DEF Return, WalkParts
  <2>2. walk' = [walk EXCEPT !.next = walk.next + 1, !.calling = FALSE] \/ walk' = Idle
    BY <1>3 DEF Return
  <2>3. walk.next + 1 \in 1 .. Len(walk.links) + 1
    BY <1>0, <2>1 DEF WalkParts
  <2> QED BY <2>1, <2>2, <2>3, WalkOnSafe, WalkEndSafe
<1>4. ASSUME Finish PROVE WalkInv'
  BY <1>4, WalkEndSafe DEF Finish, vars
<1> QED BY <1>1, <1>2, <1>3, <1>4, BeginSafe, ElsewhereSafe DEF WalkNext

\* It holds before anything has happened.
LEMMA WalkStarts ==
  ASSUME WalkInit
  PROVE  WalkInv
<1>1. ObjectInv
  BY ObjectInit DEF WalkInit
<1>2. walk = [obj |-> None, links |-> <<>>, next |-> 1,
              calling |-> FALSE, moved |-> FALSE, block |-> <<>>]
  BY DEF WalkInit, Idle
<1>3. /\ walk.obj = None /\ walk.links = <<>> /\ walk.next = 1 /\ walk.calling = FALSE
      /\ walk = [obj |-> walk.obj, links |-> walk.links, next |-> walk.next,
                 calling |-> walk.calling, moved |-> walk.moved, block |-> walk.block]
  BY <1>2
<1>4. Len(<<>>) = 0 /\ DOMAIN <<>> = 1 .. 0 /\ \A i \in 1 .. 0 : FALSE
  OBVIOUS
<1>5. WalkParts /\ LinksKnown /\ WalkStored
  <2>1. WalkParts
    <3>1. /\ walk.next \in 1 .. Len(walk.links) + 1 /\ Len(walk.links) \in Nat
          /\ DOMAIN walk.links = 1 .. Len(walk.links)
      BY <1>3, <1>4
    <3>2. walk.obj \in Dyn \cup {None} /\ walk.calling \in BOOLEAN /\ ~walk.calling
      BY <1>3
    <3> QED BY <1>3, <3>1, <3>2, Zenon DEF WalkParts
  <2>2. LinksKnown
    BY <1>3, <1>4 DEF LinksKnown
  <2> QED BY <1>3, <2>1, <2>2 DEF WalkStored, Walking
<1> QED BY <1>1, <1>5, WalkMeans

\* While Object.entries or Object.values walks an object and its getters change
\* it, the objects keep their invariant and every link of the walk finds a stored
\* value in the block the walk reads (collect).
THEOREM WalkInvariance == WalkSpec => []WalkInv
<1>1. WalkInit => WalkInv
  BY WalkStarts
<1>2. WalkInv /\ [WalkNext]_wvars => WalkInv'
  BY WalkStep
<1> QED BY <1>1, <1>2, PTL DEF WalkSpec

\* So each entry still to come reads inside its block and finds a value that was
\* stored there, whatever the getters wrote, added, deleted or froze meanwhile.
THEOREM WalksReadStored == WalkSpec => []WalkReadsStored
<1>1. ASSUME WalkInv PROVE WalkReadsStored
  <2>1. \A i \in walk.next .. Len(walk.links) : i \in DOMAIN walk.links
    BY <1>1, WalkMeans DEF WalkParts
  <2> QED BY <1>1, <2>1 DEF WalkInv, WalkReadsStored
<1> QED BY <1>1, WalkInvariance, PTL

\* An entry of a walk that reads a slot or hands on a getter's answer, and the end of
\* the walk, change no object; what a getter does is an operation of its own.  So a
\* frozen object keeps its properties while it is walked too.
THEOREM WalksKeepFrozen == WalkSpec => FrozenStays /\ LockedStays
<1>1. ASSUME WalkInv, [WalkNext]_wvars
      PROVE  /\ [\A o \in Dyn : table[o].frozen => table'[o] = table[o]]_vars
             /\ [\A o \in locked : table'[o] = table[o]]_vars
  <2>1. CASE UNCHANGED table
    BY <2>1
  <2>2. CASE Elsewhere
    <3>1. FreezeInv
      BY <1>1, WalkMeans, ObjectParts
    <3> QED BY <2>2, <3>1, StepSafe DEF Elsewhere, Safe
  <2> QED BY <1>1, <2>1, <2>2 DEF WalkNext, Begin, Visit, Return, Finish, vars, wvars
<1> QED BY <1>1, WalkInvariance, PTL DEF WalkSpec, FrozenStays, LockedStays
=============================================================================
