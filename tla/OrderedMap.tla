------------------------------- MODULE OrderedMap -------------------------------
(***************************************************************************)
(* What a JavaScript program sees of a Map or a Set: the entries in        *)
(* insertion order, and for every walk in progress how many of them it has *)
(* been given.  No array, no index, no dead entries.                       *)
(***************************************************************************)
EXTENDS Naturals, Sequences

CONSTANTS Key, Val, Same(_, _), Normal(_), Walk, Idle

VARIABLES
  order,   \* the entries, in insertion order
  passed   \* how many of them each walk has been given, or Idle

mvars == <<order, passed>>

Init == order = <<>> /\ passed = [w \in Walk |-> Idle]

At(k) == {i \in 1..Len(order) : Same(order[i].key, k)}

Set(k, v) ==
  /\ order' = IF At(k) = {} THEN Append(order, [key |-> Normal(k), value |-> v])
              ELSE [i \in DOMAIN order |-> IF i \in At(k) THEN [order[i] EXCEPT !.value = v]
                                           ELSE order[i]]
  /\ UNCHANGED passed

Remove(k) ==
  \E i \in At(k) :
    /\ order' = SubSeq(order, 1, i - 1) \o SubSeq(order, i + 1, Len(order))
    /\ passed' = [w \in Walk |-> IF passed[w] # Idle /\ i <= passed[w] THEN passed[w] - 1
                                 ELSE passed[w]]

Clear == order' = <<>> /\ passed' = [w \in Walk |-> IF passed[w] = Idle THEN Idle ELSE 0]

Begin(w) ==
  /\ passed[w] = Idle
  /\ passed' = [passed EXCEPT ![w] = 0]
  /\ UNCHANGED order

Visit(w) ==
  /\ passed[w] # Idle /\ passed[w] < Len(order)
  /\ passed' = [passed EXCEPT ![w] = @ + 1]
  /\ UNCHANGED order

End(w) ==
  /\ passed[w] # Idle
  /\ passed' = [passed EXCEPT ![w] = Idle]
  /\ UNCHANGED order

Next ==
  \/ \E k \in Key, v \in Val : Set(k, v)
  \/ \E k \in Key : Remove(k)
  \/ Clear
  \/ \E w \in Walk : Begin(w) \/ Visit(w) \/ End(w)

Spec == Init /\ [][Next]_mvars
================================================================================
