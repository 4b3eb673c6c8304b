------------------------------ MODULE Records ------------------------------
(***************************************************************************)
(* What a program may assume of objects with run-time properties: each is a *)
(* list of properties in the order they were added, read through its chain  *)
(* of prototypes.  There are no shapes, slots or caches here; Records is    *)
(* what DynObjects implements for its dynamic objects.                      *)
(***************************************************************************)
EXTENDS Integers, Sequences

CONSTANTS Key, Numeric, Dyn, Fixed, Proto, Data, Cell, Getter, Setter, None

VARIABLES
  props,   \* [Dyn -> Seq([key, value])], in the order of addition
  frozen,
  fresh,   \* the objects whose literal is still being evaluated
  answer

vars == <<props, frozen, fresh, answer>>

Reply(tag, values) == [tag |-> tag, values |-> values]
Truth(b) == Reply(IF b THEN "true" ELSE "false", <<>>)

Has(o, k) == LET own == props[o] IN \E i \in DOMAIN own : own[i].key = k
ValueOf(o, k) ==
  LET own == props[o] IN own[CHOOSE i \in DOMAIN own : own[i].key = k].value

Holder(p, k) ==
  LET up[q \in Dyn \cup {None}] ==
        IF q = None THEN None ELSE IF Has(q, k) THEN q ELSE up[Proto[q]]
  IN  up[p]

Init ==
  /\ props = [o \in Dyn |-> <<>>]
  /\ frozen = {}
  /\ fresh = {o \in Dyn : Proto[o] = None}
  /\ answer = Reply("none", <<>>)

Usable(o) == o \notin fresh /\ Proto[o] \notin fresh

Answer(tag, value) == answer' = Reply(tag, value)

(* A read finds the nearest holder; an accessor answers by its getter, with *)
(* the object that was asked as the receiver.                               *)
Get(o, k) ==
  LET h == Holder(o, k) IN
  /\ \/ h = None /\ Answer("undefined", <<>>)
     \/ /\ h # None
        /\ LET held == ValueOf(h, k) IN
           \/ held \notin Cell /\ Answer("value", <<held>>)
           \/ held \in Getter /\ Answer("getter", <<held, o>>)
           \/ held \in Cell \ Getter /\ Answer("undefined", <<>>)
  /\ UNCHANGED <<props, frozen, fresh>>

In(o, k) ==
  /\ answer' = Truth(Holder(o, k) # None)
  /\ UNCHANGED <<props, frozen, fresh>>

(* Index keys first, ascending; the others as they were added.              *)
Earlier(own, i, j) ==
  LET index(n) == own[n].key \in DOMAIN Numeric
      number(n) == Numeric[own[n].key]
  IN  \/ index(i) /\ ~index(j)
      \/ index(i) /\ index(j) /\ number(i) < number(j)
      \/ /\ index(i) = index(j) /\ (index(i) => number(i) = number(j))
         /\ i < j

Keys(o) ==
  LET own == props[o] IN
  /\ \E place \in [DOMAIN own -> DOMAIN own] :
       /\ \A i, j \in DOMAIN own : i < j => Earlier(own, place[i], place[j])
       /\ Answer("keys", [i \in DOMAIN own |-> own[place[i]].key])
  /\ UNCHANGED <<props, frozen, fresh>>

Store(o, k, v) ==
  props' = [props EXCEPT ![o] =
    IF Has(o, k)
      THEN [i \in DOMAIN @ |-> IF @[i].key = k THEN [key |-> k, value |-> v] ELSE @[i]]
      ELSE Append(@, [key |-> k, value |-> v])]

(* A write calls the setter of the nearest holder's accessor, and otherwise *)
(* lands on the object itself; a frozen object takes nothing.               *)
Set(o, k, v) ==
  LET h == Holder(o, k)
      c == IF h = None THEN None ELSE ValueOf(h, k)
  IN  /\ \/ o \in frozen /\ Answer("TypeError", <<>>) /\ UNCHANGED props
         \/ /\ o \notin frozen /\ c \in Cell /\ UNCHANGED props
            /\ \/ c \in Setter /\ Answer("setter", <<c, o, v>>)
               \/ c \notin Setter /\ Answer("TypeError", <<>>)
         \/ o \notin frozen /\ c \notin Cell /\ Answer("value", <<v>>) /\ Store(o, k, v)
      /\ UNCHANGED <<frozen, fresh>>

Define(o, k, c) ==
  Answer("value", <<c>>) /\ Store(o, k, c) /\ UNCHANGED <<frozen, fresh>>

Built(o) == fresh' = fresh \ {o} /\ UNCHANGED <<props, frozen, answer>>

Delete(o, k) ==
  LET own == props[o] IN
  /\ \/ Has(o, k) /\ o \in frozen /\ Answer("TypeError", <<>>) /\ UNCHANGED props
     \/ ~Has(o, k) /\ answer' = Truth(TRUE) /\ UNCHANGED props
     \/ /\ o \notin frozen /\ answer' = Truth(TRUE)
        /\ \E i \in DOMAIN own :
             /\ own[i].key = k
             /\ props' = [props EXCEPT ![o] =
                  [j \in 1 .. Len(own) - 1 |-> own[IF j < i THEN j ELSE j + 1]]]
  /\ UNCHANGED <<frozen, fresh>>

Freeze(o) ==
  Answer("value", <<o>>) /\ frozen' = frozen \cup {o} /\ UNCHANGED <<props, fresh>>

(* An operation on any other object answers as it likes.                    *)
Elsewhere == Fixed # {} /\ UNCHANGED <<props, frozen, fresh>>

Next ==
  \/ Elsewhere
  \/ \E o \in fresh, k \in Key :
       (\E v \in Data : Set(o, k, v)) \/ (\E c \in Cell : Define(o, k, c))
  \/ \E o \in fresh : Built(o)
  \/ \E o \in Dyn : Usable(o) /\
       \/ Keys(o) \/ Freeze(o)
       \/ \E k \in Key : In(o, k) \/ Delete(o, k) \/ Get(o, k)
                         \/ \E v \in Data : Set(o, k, v)

Spec == Init /\ [][Next]_vars
=============================================================================
