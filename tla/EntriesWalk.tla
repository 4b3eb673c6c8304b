---------------------------- MODULE EntriesWalk ----------------------------
(***************************************************************************)
(* Object.values and Object.entries over a dynamic object (`collect` in     *)
(* jsrt_object_ops.c): the key order and the slot block are taken once, and *)
(* each entry then reads its slot.  A slot that holds an accessor calls the *)
(* getter, which may do anything to the object before the walk goes on.     *)
(*                                                                          *)
(* One walk is in progress at a time.  A block the object has outgrown is   *)
(* no longer written, and stays as it was for the walk that still reads it  *)
(* (the collected build keeps it alive).                                    *)
(***************************************************************************)
EXTENDS DynObjects

VARIABLE walk  \* [obj, links, next, calling, moved, block]

wvars == <<shapes, ic, table, grown, fields, locked, fresh, answer, walk>>

Idle == [obj |-> None, links |-> <<>>, next |-> 1,
         calling |-> FALSE, moved |-> FALSE, block |-> <<>>]

Walking == walk.obj # None

WalkInit == Init /\ walk = Idle

(* The order and the block, before the first entry.                         *)
Begin(o) ==
  /\ ~Walking
  /\ walk' = [Idle EXCEPT !.obj = o, !.links = PropertyOrder(shapes, table[o].shape)]
  /\ UNCHANGED vars

Block == IF walk.moved THEN walk.block ELSE table[walk.obj].slots

Link == walk.links[walk.next]

(* The [[Get]] of an accessor's entry: an uncached read of the key.         *)
GetEntry(o, k) ==
  IF Own(o, k) # Root THEN Resolved(OwnSlot(o, k), o) ELSE Inherited(o, k)

(* One entry: an ordinary slot is its value, an accessor is read by key.    *)
Visit ==
  LET k == shapes[Link].key
      held == Block[shapes[Link].offset]
      r == IF held \in Cell THEN GetEntry(walk.obj, k) ELSE Reply("value", <<held>>)
  IN  /\ Walking /\ ~walk.calling /\ walk.next <= Len(walk.links)
      /\ \/ /\ r.tag = "getter"
            /\ answer' = r
            /\ walk' = [walk EXCEPT !.calling = TRUE]
         \/ /\ r.tag # "getter"
            /\ answer' = Reply("entry", <<k>> \o r.values)
            /\ walk' = [walk EXCEPT !.next = @ + 1]
      /\ UNCHANGED <<shapes, ic, table, grown, fields, locked, fresh>>

(* The walk moves on without noting that the getter has returned.           *)
ReturnCalling ==
  /\ walk.calling
  /\ \/ \E v \in Data :
          /\ answer' = Reply("entry", <<shapes[Link].key, v>>)
          /\ walk' = [walk EXCEPT !.next = @ + 1]
     \/ answer' = Reply("throw", <<>>) /\ walk' = Idle
  /\ UNCHANGED <<shapes, ic, table, grown, fields, locked, fresh>>

(* The getter comes back with a value, or throws and ends the walk.         *)
Return ==
  /\ walk.calling
  /\ \/ \E v \in Data :
          /\ answer' = Reply("entry", <<shapes[Link].key, v>>)
          /\ walk' = [walk EXCEPT !.next = @ + 1, !.calling = FALSE]
     \/ answer' = Reply("throw", <<>>) /\ walk' = Idle
  /\ UNCHANGED <<shapes, ic, table, grown, fields, locked, fresh>>

Finish ==
  /\ Walking /\ walk.next > Len(walk.links)
  /\ walk' = Idle
  /\ UNCHANGED vars

(* Any other operation: before a walk, or from inside a getter it called.   *)
(* A reserve that reallocates leaves the walk its old block.                *)
Elsewhere ==
  /\ ~Walking \/ walk.calling
  /\ Next
  /\ walk' = IF /\ Walking /\ ~walk.moved
                /\ Capacity(table'[walk.obj].slots) > Capacity(table[walk.obj].slots)
               THEN [walk EXCEPT !.moved = TRUE, !.block = table[walk.obj].slots]
               ELSE walk

WalkNext ==
  /\ Running
  /\ \/ \E o \in Dyn : Usable(o) /\ Begin(o)
     \/ Visit
     \/ Return
     \/ Finish
     \/ Elsewhere

WalkSpec == WalkInit /\ [][WalkNext]_wvars

----------------------------------------------------------------------------
(* Properties.                                                              *)

(* The objects and the walk over them have their types.                    *)
WalkTypeOK ==
  /\ TypeOK
  /\ walk.next \in 1 .. Len(walk.links) + 1
  /\ walk.calling => walk.next <= Len(walk.links)
  /\ \A i \in DOMAIN walk.links : walk.links[i] \in DOMAIN shapes

(* Whatever the getters do to the object, each entry still to come reads    *)
(* inside its block and finds a value that was stored there.                *)
WalkReadsStored ==
  Walking => \A i \in walk.next .. Len(walk.links) :
    LET at == shapes[walk.links[i]].offset
    IN  at \in DOMAIN Block /\ Block[at] \in Value

(* Why: no operation takes a stored value out of a block without putting    *)
(* another in its place, and a block that is outgrown is left alone; so     *)
(* every entry of the walk, read already or not, finds a value.             *)
WalkInv ==
  /\ ObjectInv
  /\ walk = [obj |-> walk.obj, links |-> walk.links, next |-> walk.next,
             calling |-> walk.calling, moved |-> walk.moved, block |-> walk.block]
  /\ walk.obj \in Dyn \cup {None} /\ walk.calling \in BOOLEAN
  /\ Len(walk.links) \in Nat /\ DOMAIN walk.links = 1 .. Len(walk.links)
  /\ WalkTypeOK
  /\ Walking => \A i \in DOMAIN walk.links :
       LET at == shapes[walk.links[i]].offset
       IN  at \in DOMAIN Block /\ Block[at] \in Value

(* An entry is a [[Get]] of its key: an entry that is not a getter's result *)
(* carries the value the object has under that key at that moment.          *)
EntriesAreGets ==
  [][Visit /\ answer'.tag = "entry" =>
       LET k == shapes[Link].key
       IN  answer'.values = <<k>> \o GetEntry(walk.obj, k).values]_wvars
=============================================================================
