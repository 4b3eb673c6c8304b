----------------------------- MODULE DynObjects -----------------------------
(***************************************************************************)
(* Objects whose properties are found at run time (jsrt_shape.c): dynamic   *)
(* objects, whose whole layout is a shape, and fixed objects, which have a  *)
(* slot per declared field and grow an overflow table (`extras`) for any    *)
(* other name.  Every property site of the program has one inline cache,    *)
(* trusted by comparing shape pointers alone.                               *)
(*                                                                          *)
(* `answer` is what the last operation gave its caller: a value, a TypeError *)
(* or the call of a getter or setter.  A getter or setter is the program's  *)
(* own code: whatever it does comes as further steps, and nothing here is   *)
(* read after the call (EntriesWalk models the one operation that does).    *)
(***************************************************************************)
EXTENDS ShapeTable

CONSTANTS
  Dyn, Fixed,   \* the dynamic and the fixed objects
  Declared,     \* the fields of the fixed objects' class
  Proto,        \* [Dyn -> Dyn \cup {None}]: the prototype an object was built with
  Site, SiteKey,\* property sites with a cache, and the key each one names
  Data,         \* ordinary property values
  Cell,         \* accessor cells
  Getter, Setter, \* the cells with a getter, with a setter
  MaxShapes,    \* bound: the shape table is not grown beyond this
  None

ASSUME ObjectAssumption ==
  /\ Dyn \cap Fixed = {} /\ Data \cap Cell = {}
  /\ Declared \subseteq Key
  /\ Proto \in [Dyn -> Dyn \cup {None}]
  /\ \A S \in SUBSET Dyn : S # {} => \E o \in S : Proto[o] \notin S  \* no cycles
  /\ SiteKey \in [Site -> Key]
  /\ Getter \subseteq Cell /\ Setter \subseteq Cell /\ Getter \cup Setter = Cell
  /\ MaxShapes \in Nat
  /\ None \notin Dyn \cup Fixed \cup Data \cup Cell

VARIABLES
  shapes,  \* the shape table
  ic,      \* [Site -> [shape, offset]], Root for an empty cache
  table,   \* [Obj -> [shape, slots, frozen]]; of a fixed object, its extras
  grown,   \* the fixed objects whose extras exist
  fields,  \* [Fixed -> [Declared -> Data]]
  locked,  \* the fixed objects Object.freeze has marked
  fresh,   \* the dynamic objects whose literal is still being evaluated
  answer

vars == <<shapes, ic, table, grown, fields, locked, fresh, answer>>

Obj == Dyn \cup Fixed

Value == Data \cup Cell

Layout(shape, slots, frozen) == [shape |-> shape, slots |-> slots, frozen |-> frozen]

Reply(tag, values) == [tag |-> tag, values |-> values]
Truth(b) == Reply(IF b THEN "true" ELSE "false", <<>>)

Running == answer.tag # "abort"

(* A literal under construction has no other holder, and an object is built *)
(* on a prototype only when that is complete.                               *)
Usable(o) ==
  o \notin fresh /\ (o \in Dyn => Proto[o] \notin fresh)

Init ==
  /\ shapes = <<>>
  /\ ic = [s \in Site |-> [shape |-> Root, offset |-> 0]]
  /\ table = [o \in Obj |-> Layout(Root, <<>>, FALSE)]
  /\ grown = {} /\ locked = {}
  /\ fields \in [Fixed -> [Declared -> Data]]
  /\ fresh = {o \in Dyn : Proto[o] = None}
  /\ answer = Reply("none", <<>>)

(* A loaded slot, resolved: an accessor cell is a call of its getter.       *)
Resolved(value, receiver) ==
  IF value \notin Cell THEN Reply("value", <<value>>)
  ELSE IF value \in Getter THEN Reply("getter", <<value, receiver>>)
  ELSE Reply("undefined", <<>>)

(* A write that meets an accessor cell calls its setter, or throws.         *)
AccessorWrite(cell, receiver, v) ==
  IF cell \in Setter THEN Reply("setter", <<cell, receiver, v>>)
  ELSE Reply("TypeError", <<>>)

Own(o, k) == Find(shapes, table[o].shape, k)

(* A fixed object has a table to look in only once it has grown one.        *)
Has(o, k) == (o \in Dyn \/ o \in grown) /\ Own(o, k) # Root

OwnSlot(o, k) == table[o].slots[shapes[Own(o, k)].offset]

(* The nearest object from p up the prototype chain that owns k, or None.   *)
Holder(p, k) ==
  LET up[q \in Dyn \cup {None}] ==
        IF q = None THEN None ELSE IF Own(q, k) # Root THEN q ELSE up[Proto[q]]
  IN  up[p]

Inherited(o, k) ==
  LET h == Holder(Proto[o], k)
  IN  IF h = None THEN Reply("undefined", <<>>) ELSE Resolved(OwnSlot(h, k), o)

(* A property access: a name written in the source has a site with a cache, *)
(* a computed key has none.                                                 *)
Access == {[site |-> s, key |-> SiteKey[s]] : s \in Site}
            \cup {[site |-> None, key |-> k] : k \in Key}

Hit(x, o) ==
  /\ x.site # None
  /\ ic[x.site].shape # Root /\ ic[x.site].shape = table[o].shape

(* Only a hit on the object's own shape fills the site's cache.             *)
Fill(x, o) ==
  IF x.site = None THEN UNCHANGED ic
  ELSE ic' = [ic EXCEPT ![x.site] = [shape  |-> table[o].shape,
                                     offset |-> shapes[Own(o, x.key)].offset]]

----------------------------------------------------------------------------
(* Reads.                                                                   *)

(* jsrt_get_prop: cache, chain walk, prototypes.                            *)
GetDyn(x, o) ==
  /\ \/ /\ Hit(x, o)
        /\ answer' = Resolved(table[o].slots[ic[x.site].offset], o)
        /\ UNCHANGED ic
     \/ /\ ~Hit(x, o) /\ Own(o, x.key) # Root
        /\ Fill(x, o)
        /\ answer' = Resolved(OwnSlot(o, x.key), o)
     \/ /\ ~Hit(x, o) /\ Own(o, x.key) = Root
        /\ answer' = Inherited(o, x.key)
        /\ UNCHANGED ic
  /\ UNCHANGED <<shapes, table, grown, fields, locked, fresh>>

(* A fixed object answers a declared field, then an undeclared property.    *)
(* Its class's methods are constants and are left out.                      *)
GetFixed(o, k) ==
  /\ answer' = IF k \in Declared THEN Reply("value", <<fields[o][k]>>)
               ELSE IF Has(o, k) THEN Resolved(OwnSlot(o, k), o)
               ELSE Reply("undefined", <<>>)
  /\ UNCHANGED <<shapes, ic, table, grown, fields, locked, fresh>>

(* jsrt_in asks the prototypes by reading (inherited_get): the getter of an *)
(* inherited accessor is called first, and then the answer is true whatever *)
(* it gave, unless it threw.                                                *)
In(o, k) ==
  LET h == IF o \in Dyn /\ ~Has(o, k) THEN Holder(Proto[o], k) ELSE None
      calls == h # None /\ OwnSlot(h, k) \in Getter
  IN
  /\ \/ calls /\ answer' = Reply("getter, then true", <<OwnSlot(h, k), o>>)
     \/ /\ ~calls
        /\ answer' = Truth(h # None \/ Has(o, k) \/ (o \in Fixed /\ k \in Declared))
  /\ UNCHANGED <<shapes, ic, table, grown, fields, locked, fresh>>

(* Object.keys of a dynamic object.                                         *)
Keys(o) ==
  LET order == PropertyOrder(shapes, table[o].shape) IN
  /\ answer' = Reply("keys", [i \in DOMAIN order |-> shapes[order[i]].key])
  /\ UNCHANGED <<shapes, ic, table, grown, fields, locked, fresh>>

----------------------------------------------------------------------------
(* Writes.                                                                  *)

PutSlot(o, offset, v) ==
  table' = [table EXCEPT ![o] = Layout(table[o].shape,
                                      [table[o].slots EXCEPT ![offset] = v],
                                      table[o].frozen)]

(* An existing own slot takes the value, or its setter does.                *)
WriteOwn(o, offset, v) ==
  IF table[o].slots[offset] \in Cell
    THEN /\ answer' = AccessorWrite(table[o].slots[offset], o, v)
         /\ UNCHANGED table
    ELSE /\ PutSlot(o, offset, v)
         /\ answer' = Reply("value", <<v>>)

(* A new property: take or build the transition and make its slot writable. *)
AddOwn(o, k, v) ==
  LET next == Transition(shapes, table[o].shape, k)
      at   == next.nodes[next.at].offset
  IN  /\ shapes' = next.nodes
      /\ table' = [table EXCEPT ![o] =
                     Layout(next.at, [Reserve(table[o].slots, at) EXCEPT ![at] = v],
                           table[o].frozen)]
      /\ answer' = Reply("value", <<v>>)

Refuse == /\ answer' = Reply("TypeError", <<>>)
          /\ UNCHANGED <<shapes, table>>

InheritedAccessor(o, k) ==
  LET h == Holder(Proto[o], k)
  IN  IF h # None /\ OwnSlot(h, k) \in Cell THEN OwnSlot(h, k) ELSE None

(* The key is absent: a setter on the prototype chain takes the write, and  *)
(* otherwise the object gains the key.                                      *)
AddOrInherit(o, k, v) ==
  \/ /\ InheritedAccessor(o, k) # None
     /\ answer' = AccessorWrite(InheritedAccessor(o, k), o, v)
     /\ UNCHANGED <<shapes, table>>
  \/ InheritedAccessor(o, k) = None /\ AddOwn(o, k, v)

(* A write that asks whether the object is frozen when it has the key only. *)
SetDynOwned(x, o, v) ==
  /\ \/ table[o].frozen /\ Own(o, x.key) # Root /\ Refuse /\ UNCHANGED ic
     \/ /\ ~table[o].frozen /\ Hit(x, o)
        /\ WriteOwn(o, ic[x.site].offset, v)
        /\ UNCHANGED <<shapes, ic>>
     \/ /\ ~table[o].frozen /\ ~Hit(x, o) /\ Own(o, x.key) # Root
        /\ Fill(x, o)
        /\ WriteOwn(o, shapes[Own(o, x.key)].offset, v)
        /\ UNCHANGED shapes
     \/ /\ ~Hit(x, o) /\ Own(o, x.key) = Root
        /\ AddOrInherit(o, x.key, v)
        /\ UNCHANGED ic
  /\ UNCHANGED <<grown, fields, locked, fresh>>

(* An addition fills the cache with the shape the object had before it.     *)
SetDynFillsEarly(x, o, v) ==
  /\ \/ table[o].frozen /\ Refuse /\ UNCHANGED ic
     \/ /\ ~table[o].frozen /\ Hit(x, o)
        /\ WriteOwn(o, ic[x.site].offset, v)
        /\ UNCHANGED <<shapes, ic>>
     \/ /\ ~table[o].frozen /\ ~Hit(x, o) /\ Own(o, x.key) # Root
        /\ Fill(x, o)
        /\ WriteOwn(o, shapes[Own(o, x.key)].offset, v)
        /\ UNCHANGED shapes
     \/ /\ ~table[o].frozen /\ ~Hit(x, o) /\ Own(o, x.key) = Root
        /\ AddOrInherit(o, x.key, v)
        /\ IF x.site = None THEN UNCHANGED ic
           ELSE ic' = [ic EXCEPT ![x.site] =
                         [shape |-> table[o].shape, offset |-> SlotCount(shapes, table[o].shape)]]
  /\ UNCHANGED <<grown, fields, locked, fresh>>

(* store_prop on a dynamic object: frozen, cache, chain walk, prototypes,   *)
(* addition, in that order.                                                 *)
SetDyn(x, o, v) ==
  /\ \/ table[o].frozen /\ Refuse /\ UNCHANGED ic
     \/ /\ ~table[o].frozen /\ Hit(x, o)
        /\ WriteOwn(o, ic[x.site].offset, v)
        /\ UNCHANGED <<shapes, ic>>
     \/ /\ ~table[o].frozen /\ ~Hit(x, o) /\ Own(o, x.key) # Root
        /\ Fill(x, o)
        /\ WriteOwn(o, shapes[Own(o, x.key)].offset, v)
        /\ UNCHANGED shapes
     \/ /\ ~table[o].frozen /\ ~Hit(x, o) /\ Own(o, x.key) = Root
        /\ AddOrInherit(o, x.key, v)
        /\ UNCHANGED ic
  /\ UNCHANGED <<grown, fields, locked, fresh>>

(* An entry of an object literal, which has no site and no prototype yet.   *)
LiteralEntry(o, k, v) ==
  /\ IF Own(o, k) # Root
       THEN WriteOwn(o, shapes[Own(o, k)].offset, v) /\ UNCHANGED shapes
       ELSE AddOwn(o, k, v)
  /\ UNCHANGED <<ic, grown, fields, locked, fresh>>

(* jsrt_define_accessor: the cell replaces whatever the key held.           *)
Define(o, k, c) ==
  /\ IF Own(o, k) # Root
       THEN /\ PutSlot(o, shapes[Own(o, k)].offset, c)
            /\ answer' = Reply("value", <<c>>)
            /\ UNCHANGED shapes
       ELSE AddOwn(o, k, c)
  /\ UNCHANGED <<ic, grown, fields, locked, fresh>>

Built(o) ==
  /\ fresh' = fresh \ {o}
  /\ UNCHANGED <<shapes, ic, table, grown, fields, locked, answer>>

(* A property write that asks whether the extras are frozen only when they  *)
(* have the name.                                                           *)
SetFixedByName(o, k, v) ==
  /\ \/ /\ k \in Declared
        /\ fields' = [fields EXCEPT ![o][k] = v]
        /\ answer' = Reply("value", <<v>>)
        /\ UNCHANGED <<shapes, table, grown>>
     \/ /\ k \notin Declared /\ UNCHANGED fields
        /\ \/ o \in locked \ grown /\ Refuse /\ UNCHANGED grown
           \/ /\ o \notin locked \ grown
              /\ grown' = grown \cup {o}
              /\ \/ table[o].frozen /\ Own(o, k) # Root /\ Refuse
                 \/ /\ ~table[o].frozen /\ Own(o, k) # Root
                    /\ WriteOwn(o, shapes[Own(o, k)].offset, v)
                    /\ UNCHANGED shapes
                 \/ Own(o, k) = Root /\ AddOwn(o, k, v)
  /\ UNCHANGED <<ic, locked, fresh>>

(* store_prop on a fixed object: a declared field is written where it is    *)
(* found; another name goes to the extras, made on the first such write.    *)
SetFixed(o, k, v) ==
  /\ \/ /\ k \in Declared
        /\ fields' = [fields EXCEPT ![o][k] = v]
        /\ answer' = Reply("value", <<v>>)
        /\ UNCHANGED <<shapes, table, grown>>
     \/ /\ k \notin Declared /\ UNCHANGED fields
        /\ \/ /\ o \in locked /\ ~Has(o, k)
              /\ Refuse /\ UNCHANGED grown
           \/ /\ o \notin locked \/ Has(o, k)
              /\ grown' = grown \cup {o}
              /\ \/ table[o].frozen /\ Refuse
                 \/ /\ ~table[o].frozen /\ Own(o, k) # Root
                    /\ WriteOwn(o, shapes[Own(o, k)].offset, v)
                    /\ UNCHANGED shapes
                 \/ /\ ~table[o].frozen /\ Own(o, k) = Root
                    /\ AddOwn(o, k, v)
  /\ UNCHANGED <<ic, locked, fresh>>

(* jsrt_object_set: the typed path to a declared field, by slot.            *)
SetField(o, k, v) ==
  /\ IF o \in locked
       THEN answer' = Reply("TypeError", <<>>) /\ UNCHANGED fields
       ELSE /\ fields' = [fields EXCEPT ![o][k] = v]
            /\ answer' = Reply("value", <<v>>)
  /\ UNCHANGED <<shapes, ic, table, grown, locked, fresh>>

----------------------------------------------------------------------------
(* Removal and freezing.                                                    *)

RemoveOwn(o, k) ==
  LET rest == Removal(shapes, table[o].shape, table[o].slots, Own(o, k)) IN
  /\ shapes' = rest.nodes
  /\ table' = [table EXCEPT ![o] = Layout(rest.at, rest.slots, table[o].frozen)]
  /\ answer' = Truth(TRUE)

(* jsrt_delete: absent is true, frozen raises, a declared field of a fixed  *)
(* object has no way to be absent and ends the program.                     *)
Delete(o, k) ==
  /\ \/ /\ Has(o, k)
        /\ IF table[o].frozen THEN Refuse ELSE RemoveOwn(o, k)
     \/ /\ ~Has(o, k) /\ ~(o \in Fixed /\ k \in Declared)
        /\ answer' = Truth(TRUE)
        /\ UNCHANGED <<shapes, table>>
     \/ /\ ~Has(o, k) /\ o \in Fixed /\ k \in Declared
        /\ answer' = Reply(IF o \in locked THEN "TypeError" ELSE "abort", <<>>)
        /\ UNCHANGED <<shapes, table>>
  /\ UNCHANGED <<ic, grown, fields, locked, fresh>>

(* A freeze that leaves the overflow table of a fixed object as it is.      *)
FreezeHeader(o) ==
  /\ IF o \in Dyn
       THEN table' = [table EXCEPT ![o] = Layout(table[o].shape, table[o].slots, TRUE)]
       ELSE UNCHANGED table
  /\ locked' = locked \cup ({o} \cap Fixed)
  /\ answer' = Reply("value", <<o>>)
  /\ UNCHANGED <<shapes, ic, grown, fields, fresh>>

(* jsrt_object_freeze: the extras freeze with their owner when they exist.  *)
Freeze(o) ==
  /\ IF o \in Dyn \/ o \in grown
       THEN table' = [table EXCEPT ![o] = Layout(table[o].shape, table[o].slots, TRUE)]
       ELSE UNCHANGED table
  /\ locked' = locked \cup ({o} \cap Fixed)
  /\ answer' = Reply("value", <<o>>)
  /\ UNCHANGED <<shapes, ic, grown, fields, fresh>>

----------------------------------------------------------------------------
Next ==
  /\ Running
  /\ \/ \E o \in fresh, k \in Key :
          \/ \E v \in Data : LiteralEntry(o, k, v)
          \/ \E c \in Cell : Define(o, k, c)
     \/ \E o \in fresh : Built(o)
     \/ \E o \in Obj : Usable(o) /\
          \/ o \in Dyn /\ Keys(o)
          \/ Freeze(o)
          \/ \E k \in Key : In(o, k) \/ Delete(o, k)
          \/ \E x \in Access : o \in Dyn /\ (GetDyn(x, o) \/ \E v \in Data : SetDyn(x, o, v))
          \/ \E k \in Key : o \in Fixed /\ (GetFixed(o, k) \/ \E v \in Data : SetFixed(o, k, v))
          \/ \E k \in Declared, v \in Data : o \in Fixed /\ SetField(o, k, v)
  /\ Len(shapes') <= MaxShapes

Spec == Init /\ [][Next]_vars

----------------------------------------------------------------------------
(* Properties.                                                              *)

TypeOK ==
  /\ shapes \in Seq(Node)
  /\ ic \in [Site -> [shape : 0 .. Len(shapes), offset : Nat]]
  /\ \A o \in Obj :
       /\ table[o].shape \in 0 .. Len(shapes)
       /\ Capacity(table[o].slots) \in Nat
       /\ table[o].slots \in [0 .. Capacity(table[o].slots) - 1 -> Value \cup {Unset}]
       /\ table[o].frozen \in BOOLEAN
  /\ grown \subseteq Fixed /\ locked \subseteq Fixed
  /\ fresh \subseteq {o \in Dyn : Proto[o] = None}
  /\ fields \in [Fixed -> [Declared -> Data]]

KeyHistory(n) ==
  LET order == SlotOrder(shapes, n) IN [i \in DOMAIN order |-> shapes[order[i]].key]

(* Objects that gained the same keys in the same order are on one shape,    *)
(* however they got there (a removal replays the rest of its keys and lands *)
(* where an object built without the key would): no two nodes of the table  *)
(* stand for the same history, and no history repeats a key.                *)
OneShapePerHistory ==
  \A m, n \in DOMAIN shapes :
    /\ KeyHistory(m) = KeyHistory(n) => m = n
    /\ \A i, j \in DOMAIN KeyHistory(n) :
         KeyHistory(n)[i] = KeyHistory(n)[j] => i = j

(* A filled cache names the slot its site's key has in the cached shape, so *)
(* comparing the shape pointer is enough to trust the offset.               *)
CacheExact ==
  \A s \in Site : ic[s].shape # Root =>
    LET n == Find(shapes, ic[s].shape, SiteKey[s])
    IN  n # Root /\ shapes[n].offset = ic[s].offset

(* Every slot a shape calls live is inside its object's block and holds a   *)
(* value that was stored there.                                             *)
SlotsLive ==
  \A o \in Obj : \A i \in 0 .. SlotCount(shapes, table[o].shape) - 1 :
    i \in DOMAIN table[o].slots /\ table[o].slots[i] \in Value

(* No operation, cached or not, changes what a frozen dynamic object holds. *)
FrozenStays ==
  [][\A o \in Dyn : table[o].frozen => table'[o] = table[o]]_vars

(* A frozen fixed object gains, loses and changes no undeclared property,   *)
(* whether its overflow table was there when it was frozen or not.          *)
LockedStays ==
  [][\A o \in locked : table'[o] = table[o]]_vars

(* What the last two rest on: nothing is frozen while its literal is built, *)
(* and a frozen fixed object's overflow table, if it has one, is frozen.    *)
FreezeInv ==
  /\ DOMAIN table = Obj
  /\ \A o \in Obj : /\ table[o] = Layout(table[o].shape, table[o].slots, table[o].frozen)
                    /\ table[o].frozen \in BOOLEAN
  /\ fresh \subseteq Dyn /\ locked \subseteq Fixed
  /\ \A o \in fresh : ~table[o].frozen
  /\ \A o \in locked \cap grown : table[o].frozen

(* Together they are inductive: the shapes, what rests on their offsets, and *)
(* the marks of freezing.                                                   *)
ObjectInv ==
  TypeOK /\ TableOK(shapes) /\ SlotsLive /\ CacheExact /\ FreezeInv

(* No operation changes a declared field of a frozen fixed object.          *)
FrozenFieldsStay ==
  [][\A o \in locked : fields'[o] = fields[o]]_vars

----------------------------------------------------------------------------
(* The properties of a dynamic object in the order of their slots.          *)
Entries(o) ==
  LET order == SlotOrder(shapes, table[o].shape)
  IN  [i \in DOMAIN order |-> [key   |-> shapes[order[i]].key,
                               value |-> table[o].slots[i - 1]]]

Implemented == INSTANCE Records WITH
  props  <- [o \in Dyn |-> Entries(o)],
  frozen <- {o \in Dyn : table[o].frozen}

(* The one step that is no record's: `in` runs the getter of an inherited   *)
(* accessor, where OrdinaryHasProperty only looks for the key.              *)
InRunsGetter ==
  \E o \in Dyn, k \in Key :
    LET h == Implemented!Holder(Proto[o], k) IN
    /\ Implemented!Usable(o) /\ ~Implemented!Has(o, k)
    /\ h # None /\ Implemented!ValueOf(h, k) \in Getter
    /\ answer' = Reply("getter, then true", <<Implemented!ValueOf(h, k), o>>)
    /\ UNCHANGED <<shapes, table, fresh>>

(* The shapes, slots and caches implement plain insertion-ordered records:  *)
(* every answer through a cache is the answer of the record, but for an `in` *)
(* that finds an accessor on the prototypes, which calls its getter first.  *)
ImplementsRecords ==
  Implemented!Init /\ [][Implemented!Next \/ InRunsGetter]_(Implemented!vars)

(* What the comment on jsrt_in has of it: `in` runs none of the program's   *)
(* code. Where a prototype has an accessor this is false.                   *)
InOnlyLooks ==
  [][\A o \in Obj, k \in Key : In(o, k) => answer'.tag \in {"true", "false"}]_vars
=============================================================================
