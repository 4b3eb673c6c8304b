------------------------------- MODULE ArrayStore -------------------------------
(***************************************************************************)
(* The storage of an Array and the builtins that change or read it without *)
(* calling back (jsrt_array_ops.c, jsrt_value.c, jsrt_alloc.zig).          *)
(*                                                                         *)
(* An array is a header with a length and a buffer of cells. The buffer is *)
(* as long as its capacity; index i of the program is cell i + 1. A cell   *)
(* below the length holds a value, undefined, or Hole, which stands for an *)
(* absent index; the cells past the length are spare.                      *)
(***************************************************************************)
EXTENDS Integers, Sequences

CONSTANTS
  Value,        \* what a program stores, other than undefined
  Undefined,
  Hole,
  NaN           \* the number argument that is not a number

ASSUME UndefinedAssumption == Undefined \notin Value
ASSUME HoleAssumption == Hole \notin Value \cup {Undefined}

Cell == Value \cup {Undefined, Hole}

Capacity(a) == Len(a.elements)
Live(a) == SubSeq(a.elements, 1, a.length)
Unhole(c) == IF c = Hole THEN Undefined ELSE c

\* The (n)th cell and those after it, up to the (m)th, of a buffer become c.
Overwrite(cells, from, to, c) ==
  [k \in DOMAIN cells |-> IF from < k /\ k <= to THEN c ELSE cells[k]]

\* memmove of n cells between two places of one buffer.
MoveRun(cells, to, from, n) ==
  [k \in DOMAIN cells |-> IF to < k /\ k <= to + n THEN cells[k - to + from] ELSE cells[k]]

\* A run of items laid into a buffer from index at on.
Place(cells, at, items) ==
  [k \in DOMAIN cells |-> IF at < k /\ k <= at + Len(items) THEN items[k - at] ELSE cells[k]]

(***************************************************************************)
(* Index arguments: an absent one arrives as undefined.                    *)
(***************************************************************************)
IntOrInf(v, absent) == CASE v = Undefined -> absent [] v = NaN -> 0 [] OTHER -> v

RelativeIndex(v, len) ==
  CASE v < 0 /\ len + v <= 0 -> 0
    [] v < 0 /\ len + v > 0  -> len + v
    [] v >= len              -> len
    [] OTHER                 -> v

\* Mutant of End: an absent end taken as an absent start.
EndAbsentZero(v, len) == RelativeIndex(IntOrInf(v, 0), len)

Start(v, len) == RelativeIndex(IntOrInf(v, 0), len)
End(v, len) == RelativeIndex(IntOrInf(v, len), len)

(***************************************************************************)
(* Allocation and growth: an empty array still has one cell; the capacity  *)
(* doubles until the index fits, and every spare cell is undefined.        *)
(***************************************************************************)
NewArray(items) ==
  [length |-> Len(items), elements |-> IF items = <<>> THEN <<Undefined>> ELSE items]

Least(s) == CHOOSE x \in s : \A y \in s : x <= y
Greatest(s) == CHOOSE x \in s : \A y \in s : x >= y

\* The capacity after each doubling, as many as the index can need.
Doublings(capacity, index) ==
  LET doubled[n \in 0 .. index + 1] == IF n = 0 THEN capacity ELSE 2 * doubled[n - 1]
  IN  doubled

GrownCapacity(capacity, index) ==
  LET doubled == Doublings(capacity, index)
  IN  doubled[Least({n \in 0 .. index + 1 : doubled[n] > index})]

Grow(a, index) ==
  IF index < Capacity(a) THEN a
  ELSE [a EXCEPT !.elements =
          [k \in 1 .. GrownCapacity(Capacity(a), index) |->
             IF k <= a.length THEN a.elements[k] ELSE Undefined]]

Holes(len) ==
  IF len = 0 THEN NewArray(<<>>)
  ELSE LET grown == Grow(NewArray(<<>>), len - 1)
       IN  [length |-> len, elements |-> Overwrite(grown.elements, 0, len, Hole)]

\* The sparse write: what it skips becomes holes.
Store(a, i, c) ==
  LET cells == Grow(a, i).elements
      filled == Overwrite(cells, a.length, i, Hole)
  IN  [length |-> IF i >= a.length THEN i + 1 ELSE a.length,
       elements |-> [filled EXCEPT ![i + 1] = c]]

\* Appends of a run, each through the write at the length.
AppendAll(a, items) ==
  IF items = <<>> THEN a
  ELSE LET grown == Grow(a, a.length + Len(items) - 1)
       IN  [length |-> a.length + Len(items), elements |-> Place(grown.elements, a.length, items)]

Delete(a, i) == IF i < a.length THEN [a EXCEPT !.elements[i + 1] = Hole] ELSE a

(***************************************************************************)
(* In-place builtins.                                                      *)
(***************************************************************************)
Take(a, fromFront) ==
  LET moved == IF fromFront THEN MoveRun(a.elements, 0, 1, a.length - 1) ELSE a.elements
  IN  IF a.length = 0 THEN a
      ELSE [length |-> a.length - 1,
            elements |-> [moved EXCEPT ![a.length] = Undefined]]

Taken(a, fromFront) ==
  IF a.length = 0 THEN Undefined ELSE Unhole(a.elements[IF fromFront THEN 1 ELSE a.length])

Unshift(a, items) ==
  LET grown == AppendAll(a, [i \in DOMAIN items |-> Undefined])
      moved == MoveRun(grown.elements, Len(items), 0, a.length)
  IN  [grown EXCEPT !.elements = Place(moved, 0, items)]

Reversed(a) ==
  [a EXCEPT !.elements =
     [k \in DOMAIN a.elements |->
        IF k <= a.length THEN a.elements[a.length + 1 - k] ELSE a.elements[k]]]

Fill(a, v, start, end) ==
  [a EXCEPT !.elements = Overwrite(@, Start(start, a.length), End(end, a.length), v)]

CopyWithin(a, target, start, end) ==
  LET to   == Start(target, a.length)
      from == Start(start, a.length)
      last == End(end, a.length)
      span == IF last > from THEN last - from ELSE 0
      room == a.length - to
  IN  [a EXCEPT !.elements = MoveRun(@, to, from, IF span < room THEN span ELSE room)]

\* The cells a splice removes: how many, and the run itself.
SpliceCount(a, start, deleteCount) ==
  LET want == IntOrInf(deleteCount, 0)
      room == a.length - Start(start, a.length)
  IN  CASE want <= 0 -> 0 [] want > 0 /\ want >= room -> room [] OTHER -> want

Spliced(a, start, deleteCount) ==
  LET from == Start(start, a.length)
  IN  SubSeq(a.elements, from + 1, from + SpliceCount(a, start, deleteCount))

\* Mutant of Splice: the cells a shrink vacates keep their values.
SpliceKeepingTail(a, start, deleteCount, items) ==
  LET from   == Start(start, a.length)
      count  == SpliceCount(a, start, deleteCount)
      newlen == a.length - count + Len(items)
      grown  == AppendAll(a, [i \in 1 .. newlen - a.length |-> Undefined])
      moved  == MoveRun(grown.elements, from + Len(items), from + count, a.length - from - count)
  IN  [length |-> newlen, elements |-> Place(moved, from, items)]

Splice(a, start, deleteCount, items) ==
  LET from   == Start(start, a.length)
      count  == SpliceCount(a, start, deleteCount)
      newlen == a.length - count + Len(items)
      grown  == AppendAll(a, [i \in 1 .. newlen - a.length |-> Undefined])
      moved  == MoveRun(grown.elements, from + Len(items), from + count, a.length - from - count)
  IN  [length |-> newlen,
       elements |-> Overwrite(Place(moved, from, items), newlen, a.length, Undefined)]

\* The one-argument form deletes to the end.
SpliceFrom(a, start) ==
  Splice(a, start, a.length - Start(start, a.length), <<>>)

(***************************************************************************)
(* Builtins that only read, and those that build another array.            *)
(***************************************************************************)
At(a, index) ==
  LET v == IntOrInf(index, 0)
      k == IF v < 0 THEN v + a.length ELSE v
  IN  IF k < 0 \/ k >= a.length THEN Undefined ELSE Unhole(a.elements[k + 1])

IndexOf(a, v, from) ==
  LET hits == {i \in Start(from, a.length) .. a.length - 1 : a.elements[i + 1] = v}
  IN  IF hits = {} THEN -1 ELSE Least(hits)

LastIndexOf(a, v, from) ==
  LET n    == IntOrInf(from, 0)
      k    == IF n >= 0 THEN n ELSE a.length + n
      hits == {i \in 0 .. (IF k >= a.length THEN a.length - 1 ELSE k) : a.elements[i + 1] = v}
  IN  IF hits = {} THEN -1 ELSE Greatest(hits)

Includes(a, v, from) ==
  \E i \in Start(from, a.length) .. a.length - 1 : Unhole(a.elements[i + 1]) = v

Slice(a, start, end) ==
  SubSeq(a.elements, Start(start, a.length) + 1, End(end, a.length))

Concat(a, b) == AppendAll(NewArray(Live(a)), Live(b))

DenseCopy(a) == NewArray([k \in 1 .. a.length |-> Unhole(a.elements[k])])

With(a, index, v) ==
  LET n == IntOrInf(index, 0)
      k == IF n < 0 THEN n + a.length ELSE n
  IN  [DenseCopy(a) EXCEPT !.elements[k + 1] = v]

\* At n, the cells among the first n that are present.
PresentCells(cells) ==
  LET kept[n \in 0 .. Len(cells)] ==
        IF n = 0 THEN <<>>
        ELSE IF cells[n] # Hole THEN Append(kept[n - 1], cells[n]) ELSE kept[n - 1]
  IN  kept

\* What an append into an answer leaves out: absent indices, at depth zero.
Flattened(cells) == PresentCells(cells)[Len(cells)]
=================================================================================
