------------------------------- MODULE ArrayWalks -------------------------------
(***************************************************************************)
(* One array and the builtins a program calls on it: in-place changes, the *)
(* methods that call back, a stored iterator, and sort. Between two steps  *)
(* of a method its callback runs, which may change the array under it.     *)
(***************************************************************************)
EXTENDS ArrayStore, SequencesExt, FiniteSetsExt

CONSTANTS
  Thrown,
  Argument,         \* the positions and counts given as arguments
  Method,
  InCallback,       \* the changes a callback makes
  MaxLength,        \* bound on the length
  MaxKey,           \* bound on the keys a comparator orders values by
  FindsShorten      \* whether the callback of a find may shorten the array

ASSUME WalkAssumption ==
  /\ MaxLength \in Nat /\ MaxKey \in Nat /\ "sort" \notin Method
  /\ Undefined \notin Int /\ NaN \notin Int /\ NaN # Undefined
  /\ Argument \subseteq Int \cup {Undefined, NaN}
  /\ Value # {} /\ \A v \in Value : v \notin Seq(Cell)

VARIABLES
  store,     \* the array: header and buffer
  walk,      \* the method that is calling back, if one is, as a sequence
  answer     \* what the last operation gave back, as a sequence
vars == <<store, walk, answer>>

\* The runs a variadic call is given: at most two items, one inside a callback.
Items ==
  {<<v>> : v \in Value}
    \cup IF walk # <<>> THEN {} ELSE {<<>>} \cup {<<v, w>> : v, w \in Value}
Given == Value \cup {Undefined}

(***************************************************************************)
(* Changes.                                                                *)
(***************************************************************************)
May(change) ==
  /\ answer = <<>>
  /\ walk # <<>> => change \in InCallback /\ walk[1].method # "sort"

Become(a, gave) ==
  /\ a.length <= MaxLength
  /\ a.length < store.length /\ walk # <<>> =>
       FindsShorten \/ walk[1].method \notin {"find", "findLast"}
  /\ store' = a
  /\ answer' = IF walk = <<>> THEN gave ELSE <<>>
  /\ UNCHANGED walk

Push == May("push") /\ \E items \in Items :
  Become(AppendAll(store, items), <<store.length + Len(items)>>)

Prepend == May("unshift") /\ \E items \in Items :
  Become(Unshift(store, items), <<store.length + Len(items)>>)

Pop == May("pop") /\ Become(Take(store, FALSE), <<Taken(store, FALSE)>>)
Shift == May("shift") /\ Become(Take(store, TRUE), <<Taken(store, TRUE)>>)

SpliceRun == May("splice") /\ \E start, count \in Argument, items \in Items :
  Become(Splice(store, start, count, items), Spliced(store, start, count))

SpliceTail == May("splice") /\ \E start \in Argument :
  Become(SpliceFrom(store, start), Spliced(store, start, store.length))

SetIndex == May("set") /\ \E i \in 0 .. MaxLength - 1, v \in Given :
  Become(Store(store, i, v), <<>>)

DeleteIndex == May("delete") /\ \E i \in 0 .. MaxLength - 1 : Become(Delete(store, i), <<>>)

ReverseAll == May("reverse") /\ Become(Reversed(store), <<>>)

FillRange == May("fill") /\ \E v \in Value, start, end \in Argument :
  Become(Fill(store, v, start, end), <<>>)

CopyRange == May("copyWithin") /\ \E target, start, end \in Argument :
  Become(CopyWithin(store, target, start, end), <<>>)

\* The program takes the answer before it goes on.
TakeAnswer == answer # <<>> /\ answer' = <<>> /\ UNCHANGED <<store, walk>>

Change ==
  \/ Push \/ Prepend \/ Pop \/ Shift \/ SpliceRun \/ SpliceTail
  \/ SetIndex \/ DeleteIndex \/ ReverseAll \/ FillRange \/ CopyRange

(***************************************************************************)
(* Methods with a callback. The length is read once; the walk goes on      *)
(* while the index is under it and under the length the array has by then. *)
(* A stored iterator only has the latter.                                  *)
(***************************************************************************)
Downward == {"findLast", "reduceRight"}
ReadsAbsent == {"find", "findLast", "values"}

\* Mutant of Walking: the length is read again on each turn.
WalkingGrown(m, i, len) == i < store.length

Walking(m, i, len) == (m # "values" => i < len) /\ i < store.length
IndexPresent(i) == i < store.length /\ store.elements[i + 1] # Hole
Visited(m, i, len) == Walking(m, i, len) /\ (m \in ReadsAbsent \/ IndexPresent(i))

\* The walk from index i on: to the next callback, or to its end.
Onward(m, i, len, out) ==
  LET turns == IF m \in Downward THEN 0 .. i ELSE i .. MaxLength - 1
      due   == {j \in turns : Visited(m, j, len)}
      at    == IF m \in Downward THEN Max(due) ELSE Min(due)
  IN  IF due = {} THEN walk' = <<>> /\ answer' = out
      ELSE /\ walk' = <<[method |-> m, at |-> at, len |-> len, out |-> out,
                         seen |-> Unhole(store.elements[at + 1])]>>
           /\ answer' = <<>>

FirstOut(m, initial) ==
  CASE m = "map"                       -> Live(Holes(store.length))
    [] m \in {"reduce", "reduceRight"} -> <<initial>>
    [] m = "some"                      -> <<0>>
    [] m = "every"                     -> <<1>>
    [] OTHER                           -> <<>>

Call == \E m \in Method, initial \in Given :
  /\ walk = <<>> /\ answer = <<>>
  /\ UNCHANGED store
  /\ Onward(m, IF m \in Downward THEN store.length - 1 ELSE 0, store.length, FirstOut(m, initial))

\* The callback answers: each method does its own thing with the answer.
Answered(m, out) ==
  /\ walk # <<>> /\ walk[1].method = m
  /\ UNCHANGED store
  /\ Onward(m, IF m \in Downward THEN walk[1].at - 1 ELSE walk[1].at + 1, walk[1].len, out)

Stopped(m, out) ==
  walk # <<>> /\ walk[1].method = m /\ walk' = <<>> /\ answer' = out /\ UNCHANGED store

ForEachReturns == \E m \in {"forEach", "values"} : Answered(m, <<>>)

MapReturns == \E v \in Given : Answered("map", [walk[1].out EXCEPT ![walk[1].at + 1] = v])

FilterReturns == \E yes \in BOOLEAN :
  Answered("filter", IF yes THEN Append(walk[1].out, walk[1].seen) ELSE walk[1].out)

FlatMapReturns ==
  \/ \E v \in Value : Answered("flatMap", Append(walk[1].out, v))
  \/ \E run \in {<<>>} \cup {<<Hole, v>> : v \in Value} :
       Answered("flatMap", walk[1].out \o Flattened(run))

SomeReturns == Stopped("some", <<1>>) \/ Answered("some", <<0>>)
EveryReturns == Stopped("every", <<0>>) \/ Answered("every", <<1>>)

FindReturns == \E m \in {"find", "findLast"} :
  Stopped(m, <<walk[1].at, walk[1].seen>>) \/ Answered(m, <<>>)

ReduceReturns == \E m \in {"reduce", "reduceRight"}, acc \in Given : Answered(m, <<acc>>)

Return ==
  \/ ForEachReturns \/ MapReturns \/ FilterReturns \/ FlatMapReturns
  \/ SomeReturns \/ EveryReturns \/ FindReturns \/ ReduceReturns

\* A callback throws: no other is called.
CallbackThrows == walk # <<>> /\ walk[1].method # "sort" /\ Stopped(walk[1].method, <<Thrown>>)

(***************************************************************************)
(* sort: present elements first, then a merge sort of them in place over a *)
(* scratch array. One step places one element; the comparator answers by a *)
(* key of the values, or anything at all.                                  *)
(***************************************************************************)
Compacted(a) ==
  LET present == Flattened(Live(a))
  IN  [a EXCEPT !.elements = Overwrite(Place(@, 0, present), Len(present), a.length, Hole)]

\* The merges in the order the recursion reaches them.
Middle(lo, hi) == lo + (hi - lo) \div 2
Merges(present) ==
  LET of[run \in (0 .. present) \X (0 .. present)] ==
        LET lo == run[1]
            hi == run[2]
            mid == Middle(lo, hi)
        IN  IF hi - lo < 2 THEN <<>>
            ELSE of[<<lo, mid>>] \o of[<<mid, hi>>] \o <<[lo |-> lo, mid |-> mid, hi |-> hi]>>
  IN  of[<<0, present>>]

Merging(w, todo) ==
  [w EXCEPT !.todo = todo, !.a = todo[1].lo, !.b = todo[1].mid, !.k = todo[1].lo]

Keys == [Value -> 0 .. MaxKey]

Sort == \E key \in Keys, honest \in BOOLEAN :
  LET present == Len(Flattened(Live(store)))
      fresh   == [method |-> "sort", todo |-> <<>>, a |-> 0, b |-> 0, k |-> 0,
                  scratch |-> SubSeq(Compacted(store).elements, 1, present),
                  key |-> key, honest |-> honest, before |-> Live(store)]
  IN  /\ walk = <<>> /\ answer = <<>>
      /\ honest \/ key = [v \in Value |-> 0]
      /\ store' = Compacted(store)
      /\ walk' = IF present < 2 THEN <<>> ELSE <<Merging(fresh, Merges(present))>>
      /\ answer' = <<>>

\* Undefined sinks without a call; the comparator is asked about the rest.
Orders(w, x, y) ==
  CASE x = Undefined /\ y = Undefined -> {0}
    [] x = Undefined /\ y # Undefined -> {1}
    [] x # Undefined /\ y = Undefined -> {-1}
    [] x # Undefined /\ y # Undefined -> IF w.honest THEN {w.key[x] - w.key[y]} ELSE {-1, 0, 1}

\* Mutant of TakesLeft: a tie takes the right run's element.
TakesLeftStrictly(w) ==
  LET merge == w.todo[1]
  IN  IF w.a < merge.mid /\ w.b < merge.hi
      THEN {order < 0 : order \in Orders(w, store.elements[w.a + 1], store.elements[w.b + 1])}
      ELSE {w.a < merge.mid}

\* Whether the left run's element goes next: on a tie it does.
TakesLeft(w) ==
  LET merge == w.todo[1]
  IN  IF w.a < merge.mid /\ w.b < merge.hi
      THEN {order <= 0 : order \in Orders(w, store.elements[w.a + 1], store.elements[w.b + 1])}
      ELSE {w.a < merge.mid}

Placed(w, left) ==
  [w EXCEPT !.scratch[w.k + 1] = store.elements[(IF left THEN w.a ELSE w.b) + 1],
            !.a = IF left THEN @ + 1 ELSE @,
            !.b = IF left THEN @ ELSE @ + 1,
            !.k = @ + 1]

Merge ==
  /\ walk # <<>> /\ walk[1].method = "sort"
  /\ answer' = <<>>
  /\ \E left \in TakesLeft(walk[1]) :
       LET w == Placed(walk[1], left)
           merge == w.todo[1]
       IN  IF w.k < merge.hi
           THEN walk' = <<w>> /\ UNCHANGED store
           ELSE /\ store' = [store EXCEPT !.elements =
                               Place(@, merge.lo, SubSeq(w.scratch, merge.lo + 1, merge.hi))]
                /\ walk' = IF Len(w.todo) = 1 THEN <<>> ELSE <<Merging(w, Tail(w.todo))>>

\* The comparator throws: the merge is not written back and the sort ends.
ComparatorThrows ==
  /\ walk # <<>> /\ walk[1].method = "sort"
  /\ LET w == walk[1]
     IN  w.a < w.todo[1].mid /\ w.b < w.todo[1].hi
         /\ {store.elements[w.a + 1], store.elements[w.b + 1]} \subseteq Value
  /\ walk' = <<>> /\ answer' = <<Thrown>> /\ UNCHANGED store

(***************************************************************************)
(* The system.                                                             *)
(***************************************************************************)
Literals == UNION {[1 .. n -> Given] : n \in 0 .. MaxLength}

Init ==
  /\ store \in {NewArray(items) : items \in Literals} \cup {Holes(n) : n \in 0 .. MaxLength}
  /\ walk = <<>> /\ answer = <<>>

Next == TakeAnswer \/ Change \/ Call \/ Return \/ CallbackThrows \/ Sort \/ Merge \/ ComparatorThrows
Spec == Init /\ [][Next]_vars

(***************************************************************************)
(* Properties.                                                             *)
(***************************************************************************)

\* The header fits its buffer, live cells are elements, and no spare cell holds on
\* to a value the array has dropped: a collector that scans the whole buffer would
\* keep it.
StoreInv ==
  /\ store.length \in Nat
  /\ store.elements \in Seq(Cell)
  /\ store.length <= Capacity(store) /\ Capacity(store) > 0
  /\ \A k \in DOMAIN store.elements : k > store.length => store.elements[k] = Undefined

\* How far a sort has come is its own affair, and so is what it has moved: the
\* standard's list is the one it began with until it ends.
Sorts(w) == w # <<>> /\ w[1].method = "sort"
InProgress == IF Sorts(walk) THEN <<[method |-> "sort"]>> ELSE walk
Shown == IF Sorts(walk) THEN walk[1].before ELSE Live(store)
Contract == INSTANCE ArrayContract WITH list <- Shown, walk <- InProgress

\* The step the standard does not have: a sort is given up by a comparator that
\* throws, and the list is left as far rearranged as the merges have come.
SortAbandoned ==
  /\ InProgress = Contract!Sorting /\ InProgress' = <<>> /\ answer' = <<Thrown>>
  /\ Contract!Rearranged(Shown, Shown') /\ Contract!HolesLast(Shown')

\* Seen through the length, the array is ECMA-262's list: each change does to it
\* what the standard says, and each method with a callback visits the elements, and
\* gives the answer, the standard does, whatever the callback changes; a sort, even
\* one whose comparator contradicts itself, leaves the same elements with the absent
\* ones last. Only a comparator that throws parts the two, by SortAbandoned.
ImplementsList ==
  Contract!Init /\ [][Contract!Next \/ SortAbandoned]_(Contract!vars)

\* What jsrt_array_ops.c:821 says of a comparator that throws, "the receiver is left
\* partially ordered, which nothing may observe": the program that catches the error
\* finds the list the sort began with. It does not: MCArrays' program may go on, and
\* reads a rearranged one.
SortThrowUnseen == [][answer' = <<Thrown>> => Live(store)' = Shown]_vars

\* The builtins that only read agree with the standard's on every array the others
\* leave: relative and clamped positions, and the three ways to meet a hole.
ReadsExact ==
  LET l == Live(store) IN
  /\ \A i \in Argument :
       /\ At(store, i) = Contract!GetAt(l, i)
       /\ \A v \in Given :
            /\ IndexOf(store, v, i) = Contract!FirstIndexOf(l, v, i)
            /\ LastIndexOf(store, v, i) = Contract!FinalIndexOf(l, v, i)
            /\ Includes(store, v, i) = Contract!Has(l, v, i)
       /\ \A v \in Value :
            At(store, i) # Undefined => With(store, i, v) = NewArray(Contract!Replaced(l, i, v))
       /\ \A j \in Argument : Slice(store, i, j) = Contract!Section(l, i, j)
  /\ Live(Concat(store, store)) = l \o l
  /\ Flattened(l) = Contract!Present(l)

\* A sort that its comparator let run to the end, with answers that agree with one
\* order, leaves the values in that order, equal ones as they stood, then the
\* undefined elements, then the holes.
Rank(w, c) == CASE c = Hole -> MaxKey + 2 [] c = Undefined -> MaxKey + 1 [] OTHER -> w.key[c]
Sorted(w) ==
  LET l == w.before
      Ahead(i, j) == \/ Rank(w, l[i]) < Rank(w, l[j])
                     \/ Rank(w, l[i]) = Rank(w, l[j]) /\ i < j
  IN  [k \in DOMAIN l |->
         l[CHOOSE i \in DOMAIN l : Cardinality({j \in DOMAIN l : Ahead(j, i)}) = k - 1]]
SortExact ==
  [][(walk # <<>> /\ walk' = <<>> /\ answer' = <<>>) =>
        (walk[1].method = "sort" =>
           (walk[1].honest => Live(store)' = Sorted(walk[1])))]_vars
=================================================================================
