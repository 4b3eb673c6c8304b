----------------------------- MODULE ArrayContract -----------------------------
(***************************************************************************)
(* What ECMA-262 promises of one Array (chapter 23.1.3): a list of         *)
(* elements, some absent, no storage. The builtins are restated from what  *)
(* they select; a method with a callback is a walk whose length is read    *)
(* once, while the callback may change the list.                           *)
(***************************************************************************)
EXTENDS Integers, Sequences, FiniteSets, SequencesExt

CONSTANTS
  Value, Undefined, Hole, NaN,
  Thrown,       \* the answer of a method whose callback threw
  Argument,     \* the numbers, or undefined, given as positions and counts
  Method        \* the methods with a callback, and "values", a stored iterator

VARIABLES
  list,      \* the elements, Hole where an index is absent
  walk,      \* the method in progress, if there is one, as a sequence
  answer     \* what the last operation gave back, as a sequence
vars == <<list, walk, answer>>

Elements == Value \cup {Undefined, Hole}
Get(l, i) == IF i \in 0 .. Len(l) - 1 /\ l[i + 1] # Hole THEN l[i + 1] ELSE Undefined
HasProperty(l, i) == i \in 0 .. Len(l) - 1 /\ l[i + 1] # Hole

\* Relative indices: negative counts from the end, and the result is clamped.
Integer(v, absent) == IF v = Undefined THEN absent ELSE IF v = NaN THEN 0 ELSE v
Clamp(v, len) == IF v < 0 THEN 0 ELSE IF v > len THEN len ELSE v
Relative(v, absent, len) ==
  LET n == Integer(v, absent) IN Clamp(IF n < 0 THEN len + n ELSE n, len)

Drop(l, n) == SubSeq(l, n + 1, Len(l))
Keep(l, n) == SubSeq(l, 1, n)

(***************************************************************************)
(* The builtins that only read.                                            *)
(***************************************************************************)
GetAt(l, index) ==
  LET n == Integer(index, 0) IN Get(l, IF n < 0 THEN Len(l) + n ELSE n)

Section(l, start, end) ==
  SubSeq(l, Relative(start, 0, Len(l)) + 1, Relative(end, Len(l), Len(l)))

\* Strict equality never finds an absent index; includes reads it as undefined.
Positions(l, v) == {i \in 0 .. Len(l) - 1 : HasProperty(l, i) /\ Get(l, i) = v}
First(s) == CHOOSE i \in s \cup {-1} : \A j \in s : i # -1 /\ i <= j
Final(s) == CHOOSE i \in s \cup {-1} : \A j \in s : i >= j
FirstIndexOf(l, v, from) ==
  First({i \in Positions(l, v) : i >= Relative(from, 0, Len(l))})
FinalIndexOf(l, v, from) ==
  LET n == Integer(from, 0)
  IN  Final({i \in Positions(l, v) : i <= IF n < 0 THEN Len(l) + n ELSE n})
Has(l, v, from) ==
  \E i \in Relative(from, 0, Len(l)) .. Len(l) - 1 : Get(l, i) = v
Present(l) ==
  LET at == {i \in DOMAIN l : l[i] # Hole}
  IN  [k \in 1 .. Cardinality(at) |->
         l[CHOOSE i \in at : Cardinality({j \in at : j < i}) = k - 1]]
Dense(l) == [k \in DOMAIN l |-> Get(l, k - 1)]
Replaced(l, index, v) ==
  LET n == Integer(index, 0) IN [Dense(l) EXCEPT ![(IF n < 0 THEN Len(l) + n ELSE n) + 1] = v]

(***************************************************************************)
(* The builtins that change the list.                                      *)
(***************************************************************************)
Taken == UNCHANGED <<list, walk>> /\ answer' = <<>>

Become(l, gave) == list' = l /\ answer' = IF walk = <<>> THEN gave ELSE <<>>

Push(items) == Become(list \o items, <<Len(list) + Len(items)>>)
Unshift(items) == Become(items \o list, <<Len(list) + Len(items)>>)

Pop ==
  IF list = <<>> THEN Become(list, <<Undefined>>)
  ELSE Become(Front(list), <<Get(list, Len(list) - 1)>>)

Shift ==
  IF list = <<>> THEN Become(list, <<Undefined>>) ELSE Become(Tail(list), <<Get(list, 0)>>)

Splice(start, deleteCount, items) ==
  LET from  == Relative(start, 0, Len(list))
      count == Clamp(Integer(deleteCount, 0), Len(list) - from)
      rest  == Drop(list, from)
  IN  Become(Keep(list, from) \o items \o Drop(rest, count), Keep(rest, count))

SpliceFrom(start) ==
  LET from == Relative(start, 0, Len(list))
  IN  Become(Keep(list, from), Drop(list, from))

Assign(i, v) ==
  Become([k \in 1 .. (IF i >= Len(list) THEN i + 1 ELSE Len(list)) |->
            IF k = i + 1 THEN v ELSE IF k <= Len(list) THEN list[k] ELSE Hole], <<>>)

Delete(i) ==
  Become([k \in DOMAIN list |-> IF k = i + 1 THEN Hole ELSE list[k]], <<>>)

Reversed == Become(Reverse(list), <<>>)

Fill(v, start, end) ==
  LET from == Relative(start, 0, Len(list))
      to   == Relative(end, Len(list), Len(list))
  IN  Become([k \in DOMAIN list |-> IF k - 1 \in from .. to - 1 THEN v ELSE list[k]], <<>>)

\* As if the whole run were read before any of it is written.
CopyWithin(target, start, end) ==
  LET to  == Relative(target, 0, Len(list))
      run == Section(list, start, end)
  IN  Become([k \in DOMAIN list |-> IF k - to \in DOMAIN run THEN run[k - to] ELSE list[k]], <<>>)

(***************************************************************************)
(* The methods with a callback. An index is visited if it is present when  *)
(* its turn comes; find and a stored iterator visit an absent one too, as  *)
(* undefined, and an iterator reads the length again each time.            *)
(***************************************************************************)
Downward == {"findLast", "reduceRight"}
Visited(m, l, i) == m \in {"find", "findLast", "values"} \/ HasProperty(l, i)
Turns(m, l, i, len) ==
  CASE m \in Downward -> 0 .. i
    [] m = "values"   -> i .. Len(l) - 1
    [] OTHER          -> i .. len - 1

\* From index i on, the walk stops at the next visit or is over.
Onward(m, i, len, out) ==
  LET due == {j \in Turns(m, list, i, len) : Visited(m, list, j)}
      at  == IF m \in Downward THEN Final(due) ELSE First(due)
  IN  /\ UNCHANGED list
      /\ IF due = {} THEN walk' = <<>> /\ answer' = out
         ELSE /\ walk' = <<[method |-> m, at |-> at, len |-> len, out |-> out,
                            seen |-> Get(list, at)]>>
              /\ answer' = <<>>

\* What the answer is if no callback is called.
Initially(m, initial) ==
  CASE m = "map"                       -> [k \in DOMAIN list |-> Hole]
    [] m \in {"reduce", "reduceRight"} -> <<initial>>
    [] m = "some"                      -> <<0>>
    [] m = "every"                     -> <<1>>
    [] OTHER                           -> <<>>

Begin(m, initial) ==
  /\ walk = <<>>
  /\ Onward(m, IF m \in Downward THEN Len(list) - 1 ELSE 0, Len(list), Initially(m, initial))

Finish(out) == walk' = <<>> /\ answer' = out /\ UNCHANGED list

\* The callback has given v, which may be an array for flatMap.
Continue(v) ==
  LET w  == walk[1]
      On(out) == Onward(w.method, IF w.method \in Downward THEN w.at - 1 ELSE w.at + 1, w.len, out)
      yes == v # Undefined
      m == w.method
  IN  /\ walk # <<>>
      /\ \/ m = "map" /\ On([w.out EXCEPT ![w.at + 1] = v])
         \/ m = "filter" /\ On(IF yes THEN Append(w.out, w.seen) ELSE w.out)
         \/ m = "flatMap" /\ On(w.out \o (IF v \in Seq(Elements) THEN Present(v) ELSE <<v>>))
         \/ m = "some" /\ IF yes THEN Finish(<<1>>) ELSE On(w.out)
         \/ m = "every" /\ IF yes THEN On(w.out) ELSE Finish(<<0>>)
         \/ m \in {"find", "findLast"} /\ IF yes THEN Finish(<<w.at, w.seen>>) ELSE On(w.out)
         \/ m \in {"reduce", "reduceRight"} /\ On(<<v>>)
         \/ m \in {"forEach", "values"} /\ On(w.out)

\* A throw ends the method: no callback runs after it, and the list is as it was.
Throw == walk # <<>> /\ walk' = <<>> /\ answer' = <<Thrown>> /\ UNCHANGED list

(***************************************************************************)
(* A sort compares before it writes: until every comparison has been made, *)
(* and if one throws, the list is as it was. Then its elements stand       *)
(* rearranged, the absent ones last. Fewer than two need no comparison.    *)
(***************************************************************************)
Rearranged(l, k) ==
  \E from \in [DOMAIN l -> DOMAIN l] :
    /\ \A i, j \in DOMAIN l : from[i] = from[j] => i = j
    /\ k = [i \in DOMAIN l |-> l[from[i]]]
HolesLast(k) == \A i, j \in DOMAIN k : i < j /\ k[i] = Hole => k[j] = Hole

Sorting == <<[method |-> "sort"]>>
Compares == Len(Present(list)) > 1

SortBegins ==
  walk = <<>> /\ Compares /\ walk' = Sorting /\ answer' = <<>> /\ UNCHANGED list

SortEnds ==
  /\ walk = IF Compares THEN Sorting ELSE <<>>
  /\ walk' = <<>> /\ answer' = <<>>
  /\ Rearranged(list, list') /\ HolesLast(list')

Given == Value \cup {Undefined}
Runs == {<<>>} \cup {<<v>> : v \in Value} \cup {<<v, w>> : v, w \in Value}

Change ==
  /\ answer = <<>> /\ walk # Sorting /\ UNCHANGED walk
  /\ \/ Pop \/ Shift
     \/ \E items \in Runs : Push(items) \/ Unshift(items)
     \/ \E i \in DOMAIN list' : Delete(i - 1) \/ \E v \in Given : Assign(i - 1, v)
     \/ Reversed
     \/ \E v \in Value, s, e \in Argument : Fill(v, s, e)
     \/ \E s \in Argument : SpliceFrom(s)
     \/ \E s, d \in Argument, items \in Runs : Splice(s, d, items)
     \/ \E t, s, e \in Argument : CopyWithin(t, s, e)

Next ==
  \/ Taken
  \/ Change
  \/ \E m \in Method, v \in Given : Begin(m, v)
  \/ Throw
  \/ \E v \in Given \cup Runs \cup {<<Hole, x>> : x \in Value} : Continue(v)
  \/ SortBegins \/ SortEnds

Init == list \in Seq(Elements) /\ walk = <<>> /\ answer = <<>>
Spec == Init /\ [][Next]_vars
================================================================================
