---------------------------- MODULE PromiseAllProofs ----------------------------
(***************************************************************************)
(* Promise.all, and the theorems that rest on both invariants of Promises: *)
(* nothing is lost and nothing completes twice, the promises nobody can    *)
(* name are never reported, a module body that is rejected fails the       *)
(* process, and Promise.all fulfils with every value in its place. Last,   *)
(* the refinement: the heap and its queue implement PromiseContract.       *)
(***************************************************************************)
EXTENDS PromiseProofs, PromisesRefine, Induction

-----------------------------------------------------------------------------
(* The three steps of Promise.all.                                         *)

\* AllInv of the next state, from its parts.
LEMMA AllInvNext ==
  ASSUME ElementsNamed', LoopOnTop', \A p \in Promise : role'[p] = "all" => AllOf(p)'
  PROVE  AllInv'
<1>1. (AllInv <=> ElementsNamed /\ LoopOnTop /\ \A p \in Promise : role[p] = "all" => AllOf(p))'
  BY AllInvIs, PTL
<1> QED BY <1>1

\* Every element that waits is one of an allocated Promise.all, and is named there.
LEMMA ElementIs ==
  ASSUME Going, NEW w \in Waiters(heap), w[1].kind = "all_element"
  PROVE  /\ w[1].p \in Promise /\ w[1].p \in Allocated(heap) /\ role[w[1].p] = "all"
         /\ w[1].index \in 1..Len(all[w[1].p].elems) /\ all[w[1].p].elems[w[1].index] = w[2]
<1>1. Inv /\ OwnersInv /\ ElementsNamed
  BY AllInvIs DEF Going, OwnersInv
<1>2. RoleFits(w[1].kind, role[w[1].p]) /\ w[1].p \in Promise /\ w[1].p \in Allocated(heap)
  BY <1>1, RolesFitIs, WaiterTarget
<1> QED BY <1>1, <1>2 DEF RoleFits, ElementsNamed

\* What CallAll does to the heap, with an empty array and with another: a fresh
\* promise, settled at once if there is nothing to wait for.
AllMade(p, n) ==
  /\ Same(heap, heap') /\ Grows(heap, heap') /\ Apart(heap, heap', {p}) /\ AdoptExact(heap')
  /\ IF n = 0 THEN heap'.resolved[p] ELSE ~heap'.resolved[p] /\ heap'.state[p] = "pending"

\* CallAll makes what AllMade describes.
LEMMA AllMakes ==
  ASSUME Going, NEW n \in 0..MaxAll, NEW p \in Promise, NEW elem \in [1..n -> UserValue],
         CallAll(elem, p)
  PROVE  AllMade(p, n)
<1> DEFINE h == PromiseNew(heap, p)
<1>1. /\ Inv /\ OwnersInv /\ p \in Free(heap) /\ HeapInv(heap) /\ heap \in Heap /\ AdoptExact(heap)
      /\ n \in Nat /\ ~heap.resolved[p]
  <2>1. Inv /\ OwnersInv /\ p \in Free(heap) /\ n \in Nat
    BY ProgramAssumption DEF Going, CallAll
  <2> QED BY <2>1, Fresh DEF Inv, TypeOK, OwnersInv, CompletionInv
<1>2. (elem = <<>>) <=> n = 0
  <2>1. \A v \in UserValue : v \in Value
    BY <1>1, UserValues
  <2>2. elem \in [1..n -> Value]
    BY <2>1
  <2>3. elem \in Seq(Value) /\ Len(elem) = n
    BY <1>1, <2>2
  <2> QED BY <2>3
<1>3. IF n = 0 THEN heap' = PromiseSettle(h, p, ResultsArray, FALSE) ELSE heap' = h
  BY <1>2 DEF CallAll
<1>4. Allocates(heap, h, p) /\ HeapInv(h)
  BY <1>1, NewEffect, NewInv
<1>5. AdoptExact(h)
  BY <1>1, <1>4, NewExact
<1> HIDE DEF h
<1>6. /\ h \in Heap /\ Same(heap, h) /\ Grows(heap, h) /\ Apart(heap, h, {p})
      /\ h.state[p] = "pending" /\ ~h.resolved[p]
  BY <1>1, <1>4 DEF Allocates
<1>7. CASE n # 0
  BY <1>3, <1>5, <1>6, <1>7 DEF AllMade
<1>8. CASE n = 0
  <2>1. ResultsArray \in Value /\ ResultsArray \notin Promise
    BY PromiseAssumption DEF Value
  <2>2. Settles(h, heap', p, ResultsArray, FALSE)
    BY <1>3, <1>6, <1>8, <2>1, SettleEffect
  <2>3. p \in Allocated(h)
    BY <1>6 DEF Allocated
  <2>4. AdoptExact(heap')
    BY <1>4, <1>5, <2>2, <2>3, SettleExact
  <2>5. Same(h, heap')
    BY <1>6, <2>1, <2>2, SettlesFlat
  <2>6. heap' \in Heap /\ Grows(h, heap') /\ Apart(h, heap', {p}) /\ heap'.resolved[p]
    BY <2>2 DEF Settles
  <2>7. Grows(heap, heap')
    BY <1>1, <1>6, <2>6, GrowsOn
  <2> QED BY <1>6, <1>8, <2>4, <2>5, <2>6, <2>7 DEF AllMade, Same, Apart
<1> QED BY <1>7, <1>8

\* Promise.all waits for every element of its array from the call on.
LEMMA CallAllOwners ==
  ASSUME Going, NEW n \in 0..MaxAll, NEW p \in Promise, NEW elem \in [1..n -> UserValue],
         CallAll(elem, p)
  PROVE  OwnersInv'
<1> DEFINE s == [remaining |-> Len(elem), input |-> elem, elems |-> <<>>,
                 results |-> [i \in 1..Len(elem) |-> Undefined]]
           f == Run("all", p)
<1>1. /\ stack # <<>> /\ Top.kind # "all" /\ p \in Free(heap) /\ all' = [all EXCEPT ![p] = s]
      /\ phase' = phase /\ role' = [role EXCEPT ![p] = "all"]
      /\ IF elem = <<>> THEN stack' = stack ELSE stack' = <<f>> \o stack
  BY DEF CallAll, Calls, UserRuns
<1>2. /\ Inv /\ OwnersInv /\ heap \in Heap /\ NoLoop(stack) /\ p \notin Allocated(heap)
      /\ Runs(stack, p) = 0 /\ Waiting(heap, p, CodeKinds) = 0
      /\ all \in [Promise -> AllState] /\ stack \in Seq(Frame) /\ stack' \in Seq(Frame)
      /\ phase \in {"script", "drain"}
  BY <1>1, Fresh, LoopFree, TopFrame DEF Going, Inv, TypeOK
<1>3. Len(elem) = n /\ n \in Nat /\ ((elem = <<>>) <=> n = 0)
  <2>1. \A v \in UserValue : v \in Value
    BY <1>2, UserValues
  <2>2. elem \in [1..n -> Value] /\ n \in Nat
    BY <2>1, ProgramAssumption
  <2>3. elem \in Seq(Value) /\ Len(elem) = n
    BY <2>2
  <2> QED BY <2>2, <2>3
<1>4. /\ all'[p].remaining = n /\ Len(all'[p].input) = n /\ Len(all'[p].elems) = 0
      /\ Len(all'[p].results) = n
      /\ \A x \in Promise \ {p} : all'[x] = all[x]
  <2>1. s.remaining = n /\ Len(s.input) = n /\ Len(s.elems) = 0 /\ Len(s.results) = n
    BY <1>3
  <2> HIDE DEF s
  <2> QED BY <1>1, <1>2, <2>1
<1> HIDE DEF s
<1>5. AllMade(p, n)
  BY AllMakes
<1>6. /\ Same(heap, heap') /\ Grows(heap, heap') /\ Apart(heap, heap', {p}) /\ AdoptExact(heap')
      /\ n = 0 => heap'.resolved[p]
      /\ n # 0 => ~heap'.resolved[p] /\ heap'.state[p] = "pending"
  BY <1>5 DEF AllMade
<1>7. role'[p] = "all" /\ \A x \in Promise : role'[x] # role[x] => x = p
  BY <1>1, <1>2 DEF Inv, TypeOK
<1>8. f \in Frame /\ f.kind = "all" /\ f.p = p /\ f.index = 1
  BY RunType DEF FrameKind
<1> HIDE DEF f
<1>9. /\ \A y \in Frames(stack') : y \in Frames(stack) \/ y = <<"all", p>>
      /\ \A x : Runs(stack', x) = Runs(stack, x) /\ Runs(stack, x) \in Nat
  <2>1. CASE n = 0
    BY <1>1, <1>2, <1>3, <2>1, WillType
  <2>2. CASE n # 0
    <3>1. stack' = <<f>> \o stack
      BY <1>1, <1>3, <2>2
    <3>2. /\ Frames(stack') = Frames(stack) \cup {<<f.kind, f.p>>}
          /\ \A x : Runs(stack', x) = Runs(stack, x) + IF Codes(f, x) THEN 1 ELSE 0
      BY <1>1, <1>2, <1>8, <3>1, Enter
    <3>3. \A x : ~Codes(f, x)
      BY <1>8 DEF Codes
    <3>4. \A x : Runs(stack, x) \in Nat
      BY <1>2, WillType
    <3>5. \A x : Runs(stack', x) = Runs(stack, x)
      BY <3>2, <3>3, <3>4
    <3> QED BY <1>8, <3>2, <3>4, <3>5
  <2> QED BY <2>1, <2>2
<1>10. Touches({p})
  BY <1>1, <1>6, <1>7, TouchesOpen
<1>11. Completes({p})
  <2>1. \A w \in Waiters(heap') : w \in Waiters(heap)
    BY <1>6 DEF Same
  <2>2. RoleFits("all", role'[p])
    BY <1>7 DEF RoleFits, AdopterKinds
  <2>3. \A y \in Frames(stack') : y \in Frames(stack) \/ (y[1] # "script" /\ RoleFits(y[1], role'[y[2]]))
    BY <1>9, <2>2
  <2>4. \A x : Waiting(heap', x, CodeKinds) = Waiting(heap, x, CodeKinds)
    BY <1>6 DEF Same
  <2>5. Will(stack', heap', p) = 0 /\ \A x : Will(stack', heap', x) = Will(stack, heap, x)
    BY <1>2, <1>9, <2>4 DEF Will
  <2>6. ~Owes(heap', role', p)
    BY <1>7 DEF Owes
  <2> QED BY <1>6, <2>1, <2>3, <2>5, <2>6 DEF Completes
<1>12. MainInv'
  <2>1. ObserverStays(heap, heap')
    BY <1>6, OthersSame DEF OthersStay
  <2>2. MainStays
    BY <1>1, <1>2, <1>9 DEF MainStays
  <2> QED BY <1>10, <2>1, <2>2, MainKept
<1>13. /\ \A i \in 1..Len(stack) : stack[i].kind # "all"
       /\ n = 0 => \A i \in 1..Len(stack') : stack'[i].kind # "all"
       /\ n # 0 => stack'[1] = f /\ 1 \in 1..Len(stack')
                   /\ \A i \in 1..Len(stack') : stack'[i].kind = "all" => i = 1
  <2>1. \A i \in 1..Len(stack) : stack[i].kind # "all"
    BY <1>2, NoLoopIs
  <2>2. CASE n = 0
    BY <1>1, <1>3, <2>1, <2>2
  <2>3. CASE n # 0
    <3>1. stack' = <<f>> \o stack
      BY <1>1, <1>3, <2>3
    <3>2. stack'[1] = f /\ Under(stack', stack)
      BY <1>2, <1>8, <3>1, PushUnder
    <3>3. Len(stack') = Len(stack) + 1 /\ \A i \in 1..Len(stack) : stack'[i + 1] = stack[i]
      BY <3>2 DEF Under
    <3>4. ASSUME NEW i \in 1..Len(stack'), i # 1 PROVE stack'[i].kind # "all"
      <4>1. i - 1 \in 1..Len(stack) /\ (i - 1) + 1 = i
        BY <1>2, <3>3, <3>4
      <4>2. stack'[(i - 1) + 1] = stack[i - 1]
        BY <3>3, <4>1
      <4> QED BY <2>1, <4>1, <4>2
    <3>5. 1 \in 1..Len(stack')
      BY <1>2, <3>3
    <3> QED BY <2>1, <2>3, <3>2, <3>4, <3>5
  <2> QED BY <2>2, <2>3
<1>14. \A w \in Waiters(heap) : w[1].kind = "all_element" => w[1].p # p
  BY <1>2, ElementIs
<1>15. Waiting(heap', p, {"all_element"}) = 0
  <2>1. \A w \in Waiters(heap) : ~Continues(w[1], p, {"all_element"})
    BY <1>14 DEF Continues
  <2>2. Waiting(heap, p, {"all_element"}) = 0
    BY <1>2, <2>1, WaitingZero
  <2> QED BY <1>6, <2>2 DEF Same
<1>16. AllInv'
  <2>1. ElementsNamed'
    <3>1. ASSUME NEW w \in Waiters(heap'), w[1].kind = "all_element"
          PROVE  w[1].index \in 1..Len(all'[w[1].p].elems) /\ all'[w[1].p].elems[w[1].index] = w[2]
      <4>1. w \in Waiters(heap)
        BY <1>6 DEF Same
      <4>2. /\ w[1].p \in Promise /\ w[1].p # p
            /\ w[1].index \in 1..Len(all[w[1].p].elems) /\ all[w[1].p].elems[w[1].index] = w[2]
        BY <1>14, <3>1, <4>1, ElementIs
      <4>3. all'[w[1].p] = all[w[1].p]
        BY <1>4, <4>2
      <4> QED BY <4>2, <4>3
    <3> QED BY <3>1 DEF ElementsNamed
  <2>2. LoopOnTop'
    <3>1. ASSUME NEW i \in 1..Len(stack'), stack'[i].kind = "all"
          PROVE  i = 1 /\ stack'[i].index = Len(all'[stack'[i].p].elems) + 1
      BY <1>4, <1>8, <1>13, <3>1
    <3> QED BY <3>1 DEF LoopOnTop
  <2>3. /\ \A x : x # p => ~LoopRuns(x)'
        /\ \A x : ~LoopRuns(x)
        /\ LoopRuns(p)' <=> n # 0
    BY <1>8, <1>13 DEF LoopRuns
  <2>4. ASSUME NEW x \in Promise, role'[x] = "all" PROVE AllOf(x)'
    <3>1. CASE x # p
      <4>1. role[x] = "all" /\ all'[x] = all[x]
        BY <1>4, <1>7, <2>4, <3>1
      <4>2. heap'.state[x] = heap.state[x] /\ heap'.resolved[x] = heap.resolved[x]
        BY <1>6, <3>1 DEF Apart
      <4>3. /\ Waiting(heap', x, {"all_element"}) = Waiting(heap, x, {"all_element"})
            /\ \A w : w \in Waiters(heap') <=> w \in Waiters(heap)
        BY <1>6 DEF Same
      <4> QED BY <2>3, <3>1, <4>1, <4>2, <4>3, AllOfKept
    <3>2. CASE x = p
      <4>1. Unsubscribed(p)' = IF LoopRuns(p)' THEN Len(all'[p].input) - Len(all'[p].elems) ELSE 0
        BY <1>2, UnsubscribedNext
      <4>2. ~heap'.resolved[p] =>
              /\ all'[p].remaining > 0
              /\ all'[p].remaining = Waiting(heap', p, {"all_element"}) + Unsubscribed(p)'
        BY <1>3, <1>4, <1>6, <1>15, <2>3, <4>1
      <4>3. heap'.state[p] = "fulfilled" => Waiting(heap', p, {"all_element"}) = 0 /\ ~LoopRuns(p)'
        BY <1>6, <1>15, <2>3
      <4>4. /\ Len(all'[p].results) = Len(all'[p].input) /\ Len(all'[p].elems) <= Len(all'[p].input)
            /\ ~LoopRuns(p)' => Len(all'[p].elems) = Len(all'[p].input)
            /\ \A i : i \notin 1..Len(all'[p].elems)
        BY <1>3, <1>4, <2>3
      <4>5. AllOf(p)'
        BY <4>2, <4>3, <4>4 DEF AllOf
      <4> QED BY <3>2, <4>5
    <3> QED BY <3>1, <3>2
  <2> QED BY <2>1, <2>2, <2>4, AllInvNext
<1> QED BY <1>10, <1>11, <1>12, <1>16, HiddenKept, CompletionKept DEF OwnersInv, Basic

\* A turn of the loop: its frame stays on top of the same code, or leaves.
LEMMA LoopTurns ==
  ASSUME Going, stack # <<>>, Top.kind = "all", NEW last \in BOOLEAN,
         stack' = IF last THEN Tail(stack) ELSE [stack EXCEPT ![1].index = @ + 1]
  PROVE  /\ Frames(stack') \subseteq Frames(stack)
         /\ \A x : Runs(stack', x) = Runs(stack, x)
         /\ \A k \in 1..Len(stack') : stack'[k].kind = "all" =>
              ~last /\ k = 1 /\ stack'[k].p = Top.p /\ stack'[k].index = Top.index + 1
         /\ ~last => 1 \in 1..Len(stack') /\ stack'[1].kind = "all" /\ stack'[1].p = Top.p
<1>1. /\ Inv /\ OwnersInv /\ stack \in Seq(Frame) /\ Top = stack[1] /\ Len(stack) \in Nat \ {0}
      /\ Top \in Frame
  BY TopFrame DEF Going, Inv, TypeOK
<1>2. \A k \in 1..Len(stack) : stack[k].kind = "all" => k = 1
  BY <1>1, AllInvIs DEF OwnersInv, LoopOnTop
<1>3. CASE last
  <2>1. stack' = Tail(stack)
    BY <1>3
  <2>2. /\ Frames(stack') \subseteq Frames(stack)
        /\ \A x : Runs(stack, x) = Runs(stack', x) + IF Codes(Top, x) THEN 1 ELSE 0
        /\ \A x : Runs(stack', x) \in Nat
    BY <1>1, <2>1, Leave
  <2>3. \A x : ~Codes(Top, x)
    BY DEF Codes
  <2>4. ASSUME NEW k \in 1..Len(stack') PROVE stack'[k].kind # "all"
    <3>1. Under(stack, stack')
      BY <1>1, <2>1, TailUnder
    <3>2. Len(stack) = Len(stack') + 1 /\ stack[k + 1] = stack'[k]
      BY <3>1 DEF Under
    <3>3. k + 1 \in 1..Len(stack) /\ k + 1 # 1
      BY <1>1, <2>4, <3>2
    <3> QED BY <1>2, <3>2, <3>3
  <2> QED BY <1>3, <2>2, <2>3, <2>4
<1>4. CASE ~last
  <2> DEFINE f == [Top EXCEPT !.index = @ + 1]
  <2>1. f \in Frame /\ f.kind = "all" /\ f.p = Top.p /\ f.index = Top.index + 1
    <3>1. Top.index + 1 \in Nat
      BY <1>1 DEF Frame
    <3> QED BY <1>1, <3>1, FrameIndex
  <2>2. stack' = [stack EXCEPT ![1] = f]
    BY <1>1, <1>4
  <2> HIDE DEF f
  <2>3. /\ stack' \in Seq(Frame) /\ Len(stack') = Len(stack) /\ stack'[1] = f
        /\ \A k \in 1..Len(stack) : k # 1 => stack'[k] = stack[k]
    BY <1>1, <2>1, <2>2
  <2>4. \A k \in 1..Len(stack) : stack'[k].kind = stack[k].kind /\ stack'[k].p = stack[k].p
    BY <1>1, <2>1, <2>3
  <2>5. Frames(stack') \subseteq Frames(stack)
    BY <2>3, <2>4 DEF Frames
  <2>6. \A x : Runs(stack', x) = Runs(stack, x)
    <3> SUFFICES ASSUME NEW x PROVE Runs(stack', x) = Runs(stack, x)
      OBVIOUS
    <3>1. {k \in 1..Len(stack') : Codes(stack'[k], x)} = {k \in 1..Len(stack) : Codes(stack[k], x)}
      BY <2>3, <2>4 DEF Codes
    <3> QED BY <3>1, Zenon DEF Runs
  <2>7. \A k \in 1..Len(stack') : stack'[k].kind = "all" => k = 1
    BY <1>2, <2>3, <2>4
  <2>8. 1 \in 1..Len(stack') /\ stack'[1].kind = "all" /\ stack'[1].p = Top.p
        /\ stack'[1].index = Top.index + 1
    BY <1>1, <2>1, <2>3
  <2>9. \A k \in 1..Len(stack') : stack'[k].kind = "all" =>
          ~last /\ k = 1 /\ stack'[k].p = Top.p /\ stack'[k].index = Top.index + 1
    BY <1>4, <2>7, <2>8
  <2> QED BY <2>5, <2>6, <2>8, <2>9
<1> QED BY <1>3, <1>4

\* Promise.all subscribes to one more element: it waits for it from now on.
LEMMA AllSubscribeOwners ==
  ASSUME Going, NEW q \in Promise, AllSubscribe(q)
  PROVE  OwnersInv'
<1> DEFINE p == Top.p
           i == Top.index
           s == all[p]
           v == s.input[i]
           r == AllReaction(p, i)
           e == Resolved(v, q)
           P == Wrapped(v, q)
           last == (i = Len(s.input))
<1>1. /\ stack # <<>> /\ Top.kind = "all" /\ phase' = phase
      /\ (v \notin Promise => q \in Free(heap)) /\ all' = [all EXCEPT ![p].elems = Append(@, e)]
      /\ heap' = Subscribe(PromiseResolve(heap, v, q), e, r)
      /\ stack' = IF last THEN Tail(stack) ELSE [stack EXCEPT ![1].index = @ + 1]
      /\ role' = IF v \in Promise THEN role ELSE [role EXCEPT ![q] = "wrapper"]
  BY SMTT(30) DEF AllSubscribe
<1>2. /\ Inv /\ OwnersInv /\ HeapInv(heap) /\ heap \in Heap /\ AdoptExact(heap)
      /\ Top = stack[1] /\ 1 \in 1..Len(stack) /\ all \in [Promise -> AllState]
      /\ RoleFits("all", role[p]) /\ p \in Promise /\ p \in Allocated(heap) /\ i \in Nat
      /\ phase \in {"script", "drain"}
  BY <1>1, TopFrame, TopOwes, SMTT(30) DEF Going, Inv, TypeOK, OwnersInv, CompletionInv, Frame
<1>3. /\ i \in 1..Len(s.input) /\ i = Len(s.elems) + 1 /\ role[p] = "all" /\ AllOf(p)
      /\ \A k \in 1..Len(stack) : stack[k].kind = "all" => k = 1
  BY <1>1, <1>2, AllInvIs DEF Inv, StackInv, OwnersInv, LoopOnTop, RoleFits
<1>4. v \in Value /\ (v \in Promise => v \in Allocated(heap))
  BY <1>2, <1>3 DEF Inv, NamesInv, AllState
<1>5. /\ s \in AllState /\ s.elems \in Seq(Promise) /\ e \in Promise /\ s.remaining \in Int
      /\ Len(s.elems) \in Nat /\ Len(s.input) \in Nat
  BY <1>2, <1>4, SMTT(30) DEF AllState, Resolved
<1>6. r \in Reaction /\ r.p = p /\ r.kind = "all_element" /\ r.index = i
  BY <1>2, PromiseAssumption DEF AllReaction, Rx, Reaction, Kind, Value
<1>7. r.kind \notin AdopterKinds /\ r.kind \notin CodeKinds /\ r.kind # "module_done"
  BY <1>6 DEF AdopterKinds, CodeKinds
<1>8. /\ \A x \in Promise : role'[x] # role[x] => x \in P /\ x \in Free(heap) /\ role'[x] = "wrapper"
      /\ \A x \in P : role'[x] = "wrapper"
      /\ P \subseteq Free(heap) /\ P \subseteq Promise
  BY <1>1, <1>2 DEF Inv, TypeOK, Wrapped
<1>9. /\ Frames(stack') \subseteq Frames(stack)
      /\ \A x : Runs(stack', x) = Runs(stack, x)
      /\ \A k \in 1..Len(stack') : stack'[k].kind = "all" =>
           ~last /\ k = 1 /\ stack'[k].p = p /\ stack'[k].index = i + 1
      /\ ~last => 1 \in 1..Len(stack') /\ stack'[1].kind = "all" /\ stack'[1].p = p
  <2>1. last \in BOOLEAN
    OBVIOUS
  <2> HIDE DEF last
  <2> QED BY <1>1, <2>1, LoopTurns
<1>10. /\ all'[p].elems = Append(s.elems, e) /\ all'[p].input = s.input
       /\ all'[p].results = s.results /\ all'[p].remaining = s.remaining
       /\ \A x \in Promise \ {p} : all'[x] = all[x]
  <2> DEFINE t == Append(s.elems, e)
  <2>1. all' = [all EXCEPT ![p] = [all[p] EXCEPT !.elems = t]]
    BY <1>1, <1>2
  <2> HIDE DEF t
  <2>2. all'[p] = [all[p] EXCEPT !.elems = t] /\ \A x \in Promise \ {p} : all'[x] = all[x]
    BY <1>2, <2>1
  <2> QED BY <1>5, <2>2, SMTT(30) DEF t, AllState
<1>11. Listens(heap, heap', v, q, r)
  <2> HIDE DEF r, v
  <2> QED BY <1>1, <1>2, <1>4, <1>6, <1>7, ListenEffect
<1>12. /\ heap' \in Heap /\ Gains(heap, heap', r, e) /\ Grows(heap, heap') /\ AdoptExact(heap')
       /\ Apart(heap, heap', P) /\ \A x \in P : heap'.state[x] = "fulfilled"
  <2> HIDE DEF r, v
  <2> QED BY <1>2, <1>11 DEF Listens, Wrapped
<1> DEFINE n == Len(s.elems)
           m == Len(s.input)
<1>13. /\ n \in Nat /\ m \in Nat /\ i = n + 1 /\ i <= m /\ (last <=> i = m)
       /\ Len(all'[p].elems) = n + 1 /\ Len(all'[p].input) = m
       /\ all'[p].elems[n + 1] = e /\ \A k \in 1..n : all'[p].elems[k] = s.elems[k]
  <2> DEFINE o == s.elems
  <2>1. o \in Seq(Promise) /\ Len(o) = n /\ all'[p].elems = Append(o, e) /\ e \in Promise
    BY <1>5, <1>10
  <2> HIDE DEF o, e
  <2>2. /\ Len(all'[p].elems) = n + 1 /\ all'[p].elems[n + 1] = e
        /\ \A k \in 1..n : all'[p].elems[k] = o[k]
    BY <2>1, AppendProperties
  <2> QED BY <1>3, <1>5, <1>10, <2>2 DEF o
<1> HIDE DEF p, i, s, v, r, e, P, last, n, m
<1>14. Touches(P)
  BY <1>8, <1>12, TouchesOpen
<1>15. Completes(P)
  <2>1. RoleFits(r.kind, role'[r.p])
    <3>1. role'[p] = role[p]
      BY <1>2, <1>8 DEF Free, Allocated
    <3> QED BY <1>2, <1>6, <3>1 DEF RoleFits, AdopterKinds
  <2>2. ASSUME NEW w \in Waiters(heap')
        PROVE  w \in Waiters(heap) \/ RoleFits(w[1].kind, role'[w[1].p])
    <3>1. w \in Waiters(heap) \/ w = <<r, e>>
      BY <1>12 DEF Gains
    <3> QED BY <2>1, <3>1
  <2>3. ASSUME NEW x PROVE Will(stack', heap', x) = Will(stack, heap, x)
    <3>1. Waiting(heap', x, CodeKinds) =
            Waiting(heap, x, CodeKinds) + IF r.p = x /\ r.kind \in CodeKinds THEN 1 ELSE 0
      BY <1>12, CodeGain
    <3>2. Waiting(heap, x, CodeKinds) \in Nat
      BY <1>2, WillType
    <3> QED BY <1>7, <1>9, <3>1, <3>2 DEF Will
  <2>4. \A x \in P : Will(stack, heap, x) = 0
    BY <1>2, <1>8, Fresh DEF Will
  <2>5. \A x \in P : ~Owes(heap', role', x)
    BY <1>12 DEF Owes
  <2> QED BY <1>9, <1>12, <2>2, <2>3, <2>4, <2>5 DEF Completes
<1>16. MainInv'
  <2>1. ObserverStays(heap, heap')
    BY <1>7, <1>12 DEF ObserverStays, Gains
  <2>2. MainStays
    BY <1>1, <1>2, <1>9 DEF MainStays
  <2> QED BY <1>14, <2>1, <2>2, MainKept
<1>17. LoopRuns(p) /\ \A x : (LoopRuns(x) => x = p) /\ (LoopRuns(x)' <=> x = p /\ ~last)
  <2>1. stack[1].kind = "all" /\ stack[1].p = p
    BY <1>1, <1>2 DEF p
  <2> QED BY <1>2, <1>3, <1>9, <2>1 DEF LoopRuns
<1>18. \A w : w \in Waiters(heap') <=> w \in Waiters(heap) \/ w = <<r, e>>
  BY <1>12 DEF Gains
<1>19. ElementsNamed'
  <2>1. ASSUME NEW w \in Waiters(heap'), w[1].kind = "all_element"
        PROVE  w[1].index \in 1..Len(all'[w[1].p].elems) /\ all'[w[1].p].elems[w[1].index] = w[2]
    <3>1. CASE w = <<r, e>>
      BY <1>6, <1>13, <3>1
    <3>2. CASE w \in Waiters(heap)
      <4>1. /\ w[1].p \in Promise /\ w[1].index \in 1..Len(all[w[1].p].elems)
            /\ all[w[1].p].elems[w[1].index] = w[2]
        BY <2>1, <3>2, ElementIs
      <4>2. CASE w[1].p = p
        <5>1. w[1].index \in 1..n /\ s.elems[w[1].index] = w[2]
          BY <4>1, <4>2 DEF n, s
        <5>2. w[1].index \in 1..(n + 1)
          BY <1>13, <5>1
        <5> QED BY <1>13, <4>2, <5>1, <5>2
      <4>3. CASE w[1].p # p
        BY <1>10, <4>1, <4>3
      <4> QED BY <4>2, <4>3
    <3> QED BY <1>18, <3>1, <3>2
  <2> QED BY <2>1 DEF ElementsNamed
<1>20. LoopOnTop'
  <2>1. ASSUME NEW k \in 1..Len(stack'), stack'[k].kind = "all"
        PROVE  k = 1 /\ stack'[k].index = Len(all'[stack'[k].p].elems) + 1
    BY <1>9, <1>13, <2>1
  <2> QED BY <2>1 DEF LoopOnTop
<1>21. \A x : Waiting(heap', x, {"all_element"}) =
                Waiting(heap, x, {"all_element"}) + IF x = p THEN 1 ELSE 0
  <2> SUFFICES ASSUME NEW x
               PROVE  Waiting(heap', x, {"all_element"}) =
                        Waiting(heap, x, {"all_element"}) + IF x = p THEN 1 ELSE 0
    OBVIOUS
  <2>1. Continues(r, x, {"all_element"}) <=> x = p
    BY <1>6 DEF Continues
  <2>2. Waiting(heap', x, {"all_element"}) =
          Waiting(heap, x, {"all_element"}) + IF Continues(r, x, {"all_element"}) THEN 1 ELSE 0
    BY <1>12 DEF Gains
  <2> QED BY <2>1, <2>2
<1>22. ASSUME NEW x \in Promise, role'[x] = "all" PROVE AllOf(x)'
  <2>0. x \notin P /\ role[x] = "all"
    BY <1>8, <1>22
  <2>1. heap'.state[x] = heap.state[x] /\ heap'.resolved[x] = heap.resolved[x]
    BY <1>12, <2>0 DEF Apart
  <2>2. CASE x # p
    <3>1. Waiting(heap', x, {"all_element"}) = Waiting(heap, x, {"all_element"})
      BY <1>2, <1>21, <2>2, WaitingType
    <3>2. \A w : w[1].kind = "all_element" /\ w[1].p = x => (w \in Waiters(heap') <=> w \in Waiters(heap))
      BY <1>6, <1>18, <2>2
    <3>3. all'[x] = all[x] /\ (LoopRuns(x)' <=> LoopRuns(x))
      BY <1>10, <1>17, <2>2
    <3> QED BY <2>0, <2>1, <3>1, <3>2, <3>3, AllOfKept
  <2>3. CASE x = p
    <3>1. /\ Unsubscribed(p) = m - n
          /\ Unsubscribed(x)' = m - (n + 1)
      <4>1. stack \in Seq(Frame) /\ stack' \in Seq(Frame)
        BY DEF Going, Inv, TypeOK
      <4>2. Unsubscribed(p) = IF LoopRuns(p) THEN m - n ELSE 0
        BY <4>1, UnsubscribedIs DEF m, n, s
      <4>3. Unsubscribed(x)' = IF LoopRuns(x)' THEN m - (n + 1) ELSE 0
        BY <1>13, <2>3, <4>1, UnsubscribedNext
      <4> QED BY <1>13, <1>17, <2>3, <4>2, <4>3
    <3>2. /\ Len(s.results) = m /\ heap.state[p] # "fulfilled"
          /\ ~heap.resolved[p] => s.remaining > 0 /\ s.remaining = Waiting(heap, p, {"all_element"}) + Unsubscribed(p)
          /\ heap.state[p] # "rejected" =>
               \A k \in 1..n : \/ Counted(p, k)
                               \/ \E w \in Waiters(heap) : Continues(w[1], p, {"all_element"}) /\ w[1].index = k
      BY <1>3, <1>17 DEF AllOf, s, m, n
    <3>3. Waiting(heap, p, {"all_element"}) \in Nat
      BY <1>2, WaitingType
    <3>4. ~heap'.resolved[p] =>
            /\ all'[p].remaining > 0
            /\ all'[p].remaining = Waiting(heap', p, {"all_element"}) + Unsubscribed(x)'
      BY <1>5, <1>10, <1>13, <1>21, <2>1, <2>3, <3>1, <3>2, <3>3
    <3>5. ASSUME heap'.state[p] # "rejected", NEW k \in 1..Len(all'[p].elems)
          PROVE  \/ Counted(x, k)'
                 \/ \E w \in Waiters(heap') : Continues(w[1], p, {"all_element"}) /\ w[1].index = k
      <4>1. CASE k = n + 1
        <5> DEFINE w == <<r, e>>
        <5>1. w \in Waiters(heap') /\ Continues(w[1], p, {"all_element"}) /\ w[1].index = k
          BY <1>6, <1>13, <1>18, <4>1 DEF Continues
        <5> QED BY <5>1
      <4>2. CASE k # n + 1
        <5>1. k \in 1..n /\ all'[p].elems[k] = s.elems[k] /\ s.elems[k] \in Promise
          BY <1>5, <1>13, <3>5, <4>2 DEF n
        <5>2. CASE Counted(p, k)
          <6>1. heap.state[s.elems[k]] = "fulfilled" /\ s.results[k] = heap.value[s.elems[k]]
            BY <5>2 DEF Counted, s
          <6>2. Counted(x, k)'
            <7>1. SettledStay
              BY DEF Going
            <7>2. heap'.state[s.elems[k]] = "fulfilled" /\ heap'.value[s.elems[k]] = heap.value[s.elems[k]]
              BY <5>1, <6>1, <7>1 DEF SettledStay, Settled
            <7> QED BY <1>10, <2>3, <5>1, <6>1, <7>2 DEF Counted
          <6> QED BY <6>2
        <5>3. CASE \E w \in Waiters(heap) : Continues(w[1], p, {"all_element"}) /\ w[1].index = k
          BY <1>18, <5>3
        <5> QED BY <2>1, <2>3, <3>2, <3>5, <5>1, <5>2, <5>3
      <4> QED BY <4>1, <4>2
    <3>6. /\ Len(all'[p].results) = Len(all'[p].input) /\ Len(all'[p].elems) <= Len(all'[p].input)
          /\ ~LoopRuns(x)' => Len(all'[p].elems) = Len(all'[p].input)
      BY <1>10, <1>13, <1>17, <2>3, <3>2
    <3>7. AllOf(x)'
      BY <2>1, <2>3, <3>2, <3>4, <3>5, <3>6 DEF AllOf
    <3> QED BY <2>3, <3>7
  <2> QED BY <2>2, <2>3
<1>23. AllInv'
  BY <1>19, <1>20, <1>22, AllInvNext
<1> QED BY <1>14, <1>15, <1>16, <1>23, HiddenKept, CompletionKept DEF OwnersInv, Basic

\* An element that waits belongs to a Promise.all that is pending, and settles by the
\* jobs of its elements alone, or rejected already.
LEMMA ElementJob ==
  ASSUME Going, Draining, heap.queue # <<>>, Next1.job.kind = "all_element"
  PROVE  LET p == Next1.job.p
         IN /\ role[p] = "all" /\ AllOf(p)
            /\ Next1.job.index \in 1..Len(all[p].elems)
            /\ all[p].elems[Next1.job.index] = Next1.src
            /\ Waiting(heap, p, {"all_element"}) = Waiting(Popped, p, {"all_element"}) + 1
            /\ Waiting(Popped, p, {"all_element"}) \in Nat
            /\ \/ heap.state[p] = "rejected"
               \/ heap.state[p] = "pending" /\ ~heap.resolved[p]
<1> DEFINE j == Next1.job
           p == Next1.job.p
           g == Popped
           src == Next1.src
<1>1. /\ Inv /\ OwnersInv /\ AdoptExact(heap) /\ heap \in Heap /\ HeapInv(heap) /\ g \in Heap
      /\ Gains(g, heap, j, src) /\ j.p = p /\ j.kind = "all_element"
  BY JobOwners
<1>2. RoleFits(j.kind, role[p]) /\ p \in Promise /\ p \in Allocated(heap) /\ <<j, src>> \in Waiters(heap)
  BY <1>1, JobFits
<1>3. role[p] = "all" /\ AllOf(p)
  BY <1>1, <1>2, AllInvIs DEF RoleFits, OwnersInv
<1>4. j.index \in 1..Len(all[p].elems) /\ all[p].elems[j.index] = src
  <2> DEFINE w == <<j, src>>
  <2>1. w \in Waiters(heap) /\ w[1] = j /\ w[2] = src
    BY <1>2
  <2> HIDE DEF w, j, src, p
  <2> QED BY <1>1, <2>1, ElementIs
<1> HIDE DEF j, p, g, src
<1>5. Waiting(g, p, {"all_element"}) \in Nat /\ Waiting(heap, p, {"all_element"}) = Waiting(g, p, {"all_element"}) + 1
  <2>1. Continues(j, p, {"all_element"})
    BY <1>1 DEF Continues
  <2>2. Waiting(heap, p, {"all_element"}) =
          Waiting(g, p, {"all_element"}) + IF Continues(j, p, {"all_element"}) THEN 1 ELSE 0
    BY <1>1 DEF Gains
  <2> QED BY <1>1, <2>1, <2>2, WaitingType
<1>6. heap.state[p] # "fulfilled"
  <2>1. heap.state[p] = "fulfilled" => Waiting(heap, p, {"all_element"}) = 0
    BY <1>3 DEF AllOf
  <2> QED BY <1>5, <2>1
<1>7. ~(heap.state[p] = "pending" /\ heap.resolved[p])
  <2>1. ASSUME NEW w \in Waiters(heap) PROVE ~Continues(w[1], p, AdopterKinds)
    <3>1. RoleFits(w[1].kind, role[w[1].p])
      BY <1>1, RolesFitIs
    <3> QED BY <1>3, <3>1 DEF Continues, RoleFits
  <2>2. Waiting(heap, p, AdopterKinds) = 0
    BY <1>1, <2>1, WaitingZero
  <2> QED BY <1>1, <1>2, <2>2 DEF AdoptExact
<1>8. heap.state[p] \in {"pending", "fulfilled", "rejected"}
  BY <1>1, <1>2 DEF Heap, State, Allocated
<1> QED BY <1>3, <1>4, <1>5, <1>6, <1>7, <1>8 DEF j, p, g, src

\* The AllState after the value v of element i has arrived.
LEMMA Arrived ==
  ASSUME NEW a \in AllState, NEW i \in 1..Len(a.results), NEW v \in Value
  PROVE  LET s == [a EXCEPT !.results[i] = v, !.remaining = @ - 1]
         IN /\ s.input = a.input /\ s.elems = a.elems /\ s.remaining = a.remaining - 1
            /\ Len(s.results) = Len(a.results) /\ s.results[i] = v
            /\ \A k \in 1..Len(a.results) : k # i => s.results[k] = a.results[k]
<1> DEFINE old == a.results
           res == [old EXCEPT ![i] = v]
           rem == a.remaining - 1
           s == [a EXCEPT !.results[i] = v, !.remaining = @ - 1]
<1>1. old \in Seq(Value) /\ i \in 1..Len(old)
  BY DEF AllState
<1>2. s = [a EXCEPT !.results = res, !.remaining = rem]
  OBVIOUS
<1> HIDE DEF old
<1>3. /\ Len(res) = Len(old) /\ res[i] = v
      /\ \A k \in 1..Len(old) : k # i => res[k] = old[k]
  BY <1>1
<1> HIDE DEF res, rem, s
<1>4. s.input = a.input /\ s.elems = a.elems /\ s.remaining = rem /\ s.results = res
  BY <1>2 DEF AllState
<1> QED BY <1>3, <1>4 DEF old, rem, s

\* What the job of an element does to the heap: it settles the promise of its
\* Promise.all, when the element was rejected or was the last one, or does nothing.
ElementHeap(g, p, v, rej, last) ==
  IF rej THEN PromiseSettle(g, p, v, TRUE)
  ELSE IF last THEN PromiseSettle(g, p, ResultsArray, FALSE) ELSE g

ElementRuns(g, f, p, rej, last) ==
  /\ Same(g, f) /\ Grows(g, f) /\ Apart(g, f, {p}) /\ AdoptExact(f)
  /\ rej \/ last => f.resolved[p]
  /\ ~rej /\ ~last => f.state[p] = g.state[p]
  /\ rej => f.state[p] = "rejected"

\* One element's reaction on the heap: the array fulfils with the last one, rejects
\* with the first rejection, and else stays as it is.
LEMMA ElementEffect ==
  ASSUME NEW g, HeapInv(g), AdoptExact(g), NEW p \in Allocated(g),
         g.state[p] = "rejected" \/ ~g.resolved[p],
         NEW v \in Value, NEW rej \in BOOLEAN, NEW last \in BOOLEAN
  PROVE  ElementRuns(g, ElementHeap(g, p, v, rej, last), p, rej, last)
<1> DEFINE f == ElementHeap(g, p, v, rej, last)
           u == IF rej THEN v ELSE ResultsArray
<1>1. g \in Heap /\ p \in Promise /\ u \in Value /\ (rej \/ u \notin Promise)
  BY PromiseAssumption DEF HeapInv, Allocated, Value
<1>2. CASE rej \/ last
  <2>1. f = PromiseSettle(g, p, u, rej)
    BY <1>2 DEF ElementHeap
  <2> HIDE DEF f, u
  <2>2. Settles(g, f, p, u, rej)
    BY <1>1, <2>1, SettleEffect
  <2>3. AdoptExact(f)
    BY <2>2, SettleExact
  <2>4. Same(g, f)
    BY <1>1, <2>2, SettlesFlat
  <2>5. ASSUME rej PROVE f.state[p] = "rejected"
    <3>1. CASE g.resolved[p]
      BY <2>2, <3>1 DEF Settles
    <3>2. CASE ~g.resolved[p]
      BY <2>2, <2>5, <3>2 DEF Settles
    <3> QED BY <3>1, <3>2
  <2>6. Grows(g, f) /\ Apart(g, f, {p}) /\ f.resolved[p]
    BY <2>2 DEF Settles
  <2> QED BY <1>2, <2>3, <2>4, <2>5, <2>6, Zenon DEF ElementRuns, f
<1>3. CASE ~rej /\ ~last
  <2>1. f = g
    BY <1>3 DEF ElementHeap
  <2>2. Same(g, g) /\ Grows(g, g) /\ Apart(g, g, {p})
    BY DEF Same, Grows, Apart
  <2>3. ElementRuns(g, g, p, rej, last)
    BY <1>3, <2>2, Zenon DEF ElementRuns
  <2> HIDE DEF f
  <2> QED BY <2>1, <2>3 DEF f
<1> QED BY <1>2, <1>3

\* The job j of an element of p delivers the settlement of the promise src; g is the
\* heap without it.
Arrives(g, p, j, src, rej, v) ==
  /\ Gains(g, heap, j, src) /\ j.p = p /\ j.kind = "all_element"
  /\ g.state = heap.state /\ g.resolved = heap.resolved
  /\ j.index \in 1..Len(all[p].elems) /\ all[p].elems[j.index] = src
  /\ Settled(heap, src) /\ v = heap.value[src] /\ rej = (heap.state[src] = "rejected")
  /\ Waiting(heap, p, {"all_element"}) = Waiting(g, p, {"all_element"}) + 1
  /\ Waiting(g, p, {"all_element"}) \in Nat
  /\ heap.state[p] = "rejected" \/ (heap.state[p] = "pending" /\ ~heap.resolved[p])

\* The value v of element i is counted, unless it is a rejection.
Counts(p, i, rej, v) ==
  IF rej THEN all'[p] = all[p]
  ELSE all'[p] = [all[p] EXCEPT !.results[i] = v, !.remaining = @ - 1]

\* The Promise.all whose element arrives: the element is counted, and the promise is
\* settled with the last one, or rejected.
LEMMA ElementCounts ==
  ASSUME Going, NEW p \in Promise, NEW j, NEW src, NEW rej \in BOOLEAN, NEW v \in Value, NEW g,
         NEW last \in BOOLEAN, AllOf(p), stack = <<>>, stack' = <<>>,
         Arrives(g, p, j, src, rej, v), last <=> all[p].remaining - 1 = 0,
         ElementRuns(g, heap', p, rej, last), Counts(p, j.index, rej, v)
  PROVE  AllOf(p)'
<1> DEFINE a == all[p]
           b == all'[p]
           i == j.index
           m == Len(a.input)
           n == Len(a.elems)
<1>0. /\ Gains(g, heap, j, src) /\ j.p = p /\ j.kind = "all_element"
      /\ g.state = heap.state /\ g.resolved = heap.resolved
      /\ i \in 1..n /\ a.elems[i] = src
      /\ Settled(heap, src) /\ v = heap.value[src] /\ rej = (heap.state[src] = "rejected")
      /\ Waiting(heap, p, {"all_element"}) = Waiting(g, p, {"all_element"}) + 1
      /\ Waiting(g, p, {"all_element"}) \in Nat
      /\ heap.state[p] = "rejected" \/ (heap.state[p] = "pending" /\ ~heap.resolved[p])
  BY DEF Arrives
<1>1. /\ a \in AllState /\ b \in AllState /\ a.remaining \in Int /\ a.elems \in Seq(Promise)
      /\ m \in Nat /\ n \in Nat
  <2>1. all \in [Promise -> AllState] /\ all' \in [Promise -> AllState]
    BY DEF Going, Inv, TypeOK
  <2>2. a \in AllState /\ b \in AllState
    BY <2>1
  <2> HIDE DEF a, b
  <2> QED BY <2>2 DEF AllState
<1>2. /\ Len(a.results) = m /\ n <= m
      /\ heap.state[p] # "rejected" =>
           \A k \in 1..n : \/ Counted(p, k)
                           \/ \E w \in Waiters(heap) : Continues(w[1], p, {"all_element"}) /\ w[1].index = k
      /\ ~heap.resolved[p] =>
           a.remaining > 0 /\ a.remaining = Waiting(heap, p, {"all_element"}) + Unsubscribed(p)
      /\ ~LoopRuns(p) => n = m
  BY DEF AllOf
<1>3. ~LoopRuns(p) /\ ~LoopRuns(p)' /\ Unsubscribed(p) = 0 /\ Unsubscribed(p)' = 0
  <2>1. ~LoopRuns(p) /\ ~LoopRuns(p)'
    BY DEF LoopRuns
  <2>2. stack \in Seq(Frame) /\ stack' \in Seq(Frame)
    BY DEF Going, Inv, TypeOK
  <2> QED BY <2>1, <2>2, UnsubscribedIs, UnsubscribedNext
<1>4. /\ Waiting(heap', p, {"all_element"}) = Waiting(g, p, {"all_element"})
      /\ Waiters(heap') = Waiters(g) /\ Waiters(heap) = Waiters(g) \cup {<<j, src>>}
      /\ (rej \/ last => heap'.resolved[p])
      /\ (~rej /\ ~last => heap'.state[p] = heap.state[p])
      /\ (rej => heap'.state[p] = "rejected")
  BY <1>0 DEF ElementRuns, Same, Gains
<1>5. /\ b.input = a.input /\ b.elems = a.elems /\ Len(b.results) = m
      /\ ~rej => /\ b.remaining = a.remaining - 1 /\ b.results[i] = v
                 /\ \A k \in 1..m : k # i => b.results[k] = a.results[k]
  <2>1. CASE rej
    BY <1>2, <2>1 DEF Counts
  <2>2. CASE ~rej
    <3>1. i \in 1..Len(a.results)
      BY <1>0, <1>1, <1>2
    <3>2. b = [a EXCEPT !.results[i] = v, !.remaining = @ - 1]
      BY <2>2 DEF Counts
    <3> HIDE DEF a, b, i
    <3> QED BY <1>1, <1>2, <2>2, <3>1, <3>2, Arrived
  <2> QED BY <2>1, <2>2
<1>6. /\ heap'.resolved[p] \/ ~heap.resolved[p]
      /\ heap.state[p] = "rejected" => heap'.state[p] = "rejected"
      /\ Settled(heap, src) => heap'.state[src] = heap.state[src] /\ heap'.value[src] = heap.value[src]
  <2>1. src \in Promise
    BY <1>0, <1>1
  <2> QED BY <2>1 DEF Going, SettledStay, Settled
<1>7. ~heap'.resolved[p] =>
        b.remaining > 0 /\ b.remaining = Waiting(heap', p, {"all_element"}) + Unsubscribed(p)'
  BY <1>0, <1>1, <1>2, <1>3, <1>4, <1>5, <1>6
<1>8. heap'.state[p] = "fulfilled" => Waiting(heap', p, {"all_element"}) = 0 /\ ~LoopRuns(p)'
  BY <1>0, <1>1, <1>2, <1>3, <1>4, <1>6
<1>9. ASSUME heap'.state[p] # "rejected", NEW k \in 1..Len(b.elems)
      PROVE  \/ Counted(p, k)'
             \/ \E w \in Waiters(heap') : Continues(w[1], p, {"all_element"}) /\ w[1].index = k
  <2>1. ~rej /\ heap.state[p] # "rejected" /\ k \in 1..n /\ k \in 1..m
    BY <1>0, <1>1, <1>2, <1>4, <1>5, <1>6, <1>9
  <2>2. CASE k = i
    <3>1. heap'.state[src] = "fulfilled" /\ b.results[i] = heap'.value[src] /\ b.elems[i] = src
      BY <1>0, <1>5, <1>6, <2>1 DEF Settled
    <3>2. Counted(p, k)'
      BY <2>2, <3>1 DEF Counted
    <3> QED BY <3>2
  <2>3. CASE k # i
    <3>1. CASE Counted(p, k)
      <4>1. a.elems[k] \in Promise
        BY <1>1, <2>1
      <4>2. Counted(p, k)'
        BY <1>5, <2>1, <2>3, <3>1, <4>1 DEF Counted, Going, SettledStay, Settled
      <4> QED BY <4>2
    <3>2. CASE \E w \in Waiters(heap) : Continues(w[1], p, {"all_element"}) /\ w[1].index = k
      <4>1. PICK w \in Waiters(heap) : Continues(w[1], p, {"all_element"}) /\ w[1].index = k
        BY <3>2
      <4>2. w # <<j, src>>
        BY <2>3, <4>1
      <4> QED BY <1>4, <4>1, <4>2
    <3> QED BY <1>2, <2>1, <3>1, <3>2
  <2> QED BY <2>2, <2>3
<1> QED BY <1>2, <1>3, <1>5, <1>7, <1>8, <1>9 DEF AllOf

\* An element's reaction: it is counted, and no element is counted twice.
LEMMA RunAllElementOwners ==
  ASSUME Going, RunAllElement PROVE OwnersInv'
<1> DEFINE j == Next1.job
           p == Next1.job.p
           src == Next1.src
           rej == Next1.rejected
           v == Next1.value
           g == Popped
           s == [all[p] EXCEPT !.results[j.index] = v, !.remaining = @ - 1]
           last == (all[p].remaining - 1 = 0)
<1>1. /\ Draining /\ heap.queue # <<>> /\ j.kind = "all_element" /\ UNCHANGED <<stack, phase, role>>
      /\ IF rej THEN heap' = PromiseSettle(g, p, v, TRUE) /\ all' = all
         ELSE /\ all' = [all EXCEPT ![p] = s]
              /\ heap' = IF s.remaining = 0 THEN PromiseSettle(g, p, ResultsArray, FALSE) ELSE g
  BY DEF RunAllElement, Takes
<1>2. /\ Inv /\ OwnersInv /\ AdoptExact(heap) /\ heap \in Heap /\ HeapInv(heap)
      /\ Pops(heap, g) /\ g \in Heap /\ HeapInv(g) /\ j = Head(heap.queue).job /\ j.p = p
      /\ Gains(g, heap, j, src) /\ stack = <<>> /\ phase = "drain"
      /\ g.state = heap.state /\ g.resolved = heap.resolved
      /\ all \in [Promise -> AllState]
  BY <1>1, JobOwners, SMTT(30) DEF Inv, TypeOK
<1>3. /\ p \in Promise /\ p \in Allocated(g) /\ v \in Value /\ rej \in BOOLEAN
      /\ Settled(heap, src) /\ v = heap.value[src] /\ rej = (heap.state[src] = "rejected")
  BY <1>1, <1>2, Taken, TakenFlat DEF Allocated
<1>4. /\ role[p] = "all" /\ AllOf(p)
      /\ j.index \in 1..Len(all[p].elems) /\ all[p].elems[j.index] = src
      /\ Waiting(heap, p, {"all_element"}) = Waiting(g, p, {"all_element"}) + 1
      /\ Waiting(g, p, {"all_element"}) \in Nat
      /\ heap.state[p] = "rejected" \/ (heap.state[p] = "pending" /\ ~heap.resolved[p])
  BY <1>1, ElementJob
<1>5. s.remaining = all[p].remaining - 1
  BY <1>2, <1>3 DEF AllState
<1>6. heap' = ElementHeap(g, p, v, rej, last)
  BY <1>1, <1>3, <1>5 DEF ElementHeap
<1>7. role' = role /\ j.kind # "adopt_subscribe" /\ last \in BOOLEAN
  BY <1>1
<1>8. ElementRuns(g, heap', p, rej, last)
  <2> HIDE DEF g, p, v, rej, last, j
  <2>1. AdoptExact(g)
    BY <1>1, <1>2, PopExact DEF AdopterKinds
  <2>2. ElementRuns(g, ElementHeap(g, p, v, rej, last), p, rej, last)
    <3>1. (g.state[p] = "rejected" \/ ~g.resolved[p]) /\ HeapInv(g) /\ p \in Allocated(g)
      BY <1>2, <1>3, <1>4
    <3>2. v \in Value /\ rej \in BOOLEAN /\ last \in BOOLEAN
      BY <1>3, <1>7
    <3> QED BY <2>1, <3>1, <3>2, ElementEffect
  <2> QED BY <1>6, <2>2
<1>9. Same(g, heap') /\ Grows(g, heap') /\ Apart(g, heap', {p}) /\ AdoptExact(heap')
  <2> HIDE DEF g, p, v, rej, last
  <2> QED BY <1>8, Zenon DEF ElementRuns
<1>10. Touches({p})
  <2>1. \A x \in {p} : role[x] # "wrapper" /\ (role[x] = "inner" => heap'.observed[x])
    BY <1>4
  <2> QED BY <1>1, <1>3, <1>7, <1>9, <2>1, JobTouches
<1>11. /\ IF rej THEN all'[p] = all[p] ELSE all'[p] = s
       /\ \A x \in Promise \ {p} : all'[x] = all[x]
  <2> HIDE DEF s, rej, p
  <2> QED BY <1>1, <1>2, <1>3
<1>12. ASSUME NEW x \in Promise, x = p PROVE AllOf(x)'
  <2> HIDE DEF j, p, src, rej, v, g, last
  <2>1. stack' = <<>>
    BY <1>1, <1>2
  <2>2. last <=> all[x].remaining - 1 = 0
    BY <1>12 DEF last
  <2>3. Counts(x, j.index, rej, v)
    BY <1>11, <1>12 DEF Counts
  <2>4. Arrives(g, x, j, src, rej, v)
    BY <1>1, <1>2, <1>3, <1>4, <1>12, Zenon DEF Arrives
  <2>5. ElementRuns(g, heap', x, rej, last) /\ AllOf(x) /\ stack = <<>>
    BY <1>2, <1>4, <1>8, <1>12
  <2> QED BY <1>3, <1>7, <2>1, <2>2, <2>3, <2>4, <2>5, ElementCounts
<1>13. MainStays
  BY <1>1, <1>2 DEF MainStays
<1> HIDE DEF j, p, src, rej, v, g, last, s
<1>14. \A w : w \in Waiters(heap) <=> w \in Waiters(heap') \/ w = <<j, src>>
  BY <1>2, <1>9 DEF Same, Gains
<1>15. ASSUME NEW x, NEW K, ~Continues(j, x, K) PROVE Waiting(heap', x, K) = Waiting(heap, x, K)
  <2>1. Waiting(heap, x, K) = Waiting(g, x, K) + IF Continues(j, x, K) THEN 1 ELSE 0
    BY <1>2 DEF Gains
  <2>2. Waiting(g, x, K) \in Nat /\ Waiting(heap', x, K) = Waiting(g, x, K)
    BY <1>2, <1>9, WaitingType DEF Same
  <2> QED BY <1>15, <2>1, <2>2
<1>16. Completes({p})
  <2>1. \A x : ~Continues(j, x, CodeKinds)
    BY <1>1 DEF Continues, CodeKinds
  <2>2. \A x : Will(stack', heap', x) = Will(stack, heap, x)
    BY <1>1, <1>15, <2>1 DEF Will
  <2>3. Will(stack, heap, p) = 0 /\ ~Owes(heap', role', p)
    BY <1>2, <1>3, <1>4, <1>7, WillIs DEF Owes
  <2> QED BY <1>1, <1>9, <1>14, <2>2, <2>3 DEF Completes
<1>17. MainInv'
  <2>1. ObserverStays(heap, heap')
    BY <1>1, <1>14 DEF ObserverStays
  <2> QED BY <1>10, <1>13, <2>1, MainKept
<1>18. ElementsNamed'
  <2>1. ASSUME NEW w \in Waiters(heap'), w[1].kind = "all_element"
        PROVE  w[1].index \in 1..Len(all'[w[1].p].elems) /\ all'[w[1].p].elems[w[1].index] = w[2]
    <3>1. /\ w[1].p \in Promise
          /\ w[1].index \in 1..Len(all[w[1].p].elems) /\ all[w[1].p].elems[w[1].index] = w[2]
      BY <1>14, <2>1, ElementIs
    <3>2. all'[w[1].p].elems = all[w[1].p].elems
      <4>1. all[p] \in AllState
        BY <1>2, <1>3
      <4>2. s.elems = all[p].elems
        BY <4>1 DEF AllState, s
      <4> QED BY <1>11, <3>1, <4>2
    <3> QED BY <3>1, <3>2
  <2> QED BY <2>1 DEF ElementsNamed
<1>19. LoopOnTop' /\ \A x : LoopRuns(x)' <=> LoopRuns(x)
  BY <1>1, <1>2 DEF LoopOnTop, LoopRuns
<1>20. ASSUME NEW x \in Promise, role'[x] = "all" PROVE AllOf(x)'
  <2>1. CASE x # p
    <3>1. ~Continues(j, x, {"all_element"})
      BY <1>2, <2>1 DEF Continues
    <3>2. Waiting(heap', x, {"all_element"}) = Waiting(heap, x, {"all_element"})
      BY <1>15, <3>1
    <3>3. heap'.state[x] = heap.state[x] /\ heap'.resolved[x] = heap.resolved[x] /\ all'[x] = all[x]
      BY <1>2, <1>9, <1>11, <2>1 DEF Apart
    <3>4. \A w : w[1].kind = "all_element" /\ w[1].p = x => (w \in Waiters(heap') <=> w \in Waiters(heap))
      BY <1>2, <1>14, <2>1
    <3> QED BY <1>7, <1>19, <1>20, <3>2, <3>3, <3>4, AllOfKept
  <2> QED BY <1>12, <2>1
<1>21. AllInv'
  BY <1>18, <1>19, <1>20, AllInvNext
<1> QED BY <1>10, <1>16, <1>17, <1>21, HiddenKept, CompletionKept DEF OwnersInv, Basic

-----------------------------------------------------------------------------
(* Both invariants hold, in every state of every program.                  *)

\* A step of the first invariant unsettles nothing.
LEMMA SettledStays ==
  ASSUME Inv, Inv', Keeps(heap, heap') \/ RunAdopt
  PROVE  SettledStay
<1>1. CASE Keeps(heap, heap')
  BY <1>1 DEF Keeps, SettledStay, Settled, Inv, HeapInv, SettledIsResolved
<1>2. CASE RunAdopt
  <2> DEFINE p == Next1.job.p
             s == Next1.src
  <2>1. /\ p \in Promise /\ heap'.resolved = heap.resolved /\ heap.state[p] = "pending"
        /\ heap'.state = [heap.state EXCEPT ![p] = heap.state[s]]
        /\ heap'.value = [heap.value EXCEPT ![p] = heap.value[s]]
    BY <1>2, RunAdoptInv
  <2>2. heap.state \in [Promise -> State] /\ heap.value \in [Promise -> Value]
    BY DEF Inv, HeapInv, Heap
  <2> HIDE DEF p, s
  <2>3. ASSUME NEW q \in Promise, Settled(heap, q)
        PROVE  heap'.state[q] = heap.state[q] /\ heap'.value[q] = heap.value[q]
    <3>1. q # p
      BY <2>1, <2>3 DEF Settled
    <3> QED BY <2>1, <2>2, <3>1
  <2> QED BY <2>1, <2>3 DEF SettledStay
<1> QED BY <1>1, <1>2

\* Nothing waits when the program starts.
LEMMA EmptyOwners ==
  /\ EmptyHeap \in Heap /\ Waiters(EmptyHeap) = {} /\ AdoptExact(EmptyHeap)
  /\ \A p, K : Waiting(EmptyHeap, p, K) = 0
<1>1. EmptyHeap \in Heap /\ HeapInv(EmptyHeap)
  BY EmptyInv DEF HeapInv
<1>2. /\ EmptyHeap.queue = <<>> /\ EmptyHeap.reactions = [p \in Promise |-> <<>>]
      /\ EmptyHeap.resolved = [p \in Promise |-> FALSE]
  BY DEF EmptyHeap
<1>3. Waiters(EmptyHeap) = {}
  <2> SUFFICES ASSUME NEW w \in Waiters(EmptyHeap) PROVE FALSE
    OBVIOUS
  <2> QED BY <1>2, WaiterIs
<1>4. \A p, K : Waiting(EmptyHeap, p, K) = 0
  BY <1>1, <1>3, WaitingZero
<1> QED BY <1>1, <1>2, <1>3, <1>4 DEF AdoptExact

\* The second invariant of a state in which no promise but a module's is allocated.
LEMMA StartOwners ==
  ASSUME Inv, Waiters(heap) = {}, AdoptExact(heap), \A p, K : Waiting(heap, p, K) = 0,
         phase = "script",
         \A p \in Promise : role[p] \in {"none", "main"} /\ (role[p] = "main" => TopLevelAwait),
         \A p \in Promise : Runs(stack, p) = IF Owes(heap, role, p) THEN 1 ELSE 0,
         \A i \in 1..Len(stack) : /\ stack[i].kind \in {"script", "async"}
                                  /\ stack[i].kind = "async" \/ TopLevelAwait =>
                                       role[stack[i].p] = "main",
         \A p \in Promise : role[p] = "main" =>
           \A i \in 1..Len(stack) : stack[i].kind = "script" => stack[i].p = p
  PROVE  OwnersInv
<1>1. RolesFit
  BY DEF RolesFit, RoleFits, AdopterKinds
<1>2. \A p \in Promise : Will(stack, heap, p) = IF Owes(heap, role, p) THEN 1 ELSE 0
  BY DEF Will
<1>3. CompletionInv
  BY <1>1, <1>2, CodeExactIs DEF CompletionInv
<1>4. HiddenInv
  BY DEF HiddenInv
<1>5. MainInv
  BY DEF MainInv
<1>6. AllInv
  BY DEF AllInv
<1> QED BY <1>3, <1>4, <1>5, <1>6 DEF OwnersInv

\* The initial states owe what their stack will complete: nothing, or the module's
\* own promise.
LEMMA InitOwners == Init => OwnersInv
<1> SUFFICES ASSUME Init PROVE OwnersInv
  OBVIOUS
<1>1. Inv /\ phase = "script" /\ stack \in Seq(Frame)
  BY InitInv DEF Init, Inv, TypeOK
<1>2. \A x : Runs(<<>>, x) = 0 /\ Frames(<<>>) = {}
  BY FS_EmptySet DEF Runs, Frames
<1>3. CASE ~TopLevelAwait
  <2> DEFINE f == Run("script", NoPromise)
  <2>1. heap = EmptyHeap /\ stack = <<f>> /\ \A p \in Promise : role[p] = "none"
    BY <1>3 DEF Init
  <2>2. f \in Frame /\ f.kind = "script"
    BY RunType DEF FrameKind
  <2> HIDE DEF f
  <2>3. stack[1] = f /\ Len(stack) = 1 /\ Under(stack, <<>>) /\ <<>> \in Seq(Frame)
    BY <2>1, <2>2, StartUnder
  <2>4. \A p : Runs(stack, p) = 0
    <3>1. \A p : Runs(stack, p) = Runs(<<>>, p) + IF Codes(stack[1], p) THEN 1 ELSE 0
      BY <1>1, <2>3, OnTop
    <3>2. \A p : ~Codes(stack[1], p)
      BY <2>2, <2>3 DEF Codes
    <3> QED BY <1>2, <3>1, <3>2
  <2>5. \A p \in Promise : ~Owes(heap, role, p)
    BY <2>1 DEF Owes
  <2>6. /\ Waiters(heap) = {} /\ AdoptExact(heap) /\ \A p, K : Waiting(heap, p, K) = 0
    BY <2>1, EmptyOwners
  <2>7. \A i \in 1..Len(stack) : stack[i].kind = "script"
    BY <2>2, <2>3
  <2> QED BY <1>1, <1>3, <2>1, <2>4, <2>5, <2>6, <2>7, StartOwners
<1>4. CASE TopLevelAwait
  <2>1. PICK m \in Promise : /\ heap = PromiseNew(EmptyHeap, m)
                             /\ stack = <<Run("async", m), Run("script", m)>>
                             /\ role = [p \in Promise |-> IF p = m THEN "main" ELSE "none"]
    BY <1>4 DEF Init
  <2> DEFINE f == Run("async", m)
             g == Run("script", m)
             t == <<g>>
  <2>2. f \in Frame /\ f.kind = "async" /\ f.p = m /\ g \in Frame /\ g.kind = "script" /\ g.p = m
    BY RunType DEF FrameKind
  <2>3. stack = <<f, g>>
    BY <2>1
  <2> HIDE DEF f, g
  <2>4. /\ Len(stack) = 2 /\ stack[1] = f /\ stack[2] = g
        /\ t \in Seq(Frame) /\ Len(t) = 1 /\ t[1] = g
    BY <2>2, <2>3
  <2>5. Under(stack, t) /\ Under(t, <<>>) /\ <<>> \in Seq(Frame)
    BY <2>4 DEF Under
  <2>6. \A p : Runs(stack, p) = IF p = m THEN 1 ELSE 0
    <3> HIDE DEF t
    <3>1. \A p : Runs(stack, p) = Runs(t, p) + IF Codes(stack[1], p) THEN 1 ELSE 0
      BY <1>1, <2>4, <2>5, OnTop
    <3>2. \A p : Runs(t, p) = Runs(<<>>, p) + IF Codes(t[1], p) THEN 1 ELSE 0
      BY <2>4, <2>5, OnTop
    <3> QED BY <1>2, <2>2, <2>4, <3>1, <3>2 DEF Codes
  <2>7. m \in Free(EmptyHeap) /\ HeapInv(EmptyHeap) /\ ~EmptyHeap.resolved[m]
    BY EmptyInv DEF EmptyHeap, Free
  <2>8. Allocates(EmptyHeap, heap, m) /\ EmptyHeap \in Heap
    BY <2>1, EmptyOwners, NewEffect
  <2>9. /\ Waiters(heap) = {} /\ AdoptExact(heap) /\ \A p, K : Waiting(heap, p, K) = 0
    BY <2>7, <2>8, EmptyOwners, NewExact DEF Allocates, Same
  <2>10. \A p \in Promise : Owes(heap, role, p) <=> p = m
    BY <2>1, <2>7, <2>8 DEF Owes, Allocates
  <2>11. role[m] = "main" /\ \A p \in Promise : p # m => role[p] = "none"
    BY <2>1
  <2>12. /\ \A i \in 1..Len(stack) : stack[i].kind \in {"script", "async"} /\ stack[i].p = m
    BY <2>2, <2>4
  <2> QED BY <1>1, <1>4, <2>6, <2>9, <2>10, <2>11, <2>12, StartOwners
<1> QED BY <1>3, <1>4

\* Every step keeps both.
LEMMA NextOwners ==
  ASSUME Inv, OwnersInv, Next
  PROVE  OwnersInv'
<1>0. Going
  BY NextInv, SettledStays DEF Going
<1>1. CASE UserStep
  <2>1. ASSUME NEW v \in UserValue, NEW q \in Promise, CallResolve(v, q) \/ CallReject(v, q)
        PROVE  OwnersInv'
    BY <1>0, <2>1, CallResolveOwners, CallRejectOwners
  <2>2. ASSUME NEW p \in Promise, NEW d \in Promise, NEW handlers \in SUBSET {"fulfilled", "rejected"},
               CallThen(p, handlers, d) \/ CallFinally(p, handlers, d)
        PROVE  OwnersInv'
    BY <1>0, <2>2, CallThenOwners, CallFinallyOwners
  <2>3. ASSUME NEW n \in 0..MaxAll, NEW p \in Promise, NEW elem \in [1..n -> UserValue],
               CallAll(elem, p)
        PROVE  OwnersInv'
    BY <1>0, <2>3, CallAllOwners
  <2>4. ASSUME NEW p \in Promise, CallConstruct(p) \/ CallAsync(p)
        PROVE  OwnersInv'
    BY <1>0, <2>4, CallConstructOwners, CallAsyncOwners
  <2>5. ASSUME NEW p \in Promise, NEW v \in UserValue, NEW rej \in BOOLEAN, CallResolver(p, v, rej)
        PROVE  OwnersInv'
    BY <1>0, <2>5, CallResolverOwners
  <2> QED BY <1>1, <2>1, <2>2, <2>3, <2>4, <2>5 DEF UserStep
<1>2. CASE UserLeaves
  <2>1. ASSUME NEW q \in Promise, AllSubscribe(q) PROVE OwnersInv'
    BY <1>0, <2>1, AllSubscribeOwners
  <2>2. ASSUME NEW v \in UserValue, NEW q \in Promise, Await(v, q) PROVE OwnersInv'
    BY <1>0, <2>2, AwaitOwners
  <2>3. ASSUME NEW v \in UserValue, NEW inner \in Promise, NEW q \in Promise, FinallyReturn(v, inner, q)
        PROVE  OwnersInv'
    BY <1>0, <2>3, FinallyReturnOwners
  <2>4. ASSUME NEW v \in UserValue, \/ AsyncReturn(v) \/ AsyncThrow(v) \/ HandlerReturn(v)
                                    \/ HandlerThrow(v) \/ ExecutorThrow(v)
        PROVE  OwnersInv'
    BY <1>0, <2>4, UserSettlesOwners
  <2> QED BY <1>0, <1>2, <2>1, <2>2, <2>3, <2>4, ExecutorReturnOwners, ScriptEndOwners,
             ScriptThrowOwners DEF UserLeaves
<1>3. CASE RunJob
  BY <1>0, <1>3, RunAdoptOwners, RunAdoptSubscribeOwners, RunAsyncResumeOwners, RunThenReactOwners,
     RunFinallyReactOwners, RunFinallyThunkOwners, RunAllElementOwners, RunModuleDoneOwners DEF RunJob
<1>4. CASE DrainEnd
  BY <1>0, <1>4, DrainEndOwners
<1>5. CASE Terminated
  BY <1>5, StutterOwners DEF Terminated
<1> QED BY <1>1, <1>2, <1>3, <1>4, <1>5 DEF Next

-----------------------------------------------------------------------------
(* What the second invariant establishes of every program.                 *)

\* Both invariants hold of every program: the heap is well formed, and every promise
\* the runtime owes a settlement has the continuation that will give it
\* (jsrt_promise.c, the reaction kinds of jsrt_enqueue and jsrt_run_microtasks).
THEOREM FullInvariance == Spec => []FullInv
<1>1. Init => FullInv
  BY InitInv, InitOwners DEF FullInv
<1>2. FullInv /\ [Next]_vars => FullInv'
  BY NextInv, StutterInv, NextOwners, StutterOwners DEF FullInv
<1> QED BY <1>1, <1>2, PTL DEF Spec

\* The two ways of completing a promise, by adoption and by code, never coincide.
LEMMA CompletersSplit ==
  ASSUME FullInv, NEW p \in Promise
  PROVE  /\ Completers(p) = Waiting(heap, p, AdopterKinds) + (Running(p) + Waiting(heap, p, CodeKinds))
         /\ Waiting(heap, p, AdopterKinds) \in Nat /\ Running(p) + Waiting(heap, p, CodeKinds) \in {0, 1}
<1>1. heap \in Heap /\ stack \in Seq(Frame)
  BY DEF FullInv, Inv, HeapInv, TypeOK
<1>2. AdopterKinds \cap CodeKinds = {}
  BY DEF AdopterKinds, CodeKinds
<1>3. AdopterKinds \cup CodeKinds = {"adopt", "adopt_subscribe", "async_resume", "then_react",
                                     "finally_react", "finally_thunk"}
  BY DEF AdopterKinds, CodeKinds
<1>4. Completers(p) = Running(p) + Waiting(heap, p, AdopterKinds \cup CodeKinds)
  BY <1>3 DEF Completers
<1>5. Waiting(heap, p, AdopterKinds \cup CodeKinds)
        = Waiting(heap, p, AdopterKinds) + Waiting(heap, p, CodeKinds)
  BY <1>1, <1>2, WaitingKinds
<1>6. /\ Waiting(heap, p, AdopterKinds) \in Nat /\ Waiting(heap, p, CodeKinds) \in Nat
  BY <1>1, WaitingType
<1>7. Running(p) \in Nat
  BY <1>1, RunningIs, RunsType
<1>8. Running(p) + Waiting(heap, p, CodeKinds) \in {0, 1}
  BY DEF FullInv, OwnersInv, CompletionInv, CodeExact
<1> QED BY <1>4, <1>5, <1>6, <1>7, <1>8

\* No completion is lost and none happens twice: a promise an async body, a handler,
\* a finally or an adoption must settle has exactly one continuation left that will
\* (a frame, a registered reaction or a job), and none once it is settled; Promise.all
\* counts exactly the elements it still waits for (jsrt_promise_settle, the reactions
\* of jsrt_enqueue, all_element_react).
THEOREM CompletedOnce == Spec => []OneCompleter
<1>1. FullInv => OneCompleter
  <2> SUFFICES ASSUME FullInv PROVE OneCompleter
    OBVIOUS
  <2>1. ASSUME NEW p \in Promise
        PROVE  Completers(p) = IF /\ heap.state[p] = "pending"
                                  /\ \/ role[p] \in {"body", "main", "derived", "inner"}
                                     \/ heap.resolved[p]
                               THEN 1 ELSE 0
    <3>1. Waiting(heap, p, AdopterKinds) = IF heap.state[p] = "pending" /\ heap.resolved[p] THEN 1 ELSE 0
      BY DEF FullInv, OwnersInv, CompletionInv, AdoptExact
    <3>2. Running(p) + Waiting(heap, p, CodeKinds) = IF OwesCode(p) THEN 1 ELSE 0
      BY DEF FullInv, OwnersInv, CompletionInv, CodeExact
    <3>3. Completers(p) = Waiting(heap, p, AdopterKinds) + (Running(p) + Waiting(heap, p, CodeKinds))
      BY CompletersSplit
    <3> QED BY <3>1, <3>2, <3>3 DEF OwesCode
  <2>2. ASSUME NEW p \in Promise, role[p] = "all", ~heap.resolved[p]
        PROVE  /\ all[p].remaining > 0
               /\ all[p].remaining = Waiting(heap, p, {"all_element"}) + Unsubscribed(p)
    BY <2>2 DEF FullInv, OwnersInv, AllInv
  <2> QED BY <2>1, <2>2 DEF OneCompleter
<1> QED BY <1>1, FullInvariance, PTL

\* The promises no program can name never count as unhandled: the wrapper of an
\* awaited value is fulfilled when it is made, and the intermediate promise of a
\* finally is adopted before the thunk settles it (finally_react).
THEOREM HiddenSilent == Spec => []HiddenNeverUnhandled
<1>1. FullInv => HiddenNeverUnhandled
  <2> SUFFICES ASSUME FullInv, NEW p \in Promise, role[p] \in {"inner", "wrapper"}, heap.unhandled[p]
               PROVE  FALSE
    BY DEF HiddenNeverUnhandled
  <2>1. heap.state[p] = "rejected" /\ ~heap.observed[p]
    BY DEF FullInv, Inv, HeapInv, FlagExact
  <2>2. HiddenInv
    BY DEF FullInv, OwnersInv
  <2> QED BY <2>1, <2>2 DEF HiddenInv, Settled
<1> QED BY <1>1, FullInvariance, PTL

\* A module body that awaits and is rejected never ends the process normally: main
\* subscribes to it before the drain, and module_done_react rethrows.
THEOREM ModuleFailureSeen == Spec => []RejectedModuleFails
<1>1. FullInv => RejectedModuleFails
  BY DEF FullInv, OwnersInv, MainInv, RejectedModuleFails
<1> QED BY <1>1, FullInvariance, PTL

\* The array a Promise.all fulfils with holds the value of every element in the order
\* of the input, whatever the order they settled in: the element counted last fulfils
\* it, and no other element is waited for by then (all_element_react).
THEOREM ResultsInOrder == Spec => []AllInOrder
<1>1. FullInv => AllInOrder
  <2> SUFFICES ASSUME FullInv PROVE AllInOrder
    OBVIOUS
  <2>1. heap \in Heap /\ AllInv /\ all \in [Promise -> AllState]
    BY DEF FullInv, Inv, TypeOK, HeapInv, OwnersInv
  <2>2. ASSUME NEW p \in Promise, role[p] = "all", heap.state[p] = "fulfilled"
        PROVE  /\ Len(all[p].elems) = Len(all[p].input)
               /\ \A i \in 1..Len(all[p].elems) : Counted(p, i)
    <3>1. /\ Waiting(heap, p, {"all_element"}) = 0 /\ ~LoopRuns(p)
          /\ \A i \in 1..Len(all[p].elems) :
               \/ Counted(p, i)
               \/ \E w \in Waiters(heap) : Continues(w[1], p, {"all_element"}) /\ w[1].index = i
      BY <2>1, <2>2 DEF AllInv
    <3>2. \A w \in Waiters(heap) : ~Continues(w[1], p, {"all_element"})
      BY <2>1, <3>1, WaitingZero
    <3>3. Len(all[p].elems) = Len(all[p].input)
      BY <2>1, <2>2, <3>1 DEF AllInv
    <3> QED BY <3>1, <3>2, <3>3
  <2>3. ASSUME NEW p \in Promise PROVE DOMAIN all[p].elems = 1..Len(all[p].elems)
    BY <2>1 DEF AllState
  <2> QED BY <2>2, <2>3 DEF AllInOrder, Counted
<1> QED BY <1>1, FullInvariance, PTL

-----------------------------------------------------------------------------
(* The queue seen by one promise: the jobs that deliver its settlement.    *)

\* Continuations are strung together in any grouping.
LEMMA Associates ==
  ASSUME NEW a \in Seq(Reaction), NEW b \in Seq(Reaction), NEW c \in Seq(Reaction)
  PROVE  (a \o b) \o c = a \o (b \o c) /\ a \o b \in Seq(Reaction)
BY ConcatAssociative, ConcatProperties, SMTT(30)

\* The recursion of Owed.
OwedBy(f, jobs, p) ==
  /\ f \in [0..Len(jobs) -> Seq(Reaction)]
  /\ f[0] = <<>>
  /\ \A n \in 1..Len(jobs) :
       f[n] = IF jobs[n].src = p THEN f[n - 1] \o <<jobs[n].job>> ELSE f[n - 1]

\* Owed takes the jobs one by one.
LEMMA OwedSteps ==
  ASSUME NEW jobs \in Seq(Task), NEW p
  PROVE  OwedBy(Owed(jobs, p), jobs, p)
<1> DEFINE L == Len(jobs)
           X == Seq(Reaction)
           Step(n, x) == IF jobs[n].src = p THEN x \o <<jobs[n].job>> ELSE x
           G == [z \in (1..L) \X X |-> Step(z[1], z[2])]
           Defines(f) == f = [n \in 0..L |-> IF n = 0 THEN <<>> ELSE Step(n, f[n - 1])]
<1>1. L \in Nat /\ <<>> \in X
  OBVIOUS
<1>2. \A n \in 1..L : \A x \in X : Step(n, x) \in X
  <2> TAKE n \in 1..L
  <2> TAKE x \in X
  <2>1. jobs[n] \in Task
    OBVIOUS
  <2>2. jobs[n].job \in Reaction
    BY <2>1 DEF Task
  <2>3. <<jobs[n].job>> \in Seq(Reaction)
    BY <2>2
  <2>4. x \o <<jobs[n].job>> \in Seq(Reaction)
    BY <2>3, ConcatProperties
  <2> QED BY <2>4
<1>3. G \in [(1..L) \X X -> X]
  <2> HIDE DEF Step, X
  <2> QED BY <1>2
<1>4. PICK f : Recursion(f, L, X, <<>>, G)
  <2> HIDE DEF L, X, G
  <2> QED BY <1>1, <1>3, Recursive
<1>5. Defines(f)
  <2> HIDE DEF Step, X, G, L
  <2>1. f \in [0..L -> X] /\ f[0] = <<>> /\ \A n \in 1..L : f[n] = G[<<n, f[n - 1]>>]
    BY <1>4 DEF Recursion
  <2>2. ASSUME NEW n \in 1..L PROVE f[n] = Step(n, f[n - 1])
    <3>1. f[n - 1] \in X
      BY <1>1, <2>1
    <3>2. G[<<n, f[n - 1]>>] = Step(n, f[n - 1])
      BY <3>1 DEF G
    <3> QED BY <2>1, <3>2
  <2> QED BY <1>1, <2>1, <2>2
<1> DEFINE g == CHOOSE h : Defines(h)
<1>6. Defines(g)
  <2> HIDE DEF Defines
  <2> QED BY <1>5
<1>7. Owed(jobs, p) = g
  BY DEF Owed
<1> HIDE DEF g, G
<1>8. DOMAIN g = 0..L /\ g[0] = <<>> /\ \A n \in 1..L : g[n] = Step(n, g[n - 1])
  <2> HIDE DEF Step, L
  <2> QED BY <1>1, <1>6
<1>9. \A n \in 0..L : g[n] \in X
  <2> DEFINE S == {n \in 0..L : g[n] \in X}
  <2> HIDE DEF Step, X, L
  <2>1. 0 \in S
    BY <1>1, <1>8
  <2>2. ASSUME NEW n \in 0..(L - 1), n \in S PROVE n + 1 \in S
    <3>1. n + 1 \in 1..L /\ (n + 1) - 1 = n /\ n + 1 \in 0..L
      BY <1>1
    <3> QED BY <1>2, <1>8, <2>2, <3>1 DEF S
  <2> HIDE DEF S
  <2>3. \A n \in 0..L : n \in S
    BY <1>1, <2>1, <2>2, UpTo
  <2> QED BY <2>3 DEF S
<1>10. g = [n \in 0..L |-> g[n]]
  <2> HIDE DEF Step, L
  <2> QED BY <1>6
<1>11. g \in [0..L -> X]
  <2> HIDE DEF X, L
  <2> QED BY <1>9, <1>10
<1> QED BY <1>7, <1>8, <1>11 DEF OwedBy

\* What p is owed by all the jobs of a queue.
LEMMA OwedIs ==
  ASSUME NEW jobs \in Seq(Task), NEW p
  PROVE  /\ Owed(jobs, p)[Len(jobs)] \in Seq(Reaction)
         /\ \A n \in 0..Len(jobs) : Owed(jobs, p)[n] \in Seq(Reaction)
         /\ Owed(jobs, p)[0] = <<>>
         /\ \A n \in 1..Len(jobs) : Owed(jobs, p)[n] =
              IF jobs[n].src = p THEN Owed(jobs, p)[n - 1] \o <<jobs[n].job>>
              ELSE Owed(jobs, p)[n - 1]
<1> DEFINE f == Owed(jobs, p)
<1>1. OwedBy(f, jobs, p) /\ Len(jobs) \in Nat
  BY OwedSteps
<1> HIDE DEF f
<1>2. /\ f[Len(jobs)] \in Seq(Reaction)
      /\ \A n \in 0..Len(jobs) : f[n] \in Seq(Reaction)
      /\ f[0] = <<>>
      /\ \A n \in 1..Len(jobs) : f[n] =
           IF jobs[n].src = p THEN f[n - 1] \o <<jobs[n].job>> ELSE f[n - 1]
  BY <1>1 DEF OwedBy
<1> QED BY <1>2 DEF f

\* Jobs at the end of the queue leave what p is owed by those before as it was.
LEMMA OwedFront ==
  ASSUME NEW q \in Seq(Task), NEW w \in Seq(Task), NEW p, Len(q) <= Len(w),
         \A n \in 1..Len(q) : w[n] = q[n]
  PROVE  Owed(w, p)[Len(q)] = Owed(q, p)[Len(q)]
<1> DEFINE L == Len(q)
           f == Owed(q, p)
           g == Owed(w, p)
           S == {n \in 0..L : g[n] = f[n]}
<1>1. L \in Nat /\ Len(w) \in Nat
  OBVIOUS
<1>2. f[0] = <<>> /\ \A n \in 1..L : f[n] = IF q[n].src = p THEN f[n - 1] \o <<q[n].job>> ELSE f[n - 1]
  BY OwedIs
<1>3. g[0] = <<>> /\ \A n \in 1..Len(w) : g[n] = IF w[n].src = p THEN g[n - 1] \o <<w[n].job>> ELSE g[n - 1]
  BY OwedIs
<1>4. \A n \in 1..L : w[n] = q[n] /\ n \in 1..Len(w)
  BY <1>1
<1> HIDE DEF f, g, L
<1>5. 0 \in S
  BY <1>1, <1>2, <1>3
<1>6. ASSUME NEW n \in 0..(L - 1), n \in S PROVE n + 1 \in S
  <2>1. n + 1 \in 1..L /\ (n + 1) - 1 = n /\ n + 1 \in 0..L /\ g[n] = f[n]
    BY <1>1, <1>6
  <2>2. w[n + 1] = q[n + 1] /\ n + 1 \in 1..Len(w)
    BY <1>4, <2>1
  <2>3. f[n + 1] = IF q[n + 1].src = p THEN f[n] \o <<q[n + 1].job>> ELSE f[n]
    BY <1>2, <2>1
  <2>4. g[n + 1] = IF q[n + 1].src = p THEN g[n] \o <<q[n + 1].job>> ELSE g[n]
    BY <1>3, <2>1, <2>2
  <2> QED BY <2>1, <2>3, <2>4
<1> HIDE DEF S
<1>7. \A n \in 0..L : n \in S
  BY <1>1, <1>5, <1>6, UpTo
<1>8. L \in S
  BY <1>1, <1>7
<1> QED BY <1>8 DEF S, f, g, L

\* One more job: p is owed one more continuation if the job is its own.
LEMMA OwedAppend ==
  ASSUME NEW q \in Seq(Task), NEW t \in Task, NEW p
  PROVE  LET w == Append(q, t)
         IN Owed(w, p)[Len(w)] = IF t.src = p THEN Owed(q, p)[Len(q)] \o <<t.job>>
                                 ELSE Owed(q, p)[Len(q)]
<1> DEFINE w == Append(q, t)
           n == Len(q)
<1>1. /\ n \in Nat /\ w \in Seq(Task) /\ Len(w) = n + 1 /\ w[n + 1] = t
      /\ \A i \in 1..n : w[i] = q[i]
  OBVIOUS
<1> HIDE DEF w, n
<1>2. Owed(w, p)[n] = Owed(q, p)[n]
  BY <1>1, OwedFront DEF n
<1>3. n + 1 \in 1..Len(w) /\ (n + 1) - 1 = n
  BY <1>1
<1>4. Owed(w, p)[n + 1] = IF w[n + 1].src = p THEN Owed(w, p)[(n + 1) - 1] \o <<w[n + 1].job>>
                          ELSE Owed(w, p)[(n + 1) - 1]
  BY <1>1, <1>3, OwedIs
<1> QED BY <1>1, <1>2, <1>3, <1>4 DEF w, n

\* The first job taken off: what p is owed by it came first.
LEMMA OwedTail ==
  ASSUME NEW q \in Seq(Task), q # <<>>, NEW p
  PROVE  Owed(q, p)[Len(q)] =
           IF Head(q).src = p THEN <<Head(q).job>> \o Owed(Tail(q), p)[Len(Tail(q))]
           ELSE Owed(Tail(q), p)[Len(Tail(q))]
<1> DEFINE w == Tail(q)
           L == Len(w)
           f == Owed(q, p)
           g == Owed(w, p)
           t == Head(q)
           First(x) == IF t.src = p THEN <<t.job>> \o x ELSE x
           S == {n \in 0..L : f[n + 1] = First(g[n])}
<1>1. /\ w \in Seq(Task) /\ L \in Nat /\ Len(q) = L + 1 /\ t = q[1] /\ t \in Task
      /\ \A n \in 1..L : w[n] = q[n + 1]
  OBVIOUS
<1>2. /\ f[0] = <<>>
      /\ \A n \in 1..Len(q) : f[n] = IF q[n].src = p THEN f[n - 1] \o <<q[n].job>> ELSE f[n - 1]
  BY OwedIs
<1> HIDE DEF w, t
<1>3. /\ g[0] = <<>> /\ \A n \in 0..L : g[n] \in Seq(Reaction)
      /\ \A n \in 1..L : g[n] = IF w[n].src = p THEN g[n - 1] \o <<w[n].job>> ELSE g[n - 1]
  BY <1>1, OwedIs
<1>4. t.job \in Reaction /\ \A n \in 1..L : w[n].job \in Reaction
  <2>1. \A n \in 1..L : w[n] \in Task
    BY <1>1
  <2> QED BY <1>1, <2>1 DEF Task
<1> HIDE DEF f, g, w, t, L
<1>5. 0 \in S
  <2>1. 1 \in 1..Len(q) /\ 1 - 1 = 0 /\ 0 \in 0..L /\ 0 + 1 = 1
    BY <1>1
  <2>2. f[1] = IF t.src = p THEN <<>> \o <<t.job>> ELSE <<>>
    BY <1>1, <1>2, <2>1
  <2>3. <<t.job>> \in Seq(Reaction)
    BY <1>4
  <2>4. <<>> \o <<t.job>> = <<t.job>> /\ <<t.job>> \o <<>> = <<t.job>>
    BY <2>3, ConcatEmptySeq
  <2> QED BY <1>3, <2>1, <2>2, <2>4
<1>6. ASSUME NEW n \in 0..(L - 1), n \in S PROVE n + 1 \in S
  <2> DEFINE m == n + 1
  <2>1. /\ m \in 1..L /\ m - 1 = n /\ m \in 0..L /\ n \in 0..L /\ m + 1 \in 1..Len(q) /\ (m + 1) - 1 = m
        /\ f[m] = First(g[n])
    BY <1>1, <1>6
  <2> HIDE DEF m, First
  <2>2. w[m] = q[m + 1] /\ w[m].job \in Reaction /\ g[n] \in Seq(Reaction)
    BY <1>1, <1>3, <1>4, <2>1
  <2>3. g[m] = IF w[m].src = p THEN g[n] \o <<w[m].job>> ELSE g[n]
    BY <1>3, <2>1
  <2>4. f[m + 1] = IF w[m].src = p THEN f[m] \o <<w[m].job>> ELSE f[m]
    BY <1>2, <2>1, <2>2
  <2>5. (<<t.job>> \o g[n]) \o <<w[m].job>> = <<t.job>> \o (g[n] \o <<w[m].job>>)
    <3> DEFINE a == <<t.job>>
               b == g[n]
               c == <<w[m].job>>
    <3>1. a \in Seq(Reaction) /\ b \in Seq(Reaction) /\ c \in Seq(Reaction)
      BY <1>4, <2>2
    <3> HIDE DEF a, b, c
    <3>2. (a \o b) \o c = a \o (b \o c)
      BY <3>1, ConcatAssociative, SMTT(30)
    <3> QED BY <3>2 DEF a, b, c
  <2>6. f[m + 1] = First(g[m])
    BY <2>1, <2>3, <2>4, <2>5 DEF First
  <2> QED BY <2>1, <2>6 DEF m
<1> HIDE DEF S
<1>7. \A n \in 0..L : n \in S
  BY <1>1, <1>5, <1>6, UpTo
<1>8. L \in S
  BY <1>1, <1>7
<1>9. f[L + 1] = First(g[L])
  BY <1>8 DEF S
<1> QED BY <1>1, <1>9 DEF f, g, w, t, L

\* w is q and then a run of jobs for s, one for each continuation of r.
Extended(w, q, r, s) ==
  /\ Len(w) = Len(q) + Len(r)
  /\ \A n \in 1..Len(q) : w[n] = q[n]
  /\ \A n \in 1..Len(r) : w[Len(q) + n].src = s /\ w[Len(q) + n].job = r[n]

\* A run of jobs for one promise at the end of the queue: s is owed their
\* continuations, in their order, and the others nothing more.
LEMMA OwedRun ==
  ASSUME NEW q \in Seq(Task), NEW w \in Seq(Task), NEW r \in Seq(Reaction), NEW s, NEW p,
         Extended(w, q, r, s)
  PROVE  Owed(w, p)[Len(w)] = IF s = p THEN Owed(q, p)[Len(q)] \o r ELSE Owed(q, p)[Len(q)]
<1> DEFINE f == Owed(w, p)
<1>0. \A n \in 1..Len(w) : f[n] = IF w[n].src = p THEN f[n - 1] \o <<w[n].job>> ELSE f[n - 1]
  <2>1. OwedBy(f, w, p)
    BY OwedSteps
  <2> HIDE DEF f
  <2> QED BY <2>1 DEF OwedBy
<1> DEFINE k == Len(q)
           L == Len(r)
           base == Owed(q, p)[k]
           front(n) == SubSeq(r, 1, n)
           Then(n) == IF s = p THEN base \o front(n) ELSE base
           S == {n \in 0..L : f[k + n] = Then(n)}
<1>1. k \in Nat /\ L \in Nat /\ Len(w) = k + L /\ k <= Len(w) /\ base \in Seq(Reaction)
  BY OwedIs DEF Extended
<1>2. \A n \in 1..(k + L) : f[n] = IF w[n].src = p THEN f[n - 1] \o <<w[n].job>> ELSE f[n - 1]
  <2> HIDE DEF f, k, L
  <2> QED BY <1>0, <1>1
<1>3. f[k] = base
  BY <1>1, OwedFront DEF Extended
<1>4. ASSUME NEW n \in 1..L
      PROVE  /\ front(n) = front(n - 1) \o <<r[n]>> /\ r[n] \in Reaction
             /\ front(n - 1) \in Seq(Reaction)
  <2>1. 1 \in 1..Len(r) /\ n \in 1..Len(r)
    BY <1>1
  <2>2. front(n) = front(n - 1) \o <<r[n]>>
    BY <2>1, SubSeqRecursiveSecond
  <2>3. r[n] \in Reaction
    BY <2>1
  <2>4. \A i \in 1..(n - 1) : r[i] \in Reaction
    BY <1>1
  <2>5. front(n - 1) \in Seq(Reaction)
    BY <2>4, SubSeqProperties
  <2> QED BY <2>2, <2>3, <2>5
<1>5. front(0) = <<>> /\ front(L) = r
  BY SubSeqEmpty, SubSeqFull
<1>6. \A n \in 1..L : w[k + n].src = s /\ w[k + n].job = r[n]
  BY DEF Extended
<1> HIDE DEF f, base, front, k, L
<1>7. 0 \in S
  <2>1. base \o <<>> = base
    BY <1>1, ConcatEmptySeq
  <2>2. Then(0) = base /\ k + 0 = k /\ 0 \in 0..L
    BY <1>1, <1>5, <2>1
  <2> HIDE DEF Then
  <2> QED BY <1>3, <2>2
<1>8. ASSUME NEW n \in 0..(L - 1), n \in S PROVE n + 1 \in S
  <2> DEFINE m == n + 1
  <2>1. /\ m \in 1..L /\ m \in 0..L /\ m - 1 = n /\ k + m \in 1..(k + L) /\ (k + m) - 1 = k + n
        /\ f[k + n] = Then(n)
    BY <1>1, <1>8
  <2> HIDE DEF m, Then
  <2>2. f[k + m] = IF s = p THEN f[k + n] \o <<r[m]>> ELSE f[k + n]
    BY <1>2, <1>6, <2>1
  <2>3. front(m) = front(n) \o <<r[m]>> /\ r[m] \in Reaction /\ front(n) \in Seq(Reaction)
    BY <1>4, <2>1
  <2>4. (base \o front(n)) \o <<r[m]>> = base \o front(m)
    <3> DEFINE a == <<r[m]>>
               b == front(n)
    <3>1. a \in Seq(Reaction) /\ b \in Seq(Reaction)
      BY <2>3
    <3> DEFINE c == base
    <3>0. c \in Seq(Reaction)
      BY <1>1
    <3> HIDE DEF a, b, c
    <3>2. (c \o b) \o a = c \o (b \o a)
      BY <3>0, <3>1, Associates
    <3> QED BY <2>3, <3>2 DEF a, b, c
  <2>5. f[k + m] = Then(m)
    BY <2>1, <2>2, <2>4 DEF Then
  <2> QED BY <2>1, <2>5 DEF m
<1> HIDE DEF S
<1>9. \A n \in 0..L : n \in S
  BY <1>1, <1>7, <1>8, UpTo
<1>10. L \in S
  BY <1>1, <1>9
<1>11. f[k + L] = Then(L)
  BY <1>10 DEF S
<1> QED BY <1>1, <1>5, <1>11 DEF f, base, k

-----------------------------------------------------------------------------
(* From one heap to the next: settlements stay, and those who wait for a   *)
(* promise are joined at the end.                                          *)

\* t is s, or s and more.
Joined(s, t) == \E w \in Seq(Reaction) : t = s \o w

Delivers(h, g) ==
  \A p \in Promise :
    /\ Settled(h, p) => OutcomeOf(g, p) = OutcomeOf(h, p)
    /\ Joined(WaitingFor(h, p), WaitingFor(g, p))

LEMMA WaitingSeq ==
  ASSUME NEW h \in Heap, NEW p \in Promise
  PROVE  /\ WaitingFor(h, p) \in Seq(Reaction) /\ h.queue \in Seq(Task)
         /\ Owed(h.queue, p)[Len(h.queue)] \in Seq(Reaction)
         /\ h.reactions[p] \in Seq(Reaction)
<1> DEFINE a == Owed(h.queue, p)[Len(h.queue)]
           b == h.reactions[p]
<1>0. WaitingFor(h, p) = a \o b
  BY DEF WaitingFor
<1>1. h.queue \in Seq(Task) /\ b \in Seq(Reaction)
  BY DEF Heap
<1>2. a \in Seq(Reaction)
  BY <1>1, OwedIs
<1> HIDE DEF a, b
<1>3. a \o b \in Seq(Reaction)
  BY <1>1, <1>2, ConcatProperties
<1> QED BY <1>0, <1>1, <1>2, <1>3 DEF a, b

\* Nobody joins.
LEMMA JoinedSame ==
  ASSUME NEW s \in Seq(Reaction)
  PROVE  Joined(s, s)
<1>1. s = s \o <<>> /\ <<>> \in Seq(Reaction)
  BY ConcatEmptySeq
<1> QED BY <1>1 DEF Joined

\* One joins.
LEMMA JoinedOne ==
  ASSUME NEW s, NEW r \in Reaction
  PROVE  Joined(s, s \o <<r>>)
<1>1. <<r>> \in Seq(Reaction)
  OBVIOUS
<1> QED BY <1>1 DEF Joined

\* A heap whose settlements, queue and reactions are the same.
LEMMA DeliversSame ==
  ASSUME NEW h \in Heap, NEW g, g.queue = h.queue, g.reactions = h.reactions,
         \A p \in Promise : Settled(h, p) => g.state[p] = h.state[p] /\ g.value[p] = h.value[p]
  PROVE  Delivers(h, g)
<1> SUFFICES ASSUME NEW p \in Promise
             PROVE  /\ Settled(h, p) => OutcomeOf(g, p) = OutcomeOf(h, p)
                    /\ Joined(WaitingFor(h, p), WaitingFor(g, p))
  BY DEF Delivers
<1>1. Settled(h, p) => OutcomeOf(g, p) = OutcomeOf(h, p)
  BY DEF OutcomeOf, Settled
<1>2. WaitingFor(g, p) = WaitingFor(h, p)
  BY DEF WaitingFor
<1>3. Joined(WaitingFor(h, p), WaitingFor(h, p))
  BY WaitingSeq, JoinedSame
<1> QED BY <1>1, <1>2, <1>3

\* Two operations one after the other.
LEMMA DeliversOn ==
  ASSUME NEW h \in Heap, NEW g \in Heap, NEW f \in Heap, Delivers(h, g), Delivers(g, f)
  PROVE  Delivers(h, f)
<1> SUFFICES ASSUME NEW p \in Promise
             PROVE  /\ Settled(h, p) => OutcomeOf(f, p) = OutcomeOf(h, p)
                    /\ Joined(WaitingFor(h, p), WaitingFor(f, p))
  BY DEF Delivers
<1>1. ASSUME Settled(h, p) PROVE OutcomeOf(f, p) = OutcomeOf(h, p)
  <2>1. OutcomeOf(g, p) = OutcomeOf(h, p)
    BY <1>1 DEF Delivers
  <2>2. Settled(g, p)
    <3>1. OutcomeOf(h, p) = <<h.state[p], h.value[p]>>
      BY <1>1 DEF OutcomeOf
    <3>2. ~Settled(g, p) => OutcomeOf(g, p) = <<"pending">>
      BY DEF OutcomeOf
    <3>3. <<h.state[p], h.value[p]>> # <<"pending">>
      OBVIOUS
    <3> QED BY <2>1, <3>1, <3>2, <3>3
  <2> QED BY <2>1, <2>2 DEF Delivers
<1>2. Joined(WaitingFor(h, p), WaitingFor(f, p))
  <2> DEFINE a == WaitingFor(h, p)
             b == WaitingFor(g, p)
             c == WaitingFor(f, p)
  <2>1. a \in Seq(Reaction) /\ Joined(a, b) /\ Joined(b, c)
    BY WaitingSeq DEF Delivers
  <2> HIDE DEF a, b, c
  <2>2. PICK v \in Seq(Reaction) : b = a \o v
    BY <2>1 DEF Joined
  <2>3. PICK w \in Seq(Reaction) : c = b \o w
    BY <2>1 DEF Joined
  <2>4. (a \o v) \o w = a \o (v \o w) /\ v \o w \in Seq(Reaction)
    BY <2>1, ConcatAssociative, ConcatProperties
  <2>5. c = a \o (v \o w)
    BY <2>2, <2>3, <2>4
  <2>6. Joined(a, c)
    BY <2>4, <2>5 DEF Joined
  <2> QED BY <2>6 DEF a, c
<1> QED BY <1>1, <1>2

\* Settlements that stay the same are told the same.
LEMMA OutcomeKept ==
  ASSUME NEW h, NEW g, NEW p, Settled(h, p) => g.state[p] = h.state[p] /\ g.value[p] = h.value[p]
  PROVE  Settled(h, p) => OutcomeOf(g, p) = OutcomeOf(h, p)
BY DEF OutcomeOf, Settled

\* A job at the end of the queue, for a promise on which nobody is registered.
LEMMA DeliversQueued ==
  ASSUME NEW h \in Heap, NEW g \in Heap, NEW t \in Task, g.queue = Append(h.queue, t),
         g.reactions = h.reactions, t.src \in Promise => h.reactions[t.src] = <<>>,
         \A p \in Promise : Settled(h, p) => g.state[p] = h.state[p] /\ g.value[p] = h.value[p]
  PROVE  Delivers(h, g)
<1> SUFFICES ASSUME NEW p \in Promise
             PROVE  Joined(WaitingFor(h, p), WaitingFor(g, p))
  BY OutcomeKept DEF Delivers
<1> DEFINE a == Owed(h.queue, p)[Len(h.queue)]
           b == h.reactions[p]
           c == Owed(g.queue, p)[Len(g.queue)]
<1>1. a \in Seq(Reaction) /\ b \in Seq(Reaction) /\ h.queue \in Seq(Task) /\ t.job \in Reaction
  BY WaitingSeq DEF Task
<1>2. WaitingFor(h, p) = a \o b /\ WaitingFor(g, p) = c \o b
  BY DEF WaitingFor
<1>3. c = IF t.src = p THEN a \o <<t.job>> ELSE a
  BY <1>1, OwedAppend
<1>4. t.src = p => b = <<>>
  OBVIOUS
<1> HIDE DEF a, b, c
<1>5. CASE t.src = p
  <2> DEFINE j == <<t.job>>
  <2>1. j \in Seq(Reaction)
    BY <1>1
  <2> HIDE DEF j
  <2>2. a \o j \in Seq(Reaction)
    BY <1>1, <2>1, Associates
  <2>3. a \o <<>> = a /\ (a \o j) \o <<>> = a \o j
    BY <1>1, <2>2, ConcatEmptySeq
  <2>4. WaitingFor(h, p) = a /\ WaitingFor(g, p) = a \o j
    BY <1>2, <1>3, <1>4, <1>5, <2>3 DEF j
  <2>5. Joined(a, a \o j)
    BY <2>1 DEF Joined
  <2> QED BY <2>4, <2>5
<1>6. CASE t.src # p
  BY <1>2, <1>3, <1>6, WaitingSeq, JoinedSame
<1> QED BY <1>5, <1>6

\* A reaction after those registered on a pending promise.
LEMMA DeliversRegistered ==
  ASSUME NEW h \in Heap, NEW g \in Heap, NEW q \in Promise, NEW r \in Reaction,
         g.queue = h.queue, g.reactions = [h.reactions EXCEPT ![q] = Append(h.reactions[q], r)],
         \A p \in Promise : Settled(h, p) => g.state[p] = h.state[p] /\ g.value[p] = h.value[p]
  PROVE  Delivers(h, g)
<1> SUFFICES ASSUME NEW p \in Promise
             PROVE  Joined(WaitingFor(h, p), WaitingFor(g, p))
  BY OutcomeKept DEF Delivers
<1> DEFINE a == Owed(h.queue, p)[Len(h.queue)]
           b == h.reactions[p]
           c == g.reactions[p]
           j == <<r>>
<1>1. a \in Seq(Reaction) /\ b \in Seq(Reaction) /\ j \in Seq(Reaction)
  BY WaitingSeq
<1>2. WaitingFor(h, p) = a \o b /\ WaitingFor(g, p) = a \o c
  BY DEF WaitingFor
<1>3. c = IF p = q THEN Append(b, r) ELSE b
  BY DEF Heap
<1>4. Append(b, r) = b \o j
  BY <1>1, AppendIsConcat
<1> HIDE DEF a, b, c, j
<1>5. CASE p = q
  <2>1. (a \o b) \o j = a \o (b \o j)
    BY <1>1, Associates, SMTT(30)
  <2>2. WaitingFor(g, p) = WaitingFor(h, p) \o j
    BY <1>2, <1>3, <1>4, <1>5, <2>1
  <2> QED BY <1>1, <2>2 DEF Joined
<1>6. CASE p # q
  BY <1>2, <1>3, <1>6, WaitingSeq, JoinedSame
<1> QED BY <1>5, <1>6

\* What was registered on q enters the queue: who waits, and in which order, is the same.
LEMMA DeliversMoved ==
  ASSUME NEW h \in Heap, NEW g \in Heap, NEW q \in Promise, Moved(h, g, q),
         \A p \in Promise : Settled(h, p) => g.state[p] = h.state[p] /\ g.value[p] = h.value[p]
  PROVE  Delivers(h, g)
<1> SUFFICES ASSUME NEW p \in Promise
             PROVE  Joined(WaitingFor(h, p), WaitingFor(g, p))
  BY OutcomeKept DEF Delivers
<1> DEFINE a == Owed(h.queue, p)[Len(h.queue)]
           b == h.reactions[p]
           c == Owed(g.queue, p)[Len(g.queue)]
           d == g.reactions[p]
           r == h.reactions[q]
<1>1. /\ a \in Seq(Reaction) /\ b \in Seq(Reaction) /\ r \in Seq(Reaction)
      /\ h.queue \in Seq(Task) /\ g.queue \in Seq(Task)
  BY WaitingSeq
<1>2. WaitingFor(h, p) = a \o b /\ WaitingFor(g, p) = c \o d
  BY DEF WaitingFor
<1>3. c = IF q = p THEN a \o r ELSE a
  <2> DEFINE u == h.queue
             w == g.queue
  <2>1. u \in Seq(Task) /\ w \in Seq(Task) /\ Extended(w, u, r, q)
    BY <1>1 DEF Moved, Extended
  <2> HIDE DEF r, u, w
  <2>2. Owed(w, p)[Len(w)] = IF q = p THEN Owed(u, p)[Len(u)] \o r ELSE Owed(u, p)[Len(u)]
    BY <1>1, <2>1, OwedRun
  <2> QED BY <2>2 DEF u, w
<1>4. d = IF q = p THEN <<>> ELSE b
  BY DEF Moved, Heap
<1>5. q = p => r = b
  OBVIOUS
<1> HIDE DEF a, b, c, d, r
<1>6. WaitingFor(g, p) = WaitingFor(h, p)
  <2>1. CASE q = p
    <3>1. a \o b \in Seq(Reaction)
      BY <1>1, Associates
    <3>2. (a \o b) \o <<>> = a \o b
      BY <3>1, ConcatEmptySeq
    <3> QED BY <1>2, <1>3, <1>4, <1>5, <2>1, <3>2
  <2>2. CASE q # p
    BY <1>2, <1>3, <1>4, <2>2
  <2> QED BY <2>1, <2>2
<1> QED BY <1>6, WaitingSeq, JoinedSame

-----------------------------------------------------------------------------
(* Every operation of the runtime delivers.                                *)

\* Allocation: a free promise has not settled.
LEMMA NewDelivers ==
  ASSUME NEW h \in Heap, NEW p \in Free(h)
  PROVE  Delivers(h, PromiseNew(h, p))
<1> DEFINE g == PromiseNew(h, p)
<1>1. Allocates(h, g, p) /\ h.state[p] = "free"
  BY NewEffect DEF Free
<1> HIDE DEF g
<1>2. \A x \in Promise : Settled(h, x) => g.state[x] = h.state[x] /\ g.value[x] = h.value[x]
  BY <1>1 DEF Allocates, Apart, Settled
<1>3. Delivers(h, g)
  BY <1>1, <1>2, DeliversSame DEF Allocates
<1> QED BY <1>3 DEF g

\* Subscription: to a pending promise at the end of its reactions, to a settled one,
\* on which nobody is registered, at the end of the queue.
LEMMA SubscribeDelivers ==
  ASSUME NEW h, HeapInv(h), NEW p \in Promise, NEW r \in Reaction
  PROVE  Delivers(h, Subscribe(h, p, r))
<1> DEFINE g == Subscribe(h, p, r)
<1>1. h \in Heap /\ CountExact(h) /\ ReactionsPending(h)
  BY DEF HeapInv
<1>2. Subscribes(h, g, p, r)
  BY <1>1, SubscribeEffect
<1> HIDE DEF g
<1>3. g \in Heap /\ g.state = h.state /\ g.value = h.value
  BY <1>2 DEF Subscribes
<1>4. CASE h.state[p] = "pending"
  <2>1. g.queue = h.queue /\ g.reactions = [h.reactions EXCEPT ![p] = Append(h.reactions[p], r)]
    BY <1>2, <1>4 DEF Subscribes
  <2>2. Delivers(h, g)
    BY <1>1, <1>3, <2>1, DeliversRegistered
  <2> QED BY <2>2 DEF g
<1>5. CASE h.state[p] # "pending"
  <2> DEFINE t == Job(r, p, h.value[p], h.state[p] = "rejected")
  <2>1. g.queue = Append(h.queue, t) /\ g.reactions = h.reactions
    BY <1>2, <1>5 DEF Subscribes
  <2>2. t \in Task /\ t.src = p
    BY <1>1 DEF Job, Task, Heap
  <2> HIDE DEF t
  <2>3. h.reactions[p] = <<>>
    BY <1>1, <1>5 DEF ReactionsPending
  <2>4. Delivers(h, g)
    BY <1>1, <1>3, <2>1, <2>2, <2>3, DeliversQueued
  <2> QED BY <2>4 DEF g
<1> QED BY <1>4, <1>5

\* The state change itself, of a promise that has not settled.
LEMMA SettleNowDelivers ==
  ASSUME NEW h \in Heap, NEW p \in Promise, ~Settled(h, p), NEW v \in Value, NEW rej \in BOOLEAN
  PROVE  Delivers(h, PromiseSettleNow(h, p, v, rej))
<1> DEFINE g == PromiseSettleNow(h, p, v, rej)
<1>1. SettlesNow(h, g, p, v, rej)
  BY SettleNowEffect
<1> HIDE DEF g
<1>2. g \in Heap /\ Moved(h, g, p)
  BY <1>1 DEF SettlesNow
<1>3. \A x \in Promise : Settled(h, x) => g.state[x] = h.state[x] /\ g.value[x] = h.value[x]
  BY <1>1 DEF SettlesNow, Apart
<1>4. Delivers(h, g)
  BY <1>2, <1>3, DeliversMoved
<1> QED BY <1>4 DEF g

\* The resolving functions: a promise that has settled is resolved, and stays.
LEMMA SettleDelivers ==
  ASSUME NEW h, HeapInv(h), NEW p \in Promise, NEW v \in Value, NEW rej \in BOOLEAN
  PROVE  Delivers(h, PromiseSettle(h, p, v, rej))
<1> DEFINE g == PromiseSettle(h, p, v, rej)
<1>1. h \in Heap /\ SettledIsResolved(h)
  BY DEF HeapInv
<1>2. Settles(h, g, p, v, rej)
  BY <1>1, SettleEffect
<1> HIDE DEF g
<1>3. g \in Heap
  BY <1>2 DEF Settles
<1>4. CASE h.resolved[p]
  <2>1. g = h
    BY <1>2, <1>4 DEF Settles
  <2>2. Delivers(h, g)
    BY <1>1, <2>1, DeliversSame
  <2> QED BY <2>2 DEF g
<1>5. CASE ~h.resolved[p]
  <2>1. \A x \in Promise : Settled(h, x) => g.state[x] = h.state[x] /\ g.value[x] = h.value[x]
    BY <1>1, <1>2, <1>5 DEF Settles, Apart, SettledIsResolved
  <2>2. CASE ~rej /\ v \in Promise \ {p}
    <3> DEFINE t == Job(Rx("adopt_subscribe", p), NoPromise, v, FALSE)
    <3>1. g.queue = Append(h.queue, t) /\ g.reactions = h.reactions
      BY <1>2, <1>5, <2>2 DEF Settles
    <3>2. t \in Task /\ t.src \notin Promise
      BY RxType, PromiseAssumption DEF Job, Task, Kind
    <3> HIDE DEF t
    <3>3. Delivers(h, g)
      BY <1>1, <1>3, <2>1, <3>1, <3>2, DeliversQueued
    <3> QED BY <3>3 DEF g
  <2>3. CASE rej \/ v \notin Promise \ {p}
    <3>1. Moved(h, g, p)
      BY <1>2, <1>5, <2>3 DEF Settles
    <3>2. Delivers(h, g)
      BY <1>1, <1>3, <2>1, <3>1, DeliversMoved
    <3> QED BY <3>2 DEF g
  <2> QED BY <2>2, <2>3
<1> QED BY <1>4, <1>5

\* Promise.resolve and Promise.reject: an allocation and a settlement.
LEMMA MadeDelivers ==
  ASSUME NEW h, HeapInv(h), NEW q \in Free(h), NEW v \in Value, NEW rej \in BOOLEAN
  PROVE  Delivers(h, PromiseSettle(PromiseNew(h, q), q, v, rej))
<1> DEFINE n == PromiseNew(h, q)
           g == PromiseSettle(n, q, v, rej)
<1>1. h \in Heap /\ q \in Promise
  BY DEF HeapInv, Free
<1>2. HeapInv(n) /\ Delivers(h, n)
  BY <1>1, NewInv, NewDelivers
<1> HIDE DEF n
<1>3. n \in Heap
  BY <1>2 DEF HeapInv
<1>4. Delivers(n, g)
  BY <1>1, <1>2, SettleDelivers
<1>5. g \in Heap
  BY <1>1, <1>3, SettleEffect DEF Settles
<1> HIDE DEF g
<1>6. Delivers(h, g)
  BY <1>1, <1>2, <1>3, <1>4, <1>5, DeliversOn
<1> QED BY <1>6 DEF g, n

\* Promise.resolve hands a promise through as it is.
LEMMA ResolveDelivers ==
  ASSUME NEW h, HeapInv(h), NEW v \in Value, NEW q \in Promise, v \notin Promise => q \in Free(h)
  PROVE  Delivers(h, PromiseResolve(h, v, q))
<1>1. CASE v \in Promise
  <2>1. PromiseResolve(h, v, q) = h /\ h \in Heap
    BY <1>1 DEF PromiseResolve, HeapInv
  <2> QED BY <2>1, DeliversSame
<1>2. CASE v \notin Promise
  BY <1>2, MadeDelivers DEF PromiseResolve
<1> QED BY <1>1, <1>2

\* await, Promise.all and the end of a finally callback: Promise.resolve, then a
\* subscription.
LEMMA ListenDelivers ==
  ASSUME NEW h, HeapInv(h), NEW v \in Value, NEW q \in Promise,
         v \in Promise => v \in Allocated(h), v \notin Promise => q \in Free(h), NEW r \in Reaction
  PROVE  Delivers(h, Subscribe(PromiseResolve(h, v, q), Resolved(v, q), r))
<1> DEFINE m == PromiseResolve(h, v, q)
           e == Resolved(v, q)
           g == Subscribe(m, e, r)
<1>1. h \in Heap /\ e \in Promise
  BY DEF HeapInv, Resolved
<1>2. HeapInv(m) /\ Delivers(h, m)
  BY ResolveInv, ResolveDelivers
<1> HIDE DEF m, e
<1>3. m \in Heap /\ CountExact(m)
  BY <1>2 DEF HeapInv
<1>4. Delivers(m, g)
  BY <1>1, <1>2, SubscribeDelivers
<1>5. g \in Heap
  BY <1>1, <1>3, SubscribeEffect DEF Subscribes
<1> HIDE DEF g
<1>6. Delivers(h, g)
  BY <1>1, <1>2, <1>3, <1>4, <1>5, DeliversOn
<1> QED BY <1>6 DEF g, m, e

\* then and finally: an allocation, then a subscription.
LEMMA DeriveDelivers ==
  ASSUME NEW h, HeapInv(h), NEW p \in Promise, NEW d \in Free(h), NEW r \in Reaction
  PROVE  Delivers(h, Subscribe(PromiseNew(h, d), p, r))
<1> DEFINE n == PromiseNew(h, d)
           g == Subscribe(n, p, r)
<1>1. h \in Heap
  BY DEF HeapInv
<1>2. HeapInv(n) /\ Delivers(h, n)
  BY <1>1, NewInv, NewDelivers
<1> HIDE DEF n
<1>3. n \in Heap /\ CountExact(n)
  BY <1>2 DEF HeapInv
<1>4. Delivers(n, g)
  BY <1>2, SubscribeDelivers
<1>5. g \in Heap
  BY <1>3, SubscribeEffect DEF Subscribes
<1> HIDE DEF g
<1>6. Delivers(h, g)
  BY <1>1, <1>2, <1>3, <1>4, <1>5, DeliversOn
<1> QED BY <1>6 DEF g, n

-----------------------------------------------------------------------------
(* Every step is one of PromiseContract's.                                 *)

\* One who waits for a settled promise is told, or nobody is; then the step delivers.
Told(g) == g = heap \/ (Draining /\ heap.queue # <<>> /\ g = Popped)

Advances == \E g \in Heap : Told(g) /\ Delivers(g, heap')

\* The calls of user code that settle a promise: nobody is told.
LEMMA CallsDeliver ==
  ASSUME Inv, NEW v \in UserValue, NEW q \in Promise,
         CallResolve(v, q) \/ CallReject(v, q)
  PROVE  Delivers(heap, heap')
<1>1. HeapInv(heap) /\ v \in Value
  BY UserValues DEF Inv
<1>2. CASE CallResolve(v, q)
  BY <1>1, <1>2, ResolveDelivers DEF CallResolve
<1>3. CASE CallReject(v, q)
  BY <1>1, <1>3, MadeDelivers DEF CallReject, PromiseReject
<1> QED BY <1>2, <1>3

\* then and finally register their reaction, or queue it.
LEMMA CallDerivedDelivers ==
  ASSUME Inv, NEW p \in Promise, NEW d \in Promise, NEW handlers \in SUBSET {"fulfilled", "rejected"},
         CallThen(p, handlers, d) \/ CallFinally(p, handlers, d)
  PROVE  Delivers(heap, heap')
<1>1. PICK kind \in {"then_react", "finally_react"} :
        heap' = Subscribe(PromiseNew(heap, d), p, [Rx(kind, d) EXCEPT !.handlers = handlers])
  BY DEF CallThen, CallFinally
<1> DEFINE r == [Rx(kind, d) EXCEPT !.handlers = handlers]
<1>2. r \in Reaction
  BY DEF Rx, Reaction, Kind, Value
<1>3. HeapInv(heap) /\ d \in Free(heap)
  BY DEF Inv, CallThen, CallFinally
<1> HIDE DEF r
<1>4. heap' = Subscribe(PromiseNew(heap, d), p, r)
  BY <1>1 DEF r
<1> QED BY <1>2, <1>3, <1>4, DeriveDelivers

\* Promise.all of an empty array settles its promise at once.
LEMMA CallAllDelivers ==
  ASSUME Inv, NEW n \in 0..MaxAll, NEW p \in Promise, NEW elem \in [1..n -> UserValue],
         CallAll(elem, p)
  PROVE  Delivers(heap, heap')
<1>1. HeapInv(heap) /\ heap \in Heap /\ p \in Free(heap) /\ ResultsArray \in Value
  BY DEF Inv, HeapInv, CallAll, Value
<1>2. CASE elem = <<>>
  <2>1. heap' = PromiseSettle(PromiseNew(heap, p), p, ResultsArray, FALSE)
    BY <1>2 DEF CallAll
  <2> QED BY <1>1, <2>1, MadeDelivers
<1>3. CASE elem # <<>>
  <2>1. heap' = PromiseNew(heap, p)
    BY <1>3 DEF CallAll
  <2> QED BY <1>1, <2>1, NewDelivers
<1> QED BY <1>2, <1>3

\* The other calls allocate a promise, or call a resolving function.
LEMMA CallNewDelivers ==
  ASSUME Inv, NEW p \in Promise, CallConstruct(p) \/ CallAsync(p)
  PROVE  Delivers(heap, heap')
<1>1. heap \in Heap /\ p \in Free(heap) /\ heap' = PromiseNew(heap, p)
  BY DEF Inv, HeapInv, CallConstruct, CallAsync
<1> QED BY <1>1, NewDelivers

\* The resolving functions, called by anyone.
LEMMA CallResolverDelivers ==
  ASSUME Inv, NEW p \in Promise, NEW v \in UserValue, NEW rej \in BOOLEAN, CallResolver(p, v, rej)
  PROVE  Delivers(heap, heap')
<1>1. HeapInv(heap) /\ v \in Value /\ heap' = PromiseSettle(heap, p, v, rej)
  BY UserValues DEF Inv, CallResolver
<1> QED BY <1>1, SettleDelivers

\* Code that ends with a settlement of its own promise.
LEMMA EndDelivers ==
  ASSUME Inv, NEW v \in UserValue,
         AsyncReturn(v) \/ AsyncThrow(v) \/ HandlerReturn(v) \/ HandlerThrow(v) \/ ExecutorThrow(v)
  PROVE  Delivers(heap, heap')
<1>1. PICK rej \in BOOLEAN : heap' = PromiseSettle(heap, Top.p, v, rej)
  BY DEF AsyncReturn, AsyncThrow, HandlerReturn, HandlerThrow, ExecutorThrow
<1>2. stack # <<>> /\ Top.kind # "script"
  BY DEF AsyncReturn, AsyncThrow, HandlerReturn, HandlerThrow, ExecutorThrow, Leaves
<1>3. HeapInv(heap) /\ v \in Value /\ Top.p \in Promise
  BY <1>2, UserValues, TopFrame DEF Inv, Allocated
<1> QED BY <1>1, <1>3, SettleDelivers

\* await listens to what it is given.
LEMMA AwaitDelivers ==
  ASSUME Inv, NEW v \in UserValue, NEW q \in Promise, Await(v, q)
  PROVE  Delivers(heap, heap')
<1>1. /\ stack # <<>> /\ Top.kind = "async" /\ (v \notin Promise => q \in Free(heap))
      /\ heap' = Subscribe(PromiseResolve(heap, v, q), Resolved(v, q), Rx("async_resume", Top.p))
  BY DEF Await, Leaves
<1>2. Top.p \in Promise /\ HeapInv(heap) /\ v \in Value /\ (v \in Promise => v \in Allocated(heap))
  BY <1>1, TopFrame, UserValues DEF Allocated, Inv
<1>3. Rx("async_resume", Top.p) \in Reaction
  BY <1>2, RxType DEF Kind
<1> DEFINE r == Rx("async_resume", Top.p)
<1> HIDE DEF r
<1>4. heap' = Subscribe(PromiseResolve(heap, v, q), Resolved(v, q), r) /\ r \in Reaction
  BY <1>1, <1>3 DEF r
<1> QED BY <1>1, <1>2, <1>4, ListenDelivers

\* One turn of the loop of Promise.all listens to one element.
LEMMA AllSubscribeDelivers ==
  ASSUME Inv, NEW q \in Promise, AllSubscribe(q)
  PROVE  Delivers(heap, heap')
<1> DEFINE p == Top.p
           i == Top.index
           v == all[p].input[i]
           r == AllReaction(p, i)
<1>1. /\ stack # <<>> /\ Top.kind = "all" /\ (v \notin Promise => q \in Free(heap))
      /\ heap' = Subscribe(PromiseResolve(heap, v, q), Resolved(v, q), r)
  BY DEF AllSubscribe
<1>2. /\ Top \in Frame /\ Top = stack[1] /\ Len(stack) \in Nat \ {0}
      /\ p \in Promise /\ i \in Nat /\ HeapInv(heap) /\ all \in [Promise -> AllState]
  BY <1>1, TopFrame DEF Inv, TypeOK, Allocated, Frame
<1>3. i \in 1..Len(all[p].input)
  <2>1. 1 \in 1..Len(stack)
    BY <1>2
  <2> QED BY <1>1, <1>2, <2>1 DEF Inv, StackInv
<1>4. v \in Value /\ (v \in Promise => v \in Allocated(heap))
  BY <1>2, <1>3, SMTT(30) DEF Inv, NamesInv, AllState
<1>5. r \in Reaction
  BY <1>2 DEF AllReaction, Rx, Reaction, Kind, Value
<1> HIDE DEF r, v
<1> QED BY <1>1, <1>2, <1>4, <1>5, ListenDelivers

\* The end of a finally callback: an allocation, an adoption, and a subscription.
LEMMA FinallyDelivers ==
  ASSUME Inv, NEW v \in UserValue, NEW inner \in Promise, NEW q \in Promise, FinallyReturn(v, inner, q)
  PROVE  Delivers(heap, heap')
<1> DEFINE n == PromiseNew(heap, inner)
           adopted == PromiseSettle(n, Top.p, inner, FALSE)
           thunk == [Rx("finally_thunk", inner) EXCEPT !.value = Top.value, !.rejected = Top.rejected]
<1>1. /\ stack # <<>> /\ Top.kind = "finally"
      /\ inner \in Free(heap) /\ (v \notin Promise => q \in Free(heap) \ {inner})
      /\ heap' = Subscribe(PromiseResolve(adopted, v, q), Resolved(v, q), thunk)
  BY DEF FinallyReturn, Leaves
<1>2. Top \in Frame /\ Top.p \in Allocated(heap) /\ Top.p \in Promise /\ HeapInv(heap) /\ heap \in Heap
  BY <1>1, TopFrame DEF Inv, TypeOK, Allocated
<1>3. thunk \in Reaction
  BY <1>2 DEF Rx, Reaction, Kind, Value, Frame
<1>4. HeapInv(n) /\ Allocated(n) = Allocated(heap) \cup {inner} /\ Delivers(heap, n) /\ inner \in Value
  BY <1>1, <1>2, NewInv, NewDelivers DEF Value
<1> HIDE DEF n, thunk
<1>5. HeapInv(adopted) /\ Allocated(adopted) = Allocated(n) /\ Delivers(n, adopted)
  BY <1>2, <1>4, SettleInv, SettleDelivers
<1> HIDE DEF adopted
<1>6. v \in Value /\ (v \in Promise => v \in Allocated(adopted)) /\ (v \notin Promise => q \in Free(adopted))
  BY <1>1, <1>4, <1>5, UserValues DEF Free, Allocated
<1>7. Delivers(adopted, heap')
  BY <1>1, <1>3, <1>5, <1>6, ListenDelivers
<1>8. n \in Heap /\ adopted \in Heap /\ heap' \in Heap
  BY <1>4, <1>5, FinallyReturnInv DEF HeapInv, Inv
<1>9. Delivers(heap, adopted)
  BY <1>2, <1>4, <1>5, <1>8, DeliversOn
<1> QED BY <1>2, <1>7, <1>8, <1>9, DeliversOn

\* The end of the module body: main observes the promise of a body that awaits.
LEMMA ScriptDelivers ==
  ASSUME Inv, ScriptEnd
  PROVE  Delivers(heap, heap')
<1>1. /\ stack # <<>> /\ Top.kind = "script"
      /\ heap' = IF TopLevelAwait THEN Subscribe(heap, Top.p, Rx("module_done", Top.p)) ELSE heap
  BY DEF ScriptEnd, Leaves
<1>2. HeapInv(heap) /\ heap \in Heap
  BY DEF Inv, HeapInv
<1>3. CASE TopLevelAwait
  <2>1. Top.p \in Promise
    BY <1>1, <1>3, TopFrame DEF Allocated
  <2>2. Rx("module_done", Top.p) \in Reaction
    BY <2>1, RxType DEF Kind
  <2> QED BY <1>1, <1>2, <1>3, <2>1, <2>2, SubscribeDelivers
<1>4. CASE ~TopLevelAwait
  BY <1>1, <1>2, <1>4, DeliversSame
<1> QED BY <1>3, <1>4

\* The jobs of the drain, once the job is off the queue.
LEMMA JobDelivers ==
  ASSUME Inv, RunJob
  PROVE  Draining /\ heap.queue # <<>> /\ Delivers(Popped, heap')
<1>1. Draining /\ heap.queue # <<>>
  BY DEF RunJob, RunAdopt, RunAdoptSubscribe, RunAsyncResume, RunThenReact, RunFinallyReact,
         RunFinallyThunk, RunAllElement, RunModuleDone, Takes
<1> DEFINE h == Popped
           p == Next1.job.p
<1>2. /\ HeapInv(h) /\ p \in Promise /\ Next1.value \in Value /\ Next1.rejected \in BOOLEAN
      /\ Next1.job.value \in Value /\ Next1.job.rejected \in BOOLEAN /\ ResultsArray \in Value
      /\ Next1.job.kind = "adopt" => h.state[p] = "pending"
      /\ Next1.job.kind = "adopt_subscribe" => Next1.value \in Promise
  BY <1>1, Taken DEF Reaction, JobTarget, Allocated, Value
<1>3. h \in Heap
  BY <1>2 DEF HeapInv
<1> HIDE DEF h, p
<1>4. ASSUME heap' = h PROVE Delivers(h, heap')
  BY <1>3, <1>4, DeliversSame
<1>5. ASSUME NEW v \in Value, NEW rej \in BOOLEAN, heap' = PromiseSettle(h, p, v, rej)
      PROVE  Delivers(h, heap')
  BY <1>2, <1>5, SettleDelivers
<1>6. CASE RunAdopt
  <2>1. heap' = PromiseSettleNow(h, p, Next1.value, Next1.rejected) /\ Next1.job.kind = "adopt"
    BY <1>6 DEF RunAdopt, Takes, Adopt, h, p
  <2>2. ~Settled(h, p)
    BY <1>2, <2>1 DEF Settled
  <2> QED BY <1>1, <1>2, <1>3, <2>1, <2>2, SettleNowDelivers DEF h
<1>7. CASE RunAdoptSubscribe
  <2>1. /\ heap' = Subscribe(h, Next1.value, Rx("adopt", p)) /\ Next1.value \in Promise
        /\ Rx("adopt", p) \in Reaction
    BY <1>2, <1>7, RxType DEF RunAdoptSubscribe, Takes, AdoptSubscribe, Kind, h, p
  <2> QED BY <1>1, <1>2, <2>1, SubscribeDelivers DEF h
<1>8. CASE RunAsyncResume \/ RunModuleDone
  BY <1>1, <1>4, <1>8 DEF RunAsyncResume, RunModuleDone, h
<1>9. CASE RunThenReact \/ RunFinallyReact
  <2>1. heap' = h \/ heap' = PromiseSettle(h, p, Next1.value, Next1.rejected)
    BY <1>9 DEF RunThenReact, RunFinallyReact, PassThrough, h, p
  <2> QED BY <1>1, <1>2, <1>4, <1>5, <2>1 DEF h
<1>10. CASE RunFinallyThunk
  <2>1. \/ heap' = PromiseSettle(h, p, Next1.value, TRUE)
        \/ heap' = PromiseSettle(h, p, Next1.job.value, Next1.job.rejected)
    BY <1>10 DEF RunFinallyThunk, h, p
  <2> QED BY <1>1, <1>2, <1>5, <2>1 DEF h
<1>11. CASE RunAllElement
  <2>1. \/ heap' = h
        \/ heap' = PromiseSettle(h, p, Next1.value, TRUE)
        \/ heap' = PromiseSettle(h, p, ResultsArray, FALSE)
    BY <1>11 DEF RunAllElement, h, p
  <2> QED BY <1>1, <1>2, <1>4, <1>5, <2>1 DEF h
<1> QED BY <1>6, <1>7, <1>8, <1>9, <1>10, <1>11, <1>1 DEF RunJob, h

\* Every step delivers: from the heap, or from the heap without the job that runs.
LEMMA StepAdvances ==
  ASSUME Inv, [Next]_vars
  PROVE  Advances
<1>0. heap \in Heap
  BY DEF Inv, TypeOK
<1>1. ASSUME Delivers(heap, heap') PROVE Advances
  BY <1>0, <1>1 DEF Advances, Told
<1>2. ASSUME heap' = heap PROVE Advances
  BY <1>0, <1>1, <1>2, DeliversSame
<1>3. CASE UserStep
  <2>1. ASSUME NEW v \in UserValue, NEW q \in Promise, CallResolve(v, q) \/ CallReject(v, q)
        PROVE  Advances
    BY <1>1, <2>1, CallsDeliver
  <2>2. ASSUME NEW p \in Promise, NEW d \in Promise, NEW handlers \in SUBSET {"fulfilled", "rejected"},
               CallThen(p, handlers, d) \/ CallFinally(p, handlers, d)
        PROVE  Advances
    BY <1>1, <2>2, CallDerivedDelivers
  <2>3. ASSUME NEW n \in 0..MaxAll, NEW p \in Promise, NEW elem \in [1..n -> UserValue],
               CallAll(elem, p)
        PROVE  Advances
    BY <1>1, <2>3, CallAllDelivers
  <2>4. ASSUME NEW p \in Promise, CallConstruct(p) \/ CallAsync(p)
        PROVE  Advances
    BY <1>1, <2>4, CallNewDelivers
  <2>5. ASSUME NEW p \in Promise, NEW v \in UserValue, NEW rej \in BOOLEAN, CallResolver(p, v, rej)
        PROVE  Advances
    BY <1>1, <2>5, CallResolverDelivers
  <2> QED BY <1>3, <2>1, <2>2, <2>3, <2>4, <2>5 DEF UserStep
<1>4. CASE UserLeaves
  <2>1. ASSUME NEW q \in Promise, AllSubscribe(q) PROVE Advances
    BY <1>1, <2>1, AllSubscribeDelivers
  <2>2. ASSUME NEW v \in UserValue, NEW q \in Promise, Await(v, q) PROVE Advances
    BY <1>1, <2>2, AwaitDelivers
  <2>3. ASSUME NEW v \in UserValue, NEW inner \in Promise, NEW q \in Promise, FinallyReturn(v, inner, q)
        PROVE  Advances
    BY <1>1, <2>3, FinallyDelivers
  <2>4. ASSUME NEW v \in UserValue, \/ AsyncReturn(v) \/ AsyncThrow(v) \/ HandlerReturn(v)
                                    \/ HandlerThrow(v) \/ ExecutorThrow(v)
        PROVE  Advances
    BY <1>1, <2>4, EndDelivers
  <2>5. CASE ScriptEnd
    BY <1>1, <2>5, ScriptDelivers
  <2>6. CASE ExecutorReturn \/ ScriptThrow
    BY <1>2, <2>6 DEF ExecutorReturn, ScriptThrow
  <2> QED BY <1>4, <2>1, <2>2, <2>3, <2>4, <2>5, <2>6 DEF UserLeaves
<1>5. CASE RunJob
  <2>1. Draining /\ heap.queue # <<>> /\ Delivers(Popped, heap')
    BY <1>5, JobDelivers
  <2>2. Popped \in Heap
    BY <2>1, Taken DEF HeapInv
  <2> QED BY <2>1, <2>2 DEF Advances, Told
<1>6. CASE DrainEnd \/ Terminated \/ UNCHANGED vars
  BY <1>2, <1>6 DEF DrainEnd, Terminated, vars
<1> QED BY <1>3, <1>4, <1>5, <1>6 DEF Next

\* Those who have joined are behind those who waited.
LEMMA JoinedExtends ==
  ASSUME NEW s \in Seq(Reaction), NEW t \in Seq(Reaction), Joined(s, t)
  PROVE  Contract!Extends(s, t)
<1>1. PICK w \in Seq(Reaction) : t = s \o w
  BY DEF Joined
<1>2. /\ Len(t) = Len(s) + Len(w) /\ Len(s) \in Nat /\ Len(w) \in Nat
      /\ \A i \in 1..(Len(s) + Len(w)) : t[i] = IF i <= Len(s) THEN s[i] ELSE w[i - Len(s)]
  BY <1>1, ConcatProperties
<1>3. SubSeq(t, 1, Len(s)) = s
  <2> DEFINE u == SubSeq(t, 1, Len(s))
  <2>1. \A i \in 1..Len(s) : t[i] = s[i] /\ t[i] \in Reaction
    BY <1>2
  <2>2. u \in Seq(Reaction) /\ Len(u) = Len(s) /\ \A i \in 1..Len(s) : u[i] = t[i]
    BY <1>2, <2>1
  <2> HIDE DEF u
  <2>3. u = s
    BY <2>1, <2>2
  <2> QED BY <2>3 DEF u
<1> QED BY <1>2, <1>3 DEF Contract!Extends

\* The job taken off the queue told the first who waited for its source, which has
\* settled; nobody else lost his place.
LEMMA PopTells ==
  ASSUME Inv, Draining, heap.queue # <<>>, NEW p \in Promise
  PROVE  /\ Next1.src = p => /\ Settled(heap, p)
                             /\ WaitingFor(heap, p) # <<>>
                             /\ WaitingFor(Popped, p) = Tail(WaitingFor(heap, p))
         /\ Next1.src # p => WaitingFor(Popped, p) = WaitingFor(heap, p)
         /\ OutcomeOf(Popped, p) = OutcomeOf(heap, p)
<1> DEFINE q == heap.queue
           b == heap.reactions[p]
           c == Owed(Tail(q), p)[Len(Tail(q))]
           t == Next1
           j == <<t.job>>
<1>1. /\ q \in Seq(Task) /\ b \in Seq(Reaction) /\ Tail(q) \in Seq(Task) /\ t = Head(q)
      /\ Popped.queue = Tail(q) /\ Popped.reactions = heap.reactions
      /\ Popped.state = heap.state /\ Popped.value = heap.value
  BY WaitingSeq DEF Inv, HeapInv, Heap, Popped, Next1
<1>2. j \in Seq(Reaction) /\ CarriesSettlement(heap, t)
  BY Taken
<1>3. c \in Seq(Reaction)
  BY <1>1, OwedIs
<1>4. Owed(q, p)[Len(q)] = IF t.src = p THEN j \o c ELSE c
  BY <1>1, OwedTail
<1>5. WaitingFor(heap, p) = Owed(q, p)[Len(q)] \o b /\ WaitingFor(Popped, p) = c \o b
  BY <1>1 DEF WaitingFor
<1>6. OutcomeOf(Popped, p) = OutcomeOf(heap, p)
  BY <1>1 DEF OutcomeOf, Settled
<1>7. ASSUME t.src = p
      PROVE  Settled(heap, p) /\ WaitingFor(heap, p) # <<>> /\ WaitingFor(Popped, p) = Tail(WaitingFor(heap, p))
  <2>1. Settled(heap, p)
    BY <1>2, <1>7, PromiseAssumption DEF CarriesSettlement
  <2> DEFINE x == t.job
             d == c \o b
  <2>2. x \in Reaction
    BY Taken
  <2> HIDE DEF q, b, c, t
  <2>3. (j \o c) \o b = j \o d /\ d \in Seq(Reaction)
    <3> HIDE DEF j
    <3>1. b \in Seq(Reaction) /\ c \in Seq(Reaction) /\ j \in Seq(Reaction)
      BY <1>1, <1>2, <1>3
    <3> QED BY <3>1, Associates, SMTT(30)
  <2> HIDE DEF d, x
  <2>4. <<x>> \o d # <<>> /\ Tail(<<x>> \o d) = d
    BY <2>2, <2>3
  <2>5. WaitingFor(heap, p) = <<x>> \o d /\ WaitingFor(Popped, p) = d
    BY <1>4, <1>5, <1>7, <2>3, SMTT(30) DEF x, d
  <2> QED BY <2>1, <2>4, <2>5
<1>8. t.src # p => WaitingFor(Popped, p) = WaitingFor(heap, p)
  BY <1>4, <1>5
<1> QED BY <1>6, <1>7, <1>8

\* A step that delivers is a step of PromiseContract.
LEMMA AdvancesIsStep ==
  ASSUME Inv, Inv', Advances
  PROVE  Contract!Next
<1>1. PICK g \in Heap : Told(g) /\ Delivers(g, heap')
  BY DEF Advances
<1> DEFINE told == IF g = heap THEN {} ELSE {x \in Promise : x = Next1.src}
<1>2. told \in {{}} \cup {{p} : p \in Promise}
  BY DEF told
<1>3. heap \in Heap /\ heap' \in Heap
  BY DEF Inv, TypeOK
<1>4. ASSUME NEW p \in Promise
      PROVE  /\ p \in told => Settled(heap, p) /\ WaitingFor(heap, p) # <<>>
             /\ WaitingFor(g, p) = IF p \in told THEN Tail(WaitingFor(heap, p)) ELSE WaitingFor(heap, p)
             /\ OutcomeOf(g, p) = OutcomeOf(heap, p)
             /\ Settled(g, p) <=> Settled(heap, p)
  <2>1. CASE g = heap
    BY <2>1
  <2>2. CASE g # heap
    <3>1. Draining /\ heap.queue # <<>> /\ g = Popped
      BY <1>1, <2>2 DEF Told
    <3>2. Settled(g, p) <=> Settled(heap, p)
      BY <3>1, Taken DEF Settled
    <3> QED BY <2>2, <3>1, <3>2, PopTells
  <2> QED BY <2>1, <2>2
<1> HIDE DEF told
<1>5. ASSUME NEW p \in Promise
      PROVE  /\ OutcomeOf(heap, p) # <<"pending">> <=> Settled(heap, p)
             /\ Settled(heap, p) => OutcomeOf(heap', p) = OutcomeOf(heap, p)
             /\ Contract!Extends(IF p \in told THEN Tail(WaitingFor(heap, p)) ELSE WaitingFor(heap, p),
                                 WaitingFor(heap', p))
  <2>1. OutcomeOf(heap, p) # <<"pending">> <=> Settled(heap, p)
    <3>1. <<heap.state[p], heap.value[p]>> # <<"pending">>
      OBVIOUS
    <3> QED BY <3>1 DEF OutcomeOf
  <2>2. Settled(heap, p) => OutcomeOf(heap', p) = OutcomeOf(heap, p)
    BY <1>1, <1>4 DEF Delivers
  <2>3. Contract!Extends(WaitingFor(g, p), WaitingFor(heap', p))
    BY <1>1, <1>3, WaitingSeq, JoinedExtends DEF Delivers
  <2> QED BY <1>4, <2>1, <2>2, <2>3
<1>6. Contract!Step(told)
  <2>1. \A p \in Promise : /\ outcome[p] = OutcomeOf(heap, p) /\ waiting[p] = WaitingFor(heap, p)
                           /\ outcome'[p] = OutcomeOf(heap', p) /\ waiting'[p] = WaitingFor(heap', p)
    BY DEF outcome, waiting
  <2>2. DOMAIN outcome' = Promise /\ DOMAIN waiting' = Promise
    BY DEF outcome, waiting
  <2>3. told \subseteq Promise
    BY <1>2
  <2>4. \A p \in told : outcome[p] # <<"pending">> /\ waiting[p] # <<>>
    BY <1>4, <1>5, <2>1, <2>3
  <2>5. \A p \in Promise :
          /\ outcome[p] # <<"pending">> => outcome'[p] = outcome[p]
          /\ Contract!Extends(IF p \in told THEN Tail(waiting[p]) ELSE waiting[p], waiting'[p])
    BY <1>5, <2>1
  <2> QED BY <2>2, <2>4, <2>5 DEF Contract!Step
<1> QED BY <1>2, <1>6 DEF Contract!Next

\* A process starts with nobody waiting and nothing settled.
LEMMA ContractStarts == Init => Contract!Init
<1> SUFFICES ASSUME Init, NEW p \in Promise
             PROVE  OutcomeOf(heap, p) = <<"pending">> /\ WaitingFor(heap, p) = <<>>
  BY DEF Contract!Init, outcome, waiting
<1>1. heap.queue = <<>> /\ heap.reactions[p] = <<>> /\ heap.state[p] \in {"free", "pending"}
  BY DEF Init, PromiseNew, EmptyHeap
<1>2. OutcomeOf(heap, p) = <<"pending">>
  BY <1>1 DEF OutcomeOf, Settled
<1>3. Owed(heap.queue, p)[Len(heap.queue)] = <<>>
  <2> DEFINE q == heap.queue
  <2>1. q \in Seq(Task) /\ Len(q) = 0
    BY <1>1
  <2> HIDE DEF q
  <2>2. Owed(q, p)[0] = <<>>
    BY <2>1, OwedIs
  <2> QED BY <2>1, <2>2 DEF q
<1>4. WaitingFor(heap, p) = <<>> \o <<>>
  BY <1>1, <1>3 DEF WaitingFor
<1>5. <<>> \o <<>> = <<>>
  OBVIOUS
<1> QED BY <1>2, <1>4, <1>5

\* The runtime's promises keep the contract of promises: a promise settles at most
\* once, and everyone who waits for it is told once, after it has settled, in the
\* order of registration (the global microtask queue, jsrt_promise_subscribe and
\* jsrt_promise_settle_now together).
THEOREM ContractKept == Spec => ImplementsContract
<1>1. Inv /\ Inv' /\ [Next]_vars => Contract!Next
  BY StepAdvances, AdvancesIsStep
<1> QED BY <1>1, ContractStarts, Invariance, PTL DEF Spec, ImplementsContract, Contract!Spec
================================================================================
