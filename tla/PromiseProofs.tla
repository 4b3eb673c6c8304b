------------------------------ MODULE PromiseProofs ------------------------------
(***************************************************************************)
(* The promise machinery keeps two inductive invariants, for any number of *)
(* promises, values and operations. From the first follows what the runs   *)
(* check on small instances of the counter of unhandled rejections, of the *)
(* jobs in the queue and of the first resolution. The second says who      *)
(* completes which promise: every promise that code must settle has        *)
(* exactly one continuation left that will, the hidden promises are heard  *)
(* before they settle, main learns of the settlement of the module's       *)
(* promise, and Promise.all waits for exactly the elements it has not      *)
(* counted.                                                                *)
(***************************************************************************)
EXTENDS Promises, PromiseHeapProofs

-----------------------------------------------------------------------------
(* The initial state.                                                      *)

\* The heap a process starts with, no promise allocated, is well formed.
LEMMA EmptyInv == HeapInv(EmptyHeap)
<1> DEFINE h == EmptyHeap
<1>1. h \in Heap
  BY DEF EmptyHeap, Heap, State, Value
<1>2. /\ \A p \in Promise : h.state[p] = "free" /\ ~h.resolved[p] /\ h.reactions[p] = <<>>
                            /\ ~h.unhandled[p] /\ ~h.observed[p]
      /\ h.queue = <<>> /\ h.unhandledRejections = 0
  BY DEF EmptyHeap
<1> HIDE DEF h
<1>3. FreeIsBlank(h) /\ ReactionsPending(h) /\ SettledIsResolved(h) /\ FlagExact(h)
      /\ FulfilledFlat(h)
  BY <1>2 DEF FreeIsBlank, ReactionsPending, SettledIsResolved, FlagExact, FulfilledFlat, Settled
<1>4. CountExact(h)
  <2>1. {p \in Promise : h.unhandled[p]} = {}
    BY <1>2
  <2> QED BY <1>2, <2>1, FS_EmptySet DEF CountExact
<1>5. JobsCarry(h) /\ Targets(h)
  BY <1>2 DEF JobsCarry, Targets
<1>6. AdopterPending(h) /\ AdoptOnce(h)
  BY <1>2 DEF AdopterPending, AdoptOnce, NoAdopter, QueueAdopts, ReactionAdopts
<1> QED BY <1>1, <1>3, <1>4, <1>5, <1>6 DEF HeapInv, h

\* Running(p) reads the frames of p: it is a subset of a finite stack.
LEMMA RunType ==
  ASSUME NEW kind \in FrameKind, NEW p \in Promise \cup {NoPromise}
  PROVE  /\ Run(kind, p) \in Frame /\ Run(kind, p).kind = kind /\ Run(kind, p).p = p
         /\ Run(kind, p).index = 1 /\ Flat(Run(kind, p).value, Run(kind, p).rejected)
BY PromiseAssumption DEF Run, Frame, Value, Flat

\* The process starts in a state of the inductive invariant.
LEMMA InitInv == Init => Inv
<1> SUFFICES ASSUME Init PROVE Inv
  OBVIOUS
<1>1. all \in [Promise -> AllState] /\ \A p \in Promise : all[p].input = <<>>
  BY DEF Init, AllState
<1>2. phase = "script"
  BY DEF Init
<1>3. CASE TopLevelAwait
  <2>1. PICK m \in Promise : /\ heap = PromiseNew(EmptyHeap, m)
                             /\ stack = <<Run("async", m), Run("script", m)>>
                             /\ role = [p \in Promise |-> IF p = m THEN "main" ELSE "none"]
    BY <1>3 DEF Init
  <2>2. m \in Free(EmptyHeap)
    BY DEF Free, EmptyHeap
  <2>3. HeapInv(heap) /\ m \in Allocated(heap)
    BY <2>1, <2>2, EmptyInv, NewInv
  <2>4. /\ Len(stack) = 2 /\ stack \in Seq(Frame)
        /\ stack[1] = Run("async", m) /\ stack[2] = Run("script", m)
    BY <2>1, RunType DEF FrameKind
  <2>5. StackInv
    BY <2>3, <2>4, RunType DEF StackInv, FrameKind
  <2>6. NamesInv /\ role \in [Promise -> Role]
    BY <1>1, <2>1, <2>3 DEF NamesInv, Role
  <2> QED BY <1>1, <1>2, <2>3, <2>4, <2>5, <2>6 DEF Inv, TypeOK, PhaseInv, Halted, HeapInv
<1>4. CASE ~TopLevelAwait
  <2>1. /\ heap = EmptyHeap /\ stack = <<Run("script", NoPromise)>>
        /\ role = [p \in Promise |-> "none"]
    BY <1>4 DEF Init
  <2>2. Len(stack) = 1 /\ stack \in Seq(Frame) /\ stack[1] = Run("script", NoPromise)
    BY <2>1, RunType DEF FrameKind
  <2>3. StackInv
    BY <1>4, <2>2, RunType DEF StackInv, FrameKind
  <2>4. NamesInv /\ role \in [Promise -> Role]
    BY <1>1, <2>1 DEF NamesInv, Role
  <2> QED BY <1>1, <1>2, <2>1, <2>2, <2>3, <2>4, EmptyInv DEF Inv, TypeOK, PhaseInv, Halted, HeapInv
<1> QED BY <1>3, <1>4

-----------------------------------------------------------------------------
(* What the invariant says of the stack and of the values user code holds. *)

\* What a program can pass to a promise call, an allocated promise or a
\* plain value, is a legal value.
LEMMA UserValues ==
  ASSUME Inv, NEW v \in UserValue
  PROVE  v \in Value /\ (v \in Promise => v \in Allocated(heap))
BY PromiseAssumption DEF UserValue, Reachable, Value, Inv, NamesInv

\* The running frame is a frame of the stack, and satisfies what StackInv
\* says of it.
LEMMA TopFrame ==
  ASSUME Inv, stack # <<>>
  PROVE  /\ Top \in Frame /\ Top = stack[1] /\ Len(stack) \in Nat \ {0}
         /\ Top.kind # "script" \/ TopLevelAwait => Top.p \in Allocated(heap)
         /\ Flat(Top.value, Top.rejected)
         /\ phase \in {"script", "drain"}
<1>1. stack \in Seq(Frame) /\ phase \in {"script", "drain"} \cup Halted
  BY DEF Inv, TypeOK
<1>2. Top \in Frame /\ Top = stack[1] /\ Len(stack) \in Nat \ {0}
  BY <1>1 DEF Top
<1>3. 1 \in 1..Len(stack)
  BY <1>2
<1> QED BY <1>1, <1>2, <1>3 DEF Inv, StackInv, PhaseInv

\* Frames that stay on the stack stay well formed.
LEMMA StackStays ==
  ASSUME Inv, Allocated(heap) \subseteq Allocated(heap'), all' = all,
         \/ stack' = stack
         \/ stack # <<>> /\ stack' = Tail(stack)
  PROVE  stack' \in Seq(Frame) /\ StackInv'
<1>1. stack \in Seq(Frame) /\ StackInv
  BY DEF Inv, TypeOK
<1>2. CASE stack' = stack
  BY <1>1, <1>2 DEF StackInv
<1>3. CASE stack # <<>> /\ stack' = Tail(stack)
  <2> DEFINE n == Len(stack)
  <2>1. /\ stack' \in Seq(Frame) /\ Len(stack') = n - 1 /\ n \in Nat \ {0}
        /\ \A i \in 1..(n - 1) : stack'[i] = stack[i + 1] /\ i + 1 \in 1..n
    BY <1>1, <1>3
  <2>2. ASSUME NEW i \in 1..(n - 1)
        PROVE  /\ stack'[i].kind # "script" \/ TopLevelAwait => stack'[i].p \in Allocated(heap')
               /\ Flat(stack'[i].value, stack'[i].rejected)
               /\ stack'[i].kind = "script" => i = n - 1
               /\ stack'[i].kind = "all" => stack'[i].index \in 1..Len(all'[stack'[i].p].input)
    <3>1. i + 1 \in 1..n /\ stack'[i] = stack[i + 1]
      BY <2>1
    <3>2. /\ stack[i + 1].kind # "script" \/ TopLevelAwait => stack[i + 1].p \in Allocated(heap)
          /\ Flat(stack[i + 1].value, stack[i + 1].rejected)
          /\ stack[i + 1].kind = "script" => i + 1 = n
          /\ stack[i + 1].kind = "all" => stack[i + 1].index \in 1..Len(all[stack[i + 1].p].input)
      BY <1>1, <3>1 DEF StackInv
    <3> QED BY <3>1, <3>2, <2>1
  <2> QED BY <2>1, <2>2 DEF StackInv
<1> QED BY <1>2, <1>3

\* A frame of user code or of Promise.all on top of them.
LEMMA StackPush ==
  ASSUME Inv, Allocated(heap) \subseteq Allocated(heap'),
         NEW f \in Frame, stack' = <<f>> \o stack, f.kind # "script", f.p \in Allocated(heap'),
         Flat(f.value, f.rejected),
         \A q \in Allocated(heap) : all'[q] = all[q],
         f.kind = "all" => f.index \in 1..Len(all'[f.p].input)
  PROVE  stack' \in Seq(Frame) /\ StackInv'
<1> DEFINE n == Len(stack)
<1>1. stack \in Seq(Frame) /\ StackInv /\ n \in Nat
  BY DEF Inv, TypeOK
<1>2. /\ stack' \in Seq(Frame) /\ Len(stack') = n + 1 /\ stack'[1] = f
      /\ \A i \in 1..(n + 1) : i = 1 \/ (i - 1 \in 1..n /\ stack'[i] = stack[i - 1])
  <2>1. <<f>> \in Seq(Frame) /\ Len(<<f>>) = 1 /\ <<f>>[1] = f
    OBVIOUS
  <2>2. \A a, b \in Seq(Frame) :
          /\ a \o b \in Seq(Frame)
          /\ Len(a \o b) = Len(a) + Len(b)
          /\ \A i \in 1..(Len(a) + Len(b)) :
               (a \o b)[i] = IF i <= Len(a) THEN a[i] ELSE b[i - Len(a)]
    BY ConcatProperties
  <2> DEFINE g == <<f>>
  <2>3. /\ stack' = g \o stack /\ g \in Seq(Frame) /\ Len(g) = 1 /\ g[1] = f
    BY <2>1
  <2> HIDE DEF g
  <2>4. /\ g \o stack \in Seq(Frame)
        /\ Len(g \o stack) = Len(g) + Len(stack)
        /\ \A i \in 1..(Len(g) + Len(stack)) :
             (g \o stack)[i] = IF i <= Len(g) THEN g[i] ELSE stack[i - Len(g)]
    BY <1>1, <2>2, <2>3, Zenon
  <2> DEFINE s == g \o stack
  <2> HIDE DEF s, n
  <2>5. /\ s \in Seq(Frame) /\ Len(s) = 1 + n
        /\ \A i \in 1..(1 + n) : s[i] = IF i <= 1 THEN g[i] ELSE stack[i - 1]
    BY <2>3, <2>4 DEF s, n
  <2>6. stack' = s
    BY <2>3 DEF s
  <2>7. \A i \in 1..(n + 1) : i \in 1..(1 + n) /\ (i = 1 \/ (i - 1 \in 1..n /\ ~(i <= 1)))
    BY <1>1
  <2>8. 1 \in 1..(1 + n) /\ 1 <= 1 /\ 1 + n = n + 1
    BY <1>1
  <2> QED BY <2>3, <2>5, <2>6, <2>7, <2>8
<1>3. ASSUME NEW i \in 1..(n + 1)
      PROVE  /\ stack'[i].kind # "script" \/ TopLevelAwait => stack'[i].p \in Allocated(heap')
             /\ Flat(stack'[i].value, stack'[i].rejected)
             /\ stack'[i].kind = "script" => i = n + 1
             /\ stack'[i].kind = "all" => stack'[i].index \in 1..Len(all'[stack'[i].p].input)
  <2>1. CASE i = 1
    BY <1>2, <2>1
  <2>2. CASE i - 1 \in 1..n /\ stack'[i] = stack[i - 1]
    <3>1. /\ stack[i - 1].kind # "script" \/ TopLevelAwait => stack[i - 1].p \in Allocated(heap)
          /\ Flat(stack[i - 1].value, stack[i - 1].rejected)
          /\ stack[i - 1].kind = "script" => i - 1 = n
          /\ stack[i - 1].kind = "all" => stack[i - 1].index \in 1..Len(all[stack[i - 1].p].input)
      BY <1>1, <2>2 DEF StackInv
    <3> QED BY <2>2, <3>1, <1>1
  <2> QED BY <1>2, <2>1, <2>2
<1> QED BY <1>2, <1>3 DEF StackInv

\* A job that runs user code finds the stack empty.
LEMMA StackStart ==
  ASSUME NEW f \in Frame, stack' = <<f>>, f.kind \notin {"script", "all"}, f.p \in Allocated(heap'),
         Flat(f.value, f.rejected)
  PROVE  stack' \in Seq(Frame) /\ StackInv'
<1>1. stack' \in Seq(Frame) /\ Len(stack') = 1 /\ stack'[1] = f
  OBVIOUS
<1> QED BY <1>1 DEF StackInv

\* Everything but the stack and the heap.
LEMMA NamesStay ==
  ASSUME Inv, Allocated(heap) \subseteq Allocated(heap'), all' = all, role' \in [Promise -> Role],
         \A p \in Promise : role'[p] # role[p] => p \in Allocated(heap')
  PROVE  NamesInv' /\ all' \in [Promise -> AllState]
BY DEF Inv, TypeOK, NamesInv

\* While user code runs the process goes on.
LEMMA PhaseStays ==
  ASSUME Inv, stack # <<>>, phase' = phase
  PROVE  PhaseInv' /\ phase' \in {"script", "drain"} \cup Halted
BY TopFrame DEF PhaseInv, Halted

\* The inductive invariant, put together from its parts.
LEMMA Assemble ==
  ASSUME HeapInv(heap'), stack' \in Seq(Frame), StackInv', NamesInv', PhaseInv',
         phase' \in {"script", "drain"} \cup Halted, role' \in [Promise -> Role],
         all' \in [Promise -> AllState]
  PROVE  Inv'
BY DEF Inv, TypeOK, HeapInv, StackInv, NamesInv, PhaseInv

\* A step that starts no code and ends no process.
LEMMA Quiet ==
  ASSUME Inv, HeapInv(heap'), Allocated(heap) \subseteq Allocated(heap'), all' = all,
         \/ stack' = stack
         \/ stack # <<>> /\ stack' = Tail(stack),
         phase \in {"script", "drain"}, phase' = phase, role' \in [Promise -> Role],
         \A p \in Promise : role'[p] # role[p] => p \in Allocated(heap')
  PROVE  Inv'
<1>1. stack' \in Seq(Frame) /\ StackInv'
  BY StackStays
<1>2. NamesInv' /\ all' \in [Promise -> AllState]
  BY NamesStay
<1>3. PhaseInv'
  BY DEF PhaseInv, Halted
<1> QED BY <1>1, <1>2, <1>3, Assemble

\* One promise is given a role.
LEMMA RoleGiven ==
  ASSUME Inv, NEW q \in Promise, NEW x \in Role, role' = [role EXCEPT ![q] = x]
  PROVE  /\ role' \in [Promise -> Role]
         /\ \A p \in Promise : role'[p] # role[p] => p = q
BY DEF Inv, TypeOK

\* NamesInv survives a step that allocates and changes neither roles nor
\* arrays.
LEMMA RoleKept ==
  ASSUME Inv, role' = role
  PROVE  role' \in [Promise -> Role] /\ \A p \in Promise : role'[p] = role[p]
BY DEF Inv, TypeOK

-----------------------------------------------------------------------------
(* The calls of user code.                                                 *)

\* resolve(v), jsrt_promise_resolve, keeps the invariant.
LEMMA CallResolveInv ==
  ASSUME Inv, NEW v \in UserValue, NEW q \in Promise, CallResolve(v, q)
  PROVE  Inv' /\ Keeps(heap, heap')
<1>1. stack # <<>> /\ v \in Plain /\ q \in Free(heap) /\ heap' = PromiseResolve(heap, v, q)
  BY DEF CallResolve, Calls, UserRuns
<1>2. HeapInv(heap) /\ v \in Value /\ v \notin Promise
  BY <1>1, UserValues, PromiseAssumption DEF Inv
<1>3. /\ HeapInv(heap') /\ Keeps(heap, heap') /\ q \in Allocated(heap')
      /\ Allocated(heap) \subseteq Allocated(heap')
  BY <1>1, <1>2, ResolveInv
<1>4. role' \in [Promise -> Role] /\ \A p \in Promise : role'[p] # role[p] => p = q
  BY RoleGiven DEF CallResolve, Role
<1> QED BY <1>1, <1>3, <1>4, Quiet, TopFrame DEF CallResolve

\* reject(v), jsrt_promise_reject, keeps the invariant.
LEMMA CallRejectInv ==
  ASSUME Inv, NEW v \in UserValue, NEW q \in Promise, CallReject(v, q)
  PROVE  Inv' /\ Keeps(heap, heap')
<1>1. stack # <<>> /\ q \in Free(heap) /\ heap' = PromiseReject(heap, v, q)
  BY DEF CallReject, Calls, UserRuns
<1>2. HeapInv(heap) /\ v \in Value /\ (v \in Promise => v \in Allocated(heap))
  BY UserValues DEF Inv
<1>3. /\ HeapInv(heap') /\ Keeps(heap, heap') /\ q \in Allocated(heap')
      /\ Allocated(heap) \subseteq Allocated(heap')
  BY <1>1, <1>2, RejectInv
<1>4. role' \in [Promise -> Role] /\ \A p \in Promise : role'[p] # role[p] => p = q
  BY RoleGiven DEF CallReject, Role
<1> QED BY <1>1, <1>3, <1>4, Quiet, TopFrame DEF CallReject

\* then and finally: a fresh derived promise, and a reaction on p that settles it.
LEMMA DerivedInv ==
  ASSUME Inv, NEW p \in Reachable, NEW d \in Free(heap), NEW r \in Reaction,
         r.p = d, r.kind \notin {"adopt", "adopt_subscribe"}, Flat(r.value, r.rejected),
         heap' = Subscribe(PromiseNew(heap, d), p, r)
  PROVE  /\ HeapInv(heap') /\ Keeps(heap, heap') /\ d \in Allocated(heap')
         /\ Allocated(heap) \subseteq Allocated(heap')
<1> DEFINE h == PromiseNew(heap, d)
<1>1. HeapInv(h) /\ Keeps(heap, h) /\ Allocated(h) = Allocated(heap) \cup {d}
  BY NewInv DEF Inv
<1>2. p \in Allocated(h)
  BY <1>1 DEF Reachable, Inv, NamesInv
<1> HIDE DEF h
<1>3. HeapInv(heap') /\ Keeps(h, heap') /\ Allocated(heap') = Allocated(h)
  <2>1. heap' = Subscribe(h, p, r)
    BY DEF h
  <2> QED BY <1>1, <1>2, <2>1, SubscribeInv
<1>4. Keeps(heap, heap')
  BY <1>1, <1>3 DEF Keeps
<1> QED BY <1>1, <1>3, <1>4

\* promise.then, jsrt_promise_then, keeps the invariant.
LEMMA CallThenInv ==
  ASSUME Inv, NEW p \in Promise, NEW d \in Promise,
         NEW handlers \in SUBSET {"fulfilled", "rejected"}, CallThen(p, handlers, d)
  PROVE  Inv' /\ Keeps(heap, heap')
<1> DEFINE r == [Rx("then_react", d) EXCEPT !.handlers = handlers]
<1>1. r \in Reaction /\ r.p = d /\ r.kind = "then_react" /\ Flat(r.value, r.rejected)
  BY PromiseAssumption DEF Rx, Reaction, Kind, Value, Flat
<1>2. /\ stack # <<>> /\ p \in Reachable /\ d \in Free(heap)
      /\ heap' = Subscribe(PromiseNew(heap, d), p, r)
  BY DEF CallThen, Calls, UserRuns
<1> HIDE DEF r
<1>3. /\ HeapInv(heap') /\ Keeps(heap, heap') /\ d \in Allocated(heap')
      /\ Allocated(heap) \subseteq Allocated(heap')
  BY <1>1, <1>2, DerivedInv
<1>4. role' \in [Promise -> Role] /\ \A x \in Promise : role'[x] # role[x] => x = d
  BY RoleGiven DEF CallThen, Role
<1> QED BY <1>2, <1>3, <1>4, Quiet, TopFrame DEF CallThen

\* promise.finally, jsrt_promise_finally, keeps the invariant.
LEMMA CallFinallyInv ==
  ASSUME Inv, NEW p \in Promise, NEW d \in Promise,
         NEW handlers \in SUBSET {"fulfilled", "rejected"}, CallFinally(p, handlers, d)
  PROVE  Inv' /\ Keeps(heap, heap')
<1> DEFINE r == [Rx("finally_react", d) EXCEPT !.handlers = handlers]
<1>1. r \in Reaction /\ r.p = d /\ r.kind = "finally_react" /\ Flat(r.value, r.rejected)
  BY PromiseAssumption DEF Rx, Reaction, Kind, Value, Flat
<1>2. /\ stack # <<>> /\ p \in Reachable /\ d \in Free(heap)
      /\ heap' = Subscribe(PromiseNew(heap, d), p, r)
  BY DEF CallFinally, Calls, UserRuns
<1> HIDE DEF r
<1>3. /\ HeapInv(heap') /\ Keeps(heap, heap') /\ d \in Allocated(heap')
      /\ Allocated(heap) \subseteq Allocated(heap')
  BY <1>1, <1>2, DerivedInv
<1>4. role' \in [Promise -> Role] /\ \A x \in Promise : role'[x] # role[x] => x = d
  BY RoleGiven DEF CallFinally, Role
<1> QED BY <1>2, <1>3, <1>4, Quiet, TopFrame DEF CallFinally

\* Allocating a promise with its resolving functions keeps the invariant.
LEMMA CallResolverInv ==
  ASSUME Inv, NEW p \in Promise, NEW v \in UserValue, NEW rej \in BOOLEAN, CallResolver(p, v, rej)
  PROVE  Inv' /\ Keeps(heap, heap')
<1>1. stack # <<>> /\ role[p] = "constructed" /\ heap' = PromiseSettle(heap, p, v, rej)
  BY DEF CallResolver, UserRuns
<1>2. HeapInv(heap) /\ p \in Allocated(heap)
  BY <1>1 DEF Inv, NamesInv
<1>3. HeapInv(heap') /\ Keeps(heap, heap') /\ Allocated(heap') = Allocated(heap)
  BY <1>1, <1>2, UserValues, SettleInv
<1> QED BY <1>1, <1>3, Quiet, TopFrame, RoleKept DEF CallResolver

\* A call that runs user code on a fresh promise pushes its frame.
LEMMA CallFrameInv ==
  ASSUME Inv, NEW p \in Free(heap), NEW kind \in {"executor", "async"}, NEW x \in Role,
         stack # <<>>, heap' = PromiseNew(heap, p), stack' = <<Run(kind, p)>> \o stack,
         role' = [role EXCEPT ![p] = x], phase' = phase, all' = all
  PROVE  Inv' /\ Keeps(heap, heap')
<1>1. HeapInv(heap') /\ Keeps(heap, heap') /\ Allocated(heap') = Allocated(heap) \cup {p}
  BY NewInv DEF Inv
<1>2. p \in Promise
  BY DEF Free
<1>3. /\ Run(kind, p) \in Frame /\ Run(kind, p).kind \in {"executor", "async"} /\ Run(kind, p).p = p
      /\ Flat(Run(kind, p).value, Run(kind, p).rejected) /\ Run(kind, p).kind # "all"
  BY <1>2, RunType DEF FrameKind
<1>4. stack' \in Seq(Frame) /\ StackInv'
  BY <1>1, <1>3, StackPush
<1>5. role' \in [Promise -> Role] /\ \A q \in Promise : role'[q] # role[q] => q = p
  BY <1>2, RoleGiven
<1>6. NamesInv' /\ all' \in [Promise -> AllState]
  BY <1>1, <1>5, NamesStay
<1> QED BY <1>1, <1>4, <1>5, <1>6, PhaseStays, Assemble

\* new Promise(executor), jsrt_promise_construct, keeps the invariant.
LEMMA CallConstructInv ==
  ASSUME Inv, NEW p \in Promise, CallConstruct(p) PROVE Inv' /\ Keeps(heap, heap')
BY CallFrameInv DEF CallConstruct, Calls, UserRuns, Role

\* Calling an async function, jsrt_async_begin, keeps the invariant.
LEMMA CallAsyncInv ==
  ASSUME Inv, NEW p \in Promise, CallAsync(p) PROVE Inv' /\ Keeps(heap, heap')
BY CallFrameInv DEF CallAsync, Calls, UserRuns, Role

\* Promise.all: the array is stored, and its loop goes on top of the stack.
LEMMA CallAllInv ==
  ASSUME Inv, NEW n \in 0..MaxAll, NEW p \in Promise, NEW elem \in [1..n -> UserValue],
         CallAll(elem, p)
  PROVE  Inv' /\ Keeps(heap, heap')
<1> DEFINE s == [remaining |-> Len(elem), input |-> elem, elems |-> <<>>,
                 results |-> [i \in 1..Len(elem) |-> Undefined]]
           h == PromiseNew(heap, p)
<1>1. stack # <<>> /\ p \in Free(heap) /\ all' = [all EXCEPT ![p] = s] /\ phase' = phase
  BY DEF CallAll, Calls, UserRuns
<1>2. /\ \A v \in UserValue : v \in Value /\ (v \in Promise => v \in Allocated(heap))
      /\ Undefined \in Value /\ n \in Nat
  BY UserValues, ProgramAssumption DEF Value
<1>3. elem \in Seq(Value) /\ Len(elem) = n
  <2>1. elem \in [1..n -> Value]
    BY <1>2
  <2> QED BY <1>2, <2>1
<1>4. s \in AllState /\ s.input = elem
  BY <1>2, <1>3 DEF AllState
<1> HIDE DEF s
<1>5. /\ all' \in [Promise -> AllState] /\ all'[p] = s
      /\ \A q \in Promise \ {p} : all'[q] = all[q]
  BY <1>1, <1>4 DEF Inv, TypeOK
<1>6. HeapInv(h) /\ Keeps(heap, h) /\ Allocated(h) = Allocated(heap) \cup {p}
  BY <1>1, NewInv DEF Inv
<1>7. role' \in [Promise -> Role] /\ \A q \in Promise : role'[q] # role[q] => q = p
  BY RoleGiven DEF CallAll, Role
<1> HIDE DEF h
<1>8. CASE elem = <<>>
  <2>1. heap' = PromiseSettle(h, p, ResultsArray, FALSE) /\ stack' = stack
    BY <1>8 DEF CallAll, h
  <2>2. HeapInv(heap') /\ Keeps(h, heap') /\ Allocated(heap') = Allocated(h)
    BY <1>6, <2>1, SettleInv, PromiseAssumption DEF Value
  <2>3. Keeps(heap, heap')
    BY <1>6, <2>2 DEF Keeps
  <2>4. NamesInv'
    BY <1>2, <1>3, <1>4, <1>5, <1>6, <1>7, <1>8, <2>2 DEF Inv, NamesInv
  <2>5. stack' \in Seq(Frame) /\ StackInv'
    <3>1. p \notin Allocated(heap)
      BY <1>1 DEF Free, Allocated
    <3>2. \A i \in 1..Len(stack) : stack[i].kind = "all" => all'[stack[i].p] = all[stack[i].p]
      BY <3>1, <1>5 DEF Inv, StackInv, Allocated
    <3> QED BY <1>6, <2>1, <2>2, <3>2 DEF Inv, TypeOK, StackInv
  <2> QED BY <1>1, <1>5, <1>7, <2>2, <2>3, <2>4, <2>5, PhaseStays, Assemble
<1>9. CASE elem # <<>>
  <2>1. heap' = h /\ stack' = <<Run("all", p)>> \o stack
    BY <1>9 DEF CallAll, h
  <2>2. 1 \in 1..n
    BY <1>2, <1>3, <1>9
  <2>3. /\ Run("all", p) \in Frame /\ Run("all", p).kind = "all" /\ Run("all", p).p = p
        /\ Run("all", p).index = 1 /\ Flat(Run("all", p).value, Run("all", p).rejected)
    BY RunType DEF FrameKind
  <2>4. \A q \in Allocated(heap) : all'[q] = all[q]
    BY <1>1, <1>5 DEF Free, Allocated
  <2>5. stack' \in Seq(Frame) /\ StackInv'
    BY <1>3, <1>4, <1>5, <1>6, <2>1, <2>2, <2>3, <2>4, StackPush
  <2>6. NamesInv'
    BY <1>2, <1>3, <1>4, <1>5, <1>6, <1>7, <2>1 DEF Inv, NamesInv
  <2> QED BY <1>1, <1>5, <1>6, <1>7, <2>1, <2>5, <2>6, PhaseStays, Assemble
<1> QED BY <1>8, <1>9

\* Awaiting v, or subscribing to an element of Promise.all: Promise.resolve, then
\* a reaction that settles p.
LEMMA ListenInv ==
  ASSUME NEW h, HeapInv(h), NEW v \in Value, NEW q \in Promise,
         v \in Promise => v \in Allocated(h), v \notin Promise => q \in Free(h),
         NEW r \in Reaction, r.p \in Allocated(h), r.kind \notin {"adopt", "adopt_subscribe"},
         Flat(r.value, r.rejected)
  PROVE  LET g == Subscribe(PromiseResolve(h, v, q), Resolved(v, q), r)
         IN /\ HeapInv(g) /\ Keeps(h, g)
            /\ Allocated(h) \subseteq Allocated(g)
            /\ v \notin Promise => q \in Allocated(g)
            /\ Resolved(v, q) \in Promise
<1> DEFINE m == PromiseResolve(h, v, q)
           e == Resolved(v, q)
           g == Subscribe(m, e, r)
<1>1. /\ HeapInv(m) /\ Keeps(h, m) /\ e \in Allocated(m) /\ Allocated(h) \subseteq Allocated(m)
      /\ v \notin Promise => q \in Allocated(m)
  BY ResolveInv
<1>2. e \in Promise
  BY DEF Resolved
<1> HIDE DEF m, e
<1>3. HeapInv(g) /\ Keeps(m, g) /\ Allocated(g) = Allocated(m)
  BY <1>1, SubscribeInv
<1> HIDE DEF g
<1>4. Keeps(h, g)
  BY <1>1, <1>3 DEF Keeps
<1> QED BY <1>1, <1>2, <1>3, <1>4 DEF g, m, e

\* Only a wrapper is given a role by such a step.
LEMMA WrapperRole ==
  ASSUME Inv, NEW v, NEW q \in Promise,
         role' = IF v \in Promise THEN role ELSE [role EXCEPT ![q] = "wrapper"]
  PROVE  /\ role' \in [Promise -> Role]
         /\ \A p \in Promise : role'[p] # role[p] => v \notin Promise /\ p = q
BY DEF Inv, TypeOK, Role

\* await, which registers the async frame and leaves it, keeps the
\* invariant.
LEMMA AwaitInv ==
  ASSUME Inv, NEW v \in UserValue, NEW q \in Promise, Await(v, q)
  PROVE  Inv' /\ Keeps(heap, heap')
<1> DEFINE r == Rx("async_resume", Top.p)
<1>1. /\ stack # <<>> /\ Top.kind = "async" /\ stack' = Tail(stack)
      /\ (v \notin Promise => q \in Free(heap)) /\ all' = all /\ phase' = phase
      /\ heap' = Subscribe(PromiseResolve(heap, v, q), Resolved(v, q), r)
  BY DEF Await, Leaves
<1>2. Top.p \in Allocated(heap) /\ Top.p \in Promise /\ HeapInv(heap) /\ phase \in {"script", "drain"}
  BY <1>1, TopFrame DEF Allocated, Inv
<1>3. r \in Reaction /\ r.p = Top.p /\ r.kind = "async_resume" /\ Flat(r.value, r.rejected)
  BY <1>2, RxFlat DEF Rx, Reaction, Kind, Value
<1> HIDE DEF r
<1>4. /\ HeapInv(heap') /\ Keeps(heap, heap') /\ Allocated(heap) \subseteq Allocated(heap')
      /\ v \notin Promise => q \in Allocated(heap')
  BY <1>1, <1>2, <1>3, UserValues, ListenInv
<1>5. /\ role' \in [Promise -> Role]
      /\ \A p \in Promise : role'[p] # role[p] => v \notin Promise /\ p = q
  BY WrapperRole DEF Await
<1> QED BY <1>1, <1>2, <1>4, <1>5, Quiet

\* Frames whose end settles their own promise.
LEMMA SettleTopInv ==
  ASSUME Inv, NEW v \in UserValue, NEW rej \in BOOLEAN, stack # <<>>, Top.kind # "script",
         heap' = PromiseSettle(heap, Top.p, v, rej), stack' = Tail(stack),
         UNCHANGED <<phase, role, all>>
  PROVE  Inv' /\ Keeps(heap, heap')
<1>1. Top.p \in Allocated(heap) /\ HeapInv(heap) /\ phase \in {"script", "drain"}
  BY TopFrame DEF Inv
<1>2. HeapInv(heap') /\ Keeps(heap, heap') /\ Allocated(heap') = Allocated(heap)
  BY <1>1, UserValues, SettleInv
<1> QED BY <1>1, <1>2, Quiet, RoleKept

\* A resolving function that user code calls keeps the invariant.
LEMMA UserSettlesInv ==
  ASSUME Inv, NEW v \in UserValue,
         AsyncReturn(v) \/ AsyncThrow(v) \/ HandlerReturn(v) \/ HandlerThrow(v) \/ ExecutorThrow(v)
  PROVE  Inv' /\ Keeps(heap, heap')
BY SettleTopInv DEF AsyncReturn, AsyncThrow, HandlerReturn, HandlerThrow, ExecutorThrow, Leaves

\* The end of an executor, by return or by throw, keeps the invariant.
LEMMA ExecutorReturnInv ==
  ASSUME Inv, ExecutorReturn PROVE Inv' /\ Keeps(heap, heap')
<1>1. stack # <<>> /\ stack' = Tail(stack) /\ heap' = heap /\ UNCHANGED <<phase, role, all>>
  BY DEF ExecutorReturn, Leaves
<1>2. HeapInv(heap') /\ Keeps(heap, heap') /\ phase \in {"script", "drain"}
  BY <1>1, TopFrame DEF Inv, Keeps
<1> QED BY <1>1, <1>2, Quiet, RoleKept

\* The element an all frame has reached is an element of its array.
LEMMA FrameIndex ==
  ASSUME NEW f \in Frame, NEW i \in Nat
  PROVE  LET g == [f EXCEPT !.index = i]
         IN /\ g \in Frame /\ g.kind = f.kind /\ g.p = f.p /\ g.index = i
            /\ g.value = f.value /\ g.rejected = f.rejected
BY DEF Frame

\* One turn of the loop of Promise.all.
LEMMA AllSubscribeInv ==
  ASSUME Inv, NEW q \in Promise, AllSubscribe(q)
  PROVE  Inv' /\ Keeps(heap, heap')
<1> DEFINE p == Top.p
           i == Top.index
           v == all[p].input[i]
           r == AllReaction(p, i)
           a == [all EXCEPT ![p].elems = Append(@, Resolved(v, q))]
<1>1. /\ stack # <<>> /\ Top.kind = "all" /\ phase' = phase
      /\ (v \notin Promise => q \in Free(heap)) /\ all' = a
      /\ heap' = Subscribe(PromiseResolve(heap, v, q), Resolved(v, q), r)
      /\ stack' = IF i = Len(all[p].input) THEN Tail(stack) ELSE [stack EXCEPT ![1].index = @ + 1]
      /\ role' = IF v \in Promise THEN role ELSE [role EXCEPT ![q] = "wrapper"]
  BY DEF AllSubscribe
<1>2. /\ Top \in Frame /\ Top = stack[1] /\ Len(stack) \in Nat \ {0} /\ p \in Allocated(heap)
      /\ p \in Promise /\ i \in Nat /\ HeapInv(heap)
      /\ stack \in Seq(Frame) /\ all \in [Promise -> AllState]
  BY <1>1, TopFrame, SMTT(30) DEF Inv, TypeOK, Allocated, Frame
<1>3. i \in 1..Len(all[p].input)
  <2>1. 1 \in 1..Len(stack)
    BY <1>2
  <2> QED BY <1>1, <1>2, <2>1 DEF Inv, StackInv
<1>4. v \in Value /\ (v \in Promise => v \in Allocated(heap))
  BY <1>2, <1>3, SMTT(30) DEF Inv, NamesInv, AllState
<1>5. r \in Reaction /\ r.p = p /\ r.kind = "all_element" /\ Flat(r.value, r.rejected)
  BY <1>2, PromiseAssumption DEF AllReaction, Rx, Reaction, Kind, Value, Flat
<1> HIDE DEF r
<1>6. /\ HeapInv(heap') /\ Keeps(heap, heap') /\ Allocated(heap) \subseteq Allocated(heap')
      /\ v \notin Promise => q \in Allocated(heap')
      /\ Resolved(v, q) \in Promise
  BY <1>1, <1>2, <1>4, <1>5, ListenInv
<1>7. /\ role' \in [Promise -> Role]
      /\ \A x \in Promise : role'[x] # role[x] => v \notin Promise /\ x = q
  BY <1>1, WrapperRole
<1> HIDE DEF v
<1>8. all' \in [Promise -> AllState] /\ \A x \in Promise : all'[x].input = all[x].input
  <2> DEFINE e == Append(all[p].elems, Resolved(v, q))
  <2>1. all[p] \in AllState /\ all[p].elems \in Seq(Promise) /\ e \in Seq(Promise)
    BY <1>2, <1>6, SMTT(30) DEF AllState
  <2> HIDE DEF e
  <2>2. [all[p] EXCEPT !.elems = e] \in AllState /\ [all[p] EXCEPT !.elems = e].input = all[p].input
    BY <2>1 DEF AllState
  <2>3. all' = [all EXCEPT ![p] = [all[p] EXCEPT !.elems = e]]
    BY <1>1, <1>2 DEF e
  <2> QED BY <1>2, <2>2, <2>3
<1>9. NamesInv'
  BY <1>6, <1>7, <1>8 DEF Inv, NamesInv
<1>10. stack' \in Seq(Frame) /\ StackInv'
  <2> DEFINE Fine(f, last) ==
               /\ f.kind # "script" \/ TopLevelAwait => f.p \in Allocated(heap)
               /\ Flat(f.value, f.rejected)
               /\ f.kind = "script" => last
               /\ f.kind = "all" => f.index \in 1..Len(all[f.p].input)
  <2>1. \A k \in 1..Len(stack) : Fine(stack[k], k = Len(stack))
    BY DEF Inv, StackInv
  <2>2. ASSUME NEW s \in Seq(Frame), \A k \in 1..Len(s) : Fine(s[k], k = Len(s))
        PROVE  \A k \in 1..Len(s) :
                 /\ s[k].kind # "script" \/ TopLevelAwait => s[k].p \in Allocated(heap')
                 /\ Flat(s[k].value, s[k].rejected)
                 /\ s[k].kind = "script" => k = Len(s)
                 /\ s[k].kind = "all" => s[k].index \in 1..Len(all'[s[k].p].input)
    BY <2>2, <1>6, <1>8, SMTT(40) DEF Allocated
  <2>3. CASE i = Len(all[p].input)
    <3> DEFINE n == Len(stack)
    <3>1. /\ stack' = Tail(stack) /\ stack' \in Seq(Frame) /\ Len(stack') = n - 1
          /\ \A k \in 1..(n - 1) : stack'[k] = stack[k + 1] /\ k + 1 \in 1..n
      BY <1>1, <1>2, <2>3
    <3>2. ASSUME NEW k \in 1..(n - 1) PROVE Fine(stack'[k], k = n - 1)
      <4>1. k + 1 \in 1..n /\ Fine(stack[k + 1], k + 1 = n) /\ stack'[k] = stack[k + 1]
        BY <2>1, <3>1, ZenonT(60)
      <4>2. (k + 1 = n) = (k = n - 1)
        BY <1>2
      <4> QED BY <4>1, <4>2, SMTT(40)
    <3>3. \A k \in 1..Len(stack') : Fine(stack'[k], k = Len(stack'))
      BY <3>1, <3>2
    <3> HIDE DEF Fine
    <3> QED BY <2>2, <3>1, <3>3 DEF StackInv
  <2>4. CASE i # Len(all[p].input)
    <3> DEFINE f == [Top EXCEPT !.index = @ + 1]
    <3>1. /\ f \in Frame /\ f.kind = "all" /\ f.p = p /\ f.index = i + 1
          /\ Flat(f.value, f.rejected)
      <4>1. i + 1 \in Nat /\ Flat(Top.value, Top.rejected)
        BY <1>1, <1>2, TopFrame
      <4> QED BY <1>1, <1>2, <4>1, FrameIndex
    <3>2. i + 1 \in 1..Len(all[p].input)
      BY <1>2, <1>3, <2>4, SMTT(40) DEF AllState
    <3>3. stack' = [stack EXCEPT ![1] = f]
      BY <1>1, <1>2, <2>4
    <3> HIDE DEF f
    <3>4. /\ stack' \in Seq(Frame) /\ Len(stack') = Len(stack) /\ stack'[1] = f
          /\ \A k \in 1..Len(stack) : k # 1 => stack'[k] = stack[k]
      BY <1>2, <3>1, <3>3
    <3>5. \A k \in 1..Len(stack) : Fine(stack'[k], k = Len(stack))
      BY <1>2, <2>1, <3>1, <3>2, <3>4
    <3> QED BY <2>2, <3>4, <3>5 DEF StackInv
  <2> QED BY <2>3, <2>4
<1> QED BY <1>1, <1>6, <1>7, <1>8, <1>9, <1>10, PhaseStays, Assemble

\* The end of a finally handler keeps the invariant.
LEMMA FinallyReturnInv ==
  ASSUME Inv, NEW v \in UserValue, NEW inner \in Promise, NEW q \in Promise, FinallyReturn(v, inner, q)
  PROVE  Inv' /\ Keeps(heap, heap')
<1> DEFINE n == PromiseNew(heap, inner)
           adopted == PromiseSettle(n, Top.p, inner, FALSE)
           thunk == [Rx("finally_thunk", inner) EXCEPT !.value = Top.value, !.rejected = Top.rejected]
<1>1. /\ stack # <<>> /\ Top.kind = "finally" /\ stack' = Tail(stack) /\ phase' = phase /\ all' = all
      /\ inner \in Free(heap) /\ (v \notin Promise => q \in Free(heap) \ {inner})
      /\ heap' = Subscribe(PromiseResolve(adopted, v, q), Resolved(v, q), thunk)
      /\ role' = [p \in Promise |-> IF p = inner THEN "inner"
                                    ELSE IF p = q /\ v \notin Promise THEN "wrapper" ELSE role[p]]
  BY DEF FinallyReturn, Leaves
<1>2. /\ Top \in Frame /\ Top.p \in Allocated(heap) /\ HeapInv(heap) /\ phase \in {"script", "drain"}
      /\ Flat(Top.value, Top.rejected)
      /\ role \in [Promise -> Role]
  BY <1>1, TopFrame DEF Inv, TypeOK
<1>3. /\ thunk \in Reaction /\ thunk.p = inner /\ thunk.kind = "finally_thunk"
      /\ Flat(thunk.value, thunk.rejected)
  BY <1>2 DEF Rx, Reaction, Kind, Value, Frame
<1>4. HeapInv(n) /\ Keeps(heap, n) /\ Allocated(n) = Allocated(heap) \cup {inner}
  BY <1>1, <1>2, NewInv
<1> HIDE DEF n, thunk
<1>5. HeapInv(adopted) /\ Keeps(n, adopted) /\ Allocated(adopted) = Allocated(n)
  BY <1>2, <1>4, SettleInv DEF Value
<1> HIDE DEF adopted
<1>6. v \in Value /\ (v \in Promise => v \in Allocated(adopted)) /\ (v \notin Promise => q \in Free(adopted))
  BY <1>1, <1>4, <1>5, UserValues DEF Free, Allocated
<1>7. /\ HeapInv(heap') /\ Keeps(adopted, heap') /\ Allocated(adopted) \subseteq Allocated(heap')
      /\ v \notin Promise => q \in Allocated(heap')
  BY <1>1, <1>3, <1>4, <1>5, <1>6, ListenInv
<1>8. Keeps(heap, heap')
  BY <1>4, <1>5, <1>7 DEF Keeps
<1>9. /\ role' \in [Promise -> Role]
      /\ \A p \in Promise : role'[p] # role[p] => p = inner \/ (p = q /\ v \notin Promise)
  BY <1>1, <1>2 DEF Role
<1>10. \A p \in Promise : role'[p] # role[p] => p \in Allocated(heap')
  BY <1>4, <1>5, <1>7, <1>9
<1>11. Allocated(heap) \subseteq Allocated(heap')
  BY <1>4, <1>5, <1>7
<1> QED BY <1>1, <1>2, <1>7, <1>8, <1>9, <1>10, <1>11, Quiet

\* The end of the module body leaves an empty stack.
LEMMA ScriptLast ==
  ASSUME Inv, stack # <<>>, Top.kind = "script"
  PROVE  Tail(stack) = <<>>
<1>1. stack \in Seq(Frame) /\ Len(stack) \in Nat \ {0} /\ Top = stack[1]
  BY TopFrame DEF Inv, TypeOK
<1>2. 1 \in 1..Len(stack)
  BY <1>1
<1>3. Len(stack) = 1
  BY <1>1, <1>2 DEF Inv, StackInv
<1>4. Tail(stack) \in Seq(Frame) /\ Len(Tail(stack)) = 0
  BY <1>1, <1>3
<1> QED BY <1>4, EmptySeq

\* The end of the module body keeps the invariant.
LEMMA ScriptEndInv ==
  ASSUME Inv, ScriptEnd PROVE Inv' /\ Keeps(heap, heap')
<1>1. /\ stack # <<>> /\ Top.kind = "script" /\ stack' = Tail(stack) /\ phase' = "drain"
      /\ heap' = IF TopLevelAwait THEN Subscribe(heap, Top.p, Rx("module_done", Top.p)) ELSE heap
      /\ role' = role /\ all' = all
  BY DEF ScriptEnd, Leaves
<1>2. HeapInv(heap') /\ Keeps(heap, heap') /\ Allocated(heap) \subseteq Allocated(heap')
  <2>1. CASE TopLevelAwait
    <3> DEFINE r == Rx("module_done", Top.p)
    <3>1. Top.p \in Allocated(heap) /\ HeapInv(heap)
      BY <1>1, <2>1, TopFrame DEF Inv
    <3>2. r \in Reaction /\ r.p = Top.p /\ r.kind = "module_done" /\ Flat(r.value, r.rejected)
      BY <3>1, RxFlat DEF Rx, Reaction, Kind, Value, Allocated
    <3>3. heap' = Subscribe(heap, Top.p, r)
      BY <1>1, <2>1
    <3> HIDE DEF r
    <3> QED BY <3>1, <3>2, <3>3, SubscribeInv
  <2>2. CASE ~TopLevelAwait
    BY <1>1, <2>2 DEF Inv, Keeps
  <2> QED BY <2>1, <2>2
<1>3. stack' \in Seq(Frame) /\ StackInv'
  BY <1>1, <1>2, StackStays
<1>4. role' \in [Promise -> Role] /\ NamesInv' /\ all' \in [Promise -> AllState]
  BY <1>1, <1>2, NamesStay, RoleKept
<1>5. PhaseInv'
  BY <1>1 DEF PhaseInv, Halted
<1> QED BY <1>1, <1>2, <1>3, <1>4, <1>5, Assemble

\* An exception that leaves the module body keeps the invariant.
LEMMA ScriptThrowInv ==
  ASSUME Inv, ScriptThrow PROVE Inv' /\ Keeps(heap, heap')
<1>1. /\ stack # <<>> /\ Top.kind = "script" /\ stack' = Tail(stack) /\ phase' = "uncaught"
      /\ heap' = heap /\ role' = role /\ all' = all
  BY DEF ScriptThrow, Leaves
<1>2. HeapInv(heap') /\ Keeps(heap, heap')
  BY <1>1 DEF Inv, Keeps
<1>3. stack' \in Seq(Frame) /\ StackInv'
  BY <1>1, StackStays
<1>4. role' \in [Promise -> Role] /\ NamesInv' /\ all' \in [Promise -> AllState]
  BY <1>1, NamesStay, RoleKept
<1>5. PhaseInv' /\ phase' \in {"script", "drain"} \cup Halted
  BY <1>1, ScriptLast DEF PhaseInv, Halted
<1> QED BY <1>2, <1>3, <1>4, <1>5, Assemble

-----------------------------------------------------------------------------
(* The jobs of the drain.                                                  *)

\* The heap without the job about to run, and what that job may rely on.
LEMMA Taken ==
  ASSUME Inv, Draining, heap.queue # <<>>
  PROVE  /\ HeapInv(Popped) /\ Keeps(heap, Popped) /\ Allocated(Popped) = Allocated(heap)
         /\ Popped.state = heap.state /\ Popped.value = heap.value
         /\ Popped.resolved = heap.resolved
         /\ Next1 \in Task /\ JobTarget(heap, Next1) /\ CarriesSettlement(heap, Next1)
         /\ Next1.job \in Reaction /\ Next1.job.p \in Allocated(Popped)
         /\ Next1.value \in Value /\ Next1.rejected \in BOOLEAN
         /\ Next1.job.value \in Value /\ Next1.job.rejected \in BOOLEAN
         /\ Next1.job.kind \in {"adopt", "adopt_subscribe"} =>
              /\ NoAdopter(Popped, Next1.job.p)
              /\ Popped.state[Next1.job.p] = "pending" /\ Popped.resolved[Next1.job.p]
         /\ phase = "drain" /\ stack = <<>>
<1>1. /\ HeapInv(Popped) /\ Keeps(heap, Popped) /\ Allocated(Popped) = Allocated(heap)
      /\ Popped.state = heap.state /\ Popped.value = heap.value
      /\ Popped.resolved = heap.resolved
      /\ Next1 \in Task /\ JobTarget(heap, Next1) /\ CarriesSettlement(heap, Next1)
      /\ Next1.job.kind \in {"adopt", "adopt_subscribe"} =>
           /\ NoAdopter(Popped, Next1.job.p)
           /\ Popped.state[Next1.job.p] = "pending" /\ Popped.resolved[Next1.job.p]
  BY PopInv DEF Inv, Popped, Next1
<1>2. Next1.job \in Reaction /\ Next1.value \in Value /\ Next1.rejected \in BOOLEAN
  BY <1>1 DEF Task
<1>3. Next1.job.value \in Value /\ Next1.job.rejected \in BOOLEAN
  BY <1>2 DEF Reaction
<1> QED BY <1>1, <1>2, <1>3 DEF JobTarget, Draining

\* The settlement a job delivers never fulfils with a promise.
LEMMA TakenFlat ==
  ASSUME Inv, Draining, heap.queue # <<>>
  PROVE  /\ Flat(Next1.job.value, Next1.job.rejected)
         /\ Next1.job.kind # "adopt_subscribe" =>
              /\ Flat(Next1.value, Next1.rejected)
              /\ Next1.src \in Promise /\ Settled(heap, Next1.src)
              /\ Next1.value = heap.value[Next1.src]
              /\ Next1.rejected = (heap.state[Next1.src] = "rejected")
<1>1. JobTarget(heap, Next1) /\ CarriesSettlement(heap, Next1) /\ Next1 \in Task
  BY Taken
<1>2. ASSUME Next1.job.kind # "adopt_subscribe"
      PROVE  /\ Next1.src \in Promise /\ Settled(heap, Next1.src)
             /\ Next1.value = heap.value[Next1.src]
             /\ Next1.rejected = (heap.state[Next1.src] = "rejected")
  BY <1>1, <1>2 DEF JobTarget, CarriesSettlement, Task
<1>3. FulfilledFlat(heap)
  BY DEF Inv, HeapInv
<1> QED BY <1>1, <1>2, <1>3 DEF JobTarget, FulfilledFlat, Flat, Settled

\* A job that only settles promises.
LEMMA JobQuiet ==
  ASSUME Inv, Draining, heap.queue # <<>>, HeapInv(heap'), Keeps(Popped, heap'),
         UNCHANGED <<stack, phase, role, all>>
  PROVE  Inv' /\ Keeps(heap, heap')
<1>1. Keeps(heap, Popped) /\ phase = "drain"
  BY Taken
<1>2. Keeps(heap, heap')
  BY <1>1 DEF Keeps
<1> QED BY <1>1, <1>2, Quiet, RoleKept DEF Keeps

\* A job that settles the promise its continuation is for.
LEMMA JobSettles ==
  ASSUME Inv, Draining, heap.queue # <<>>, NEW v \in Value, NEW rej \in BOOLEAN, Flat(v, rej),
         heap' = PromiseSettle(Popped, Next1.job.p, v, rej)
  PROVE  HeapInv(heap') /\ Keeps(Popped, heap')
<1>1. HeapInv(Popped) /\ Next1.job.p \in Allocated(Popped)
  BY Taken
<1>2. ~(~rej /\ v \in Promise)
  BY DEF Flat
<1> DEFINE h == Popped
           p == Next1.job.p
<1> HIDE DEF h, p
<1>3. HeapInv(h) /\ p \in Allocated(h) /\ heap' = PromiseSettle(h, p, v, rej)
  BY <1>1 DEF h, p
<1>4. HeapInv(heap') /\ Keeps(h, heap')
  BY <1>2, <1>3, SettleInv
<1> QED BY <1>4 DEF h

\* A job that runs user code: the code of kind kind, on the continuation's promise.
LEMMA JobStarts ==
  ASSUME Inv, Draining, heap.queue # <<>>, heap' = Popped,
         NEW f \in Frame, f.kind \notin {"script", "all"}, f.p = Next1.job.p,
         Flat(f.value, f.rejected), stack' = <<f>>, UNCHANGED <<phase, role, all>>
  PROVE  Inv' /\ Keeps(heap, heap')
<1>1. /\ HeapInv(heap') /\ Keeps(heap, heap') /\ Allocated(heap') = Allocated(heap)
      /\ f.p \in Allocated(heap') /\ phase = "drain"
  BY Taken
<1>2. stack' \in Seq(Frame) /\ StackInv'
  BY <1>1, StackStart
<1>3. role' \in [Promise -> Role] /\ NamesInv' /\ all' \in [Promise -> AllState]
  BY <1>1, NamesStay, RoleKept
<1>4. PhaseInv' /\ phase' \in {"script", "drain"} \cup Halted
  BY <1>1 DEF PhaseInv, Halted
<1> QED BY <1>1, <1>2, <1>3, <1>4, Assemble

\* The job that subscribes an adopter keeps the invariant.
LEMMA RunAdoptSubscribeInv ==
  ASSUME Inv, RunAdoptSubscribe PROVE Inv' /\ Keeps(heap, heap')
<1> DEFINE r == Rx("adopt", Next1.job.p)
<1>1. /\ Draining /\ heap.queue # <<>> /\ Next1.job.kind = "adopt_subscribe"
      /\ heap' = Subscribe(Popped, Next1.value, r) /\ UNCHANGED <<stack, phase, role, all>>
  BY DEF RunAdoptSubscribe, Takes, AdoptSubscribe
<1>2. /\ HeapInv(Popped) /\ Next1.job.p \in Allocated(Popped) /\ Next1.value \in Allocated(Popped)
      /\ NoAdopter(Popped, Next1.job.p) /\ Popped.state[Next1.job.p] = "pending"
      /\ Popped.resolved[Next1.job.p] /\ Next1.job.p \in Promise
  BY <1>1, Taken DEF JobTarget, Allocated
<1>3. r \in Reaction /\ r.p = Next1.job.p /\ r.kind = "adopt" /\ Flat(r.value, r.rejected)
  BY <1>2, RxFlat DEF Rx, Reaction, Kind, Value
<1> DEFINE h == Popped
<1> HIDE DEF r, h
<1>4. HeapInv(heap') /\ Keeps(h, heap')
  <2>1. /\ HeapInv(h) /\ r.p \in Allocated(h) /\ Next1.value \in Allocated(h)
        /\ NoAdopter(h, r.p) /\ h.state[r.p] = "pending" /\ h.resolved[r.p]
        /\ heap' = Subscribe(h, Next1.value, r)
    BY <1>1, <1>2, <1>3 DEF h
  <2> QED BY <1>3, <2>1, SubscribeInv
<1> QED BY <1>1, <1>4, JobQuiet DEF h

\* The job that completes an adoption is the one step that settles a resolved promise.
LEMMA RunAdoptInv ==
  ASSUME Inv, RunAdopt
  PROVE  LET p == Next1.job.p
             s == Next1.src
         IN /\ Inv' /\ p \in Promise /\ s \in Promise
            /\ heap'.resolved = heap.resolved
            /\ heap.state[p] = "pending"
            /\ heap'.state = [heap.state EXCEPT ![p] = heap.state[s]]
            /\ heap'.value = [heap.value EXCEPT ![p] = heap.value[s]]
<1> DEFINE p == Next1.job.p
           s == Next1.src
           h == Popped
<1>1. /\ Draining /\ heap.queue # <<>> /\ Next1.job.kind = "adopt"
      /\ heap' = PromiseSettleNow(h, p, Next1.value, Next1.rejected)
      /\ UNCHANGED <<stack, phase, role, all>>
  BY DEF RunAdopt, Takes, Adopt
<1>2. /\ HeapInv(h) /\ p \in Promise /\ h.state[p] = "pending" /\ h.resolved[p] /\ NoAdopter(h, p)
      /\ Next1.value \in Value /\ Next1.rejected \in BOOLEAN /\ phase = "drain"
      /\ h.state = heap.state /\ h.value = heap.value /\ h.resolved = heap.resolved
      /\ Allocated(h) = Allocated(heap)
  BY <1>1, Taken DEF Allocated
<1>3. /\ Flat(Next1.value, Next1.rejected) /\ s \in Promise /\ Settled(heap, s)
      /\ Next1.value = heap.value[s] /\ Next1.rejected = (heap.state[s] = "rejected")
  BY <1>1, TakenFlat
<1> HIDE DEF h, p, s
<1>4. /\ HeapInv(heap') /\ Allocated(heap') = Allocated(h) /\ heap'.resolved = h.resolved
      /\ heap'.state = [h.state EXCEPT ![p] = IF Next1.rejected THEN "rejected" ELSE "fulfilled"]
      /\ heap'.value = [h.value EXCEPT ![p] = Next1.value]
  <2> DEFINE v == Next1.value
             rej == Next1.rejected
  <2> HIDE DEF v, rej
  <2>1. /\ HeapInv(h) /\ p \in Promise /\ h.state[p] = "pending" /\ h.resolved[p] /\ NoAdopter(h, p)
        /\ v \in Value /\ rej \in BOOLEAN /\ Flat(v, rej)
        /\ heap' = PromiseSettleNow(h, p, v, rej)
    BY <1>1, <1>2, <1>3 DEF v, rej
  <2>2. /\ HeapInv(heap') /\ Allocated(heap') = Allocated(h) /\ heap'.resolved = h.resolved
        /\ heap'.state = [h.state EXCEPT ![p] = IF rej THEN "rejected" ELSE "fulfilled"]
        /\ heap'.value = [h.value EXCEPT ![p] = v]
    BY <2>1, SettleNowInv
  <2> QED BY <2>2 DEF v, rej
<1>5. (IF Next1.rejected THEN "rejected" ELSE "fulfilled") = heap.state[s]
  BY <1>3 DEF Settled
<1>6. Inv'
  BY <1>1, <1>2, <1>4, Quiet, RoleKept
<1> QED BY <1>2, <1>3, <1>4, <1>5, <1>6 DEF p, s

\* The job that resumes an async frame keeps the invariant.
LEMMA RunAsyncResumeInv ==
  ASSUME Inv, RunAsyncResume PROVE Inv' /\ Keeps(heap, heap')
<1>1. /\ Draining /\ heap.queue # <<>> /\ heap' = Popped
      /\ stack' = <<Run("async", Next1.job.p)>> /\ UNCHANGED <<phase, role, all>>
  BY DEF RunAsyncResume, Takes
<1>2. Next1.job.p \in Promise
  BY <1>1, Taken DEF Reaction
<1>3. /\ Run("async", Next1.job.p) \in Frame /\ Run("async", Next1.job.p).kind = "async"
      /\ Run("async", Next1.job.p).p = Next1.job.p
      /\ Flat(Run("async", Next1.job.p).value, Run("async", Next1.job.p).rejected)
  BY <1>2, RunType DEF FrameKind
<1> QED BY <1>1, <1>3, JobStarts

\* A reaction without a handler, which passes the settlement on, keeps the
\* invariant.
LEMMA PassThroughInv ==
  ASSUME Inv, Draining, heap.queue # <<>>, Next1.job.kind # "adopt_subscribe", PassThrough
  PROVE  Inv' /\ Keeps(heap, heap')
<1>1. Flat(Next1.value, Next1.rejected) /\ Next1.value \in Value /\ Next1.rejected \in BOOLEAN
  BY Taken, TakenFlat
<1>2. HeapInv(heap') /\ Keeps(Popped, heap')
  BY <1>1, JobSettles DEF PassThrough
<1> QED BY <1>2, JobQuiet DEF PassThrough

\* A then reaction keeps the invariant.
LEMMA RunThenReactInv ==
  ASSUME Inv, RunThenReact PROVE Inv' /\ Keeps(heap, heap')
<1>1. Draining /\ heap.queue # <<>> /\ Next1.job.kind = "then_react"
  BY DEF RunThenReact, Takes
<1>2. CASE HasHandler
  <2>1. heap' = Popped /\ stack' = <<Run("then", Next1.job.p)>> /\ UNCHANGED <<phase, role, all>>
    BY <1>2 DEF RunThenReact
  <2>2. Next1.job.p \in Promise
    BY <1>1, Taken DEF Reaction
  <2>3. /\ Run("then", Next1.job.p) \in Frame /\ Run("then", Next1.job.p).kind = "then"
        /\ Run("then", Next1.job.p).p = Next1.job.p
        /\ Flat(Run("then", Next1.job.p).value, Run("then", Next1.job.p).rejected)
    BY <2>2, RunType DEF FrameKind
  <2> QED BY <1>1, <2>1, <2>3, JobStarts
<1>3. CASE ~HasHandler
  BY <1>1, <1>3, PassThroughInv DEF RunThenReact
<1> QED BY <1>2, <1>3

\* A finally reaction keeps the invariant.
LEMMA RunFinallyReactInv ==
  ASSUME Inv, RunFinallyReact PROVE Inv' /\ Keeps(heap, heap')
<1>1. Draining /\ heap.queue # <<>> /\ Next1.job.kind = "finally_react"
  BY DEF RunFinallyReact, Takes
<1>2. CASE HasHandler
  <2> DEFINE f == [Run("finally", Next1.job.p) EXCEPT !.value = Next1.value,
                                                       !.rejected = Next1.rejected]
  <2>1. heap' = Popped /\ stack' = <<f>> /\ UNCHANGED <<phase, role, all>>
    BY <1>2 DEF RunFinallyReact
  <2>2. Next1.job.p \in Promise /\ Next1.value \in Value /\ Next1.rejected \in BOOLEAN
    BY <1>1, Taken DEF Reaction
  <2>3. /\ f \in Frame /\ f.kind = "finally" /\ f.p = Next1.job.p
        /\ f.value = Next1.value /\ f.rejected = Next1.rejected
    BY <2>2 DEF Run, Frame, FrameKind
  <2> HIDE DEF f
  <2>4. Flat(f.value, f.rejected)
    BY <1>1, <2>3, TakenFlat
  <2> QED BY <1>1, <2>1, <2>3, <2>4, JobStarts
<1>3. CASE ~HasHandler
  BY <1>1, <1>3, PassThroughInv DEF RunFinallyReact
<1> QED BY <1>2, <1>3

\* The job after a finally handler keeps the invariant.
LEMMA RunFinallyThunkInv ==
  ASSUME Inv, RunFinallyThunk PROVE Inv' /\ Keeps(heap, heap')
<1>1. /\ Draining /\ heap.queue # <<>> /\ Next1.job.kind = "finally_thunk"
      /\ UNCHANGED <<stack, phase, role, all>>
  BY DEF RunFinallyThunk, Takes
<1>2. /\ Next1.value \in Value /\ Next1.job.value \in Value /\ Next1.job.rejected \in BOOLEAN
      /\ Flat(Next1.job.value, Next1.job.rejected) /\ Flat(Next1.value, TRUE)
  BY <1>1, Taken, TakenFlat DEF Flat
<1>3. HeapInv(heap') /\ Keeps(Popped, heap')
  <2>1. CASE Next1.rejected
    BY <1>1, <1>2, <2>1, JobSettles DEF RunFinallyThunk
  <2>2. CASE ~Next1.rejected
    BY <1>1, <1>2, <2>2, JobSettles DEF RunFinallyThunk
  <2> QED BY <2>1, <2>2
<1> QED BY <1>1, <1>3, JobQuiet

\* A fulfilled or rejected element of Promise.all keeps the invariant.
LEMMA RunAllElementInv ==
  ASSUME Inv, RunAllElement PROVE Inv' /\ Keeps(heap, heap')
<1> DEFINE p == Next1.job.p
           v == Next1.value
           i == Next1.job.index
           s == [all[p] EXCEPT !.results[i] = v, !.remaining = @ - 1]
<1>1. /\ Draining /\ heap.queue # <<>> /\ Next1.job.kind = "all_element"
      /\ UNCHANGED <<stack, phase, role>>
  BY DEF RunAllElement, Takes
<1>2. /\ HeapInv(Popped) /\ Keeps(heap, Popped) /\ v \in Value /\ Next1.rejected \in BOOLEAN
      /\ p \in Promise /\ Flat(v, Next1.rejected) /\ phase = "drain" /\ ResultsArray \in Value
      /\ Flat(ResultsArray, FALSE) /\ Flat(v, TRUE)
  BY <1>1, Taken, TakenFlat, PromiseAssumption DEF Reaction, Value, Flat
<1>3. CASE Next1.rejected
  <2>1. heap' = PromiseSettle(Popped, p, v, TRUE) /\ all' = all
    BY <1>3 DEF RunAllElement
  <2>2. HeapInv(heap') /\ Keeps(Popped, heap')
    BY <1>1, <1>2, <2>1, JobSettles
  <2> QED BY <1>1, <2>1, <2>2, JobQuiet
<1>4. CASE ~Next1.rejected
  <2>1. /\ all' = [all EXCEPT ![p] = s]
        /\ heap' = IF s.remaining = 0 THEN PromiseSettle(Popped, p, ResultsArray, FALSE) ELSE Popped
    BY <1>4 DEF RunAllElement
  <2>2. all[p] \in AllState /\ all \in [Promise -> AllState]
    BY <1>2 DEF Inv, TypeOK
  <2>3. s \in AllState /\ s.input = all[p].input
    <3> DEFINE res == [all[p].results EXCEPT ![i] = v]
               rem == all[p].remaining - 1
    <3>1. all[p].results \in Seq(Value)
      BY <2>2 DEF AllState
    <3>2. res \in [1..Len(all[p].results) -> Value] /\ Len(all[p].results) \in Nat
      <4> DEFINE old == all[p].results
      <4>1. old \in [1..Len(old) -> Value] /\ Len(old) \in Nat
        BY <3>1, LenProperties
      <4> HIDE DEF old, v, i
      <4>2. [old EXCEPT ![i] = v] \in [1..Len(old) -> Value]
        BY <1>2, <4>1
      <4> QED BY <4>1, <4>2 DEF old, v, i
    <3>3. res \in Seq(Value)
      <4> HIDE DEF res
      <4> QED BY <3>2
    <3>4. rem \in Int
      BY <2>2 DEF AllState
    <3>5. s = [all[p] EXCEPT !.results = res, !.remaining = rem]
      OBVIOUS
    <3> HIDE DEF s, res, rem
    <3> QED BY <2>2, <3>3, <3>4, <3>5 DEF AllState
  <2>4. HeapInv(heap') /\ Keeps(Popped, heap')
    <3>1. CASE s.remaining = 0
      BY <1>1, <1>2, <2>1, <3>1, JobSettles
    <3>2. CASE s.remaining # 0
      BY <1>2, <2>1, <3>2 DEF Keeps
    <3> QED BY <3>1, <3>2
  <2> HIDE DEF s
  <2>5. all' \in [Promise -> AllState] /\ \A q \in Promise : all'[q].input = all[q].input
    BY <1>2, <2>1, <2>2, <2>3
  <2>6. Keeps(heap, heap')
    BY <1>2, <2>4 DEF Keeps
  <2>7. NamesInv' /\ role' \in [Promise -> Role]
    BY <1>1, <2>5, <2>6 DEF Inv, TypeOK, NamesInv, Keeps
  <2>8. stack' \in Seq(Frame) /\ StackInv'
    <3>1. stack = <<>> /\ stack' = stack
      BY <1>1 DEF Draining
    <3> QED BY <3>1 DEF StackInv
  <2>9. PhaseInv' /\ phase' \in {"script", "drain"} \cup Halted
    BY <1>1, <1>2 DEF PhaseInv, Halted
  <2> QED BY <2>4, <2>5, <2>6, <2>7, <2>8, <2>9, Assemble
<1> QED BY <1>2, <1>3, <1>4

\* The job that hears the async module body keeps the invariant.
LEMMA RunModuleDoneInv ==
  ASSUME Inv, RunModuleDone PROVE Inv' /\ Keeps(heap, heap')
<1>1. /\ Draining /\ heap.queue # <<>> /\ heap' = Popped /\ UNCHANGED <<stack, role, all>>
      /\ phase' = IF Next1.rejected THEN "uncaught" ELSE phase
  BY DEF RunModuleDone, Takes
<1>2. /\ HeapInv(heap') /\ Keeps(heap, heap') /\ Allocated(heap') = Allocated(heap)
      /\ phase = "drain" /\ stack = <<>>
  BY <1>1, Taken
<1>3. stack' \in Seq(Frame) /\ StackInv'
  BY <1>1, <1>2, StackStays
<1>4. role' \in [Promise -> Role] /\ NamesInv' /\ all' \in [Promise -> AllState]
  BY <1>1, <1>2, NamesStay, RoleKept
<1>5. PhaseInv' /\ phase' \in {"script", "drain"} \cup Halted
  BY <1>1, <1>2 DEF PhaseInv, Halted
<1> QED BY <1>2, <1>3, <1>4, <1>5, Assemble

\* The drain ends on what the counter of unhandled rejections says.
LEMMA DrainEndInv ==
  ASSUME Inv, DrainEnd PROVE Inv' /\ Keeps(heap, heap')
<1>1. /\ Draining /\ UNCHANGED <<heap, stack, role, all>>
      /\ phase' = IF heap.unhandledRejections > 0 THEN "panicked" ELSE "exited"
  BY DEF DrainEnd
<1>2. HeapInv(heap') /\ Keeps(heap, heap') /\ heap.unhandledRejections \in Nat
  BY <1>1 DEF Inv, Keeps, HeapInv, Heap
<1>3. stack' \in Seq(Frame) /\ StackInv'
  BY <1>1, StackStays
<1>4. role' \in [Promise -> Role] /\ NamesInv' /\ all' \in [Promise -> AllState]
  BY <1>1, NamesStay, RoleKept
<1>5. PhaseInv' /\ phase' \in {"script", "drain"} \cup Halted
  BY <1>1, <1>2 DEF PhaseInv, Halted, Draining
<1> QED BY <1>2, <1>3, <1>4, <1>5, Assemble

\* A step that changes nothing keeps the invariant.
LEMMA StutterInv ==
  ASSUME Inv, UNCHANGED vars PROVE Inv' /\ Keeps(heap, heap')
<1>1. heap' = heap /\ stack' = stack /\ phase' = phase /\ role' = role /\ all' = all
  BY DEF vars
<1>2. /\ HeapInv(heap') /\ Keeps(heap, heap') /\ Allocated(heap) \subseteq Allocated(heap')
      /\ phase' \in {"script", "drain"} \cup Halted
  BY <1>1 DEF Inv, TypeOK, Keeps
<1>3. stack' \in Seq(Frame) /\ StackInv'
  BY <1>1, <1>2, StackStays
<1>4. role' \in [Promise -> Role] /\ NamesInv' /\ all' \in [Promise -> AllState]
  BY <1>1, <1>2, NamesStay, RoleKept
<1>5. PhaseInv'
  BY <1>1 DEF Inv, PhaseInv
<1> QED BY <1>2, <1>3, <1>4, <1>5, Assemble

-----------------------------------------------------------------------------
(* The invariant is inductive.                                             *)

\* Every step keeps the invariant: one case per action.
LEMMA NextInv ==
  ASSUME Inv, Next
  PROVE  Inv' /\ (Keeps(heap, heap') \/ RunAdopt)
<1>1. CASE UserStep
  <2>1. ASSUME NEW v \in UserValue, NEW q \in Promise, CallResolve(v, q) \/ CallReject(v, q)
        PROVE  Inv' /\ Keeps(heap, heap')
    BY <2>1, CallResolveInv, CallRejectInv
  <2>2. ASSUME NEW p \in Promise, NEW d \in Promise, NEW handlers \in SUBSET {"fulfilled", "rejected"},
               CallThen(p, handlers, d) \/ CallFinally(p, handlers, d)
        PROVE  Inv' /\ Keeps(heap, heap')
    BY <2>2, CallThenInv, CallFinallyInv
  <2>3. ASSUME NEW n \in 0..MaxAll, NEW p \in Promise, NEW elem \in [1..n -> UserValue],
               CallAll(elem, p)
        PROVE  Inv' /\ Keeps(heap, heap')
    BY <2>3, CallAllInv
  <2>4. ASSUME NEW p \in Promise, CallConstruct(p) \/ CallAsync(p)
        PROVE  Inv' /\ Keeps(heap, heap')
    BY <2>4, CallConstructInv, CallAsyncInv
  <2>5. ASSUME NEW p \in Promise, NEW v \in UserValue, NEW rej \in BOOLEAN, CallResolver(p, v, rej)
        PROVE  Inv' /\ Keeps(heap, heap')
    BY <2>5, CallResolverInv
  <2> QED BY <1>1, <2>1, <2>2, <2>3, <2>4, <2>5 DEF UserStep
<1>2. CASE UserLeaves
  <2>1. ASSUME NEW q \in Promise, AllSubscribe(q) PROVE Inv' /\ Keeps(heap, heap')
    BY <2>1, AllSubscribeInv
  <2>2. ASSUME NEW v \in UserValue, NEW q \in Promise, Await(v, q) PROVE Inv' /\ Keeps(heap, heap')
    BY <2>2, AwaitInv
  <2>3. ASSUME NEW v \in UserValue, NEW inner \in Promise, NEW q \in Promise, FinallyReturn(v, inner, q)
        PROVE  Inv' /\ Keeps(heap, heap')
    BY <2>3, FinallyReturnInv
  <2>4. ASSUME NEW v \in UserValue, \/ AsyncReturn(v) \/ AsyncThrow(v) \/ HandlerReturn(v)
                                    \/ HandlerThrow(v) \/ ExecutorThrow(v)
        PROVE  Inv' /\ Keeps(heap, heap')
    BY <2>4, UserSettlesInv
  <2> QED BY <1>2, <2>1, <2>2, <2>3, <2>4, ExecutorReturnInv, ScriptEndInv, ScriptThrowInv DEF UserLeaves
<1>3. CASE RunJob
  <2>1. CASE RunAdopt
    BY <2>1, RunAdoptInv
  <2> QED BY <1>3, <2>1, RunAdoptSubscribeInv, RunAsyncResumeInv, RunThenReactInv, RunFinallyReactInv,
             RunFinallyThunkInv, RunAllElementInv, RunModuleDoneInv DEF RunJob
<1>4. CASE DrainEnd
  BY <1>4, DrainEndInv
<1>5. CASE Terminated
  BY <1>5, StutterInv DEF Terminated
<1> QED BY <1>1, <1>2, <1>3, <1>4, <1>5 DEF Next

\* The inductive invariant holds of every program, whatever promises it makes: the
\* queue, the reactions, the stack and the roles stay consistent with each other
\* (jsrt_promise.c as a whole).
THEOREM Invariance == Spec => []Inv
<1>1. Inv /\ [Next]_vars => Inv'
  BY NextInv, StutterInv
<1> QED BY InitInv, <1>1, PTL DEF Spec

\* Every variable keeps its type.
THEOREM TypeCorrect == Spec => []TypeOK
<1>1. Inv => TypeOK
  BY DEF Inv
<1> QED BY <1>1, Invariance, PTL

\* The invariant gives the meaning of the unhandled counter.
LEMMA UnhandledFromInv == Inv => UnhandledExact
<1> SUFFICES ASSUME Inv PROVE UnhandledExact
  OBVIOUS
<1>1. FlagExact(heap) /\ CountExact(heap)
  BY DEF Inv, HeapInv
<1>2. Unheard = {p \in Promise : heap.unhandled[p]}
  BY <1>1 DEF FlagExact, Unheard
<1> QED BY <1>1, <1>2 DEF UnhandledExact, CountExact

\* The counter of unhandled rejections (g_unhandled_rejections) counts exactly the
\* rejected promises that nothing ever subscribed to.
THEOREM UnhandledCounted == Spec => []UnhandledExact
BY UnhandledFromInv, Invariance, PTL

\* The exit report of jsrt_run_microtasks is right: the process panics exactly when
\* a rejection was never heard.
THEOREM ExitReported == Spec => []ExitReport
<1>1. Inv => ExitReport
  <2> SUFFICES ASSUME Inv PROVE ExitReport
    OBVIOUS
  <2>1. heap.unhandledRejections = Cardinality(Unheard)
    BY UnhandledFromInv DEF UnhandledExact
  <2>2. IsFiniteSet(Unheard)
    BY FS_Subset, PromiseAssumption DEF Unheard
  <2>3. PhaseInv /\ heap.unhandledRejections \in Nat
    BY DEF Inv, HeapInv, Heap
  <2>4. Cardinality(Unheard) = 0 <=> Unheard = {}
    BY <2>2, FS_EmptySet
  <2> QED BY <2>1, <2>3, <2>4 DEF ExitReport, PhaseInv
<1> QED BY <1>1, Invariance, PTL

\* No job in the queue carries a stale settlement (jsrt_enqueue copies the value when
\* it queues the job).
THEOREM JobsNeverStale == Spec => []JobsCarrySettlement
<1>1. Inv => JobsCarrySettlement
  BY DEF Inv, HeapInv, JobsCarrySettlement
<1> QED BY <1>1, Invariance, PTL

\* Adoption flattens: no promise is ever fulfilled with a promise.
THEOREM AlwaysFlat == Spec => []NeverNested
<1>1. Inv => NeverNested
  BY DEF Inv, HeapInv, NeverNested
<1> QED BY <1>1, Invariance, PTL

\* The first resolution wins (jsrt_promise_settle), and the only step that settles a
\* resolved promise is the one that completes its adoption, with the settlement of
\* the promise it adopted.
THEOREM FirstWins == Spec => FirstResolutionWins
<1>1. ASSUME Inv, [Next]_vars PROVE [SettlesOnce]_vars
  <2>1. CASE UNCHANGED vars
    BY <2>1
  <2>2. CASE Next
    <3>1. CASE Keeps(heap, heap')
      BY <3>1 DEF Keeps, SettlesOnce
    <3>2. CASE RunAdopt
      <4> DEFINE p == Next1.job.p
                 s == Next1.src
      <4>1. /\ p \in Promise /\ s \in Promise
            /\ heap'.resolved = heap.resolved
            /\ heap.state[p] = "pending"
            /\ heap'.state = [heap.state EXCEPT ![p] = heap.state[s]]
            /\ heap'.value = [heap.value EXCEPT ![p] = heap.value[s]]
        BY <3>2, <1>1, RunAdoptInv
      <4>2. Takes("adopt")
        BY <3>2 DEF RunAdopt
      <4>3. heap.state \in [Promise -> State] /\ heap.value \in [Promise -> Value]
        BY <1>1 DEF Inv, HeapInv, Heap
      <4>4. ASSUME NEW q \in Promise, q # p
            PROVE  heap'.state[q] = heap.state[q] /\ heap'.value[q] = heap.value[q]
        <5> HIDE DEF p, s
        <5> QED BY <4>1, <4>3, <4>4
      <4>5. heap'.state[p] = heap.state[s] /\ heap'.value[p] = heap.value[s]
        <5> HIDE DEF p, s
        <5> QED BY <4>1, <4>3
      <4> QED BY <4>1, <4>2, <4>4, <4>5 DEF SettlesOnce
    <3> QED BY <1>1, <2>2, <3>1, <3>2, NextInv
  <2> QED BY <1>1, <2>1, <2>2
<1> QED BY <1>1, Invariance, PTL DEF Spec, FirstResolutionWins

-----------------------------------------------------------------------------
(* The stack: whose code runs.                                             *)

\* The code on s, with the promise each piece settles.
Frames(s) == {<<s[i].kind, s[i].p>> : i \in 1..Len(s)}

\* The frames that end by settling the promise p of their code.
Codes(f, p) == f.p = p /\ f.kind \in {"async", "then", "finally"}

Runs(s, p) == Cardinality({i \in 1..Len(s) : Codes(s[i], p)})

\* No loop of Promise.all on s.
NoLoop(s) == \A f \in Frames(s) : f[1] # "all"

\* t is s with one frame less on top.
Under(s, t) == Len(s) = Len(t) + 1 /\ \A i \in 1..Len(t) : s[i + 1] = t[i]

\* The code of p on the stack is what Runs counts.
LEMMA RunningIs ==
  ASSUME NEW p, stack \in Seq(Frame)
  PROVE  Running(p) = Runs(stack, p)
BY DEF Running, Runs, Codes

\* The same, of the next state.
LEMMA RunningIsNext ==
  ASSUME NEW p, stack' \in Seq(Frame)
  PROVE  Running(p)' = Runs(stack', p)
BY DEF Running, Runs, Codes

\* The frames of s are finitely many.
LEMMA RunsType ==
  ASSUME NEW s \in Seq(Frame), NEW p
  PROVE  /\ Runs(s, p) \in Nat
         /\ \A i \in 1..Len(s) : Codes(s[i], p) => Runs(s, p) > 0
<1> DEFINE C == {i \in 1..Len(s) : Codes(s[i], p)}
<1>1. IsFiniteSet(C)
  <2>1. Len(s) \in Nat
    OBVIOUS
  <2>2. IsFiniteSet(1..Len(s))
    BY <2>1, FS_Interval
  <2> QED BY <2>2, FS_Subset
<1>2. Cardinality(C) \in Nat
  BY <1>1, FS_CardinalityType
<1>3. ASSUME NEW i \in 1..Len(s), Codes(s[i], p) PROVE Cardinality(C) > 0
  <2>1. C # {}
    BY <1>3
  <2> HIDE DEF C
  <2> QED BY <1>1, <1>2, <2>1, FS_EmptySet
<1> QED BY <1>2, <1>3 DEF Runs

\* One frame on top of others.
LEMMA OnTop ==
  ASSUME NEW s \in Seq(Frame), NEW t \in Seq(Frame), Under(s, t)
  PROVE  /\ Frames(s) = Frames(t) \cup {<<s[1].kind, s[1].p>>}
         /\ \A p : Runs(s, p) = Runs(t, p) + IF Codes(s[1], p) THEN 1 ELSE 0
<1> DEFINE n == Len(t)
<1>1. /\ n \in Nat /\ Len(s) = n + 1
      /\ \A i \in 1..n : s[i + 1] = t[i]
  BY DEF Under
<1> HIDE DEF n
<1>2. Frames(s) = Frames(t) \cup {<<s[1].kind, s[1].p>>}
  <2>1. Frames(t) = {<<t[i].kind, t[i].p>> : i \in 1..n}
        /\ Frames(s) = {<<s[i].kind, s[i].p>> : i \in 1..(n + 1)}
    BY <1>1 DEF Frames, n
  <2>2. ASSUME NEW i \in 1..n PROVE <<t[i].kind, t[i].p>> \in Frames(s)
    <3>1. i + 1 \in 1..(n + 1) /\ s[i + 1] = t[i]
      BY <1>1
    <3> QED BY <2>1, <3>1
  <2>3. ASSUME NEW i \in 1..(n + 1), i # 1 PROVE <<s[i].kind, s[i].p>> \in Frames(t)
    <3>1. i - 1 \in 1..n /\ (i - 1) + 1 = i
      BY <1>1, <2>3
    <3>2. s[i] = t[i - 1]
      BY <1>1, <3>1
    <3> QED BY <2>1, <3>1, <3>2
  <2>4. 1 \in 1..(n + 1)
    BY <1>1
  <2> QED BY <2>1, <2>2, <2>3, <2>4
<1>3. ASSUME NEW p
      PROVE  Runs(s, p) = Runs(t, p) + IF Codes(s[1], p) THEN 1 ELSE 0
  <2> DEFINE C == {i \in 1..n : Codes(t[i], p)}
             D == {i + 1 : i \in C}
             A == {i \in 1..(n + 1) : Codes(s[i], p)}
  <2>1. Runs(t, p) = Cardinality(C) /\ Runs(s, p) = Cardinality(A)
    BY <1>1 DEF Runs, n
  <2>2. C \subseteq Int /\ IsFiniteSet(C)
    <3>1. IsFiniteSet(1..n)
      BY <1>1, FS_Interval
    <3> QED BY <3>1, FS_Subset, <1>1
  <2>3. IsFiniteSet(D) /\ Cardinality(D) = Cardinality(C)
    <3>1. 1 \in Int
      OBVIOUS
    <3> HIDE DEF C
    <3> QED BY <2>2, <3>1, ShiftSize
  <2>4. \A i : i \in D <=> i \in 1..(n + 1) /\ i # 1 /\ Codes(s[i], p)
    <3>1. ASSUME NEW i \in D PROVE i \in 1..(n + 1) /\ i # 1 /\ Codes(s[i], p)
      BY <1>1
    <3>2. ASSUME NEW i \in 1..(n + 1), i # 1, Codes(s[i], p) PROVE i \in D
      <4>1. i - 1 \in 1..n /\ (i - 1) + 1 = i
        BY <1>1, <3>2
      <4>2. s[i] = t[i - 1]
        BY <1>1, <4>1
      <4>3. i - 1 \in C
        BY <3>2, <4>1, <4>2
      <4> QED BY <4>1, <4>3
    <3> QED BY <3>1, <3>2
  <2>5. 1 \in 1..(n + 1) /\ 1 \notin D
    BY <1>1, <2>4
  <2>6. CASE Codes(s[1], p)
    <3>1. A = D \cup {1}
      <4> HIDE DEF D
      <4> QED BY <2>4, <2>5, <2>6
    <3>2. Cardinality(D \cup {1}) = Cardinality(D) + 1
      <4> HIDE DEF D
      <4> QED BY <2>3, <2>5, FS_AddElement
    <3> QED BY <2>1, <2>3, <2>6, <3>1, <3>2
  <2>7. CASE ~Codes(s[1], p)
    <3>1. A = D
      <4> HIDE DEF D
      <4> QED BY <2>4, <2>7
    <3>2. Cardinality(C) \in Nat
      BY <2>2, FS_CardinalityType
    <3> HIDE DEF A, C, D
    <3> QED BY <2>1, <2>3, <2>7, <3>1, <3>2
  <2> QED BY <2>6, <2>7
<1> QED BY <1>2, <1>3

\* A call puts its frame on top; the end of a frame, and the start of a job, are
\* of the same form.
LEMMA PushUnder ==
  ASSUME NEW s \in Seq(Frame), NEW f \in Frame
  PROVE  /\ <<f>> \o s \in Seq(Frame) /\ (<<f>> \o s)[1] = f
         /\ Under(<<f>> \o s, s)
<1> DEFINE g == <<f>>
           t == g \o s
           n == Len(s)
<1>1. g \in Seq(Frame) /\ Len(g) = 1 /\ g[1] = f /\ n \in Nat
  OBVIOUS
<1> HIDE DEF g
<1>2. \A a, b \in Seq(Frame) :
        /\ a \o b \in Seq(Frame)
        /\ Len(a \o b) = Len(a) + Len(b)
        /\ \A i \in 1..(Len(a) + Len(b)) :
             (a \o b)[i] = IF i <= Len(a) THEN a[i] ELSE b[i - Len(a)]
  BY ConcatProperties
<1>3. /\ t \in Seq(Frame) /\ Len(t) = Len(g) + Len(s)
      /\ \A i \in 1..(Len(g) + Len(s)) : t[i] = IF i <= Len(g) THEN g[i] ELSE s[i - Len(g)]
  BY <1>1, <1>2, Zenon
<1> HIDE DEF t, n
<1>4. /\ Len(t) = 1 + n
      /\ \A i \in 1..(1 + n) : t[i] = IF i <= 1 THEN g[i] ELSE s[i - 1]
  BY <1>1, <1>3 DEF n
<1>5. ASSUME NEW i \in 1..n PROVE t[i + 1] = s[i]
  <2>1. i + 1 \in 1..(1 + n) /\ ~(i + 1 <= 1) /\ (i + 1) - 1 = i
    BY <1>1
  <2> QED BY <1>4, <2>1
<1>6. 1 \in 1..(1 + n) /\ 1 <= 1 /\ 1 + n = n + 1
  BY <1>1
<1>7. t[1] = f /\ Len(t) = n + 1
  BY <1>1, <1>4, <1>6
<1> QED BY <1>3, <1>5, <1>7 DEF Under, t, g, n

\* What is left of a stack is under it.
LEMMA TailUnder ==
  ASSUME NEW s \in Seq(Frame), s # <<>>
  PROVE  Tail(s) \in Seq(Frame) /\ Under(s, Tail(s))
BY DEF Under

\* A stack of one frame.
LEMMA StartUnder ==
  ASSUME NEW f \in Frame
  PROVE  <<f>> \in Seq(Frame) /\ <<>> \in Seq(Frame) /\ <<f>>[1] = f /\ Under(<<f>>, <<>>)
BY DEF Under

-----------------------------------------------------------------------------
(* What an ordinary step does, and why the invariant survives it.          *)

\* The continuations, on the stack s and in the heap h, whose code settles p.
Will(s, h, p) == Runs(s, p) + Waiting(h, p, CodeKinds)

\* p is a promise some code is to settle: h and r say its state and its role.
Owes(h, r, p) ==
  /\ h.state[p] = "pending" /\ ~h.resolved[p]
  /\ r[p] \in {"body", "main", "derived", "inner"}

\* A promise that is settled, or resolved, stays so.
SettledStay ==
  \A p \in Promise :
    /\ heap.resolved[p] => heap'.resolved[p]
    /\ Settled(heap, p) => heap'.state[p] = heap.state[p] /\ heap'.value[p] = heap.value[p]

\* A step from a state of both invariants that keeps the first.
Going == Inv /\ Inv' /\ OwnersInv /\ SettledStay

\* The step touches the promises of P only: those it allocates, those it settles
\* and those it begins to resolve.
Touches(P) ==
  /\ P \subseteq Promise /\ Apart(heap, heap', P)
  /\ \A p \in Promise : heap.observed[p] => heap'.observed[p]
  /\ \A p \in Promise : role'[p] # role[p] => p \in P /\ p \in Free(heap) /\ role'[p] # "main"
  /\ \A p \in Promise : role'[p] = "inner" => HeardFirst(heap', p)
  /\ \A p \in P : /\ role'[p] = "wrapper" => heap'.state[p] = "fulfilled"
                  /\ role'[p] = "inner" /\ Settled(heap', p) => heap'.observed[p]

\* What waits and what runs after the step was there before it, or is for a
\* promise of the right role; no promise outside P gains or loses its completer.
Completes(P) ==
  /\ \A w \in Waiters(heap') : w \in Waiters(heap) \/ RoleFits(w[1].kind, role'[w[1].p])
  /\ \A f \in Frames(stack') : \/ f \in Frames(stack)
                               \/ f[1] # "script" /\ RoleFits(f[1], role'[f[2]])
  /\ AdoptExact(heap')
  /\ \A p \in Promise \ P : Will(stack', heap', p) = Will(stack, heap, p)
  /\ \A p \in P : Will(stack', heap', p) = IF Owes(heap', role', p) THEN 1 ELSE 0

\* The continuations that settle nothing by themselves wait as before: the elements
\* of every Promise.all, and the observer of the module's promise.
ElementsStay(h, g) ==
  /\ \A w : w[1].kind = "all_element" => (w \in Waiters(g) <=> w \in Waiters(h))
  /\ \A p : Waiting(g, p, {"all_element"}) = Waiting(h, p, {"all_element"})

OtherKinds == {"all_element", "module_done"}

ObserverStays(h, g) == \A w : w[1].kind = "module_done" => (w \in Waiters(g) <=> w \in Waiters(h))

OthersStay(h, g) == ElementsStay(h, g) /\ ObserverStays(h, g)

\* The step enters no module body and ends no process normally.
MainStays ==
  /\ \A f \in Frames(stack') : f[1] = "script" => f \in Frames(stack)
  /\ phase' \in {phase, "uncaught", "panicked"} /\ phase' # "exited"

\* The step is no step of Promise.all.
AllStays(P) ==
  /\ all' = all
  /\ \A p \in P : role'[p] # "all"
  /\ stack' = stack \/ (NoLoop(stack) /\ NoLoop(stack'))

Basic(P) == Touches(P) /\ Completes(P)

\* CodeExact, over the frames and the heap as arguments.
LEMMA CodeExactIs ==
  ASSUME Inv
  PROVE  CodeExact <=> \A p \in Promise : Will(stack, heap, p) = IF Owes(heap, role, p) THEN 1 ELSE 0
<1>1. stack \in Seq(Frame)
  BY DEF Inv, TypeOK
<1>2. \A p : Running(p) = Runs(stack, p)
  BY <1>1, RunningIs
<1>3. \A p : OwesCode(p) <=> Owes(heap, role, p)
  BY DEF OwesCode, Owes
<1> QED BY <1>2, <1>3 DEF CodeExact, Will

\* CodeExact of the next state, from the frames and the continuations counted
\* together.
LEMMA CodeExactNext ==
  ASSUME Inv', \A p \in Promise : Will(stack', heap', p) = IF Owes(heap', role', p) THEN 1 ELSE 0
  PROVE  CodeExact'
<1>1. stack' \in Seq(Frame)
  BY DEF Inv, TypeOK
<1>2. \A p : Running(p)' = Runs(stack', p)
  BY <1>1, RunningIsNext
<1>3. \A p : OwesCode(p)' <=> Owes(heap', role', p)
  BY DEF OwesCode, Owes
<1> QED BY <1>2, <1>3 DEF CodeExact, Will

\* A continuation is for an allocated promise, and waits for one or for none.
LEMMA WaiterTarget ==
  ASSUME Inv, NEW w \in Waiters(heap)
  PROVE  w[1] \in Reaction /\ w[1].p \in Promise /\ w[1].p \in Allocated(heap)
<1>1. heap \in Heap /\ Targets(heap)
  BY DEF Inv, HeapInv
<1>2. w[1].p \in Allocated(heap)
  <2>1. \/ \E q \in Promise : \E i \in 1..Len(heap.reactions[q]) : w = <<heap.reactions[q][i], q>>
        \/ \E i \in 1..Len(heap.queue) : w = <<heap.queue[i].job, heap.queue[i].src>>
    BY WaiterIs
  <2> QED BY <1>1, <2>1 DEF Targets, JobTarget
<1> QED BY <1>1, <1>2, WaiterType DEF Allocated

\* The frames of a state of the invariant, as a set.
LEMMA FrameTarget ==
  ASSUME Inv, NEW f \in Frames(stack)
  PROVE  /\ f[1] # "script" \/ TopLevelAwait => f[2] \in Promise /\ f[2] \in Allocated(heap)
         /\ \E i \in 1..Len(stack) : f = <<stack[i].kind, stack[i].p>> /\ stack[i] \in Frame
<1>1. PICK i \in 1..Len(stack) : f = <<stack[i].kind, stack[i].p>>
  BY DEF Frames
<1>2. stack[i] \in Frame
  BY DEF Inv, TypeOK
<1> QED BY <1>1, <1>2 DEF Inv, StackInv, Allocated

\* RolesFit, over the frames as a set.
LEMMA RolesFitIs ==
  ASSUME OwnersInv
  PROVE  /\ \A w \in Waiters(heap) : RoleFits(w[1].kind, role[w[1].p])
         /\ \A f \in Frames(stack) : f[1] # "script" \/ TopLevelAwait => RoleFits(f[1], role[f[2]])
BY DEF OwnersInv, CompletionInv, RolesFit, Frames

\* RolesFit of the next state, from the waiters and the frames as sets.
LEMMA RolesFitNext ==
  ASSUME \A w \in Waiters(heap') : RoleFits(w[1].kind, role'[w[1].p]),
         \A f \in Frames(stack') : f[1] # "script" \/ TopLevelAwait => RoleFits(f[1], role'[f[2]])
  PROVE  RolesFit'
<1>1. ASSUME NEW i \in 1..Len(stack'), stack'[i].kind # "script" \/ TopLevelAwait
      PROVE  RoleFits(stack'[i].kind, role'[stack'[i].p])
  <2> DEFINE f == <<stack'[i].kind, stack'[i].p>>
  <2>1. f \in Frames(stack') /\ f[1] = stack'[i].kind /\ f[2] = stack'[i].p
    BY DEF Frames
  <2> HIDE DEF f
  <2> QED BY <1>1, <2>1
<1> QED BY <1>1 DEF RolesFit

\* The hidden promises survive a step that touches them as it should.
LEMMA HiddenKept ==
  ASSUME Going, NEW P, Touches(P)
  PROVE  HiddenInv'
<1> SUFFICES ASSUME NEW p \in Promise
             PROVE  /\ role'[p] = "wrapper" => heap'.state[p] = "fulfilled"
                    /\ role'[p] = "inner" => HeardFirst(heap', p)
                    /\ role'[p] = "inner" /\ Settled(heap', p) => heap'.observed[p]
  BY DEF HiddenInv
<1>1. HiddenInv
  BY DEF Going, OwnersInv
<1>2. CASE p \in P
  BY <1>2 DEF Touches
<1>3. CASE p \notin P
  <2>1. role'[p] = role[p] /\ heap'.state[p] = heap.state[p] /\ (heap.observed[p] => heap'.observed[p])
    BY <1>3 DEF Touches, Apart
  <2> QED BY <1>1, <2>1 DEF HiddenInv, Settled, Touches
<1> QED BY <1>2, <1>3

\* Every promise keeps exactly one completer, while it needs one.
LEMMA CompletionKept ==
  ASSUME Going, NEW P, Basic(P)
  PROVE  CompletionInv'
<1>1. Inv /\ Inv' /\ OwnersInv /\ Touches(P) /\ Completes(P)
  BY DEF Going, Basic
<1>2. \A p \in Promise : p \in Allocated(heap) => role'[p] = role[p]
  BY <1>1 DEF Touches, Free, Allocated
<1>3. ASSUME NEW w \in Waiters(heap') PROVE RoleFits(w[1].kind, role'[w[1].p])
  <2>1. CASE w \in Waiters(heap)
    BY <1>1, <1>2, <2>1, WaiterTarget, RolesFitIs
  <2> QED BY <1>1, <2>1 DEF Completes
<1>4. ASSUME NEW f \in Frames(stack'), f[1] # "script" \/ TopLevelAwait
      PROVE  RoleFits(f[1], role'[f[2]])
  <2>1. CASE f \in Frames(stack)
    <3>1. f[2] \in Promise /\ f[2] \in Allocated(heap)
      BY <1>1, <1>4, <2>1, FrameTarget
    <3> QED BY <1>1, <1>2, <1>4, <2>1, <3>1, RolesFitIs
  <2> QED BY <1>1, <2>1 DEF Completes
<1>5. RolesFit'
  BY <1>3, <1>4, RolesFitNext
<1>6. ASSUME NEW p \in Promise
      PROVE  Will(stack', heap', p) = IF Owes(heap', role', p) THEN 1 ELSE 0
  <2>1. CASE p \in P
    BY <1>1, <2>1 DEF Completes
  <2>2. CASE p \notin P
    <3>1. Owes(heap', role', p) <=> Owes(heap, role, p)
      BY <1>1, <2>2 DEF Touches, Apart, Owes
    <3>2. Will(stack, heap, p) = IF Owes(heap, role, p) THEN 1 ELSE 0
      BY <1>1, CodeExactIs DEF OwnersInv, CompletionInv
    <3>3. Will(stack', heap', p) = Will(stack, heap, p)
      BY <1>1, <2>2 DEF Completes
    <3> QED BY <3>1, <3>2, <3>3
  <2> QED BY <2>1, <2>2
<1>7. CodeExact'
  BY <1>1, <1>6, CodeExactNext
<1>8. AdoptExact(heap)'
  BY <1>1 DEF Completes
<1> QED BY <1>5, <1>7, <1>8 DEF CompletionInv

\* main goes on listening to the module's promise.
LEMMA MainKept ==
  ASSUME Going, NEW P, Touches(P), ObserverStays(heap, heap'), MainStays
  PROVE  MainInv'
<1>1. MainInv /\ \A p \in Promise : role'[p] = "main" => role[p] = "main"
  BY DEF Going, OwnersInv, Touches
<1>2. \A w : w[1].kind = "module_done" => (w \in Waiters(heap') <=> w \in Waiters(heap))
  BY DEF ObserverStays
<1>3. \A w \in Waiters(heap') : w[1].kind = "module_done" => w[2] = w[1].p
  BY <1>1, <1>2 DEF MainInv
<1>4. ASSUME NEW p \in Promise, role'[p] = "main"
      PROVE  /\ TopLevelAwait
             /\ \A i \in 1..Len(stack') : stack'[i].kind = "script" => stack'[i].p = p
             /\ phase' = "drain" =>
                  heap'.state[p] = "fulfilled" \/ <<Rx("module_done", p), p>> \in Waiters(heap')
             /\ phase' = "exited" => heap'.state[p] # "rejected"
  <2>1. /\ TopLevelAwait
        /\ \A i \in 1..Len(stack) : stack[i].kind = "script" => stack[i].p = p
        /\ phase = "drain" => heap.state[p] = "fulfilled" \/ <<Rx("module_done", p), p>> \in Waiters(heap)
    BY <1>1, <1>4 DEF MainInv
  <2>2. ASSUME NEW i \in 1..Len(stack'), stack'[i].kind = "script" PROVE stack'[i].p = p
    <3>1. <<stack'[i].kind, stack'[i].p>> \in Frames(stack)
      BY <2>2 DEF MainStays, Frames
    <3>2. PICK k \in 1..Len(stack) : <<stack'[i].kind, stack'[i].p>> = <<stack[k].kind, stack[k].p>>
      BY <3>1 DEF Frames
    <3> QED BY <2>1, <2>2, <3>2
  <2>3. ASSUME phase' = "drain"
        PROVE  heap'.state[p] = "fulfilled" \/ <<Rx("module_done", p), p>> \in Waiters(heap')
    <3>1. phase = "drain"
      BY <2>3 DEF MainStays
    <3>2. CASE heap.state[p] = "fulfilled"
      BY <3>2 DEF Going, SettledStay, Settled
    <3>3. CASE <<Rx("module_done", p), p>> \in Waiters(heap)
      BY <1>2, <3>3 DEF Rx
    <3> QED BY <2>1, <3>1, <3>2, <3>3
  <2> QED BY <2>1, <2>2, <2>3 DEF MainStays
<1> QED BY <1>3, <1>4 DEF MainInv

\* The frames of the loop of Promise.all, over the frames as a set.
LEMMA NoLoopIs ==
  ASSUME NEW s
  PROVE  NoLoop(s) <=> \A i \in 1..Len(s) : s[i].kind # "all"
<1>1. ASSUME NoLoop(s), NEW i \in 1..Len(s) PROVE s[i].kind # "all"
  <2> DEFINE f == <<s[i].kind, s[i].p>>
  <2>1. f \in Frames(s) /\ f[1] = s[i].kind
    BY DEF Frames
  <2> HIDE DEF f
  <2> QED BY <1>1, <2>1 DEF NoLoop
<1>2. ASSUME \A i \in 1..Len(s) : s[i].kind # "all" PROVE NoLoop(s)
  BY <1>2 DEF NoLoop, Frames
<1> QED BY <1>1, <1>2

\* What AllInv says of one Promise.all.
AllOf(p) ==
  /\ Len(all[p].results) = Len(all[p].input)
  /\ Len(all[p].elems) <= Len(all[p].input)
  /\ ~LoopRuns(p) => Len(all[p].elems) = Len(all[p].input)
  /\ ~heap.resolved[p] =>
       /\ all[p].remaining > 0
       /\ all[p].remaining = Waiting(heap, p, {"all_element"}) + Unsubscribed(p)
  /\ heap.state[p] = "fulfilled" => Waiting(heap, p, {"all_element"}) = 0 /\ ~LoopRuns(p)
  /\ heap.state[p] # "rejected" =>
       \A i \in 1..Len(all[p].elems) :
         \/ Counted(p, i)
         \/ \E w \in Waiters(heap) : Continues(w[1], p, {"all_element"}) /\ w[1].index = i

ElementsNamed ==
  \A w \in Waiters(heap) : w[1].kind = "all_element" =>
    w[1].index \in 1..Len(all[w[1].p].elems) /\ all[w[1].p].elems[w[1].index] = w[2]

LoopOnTop ==
  \A i \in 1..Len(stack) : stack[i].kind = "all" =>
    i = 1 /\ stack[i].index = Len(all[stack[i].p].elems) + 1

\* AllInv, in parts: the waiters, the loop, and each array.
LEMMA AllInvIs == AllInv <=> ElementsNamed /\ LoopOnTop /\ \A p \in Promise : role[p] = "all" => AllOf(p)
BY DEF AllInv, ElementsNamed, LoopOnTop, AllOf

\* Unsubscribed, by whether the loop of p runs.
LEMMA UnsubscribedIs ==
  ASSUME NEW p, stack \in Seq(Frame)
  PROVE  Unsubscribed(p) = IF LoopRuns(p) THEN Len(all[p].input) - Len(all[p].elems) ELSE 0
<1>1. DOMAIN stack = 1..Len(stack)
  OBVIOUS
<1>2. (\E i \in DOMAIN stack : stack[i].kind = "all" /\ stack[i].p = p) <=> LoopRuns(p)
  BY <1>1, Zenon DEF LoopRuns
<1> QED BY <1>2, Zenon DEF Unsubscribed

\* The same, of the next state.
LEMMA UnsubscribedNext ==
  ASSUME NEW p, stack' \in Seq(Frame)
  PROVE  Unsubscribed(p)' = IF LoopRuns(p)' THEN Len(all'[p].input) - Len(all'[p].elems) ELSE 0
<1>1. DOMAIN stack' = 1..Len(stack')
  OBVIOUS
<1>2. (\E i \in DOMAIN stack' : stack'[i].kind = "all" /\ stack'[i].p = p) <=> LoopRuns(p)'
  BY <1>1, Zenon DEF LoopRuns
<1> QED BY <1>2, Zenon DEF Unsubscribed

\* A Promise.all the step does not concern goes on as it was.
LEMMA AllOfKept ==
  ASSUME Going, NEW p \in Promise, role[p] = "all", all'[p] = all[p],
         heap'.state[p] = heap.state[p], heap'.resolved[p] = heap.resolved[p],
         LoopRuns(p)' <=> LoopRuns(p),
         Waiting(heap', p, {"all_element"}) = Waiting(heap, p, {"all_element"}),
         \A w : w[1].kind = "all_element" /\ w[1].p = p => (w \in Waiters(heap') <=> w \in Waiters(heap))
  PROVE  AllOf(p)'
<1>1. AllOf(p)
  BY AllInvIs DEF Going, OwnersInv
<1>2. Unsubscribed(p)' = Unsubscribed(p)
  <2>1. stack \in Seq(Frame) /\ stack' \in Seq(Frame)
    BY DEF Going, Inv, TypeOK
  <2> QED BY <2>1, UnsubscribedIs, UnsubscribedNext
<1>3. all[p].elems \in Seq(Promise)
  BY DEF Going, Inv, TypeOK, AllState
<1>4. ASSUME NEW i \in 1..Len(all[p].elems), heap.state[p] # "rejected"
      PROVE  \/ Counted(p, i)'
             \/ \E w \in Waiters(heap') : Continues(w[1], p, {"all_element"}) /\ w[1].index = i
  <2>1. CASE Counted(p, i)
    <3>1. all[p].elems[i] \in Promise
      BY <1>3
    <3>2. Counted(p, i)'
      BY <2>1, <3>1 DEF Counted, Going, SettledStay, Settled
    <3> QED BY <3>2
  <2>2. CASE \E w \in Waiters(heap) : Continues(w[1], p, {"all_element"}) /\ w[1].index = i
    <3>1. PICK w \in Waiters(heap) : Continues(w[1], p, {"all_element"}) /\ w[1].index = i
      BY <2>2
    <3>2. w \in Waiters(heap')
      BY <3>1 DEF Continues
    <3> QED BY <3>1, <3>2
  <2> QED BY <1>1, <1>4, <2>1, <2>2 DEF AllOf
<1> QED BY <1>1, <1>2, <1>4 DEF AllOf

\* The loops and the counts of Promise.all survive a step that is none of theirs.
LEMMA AllKept ==
  ASSUME Going, NEW P, Touches(P), ElementsStay(heap, heap'), AllStays(P)
  PROVE  AllInv'
<1>1. ElementsNamed /\ LoopOnTop /\ all' = all
  BY AllInvIs DEF Going, OwnersInv, AllStays
<1>2. \A w : w[1].kind = "all_element" => (w \in Waiters(heap') <=> w \in Waiters(heap))
  BY DEF ElementsStay
<1>3. ElementsNamed'
  BY <1>1, <1>2 DEF ElementsNamed
<1>4. LoopOnTop' /\ \A p : LoopRuns(p)' <=> LoopRuns(p)
  <2>1. CASE stack' = stack
    BY <1>1, <2>1 DEF LoopOnTop, LoopRuns
  <2>2. CASE NoLoop(stack) /\ NoLoop(stack')
    <3>1. \A i \in 1..Len(stack) : stack[i].kind # "all"
      BY <2>2, NoLoopIs
    <3>2. \A i \in 1..Len(stack') : stack'[i].kind # "all"
      BY <2>2, NoLoopIs
    <3> QED BY <3>1, <3>2 DEF LoopOnTop, LoopRuns
  <2> QED BY <2>1, <2>2 DEF AllStays
<1>5. ASSUME NEW p \in Promise, role'[p] = "all" PROVE AllOf(p)'
  <2>1. p \notin P
    BY <1>5 DEF AllStays
  <2>2. role[p] = "all" /\ heap'.state[p] = heap.state[p] /\ heap'.resolved[p] = heap.resolved[p]
    BY <1>5, <2>1 DEF Touches, Apart
  <2>3. Waiting(heap', p, {"all_element"}) = Waiting(heap, p, {"all_element"})
    BY DEF ElementsStay
  <2> QED BY <1>1, <1>2, <1>4, <2>2, <2>3, AllOfKept
<1>6. (AllInv <=> ElementsNamed /\ LoopOnTop /\ \A p \in Promise : role[p] = "all" => AllOf(p))'
  BY AllInvIs, PTL
<1> QED BY <1>3, <1>4, <1>5, <1>6

\* An ordinary step keeps the second invariant.
LEMMA OwnersKept ==
  ASSUME Going, NEW P, Basic(P), OthersStay(heap, heap'), MainStays, AllStays(P)
  PROVE  OwnersInv'
BY HiddenKept, CompletionKept, MainKept, AllKept DEF OwnersInv, Basic, OthersStay

-----------------------------------------------------------------------------
(* What the invariants say of a fresh promise, of the running frame and of *)
(* the job about to run.                                                   *)

\* The same continuations wait.
LEMMA OthersSame ==
  ASSUME NEW h, NEW g, Same(h, g) PROVE OthersStay(h, g)
BY DEF Same, OthersStay, ElementsStay, ObserverStays

\* A continuation that comes or goes is none of the others.
LEMMA ElementsGain ==
  ASSUME NEW h \in Heap, NEW g \in Heap, NEW r, NEW q, Gains(h, g, r, q), r.kind # "all_element"
  PROVE  ElementsStay(h, g) /\ ElementsStay(g, h)
<1>1. ASSUME NEW w, w[1].kind = "all_element" PROVE w \in Waiters(g) <=> w \in Waiters(h)
  BY <1>1 DEF Gains
<1>2. ASSUME NEW p PROVE Waiting(g, p, {"all_element"}) = Waiting(h, p, {"all_element"})
  <2>1. ~Continues(r, p, {"all_element"})
    BY DEF Continues
  <2> QED BY <2>1, WaitingType DEF Gains
<1> QED BY <1>1, <1>2 DEF ElementsStay

\* A continuation of another kind disturbs neither the elements nor main's
\* listener.
LEMMA OthersGain ==
  ASSUME NEW h \in Heap, NEW g \in Heap, NEW r, NEW q, Gains(h, g, r, q), r.kind \notin OtherKinds
  PROVE  OthersStay(h, g) /\ OthersStay(g, h)
<1>1. ASSUME NEW w, w[1].kind = "module_done" PROVE w \in Waiters(g) <=> w \in Waiters(h)
  BY <1>1 DEF Gains, OtherKinds
<1>2. ElementsStay(h, g) /\ ElementsStay(g, h)
  BY ElementsGain DEF OtherKinds
<1> QED BY <1>1, <1>2 DEF OthersStay, ObserverStays

\* Two such changes make one.
LEMMA OthersOn ==
  ASSUME NEW h, NEW g, NEW f, OthersStay(h, g), OthersStay(g, f) PROVE OthersStay(h, f)
<1>1. ElementsStay(h, f)
  <2>1. \A p : Waiting(f, p, {"all_element"}) = Waiting(h, p, {"all_element"})
    BY DEF OthersStay, ElementsStay
  <2>2. \A w : w[1].kind = "all_element" => (w \in Waiters(f) <=> w \in Waiters(h))
    BY DEF OthersStay, ElementsStay
  <2> QED BY <2>1, <2>2 DEF ElementsStay
<1>2. \A w : w[1].kind = "module_done" => (w \in Waiters(f) <=> w \in Waiters(h))
  BY DEF OthersStay, ObserverStays
<1> QED BY <1>1, <1>2 DEF OthersStay, ObserverStays

\* One more continuation, in the counts of those that will settle p.
LEMMA CodeGain ==
  ASSUME NEW h, NEW g, NEW r, NEW q, Gains(h, g, r, q), NEW p
  PROVE  Waiting(g, p, CodeKinds) =
           Waiting(h, p, CodeKinds) + IF r.p = p /\ r.kind \in CodeKinds THEN 1 ELSE 0
<1>1. Waiting(g, p, CodeKinds) =
        Waiting(h, p, CodeKinds) + IF Continues(r, p, CodeKinds) THEN 1 ELSE 0
  BY DEF Gains
<1> QED BY <1>1, Zenon DEF Continues

\* The completers of p are finitely many.
LEMMA WillType ==
  ASSUME Inv, NEW p
  PROVE  /\ Runs(stack, p) \in Nat /\ Waiting(heap, p, CodeKinds) \in Nat
         /\ Will(stack, heap, p) = Runs(stack, p) + Waiting(heap, p, CodeKinds)
BY RunsType, WaitingType DEF Inv, TypeOK, Will

\* One completer for every promise that is owed one.
LEMMA WillIs ==
  ASSUME Inv, OwnersInv, NEW p \in Promise
  PROVE  Will(stack, heap, p) = IF Owes(heap, role, p) THEN 1 ELSE 0
BY CodeExactIs DEF OwnersInv, CompletionInv

\* Nothing runs and nothing waits for a promise that has not been allocated.
LEMMA Fresh ==
  ASSUME Inv, OwnersInv, NEW q \in Free(heap)
  PROVE  /\ q \in Promise /\ q \notin Allocated(heap) /\ role[q] = "none"
         /\ ~heap.resolved[q] /\ heap.reactions[q] = <<>>
         /\ Runs(stack, q) = 0 /\ Waiting(heap, q, CodeKinds) = 0
<1>1. q \in Promise /\ q \notin Allocated(heap) /\ heap.state[q] = "free"
  BY DEF Free, Allocated
<1>2. role[q] = "none" /\ ~heap.resolved[q] /\ heap.reactions[q] = <<>>
  BY <1>1 DEF Inv, NamesInv, HeapInv, FreeIsBlank
<1>3. Will(stack, heap, q) = 0
  BY <1>1, WillIs DEF Owes
<1> QED BY <1>1, <1>2, <1>3, WillType

\* A piece of code that runs is the one completer of its promise.
LEMMA TopOwes ==
  ASSUME Inv, OwnersInv, stack # <<>>, Top.kind # "script"
  PROVE  /\ RoleFits(Top.kind, role[Top.p]) /\ Top.p \in Promise /\ Top.p \in Allocated(heap)
         /\ Top.kind \in {"async", "then", "finally"} =>
              /\ heap.state[Top.p] = "pending" /\ ~heap.resolved[Top.p]
              /\ Runs(stack, Top.p) = 1 /\ Waiting(heap, Top.p, CodeKinds) = 0
         /\ Top.kind \in {"executor", "all"} =>
              Runs(stack, Top.p) = 0 /\ Waiting(heap, Top.p, CodeKinds) = 0
<1>1. Top = stack[1] /\ 1 \in 1..Len(stack) /\ Top.p \in Allocated(heap) /\ Top.p \in Promise
  BY TopFrame DEF Allocated
<1>2. RoleFits(Top.kind, role[Top.p])
  BY <1>1 DEF OwnersInv, CompletionInv, RolesFit
<1>3. Will(stack, heap, Top.p) = IF Owes(heap, role, Top.p) THEN 1 ELSE 0
  BY <1>1, WillIs
<1>4. ASSUME Top.kind \in {"async", "then", "finally"}
      PROVE  /\ heap.state[Top.p] = "pending" /\ ~heap.resolved[Top.p]
             /\ Runs(stack, Top.p) = 1 /\ Waiting(heap, Top.p, CodeKinds) = 0
  <2>1. Runs(stack, Top.p) > 0
    BY <1>1, <1>4, RunsType DEF Codes, Inv, TypeOK
  <2> DEFINE a == Runs(stack, Top.p)
             b == Waiting(heap, Top.p, CodeKinds)
  <2>2. a > 0 /\ a \in Nat /\ b \in Nat /\ a + b = IF Owes(heap, role, Top.p) THEN 1 ELSE 0
    BY <1>3, <2>1, WillType
  <2> HIDE DEF a, b
  <2>3. Owes(heap, role, Top.p) /\ a = 1 /\ b = 0
    BY <2>2
  <2> QED BY <2>3 DEF Owes, a, b
<1>5. ASSUME Top.kind \in {"executor", "all"}
      PROVE  Runs(stack, Top.p) = 0 /\ Waiting(heap, Top.p, CodeKinds) = 0
  <2>1. ~Owes(heap, role, Top.p)
    BY <1>2, <1>5 DEF RoleFits, Owes
  <2> QED BY <1>3, <2>1, WillType
<1> QED BY <1>1, <1>2, <1>4, <1>5

\* User code that runs, and no loop of Promise.all under it.
LEMMA LoopFree ==
  ASSUME Inv, OwnersInv, stack # <<>>, Top.kind # "all"
  PROVE  NoLoop(stack)
<1>1. Top = stack[1]
  BY TopFrame
<1>2. \A i \in 1..Len(stack) : stack[i].kind # "all"
  BY <1>1, AllInvIs DEF OwnersInv, LoopOnTop
<1> QED BY <1>2, NoLoopIs

\* A frame that leaves the stack.
LEMMA Leave ==
  ASSUME Inv, OwnersInv, stack # <<>>, stack' = Tail(stack)
  PROVE  /\ Frames(stack') \subseteq Frames(stack)
         /\ \A p : /\ Runs(stack, p) = Runs(stack', p) + IF Codes(Top, p) THEN 1 ELSE 0
                   /\ Runs(stack', p) \in Nat
         /\ Top.kind # "all" => NoLoop(stack) /\ NoLoop(stack')
         /\ phase \in {"script", "drain"}
<1>1. stack \in Seq(Frame) /\ Top = stack[1] /\ phase \in {"script", "drain"}
  BY TopFrame DEF Inv, TypeOK
<1>2. stack' \in Seq(Frame) /\ Under(stack, stack')
  BY <1>1, TailUnder
<1>3. /\ Frames(stack) = Frames(stack') \cup {<<Top.kind, Top.p>>}
      /\ \A p : Runs(stack, p) = Runs(stack', p) + IF Codes(Top, p) THEN 1 ELSE 0
  BY <1>1, <1>2, OnTop
<1>4. \A p : Runs(stack', p) \in Nat
  BY <1>2, RunsType
<1>5. Top.kind # "all" => NoLoop(stack) /\ NoLoop(stack')
  BY <1>3, LoopFree DEF NoLoop
<1> QED BY <1>1, <1>3, <1>4, <1>5

\* A frame that enters it.
LEMMA Enter ==
  ASSUME Inv, OwnersInv, stack # <<>>, Top.kind # "all", NEW f \in Frame, stack' = <<f>> \o stack
  PROVE  /\ Frames(stack') = Frames(stack) \cup {<<f.kind, f.p>>}
         /\ \A p : Runs(stack', p) = Runs(stack, p) + IF Codes(f, p) THEN 1 ELSE 0
         /\ NoLoop(stack) /\ (f.kind # "all" => NoLoop(stack'))
         /\ stack' \in Seq(Frame) /\ stack'[1] = f /\ Under(stack', stack)
         /\ phase \in {"script", "drain"}
<1>1. stack \in Seq(Frame) /\ phase \in {"script", "drain"}
  BY TopFrame DEF Inv, TypeOK
<1>2. stack' \in Seq(Frame) /\ stack'[1] = f /\ Under(stack', stack)
  BY <1>1, PushUnder
<1>3. /\ Frames(stack') = Frames(stack) \cup {<<f.kind, f.p>>}
      /\ \A p : Runs(stack', p) = Runs(stack, p) + IF Codes(f, p) THEN 1 ELSE 0
  BY <1>1, <1>2, OnTop
<1>4. NoLoop(stack) /\ (f.kind # "all" => NoLoop(stack'))
  BY <1>3, LoopFree DEF NoLoop
<1> QED BY <1>1, <1>2, <1>3, <1>4

\* The job about to run waits for its source, and its kind fits its promise.
LEMMA JobFits ==
  ASSUME Inv, OwnersInv, Draining, heap.queue # <<>>
  PROVE  /\ Pops(heap, Popped) /\ Next1 = Head(heap.queue)
         /\ <<Next1.job, Next1.src>> \in Waiters(heap)
         /\ RoleFits(Next1.job.kind, role[Next1.job.p])
         /\ Next1.job \in Reaction /\ Next1.job.p \in Promise /\ Next1.job.p \in Allocated(heap)
         /\ Next1.job.kind \in CodeKinds =>
              /\ heap.state[Next1.job.p] = "pending" /\ ~heap.resolved[Next1.job.p]
              /\ Runs(stack, Next1.job.p) = 0 /\ Waiting(Popped, Next1.job.p, CodeKinds) = 0
<1>1. heap \in Heap
  BY DEF Inv, TypeOK
<1>2. Pops(heap, Popped) /\ Next1 = Head(heap.queue)
  BY <1>1, PopEffect DEF Popped, Next1
<1> DEFINE j == Next1.job
           g == Popped
<1>3. /\ g \in Heap /\ Gains(g, heap, j, Next1.src)
      /\ <<j, Next1.src>> \in Waiters(heap)
  BY <1>2 DEF Pops, Gains
<1>4. j \in Reaction /\ j.p \in Promise /\ j.p \in Allocated(heap)
  BY <1>3, WaiterTarget
<1>5. RoleFits(j.kind, role[j.p])
  BY <1>3, RolesFitIs
<1>6. ASSUME j.kind \in CodeKinds
      PROVE  /\ heap.state[j.p] = "pending" /\ ~heap.resolved[j.p]
             /\ Runs(stack, j.p) = 0 /\ Waiting(g, j.p, CodeKinds) = 0
  <2> HIDE DEF j, g
  <2>1. Waiting(heap, j.p, CodeKinds) = Waiting(g, j.p, CodeKinds) + 1
    BY <1>3, <1>6, CodeGain
  <2>2. Will(stack, heap, j.p) = IF Owes(heap, role, j.p) THEN 1 ELSE 0
    BY <1>4, WillIs
  <2>3. Waiting(g, j.p, CodeKinds) \in Nat
    BY <1>3, WaitingType
  <2> DEFINE a == Runs(stack, j.p)
             b == Waiting(g, j.p, CodeKinds)
             c == Waiting(heap, j.p, CodeKinds)
  <2>4. a \in Nat /\ b \in Nat /\ c = b + 1 /\ a + c = IF Owes(heap, role, j.p) THEN 1 ELSE 0
    BY <2>1, <2>2, <2>3, WillType
  <2> HIDE DEF a, b, c
  <2>5. Owes(heap, role, j.p) /\ a = 0 /\ b = 0
    BY <2>4
  <2> QED BY <2>5 DEF Owes, a, b
<1> HIDE DEF j, g
<1> QED BY <1>2, <1>3, <1>4, <1>5, <1>6 DEF j, g

-----------------------------------------------------------------------------
(* The calls of user code.                                                 *)

\* The intermediate promises stay heard first when the queue grows.
LEMMA InnerStays ==
  ASSUME Going, Grows(heap, heap'), NEW p \in Promise, role[p] = "inner"
  PROVE  HeardFirst(heap', p)
<1>1. heap \in Heap /\ heap' \in Heap
  BY DEF Going, Inv, TypeOK
<1>2. HeardFirst(heap, p)
  BY DEF Going, OwnersInv, HiddenInv
<1> QED BY <1>1, <1>2, HeardGrows

\* A step that only adds to the queue and gives no hidden role touches its promises
\* as it should.
LEMMA TouchesOpen ==
  ASSUME Going, Grows(heap, heap'), NEW P, P \subseteq Promise, Apart(heap, heap', P),
         \A p \in Promise : role'[p] # role[p] =>
           p \in P /\ p \in Free(heap) /\ role'[p] \notin {"main", "inner"},
         \A p \in P : role'[p] # "inner" /\ (role'[p] = "wrapper" => heap'.state[p] = "fulfilled")
  PROVE  Touches(P)
<1>1. \A p \in Promise : heap.observed[p] => heap'.observed[p]
  BY DEF Grows
<1>2. ASSUME NEW p \in Promise, role'[p] = "inner" PROVE HeardFirst(heap', p)
  <2>1. role[p] = "inner"
    BY <1>2
  <2> QED BY <2>1, InnerStays
<1> QED BY <1>1, <1>2 DEF Touches

\* A call that leaves the stack alone and touches one promise.
LEMMA CallStays ==
  ASSUME Going, stack # <<>>, stack' = stack, phase' = phase, all' = all,
         Grows(heap, heap'), NEW p \in Promise, Apart(heap, heap', {p}),
         AdoptExact(heap'), OthersStay(heap, heap'),
         \A x \in Promise : role'[x] # role[x] => x = p /\ p \in Free(heap),
         role'[p] \in {"value", "derived", "constructed"},
         \A w \in Waiters(heap') : w \in Waiters(heap) \/ RoleFits(w[1].kind, role'[w[1].p]),
         \A x \in Promise : Waiting(heap', x, CodeKinds) =
           Waiting(heap, x, CodeKinds) + IF x = p /\ role'[p] = "derived" THEN 1 ELSE 0,
         Will(stack, heap, p) = 0,
         Owes(heap', role', p) <=> role'[p] = "derived"
  PROVE  OwnersInv'
<1>1. Touches({p})
  BY TouchesOpen
<1>2. \A x : Runs(stack, x) \in Nat /\ Waiting(heap, x, CodeKinds) \in Nat
  BY WillType DEF Going
<1>3. \A x \in Promise \ {p} : Will(stack', heap', x) = Will(stack, heap, x)
  BY <1>2 DEF Will
<1>4. Will(stack', heap', p) = IF Owes(heap', role', p) THEN 1 ELSE 0
  BY <1>2 DEF Will
<1>5. Completes({p})
  BY <1>3, <1>4 DEF Completes
<1>6. MainStays
  <2>1. phase \in {"script", "drain"}
    BY TopFrame DEF Going
  <2> QED BY <2>1 DEF MainStays
<1>7. AllStays({p})
  BY DEF AllStays
<1> QED BY <1>1, <1>5, <1>6, <1>7, OwnersKept DEF Basic

\* Promise.resolve of a value, and Promise.reject.
LEMMA CallSettledOwners ==
  ASSUME Going, stack # <<>>, stack' = stack, phase' = phase, all' = all, NEW q \in Free(heap),
         role' = [role EXCEPT ![q] = "value"],
         Same(heap, heap'), Grows(heap, heap'), Apart(heap, heap', {q}), heap'.resolved[q],
         AdoptExact(heap')
  PROVE  OwnersInv'
<1>1. /\ Inv /\ OwnersInv /\ q \in Promise
      /\ Runs(stack, q) = 0 /\ Waiting(heap, q, CodeKinds) = 0
  BY Fresh DEF Going
<1>2. role'[q] = "value" /\ \A x \in Promise : role'[x] # role[x] => x = q
  BY <1>1 DEF Inv, TypeOK
<1>3. \A x \in Promise : Waiting(heap', x, CodeKinds) = Waiting(heap, x, CodeKinds)
  BY DEF Same
<1>4. \A w \in Waiters(heap') : w \in Waiters(heap)
  BY DEF Same
<1>5. OthersStay(heap, heap')
  BY OthersSame
<1>6. \A x : Waiting(heap, x, CodeKinds) \in Nat
  BY <1>1, WillType
<1> QED BY <1>1, <1>2, <1>3, <1>4, <1>5, <1>6, CallStays DEF Owes, Will

\* Promise.resolve of a value that is no promise: nothing waits for the result.
LEMMA CallResolveOwners ==
  ASSUME Going, NEW v \in UserValue, NEW q \in Promise, CallResolve(v, q)
  PROVE  OwnersInv'
<1>1. /\ stack # <<>> /\ v \in Plain /\ q \in Free(heap) /\ heap' = PromiseResolve(heap, v, q)
      /\ role' = [role EXCEPT ![q] = "value"] /\ UNCHANGED <<stack, phase, all>>
  BY DEF CallResolve, Calls, UserRuns
<1>2. heap \in Heap /\ HeapInv(heap) /\ v \in Value /\ v \notin Promise /\ AdoptExact(heap)
  BY <1>1, UserValues, PromiseAssumption DEF Going, Inv, TypeOK, OwnersInv, CompletionInv
<1>3. Resolves(heap, heap', v, q)
  BY <1>1, <1>2, ResolveEffect
<1>4. AdoptExact(heap')
  BY <1>1, <1>2, <1>3, ResolveExact
<1>5. /\ Same(heap, heap') /\ Grows(heap, heap') /\ Apart(heap, heap', {q}) /\ heap'.resolved[q]
  BY <1>2, <1>3 DEF Resolves
<1> QED BY <1>1, <1>4, <1>5, CallSettledOwners

\* Promise.reject: likewise.
LEMMA CallRejectOwners ==
  ASSUME Going, NEW v \in UserValue, NEW q \in Promise, CallReject(v, q)
  PROVE  OwnersInv'
<1>1. /\ stack # <<>> /\ q \in Free(heap) /\ heap' = PromiseReject(heap, v, q)
      /\ role' = [role EXCEPT ![q] = "value"] /\ UNCHANGED <<stack, phase, all>>
  BY DEF CallReject, Calls, UserRuns
<1>2. heap \in Heap /\ HeapInv(heap) /\ v \in Value /\ AdoptExact(heap)
  BY <1>1, UserValues DEF Going, Inv, TypeOK, OwnersInv, CompletionInv
<1>3. Rejects(heap, heap', q)
  BY <1>1, <1>2, RejectEffect
<1>4. AdoptExact(heap')
  BY <1>1, <1>2, <1>3, RejectExact
<1>5. /\ Same(heap, heap') /\ Grows(heap, heap') /\ Apart(heap, heap', {q}) /\ heap'.resolved[q]
  BY <1>3 DEF Rejects
<1> QED BY <1>1, <1>4, <1>5, CallSettledOwners

\* then and finally: the derived promise has the reaction for its completer.
LEMMA DerivedOwners ==
  ASSUME Going, stack # <<>>, stack' = stack, phase' = phase, all' = all,
         NEW p \in Promise, NEW d \in Free(heap), NEW r \in Reaction, r.p = d,
         r.kind \in {"then_react", "finally_react"}, role' = [role EXCEPT ![d] = "derived"],
         heap' = Subscribe(PromiseNew(heap, d), p, r)
  PROVE  OwnersInv'
<1>1. /\ Inv /\ OwnersInv /\ d \in Promise /\ HeapInv(heap) /\ heap \in Heap /\ AdoptExact(heap)
      /\ Runs(stack, d) = 0 /\ Waiting(heap, d, CodeKinds) = 0
  BY Fresh DEF Going, Inv, TypeOK, OwnersInv, CompletionInv
<1>2. r.kind \notin AdopterKinds /\ r.kind \in CodeKinds /\ r.kind \notin OtherKinds
  BY DEF AdopterKinds, CodeKinds, OtherKinds
<1>3. Derives(heap, heap', p, d, r)
  BY <1>1, <1>2, DeriveEffect
<1>4. /\ heap' \in Heap /\ Gains(heap, heap', r, p) /\ Grows(heap, heap') /\ Apart(heap, heap', {d})
      /\ heap'.state[d] = "pending" /\ ~heap'.resolved[d] /\ AdoptExact(heap')
  BY <1>1, <1>3 DEF Derives
<1>5. role'[d] = "derived" /\ \A x \in Promise : role'[x] # role[x] => x = d
  BY <1>1 DEF Inv, TypeOK
<1>6. OthersStay(heap, heap')
  BY <1>1, <1>2, <1>4, OthersGain
<1>7. \A x \in Promise : Waiting(heap', x, CodeKinds) =
        Waiting(heap, x, CodeKinds) + IF x = d /\ role'[d] = "derived" THEN 1 ELSE 0
  <2> SUFFICES ASSUME NEW x \in Promise
               PROVE  Waiting(heap', x, CodeKinds) =
                        Waiting(heap, x, CodeKinds) + IF x = d THEN 1 ELSE 0
    BY <1>5
  <2>1. Waiting(heap', x, CodeKinds) =
          Waiting(heap, x, CodeKinds) + IF r.p = x /\ r.kind \in CodeKinds THEN 1 ELSE 0
    BY <1>4, CodeGain
  <2> QED BY <1>2, <2>1
<1>8. ASSUME NEW w \in Waiters(heap')
      PROVE  w \in Waiters(heap) \/ RoleFits(w[1].kind, role'[w[1].p])
  <2>1. w \in Waiters(heap) \/ w = <<r, p>>
    BY <1>4 DEF Gains
  <2>2. RoleFits(r.kind, role'[r.p])
    BY <1>5 DEF RoleFits, AdopterKinds
  <2> QED BY <2>1, <2>2
<1>9. Owes(heap', role', d)
  BY <1>4, <1>5 DEF Owes
<1>10. Will(stack, heap, d) = 0
  BY <1>1 DEF Will
<1> QED BY <1>1, <1>4, <1>5, <1>6, <1>7, <1>8, <1>9, <1>10, CallStays

\* then: the derived promise is owed to the reaction it registers.
LEMMA CallThenOwners ==
  ASSUME Going, NEW p \in Promise, NEW d \in Promise,
         NEW handlers \in SUBSET {"fulfilled", "rejected"}, CallThen(p, handlers, d)
  PROVE  OwnersInv'
<1> DEFINE r == [Rx("then_react", d) EXCEPT !.handlers = handlers]
<1>1. r \in Reaction /\ r.p = d /\ r.kind = "then_react"
  BY DEF Rx, Reaction, Kind, Value
<1>2. /\ stack # <<>> /\ d \in Free(heap) /\ heap' = Subscribe(PromiseNew(heap, d), p, r)
      /\ role' = [role EXCEPT ![d] = "derived"] /\ UNCHANGED <<stack, phase, all>>
  BY DEF CallThen, Calls, UserRuns
<1> HIDE DEF r
<1> QED BY <1>1, <1>2, DerivedOwners

\* finally: likewise.
LEMMA CallFinallyOwners ==
  ASSUME Going, NEW p \in Promise, NEW d \in Promise,
         NEW handlers \in SUBSET {"fulfilled", "rejected"}, CallFinally(p, handlers, d)
  PROVE  OwnersInv'
<1> DEFINE r == [Rx("finally_react", d) EXCEPT !.handlers = handlers]
<1>1. r \in Reaction /\ r.p = d /\ r.kind = "finally_react"
  BY DEF Rx, Reaction, Kind, Value
<1>2. /\ stack # <<>> /\ d \in Free(heap) /\ heap' = Subscribe(PromiseNew(heap, d), p, r)
      /\ role' = [role EXCEPT ![d] = "derived"] /\ UNCHANGED <<stack, phase, all>>
  BY DEF CallFinally, Calls, UserRuns
<1> HIDE DEF r
<1> QED BY <1>1, <1>2, DerivedOwners

\* g is h after a step that adds no code to what waits, and no continuation but an
\* adoption of p.
Adoption(h, g, p) ==
  /\ \A x : Waiting(g, x, CodeKinds) = Waiting(h, x, CodeKinds)
  /\ OthersStay(h, g) /\ OthersStay(g, h)
  /\ \A w \in Waiters(g) : w \in Waiters(h) \/ (w[1].kind = "adopt_subscribe" /\ w[1].p = p)
  /\ g \in Heap /\ Grows(h, g) /\ Apart(h, g, {p}) /\ g.resolved[p]

\* A resolving function is such a step.
LEMMA SettlesWaits ==
  ASSUME NEW h \in Heap, NEW g, NEW p \in Promise, NEW v \in Value, NEW rej \in BOOLEAN,
         Settles(h, g, p, v, rej)
  PROVE  Adoption(h, g, p)
<1> DEFINE r == Rx("adopt_subscribe", p)
<1>1. g \in Heap /\ Grows(h, g) /\ Apart(h, g, {p}) /\ g.resolved[p]
  BY DEF Settles
<1>2. r.kind = "adopt_subscribe" /\ r.p = p
  BY DEF Rx
<1>3. g = h \/ Same(h, g) \/ Gains(h, g, r, NoPromise)
  BY DEF Settles
<1> HIDE DEF r
<1>4. CASE g = h
  BY <1>1, <1>4 DEF OthersStay, ElementsStay, ObserverStays, Adoption
<1>5. CASE Same(h, g)
  <2>1. Same(g, h)
    BY <1>5 DEF Same
  <2>2. OthersStay(h, g) /\ OthersStay(g, h)
    BY <1>5, <2>1, OthersSame
  <2>3. \A x : Waiting(g, x, CodeKinds) = Waiting(h, x, CodeKinds)
    BY <1>5 DEF Same
  <2>4. \A w \in Waiters(g) : w \in Waiters(h)
    BY <1>5 DEF Same
  <2> QED BY <1>1, <2>2, <2>3, <2>4 DEF Adoption
<1>6. CASE Gains(h, g, r, NoPromise)
  <2>1. OthersStay(h, g) /\ OthersStay(g, h)
    BY <1>1, <1>2, <1>6, OthersGain DEF OtherKinds
  <2>2. ASSUME NEW x PROVE Waiting(g, x, CodeKinds) = Waiting(h, x, CodeKinds)
    <3>1. r.kind \notin CodeKinds
      BY <1>2 DEF CodeKinds
    <3>2. Waiting(g, x, CodeKinds) =
            Waiting(h, x, CodeKinds) + IF r.p = x /\ r.kind \in CodeKinds THEN 1 ELSE 0
      BY <1>6, CodeGain
    <3> QED BY <3>1, <3>2, WaitingType
  <2>3. \A w \in Waiters(g) : w \in Waiters(h) \/ w = <<r, NoPromise>>
    BY <1>6 DEF Gains
  <2>4. \A w \in Waiters(g) :
          w \in Waiters(h) \/ (w[1].kind = "adopt_subscribe" /\ w[1].p = p)
    BY <1>2, <1>6, <2>3
  <2> QED BY <1>1, <2>1, <2>2, <2>4 DEF Adoption
<1> QED BY <1>3, <1>4, <1>5, <1>6

\* Settled with a value that is no promise, p begins no adoption.
LEMMA SettlesFlat ==
  ASSUME NEW h \in Heap, NEW g, NEW p \in Promise, NEW v \in Value, NEW rej \in BOOLEAN,
         Settles(h, g, p, v, rej), rej \/ v \notin Promise
  PROVE  Same(h, g)
<1>1. CASE h.resolved[p]
  BY <1>1 DEF Settles, Same
<1>2. CASE ~h.resolved[p]
  BY <1>2 DEF Settles
<1> QED BY <1>1, <1>2

\* The resolving functions of a constructed promise, called by anyone.
LEMMA CallResolverOwners ==
  ASSUME Going, NEW p \in Promise, NEW v \in UserValue, NEW rej \in BOOLEAN, CallResolver(p, v, rej)
  PROVE  OwnersInv'
<1>1. /\ stack # <<>> /\ role[p] = "constructed" /\ heap' = PromiseSettle(heap, p, v, rej)
      /\ UNCHANGED <<stack, phase, role, all>>
  BY DEF CallResolver, UserRuns
<1>2. /\ Inv /\ OwnersInv /\ HeapInv(heap) /\ heap \in Heap /\ p \in Allocated(heap) /\ v \in Value
      /\ AdoptExact(heap)
  BY <1>1, UserValues DEF Going, Inv, TypeOK, NamesInv, OwnersInv, CompletionInv
<1>3. Settles(heap, heap', p, v, rej)
  BY <1>1, <1>2, SettleEffect
<1>4. AdoptExact(heap')
  BY <1>2, <1>3, SettleExact
<1>5. /\ \A x : Waiting(heap', x, CodeKinds) = Waiting(heap, x, CodeKinds)
      /\ OthersStay(heap, heap')
      /\ \A w \in Waiters(heap') : w \in Waiters(heap) \/ (w[1].kind = "adopt_subscribe" /\ w[1].p = p)
      /\ Grows(heap, heap') /\ Apart(heap, heap', {p})
  <2>1. Adoption(heap, heap', p)
    BY <1>2, <1>3, SettlesWaits
  <2> QED BY <2>1 DEF Adoption
<1>6. RoleFits("adopt_subscribe", role[p])
  BY <1>1 DEF RoleFits, AdopterKinds
<1>7. Will(stack, heap, p) = 0 /\ ~Owes(heap', role', p)
  BY <1>1, <1>2, WillIs DEF Owes
<1>8. \A x : Waiting(heap, x, CodeKinds) \in Nat
  BY <1>2, WillType
<1>9. \A w \in Waiters(heap') : w \in Waiters(heap) \/ RoleFits(w[1].kind, role'[w[1].p])
  BY <1>1, <1>5, <1>6
<1>10. \A x \in Promise : Waiting(heap', x, CodeKinds) =
         Waiting(heap, x, CodeKinds) + IF x = p /\ role'[p] = "derived" THEN 1 ELSE 0
  BY <1>1, <1>5, <1>8
<1> QED BY <1>1, <1>4, <1>5, <1>7, <1>9, <1>10, CallStays

\* A call that runs user code on a fresh promise: its frame is the completer.
LEMMA CallFrameOwners ==
  ASSUME Going, NEW p \in Free(heap), stack # <<>>, Top.kind # "all", NEW kind, NEW x,
         (kind = "async" /\ x = "body") \/ (kind = "executor" /\ x = "constructed"),
         heap' = PromiseNew(heap, p), stack' = <<Run(kind, p)>> \o stack,
         role' = [role EXCEPT ![p] = x], phase' = phase, all' = all
  PROVE  OwnersInv'
<1>1. /\ Inv /\ OwnersInv /\ p \in Promise /\ HeapInv(heap) /\ heap \in Heap /\ AdoptExact(heap)
      /\ Runs(stack, p) = 0 /\ Waiting(heap, p, CodeKinds) = 0 /\ ~heap.resolved[p]
  BY Fresh DEF Going, Inv, TypeOK, OwnersInv, CompletionInv
<1>2. Allocates(heap, heap', p)
  BY <1>1, NewEffect
<1>3. /\ Same(heap, heap') /\ Grows(heap, heap') /\ Apart(heap, heap', {p})
      /\ heap'.state[p] = "pending" /\ ~heap'.resolved[p]
  BY <1>1, <1>2 DEF Allocates
<1>4. AdoptExact(heap')
  BY <1>1, <1>2, NewExact
<1>5. role'[p] = x /\ \A y \in Promise : role'[y] # role[y] => y = p
  BY <1>1 DEF Inv, TypeOK
<1> DEFINE f == Run(kind, p)
<1>6. f \in Frame /\ f.kind = kind /\ f.p = p /\ kind # "all" /\ kind # "script"
  BY <1>1, RunType DEF FrameKind
<1> HIDE DEF f
<1>7. /\ Frames(stack') = Frames(stack) \cup {<<kind, p>>}
      /\ \A y : Runs(stack', y) = Runs(stack, y) + IF Codes(f, y) THEN 1 ELSE 0
      /\ NoLoop(stack) /\ NoLoop(stack') /\ phase \in {"script", "drain"}
  <2>1. stack' = <<f>> \o stack
    BY DEF f
  <2> QED BY <1>1, <1>6, <2>1, Enter
<1>8. Touches({p})
  BY <1>1, <1>3, <1>5, TouchesOpen
<1>9. \A y : /\ Waiting(heap', y, CodeKinds) = Waiting(heap, y, CodeKinds)
             /\ Waiting(heap, y, CodeKinds) \in Nat /\ Runs(stack, y) \in Nat
  BY <1>1, <1>3, WillType DEF Same
<1>10. Completes({p})
  <2>1. \A w \in Waiters(heap') : w \in Waiters(heap)
    BY <1>3 DEF Same
  <2>2. RoleFits(kind, role'[p])
    BY <1>5 DEF RoleFits, AdopterKinds
  <2>3. \A y \in Frames(stack') : y \in Frames(stack) \/ (y[1] # "script" /\ RoleFits(y[1], role'[y[2]]))
    BY <1>6, <1>7, <2>2
  <2>4. \A y \in Promise \ {p} : Will(stack', heap', y) = Will(stack, heap, y)
    BY <1>6, <1>7, <1>9 DEF Will, Codes
  <2>5. Will(stack', heap', p) = IF kind = "async" THEN 1 ELSE 0
    BY <1>1, <1>6, <1>7, <1>9 DEF Will, Codes
  <2>6. Owes(heap', role', p) <=> kind = "async"
    BY <1>3, <1>5 DEF Owes
  <2> QED BY <1>4, <2>1, <2>3, <2>4, <2>5, <2>6 DEF Completes
<1>11. OthersStay(heap, heap')
  BY <1>3, OthersSame
<1>12. MainStays
  BY <1>6, <1>7 DEF MainStays
<1>13. AllStays({p})
  BY <1>5, <1>7 DEF AllStays
<1> QED BY <1>8, <1>10, <1>11, <1>12, <1>13, OwnersKept DEF Basic

\* new Promise: the executor's frame completes nothing by returning.
LEMMA CallConstructOwners ==
  ASSUME Going, NEW p \in Promise, CallConstruct(p) PROVE OwnersInv'
BY CallFrameOwners DEF CallConstruct, Calls, UserRuns

\* An async call: the promise it makes is owed to the frame it pushes.
LEMMA CallAsyncOwners ==
  ASSUME Going, NEW p \in Promise, CallAsync(p) PROVE OwnersInv'
BY CallFrameOwners DEF CallAsync, Calls, UserRuns

-----------------------------------------------------------------------------
(* How user code leaves the stack.                                         *)

\* The frame that leaves hands its promise on, to nothing, or to a continuation.
LEMMA LeaveStays ==
  ASSUME Going, stack # <<>>, Top.kind # "all", stack' = Tail(stack), all' = all,
         phase' = phase \/ phase' = "uncaught",
         NEW P, \A p \in P : role'[p] # "all"
  PROVE  MainStays /\ AllStays(P)
<1>1. /\ Frames(stack') \subseteq Frames(stack) /\ NoLoop(stack) /\ NoLoop(stack')
      /\ phase \in {"script", "drain"}
  BY Leave DEF Going
<1> QED BY <1>1 DEF MainStays, AllStays

\* A frame that ends by settling its promise was the one completer of it.
LEMMA SettleTopOwners ==
  ASSUME Going, NEW v \in UserValue, NEW rej \in BOOLEAN, stack # <<>>,
         Top.kind \in {"async", "then", "finally", "executor"},
         heap' = PromiseSettle(heap, Top.p, v, rej), stack' = Tail(stack),
         UNCHANGED <<phase, role, all>>
  PROVE  OwnersInv'
<1> DEFINE p == Top.p
           f == Top
<1>1. /\ Inv /\ OwnersInv /\ HeapInv(heap) /\ heap \in Heap /\ v \in Value /\ AdoptExact(heap)
  BY UserValues DEF Going, Inv, TypeOK, OwnersInv, CompletionInv
<1>2. /\ RoleFits(f.kind, role[p]) /\ p \in Promise /\ p \in Allocated(heap)
      /\ f.kind \in {"async", "then", "finally"} => Runs(stack, p) = 1
      /\ f.kind = "executor" => Runs(stack, p) = 0
      /\ Waiting(heap, p, CodeKinds) = 0
  BY <1>1, TopOwes
<1>3. f.p = p /\ heap' = PromiseSettle(heap, p, v, rej) /\ f.kind \in {"async", "then", "finally", "executor"}
  OBVIOUS
<1>4. /\ Frames(stack') \subseteq Frames(stack)
      /\ \A x : Runs(stack, x) = Runs(stack', x) + IF Codes(f, x) THEN 1 ELSE 0
      /\ \A x : Runs(stack', x) \in Nat
  BY <1>1, Leave
<1> HIDE DEF f, p
<1>5. Settles(heap, heap', p, v, rej)
  BY <1>1, <1>2, <1>3, SettleEffect
<1>6. AdoptExact(heap')
  BY <1>1, <1>2, <1>5, SettleExact
<1>7. Adoption(heap, heap', p)
  BY <1>1, <1>2, <1>5, SettlesWaits
<1>8. role[p] \in {"body", "main", "derived", "constructed"}
  BY <1>2, <1>3 DEF RoleFits
<1>9. Touches({p})
  BY <1>2, <1>7, <1>8, TouchesOpen DEF Adoption
<1>10. Completes({p})
  <2>1. RoleFits("adopt_subscribe", role[p])
    BY <1>8 DEF RoleFits, AdopterKinds
  <2>2. \A w \in Waiters(heap') : w \in Waiters(heap) \/ RoleFits(w[1].kind, role'[w[1].p])
    BY <1>7, <2>1 DEF Adoption
  <2>3. \A x \in Promise \ {p} : Will(stack', heap', x) = Will(stack, heap, x)
    <3> SUFFICES ASSUME NEW x \in Promise \ {p} PROVE Will(stack', heap', x) = Will(stack, heap, x)
      OBVIOUS
    <3>1. Waiting(heap', x, CodeKinds) = Waiting(heap, x, CodeKinds)
      BY <1>7 DEF Adoption
    <3>2. ~Codes(f, x)
      BY <1>3 DEF Codes
    <3> QED BY <1>4, <3>1, <3>2 DEF Will
  <2>4. Will(stack', heap', p) = 0
    <3>1. Waiting(heap', p, CodeKinds) = 0
      BY <1>2, <1>7 DEF Adoption
    <3>2. Runs(stack', p) = 0
      BY <1>2, <1>3, <1>4 DEF Codes
    <3> QED BY <3>1, <3>2 DEF Will
  <2>5. ~Owes(heap', role', p)
    BY <1>7 DEF Owes, Adoption
  <2> QED BY <1>4, <1>6, <2>2, <2>3, <2>4, <2>5 DEF Completes
<1>11. OthersStay(heap, heap')
  BY <1>7 DEF Adoption
<1>12. MainStays /\ AllStays({p})
  BY <1>3, <1>8, LeaveStays DEF f
<1> QED BY <1>9, <1>10, <1>11, <1>12, OwnersKept DEF Basic

\* A body or a handler ends: the frame that owed the promise settles it.
LEMMA UserSettlesOwners ==
  ASSUME Going, NEW v \in UserValue,
         AsyncReturn(v) \/ AsyncThrow(v) \/ HandlerReturn(v) \/ HandlerThrow(v) \/ ExecutorThrow(v)
  PROVE  OwnersInv'
BY SettleTopOwners DEF AsyncReturn, AsyncThrow, HandlerReturn, HandlerThrow, ExecutorThrow, Leaves

\* A step that leaves the heap alone.
LEMMA HeapSame ==
  ASSUME heap' = heap PROVE Same(heap, heap') /\ Grows(heap, heap') /\ Apart(heap, heap', {})
BY DEF Same, Grows, Apart

\* A frame that settles nothing leaves.
LEMMA LeaveQuiet ==
  ASSUME Going, stack # <<>>, Top.kind \in {"executor", "script"}, stack' = Tail(stack),
         heap' = heap, UNCHANGED <<role, all>>, phase' = phase \/ phase' = "uncaught"
  PROVE  OwnersInv'
<1>1. Inv /\ OwnersInv /\ AdoptExact(heap)
  BY DEF Going, OwnersInv, CompletionInv
<1>2. Same(heap, heap') /\ Grows(heap, heap') /\ Apart(heap, heap', {})
  BY HeapSame
<1>3. Touches({})
  BY <1>2, TouchesOpen
<1>4. /\ Frames(stack') \subseteq Frames(stack)
      /\ \A x : Runs(stack, x) = Runs(stack', x) + IF Codes(Top, x) THEN 1 ELSE 0
      /\ \A x : Runs(stack', x) \in Nat
  BY <1>1, Leave
<1>5. \A x : ~Codes(Top, x)
  BY DEF Codes
<1>6. Completes({})
  BY <1>1, <1>4, <1>5 DEF Completes, Will
<1>7. OthersStay(heap, heap')
  BY <1>2, OthersSame
<1>8. MainStays /\ AllStays({})
  BY LeaveStays
<1> QED BY <1>3, <1>6, <1>7, <1>8, OwnersKept DEF Basic

\* An executor returns: its promise was never owed to the frame.
LEMMA ExecutorReturnOwners ==
  ASSUME Going, ExecutorReturn PROVE OwnersInv'
BY LeaveQuiet DEF ExecutorReturn, Leaves

\* The script throws: the process ends.
LEMMA ScriptThrowOwners ==
  ASSUME Going, ScriptThrow PROVE OwnersInv'
BY LeaveQuiet DEF ScriptThrow, Leaves

\* The promise a value is wrapped in, if any.
Wrapped(v, q) == IF v \in Promise THEN {} ELSE {q}

\* await: the frame that leaves is replaced by its resume point.
LEMMA AwaitOwners ==
  ASSUME Going, NEW v \in UserValue, NEW q \in Promise, Await(v, q)
  PROVE  OwnersInv'
<1> DEFINE r == Rx("async_resume", Top.p)
           f == Top
           P == Wrapped(v, q)
<1>1. /\ stack # <<>> /\ f.kind = "async" /\ stack' = Tail(stack)
      /\ (v \notin Promise => q \in Free(heap)) /\ all' = all /\ phase' = phase
      /\ heap' = Subscribe(PromiseResolve(heap, v, q), Resolved(v, q), r)
      /\ role' = IF v \in Promise THEN role ELSE [role EXCEPT ![q] = "wrapper"]
  BY DEF Await, Leaves
<1>2. /\ Inv /\ OwnersInv /\ HeapInv(heap) /\ heap \in Heap /\ AdoptExact(heap)
      /\ v \in Value /\ (v \in Promise => v \in Allocated(heap))
  BY UserValues DEF Going, Inv, TypeOK, OwnersInv, CompletionInv
<1>3. RoleFits("async", role[f.p]) /\ f.p \in Promise /\ f.p \in Allocated(heap)
  BY <1>1, <1>2, TopOwes
<1>4. r \in Reaction /\ r.p = f.p /\ r.kind = "async_resume"
  BY <1>3, RxType DEF Rx, Kind
<1>5. /\ Frames(stack') \subseteq Frames(stack)
      /\ \A x : Runs(stack, x) = Runs(stack', x) + IF Codes(f, x) THEN 1 ELSE 0
      /\ \A x : Runs(stack', x) \in Nat
  BY <1>1, <1>2, Leave
<1>6. /\ \A x \in Promise : role'[x] # role[x] => x \in P /\ x \in Free(heap) /\ role'[x] = "wrapper"
      /\ \A x \in P : role'[x] = "wrapper"
      /\ P \subseteq Free(heap) /\ P \subseteq Promise
  BY <1>1, <1>2 DEF Inv, TypeOK, Wrapped
<1>7. r.kind \notin AdopterKinds /\ r.kind \in CodeKinds /\ r.kind \notin OtherKinds
  BY <1>4 DEF AdopterKinds, CodeKinds, OtherKinds
<1> HIDE DEF r
<1>8. Listens(heap, heap', v, q, r)
  BY <1>1, <1>2, <1>4, <1>7, ListenEffect
<1> DEFINE e == Resolved(v, q)
<1>9. /\ heap' \in Heap /\ Gains(heap, heap', r, e) /\ Grows(heap, heap') /\ AdoptExact(heap')
      /\ Apart(heap, heap', P) /\ \A x \in P : heap'.state[x] = "fulfilled"
  BY <1>2, <1>8 DEF Listens, Wrapped
<1> HIDE DEF e, P
<1>10. Touches(P)
  BY <1>6, <1>9, TouchesOpen
<1>11. \A x : Will(stack', heap', x) = Will(stack, heap, x)
  <2> SUFFICES ASSUME NEW x PROVE Will(stack', heap', x) = Will(stack, heap, x)
    OBVIOUS
  <2>1. Waiting(heap', x, CodeKinds) =
          Waiting(heap, x, CodeKinds) + IF r.p = x /\ r.kind \in CodeKinds THEN 1 ELSE 0
    BY <1>9, CodeGain
  <2>2. Waiting(heap, x, CodeKinds) \in Nat
    BY <1>2, WillType
  <2>3. Codes(f, x) <=> r.p = x /\ r.kind \in CodeKinds
    BY <1>1, <1>4, <1>7 DEF Codes
  <2> QED BY <1>5, <2>1, <2>2, <2>3 DEF Will
<1>12. Completes(P)
  <2>1. RoleFits(r.kind, role'[r.p])
    <3>1. role'[f.p] = role[f.p]
      BY <1>3, <1>6 DEF Free, Allocated
    <3> QED BY <1>3, <1>4, <3>1 DEF RoleFits, AdopterKinds
  <2>2. ASSUME NEW w \in Waiters(heap')
        PROVE  w \in Waiters(heap) \/ RoleFits(w[1].kind, role'[w[1].p])
    <3>1. w \in Waiters(heap) \/ w = <<r, e>>
      BY <1>9 DEF Gains
    <3> QED BY <2>1, <3>1
  <2>3. \A x \in P : Will(stack, heap, x) = 0
    BY <1>2, <1>6, Fresh DEF Will
  <2>4. \A x \in P : ~Owes(heap', role', x)
    BY <1>9 DEF Owes
  <2> QED BY <1>5, <1>9, <1>11, <2>2, <2>3, <2>4 DEF Completes
<1>13. OthersStay(heap, heap')
  BY <1>2, <1>7, <1>9, OthersGain
<1>14. MainStays /\ AllStays(P)
  BY <1>1, <1>6, LeaveStays
<1> QED BY <1>10, <1>12, <1>13, <1>14, OwnersKept DEF Basic

\* main begins to listen to the module's promise when the body has left the stack.
LEMMA ScriptEndOwners ==
  ASSUME Going, ScriptEnd
  PROVE  OwnersInv'
<1> DEFINE p == Top.p
           f == Top
           r == Rx("module_done", p)
<1>1. /\ stack # <<>> /\ f.kind = "script" /\ stack' = Tail(stack) /\ phase' = "drain"
      /\ heap' = IF TopLevelAwait THEN Subscribe(heap, p, r) ELSE heap
      /\ role' = role /\ all' = all
  BY DEF ScriptEnd, Leaves
<1>2. /\ Inv /\ OwnersInv /\ HeapInv(heap) /\ heap \in Heap /\ AdoptExact(heap) /\ CountExact(heap)
  BY DEF Going, Inv, TypeOK, OwnersInv, CompletionInv, HeapInv
<1>3. /\ Frames(stack') \subseteq Frames(stack) /\ NoLoop(stack) /\ NoLoop(stack')
      /\ \A x : Runs(stack, x) = Runs(stack', x) + IF Codes(f, x) THEN 1 ELSE 0
      /\ \A x : Runs(stack', x) \in Nat
  BY <1>1, <1>2, Leave
<1>4. \A x : Runs(stack, x) = Runs(stack', x)
  BY <1>1, <1>3 DEF Codes
<1>5. f = stack[1] /\ 1 \in 1..Len(stack)
  BY <1>1, <1>2, TopFrame
<1>6. stack' = <<>>
  BY <1>1, <1>2, ScriptLast
<1>7. CASE ~TopLevelAwait
  <2>1. heap' = heap /\ Same(heap, heap') /\ Grows(heap, heap') /\ Apart(heap, heap', {})
    BY <1>1, <1>7, HeapSame
  <2>2. Touches({})
    BY <1>1, <2>1, TouchesOpen
  <2>3. Completes({})
    BY <1>2, <1>3, <1>4, <2>1 DEF Completes, Will
  <2>4. OthersStay(heap, heap') /\ AllStays({})
    BY <1>1, <1>3, <2>1, OthersSame DEF AllStays
  <2>5. MainInv'
    BY <1>1, <1>2, <1>7, <2>1 DEF OwnersInv, MainInv
  <2> QED BY <2>2, <2>3, <2>4, <2>5, HiddenKept, CompletionKept, AllKept DEF OwnersInv, Basic, OthersStay
<1>8. CASE TopLevelAwait
  <2>1. p \in Promise /\ RoleFits("script", role[p])
    BY <1>1, <1>2, <1>5, <1>8, TopFrame DEF OwnersInv, CompletionInv, RolesFit, Allocated
  <2>2. role[p] = "main"
    BY <2>1 DEF RoleFits
  <2>3. r \in Reaction /\ r.p = p /\ r.kind = "module_done"
    BY <2>1, RxType DEF Rx, Kind
  <2> HIDE DEF r, f, p
  <2>4. heap' = Subscribe(heap, p, r)
    BY <1>1, <1>8
  <2>5. Subscribes(heap, heap', p, r)
    BY <1>2, <2>1, <2>3, <2>4, SubscribeEffect
  <2>6. r.kind \notin AdopterKinds /\ r.kind \notin CodeKinds
    BY <2>3 DEF AdopterKinds, CodeKinds
  <2>7. AdoptExact(heap')
    BY <1>2, <2>3, <2>5, <2>6, SubscribeExact
  <2>8. /\ heap' \in Heap /\ Gains(heap, heap', r, p) /\ Grows(heap, heap') /\ Apart(heap, heap', {})
    BY <2>5 DEF Subscribes
  <2>9. Touches({})
    BY <1>1, <2>8, TouchesOpen
  <2>10. \A x : Waiting(heap', x, CodeKinds) = Waiting(heap, x, CodeKinds)
    <3> SUFFICES ASSUME NEW x PROVE Waiting(heap', x, CodeKinds) = Waiting(heap, x, CodeKinds)
      OBVIOUS
    <3>1. Waiting(heap', x, CodeKinds) =
            Waiting(heap, x, CodeKinds) + IF r.p = x /\ r.kind \in CodeKinds THEN 1 ELSE 0
      BY <2>8, CodeGain
    <3> QED BY <1>2, <2>6, <3>1, WaitingType
  <2>11. \A w \in Waiters(heap') : w \in Waiters(heap) \/ w = <<r, p>>
    BY <2>8 DEF Gains
  <2>12. Completes({})
    <3>1. RoleFits(r.kind, role'[r.p])
      BY <1>1, <2>2, <2>3 DEF RoleFits, AdopterKinds
    <3>2. \A w \in Waiters(heap') : w \in Waiters(heap) \/ RoleFits(w[1].kind, role'[w[1].p])
      BY <2>11, <3>1
    <3> QED BY <1>3, <1>4, <2>7, <2>10, <3>2 DEF Completes, Will
  <2>13. AllInv'
    <3>1. AllStays({})
      BY <1>1, <1>3 DEF AllStays
    <3>2. ElementsStay(heap, heap')
      BY <1>2, <2>3, <2>8, ElementsGain
    <3> QED BY <2>9, <3>1, <3>2, AllKept
  <2>14. MainInv'
    <3>1. <<r, p>> \in Waiters(heap')
      BY <2>8 DEF Gains
    <3>2. \A w \in Waiters(heap') : w[1].kind = "module_done" => w[2] = w[1].p
      BY <1>2, <2>3, <2>11 DEF OwnersInv, MainInv
    <3>3. ASSUME NEW x \in Promise, role'[x] = "main"
          PROVE  x = p
      <4>1. \A i \in 1..Len(stack) : stack[i].kind = "script" => stack[i].p = x
        BY <1>1, <1>2, <3>3 DEF OwnersInv, MainInv
      <4> QED BY <1>1, <1>5, <4>1 DEF p, f
    <3>4. \A i \in 1..Len(stack') : stack'[i].kind # "script"
      BY <1>6
    <3> QED BY <1>1, <1>8, <3>1, <3>2, <3>3, <3>4 DEF MainInv, r
  <2> QED BY <2>9, <2>12, <2>13, <2>14, HiddenKept, CompletionKept DEF OwnersInv, Basic
<1> QED BY <1>7, <1>8

\* The job that adopts the intermediate promise is queued behind no thunk of it.
LEMMA AdoptedFirst ==
  ASSUME Inv, OwnersInv, NEW inner \in Free(heap), NEW p \in Promise, NEW a \in Heap,
         a.queue = Append(heap.queue, Job(Rx("adopt_subscribe", p), NoPromise, inner, FALSE))
  PROVE  HeardFirst(a, inner)
<1> DEFINE t == Job(Rx("adopt_subscribe", p), NoPromise, inner, FALSE)
           n == Len(heap.queue)
<1>1. t.job.kind = "adopt_subscribe" /\ t.value = inner /\ t \in Task
  BY DEF Job, Rx, Task, Reaction, Kind, Value, Free
<1>2. heap \in Heap /\ heap.queue \in Seq(Task) /\ n \in Nat
  BY DEF Inv, TypeOK, Heap
<1>3. \A w \in Waiters(heap) : ~Continues(w[1], inner, CodeKinds)
  BY <1>2, Fresh, WaitingZero
<1> HIDE DEF t
<1>4. /\ Len(a.queue) = n + 1 /\ a.queue[n + 1] = t
      /\ \A i \in 1..n : a.queue[i] = heap.queue[i]
  <2>1. a.queue = Append(heap.queue, t)
    BY DEF t
  <2> DEFINE s == heap.queue
  <2>2. s \in Seq(Task) /\ t \in Task /\ n = Len(s) /\ a.queue = Append(s, t)
    BY <1>1, <1>2, <2>1
  <2> HIDE DEF s, n
  <2>3. /\ Len(Append(s, t)) = n + 1 /\ Append(s, t)[n + 1] = t
        /\ \A i \in 1..n : Append(s, t)[i] = s[i]
    BY <2>2, AppendProperties
  <2> QED BY <2>2, <2>3 DEF s
<1>5. ASSUME NEW i \in 1..n PROVE ~Continues(a.queue[i].job, inner, {"finally_thunk"})
  <2>1. <<heap.queue[i].job, heap.queue[i].src>> \in Waiters(heap)
    BY WaiterIs
  <2>2. ~Continues(heap.queue[i].job, inner, CodeKinds)
    BY <1>3, <2>1
  <2> QED BY <1>4, <2>2 DEF Continues, CodeKinds
<1>6. ~Continues(a.queue[n + 1].job, inner, {"finally_thunk"})
  BY <1>1, <1>4 DEF Continues
<1>7. n + 1 \in 1..Len(a.queue) /\ \A j \in 1..(n + 1) : j \in 1..n \/ j = n + 1
  BY <1>2, <1>4
<1>8. /\ a.queue[n + 1].job.kind = "adopt_subscribe" /\ a.queue[n + 1].value = inner
      /\ \A j \in 1..(n + 1) : ~Continues(a.queue[j].job, inner, {"finally_thunk"})
  BY <1>1, <1>4, <1>5, <1>6, <1>7
<1> HIDE DEF n
<1> QED BY <1>7, <1>8 DEF HeardFirst

\* g is h after the end of a finally callback: the derived promise p adopts inner,
\* then the thunk that settles inner listens to the answer v.
FinallyEnds(h, g, p, inner, v, q, thunk) ==
  /\ g \in Heap /\ Grows(h, g) /\ AdoptExact(g) /\ HeardFirst(g, inner)
  /\ Apart(h, g, {inner, p} \cup Wrapped(v, q))
  /\ g.state[inner] = "pending" /\ ~g.resolved[inner] /\ g.resolved[p]
  /\ \A x \in Wrapped(v, q) : g.state[x] = "fulfilled"
  /\ OthersStay(h, g)
  /\ \A w \in Waiters(g) : \/ w \in Waiters(h)
                           \/ w[1] = Rx("adopt_subscribe", p)
                           \/ w[1] = thunk
  /\ \A x : Waiting(g, x, CodeKinds) = Waiting(h, x, CodeKinds) + IF x = inner THEN 1 ELSE 0

\* What finally_react leaves: the intermediate promise is adopted, and the thunk
\* that settles it is registered or queued behind the adoption.
LEMMA FinallyEffect ==
  ASSUME Inv, OwnersInv, NEW p \in Allocated(heap), ~heap.resolved[p], NEW v \in Value,
         v \in Promise => v \in Allocated(heap), NEW inner \in Free(heap), NEW q \in Promise,
         v \notin Promise => q \in Free(heap) \ {inner},
         NEW thunk \in Reaction, thunk.kind = "finally_thunk", thunk.p = inner
  PROVE  LET adopted == PromiseSettle(PromiseNew(heap, inner), p, inner, FALSE)
         IN FinallyEnds(heap, Subscribe(PromiseResolve(adopted, v, q), Resolved(v, q), thunk),
                        p, inner, v, q, thunk)
<1> DEFINE n == PromiseNew(heap, inner)
           a == PromiseSettle(n, p, inner, FALSE)
           g == Subscribe(PromiseResolve(a, v, q), Resolved(v, q), thunk)
           r == Rx("adopt_subscribe", p)
           e == Resolved(v, q)
           W == Wrapped(v, q)
<1>1. /\ heap \in Heap /\ HeapInv(heap) /\ AdoptExact(heap)
      /\ inner \in Promise /\ inner \notin Allocated(heap) /\ ~heap.resolved[inner]
      /\ Waiting(heap, inner, CodeKinds) = 0 /\ p \in Promise /\ p # inner /\ inner \in Value
  BY Fresh DEF Inv, TypeOK, OwnersInv, CompletionInv, Allocated, Value
<1>2. Allocates(heap, n, inner) /\ HeapInv(n) /\ Allocated(n) = Allocated(heap) \cup {inner}
  BY <1>1, NewEffect, NewInv
<1> HIDE DEF n
<1>3. /\ n \in Heap /\ Same(heap, n) /\ Grows(heap, n) /\ Apart(heap, n, {inner})
      /\ n.state[inner] = "pending" /\ n.resolved = heap.resolved /\ n.queue = heap.queue
      /\ AdoptExact(n)
  BY <1>1, <1>2, NewExact DEF Allocates
<1>4. Settles(n, a, p, inner, FALSE) /\ HeapInv(a) /\ Allocated(a) = Allocated(n)
  BY <1>1, <1>2, <1>3, SettleEffect, SettleInv
<1> HIDE DEF a
<1>5. AdoptExact(a)
  BY <1>2, <1>3, <1>4, SettleExact
<1>6. /\ a \in Heap /\ Grows(n, a) /\ Apart(n, a, {p}) /\ a.resolved[p] /\ a.state = n.state
      /\ Gains(n, a, r, NoPromise)
      /\ a.queue = Append(heap.queue, Job(r, NoPromise, inner, FALSE))
  BY <1>1, <1>3, <1>4 DEF Settles
<1>7. HeardFirst(a, inner)
  <2>1. a.queue = Append(heap.queue, Job(Rx("adopt_subscribe", p), NoPromise, inner, FALSE))
    BY <1>6
  <2> QED BY <1>1, <1>6, <2>1, AdoptedFirst
<1>8. r.kind = "adopt_subscribe" /\ r.p = p
  BY DEF Rx
<1> HIDE DEF r
<1>9. /\ v \in Promise => v \in Allocated(a)
      /\ v \notin Promise => q \in Free(a)
  BY <1>2, <1>4 DEF Free, Allocated
<1>10. thunk.kind \notin AdopterKinds /\ thunk.kind \in CodeKinds /\ thunk.kind \notin OtherKinds
  BY DEF AdopterKinds, CodeKinds, OtherKinds
<1>11. Listens(a, g, v, q, thunk)
  BY <1>4, <1>9, <1>10, ListenEffect
<1> HIDE DEF g
<1>12. /\ g \in Heap /\ Gains(a, g, thunk, e) /\ Grows(a, g) /\ AdoptExact(g) /\ Apart(a, g, W)
       /\ \A x \in W : g.state[x] = "fulfilled"
  BY <1>5, <1>11 DEF Listens, Wrapped
<1>13. p \notin W /\ inner \notin W
  BY <1>1 DEF Wrapped, Free, Allocated
<1> HIDE DEF e, W
<1>14. Grows(heap, g)
  <2>1. Grows(heap, a)
    BY <1>1, <1>3, <1>6, GrowsOn
  <2> QED BY <1>1, <1>6, <1>12, <2>1, GrowsOn
<1>15. HeardFirst(g, inner)
  BY <1>1, <1>6, <1>7, <1>12, HeardGrows
<1>16. Apart(heap, g, {inner, p} \cup W)
  BY <1>3, <1>6, <1>12 DEF Apart
<1>17. g.state[inner] = "pending" /\ ~g.resolved[inner] /\ g.resolved[p]
  <2>1. /\ g.state[inner] = a.state[inner] /\ g.resolved[inner] = a.resolved[inner]
        /\ g.resolved[p] = a.resolved[p]
    BY <1>1, <1>12, <1>13 DEF Apart
  <2>2. a.resolved[inner] = n.resolved[inner]
    BY <1>1, <1>6 DEF Apart
  <2> QED BY <1>1, <1>3, <1>6, <2>1, <2>2
<1>18. OthersStay(heap, g)
  <2>1. OthersStay(heap, n)
    BY <1>3, OthersSame
  <2>2. OthersStay(n, a)
    BY <1>3, <1>6, <1>8, OthersGain DEF OtherKinds
  <2>3. OthersStay(a, g)
    BY <1>6, <1>10, <1>12, OthersGain
  <2>4. OthersStay(heap, a)
    BY <2>1, <2>2, OthersOn
  <2> QED BY <2>3, <2>4, OthersOn
<1>19. \A w \in Waiters(g) : w \in Waiters(heap) \/ w[1] = r \/ w[1] = thunk
  <2>1. \A w \in Waiters(g) : w \in Waiters(a) \/ w = <<thunk, e>>
    BY <1>12 DEF Gains
  <2>2. \A w \in Waiters(a) : w \in Waiters(n) \/ w = <<r, NoPromise>>
    BY <1>6 DEF Gains
  <2>3. Waiters(n) = Waiters(heap)
    BY <1>3 DEF Same
  <2> QED BY <2>1, <2>2, <2>3
<1>20. ASSUME NEW x
       PROVE  Waiting(g, x, CodeKinds) = Waiting(heap, x, CodeKinds) + IF x = inner THEN 1 ELSE 0
  <2>1. Waiting(n, x, CodeKinds) = Waiting(heap, x, CodeKinds) /\ Waiting(heap, x, CodeKinds) \in Nat
    BY <1>1, <1>3, WaitingType DEF Same
  <2>2. Waiting(a, x, CodeKinds) =
          Waiting(n, x, CodeKinds) + IF r.p = x /\ r.kind \in CodeKinds THEN 1 ELSE 0
    BY <1>6, CodeGain
  <2>3. Waiting(g, x, CodeKinds) =
          Waiting(a, x, CodeKinds) + IF thunk.p = x /\ thunk.kind \in CodeKinds THEN 1 ELSE 0
    BY <1>12, CodeGain
  <2>4. r.kind \notin CodeKinds
    BY <1>8 DEF CodeKinds
  <2> QED BY <1>10, <2>1, <2>2, <2>3, <2>4
<1>21. FinallyEnds(heap, g, p, inner, v, q, thunk)
  BY <1>12, <1>14, <1>15, <1>16, <1>17, <1>18, <1>19, <1>20 DEF FinallyEnds, r, W
<1> QED BY <1>21 DEF g, a, n

\* The end of a finally callback: the thunk is the completer of the intermediate
\* promise, which is the completer of the derived one.
LEMMA FinallyReturnOwners ==
  ASSUME Going, NEW v \in UserValue, NEW inner \in Promise, NEW q \in Promise,
         FinallyReturn(v, inner, q)
  PROVE  OwnersInv'
<1> DEFINE p == Top.p
           f == Top
           thunk == [Rx("finally_thunk", inner) EXCEPT !.value = Top.value, !.rejected = Top.rejected]
           W == Wrapped(v, q)
           P == {inner, p} \cup W
<1>1. /\ stack # <<>> /\ f.kind = "finally" /\ stack' = Tail(stack) /\ phase' = phase /\ all' = all
      /\ inner \in Free(heap) /\ (v \notin Promise => q \in Free(heap) \ {inner})
      /\ heap' = Subscribe(PromiseResolve(PromiseSettle(PromiseNew(heap, inner), p, inner, FALSE), v, q),
                           Resolved(v, q), thunk)
      /\ role' = [x \in Promise |-> IF x = inner THEN "inner"
                                    ELSE IF x = q /\ v \notin Promise THEN "wrapper" ELSE role[x]]
  BY DEF FinallyReturn, Leaves
<1>2. /\ Inv /\ OwnersInv /\ v \in Value /\ (v \in Promise => v \in Allocated(heap))
      /\ Top \in Frame
  BY <1>1, UserValues, TopFrame DEF Going
<1>3. /\ RoleFits("finally", role[p]) /\ p \in Promise /\ p \in Allocated(heap) /\ ~heap.resolved[p]
      /\ Runs(stack, p) = 1 /\ Waiting(heap, p, CodeKinds) = 0
  BY <1>1, <1>2, TopOwes
<1>4. role[p] = "derived"
  BY <1>3 DEF RoleFits
<1>5. thunk \in Reaction /\ thunk.p = inner /\ thunk.kind = "finally_thunk"
  BY <1>2 DEF Rx, Reaction, Kind, Value, Frame
<1> HIDE DEF thunk
<1>6. FinallyEnds(heap, heap', p, inner, v, q, thunk)
  BY <1>1, <1>2, <1>3, <1>5, FinallyEffect
<1>7. /\ Frames(stack') \subseteq Frames(stack)
      /\ \A x : Runs(stack, x) = Runs(stack', x) + IF Codes(f, x) THEN 1 ELSE 0
      /\ \A x : Runs(stack', x) \in Nat
  BY <1>1, <1>2, Leave
<1>8. \A x : Codes(f, x) <=> x = p
  BY <1>1 DEF Codes
<1> HIDE DEF f, p
<1>9. /\ inner \notin Allocated(heap) /\ p # inner /\ inner \notin W /\ p \notin W
      /\ W \subseteq Free(heap) /\ W \subseteq Promise
      /\ Runs(stack, inner) = 0 /\ Waiting(heap, inner, CodeKinds) = 0
  BY <1>1, <1>2, <1>3, Fresh DEF Wrapped, Free, Allocated
<1>10. /\ role'[inner] = "inner" /\ role'[p] = "derived"
       /\ \A x \in W : role'[x] = "wrapper"
       /\ \A x \in Promise : x = inner \/ x \in W \/ role'[x] = role[x]
  BY <1>1, <1>3, <1>4, <1>9 DEF Wrapped
<1> HIDE DEF W
<1>11. Touches(P)
  <2>1. P \subseteq Promise /\ Apart(heap, heap', P) /\ Grows(heap, heap') /\ HeardFirst(heap', inner)
    BY <1>3, <1>6, <1>9 DEF FinallyEnds, W
  <2>2. \A x \in Promise : role'[x] # role[x] => x \in P /\ x \in Free(heap) /\ role'[x] # "main"
    BY <1>1, <1>9, <1>10
  <2>3. ASSUME NEW x \in Promise, role'[x] = "inner" PROVE HeardFirst(heap', x)
    <3>1. x = inner \/ role[x] = "inner"
      BY <1>10, <2>3
    <3> QED BY <2>1, <3>1, InnerStays
  <2>4. ASSUME NEW x \in P
        PROVE  /\ role'[x] = "wrapper" => heap'.state[x] = "fulfilled"
               /\ role'[x] = "inner" /\ Settled(heap', x) => heap'.observed[x]
    BY <1>6, <1>10 DEF FinallyEnds, Settled, W
  <2> HIDE DEF P
  <2> QED BY <2>1, <2>2, <2>3, <2>4 DEF Touches, Grows
<1>12. Completes(P)
  <2>1. RoleFits("adopt_subscribe", role'[p]) /\ RoleFits("finally_thunk", role'[inner])
    BY <1>10 DEF RoleFits, AdopterKinds
  <2>2. ASSUME NEW w \in Waiters(heap')
        PROVE  w \in Waiters(heap) \/ RoleFits(w[1].kind, role'[w[1].p])
    <3>1. w \in Waiters(heap) \/ w[1] = Rx("adopt_subscribe", p) \/ w[1] = thunk
      BY <1>6 DEF FinallyEnds
    <3>2. Rx("adopt_subscribe", p).kind = "adopt_subscribe" /\ Rx("adopt_subscribe", p).p = p
      BY DEF Rx
    <3> QED BY <1>5, <2>1, <3>1, <3>2
  <2>3. \A x : Waiting(heap', x, CodeKinds) = Waiting(heap, x, CodeKinds) + IF x = inner THEN 1 ELSE 0
    BY <1>6 DEF FinallyEnds
  <2>4. \A x : Waiting(heap, x, CodeKinds) \in Nat
    BY <1>2, WillType
  <2>5. \A x \in Promise \ P : Will(stack', heap', x) = Will(stack, heap, x)
    BY <1>7, <1>8, <2>3, <2>4 DEF Will
  <2>6. Will(stack', heap', inner) = 1 /\ Owes(heap', role', inner)
    BY <1>6, <1>7, <1>8, <1>9, <1>10, <2>3 DEF Will, Owes, FinallyEnds
  <2>7. Will(stack', heap', p) = 0 /\ ~Owes(heap', role', p)
    BY <1>3, <1>6, <1>7, <1>8, <1>9, <2>3 DEF Will, Owes, FinallyEnds
  <2>8. ASSUME NEW x \in W PROVE Will(stack', heap', x) = 0 /\ ~Owes(heap', role', x)
    <3>1. Runs(stack, x) = 0 /\ Waiting(heap, x, CodeKinds) = 0
      BY <1>2, <1>9, Fresh
    <3>2. heap'.state[x] = "fulfilled"
      BY <1>6 DEF FinallyEnds, W
    <3>3. x # inner /\ x # p
      BY <1>9
    <3> QED BY <1>7, <1>8, <2>3, <3>1, <3>2, <3>3 DEF Will, Owes
  <2>9. AdoptExact(heap')
    BY <1>6 DEF FinallyEnds
  <2> QED BY <1>7, <2>2, <2>5, <2>6, <2>7, <2>8, <2>9 DEF Completes
<1>13. OthersStay(heap, heap')
  BY <1>6 DEF FinallyEnds
<1>14. \A x \in P : role'[x] # "all"
  BY <1>10
<1> HIDE DEF P
<1>15. MainStays /\ AllStays(P)
  BY <1>1, <1>14, LeaveStays DEF f
<1> QED BY <1>11, <1>12, <1>13, <1>15, OwnersKept DEF Basic

-----------------------------------------------------------------------------
(* The jobs of the drain.                                                  *)

\* What the invariants say of the heap without the job about to run.
LEMMA JobOwners ==
  ASSUME Going, Draining, heap.queue # <<>>
  PROVE  /\ Inv /\ OwnersInv /\ AdoptExact(heap) /\ heap \in Heap /\ HeapInv(heap)
         /\ Pops(heap, Popped) /\ Popped \in Heap /\ HeapInv(Popped) /\ CountExact(Popped)
         /\ Next1.job = Head(heap.queue).job /\ Next1 = Head(heap.queue)
         /\ Gains(Popped, heap, Next1.job, Next1.src)
         /\ Popped.state = heap.state /\ Popped.resolved = heap.resolved /\ Popped.value = heap.value
         /\ Popped.observed = heap.observed /\ Apart(heap, Popped, {})
         /\ phase = "drain" /\ stack = <<>>
<1>1. Inv /\ OwnersInv /\ AdoptExact(heap) /\ heap \in Heap /\ HeapInv(heap)
  BY DEF Going, Inv, TypeOK, OwnersInv, CompletionInv
<1>2. Pops(heap, Popped) /\ Next1 = Head(heap.queue)
  BY <1>1, JobFits
<1>3. HeapInv(Popped) /\ phase = "drain" /\ stack = <<>>
  BY <1>1, Taken
<1>4. CountExact(Popped)
  BY <1>3 DEF HeapInv
<1> DEFINE g == Popped
<1> HIDE DEF g
<1>5. Pops(heap, g)
  BY <1>2 DEF g
<1>6. /\ g \in Heap /\ Gains(g, heap, Next1.job, Next1.src)
      /\ g.state = heap.state /\ g.resolved = heap.resolved /\ g.value = heap.value
      /\ g.observed = heap.observed
  BY <1>2, <1>5 DEF Pops
<1>7. Apart(heap, g, {})
  BY <1>6 DEF Apart
<1> QED BY <1>1, <1>2, <1>3, <1>4, <1>6, <1>7 DEF g

\* A job that gives no role touches its promises as it should, if the intermediate
\* promises it settles, and the one it subscribes to, have been heard.
LEMMA JobTouches ==
  ASSUME Going, Draining, heap.queue # <<>>, role' = role, Grows(Popped, heap'),
         NEW P, P \subseteq Promise, Apart(Popped, heap', P),
         \A x \in P : role[x] # "wrapper" /\ (role[x] = "inner" => heap'.observed[x]),
         Next1.job.kind = "adopt_subscribe" => heap'.observed[Next1.value]
  PROVE  Touches(P)
<1> DEFINE g == Popped
<1>1. /\ Pops(heap, g) /\ g \in Heap /\ heap \in Heap /\ Next1 = Head(heap.queue)
      /\ g.state = heap.state /\ g.resolved = heap.resolved /\ g.value = heap.value
      /\ g.observed = heap.observed
  BY JobOwners
<1>2. Grows(g, heap') /\ Apart(g, heap', P)
  OBVIOUS
<1> HIDE DEF g
<1>3. Apart(heap, heap', P)
  BY <1>1, <1>2 DEF Apart
<1>4. \A x \in Promise : heap.observed[x] => heap'.observed[x]
  BY <1>1, <1>2 DEF Grows
<1>5. ASSUME NEW x \in Promise, role'[x] = "inner" PROVE HeardFirst(heap', x)
  <2>1. HeardFirst(heap, x)
    BY <1>5 DEF Going, OwnersInv, HiddenInv
  <2>2. \/ Next1.job.kind = "adopt_subscribe" /\ Next1.value = x
        \/ HeardFirst(g, x)
    BY <1>1, <2>1, HeardPops
  <2>3. CASE Next1.job.kind = "adopt_subscribe" /\ Next1.value = x
    BY <2>3 DEF HeardFirst
  <2>4. CASE HeardFirst(g, x)
    <3>1. heap' \in Heap
      BY DEF Going, Inv, TypeOK
    <3> QED BY <1>1, <1>2, <2>4, <3>1, HeardGrows
  <2> QED BY <2>2, <2>3, <2>4
<1> QED BY <1>3, <1>4, <1>5 DEF Touches

\* The stack stays empty.
LEMMA JobStays ==
  ASSUME Going, Draining, heap.queue # <<>>, stack' = stack, phase' = phase, all' = all,
         NEW P, \A x \in P : role'[x] # "all"
  PROVE  MainStays /\ AllStays(P)
BY JobOwners DEF MainStays, AllStays

\* The second half of an adoption: the adopter leaves as its promise settles.
LEMMA RunAdoptOwners ==
  ASSUME Going, RunAdopt PROVE OwnersInv'
<1> DEFINE p == Next1.job.p
           j == Next1.job
           v == Next1.value
           rej == Next1.rejected
           g == Popped
<1>1. /\ Draining /\ heap.queue # <<>> /\ j.kind = "adopt"
      /\ heap' = PromiseSettleNow(g, p, v, rej) /\ UNCHANGED <<stack, phase, role, all>>
  BY DEF RunAdopt, Takes, Adopt
<1>2. /\ Inv /\ OwnersInv /\ AdoptExact(heap) /\ HeapInv(heap) /\ heap \in Heap
      /\ Pops(heap, g) /\ g \in Heap /\ j = Head(heap.queue).job /\ j.p = p
      /\ Gains(g, heap, j, Next1.src) /\ g.state = heap.state /\ g.resolved = heap.resolved
  BY <1>1, JobOwners
<1>3. RoleFits("adopt", role[p]) /\ p \in Promise
  BY <1>1, <1>2, JobFits
<1>4. g.state[p] = "pending" /\ g.resolved[p] /\ v \in Value /\ rej \in BOOLEAN
  BY <1>1, <1>2, Taken
<1>5. role[p] \in {"body", "main", "derived", "constructed"}
  BY <1>3 DEF RoleFits, AdopterKinds
<1>6. role' = role /\ j.kind # "adopt_subscribe"
  BY <1>1
<1>7. SettlesNow(g, heap', p, v, rej)
  <2> HIDE DEF p, v, rej, g
  <2> QED BY <1>1, <1>2, <1>3, <1>4, SettleNowEffect
<1>8. Apart(g, heap', {p}) /\ Grows(g, heap')
  BY <1>7 DEF SettlesNow
<1>9. Touches({p})
  <2>1. \A x \in {p} : role[x] # "wrapper" /\ (role[x] = "inner" => heap'.observed[x])
    BY <1>5
  <2> QED BY <1>1, <1>3, <1>6, <1>8, <2>1, JobTouches
<1>10. MainStays /\ AllStays({p})
  BY <1>1, <1>5, JobStays
<1> HIDE DEF p, j, v, rej, g
<1>11. AdoptExact(heap')
  <2>1. Head(heap.queue).job = j /\ Head(heap.queue).job.p = p
    BY <1>2
  <2>2. heap.state[p] = "pending" /\ heap.resolved[p]
    BY <1>2, <1>4
  <2> DEFINE k == Head(heap.queue).job
  <2>3. /\ k.kind = "adopt" /\ SettlesNow(g, heap', k.p, v, rej)
        /\ heap.state[k.p] = "pending" /\ heap.resolved[k.p]
    BY <1>1, <1>7, <2>1, <2>2
  <2> QED BY <1>2, <1>4, <2>3, AdoptedExact
<1>12. heap' \in Heap /\ Same(g, heap') /\ heap'.state[p] \in {"fulfilled", "rejected"}
  BY <1>7 DEF SettlesNow
<1>13. OthersStay(heap, heap')
  <2>1. OthersStay(heap, g)
    BY <1>1, <1>2, OthersGain DEF OtherKinds
  <2>2. OthersStay(g, heap')
    BY <1>12, OthersSame
  <2> QED BY <2>1, <2>2, OthersOn
<1>14. Completes({p})
  <2>1. \A w \in Waiters(heap') : w \in Waiters(heap)
    BY <1>2, <1>12 DEF Same, Gains
  <2>2. \A x : Waiting(heap', x, CodeKinds) = Waiting(heap, x, CodeKinds)
    <3> SUFFICES ASSUME NEW x PROVE Waiting(heap', x, CodeKinds) = Waiting(heap, x, CodeKinds)
      OBVIOUS
    <3>1. Waiting(heap, x, CodeKinds) =
            Waiting(g, x, CodeKinds) + IF j.p = x /\ j.kind \in CodeKinds THEN 1 ELSE 0
      BY <1>2, CodeGain
    <3>2. j.kind \notin CodeKinds
      BY <1>1 DEF CodeKinds
    <3>3. Waiting(g, x, CodeKinds) \in Nat
      BY <1>2, WaitingType
    <3> QED BY <1>12, <3>1, <3>2, <3>3 DEF Same
  <2>3. Will(stack, heap, p) = 0
    BY <1>2, <1>3, <1>4, WillIs DEF Owes
  <2>4. ~Owes(heap', role', p)
    BY <1>12 DEF Owes
  <2> QED BY <1>1, <1>11, <2>1, <2>2, <2>3, <2>4 DEF Completes, Will
<1> QED BY <1>9, <1>10, <1>13, <1>14, OwnersKept DEF Basic

\* The first half of an adoption hands it on.
LEMMA RunAdoptSubscribeOwners ==
  ASSUME Going, RunAdoptSubscribe PROVE OwnersInv'
<1> DEFINE p == Next1.job.p
           j == Next1.job
           v == Next1.value
           g == Popped
           r == Rx("adopt", p)
<1>1. /\ Draining /\ heap.queue # <<>> /\ j.kind = "adopt_subscribe"
      /\ heap' = Subscribe(g, v, r) /\ UNCHANGED <<stack, phase, role, all>>
  BY DEF RunAdoptSubscribe, Takes, AdoptSubscribe
<1>2. /\ Inv /\ OwnersInv /\ AdoptExact(heap) /\ HeapInv(heap) /\ heap \in Heap
      /\ Pops(heap, g) /\ g \in Heap /\ CountExact(g) /\ j = Head(heap.queue).job /\ j.p = p
      /\ Gains(g, heap, j, Next1.src)
  BY <1>1, JobOwners
<1>3. RoleFits("adopt_subscribe", role[p]) /\ p \in Promise
  BY <1>1, <1>2, JobFits
<1>4. v \in Promise
  BY <1>1, <1>2, Taken DEF JobTarget, Allocated
<1>5. r \in Reaction /\ r.kind = "adopt" /\ r.p = p
  BY <1>3, RxType DEF Rx, Kind
<1>6. Subscribes(g, heap', v, r)
  <2> HIDE DEF p, v, g, r
  <2> QED BY <1>1, <1>2, <1>4, <1>5, SubscribeEffect
<1>7. /\ heap' \in Heap /\ Gains(g, heap', r, v) /\ Grows(g, heap') /\ Apart(g, heap', {})
      /\ heap'.observed[v]
  BY <1>6 DEF Subscribes
<1>8. Touches({})
  BY <1>1, <1>7, JobTouches
<1>9. MainStays /\ AllStays({})
  BY <1>1, JobStays
<1>10. AdoptExact(heap')
  <2> HIDE DEF v, g
  <2> QED BY <1>1, <1>2, <1>6, HandedOnExact
<1> HIDE DEF p, j, v, g, r
<1>11. OthersStay(heap, heap')
  <2>1. OthersStay(heap, g)
    BY <1>1, <1>2, OthersGain DEF OtherKinds
  <2>2. OthersStay(g, heap')
    BY <1>2, <1>5, <1>7, OthersGain DEF OtherKinds
  <2> QED BY <2>1, <2>2, OthersOn
<1>12. Completes({})
  <2>1. RoleFits(r.kind, role'[r.p])
    BY <1>1, <1>3, <1>5 DEF RoleFits, AdopterKinds
  <2>2. ASSUME NEW w \in Waiters(heap')
        PROVE  w \in Waiters(heap) \/ RoleFits(w[1].kind, role'[w[1].p])
    <3>1. w \in Waiters(heap) \/ w = <<r, v>>
      BY <1>2, <1>7 DEF Gains
    <3> QED BY <2>1, <3>1
  <2>3. \A x : Waiting(heap', x, CodeKinds) = Waiting(heap, x, CodeKinds)
    <3> SUFFICES ASSUME NEW x PROVE Waiting(heap', x, CodeKinds) = Waiting(heap, x, CodeKinds)
      OBVIOUS
    <3>1. Waiting(heap, x, CodeKinds) =
            Waiting(g, x, CodeKinds) + IF j.p = x /\ j.kind \in CodeKinds THEN 1 ELSE 0
      BY <1>2, CodeGain
    <3>2. Waiting(heap', x, CodeKinds) =
            Waiting(g, x, CodeKinds) + IF r.p = x /\ r.kind \in CodeKinds THEN 1 ELSE 0
      BY <1>7, CodeGain
    <3>3. j.kind \notin CodeKinds /\ r.kind \notin CodeKinds
      BY <1>1, <1>5 DEF CodeKinds
    <3> QED BY <3>1, <3>2, <3>3
  <2> QED BY <1>1, <1>10, <2>2, <2>3 DEF Completes, Will
<1> QED BY <1>8, <1>9, <1>11, <1>12, OwnersKept DEF Basic

\* The code that the job of a continuation runs.
Begins(job, kind) ==
  \/ job = "async_resume" /\ kind = "async"
  \/ job = "then_react" /\ kind = "then"
  \/ job = "finally_react" /\ kind = "finally"

\* A job that runs user code: its frame takes over as the completer.
LEMMA JobStartsOwners ==
  ASSUME Going, Draining, heap.queue # <<>>, heap' = Popped, NEW f \in Frame,
         Begins(Next1.job.kind, f.kind), f.p = Next1.job.p, stack' = <<f>>,
         UNCHANGED <<phase, role, all>>
  PROVE  OwnersInv'
<1> DEFINE j == Next1.job
           p == Next1.job.p
           g == Popped
<1>1. /\ Inv /\ OwnersInv /\ AdoptExact(heap) /\ heap \in Heap
      /\ Pops(heap, g) /\ g \in Heap /\ j = Head(heap.queue).job /\ j.p = p
      /\ Gains(g, heap, j, Next1.src) /\ Apart(heap, g, {}) /\ phase = "drain" /\ stack = <<>>
  BY JobOwners
<1>2. RoleFits(j.kind, role[p]) /\ p \in Promise
  BY <1>1, JobFits
<1>3. /\ j.kind \in CodeKinds /\ j.kind \notin OtherKinds /\ j.kind \notin AdopterKinds
      /\ f.kind \in {"async", "then", "finally"}
  BY DEF Begins, CodeKinds, OtherKinds, AdopterKinds
<1>4. AdoptExact(g)
  <2> HIDE DEF g
  <2> QED BY <1>1, <1>3, PopExact
<1>5. Touches({})
  <2>1. g.observed = heap.observed /\ Grows(g, heap') /\ Apart(g, heap', {})
    BY JobOwners, HeapSame DEF Grows, Apart
  <2> QED BY <1>3, <2>1, JobTouches DEF AdopterKinds
<1>6. /\ Frames(stack') = {<<f.kind, f.p>>}
      /\ \A x : Runs(stack', x) = IF Codes(f, x) THEN 1 ELSE 0
      /\ \A x : Runs(stack, x) = 0
  <2>1. \A x : Runs(<<>>, x) = 0 /\ Frames(<<>>) = {}
    BY FS_EmptySet DEF Runs, Frames
  <2>2. stack' \in Seq(Frame) /\ stack'[1] = f /\ Under(stack', <<>>) /\ <<>> \in Seq(Frame)
    BY StartUnder
  <2>3. /\ Frames(stack') = Frames(<<>>) \cup {<<stack'[1].kind, stack'[1].p>>}
        /\ \A x : Runs(stack', x) = Runs(<<>>, x) + IF Codes(stack'[1], x) THEN 1 ELSE 0
    BY <2>2, OnTop
  <2> QED BY <1>1, <2>1, <2>2, <2>3
<1>7. heap' = g /\ f.p = p
  OBVIOUS
<1> HIDE DEF j, p, g
<1>8. Completes({})
  <2>1. \A w \in Waiters(heap') : w \in Waiters(heap)
    BY <1>1, <1>7 DEF Gains
  <2>2. RoleFits(f.kind, role'[f.p]) /\ f.kind # "script"
    BY <1>2, <1>7 DEF RoleFits, Begins, AdopterKinds, j, p
  <2>3. \A y \in Frames(stack') : y[1] # "script" /\ RoleFits(y[1], role'[y[2]])
    BY <1>6, <2>2
  <2>4. ASSUME NEW x PROVE Will(stack', heap', x) = Will(stack, heap, x)
    <3>1. Waiting(heap, x, CodeKinds) =
            Waiting(g, x, CodeKinds) + IF j.p = x /\ j.kind \in CodeKinds THEN 1 ELSE 0
      BY <1>1, CodeGain
    <3>2. Waiting(g, x, CodeKinds) \in Nat
      BY <1>1, WaitingType
    <3>3. Codes(f, x) <=> j.p = x /\ j.kind \in CodeKinds
      BY <1>1, <1>3, <1>7 DEF Codes
    <3> QED BY <1>6, <1>7, <3>1, <3>2, <3>3 DEF Will
  <2> QED BY <1>4, <1>7, <2>1, <2>3, <2>4 DEF Completes
<1>9. OthersStay(heap, heap')
  BY <1>1, <1>3, <1>7, OthersGain
<1>10. MainStays
  BY <1>1, <1>3, <1>6 DEF MainStays
<1>11. AllStays({})
  <2>1. NoLoop(stack')
    BY <1>3, <1>6 DEF NoLoop
  <2>2. NoLoop(stack)
    BY <1>1 DEF NoLoop, Frames
  <2> QED BY <2>1, <2>2 DEF AllStays
<1> QED BY <1>5, <1>8, <1>9, <1>10, <1>11, OwnersKept DEF Basic

\* A reaction without a handler, or the thunk of a finally: the continuation that
\* leaves the queue settles its promise.
LEMMA JobSettlesOwners ==
  ASSUME Going, Draining, heap.queue # <<>>,
         Next1.job.kind \in {"then_react", "finally_react", "finally_thunk"},
         NEW v \in Value, NEW rej \in BOOLEAN, Flat(v, rej),
         heap' = PromiseSettle(Popped, Next1.job.p, v, rej), UNCHANGED <<stack, phase, role, all>>
  PROVE  OwnersInv'
<1> DEFINE j == Next1.job
           p == Next1.job.p
           g == Popped
<1>1. /\ Inv /\ OwnersInv /\ AdoptExact(heap) /\ heap \in Heap
      /\ Pops(heap, g) /\ g \in Heap /\ HeapInv(g) /\ j = Head(heap.queue).job /\ j.p = p
      /\ Gains(g, heap, j, Next1.src) /\ stack = <<>> /\ g.observed = heap.observed
  BY JobOwners
<1>2. /\ RoleFits(j.kind, role[p]) /\ p \in Promise
      /\ j.kind \in CodeKinds => Runs(stack, p) = 0 /\ Waiting(g, p, CodeKinds) = 0
  BY <1>1, JobFits
<1>3. j.kind \in CodeKinds /\ j.kind \notin OtherKinds /\ j.kind \notin AdopterKinds
  BY DEF CodeKinds, OtherKinds, AdopterKinds
<1>4. p \in Allocated(g)
  BY Taken, <1>1
<1>5. heap' = PromiseSettle(g, p, v, rej) /\ UNCHANGED <<stack, phase, role, all>>
      /\ j.kind \in {"then_react", "finally_react", "finally_thunk"}
  OBVIOUS
<1>6. Settles(g, heap', p, v, rej)
  <2> HIDE DEF g, p
  <2> QED BY <1>1, <1>2, <1>5, SettleEffect
<1>7. AdoptExact(heap')
  <2> HIDE DEF g, p, j
  <2>1. AdoptExact(g)
    BY <1>1, <1>3, PopExact
  <2> QED BY <1>1, <1>4, <1>6, <2>1, SettleExact
<1>8. Adoption(g, heap', p)
  <2> HIDE DEF g, p
  <2> QED BY <1>1, <1>2, <1>6, SettlesWaits
<1>9. Same(g, heap')
  <2>1. rej \/ v \notin Promise
    BY DEF Flat
  <2> HIDE DEF g, p
  <2> QED BY <1>1, <1>2, <1>6, <2>1, SettlesFlat
<1>10. role[p] \in {"derived", "inner"} /\ (role[p] = "inner" => j.kind = "finally_thunk")
  BY <1>2, <1>5 DEF RoleFits
<1>11. Grows(g, heap') /\ Apart(g, heap', {p}) /\ heap'.resolved[p]
  BY <1>8 DEF Adoption
<1>12. role[p] = "inner" => heap'.observed[p]
  <2> SUFFICES ASSUME role[p] = "inner" PROVE heap'.observed[p]
    OBVIOUS
  <2>1. HeardFirst(heap, p)
    BY <1>1, <1>2 DEF OwnersInv, HiddenInv
  <2>2. Continues(j, p, {"finally_thunk"})
    BY <1>1, <1>10 DEF Continues
  <2> HIDE DEF g, p, j
  <2>3. heap.observed[p]
    BY <1>1, <1>2, <2>1, <2>2, HeardPops
  <2> QED BY <1>1, <1>2, <1>11, <2>3 DEF Grows
<1>13. Touches({p})
  BY <1>2, <1>3, <1>10, <1>11, <1>12, JobTouches DEF AdopterKinds
<1>14. MainStays /\ AllStays({p})
  BY <1>10, JobStays
<1> HIDE DEF j, p, g
<1>15. Completes({p})
  <2>1. \A w \in Waiters(heap') : w \in Waiters(heap)
    BY <1>1, <1>9 DEF Same, Gains
  <2>2. \A x : Waiting(heap', x, CodeKinds) = Waiting(g, x, CodeKinds)
    BY <1>9 DEF Same
  <2>3. ASSUME NEW x \in Promise \ {p} PROVE Will(stack', heap', x) = Will(stack, heap, x)
    <3>1. Waiting(heap, x, CodeKinds) =
            Waiting(g, x, CodeKinds) + IF j.p = x /\ j.kind \in CodeKinds THEN 1 ELSE 0
      BY <1>1, CodeGain
    <3>2. Waiting(g, x, CodeKinds) \in Nat
      BY <1>1, WaitingType
    <3>3. j.p # x
      BY <1>1
    <3> QED BY <1>5, <2>2, <3>1, <3>2, <3>3 DEF Will
  <2>4. Will(stack', heap', p) = 0
    BY <1>2, <1>3, <1>5, <2>2 DEF Will
  <2>5. ~Owes(heap', role', p)
    BY <1>11 DEF Owes
  <2> QED BY <1>5, <1>7, <2>1, <2>3, <2>4, <2>5 DEF Completes
<1>16. OthersStay(heap, heap')
  <2>1. OthersStay(heap, g)
    BY <1>1, <1>3, OthersGain
  <2>2. OthersStay(g, heap')
    BY <1>9, OthersSame
  <2> QED BY <2>1, <2>2, OthersOn
<1> QED BY <1>13, <1>14, <1>15, <1>16, OwnersKept DEF Basic

\* An await resumes: the job that owed the promise becomes the frame.
LEMMA RunAsyncResumeOwners ==
  ASSUME Going, RunAsyncResume PROVE OwnersInv'
<1> DEFINE f == Run("async", Next1.job.p)
<1>1. /\ Draining /\ heap.queue # <<>> /\ Next1.job.kind = "async_resume" /\ heap' = Popped
      /\ stack' = <<f>> /\ UNCHANGED <<phase, role, all>>
  BY DEF RunAsyncResume, Takes
<1>2. Next1.job.p \in Promise
  BY <1>1, JobFits DEF Going
<1>3. f \in Frame /\ f.kind = "async" /\ f.p = Next1.job.p
  BY <1>2, RunType DEF FrameKind
<1> HIDE DEF f
<1> QED BY <1>1, <1>3, JobStartsOwners DEF Begins

\* A reaction without a handler settles the derived promise itself.
LEMMA PassThroughOwners ==
  ASSUME Going, Draining, heap.queue # <<>>, Next1.job.kind \in {"then_react", "finally_react"},
         PassThrough
  PROVE  OwnersInv'
<1>1. Flat(Next1.value, Next1.rejected) /\ Next1.value \in Value /\ Next1.rejected \in BOOLEAN
  BY Taken, TakenFlat DEF Going
<1> QED BY <1>1, JobSettlesOwners DEF PassThrough

\* A then reaction: the handler's frame takes the debt over, or the settlement
\* passes through.
LEMMA RunThenReactOwners ==
  ASSUME Going, RunThenReact PROVE OwnersInv'
<1>1. Draining /\ heap.queue # <<>> /\ Next1.job.kind = "then_react"
  BY DEF RunThenReact, Takes
<1>2. CASE HasHandler
  <2> DEFINE f == Run("then", Next1.job.p)
  <2>1. heap' = Popped /\ stack' = <<f>> /\ UNCHANGED <<phase, role, all>>
    BY <1>2 DEF RunThenReact
  <2>2. Next1.job.p \in Promise
    BY <1>1, JobFits DEF Going
  <2>3. f \in Frame /\ f.kind = "then" /\ f.p = Next1.job.p
    BY <2>2, RunType DEF FrameKind
  <2> HIDE DEF f
  <2> QED BY <1>1, <2>1, <2>3, JobStartsOwners DEF Begins
<1>3. CASE ~HasHandler
  BY <1>1, <1>3, PassThroughOwners DEF RunThenReact
<1> QED BY <1>2, <1>3

\* A finally reaction: likewise.
LEMMA RunFinallyReactOwners ==
  ASSUME Going, RunFinallyReact PROVE OwnersInv'
<1>1. Draining /\ heap.queue # <<>> /\ Next1.job.kind = "finally_react"
  BY DEF RunFinallyReact, Takes
<1>2. CASE HasHandler
  <2> DEFINE f == [Run("finally", Next1.job.p) EXCEPT !.value = Next1.value,
                                                       !.rejected = Next1.rejected]
  <2>1. heap' = Popped /\ stack' = <<f>> /\ UNCHANGED <<phase, role, all>>
    BY <1>2 DEF RunFinallyReact
  <2>2. Next1.job.p \in Promise /\ Next1.value \in Value /\ Next1.rejected \in BOOLEAN
    BY <1>1, JobFits, Taken DEF Going
  <2>3. f \in Frame /\ f.kind = "finally" /\ f.p = Next1.job.p
    BY <2>2 DEF Run, Frame, FrameKind
  <2> HIDE DEF f
  <2> QED BY <1>1, <2>1, <2>3, JobStartsOwners DEF Begins
<1>3. CASE ~HasHandler
  BY <1>1, <1>3, PassThroughOwners DEF RunFinallyReact
<1> QED BY <1>2, <1>3

\* The thunk of a finally settles the intermediate promise.
LEMMA RunFinallyThunkOwners ==
  ASSUME Going, RunFinallyThunk PROVE OwnersInv'
<1>1. /\ Draining /\ heap.queue # <<>> /\ Next1.job.kind = "finally_thunk"
      /\ UNCHANGED <<stack, phase, role, all>>
  BY DEF RunFinallyThunk, Takes
<1>2. /\ Next1.value \in Value /\ Next1.job.value \in Value /\ Next1.job.rejected \in BOOLEAN
      /\ Flat(Next1.job.value, Next1.job.rejected) /\ Flat(Next1.value, TRUE)
  BY <1>1, Taken, TakenFlat DEF Going, Flat
<1>3. CASE Next1.rejected
  <2>1. heap' = PromiseSettle(Popped, Next1.job.p, Next1.value, TRUE)
    BY <1>3 DEF RunFinallyThunk
  <2> QED BY <1>1, <1>2, <2>1, JobSettlesOwners
<1>4. CASE ~Next1.rejected
  <2>1. heap' = PromiseSettle(Popped, Next1.job.p, Next1.job.value, Next1.job.rejected)
    BY <1>4 DEF RunFinallyThunk
  <2> QED BY <1>1, <1>2, <2>1, JobSettlesOwners
<1> QED BY <1>3, <1>4

\* The observer of the module's promise has run: the promise is settled, and a
\* rejection has ended the process.
LEMMA RunModuleDoneOwners ==
  ASSUME Going, RunModuleDone PROVE OwnersInv'
<1> DEFINE j == Next1.job
           p == Next1.job.p
           g == Popped
<1>1. /\ Draining /\ heap.queue # <<>> /\ j.kind = "module_done" /\ heap' = g
      /\ UNCHANGED <<stack, role, all>> /\ phase' = IF Next1.rejected THEN "uncaught" ELSE phase
  BY DEF RunModuleDone, Takes
<1>2. /\ Inv /\ OwnersInv /\ AdoptExact(heap) /\ heap \in Heap
      /\ Pops(heap, g) /\ g \in Heap /\ j = Head(heap.queue).job /\ j.p = p
      /\ Gains(g, heap, j, Next1.src) /\ phase = "drain" /\ stack = <<>>
      /\ g.state = heap.state /\ g.observed = heap.observed /\ Apart(heap, g, {})
  BY <1>1, JobOwners
<1>3. /\ Next1.src \in Promise /\ Settled(heap, Next1.src)
      /\ Next1.rejected = (heap.state[Next1.src] = "rejected")
  BY <1>1, <1>2, TakenFlat
<1>4. Touches({})
  <2>1. Grows(g, heap') /\ Apart(g, heap', {})
    BY <1>1, <1>2, HeapSame DEF Grows, Apart
  <2> QED BY <1>1, <2>1, JobTouches
<1>5. Next1.src = p
  BY <1>1, <1>2, JobFits DEF OwnersInv, MainInv
<1>6. AllStays({})
  BY <1>1 DEF AllStays
<1> HIDE DEF j, p, g
<1>7. Completes({})
  <2>1. \A w \in Waiters(heap') : w \in Waiters(heap)
    BY <1>1, <1>2 DEF Gains
  <2>2. AdoptExact(g)
    BY <1>1, <1>2, PopExact DEF AdopterKinds
  <2>3. ASSUME NEW x PROVE Waiting(g, x, CodeKinds) = Waiting(heap, x, CodeKinds)
    <3>1. Waiting(heap, x, CodeKinds) =
            Waiting(g, x, CodeKinds) + IF j.p = x /\ j.kind \in CodeKinds THEN 1 ELSE 0
      BY <1>2, CodeGain
    <3>2. j.kind \notin CodeKinds
      BY <1>1 DEF CodeKinds
    <3>3. Waiting(g, x, CodeKinds) \in Nat
      BY <1>2, WaitingType
    <3> QED BY <3>1, <3>2, <3>3
  <2> QED BY <1>1, <2>1, <2>2, <2>3 DEF Completes, Will
<1>8. ElementsStay(heap, heap')
  BY <1>1, <1>2, ElementsGain
<1>9. MainInv'
  <2>1. MainInv
    BY <1>2 DEF OwnersInv
  <2>2. \A w \in Waiters(heap') : w[1].kind = "module_done" => w[2] = w[1].p
    BY <1>1, <1>2, <2>1 DEF MainInv, Gains
  <2>3. ASSUME NEW x \in Promise, role'[x] = "main"
        PROVE  /\ TopLevelAwait
               /\ \A i \in 1..Len(stack') : stack'[i].kind = "script" => stack'[i].p = x
               /\ phase' = "drain" =>
                    heap'.state[x] = "fulfilled" \/ <<Rx("module_done", x), x>> \in Waiters(heap')
               /\ phase' = "exited" => heap'.state[x] # "rejected"
    <3>1. /\ TopLevelAwait
          /\ \A i \in 1..Len(stack) : stack[i].kind = "script" => stack[i].p = x
          /\ heap.state[x] = "fulfilled" \/ <<Rx("module_done", x), x>> \in Waiters(heap)
      BY <1>1, <1>2, <2>1, <2>3 DEF MainInv
    <3>2. phase' # "exited"
      BY <1>1, <1>2
    <3>3. ASSUME phase' = "drain"
          PROVE  heap'.state[x] = "fulfilled" \/ <<Rx("module_done", x), x>> \in Waiters(heap')
      <4>1. CASE x = p
        BY <1>1, <1>2, <1>3, <1>5, <3>3, <4>1 DEF Settled
      <4>2. CASE x # p
        <5>1. Rx("module_done", x).p = x
          BY DEF Rx
        <5>2. <<Rx("module_done", x), x>> # <<j, Next1.src>>
          BY <1>2, <4>2, <5>1
        <5> QED BY <1>1, <1>2, <3>1, <5>2 DEF Gains
      <4> QED BY <4>1, <4>2
    <3> QED BY <1>1, <3>1, <3>2, <3>3
  <2> QED BY <2>2, <2>3 DEF MainInv
<1> QED BY <1>4, <1>6, <1>7, <1>8, <1>9, HiddenKept, CompletionKept, AllKept DEF OwnersInv, Basic

\* The drain ends: a module's promise that is rejected would still have its observer
\* in the queue.
LEMMA DrainEndOwners ==
  ASSUME Going, DrainEnd PROVE OwnersInv'
<1>1. /\ phase = "drain" /\ stack = <<>> /\ heap.queue = <<>> /\ heap' = heap /\ stack' = stack
      /\ role' = role /\ all' = all
  BY DEF DrainEnd, Draining
<1>2. Inv /\ OwnersInv /\ AdoptExact(heap)
  BY DEF Going, OwnersInv, CompletionInv
<1>3. Same(heap, heap') /\ Grows(heap, heap') /\ Apart(heap, heap', {})
  BY <1>1, HeapSame
<1>4. Touches({}) /\ OthersStay(heap, heap')
  BY <1>1, <1>3, TouchesOpen, OthersSame
<1>5. Completes({}) /\ AllStays({})
  BY <1>1, <1>2 DEF Completes, AllStays
<1>6. MainInv'
  <2>1. MainInv
    BY <1>2 DEF OwnersInv
  <2>2. ASSUME NEW x \in Promise, role[x] = "main" PROVE heap.state[x] # "rejected"
    <3>1. heap.state[x] = "fulfilled" \/ <<Rx("module_done", x), x>> \in Waiters(heap)
      BY <1>1, <2>1, <2>2 DEF MainInv
    <3>2. ASSUME <<Rx("module_done", x), x>> \in Waiters(heap) PROVE heap.state[x] = "pending"
      <4>1. \/ \E q \in Promise : \E i \in 1..Len(heap.reactions[q]) :
                 <<Rx("module_done", x), x>> = <<heap.reactions[q][i], q>>
            \/ \E i \in 1..Len(heap.queue) :
                 <<Rx("module_done", x), x>> = <<heap.queue[i].job, heap.queue[i].src>>
        BY <3>2, WaiterIs
      <4>2. PICK i \in 1..Len(heap.reactions[x]) : TRUE
        BY <1>1, <4>1
      <4>3. heap.reactions[x] # <<>>
        BY <4>2
      <4> QED BY <1>2, <4>3 DEF Inv, HeapInv, ReactionsPending
    <3> QED BY <3>1, <3>2
  <2>3. phase' # "drain"
    BY DEF DrainEnd
  <2> QED BY <1>1, <2>1, <2>2, <2>3 DEF MainInv
<1> QED BY <1>4, <1>5, <1>6, HiddenKept, CompletionKept, AllKept DEF OwnersInv, Basic, OthersStay

\* A step that changes nothing.
LEMMA StutterOwners ==
  ASSUME OwnersInv, UNCHANGED vars PROVE OwnersInv'
<1>1. heap' = heap /\ stack' = stack /\ phase' = phase /\ role' = role /\ all' = all
  BY DEF vars
<1>2. CompletionInv' /\ HiddenInv'
  BY <1>1 DEF OwnersInv, CompletionInv, RolesFit, CodeExact, Running, OwesCode, HiddenInv
<1>3. MainInv'
  BY <1>1 DEF OwnersInv, MainInv
<1>4. AllInv'
  BY <1>1 DEF OwnersInv, AllInv, LoopRuns, Unsubscribed, Counted
<1> QED BY <1>2, <1>3, <1>4 DEF OwnersInv
================================================================================
