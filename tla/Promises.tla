-------------------------------- MODULE Promises --------------------------------
(***************************************************************************)
(* A compiled program that uses promises: user code (the module body,      *)
(* async bodies, then/finally handlers, executors) runs to completion on   *)
(* one C stack and calls the promise API; jsrt_run_microtasks drains the   *)
(* queue it leaves behind.                                                 *)
(***************************************************************************)
EXTENDS PromiseHeap, Integers

CONSTANTS
  Ops,           \* the API calls this program makes
  MaxAll,        \* bound: the length of an array given to Promise.all
  TopLevelAwait  \* does the module body itself await?

AllOps == {"resolve", "reject", "then", "finally", "all", "construct", "async"}

ASSUME ProgramAssumption ==
  Ops \subseteq AllOps /\ MaxAll \in Nat /\ TopLevelAwait \in BOOLEAN

VARIABLES
  heap,   \* promise objects and microtask queue
  stack,  \* the user code (and Promise.all's loop) on the C stack, innermost first
  phase,  \* what main is doing
  role,   \* history: what each promise was allocated for
  all     \* the AllState of each promise a Promise.all returned

vars == <<heap, stack, phase, role, all>>

FrameKind == {"script", "async", "then", "finally", "executor", "all"}

\* p is the promise the code settles when it finishes (NoPromise: none);
\* value and rejected are what a finally callback will pass through; index is the
\* next element of the subscribe loop of Promise.all, the one frame that is C code.
Frame == [kind : FrameKind, p : Promise \cup {NoPromise}, value : Value,
          rejected : BOOLEAN, index : Nat]

Run(kind, p) == [kind |-> kind, p |-> p, value |-> Undefined, rejected |-> FALSE, index |-> 1]

Role == {"none", "value", "wrapper", "body", "main", "derived", "inner", "all", "constructed"}

\* input is the array of the call; elems is a history field: the promise that
\* stands for each element subscribed to so far.
AllState == [remaining : Int, results : Seq(Value), input : Seq(Value), elems : Seq(Promise)]

Halted == {"exited", "panicked", "uncaught"}

Init ==
  /\ all = [p \in Promise |-> [remaining |-> 0, results |-> <<>>, input |-> <<>>, elems |-> <<>>]]
  /\ phase = "script"
  /\ IF TopLevelAwait
     THEN \E m \in Promise :
            /\ heap = PromiseNew(EmptyHeap, m)
            /\ stack = <<Run("async", m), Run("script", m)>>
            /\ role = [p \in Promise |-> IF p = m THEN "main" ELSE "none"]
     ELSE /\ heap = EmptyHeap
          /\ stack = <<Run("script", NoPromise)>>
          /\ role = [p \in Promise |-> "none"]

-----------------------------------------------------------------------------
(* What user code can do while it is on top of the stack.                  *)

Top == Head(stack)

\* The frame of main while it runs a module body that awaits is no user code.
UserRuns == /\ stack # <<>> /\ Top.kind # "all"
            /\ Top.kind = "script" => ~TopLevelAwait

\* A call of an async function or of new Promise that has not returned yet has
\* not handed its promise to anyone. Only such calls nest: the bottom frame was
\* entered from main.
Returning == {stack[i].p : i \in 1..(Len(stack) - 1)}

\* Wrappers, the module's own promise and a finally's intermediate promise are
\* never handed to the program.
Reachable == {p \in Promise \ Returning :
                role[p] \in {"value", "body", "derived", "all", "constructed"}}

UserValue == Plain \cup Reachable

Calls(op) == UserRuns /\ op \in Ops

\* Promise.resolve(v) of a plain value, and Promise.reject(v).
CallResolve(v, q) ==
  /\ Calls("resolve") /\ v \in Plain /\ q \in Free(heap)
  /\ heap' = PromiseResolve(heap, v, q)
  /\ role' = [role EXCEPT ![q] = "value"]
  /\ UNCHANGED <<stack, phase, all>>

CallReject(v, q) ==
  /\ Calls("reject") /\ v \in UserValue /\ q \in Free(heap)
  /\ heap' = PromiseReject(heap, v, q)
  /\ role' = [role EXCEPT ![q] = "value"]
  /\ UNCHANGED <<stack, phase, all>>

\* p.then(f, g), p.catch(g): handlers says which of f and g is a function.
CallThen(p, handlers, d) ==
  /\ Calls("then") /\ p \in Reachable /\ d \in Free(heap)
  /\ heap' = Subscribe(PromiseNew(heap, d), p,
                       [Rx("then_react", d) EXCEPT !.handlers = handlers])
  /\ role' = [role EXCEPT ![d] = "derived"]
  /\ UNCHANGED <<stack, phase, all>>

CallFinally(p, handlers, d) ==
  /\ Calls("finally") /\ p \in Reachable /\ d \in Free(heap)
  /\ handlers \in {{}, {"fulfilled", "rejected"}}
  /\ heap' = Subscribe(PromiseNew(heap, d), p,
                       [Rx("finally_react", d) EXCEPT !.handlers = handlers])
  /\ role' = [role EXCEPT ![d] = "derived"]
  /\ UNCHANGED <<stack, phase, all>>

CallAll(elem, p) ==
  /\ Calls("all") /\ p \in Free(heap)
  /\ Cardinality({i \in DOMAIN elem : elem[i] \in Plain}) < Cardinality(Free(heap))
  /\ all' = [all EXCEPT ![p] = [remaining |-> Len(elem), input |-> elem, elems |-> <<>>,
                                results |-> [i \in 1..Len(elem) |-> Undefined]]]
  /\ role' = [role EXCEPT ![p] = "all"]
  /\ LET h == PromiseNew(heap, p)
     IN IF elem = <<>>
        THEN heap' = PromiseSettle(h, p, ResultsArray, FALSE) /\ UNCHANGED stack
        ELSE heap' = h /\ stack' = <<Run("all", p)>> \o stack
  /\ UNCHANGED phase

\* Mutant of AllSubscribe: the loop stops one element short.
AllSubscribeShort(q) ==
  /\ stack # <<>> /\ Top.kind = "all"
  /\ LET p == Top.p
         v == all[p].input[Top.index]
     IN /\ v \notin Promise => q \in Free(heap)
        /\ heap' = Subscribe(PromiseResolve(heap, v, q), Resolved(v, q), AllReaction(p, Top.index))
        /\ all' = [all EXCEPT ![p].elems = Append(@, Resolved(v, q))]
        /\ role' = IF v \in Promise THEN role ELSE [role EXCEPT ![q] = "wrapper"]
        /\ stack' = IF Top.index + 1 >= Len(all[p].input) THEN Tail(stack)
                    ELSE [stack EXCEPT ![1].index = @ + 1]
  /\ UNCHANGED phase

\* One turn of the loop of Promise.all; nothing else runs until the loop is over.
AllSubscribe(q) ==
  /\ stack # <<>> /\ Top.kind = "all"
  /\ LET p == Top.p
         v == all[p].input[Top.index]
     IN /\ v \notin Promise => q \in Free(heap)
        /\ heap' = Subscribe(PromiseResolve(heap, v, q), Resolved(v, q), AllReaction(p, Top.index))
        /\ all' = [all EXCEPT ![p].elems = Append(@, Resolved(v, q))]
        /\ role' = IF v \in Promise THEN role ELSE [role EXCEPT ![q] = "wrapper"]
        /\ stack' = IF Top.index = Len(all[p].input) THEN Tail(stack)
                    ELSE [stack EXCEPT ![1].index = @ + 1]
  /\ UNCHANGED phase

\* new Promise(executor): the executor runs now, on this stack.
CallConstruct(p) ==
  /\ Calls("construct") /\ p \in Free(heap)
  /\ heap' = PromiseNew(heap, p)
  /\ stack' = <<Run("executor", p)>> \o stack
  /\ role' = [role EXCEPT ![p] = "constructed"]
  /\ UNCHANGED <<phase, all>>

\* The resolve and reject functions an executor was given: they may be called
\* by anyone, at any time, any number of times.
CallResolver(p, v, rej) ==
  /\ UserRuns /\ role[p] = "constructed" /\ v \in UserValue
  /\ heap' = PromiseSettle(heap, p, v, rej)
  /\ UNCHANGED <<stack, phase, role, all>>

\* Calling an async function runs its prefix now, on this stack.
CallAsync(p) ==
  /\ Calls("async") /\ p \in Free(heap)
  /\ heap' = PromiseNew(heap, p)
  /\ stack' = <<Run("async", p)>> \o stack
  /\ role' = [role EXCEPT ![p] = "body"]
  /\ UNCHANGED <<phase, all>>

-----------------------------------------------------------------------------
(* How user code leaves the stack.                                         *)

Leaves(kind) == stack # <<>> /\ Top.kind = kind /\ stack' = Tail(stack)

\* await v: subscribe the body's resume point, then leave the stack.
Await(v, q) ==
  /\ Leaves("async") /\ v \in UserValue
  /\ v \notin Promise => q \in Free(heap)
  /\ heap' = Subscribe(PromiseResolve(heap, v, q), Resolved(v, q), Rx("async_resume", Top.p))
  /\ role' = IF v \in Promise THEN role ELSE [role EXCEPT ![q] = "wrapper"]
  /\ UNCHANGED <<phase, all>>

AsyncReturn(v) ==
  /\ Leaves("async") /\ v \in UserValue
  /\ heap' = PromiseSettle(heap, Top.p, v, FALSE)
  /\ UNCHANGED <<phase, role, all>>

AsyncThrow(v) ==
  /\ Leaves("async") /\ v \in UserValue
  /\ heap' = PromiseSettle(heap, Top.p, v, TRUE)
  /\ UNCHANGED <<phase, role, all>>

\* The end of then_react: what the handler answered settles the derived promise.
HandlerReturn(v) ==
  /\ Leaves("then") /\ v \in UserValue
  /\ heap' = PromiseSettle(heap, Top.p, v, FALSE)
  /\ UNCHANGED <<phase, role, all>>

HandlerThrow(v) ==
  /\ \/ Leaves("then") \/ Leaves("finally")
  /\ v \in UserValue
  /\ heap' = PromiseSettle(heap, Top.p, v, TRUE)
  /\ UNCHANGED <<phase, role, all>>

\* Mutant of FinallyReturn: the thunk is subscribed before the adoption is queued.
FinallyReturnThunkFirst(v, inner, q) ==
  /\ Leaves("finally") /\ v \in UserValue
  /\ inner \in Free(heap)
  /\ v \notin Promise => q \in Free(heap) \ {inner}
  /\ LET made  == PromiseResolve(PromiseNew(heap, inner), v, q)
         thunk == [Rx("finally_thunk", inner) EXCEPT !.value = Top.value,
                                                     !.rejected = Top.rejected]
     IN heap' = PromiseSettle(Subscribe(made, Resolved(v, q), thunk), Top.p, inner, FALSE)
  /\ role' = [p \in Promise |-> IF p = inner THEN "inner"
                                ELSE IF p = q /\ v \notin Promise THEN "wrapper" ELSE role[p]]
  /\ UNCHANGED <<phase, all>>

\* The end of finally_react: the derived promise adopts the intermediate one
\* before the thunk is subscribed to what the callback answered.
FinallyReturn(v, inner, q) ==
  /\ Leaves("finally") /\ v \in UserValue
  /\ inner \in Free(heap)
  /\ v \notin Promise => q \in Free(heap) \ {inner}
  /\ LET adopted == PromiseSettle(PromiseNew(heap, inner), Top.p, inner, FALSE)
         thunk   == [Rx("finally_thunk", inner) EXCEPT !.value = Top.value,
                                                       !.rejected = Top.rejected]
     IN heap' = Subscribe(PromiseResolve(adopted, v, q), Resolved(v, q), thunk)
  /\ role' = [p \in Promise |-> IF p = inner THEN "inner"
                                ELSE IF p = q /\ v \notin Promise THEN "wrapper" ELSE role[p]]
  /\ UNCHANGED <<phase, all>>

ExecutorReturn ==
  /\ Leaves("executor")
  /\ UNCHANGED <<heap, phase, role, all>>

ExecutorThrow(v) ==
  /\ Leaves("executor") /\ v \in UserValue
  /\ heap' = PromiseSettle(heap, Top.p, v, TRUE)
  /\ UNCHANGED <<phase, role, all>>

\* The module body is over: main (after observing the module's own promise,
\* when the body awaits) enters the drain.
ScriptEnd ==
  /\ Leaves("script")
  /\ heap' = IF TopLevelAwait THEN Subscribe(heap, Top.p, Rx("module_done", Top.p)) ELSE heap
  /\ phase' = "drain"
  /\ UNCHANGED <<role, all>>

ScriptThrow ==
  /\ Leaves("script") /\ ~TopLevelAwait
  /\ phase' = "uncaught"
  /\ UNCHANGED <<heap, role, all>>

-----------------------------------------------------------------------------
(* jsrt_run_microtasks: one job of the queue at a time, off the queue      *)
(* before it runs.                                                         *)

Draining == phase = "drain" /\ stack = <<>>

Next1 == Head(heap.queue)
Popped == [heap EXCEPT !.queue = Tail(@)]

Takes(kind) == Draining /\ heap.queue # <<>> /\ Next1.job.kind = kind

RunAdopt ==
  /\ Takes("adopt")
  /\ heap' = Adopt(Popped, Next1.job.p, Next1.value, Next1.rejected)
  /\ UNCHANGED <<stack, phase, role, all>>

RunAdoptSubscribe ==
  /\ Takes("adopt_subscribe")
  /\ heap' = AdoptSubscribe(Popped, Next1.job.p, Next1.value)
  /\ UNCHANGED <<stack, phase, role, all>>

RunAsyncResume ==
  /\ Takes("async_resume")
  /\ heap' = Popped
  /\ stack' = <<Run("async", Next1.job.p)>>
  /\ UNCHANGED <<phase, role, all>>

\* Is there a closure for the settlement this job delivers?
HasHandler == (IF Next1.rejected THEN "rejected" ELSE "fulfilled") \in Next1.job.handlers

PassThrough ==
  /\ heap' = PromiseSettle(Popped, Next1.job.p, Next1.value, Next1.rejected)
  /\ UNCHANGED <<stack, phase, role, all>>

RunThenReact ==
  /\ Takes("then_react")
  /\ IF HasHandler
     THEN /\ heap' = Popped
          /\ stack' = <<Run("then", Next1.job.p)>>
          /\ UNCHANGED <<phase, role, all>>
     ELSE PassThrough

RunFinallyReact ==
  /\ Takes("finally_react")
  /\ IF HasHandler
     THEN /\ heap' = Popped
          /\ stack' = <<[Run("finally", Next1.job.p) EXCEPT !.value = Next1.value,
                                                            !.rejected = Next1.rejected]>>
          /\ UNCHANGED <<phase, role, all>>
     ELSE PassThrough

\* A callback that rejected wins over the settlement passed through.
RunFinallyThunk ==
  /\ Takes("finally_thunk")
  /\ heap' = IF Next1.rejected
             THEN PromiseSettle(Popped, Next1.job.p, Next1.value, TRUE)
             ELSE PromiseSettle(Popped, Next1.job.p, Next1.job.value, Next1.job.rejected)
  /\ UNCHANGED <<stack, phase, role, all>>

RunAllElement ==
  /\ Takes("all_element")
  /\ LET p == Next1.job.p
         s == [all[p] EXCEPT !.results[Next1.job.index] = Next1.value, !.remaining = @ - 1]
     IN IF Next1.rejected
        THEN heap' = PromiseSettle(Popped, p, Next1.value, TRUE) /\ UNCHANGED all
        ELSE /\ all' = [all EXCEPT ![p] = s]
             /\ heap' = IF s.remaining = 0 THEN PromiseSettle(Popped, p, ResultsArray, FALSE)
                        ELSE Popped
  /\ UNCHANGED <<stack, phase, role>>

\* Mutant of RunModuleDone: the observer only silences the rejection.
RunModuleDoneSilent ==
  /\ Takes("module_done")
  /\ heap' = Popped
  /\ UNCHANGED <<stack, phase, role, all>>

\* The observer of the module's own promise: a rejected body ends the process.
RunModuleDone ==
  /\ Takes("module_done")
  /\ heap' = Popped
  /\ phase' = IF Next1.rejected THEN "uncaught" ELSE phase
  /\ UNCHANGED <<stack, role, all>>

\* Mutant of DrainEnd: the drain forgets the rejections nobody heard.
DrainEndUnchecked ==
  /\ Draining /\ heap.queue = <<>>
  /\ phase' = "exited"
  /\ UNCHANGED <<heap, stack, role, all>>

DrainEnd ==
  /\ Draining /\ heap.queue = <<>>
  /\ phase' = IF heap.unhandledRejections > 0 THEN "panicked" ELSE "exited"
  /\ UNCHANGED <<heap, stack, role, all>>

Terminated == phase \in Halted /\ UNCHANGED vars

-----------------------------------------------------------------------------

UserStep ==
  \/ \E v \in UserValue, q \in Promise : CallResolve(v, q) \/ CallReject(v, q)
  \/ \E p, d \in Promise, handlers \in SUBSET {"fulfilled", "rejected"} :
       CallThen(p, handlers, d) \/ CallFinally(p, handlers, d)
  \/ \E n \in 0..MaxAll, p \in Promise : \E elem \in [1..n -> UserValue] : CallAll(elem, p)
  \/ \E p \in Promise : CallConstruct(p) \/ CallAsync(p)
  \/ \E p \in Promise, v \in UserValue, rej \in BOOLEAN : CallResolver(p, v, rej)

UserLeaves ==
  \/ \E q \in Promise : AllSubscribe(q)
  \/ \E v \in UserValue, q \in Promise : Await(v, q)
  \/ \E v \in UserValue, inner, q \in Promise : FinallyReturn(v, inner, q)
  \/ \E v \in UserValue : \/ AsyncReturn(v) \/ AsyncThrow(v) \/ HandlerReturn(v)
                          \/ HandlerThrow(v) \/ ExecutorThrow(v)
  \/ ExecutorReturn \/ ScriptEnd \/ ScriptThrow

RunJob ==
  \/ RunAdopt \/ RunAdoptSubscribe \/ RunAsyncResume \/ RunThenReact
  \/ RunFinallyReact \/ RunFinallyThunk \/ RunAllElement \/ RunModuleDone

Next == UserStep \/ UserLeaves \/ RunJob \/ DrainEnd \/ Terminated

\* User code on the stack ends (no handler loops forever), and main's drain
\* loop is never descheduled: the process has one thread.
Fairness == WF_vars(UserLeaves) /\ WF_vars(RunJob) /\ WF_vars(DrainEnd)

Spec == Init /\ [][Next]_vars
FairSpec == Spec /\ Fairness

-----------------------------------------------------------------------------
(* What the promise machinery guarantees.                                  *)

TypeOK ==
  /\ heap \in Heap
  /\ stack \in Seq(Frame)
  /\ phase \in {"script", "drain"} \cup Halted
  /\ role \in [Promise -> Role]
  /\ all \in [Promise -> AllState]

\* The rejections nobody listens to: the flag of a promise says exactly that it
\* was rejected and has never been subscribed to (subscribing clears it), and the
\* counter the drain reads is the number of such promises.
Unheard == {p \in Promise : heap.state[p] = "rejected" /\ ~heap.observed[p]}

UnhandledExact ==
  /\ Unheard = {p \in Promise : heap.unhandled[p]}
  /\ heap.unhandledRejections = Cardinality(Unheard)

\* The process dies of an unhandled rejection exactly when the drain ends with
\* a rejection nobody ever listened to.
ExitReport ==
  /\ phase = "exited" => Unheard = {}
  /\ phase = "panicked" => Unheard # {}

\* Every job in the queue delivers the settlement its promise has now: the
\* value captured when the job was queued is never stale.
JobsCarrySettlement == JobsCarry(heap)

\* The bodies and handlers on the stack that will settle p when they end.
Running(p) ==
  Cardinality({i \in DOMAIN stack : stack[i].p = p /\ stack[i].kind \in {"async", "then", "finally"}})

Completers(p) ==
  Running(p) + Waiting(heap, p, {"adopt", "adopt_subscribe", "async_resume", "then_react",
                                 "finally_react", "finally_thunk"})

\* The elements the loop of Promise.all has not come to yet.
Unsubscribed(p) ==
  IF \E i \in DOMAIN stack : stack[i].kind = "all" /\ stack[i].p = p
  THEN Len(all[p].input) - Len(all[p].elems) ELSE 0

\* No completion is lost and none happens twice: a promise that something in the
\* runtime must settle (an async body, a then/finally, an adoption, a Promise.all)
\* has exactly one continuation left that will do it, and none once it is
\* settled; Promise.all still waits for exactly the elements it has not counted.
OneCompleter ==
  \A p \in Promise :
    LET owed == /\ heap.state[p] = "pending"
                /\ \/ role[p] \in {"body", "main", "derived", "inner"}
                   \/ heap.resolved[p]
    IN /\ Completers(p) = IF owed THEN 1 ELSE 0
       /\ role[p] = "all" /\ ~heap.resolved[p] =>
            /\ all[p].remaining > 0
            /\ all[p].remaining = Waiting(heap, p, {"all_element"}) + Unsubscribed(p)

\* The array a Promise.all fulfils with holds the value of every element, in the
\* order of the input whatever the order they settled in.
AllInOrder ==
  \A p \in Promise :
    role[p] = "all" /\ heap.state[p] = "fulfilled" =>
      /\ Len(all[p].elems) = Len(all[p].input)
      /\ \A i \in DOMAIN all[p].elems :
           LET e == all[p].elems[i]
           IN heap.state[e] = "fulfilled" /\ all[p].results[i] = heap.value[e]

\* The promises the program cannot reach, the intermediate promise of a finally
\* and the wrapper of an awaited value, never count as unhandled, not even between
\* two jobs: finally_react registers the adoption before the thunk.
HiddenNeverUnhandled ==
  \A p \in Promise : role[p] \in {"inner", "wrapper"} => ~heap.unhandled[p]

\* No promise is fulfilled with a promise: whatever a body, a handler or an executor
\* answers, the settlement of the innermost promise is what subscribers hear.
NeverNested == FulfilledFlat(heap)

\* A module body that awaits and is rejected never ends the process normally.
RejectedModuleFails ==
  \A p \in Promise : role[p] = "main" /\ heap.state[p] = "rejected" => phase # "exited"

\* The first resolution wins: once a promise is resolved, only the job that
\* completes its adoption may settle it, with the settlement of the promise it
\* adopted; and a settled promise never changes again.
SettlesOnce ==
  \A p \in Promise :
    heap.resolved[p] =>
      /\ heap'.resolved[p]
      /\ \/ heap'.state[p] = heap.state[p] /\ heap'.value[p] = heap.value[p]
         \/ /\ heap.state[p] = "pending"
            /\ Takes("adopt") /\ Next1.job.p = p
            /\ heap'.state[p] = heap.state[Next1.src]
            /\ heap'.value[p] = heap.value[Next1.src]

FirstResolutionWins == [][SettlesOnce]_vars

\* A body that awaits a settled promise runs again, whatever else keeps the
\* queue busy, unless the process ends first.
AwaitResumes ==
  \A p \in Promise :
    Queued(heap, p, {"async_resume"}) # {} ~> (Running(p) > 0 \/ phase \in Halted)

-----------------------------------------------------------------------------
(* The inductive invariant: the heap is well formed, and the stack, the    *)
(* roles and the arrays given to Promise.all name allocated promises.      *)

StackInv ==
  \A i \in 1..Len(stack) :
    /\ stack[i].kind # "script" \/ TopLevelAwait => stack[i].p \in Allocated(heap)
    /\ Flat(stack[i].value, stack[i].rejected)
    /\ stack[i].kind = "script" => i = Len(stack)
    /\ stack[i].kind = "all" => stack[i].index \in 1..Len(all[stack[i].p].input)

NamesInv ==
  /\ \A p \in Promise : role[p] # "none" => p \in Allocated(heap)
  /\ \A p \in Promise : \A i \in 1..Len(all[p].input) :
       all[p].input[i] \in Promise => all[p].input[i] \in Allocated(heap)

PhaseInv ==
  /\ phase \in Halted => stack = <<>>
  /\ phase = "exited" => heap.unhandledRejections = 0
  /\ phase = "panicked" => heap.unhandledRejections > 0

\* What every state of a run satisfies and every step preserves: the stack of
\* frames, the queue of jobs and the settled promises agree with each other.
Inv == TypeOK /\ HeapInv(heap) /\ StackInv /\ NamesInv /\ PhaseInv

-----------------------------------------------------------------------------
(* A second inductive invariant, on top of Inv: which code completes which *)
(* promise, and who has subscribed to the promises nobody can name.        *)

\* The code of a frame or of a continuation settles promises of its own role only.
RoleFits(kind, x) ==
  /\ kind \in {"async", "async_resume"} => x \in {"body", "main"}
  /\ kind \in {"then", "finally", "then_react", "finally_react"} => x = "derived"
  /\ kind = "executor" => x = "constructed"
  /\ kind = "finally_thunk" => x = "inner"
  /\ kind \in {"all", "all_element"} => x = "all"
  /\ kind \in {"script", "module_done"} => x = "main"
  /\ kind \in AdopterKinds => x \in {"body", "main", "derived", "constructed"}

RolesFit ==
  /\ \A w \in Waiters(heap) : RoleFits(w[1].kind, role[w[1].p])
  /\ \A i \in 1..Len(stack) :
       stack[i].kind # "script" \/ TopLevelAwait => RoleFits(stack[i].kind, role[stack[i].p])

\* The continuations that end the code of a body, a handler or a finally.
CodeKinds == {"async_resume", "then_react", "finally_react", "finally_thunk"}

OwesCode(p) ==
  /\ heap.state[p] = "pending" /\ ~heap.resolved[p]
  /\ role[p] \in {"body", "main", "derived", "inner"}

CodeExact ==
  \A p \in Promise :
    Running(p) + Waiting(heap, p, CodeKinds) = IF OwesCode(p) THEN 1 ELSE 0

CompletionInv == RolesFit /\ AdoptExact(heap) /\ CodeExact

\* A wrapper is fulfilled when it is made; the intermediate promise of a finally
\* is adopted before the thunk settles it.
HiddenInv ==
  \A p \in Promise :
    /\ role[p] = "wrapper" => heap.state[p] = "fulfilled"
    /\ role[p] = "inner" => HeardFirst(heap, p)
    /\ role[p] = "inner" /\ Settled(heap, p) => heap.observed[p]

\* main listens to the module's own promise until it has settled.
MainInv ==
  /\ \A w \in Waiters(heap) : w[1].kind = "module_done" => w[2] = w[1].p
  /\ \A p \in Promise : role[p] = "main" =>
       /\ TopLevelAwait
       /\ \A i \in 1..Len(stack) : stack[i].kind = "script" => stack[i].p = p
       /\ phase = "drain" => heap.state[p] = "fulfilled" \/ <<Rx("module_done", p), p>> \in Waiters(heap)
       /\ phase = "exited" => heap.state[p] # "rejected"

\* Element i of the array of p has been counted.
Counted(p, i) ==
  LET e == all[p].elems[i]
  IN heap.state[e] = "fulfilled" /\ all[p].results[i] = heap.value[e]

LoopRuns(p) == \E i \in 1..Len(stack) : stack[i].kind = "all" /\ stack[i].p = p

AllInv ==
  /\ \A w \in Waiters(heap) : w[1].kind = "all_element" =>
       w[1].index \in 1..Len(all[w[1].p].elems) /\ all[w[1].p].elems[w[1].index] = w[2]
  /\ \A i \in 1..Len(stack) : stack[i].kind = "all" =>
       i = 1 /\ stack[i].index = Len(all[stack[i].p].elems) + 1
  /\ \A p \in Promise : role[p] = "all" =>
       /\ Len(all[p].results) = Len(all[p].input)
       /\ Len(all[p].elems) <= Len(all[p].input)
       /\ ~LoopRuns(p) => Len(all[p].elems) = Len(all[p].input)
       /\ ~heap.resolved[p] =>
            /\ all[p].remaining > 0
            /\ all[p].remaining = Waiting(heap, p, {"all_element"}) + Unsubscribed(p)
       /\ heap.state[p] = "fulfilled" => Waiting(heap, p, {"all_element"}) = 0 /\ ~LoopRuns(p)
       /\ heap.state[p] # "rejected" =>
            \A i \in 1..Len(all[p].elems) :
              \/ Counted(p, i)
              \/ \E w \in Waiters(heap) : Continues(w[1], p, {"all_element"}) /\ w[1].index = i

OwnersInv == CompletionInv /\ HiddenInv /\ MainInv /\ AllInv

\* The two together: the runtime's own account of the heap, and who completes what.
FullInv == Inv /\ OwnersInv
================================================================================
