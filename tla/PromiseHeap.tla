------------------------------ MODULE PromiseHeap ------------------------------
(***************************************************************************)
(* The promise objects and the microtask queue of the runtime              *)
(* (packages/runtime/src/jsrt_promise.c), as operators on one heap record. *)
(* Every C function that reads and writes promise state is an operator     *)
(* from the heap before the call to the heap after it, so that a handler   *)
(* that calls several of them is their composition.                        *)
(*                                                                         *)
(* A native continuation (JSRTReaction: a C function plus its state) is a  *)
(* record whose kind names the C function and whose p is the promise that  *)
(* continuation will settle; the other fields are the state it carries.    *)
(***************************************************************************)
EXTENDS Naturals, Sequences, FiniteSets

CONSTANTS
  Promise,      \* the promise objects that may ever be allocated
  Plain,        \* values that are not promises
  Undefined,    \* JSRT_UNDEFINED
  CycleError,   \* the TypeError "Chaining cycle detected for promise"
  ResultsArray, \* the array a Promise.all fulfils with
  NoPromise     \* "no promise": the source of a job that reacts to none

ASSUME PromiseAssumption ==
  /\ IsFiniteSet(Promise)
  /\ NoPromise \notin Promise
  /\ (Plain \cup {Undefined, CycleError, ResultsArray}) \cap Promise = {}

Value == Promise \cup Plain \cup {Undefined, CycleError, ResultsArray}

Kind == {"adopt", "adopt_subscribe", "async_resume", "then_react",
         "finally_react", "finally_thunk", "all_element", "module_done"}

\* handlers: for which settlements a then/finally holds a closure;
\* index: the element of a Promise.all; value, rejected: what a
\* finally_thunk passes through.
Reaction == [kind : Kind, p : Promise, handlers : SUBSET {"fulfilled", "rejected"},
             index : Nat, value : Value, rejected : BOOLEAN]

Rx(kind, p) == [kind |-> kind, p |-> p, handlers |-> {}, index |-> 0,
                value |-> Undefined, rejected |-> FALSE]

\* src is a history field: the promise whose settlement the job delivers.
Task == [job : Reaction, value : Value, rejected : BOOLEAN, src : Promise \cup {NoPromise}]

Job(r, src, v, rej) == [job |-> r, value |-> v, rejected |-> rej, src |-> src]

\* "free" is storage not allocated yet. observed is a history field: has
\* anything ever subscribed to this promise?
State == {"free", "pending", "fulfilled", "rejected"}

Heap == [state : [Promise -> State],
         resolved : [Promise -> BOOLEAN],
         value : [Promise -> Value],
         reactions : [Promise -> Seq(Reaction)],
         unhandled : [Promise -> BOOLEAN],
         observed : [Promise -> BOOLEAN],
         queue : Seq(Task),
         unhandledRejections : Nat]

EmptyHeap == [state |-> [p \in Promise |-> "free"],
              resolved |-> [p \in Promise |-> FALSE],
              value |-> [p \in Promise |-> Undefined],
              reactions |-> [p \in Promise |-> <<>>],
              unhandled |-> [p \in Promise |-> FALSE],
              observed |-> [p \in Promise |-> FALSE],
              queue |-> <<>>,
              unhandledRejections |-> 0]

Free(h) == {p \in Promise : h.state[p] = "free"}
Settled(h, p) == h.state[p] \in {"fulfilled", "rejected"}

-----------------------------------------------------------------------------

\* Mutant of Enqueue: a new job goes ahead of those already waiting.
EnqueueFirst(h, r, src, v, rej) == [h EXCEPT !.queue = <<Job(r, src, v, rej)>> \o @]

Enqueue(h, r, src, v, rej) == [h EXCEPT !.queue = Append(@, Job(r, src, v, rej))]

PromiseNew(h, p) == [h EXCEPT !.state[p] = "pending"]

\* Mutants of Subscribe: hearing a rejection leaves the counter as it was; a
\* late subscription is told of a fulfilment; a new reaction goes ahead of the
\* registered ones.
SubscribeKeepsCount(h, p, r) ==
  IF h.state[p] = "pending"
  THEN [h EXCEPT !.reactions[p] = Append(@, r), !.observed[p] = TRUE]
  ELSE [Enqueue(h, r, p, h.value[p], h.state[p] = "rejected") EXCEPT
          !.unhandled[p] = FALSE, !.observed[p] = TRUE]

SubscribeFulfilled(h, p, r) ==
  IF h.state[p] = "pending"
  THEN [h EXCEPT !.reactions[p] = Append(@, r), !.observed[p] = TRUE]
  ELSE [Enqueue(h, r, p, h.value[p], FALSE) EXCEPT
          !.unhandled[p] = FALSE,
          !.unhandledRejections = IF h.unhandled[p] THEN @ - 1 ELSE @,
          !.observed[p] = TRUE]

SubscribeFirst(h, p, r) ==
  IF h.state[p] = "pending"
  THEN [h EXCEPT !.reactions[p] = <<r>> \o @, !.observed[p] = TRUE]
  ELSE [Enqueue(h, r, p, h.value[p], h.state[p] = "rejected") EXCEPT
          !.unhandled[p] = FALSE,
          !.unhandledRejections = IF h.unhandled[p] THEN @ - 1 ELSE @,
          !.observed[p] = TRUE]

\* A settled promise queues the reaction at once, and never calls it.
Subscribe(h, p, r) ==
  IF h.state[p] = "pending"
  THEN [h EXCEPT !.reactions[p] = Append(@, r), !.observed[p] = TRUE]
  ELSE [Enqueue(h, r, p, h.value[p], h.state[p] = "rejected") EXCEPT
          !.unhandled[p] = FALSE,
          !.unhandledRejections = IF h.unhandled[p] THEN @ - 1 ELSE @,
          !.observed[p] = TRUE]

\* The state change itself, which queues every registered reaction in order.
PromiseSettleNow(h, p, v, rej) ==
  LET lonely == rej /\ h.reactions[p] = <<>>
      jobs   == [i \in 1..Len(h.reactions[p]) |-> Job(h.reactions[p][i], p, v, rej)]
  IN [h EXCEPT !.state[p] = IF rej THEN "rejected" ELSE "fulfilled",
               !.value[p] = v,
               !.unhandled[p] = @ \/ lonely,
               !.unhandledRejections = IF lonely THEN @ + 1 ELSE @,
               !.queue = @ \o jobs,
               !.reactions[p] = <<>>]

\* Mutant of PromiseSettle: tests the state where the code tests resolved, so a
\* promise that is adopting another may be settled by a later call.
PromiseSettleUnlessSettled(h, p, v, rej) ==
  LET g == [h EXCEPT !.resolved[p] = TRUE]
  IN CASE Settled(h, p) -> h
       [] ~Settled(h, p) /\ ~rej /\ v \in Promise \ {p} ->
            Enqueue(g, Rx("adopt_subscribe", p), NoPromise, v, FALSE)
       [] OTHER -> PromiseSettleNow(g, p, v, rej)

\* Mutant of PromiseSettle: a promise that begins to adopt another is not marked
\* as resolved.
PromiseSettleUnmarked(h, p, v, rej) ==
  LET g == [h EXCEPT !.resolved[p] = TRUE]
  IN CASE h.resolved[p] -> h
       [] ~h.resolved[p] /\ ~rej /\ v \in Promise \ {p} ->
            Enqueue(h, Rx("adopt_subscribe", p), NoPromise, v, FALSE)
       [] OTHER -> PromiseSettleNow(g, p, v, rej)

\* The resolving functions: the first resolution wins, adoption included.
PromiseSettle(h, p, v, rej) ==
  LET g == [h EXCEPT !.resolved[p] = TRUE]
  IN CASE h.resolved[p] -> h
       [] ~h.resolved[p] /\ ~rej /\ v = p -> PromiseSettleNow(g, p, CycleError, TRUE)
       [] ~h.resolved[p] /\ ~rej /\ v \in Promise \ {p} ->
            Enqueue(g, Rx("adopt_subscribe", p), NoPromise, v, FALSE)
       [] OTHER -> PromiseSettleNow(g, p, v, rej)

\* Promise.resolve(v): a promise passes through; anything else is wrapped in
\* q, a promise allocated for it.
Resolved(v, q) == IF v \in Promise THEN v ELSE q

PromiseResolve(h, v, q) ==
  IF v \in Promise THEN h ELSE PromiseSettle(PromiseNew(h, q), q, v, FALSE)

PromiseReject(h, v, q) == PromiseSettle(PromiseNew(h, q), q, v, TRUE)

\* The two halves of adopting the promise v in the promise p.
AdoptSubscribe(h, p, v) == Subscribe(h, v, Rx("adopt", p))
Adopt(h, p, v, rej) == PromiseSettleNow(h, p, v, rej)

\* Mutant of AllReaction: every element shares the first index.
AllReactionShared(p, i) == [Rx("all_element", p) EXCEPT !.index = 1]
AllReaction(p, i) == [Rx("all_element", p) EXCEPT !.index = i]

-----------------------------------------------------------------------------
(* Where the continuations that will settle p are.                         *)

Continues(r, p, kinds) == r.p = p /\ r.kind \in kinds

\* Registered on a promise, or queued.
Registered(h, p, kinds) ==
  UNION {{q} \X {i \in DOMAIN h.reactions[q] : Continues(h.reactions[q][i], p, kinds)} :
           q \in Promise}

Queued(h, p, kinds) == {i \in DOMAIN h.queue : Continues(h.queue[i].job, p, kinds)}

Waiting(h, p, kinds) ==
  Cardinality(Registered(h, p, kinds)) + Cardinality(Queued(h, p, kinds))

\* Every continuation, with the promise whose settlement it is waiting for.
Waiters(h) ==
  (UNION {{<<h.reactions[q][i], q>> : i \in 1..Len(h.reactions[q])} : q \in Promise})
    \cup {<<h.queue[i].job, h.queue[i].src>> : i \in 1..Len(h.queue)}

-----------------------------------------------------------------------------
(* What holds of every heap the operators above build: the parts of the    *)
(* inductive invariant that concern the heap alone.                        *)

Allocated(h) == {p \in Promise : h.state[p] # "free"}

FreeIsBlank(h) ==
  \A p \in Promise \ Allocated(h) :
    h.reactions[p] = <<>> /\ ~h.resolved[p] /\ ~h.unhandled[p] /\ ~h.observed[p]

\* Reactions wait on pending promises only, and "observed" is not forgotten.
ReactionsPending(h) ==
  \A p \in Promise :
    /\ h.reactions[p] # <<>> => h.state[p] = "pending"
    /\ h.state[p] = "pending" => (h.observed[p] <=> h.reactions[p] # <<>>)

SettledIsResolved(h) == \A p \in Promise : Settled(h, p) => h.resolved[p]

FlagExact(h) ==
  \A p \in Promise : h.unhandled[p] <=> h.state[p] = "rejected" /\ ~h.observed[p]

CountExact(h) == h.unhandledRejections = Cardinality({p \in Promise : h.unhandled[p]})

\* Adoption flattens: a fulfilment never carries a promise.
Flat(v, rej) == ~rej => v \notin Promise

FulfilledFlat(h) == \A p \in Promise : h.state[p] = "fulfilled" => h.value[p] \notin Promise

\* A job that delivers a settlement delivers that of its source, as it is now.
CarriesSettlement(h, t) ==
  t.src # NoPromise => /\ Settled(h, t.src)
                       /\ t.value = h.value[t.src]
                       /\ t.rejected = (h.state[t.src] = "rejected")

JobsCarry(h) == \A i \in 1..Len(h.queue) : CarriesSettlement(h, h.queue[i])

\* Continuations refer to allocated promises; only an adopt_subscribe job has no
\* source, it carries the promise to subscribe to, and it is never a reaction.
JobTarget(h, t) ==
  /\ t.job.p \in Allocated(h) /\ Flat(t.job.value, t.job.rejected)
  /\ t.job.kind = "adopt_subscribe" => t.value \in Allocated(h)
  /\ t.job.kind # "adopt_subscribe" => t.src # NoPromise

Targets(h) ==
  /\ \A i \in 1..Len(h.queue) : JobTarget(h, h.queue[i])
  /\ \A q \in Promise : \A i \in 1..Len(h.reactions[q]) :
       LET r == h.reactions[q][i]
       IN r.p \in Allocated(h) /\ r.kind # "adopt_subscribe" /\ Flat(r.value, r.rejected)

\* r will settle p without asking whether it is resolved.
Adopts(r, p) == r.kind \in {"adopt", "adopt_subscribe"} /\ r.p = p

QueueAdopts(h, p) == \E i \in 1..Len(h.queue) : Adopts(h.queue[i].job, p)
ReactionAdopts(h, p) ==
  \E q \in Promise : \E i \in 1..Len(h.reactions[q]) : Adopts(h.reactions[q][i], p)

NoAdopter(h, p) == ~QueueAdopts(h, p) /\ ~ReactionAdopts(h, p)

\* A promise is adopted by one continuation at most, and only while it is
\* resolved and still pending.
AdopterPending(h) ==
  \A p \in Promise : ~NoAdopter(h, p) => h.state[p] = "pending" /\ h.resolved[p]

AdoptOnce(h) ==
  \A p \in Promise :
    /\ \A i, j \in 1..Len(h.queue) :
         Adopts(h.queue[i].job, p) /\ Adopts(h.queue[j].job, p) => i = j
    /\ \A a, b \in Promise : \A i \in 1..Len(h.reactions[a]), j \in 1..Len(h.reactions[b]) :
         Adopts(h.reactions[a][i], p) /\ Adopts(h.reactions[b][j], p) => a = b /\ i = j
    /\ ~(QueueAdopts(h, p) /\ ReactionAdopts(h, p))

HeapInv(h) ==
  /\ h \in Heap
  /\ FreeIsBlank(h) /\ ReactionsPending(h) /\ SettledIsResolved(h)
  /\ FlagExact(h) /\ CountExact(h) /\ JobsCarry(h) /\ Targets(h)
  /\ FulfilledFlat(h) /\ AdopterPending(h) /\ AdoptOnce(h)

\* A promise that is resolved and still pending has exactly one adopter.
AdopterKinds == {"adopt", "adopt_subscribe"}

AdoptExact(h) ==
  \A p \in Promise :
    Waiting(h, p, AdopterKinds) = IF h.state[p] = "pending" /\ h.resolved[p] THEN 1 ELSE 0

\* Something has subscribed to p, or will before the thunk that settles p runs.
HeardFirst(h, p) ==
  \/ h.observed[p]
  \/ \E i \in 1..Len(h.queue) :
       /\ h.queue[i].job.kind = "adopt_subscribe" /\ h.queue[i].value = p
       /\ \A j \in 1..i : ~Continues(h.queue[j].job, p, {"finally_thunk"})
================================================================================
