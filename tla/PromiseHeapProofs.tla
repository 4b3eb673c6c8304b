---------------------------- MODULE PromiseHeapProofs ----------------------------
(***************************************************************************)
(* Every operation of the promise runtime keeps the heap well formed, and  *)
(* neither loses nor doubles a continuation that waits.                    *)
(***************************************************************************)
EXTENDS PromiseHeap, SequenceTheorems, FiniteSetTheorems, TLAPS

\* No operation but Adopt changes the settlement of a resolved promise, and none
\* frees a promise.
Keeps(h, g) ==
  /\ Allocated(h) \subseteq Allocated(g)
  /\ \A q \in Promise : h.resolved[q] =>
       g.resolved[q] /\ g.state[q] = h.state[q] /\ g.value[q] = h.value[q]

\* The promises marked unhandled are finitely many, so they can be
\* counted.
LEMMA UnhandledFinite ==
  ASSUME NEW h PROVE IsFiniteSet({p \in Promise : h.unhandled[p]})
BY FS_Subset, PromiseAssumption

\* What a reaction is handed from a settled promise is never a promise.
LEMMA RxFlat ==
  ASSUME NEW kind, NEW p PROVE Flat(Rx(kind, p).value, Rx(kind, p).rejected)
BY PromiseAssumption DEF Flat, Rx

-----------------------------------------------------------------------------
(* Allocation.                                                             *)

\* jsrt_promise_new keeps the heap well formed.
LEMMA NewInv ==
  ASSUME NEW h, NEW p \in Free(h), HeapInv(h)
  PROVE  LET g == PromiseNew(h, p)
         IN /\ HeapInv(g) /\ Keeps(h, g)
            /\ Allocated(g) = Allocated(h) \cup {p}
            /\ g.state[p] = "pending" /\ ~g.resolved[p]
            /\ NoAdopter(g, p) /\ g.reactions[p] = <<>>
<1> DEFINE g == PromiseNew(h, p)
<1> USE DEF Free, Allocated, Settled
<1>1. /\ p \in Promise /\ h.state[p] = "free" /\ h \in Heap
      /\ h.reactions[p] = <<>> /\ ~h.resolved[p] /\ ~h.unhandled[p] /\ ~h.observed[p]
  BY DEF HeapInv, FreeIsBlank
<1>2. /\ g \in Heap
      /\ g.state = [h.state EXCEPT ![p] = "pending"]
      /\ g.resolved = h.resolved /\ g.value = h.value /\ g.reactions = h.reactions
      /\ g.unhandled = h.unhandled /\ g.observed = h.observed /\ g.queue = h.queue
      /\ g.unhandledRejections = h.unhandledRejections
  BY <1>1 DEF PromiseNew, Heap, State
<1>3. Allocated(g) = Allocated(h) \cup {p} /\ g.state[p] = "pending"
  BY <1>1, <1>2 DEF Heap
<1>4. \A q \in Promise : Settled(g, q) <=> Settled(h, q)
  BY <1>1, <1>2 DEF Heap
<1>5. FreeIsBlank(g) /\ ReactionsPending(g) /\ SettledIsResolved(g) /\ FlagExact(g) /\ CountExact(g)
      /\ FulfilledFlat(g)
  BY <1>1, <1>2, <1>3, <1>4
  DEF HeapInv, FreeIsBlank, ReactionsPending, SettledIsResolved, FlagExact, CountExact, FulfilledFlat, Heap
<1>6. JobsCarry(g)
  <2>1. \A q \in Promise : h.state[q] # "free" => g.state[q] = h.state[q]
    BY <1>1, <1>2 DEF Heap
  <2> QED BY <1>2, <2>1 DEF HeapInv, JobsCarry, CarriesSettlement, Heap, Task
<1>7. Targets(g)
  BY <1>1, <1>2, <1>3 DEF HeapInv, Targets, JobTarget
<1>8. NoAdopter(h, p)
  BY <1>1 DEF HeapInv, AdopterPending
<1>9. \A q \in Promise : NoAdopter(g, q) <=> NoAdopter(h, q)
  BY <1>2 DEF NoAdopter, QueueAdopts, ReactionAdopts
<1>10. AdopterPending(g)
  BY <1>1, <1>2, <1>8, <1>9 DEF HeapInv, AdopterPending, Heap
<1>11. AdoptOnce(g)
  BY <1>2 DEF HeapInv, AdoptOnce, QueueAdopts, ReactionAdopts
<1>12. Keeps(h, g)
  <2>1. \A q \in Promise : h.resolved[q] => q # p
    BY <1>1
  <2> QED BY <1>1, <1>2, <1>3, <2>1 DEF Keeps, Heap
<1> QED BY <1>1, <1>2, <1>3, <1>5, <1>6, <1>7, <1>8, <1>9, <1>10, <1>11, <1>12 DEF HeapInv

-----------------------------------------------------------------------------
(* A job at the end of the queue.                                          *)

\* Queueing a job for a settled source keeps the heap well formed.
LEMMA EnqueueInv ==
  ASSUME NEW h, HeapInv(h), NEW r \in Reaction, NEW src \in Promise \cup {NoPromise},
         NEW v \in Value, NEW rej \in BOOLEAN,
         JobTarget(h, Job(r, src, v, rej)), CarriesSettlement(h, Job(r, src, v, rej)),
         r.kind \in {"adopt", "adopt_subscribe"} =>
           NoAdopter(h, r.p) /\ h.state[r.p] = "pending" /\ h.resolved[r.p]
  PROVE  LET g == Enqueue(h, r, src, v, rej)
         IN HeapInv(g) /\ Keeps(h, g) /\ Allocated(g) = Allocated(h)
<1> DEFINE g == Enqueue(h, r, src, v, rej)
           t == Job(r, src, v, rej)
           n == Len(h.queue)
<1>1. h \in Heap /\ t \in Task /\ h.queue \in Seq(Task)
  BY DEF HeapInv, Heap, Job, Task
<1>2. /\ g.state = h.state /\ g.resolved = h.resolved /\ g.value = h.value
      /\ g.reactions = h.reactions /\ g.unhandled = h.unhandled
      /\ g.observed = h.observed /\ g.unhandledRejections = h.unhandledRejections
      /\ g.queue = Append(h.queue, t) /\ g \in Heap
  <2>1. Append(h.queue, t) \in Seq(Task)
    BY <1>1
  <2>2. g = [h EXCEPT !.queue = Append(h.queue, t)]
    BY DEF Enqueue
  <2> HIDE DEF t, g
  <2> QED BY <1>1, <2>1, <2>2 DEF Heap
<1>3. /\ n \in Nat /\ Len(g.queue) = n + 1 /\ g.queue[n + 1] = t
      /\ \A i \in 1..n : g.queue[i] = h.queue[i]
      /\ \A i \in 1..(n + 1) : i \in 1..n \/ i = n + 1
  BY <1>1, <1>2
<1> HIDE DEF g, t, n
<1> USE DEF Allocated, Settled
<1>4. FreeIsBlank(g) /\ ReactionsPending(g) /\ SettledIsResolved(g) /\ FlagExact(g) /\ CountExact(g)
      /\ FulfilledFlat(g)
  BY <1>2 DEF HeapInv, FreeIsBlank, ReactionsPending, SettledIsResolved, FlagExact, CountExact, FulfilledFlat
<1>5. JobsCarry(g)
  <2> SUFFICES ASSUME NEW i \in 1..(n + 1) PROVE CarriesSettlement(g, g.queue[i])
    BY <1>3 DEF JobsCarry
  <2>1. CASE i \in 1..n
    BY <2>1, <1>2, <1>3 DEF HeapInv, JobsCarry, CarriesSettlement, n
  <2>2. CASE i = n + 1
    BY <2>2, <1>2, <1>3 DEF CarriesSettlement, t
  <2> QED BY <2>1, <2>2, <1>3
<1>6. Targets(g)
  <2>1. ASSUME NEW i \in 1..(n + 1) PROVE JobTarget(g, g.queue[i])
    <3>1. CASE i \in 1..n
      BY <3>1, <1>2, <1>3 DEF HeapInv, Targets, JobTarget, n
    <3>2. CASE i = n + 1
      BY <3>2, <1>2, <1>3 DEF JobTarget, t
    <3> QED BY <3>1, <3>2, <1>3
  <2> QED BY <2>1, <1>2, <1>3 DEF HeapInv, Targets
<1>7. ASSUME NEW p \in Promise
      PROVE  /\ ReactionAdopts(g, p) <=> ReactionAdopts(h, p)
             /\ QueueAdopts(g, p) => QueueAdopts(h, p) \/ Adopts(t.job, p)
  BY <1>2, <1>3 DEF ReactionAdopts, QueueAdopts, n
<1>8. \A p \in Promise : Adopts(t.job, p) =>
        NoAdopter(h, p) /\ h.state[p] = "pending" /\ h.resolved[p]
  BY DEF Adopts, t, Job
<1>9. AdopterPending(g)
  BY <1>2, <1>7, <1>8 DEF HeapInv, AdopterPending, NoAdopter
<1>10. AdoptOnce(g)
  <2> SUFFICES ASSUME NEW p \in Promise
      PROVE /\ \A i, j \in 1..(n + 1) :
                 Adopts(g.queue[i].job, p) /\ Adopts(g.queue[j].job, p) => i = j
            /\ \A a, b \in Promise : \A i \in 1..Len(g.reactions[a]), j \in 1..Len(g.reactions[b]) :
                 Adopts(g.reactions[a][i], p) /\ Adopts(g.reactions[b][j], p) => a = b /\ i = j
            /\ ~(QueueAdopts(g, p) /\ ReactionAdopts(g, p))
    BY <1>3 DEF AdoptOnce
  <2>1. \A i, j \in 1..n :
          Adopts(h.queue[i].job, p) /\ Adopts(h.queue[j].job, p) => i = j
    BY DEF HeapInv, AdoptOnce, n
  <2>2. Adopts(t.job, p) => \A i \in 1..n : ~Adopts(h.queue[i].job, p)
    BY <1>8 DEF NoAdopter, QueueAdopts, n
  <2>3. \A i, j \in 1..(n + 1) :
          Adopts(g.queue[i].job, p) /\ Adopts(g.queue[j].job, p) => i = j
    BY <2>1, <2>2, <1>3
  <2>4. ~(QueueAdopts(g, p) /\ ReactionAdopts(g, p))
    BY <1>7, <1>8 DEF HeapInv, AdoptOnce, NoAdopter
  <2>5. \A a, b \in Promise : \A i \in 1..Len(g.reactions[a]), j \in 1..Len(g.reactions[b]) :
          Adopts(g.reactions[a][i], p) /\ Adopts(g.reactions[b][j], p) => a = b /\ i = j
    <3>1. AdoptOnce(h)
      BY DEF HeapInv
    <3> QED BY <3>1, <1>2 DEF AdoptOnce
  <2> QED BY <2>3, <2>4, <2>5
<1>11. Keeps(h, g) /\ Allocated(g) = Allocated(h)
  BY <1>2 DEF Keeps
<1> QED BY <1>2, <1>4, <1>5, <1>6, <1>9, <1>10, <1>11 DEF HeapInv, g

-----------------------------------------------------------------------------
(* Subscription: to a pending promise, and to a settled one.               *)

\* Appending a reaction to a pending source keeps the heap well formed.
LEMMA RegisterInv ==
  ASSUME NEW h, HeapInv(h), NEW p \in Promise, h.state[p] = "pending",
         NEW r \in Reaction, r.p \in Allocated(h), r.kind # "adopt_subscribe",
         Flat(r.value, r.rejected),
         r.kind = "adopt" => NoAdopter(h, r.p) /\ h.state[r.p] = "pending" /\ h.resolved[r.p]
  PROVE  LET g == [h EXCEPT !.reactions[p] = Append(@, r), !.observed[p] = TRUE]
         IN HeapInv(g) /\ Keeps(h, g) /\ Allocated(g) = Allocated(h)
<1> DEFINE g == [h EXCEPT !.reactions[p] = Append(@, r), !.observed[p] = TRUE]
           s == h.reactions[p]
           n == Len(s)
<1>1. h \in Heap /\ s \in Seq(Reaction) /\ Append(s, r) \in Seq(Reaction)
  BY DEF HeapInv, Heap
<1>2. /\ g.state = h.state /\ g.resolved = h.resolved /\ g.value = h.value
      /\ g.reactions = [h.reactions EXCEPT ![p] = Append(s, r)]
      /\ g.unhandled = h.unhandled /\ g.observed = [h.observed EXCEPT ![p] = TRUE]
      /\ g.unhandledRejections = h.unhandledRejections
      /\ g.queue = h.queue /\ g \in Heap
  <2>1. g = [h EXCEPT !.reactions = [h.reactions EXCEPT ![p] = Append(s, r)],
                      !.observed = [h.observed EXCEPT ![p] = TRUE]]
    BY <1>1 DEF Heap
  <2> HIDE DEF g, s
  <2> QED BY <1>1, <2>1 DEF Heap
<1>3. /\ n \in Nat /\ Len(g.reactions[p]) = n + 1 /\ g.reactions[p][n + 1] = r
      /\ g.reactions[p] # <<>>
      /\ \A i \in 1..n : g.reactions[p][i] = h.reactions[p][i]
      /\ \A i \in 1..(n + 1) : i \in 1..n \/ i = n + 1
      /\ \A q \in Promise \ {p} : g.reactions[q] = h.reactions[q]
  <2>1. g.reactions[p] = Append(s, r) /\ \A q \in Promise \ {p} : g.reactions[q] = h.reactions[q]
    BY <1>1, <1>2 DEF Heap
  <2> HIDE DEF g
  <2> QED BY <1>1, <2>1
<1>4. g.observed[p] /\ \A q \in Promise \ {p} : g.observed[q] = h.observed[q]
  BY <1>1, <1>2 DEF Heap
<1> HIDE DEF g, s, n
<1> USE DEF Allocated, Settled
<1>5. FreeIsBlank(g) /\ ReactionsPending(g) /\ SettledIsResolved(g) /\ FlagExact(g) /\ CountExact(g)
      /\ FulfilledFlat(g)
  <2>1. FreeIsBlank(g)
    BY <1>2, <1>3, <1>4 DEF HeapInv, FreeIsBlank
  <2>2. ReactionsPending(g)
    BY <1>2, <1>3, <1>4 DEF HeapInv, ReactionsPending
  <2>3. SettledIsResolved(g) /\ FlagExact(g) /\ CountExact(g)
      /\ FulfilledFlat(g)
    BY <1>2, <1>3, <1>4 DEF HeapInv, SettledIsResolved, FlagExact, CountExact, FulfilledFlat
  <2> QED BY <2>1, <2>2, <2>3
<1>6. JobsCarry(g)
  BY <1>2 DEF HeapInv, JobsCarry, CarriesSettlement
<1>7. Targets(g)
  <2>1. ASSUME NEW q \in Promise, NEW i \in 1..Len(g.reactions[q])
        PROVE  /\ g.reactions[q][i].p \in Allocated(h) /\ g.reactions[q][i].kind # "adopt_subscribe"
               /\ Flat(g.reactions[q][i].value, g.reactions[q][i].rejected)
    <3>1. CASE q # p
      BY <3>1, <1>2, <1>3 DEF HeapInv, Targets
    <3>2. CASE q = p /\ i \in 1..n
      BY <3>2, <1>2, <1>3 DEF HeapInv, Targets, n, s
    <3>3. CASE q = p /\ i = n + 1
      BY <3>3, <1>3
    <3> QED BY <3>1, <3>2, <3>3, <1>3
  <2> QED BY <2>1, <1>2 DEF HeapInv, Targets, JobTarget
<1>8. ASSUME NEW x \in Promise
      PROVE  /\ QueueAdopts(g, x) <=> QueueAdopts(h, x)
             /\ ReactionAdopts(g, x) => ReactionAdopts(h, x) \/ Adopts(r, x)
  <2>1. QueueAdopts(g, x) <=> QueueAdopts(h, x)
    BY <1>2 DEF QueueAdopts
  <2>2. ASSUME NEW q \in Promise, NEW i \in 1..Len(g.reactions[q]), Adopts(g.reactions[q][i], x)
        PROVE  ReactionAdopts(h, x) \/ Adopts(r, x)
    <3>1. CASE q # p
      BY <3>1, <2>2, <1>3 DEF ReactionAdopts
    <3>2. CASE q = p /\ i \in 1..n
      BY <3>2, <2>2, <1>3 DEF ReactionAdopts, n, s
    <3>3. CASE q = p /\ i = n + 1
      BY <3>3, <2>2, <1>3
    <3> QED BY <3>1, <3>2, <3>3, <1>3
  <2> QED BY <2>1, <2>2 DEF ReactionAdopts
<1>9. \A x \in Promise : Adopts(r, x) => NoAdopter(h, x) /\ h.state[x] = "pending" /\ h.resolved[x]
  BY DEF Adopts
<1>10. AdopterPending(g)
  BY <1>2, <1>8, <1>9 DEF HeapInv, AdopterPending, NoAdopter
<1>11. AdoptOnce(g)
  <2> SUFFICES ASSUME NEW x \in Promise
      PROVE /\ \A i, j \in 1..Len(g.queue) :
                 Adopts(g.queue[i].job, x) /\ Adopts(g.queue[j].job, x) => i = j
            /\ \A a, b \in Promise : \A i \in 1..Len(g.reactions[a]), j \in 1..Len(g.reactions[b]) :
                 Adopts(g.reactions[a][i], x) /\ Adopts(g.reactions[b][j], x) => a = b /\ i = j
            /\ ~(QueueAdopts(g, x) /\ ReactionAdopts(g, x))
    BY DEF AdoptOnce
  <2>1. AdoptOnce(h)
    BY DEF HeapInv
  <2>2. \A i, j \in 1..Len(g.queue) :
          Adopts(g.queue[i].job, x) /\ Adopts(g.queue[j].job, x) => i = j
    BY <2>1, <1>2 DEF AdoptOnce
  <2>3. ~(QueueAdopts(g, x) /\ ReactionAdopts(g, x))
    BY <2>1, <1>8, <1>9 DEF AdoptOnce, NoAdopter
  <2>4. ASSUME NEW a \in Promise, NEW i \in 1..Len(g.reactions[a]), Adopts(g.reactions[a][i], x)
        PROVE  \/ i \in 1..Len(h.reactions[a]) /\ Adopts(h.reactions[a][i], x)
               \/ a = p /\ i = n + 1 /\ Adopts(r, x)
    <3>1. CASE a # p
      BY <3>1, <2>4, <1>3
    <3>2. CASE a = p
      BY <3>2, <2>4, <1>3 DEF n, s
    <3> QED BY <3>1, <3>2
  <2>5. Adopts(r, x) => \A a \in Promise : \A i \in 1..Len(h.reactions[a]) : ~Adopts(h.reactions[a][i], x)
    BY <1>9 DEF NoAdopter, ReactionAdopts
  <2>6. \A a, b \in Promise : \A i \in 1..Len(g.reactions[a]), j \in 1..Len(g.reactions[b]) :
          Adopts(g.reactions[a][i], x) /\ Adopts(g.reactions[b][j], x) => a = b /\ i = j
    BY <2>1, <2>4, <2>5 DEF AdoptOnce
  <2> QED BY <2>2, <2>3, <2>6
<1>12. Keeps(h, g) /\ Allocated(g) = Allocated(h)
  BY <1>2 DEF Keeps
<1> QED BY <1>2, <1>5, <1>6, <1>7, <1>10, <1>11, <1>12 DEF HeapInv, g

\* Hearing of a settled promise takes it out of the unhandled ones.
LEMMA HearInv ==
  ASSUME NEW h, HeapInv(h), NEW p \in Promise, Settled(h, p)
  PROVE  LET g == [h EXCEPT !.unhandled[p] = FALSE,
                            !.unhandledRejections = IF h.unhandled[p] THEN @ - 1 ELSE @,
                            !.observed[p] = TRUE]
         IN HeapInv(g) /\ Keeps(h, g) /\ Allocated(g) = Allocated(h)
<1> DEFINE g == [h EXCEPT !.unhandled[p] = FALSE,
                          !.unhandledRejections = IF h.unhandled[p] THEN @ - 1 ELSE @,
                          !.observed[p] = TRUE]
           u == {q \in Promise : h.unhandled[q]}
           c == IF h.unhandled[p] THEN h.unhandledRejections - 1 ELSE h.unhandledRejections
<1>1. h \in Heap
  BY DEF HeapInv
<1>2. IsFiniteSet(u) /\ h.unhandledRejections = Cardinality(u)
  BY UnhandledFinite DEF HeapInv, CountExact
<1>3. IsFiniteSet(u \ {p}) /\ c = Cardinality(u \ {p}) /\ c \in Nat
  <2> HIDE DEF u
  <2>1. h.unhandled[p] <=> p \in u
    BY DEF u
  <2>2. /\ IsFiniteSet(u \ {p})
        /\ Cardinality(u \ {p}) = IF p \in u THEN Cardinality(u) - 1 ELSE Cardinality(u)
    BY <1>2, FS_RemoveElement
  <2>3. Cardinality(u \ {p}) \in Nat
    BY <2>2, FS_CardinalityType
  <2> QED BY <1>2, <2>1, <2>2, <2>3
<1>4. /\ g.state = h.state /\ g.resolved = h.resolved /\ g.value = h.value
      /\ g.reactions = h.reactions /\ g.queue = h.queue
      /\ g.unhandled = [h.unhandled EXCEPT ![p] = FALSE]
      /\ g.observed = [h.observed EXCEPT ![p] = TRUE]
      /\ g.unhandledRejections = c
      /\ g \in Heap
  <2>1. g = [h EXCEPT !.unhandled = [h.unhandled EXCEPT ![p] = FALSE], !.unhandledRejections = c,
                      !.observed = [h.observed EXCEPT ![p] = TRUE]]
    BY <1>1 DEF Heap
  <2> HIDE DEF g, c
  <2> QED BY <1>1, <1>3, <2>1 DEF Heap
<1> HIDE DEF g, c
<1>5. /\ ~g.unhandled[p] /\ g.observed[p]
      /\ \A q \in Promise \ {p} : g.unhandled[q] = h.unhandled[q] /\ g.observed[q] = h.observed[q]
  BY <1>1, <1>4 DEF Heap
<1>6. {q \in Promise : g.unhandled[q]} = u \ {p}
  BY <1>5
<1>7. CountExact(g)
  BY <1>3, <1>4, <1>6 DEF CountExact
<1> HIDE DEF u
<1> USE DEF Allocated, Settled
<1>8. FreeIsBlank(g) /\ ReactionsPending(g) /\ SettledIsResolved(g) /\ FlagExact(g)
      /\ FulfilledFlat(g)
  BY <1>4, <1>5 DEF HeapInv, FreeIsBlank, ReactionsPending, SettledIsResolved, FlagExact, FulfilledFlat
<1>9. JobsCarry(g) /\ Targets(g)
  BY <1>4 DEF HeapInv, JobsCarry, CarriesSettlement, Targets, JobTarget
<1>10. \A x \in Promise : NoAdopter(g, x) <=> NoAdopter(h, x)
  BY <1>4 DEF NoAdopter, QueueAdopts, ReactionAdopts
<1>11. AdopterPending(g)
  BY <1>4, <1>10 DEF HeapInv, AdopterPending
<1>12. AdoptOnce(g)
  BY <1>4 DEF HeapInv, AdoptOnce, QueueAdopts, ReactionAdopts
<1>13. Keeps(h, g) /\ Allocated(g) = Allocated(h)
  BY <1>4 DEF Keeps
<1> QED BY <1>4, <1>7, <1>8, <1>9, <1>11, <1>12, <1>13 DEF HeapInv, g

\* jsrt_promise_subscribe, which registers or queues, keeps the heap well
\* formed.
LEMMA SubscribeInv ==
  ASSUME NEW h, HeapInv(h), NEW p \in Allocated(h),
         NEW r \in Reaction, r.p \in Allocated(h), r.kind # "adopt_subscribe",
         Flat(r.value, r.rejected),
         r.kind = "adopt" => NoAdopter(h, r.p) /\ h.state[r.p] = "pending" /\ h.resolved[r.p]
  PROVE  LET g == Subscribe(h, p, r)
         IN HeapInv(g) /\ Keeps(h, g) /\ Allocated(g) = Allocated(h)
<1>1. p \in Promise /\ h.state[p] # "free" /\ h \in Heap
  BY DEF Allocated, HeapInv
<1>2. CASE h.state[p] = "pending"
  BY <1>1, <1>2, RegisterInv DEF Subscribe
<1>3. CASE h.state[p] # "pending"
  <2> DEFINE e == Enqueue(h, r, p, h.value[p], h.state[p] = "rejected")
             t == Job(r, p, h.value[p], h.state[p] = "rejected")
             g == [e EXCEPT !.unhandled[p] = FALSE,
                            !.unhandledRejections = IF e.unhandled[p] THEN @ - 1 ELSE @,
                            !.observed[p] = TRUE]
  <2>1. Settled(h, p) /\ h.value[p] \in Value
    BY <1>1, <1>3 DEF Settled, Heap, State
  <2>2. JobTarget(h, t) /\ CarriesSettlement(h, t)
    BY <1>1, <2>1, PromiseAssumption DEF JobTarget, CarriesSettlement, Job
  <2>3. HeapInv(e) /\ Keeps(h, e) /\ Allocated(e) = Allocated(h)
    BY <1>1, <2>1, <2>2, EnqueueInv, ZenonT(60)
  <2>4. e.unhandled = h.unhandled /\ e.state = h.state
    BY <1>1 DEF Enqueue, Heap
  <2>5. Settled(e, p)
    BY <2>1, <2>4 DEF Settled
  <2>6. HeapInv(g) /\ Keeps(e, g) /\ Allocated(g) = Allocated(e)
    <3> HIDE DEF e
    <3> QED BY <1>1, <2>3, <2>5, HearInv
  <2>7. Subscribe(h, p, r) = g
    BY <1>3, <2>4 DEF Subscribe
  <2> HIDE DEF e, g
  <2>8. Keeps(h, g)
    BY <2>3, <2>6 DEF Keeps
  <2> QED BY <2>3, <2>6, <2>7, <2>8
<1> QED BY <1>2, <1>3

-----------------------------------------------------------------------------
(* Settlement: the state change, and the resolving functions.              *)

\* jsrt_promise_settle_now, which stores the settlement and moves the
\* reactions to the queue, keeps the heap well formed.
LEMMA SettleNowInv ==
  ASSUME NEW h, HeapInv(h), NEW p \in Promise, h.state[p] = "pending", h.resolved[p],
         NoAdopter(h, p), NEW v \in Value, NEW rej \in BOOLEAN, Flat(v, rej)
  PROVE  LET g == PromiseSettleNow(h, p, v, rej)
         IN /\ HeapInv(g) /\ Allocated(g) = Allocated(h) /\ g.resolved = h.resolved
            /\ g.state = [h.state EXCEPT ![p] = IF rej THEN "rejected" ELSE "fulfilled"]
            /\ g.value = [h.value EXCEPT ![p] = v]
<1> DEFINE g == PromiseSettleNow(h, p, v, rej)
           s == h.reactions[p]
           lonely == rej /\ s = <<>>
           jobs == [i \in 1..Len(s) |-> Job(s[i], p, v, rej)]
           n == Len(h.queue)
           u == {q \in Promise : h.unhandled[q]}
           c == IF lonely THEN h.unhandledRejections + 1 ELSE h.unhandledRejections
           st == IF rej THEN "rejected" ELSE "fulfilled"
<1>1. /\ h \in Heap /\ s \in Seq(Reaction) /\ Len(s) \in Nat /\ n \in Nat
      /\ h.queue \in Seq(Task) /\ ~h.unhandled[p] /\ (h.observed[p] <=> s # <<>>)
  BY DEF HeapInv, Heap, FlagExact, ReactionsPending
<1>2. jobs \in Seq(Task) /\ Len(jobs) = Len(s)
  <2>1. \A i \in 1..Len(s) : Job(s[i], p, v, rej) \in Task
    BY <1>1 DEF Job, Task
  <2> QED BY <1>1, <2>1
<1>3. /\ h.queue \o jobs \in Seq(Task) /\ Len(h.queue \o jobs) = n + Len(s)
      /\ \A i \in 1..(n + Len(s)) :
           (h.queue \o jobs)[i] = IF i <= n THEN h.queue[i] ELSE jobs[i - n]
  <2>1. /\ h.queue \o jobs \in Seq(Task)
        /\ Len(h.queue \o jobs) = Len(h.queue) + Len(jobs)
        /\ \A i \in 1..(Len(h.queue) + Len(jobs)) : (h.queue \o jobs)[i] =
             IF i <= Len(h.queue) THEN h.queue[i] ELSE jobs[i - Len(h.queue)]
    <3>1. \A a, b \in Seq(Task) :
            /\ a \o b \in Seq(Task)
            /\ Len(a \o b) = Len(a) + Len(b)
            /\ \A i \in 1..(Len(a) + Len(b)) :
                 (a \o b)[i] = IF i <= Len(a) THEN a[i] ELSE b[i - Len(a)]
      BY ConcatProperties
    <3> HIDE DEF jobs
    <3> QED BY <1>1, <1>2, <3>1, Zenon
  <2> HIDE DEF jobs, s
  <2> QED BY <1>2, <2>1
<1>4. IsFiniteSet(u) /\ h.unhandledRejections = Cardinality(u) /\ p \notin u
  BY <1>1, UnhandledFinite DEF HeapInv, CountExact
<1>5. /\ Cardinality(u \cup {p}) = Cardinality(u) + 1
      /\ Cardinality(u) \in Nat /\ c \in Nat
  <2> HIDE DEF u, lonely
  <2>1. Cardinality(u) \in Nat
    BY <1>4, FS_CardinalityType
  <2>2. Cardinality(u \cup {p}) = Cardinality(u) + 1
    BY <1>4, FS_AddElement
  <2> QED BY <1>4, <2>1, <2>2
<1>6. /\ g.state = [h.state EXCEPT ![p] = st] /\ g.resolved = h.resolved
      /\ g.value = [h.value EXCEPT ![p] = v]
      /\ g.reactions = [h.reactions EXCEPT ![p] = <<>>]
      /\ g.queue = h.queue \o jobs
      /\ g.unhandled = [h.unhandled EXCEPT ![p] = lonely]
      /\ g.observed = h.observed /\ g.unhandledRejections = c
      /\ g \in Heap
  <2>1. g = [h EXCEPT !.state = [h.state EXCEPT ![p] = st],
                      !.value = [h.value EXCEPT ![p] = v],
                      !.unhandled = [h.unhandled EXCEPT ![p] = lonely],
                      !.unhandledRejections = c,
                      !.queue = h.queue \o jobs,
                      !.reactions = [h.reactions EXCEPT ![p] = <<>>]]
    BY <1>1 DEF Heap, PromiseSettleNow
  <2>2. st \in State /\ lonely \in BOOLEAN
    BY DEF State
  <2> DEFINE queue == h.queue \o jobs
  <2>3. queue \in Seq(Task) /\ <<>> \in Seq(Reaction)
    BY <1>3
  <2> HIDE DEF g, c, queue, lonely, st, s, u, n
  <2> SUFFICES /\ g.state = [h.state EXCEPT ![p] = st] /\ g.resolved = h.resolved
               /\ g.value = [h.value EXCEPT ![p] = v]
               /\ g.reactions = [h.reactions EXCEPT ![p] = <<>>]
               /\ g.queue = queue
               /\ g.unhandled = [h.unhandled EXCEPT ![p] = lonely]
               /\ g.observed = h.observed /\ g.unhandledRejections = c
               /\ g \in Heap
    BY DEF queue
  <2>4. g = [h EXCEPT !.state = [h.state EXCEPT ![p] = st],
                      !.value = [h.value EXCEPT ![p] = v],
                      !.unhandled = [h.unhandled EXCEPT ![p] = lonely],
                      !.unhandledRejections = c,
                      !.queue = queue,
                      !.reactions = [h.reactions EXCEPT ![p] = <<>>]]
    BY <2>1 DEF queue
  <2> QED BY <1>1, <1>5, <2>2, <2>3, <2>4 DEF Heap
<1>7. /\ g.state[p] = st /\ g.value[p] = v /\ g.reactions[p] = <<>> /\ g.unhandled[p] = lonely
      /\ \A q \in Promise \ {p} :
           /\ g.state[q] = h.state[q] /\ g.value[q] = h.value[q]
           /\ g.reactions[q] = h.reactions[q] /\ g.unhandled[q] = h.unhandled[q]
  <2> HIDE DEF g, st, lonely
  <2> QED BY <1>1, <1>6 DEF Heap
<1> HIDE DEF g
<1>8. Len(g.queue) = n + Len(s) /\ \A i \in 1..Len(g.queue) :
        \/ i \in 1..n /\ g.queue[i] = h.queue[i]
        \/ /\ i - n \in 1..Len(s) /\ g.queue[i].job = s[i - n] /\ g.queue[i].src = p
           /\ g.queue[i].value = v /\ g.queue[i].rejected = rej
  <2>1. \A k \in 1..Len(s) : /\ jobs[k].job = s[k] /\ jobs[k].src = p
                             /\ jobs[k].value = v /\ jobs[k].rejected = rej
    BY DEF Job
  <2> HIDE DEF jobs, s
  <2>2. ASSUME NEW i \in 1..Len(g.queue)
        PROVE  \/ i \in 1..n /\ g.queue[i] = h.queue[i]
               \/ i - n \in 1..Len(s) /\ g.queue[i] = jobs[i - n]
    BY <1>1, <1>3, <1>6
  <2> QED BY <2>1, <2>2, <1>3, <1>6
<1> HIDE DEF jobs, s, n, c, u
<1> USE DEF Allocated, Settled
<1>9. /\ FreeIsBlank(g) /\ ReactionsPending(g) /\ SettledIsResolved(g) /\ FlagExact(g)
      /\ FulfilledFlat(g) /\ Allocated(g) = Allocated(h)
  <2>1. Allocated(g) = Allocated(h)
    BY <1>7
  <2>2. FreeIsBlank(g)
    BY <1>6, <1>7 DEF HeapInv, FreeIsBlank
  <2>3. ReactionsPending(g)
    BY <1>6, <1>7 DEF HeapInv, ReactionsPending
  <2>4. SettledIsResolved(g)
    BY <1>6, <1>7 DEF HeapInv, SettledIsResolved
  <2>5. FlagExact(g)
    BY <1>1, <1>6, <1>7, ZenonT(60) DEF HeapInv, FlagExact
  <2>6. FulfilledFlat(g)
    BY <1>7 DEF HeapInv, FulfilledFlat, Flat
  <2> QED BY <2>1, <2>2, <2>3, <2>4, <2>5, <2>6
<1>10. CountExact(g)
  <2>1. CASE lonely
    <3>1. {q \in Promise : g.unhandled[q]} = u \cup {p}
      BY <2>1, <1>7 DEF u
    <3> QED BY <2>1, <3>1, <1>4, <1>5, <1>6 DEF CountExact, c
  <2>2. CASE ~lonely
    <3>1. {q \in Promise : g.unhandled[q]} = u
      BY <2>2, <1>1, <1>7 DEF u
    <3> QED BY <2>2, <3>1, <1>4, <1>6 DEF CountExact, c
  <2> QED BY <2>1, <2>2
<1>11. \A q \in Promise : Settled(h, q) => q # p
  OBVIOUS
<1>12. JobsCarry(g)
  <2> SUFFICES ASSUME NEW i \in 1..Len(g.queue) PROVE CarriesSettlement(g, g.queue[i])
    BY DEF JobsCarry
  <2>1. CASE i \in 1..n /\ g.queue[i] = h.queue[i]
    <3>1. CarriesSettlement(h, h.queue[i])
      BY <2>1 DEF HeapInv, JobsCarry, n
    <3>2. h.queue[i] \in Task
      BY <2>1, <1>1 DEF n
    <3> QED BY <2>1, <3>1, <3>2, <1>7, <1>11 DEF CarriesSettlement, Task
  <2>2. CASE g.queue[i].src = p /\ g.queue[i].value = v /\ g.queue[i].rejected = rej
    BY <2>2, <1>7 DEF CarriesSettlement
  <2> QED BY <2>1, <2>2, <1>8
<1>13. Targets(g)
  <2>1. Targets(h)
    BY DEF HeapInv
  <2>2. ASSUME NEW i \in 1..Len(g.queue) PROVE JobTarget(g, g.queue[i])
    <3>1. CASE i \in 1..n /\ g.queue[i] = h.queue[i]
      BY <3>1, <2>1, <1>9 DEF Targets, JobTarget, n
    <3>2. CASE i - n \in 1..Len(s) /\ g.queue[i].job = s[i - n] /\ g.queue[i].src = p
      BY <3>2, <2>1, <1>9, PromiseAssumption DEF Targets, JobTarget, s
    <3> QED BY <3>1, <3>2, <1>8
  <2>3. ASSUME NEW q \in Promise, NEW i \in 1..Len(g.reactions[q])
        PROVE  /\ g.reactions[q][i].p \in Allocated(g) /\ g.reactions[q][i].kind # "adopt_subscribe"
               /\ Flat(g.reactions[q][i].value, g.reactions[q][i].rejected)
    BY <2>1, <1>7, <1>9 DEF Targets
  <2> QED BY <2>2, <2>3 DEF Targets
<1>14. ASSUME NEW x \in Promise
       PROVE  /\ QueueAdopts(g, x) => QueueAdopts(h, x) \/ \E k \in 1..Len(s) : Adopts(s[k], x)
              /\ ReactionAdopts(g, x) => ReactionAdopts(h, x)
              /\ (\E k \in 1..Len(s) : Adopts(s[k], x)) => ReactionAdopts(h, x)
  <2>1. QueueAdopts(g, x) => QueueAdopts(h, x) \/ \E k \in 1..Len(s) : Adopts(s[k], x)
    BY <1>8 DEF QueueAdopts, n
  <2>2. ReactionAdopts(g, x) => ReactionAdopts(h, x)
    <3> SUFFICES ASSUME NEW q \in Promise, NEW i \in 1..Len(g.reactions[q]),
                        Adopts(g.reactions[q][i], x)
                 PROVE  ReactionAdopts(h, x)
      BY DEF ReactionAdopts
    <3>1. q # p
      BY <1>7
    <3> QED BY <3>1, <1>7 DEF ReactionAdopts
  <2>3. (\E k \in 1..Len(s) : Adopts(s[k], x)) => ReactionAdopts(h, x)
    BY DEF ReactionAdopts, s
  <2> QED BY <2>1, <2>2, <2>3
<1>15. AdopterPending(g)
  BY <1>6, <1>7, <1>14 DEF HeapInv, AdopterPending, NoAdopter
<1>16. AdoptOnce(g)
  <2> SUFFICES ASSUME NEW x \in Promise
      PROVE /\ \A i, j \in 1..Len(g.queue) :
                 Adopts(g.queue[i].job, x) /\ Adopts(g.queue[j].job, x) => i = j
            /\ \A a, b \in Promise : \A i \in 1..Len(g.reactions[a]), j \in 1..Len(g.reactions[b]) :
                 Adopts(g.reactions[a][i], x) /\ Adopts(g.reactions[b][j], x) => a = b /\ i = j
            /\ ~(QueueAdopts(g, x) /\ ReactionAdopts(g, x))
    BY DEF AdoptOnce
  <2>1. AdoptOnce(h)
    BY DEF HeapInv
  <2>2. ASSUME NEW i \in 1..Len(g.queue), Adopts(g.queue[i].job, x)
        PROVE  \/ i \in 1..n /\ Adopts(h.queue[i].job, x) /\ QueueAdopts(h, x)
               \/ i - n \in 1..Len(s) /\ Adopts(s[i - n], x) /\ ReactionAdopts(h, x)
    BY <2>2, <1>8, <1>14 DEF QueueAdopts, n
  <2>3. \A k, l \in 1..Len(s) : Adopts(s[k], x) /\ Adopts(s[l], x) => k = l
    BY <2>1 DEF AdoptOnce, s
  <2>4. \A i, j \in 1..n : Adopts(h.queue[i].job, x) /\ Adopts(h.queue[j].job, x) => i = j
    BY <2>1 DEF AdoptOnce, n
  <2>5. ~(QueueAdopts(h, x) /\ ReactionAdopts(h, x))
    BY <2>1 DEF AdoptOnce
  <2>6. \A i, j \in 1..Len(g.queue) :
          Adopts(g.queue[i].job, x) /\ Adopts(g.queue[j].job, x) => i = j
    <3> SUFFICES ASSUME NEW i \in 1..Len(g.queue), NEW j \in 1..Len(g.queue),
                        Adopts(g.queue[i].job, x), Adopts(g.queue[j].job, x)
                 PROVE  i = j
      OBVIOUS
    <3>1. CASE QueueAdopts(h, x)
      <4>1. i \in 1..n /\ j \in 1..n /\ Adopts(h.queue[i].job, x) /\ Adopts(h.queue[j].job, x)
        BY <3>1, <2>2, <2>5
      <4> QED BY <4>1, <2>4
    <3>2. CASE ~QueueAdopts(h, x)
      <4>1. /\ i - n \in 1..Len(s) /\ Adopts(s[i - n], x)
            /\ j - n \in 1..Len(s) /\ Adopts(s[j - n], x)
        BY <3>2, <2>2
      <4>2. i - n = j - n
        BY <4>1, <2>3
      <4>3. i \in Int /\ j \in Int /\ n \in Int
        BY <1>1
      <4> HIDE DEF n
      <4> QED BY <4>2, <4>3
    <3> QED BY <3>1, <3>2
  <2>7. \A a, b \in Promise : \A i \in 1..Len(g.reactions[a]), j \in 1..Len(g.reactions[b]) :
          Adopts(g.reactions[a][i], x) /\ Adopts(g.reactions[b][j], x) => a = b /\ i = j
    BY <2>1, <1>7, SMTT(40) DEF AdoptOnce
  <2>8. ~(QueueAdopts(g, x) /\ ReactionAdopts(g, x))
    <3> SUFFICES ASSUME QueueAdopts(g, x), ReactionAdopts(g, x) PROVE FALSE
      OBVIOUS
    <3>1. PICK k \in 1..Len(s) : Adopts(s[k], x)
      BY <1>14, <2>5
    <3>2. PICK a \in Promise : \E i \in 1..Len(g.reactions[a]) : Adopts(g.reactions[a][i], x)
      BY DEF ReactionAdopts
    <3>3. a # p
      BY <3>2, <1>7
    <3>4. \E i \in 1..Len(h.reactions[a]) : Adopts(h.reactions[a][i], x)
      BY <3>2, <3>3, <1>7
    <3> QED BY <3>1, <3>3, <3>4, <2>1 DEF AdoptOnce, s
  <2> QED BY <2>6, <2>7, <2>8
<1> QED BY <1>6, <1>9, <1>10, <1>12, <1>13, <1>15, <1>16 DEF HeapInv, g

\* Marking an allocated promise resolved.
LEMMA MarkInv ==
  ASSUME NEW h, HeapInv(h), NEW p \in Allocated(h)
  PROVE  LET g == [h EXCEPT !.resolved[p] = TRUE]
         IN /\ HeapInv(g) /\ Allocated(g) = Allocated(h)
            /\ g.state = h.state /\ g.value = h.value /\ g.resolved[p]
            /\ \A q \in Promise \ {p} : g.resolved[q] = h.resolved[q]
            /\ \A q \in Promise : NoAdopter(g, q) <=> NoAdopter(h, q)
<1> DEFINE g == [h EXCEPT !.resolved[p] = TRUE]
<1> USE DEF Allocated, Settled
<1>1. h \in Heap /\ p \in Promise
  BY DEF HeapInv
<1>2. /\ g.state = h.state /\ g.value = h.value /\ g.reactions = h.reactions
      /\ g.unhandled = h.unhandled /\ g.observed = h.observed /\ g.queue = h.queue
      /\ g.unhandledRejections = h.unhandledRejections /\ g \in Heap
      /\ g.resolved[p] /\ \A q \in Promise \ {p} : g.resolved[q] = h.resolved[q]
  <2>1. g = [h EXCEPT !.resolved = [h.resolved EXCEPT ![p] = TRUE]]
    BY <1>1 DEF Heap
  <2> HIDE DEF g
  <2> QED BY <1>1, <2>1 DEF Heap
<1> HIDE DEF g
<1>3. FreeIsBlank(g) /\ ReactionsPending(g) /\ SettledIsResolved(g) /\ FlagExact(g) /\ CountExact(g)
      /\ FulfilledFlat(g)
  BY <1>2 DEF HeapInv, FreeIsBlank, ReactionsPending, SettledIsResolved, FlagExact, CountExact, FulfilledFlat
<1>4. JobsCarry(g) /\ Targets(g)
  BY <1>2 DEF HeapInv, JobsCarry, CarriesSettlement, Targets, JobTarget
<1>5. \A q \in Promise : NoAdopter(g, q) <=> NoAdopter(h, q)
  BY <1>2 DEF NoAdopter, QueueAdopts, ReactionAdopts
<1>6. AdopterPending(g)
  BY <1>2, <1>5 DEF HeapInv, AdopterPending
<1>7. AdoptOnce(g)
  BY <1>2 DEF HeapInv, AdoptOnce, QueueAdopts, ReactionAdopts
<1> QED BY <1>2, <1>3, <1>4, <1>5, <1>6, <1>7 DEF HeapInv, g

\* Settling with the unhandled bookkeeping around it keeps the heap well
\* formed.
LEMMA SettleInv ==
  ASSUME NEW h, HeapInv(h), NEW p \in Allocated(h), NEW v \in Value, NEW rej \in BOOLEAN,
         ~rej /\ v \in Promise => v \in Allocated(h)
  PROVE  LET g == PromiseSettle(h, p, v, rej)
         IN HeapInv(g) /\ Keeps(h, g) /\ Allocated(g) = Allocated(h)
<1> DEFINE m == [h EXCEPT !.resolved[p] = TRUE]
<1>1. h \in Heap /\ p \in Promise /\ h.state[p] # "free" /\ CycleError \in Value
  BY DEF HeapInv, Allocated, Value
<1>2. CASE h.resolved[p]
  BY <1>2 DEF PromiseSettle, Keeps
<1>3. CASE ~h.resolved[p]
  <2>1. h.state[p] = "pending" /\ NoAdopter(h, p)
    BY <1>1, <1>3 DEF HeapInv, SettledIsResolved, Settled, AdopterPending, Heap, State
  <2>2. /\ HeapInv(m) /\ Allocated(m) = Allocated(h)
        /\ m.state = h.state /\ m.value = h.value /\ m.resolved[p]
        /\ \A q \in Promise \ {p} : m.resolved[q] = h.resolved[q]
        /\ \A q \in Promise : NoAdopter(m, q) <=> NoAdopter(h, q)
    BY <1>1, MarkInv
  <2> HIDE DEF m
  <2>3. Keeps(h, m)
    BY <1>1, <2>2 DEF Keeps
  <2>4. ASSUME NEW w \in Value, NEW r \in BOOLEAN, Flat(w, r)
        PROVE  LET g == PromiseSettleNow(m, p, w, r)
               IN HeapInv(g) /\ Keeps(h, g) /\ Allocated(g) = Allocated(h)
    <3> DEFINE g == PromiseSettleNow(m, p, w, r)
               st == IF r THEN "rejected" ELSE "fulfilled"
    <3>1. /\ HeapInv(g) /\ Allocated(g) = Allocated(m) /\ g.resolved = m.resolved
          /\ g.state = [m.state EXCEPT ![p] = st]
          /\ g.value = [m.value EXCEPT ![p] = w]
      BY <1>1, <2>1, <2>2, <2>4, SettleNowInv
    <3> HIDE DEF g, st
    <3>2. \A q \in Promise \ {p} : g.state[q] = m.state[q] /\ g.value[q] = m.value[q]
      BY <1>1, <2>2, <3>1 DEF Heap
    <3>3. Keeps(h, g)
      BY <1>3, <2>2, <3>1, <3>2 DEF Keeps
    <3> QED BY <2>2, <3>1, <3>3 DEF g
  <2>5. CASE ~rej /\ v = p
    BY <1>1, <1>3, <2>4, <2>5 DEF PromiseSettle, Flat, m
  <2>6. CASE ~rej /\ v \in Promise \ {p}
    <3> DEFINE a == Rx("adopt_subscribe", p)
               g == Enqueue(m, a, NoPromise, v, FALSE)
    <3>1. a \in Reaction /\ a.kind = "adopt_subscribe" /\ a.p = p /\ Flat(a.value, a.rejected)
      BY <1>1, RxFlat DEF Rx, Reaction, Kind, Value
    <3>2. JobTarget(m, Job(a, NoPromise, v, FALSE)) /\ CarriesSettlement(m, Job(a, NoPromise, v, FALSE))
      BY <2>2, <2>6, <3>1 DEF JobTarget, CarriesSettlement, Job
    <3> HIDE DEF a
    <3>3. HeapInv(g) /\ Keeps(m, g) /\ Allocated(g) = Allocated(m)
      <4>1. NoAdopter(m, a.p) /\ m.state[a.p] = "pending" /\ m.resolved[a.p]
        BY <1>1, <2>1, <2>2, <3>1
      <4>2. NoPromise \in Promise \cup {NoPromise} /\ FALSE \in BOOLEAN
        OBVIOUS
      <4> QED BY <2>2, <3>1, <3>2, <4>1, <4>2, EnqueueInv
    <3> HIDE DEF g
    <3>4. Keeps(h, g)
      BY <2>3, <3>3 DEF Keeps
    <3>5. PromiseSettle(h, p, v, rej) = g
      BY <1>3, <2>6 DEF PromiseSettle, g, a, m
    <3> QED BY <2>2, <3>3, <3>4, <3>5
  <2>7. CASE rej \/ v \notin Promise
    <3>1. PromiseSettle(h, p, v, rej) = PromiseSettleNow(m, p, v, rej)
      BY <1>1, <1>3, <2>7 DEF PromiseSettle, m
    <3> QED BY <2>4, <2>7, <3>1 DEF Flat
  <2> QED BY <2>5, <2>6, <2>7
<1> QED BY <1>2, <1>3

\* Promise.resolve and Promise.reject allocate at most the promise q.
LEMMA ResolveInv ==
  ASSUME NEW h, HeapInv(h), NEW v \in Value, NEW q \in Promise,
         v \in Promise => v \in Allocated(h), v \notin Promise => q \in Free(h)
  PROVE  LET g == PromiseResolve(h, v, q)
         IN /\ HeapInv(g) /\ Keeps(h, g)
            /\ Resolved(v, q) \in Allocated(g) /\ Allocated(h) \subseteq Allocated(g)
            /\ v \notin Promise => q \in Allocated(g)
<1>1. CASE v \in Promise
  BY <1>1 DEF PromiseResolve, Resolved, Keeps
<1>2. CASE v \notin Promise
  <2> DEFINE n == PromiseNew(h, q)
             g == PromiseSettle(n, q, v, FALSE)
  <2>1. HeapInv(n) /\ Keeps(h, n) /\ Allocated(n) = Allocated(h) \cup {q}
    BY <1>2, NewInv
  <2> HIDE DEF n
  <2>2. HeapInv(g) /\ Keeps(n, g) /\ Allocated(g) = Allocated(n)
    BY <1>2, <2>1, SettleInv
  <2> HIDE DEF g
  <2>3. Keeps(h, g)
    BY <2>1, <2>2 DEF Keeps
  <2> QED BY <1>2, <2>1, <2>2, <2>3 DEF PromiseResolve, Resolved, n, g
<1> QED BY <1>1, <1>2

\* jsrt_promise_reject keeps the heap well formed.
LEMMA RejectInv ==
  ASSUME NEW h, HeapInv(h), NEW v \in Value, NEW q \in Free(h)
  PROVE  LET g == PromiseReject(h, v, q)
         IN /\ HeapInv(g) /\ Keeps(h, g) /\ q \in Allocated(g) /\ Allocated(h) \subseteq Allocated(g)
<1> DEFINE n == PromiseNew(h, q)
           g == PromiseSettle(n, q, v, TRUE)
<1>1. HeapInv(n) /\ Keeps(h, n) /\ Allocated(n) = Allocated(h) \cup {q}
  BY NewInv
<1> HIDE DEF n
<1>2. HeapInv(g) /\ Keeps(n, g) /\ Allocated(g) = Allocated(n)
  BY <1>1, SettleInv
<1> HIDE DEF g
<1>3. Keeps(h, g)
  BY <1>1, <1>2 DEF Keeps
<1> QED BY <1>1, <1>2, <1>3 DEF PromiseReject, n, g

-----------------------------------------------------------------------------
(* The head of the queue, taken off it and run.                            *)

\* Taking the first job off the queue keeps the heap well formed.
LEMMA PopInv ==
  ASSUME NEW h, HeapInv(h), h.queue # <<>>
  PROVE  LET g == [h EXCEPT !.queue = Tail(@)]
             t == Head(h.queue)
         IN /\ HeapInv(g) /\ Keeps(h, g) /\ Allocated(g) = Allocated(h)
            /\ g.state = h.state /\ g.value = h.value /\ g.resolved = h.resolved
            /\ g.unhandledRejections = h.unhandledRejections
            /\ t \in Task /\ JobTarget(h, t) /\ CarriesSettlement(h, t)
            /\ t.job.kind \in {"adopt", "adopt_subscribe"} =>
                 NoAdopter(g, t.job.p) /\ g.state[t.job.p] = "pending" /\ g.resolved[t.job.p]
<1> DEFINE g == [h EXCEPT !.queue = Tail(@)]
           t == Head(h.queue)
           n == Len(h.queue)
<1>1. /\ h \in Heap /\ h.queue \in Seq(Task) /\ n \in Nat \ {0} /\ t = h.queue[1]
      /\ t \in Task
  <2>1. h \in Heap /\ h.queue \in Seq(Task)
    BY DEF HeapInv, Heap
  <2> QED BY <2>1
<1>2. /\ Tail(h.queue) \in Seq(Task) /\ Len(Tail(h.queue)) = n - 1
      /\ \A i \in 1..(n - 1) : Tail(h.queue)[i] = h.queue[i + 1] /\ i + 1 \in 1..n /\ i + 1 # 1
  BY <1>1
<1>3. /\ g.state = h.state /\ g.resolved = h.resolved /\ g.value = h.value
      /\ g.reactions = h.reactions /\ g.unhandled = h.unhandled
      /\ g.observed = h.observed /\ g.unhandledRejections = h.unhandledRejections
      /\ g.queue = Tail(h.queue) /\ g \in Heap
  <2> DEFINE queue == Tail(h.queue)
  <2>1. g = [h EXCEPT !.queue = queue] /\ queue \in Seq(Task)
    BY <1>2
  <2> HIDE DEF g, queue
  <2>2. /\ g.state = h.state /\ g.resolved = h.resolved /\ g.value = h.value
        /\ g.reactions = h.reactions /\ g.unhandled = h.unhandled
        /\ g.observed = h.observed /\ g.unhandledRejections = h.unhandledRejections
        /\ g.queue = queue /\ g \in Heap
    BY <1>1, <2>1 DEF Heap
  <2> QED BY <2>2 DEF queue
<1>4. /\ Len(g.queue) = n - 1 /\ n \in Nat \ {0}
      /\ \A i \in 1..Len(g.queue) : g.queue[i] = h.queue[i + 1] /\ i + 1 \in 1..n /\ i + 1 # 1
  BY <1>1, <1>2, <1>3
<1>5. 1 \in 1..n /\ JobTarget(h, t) /\ CarriesSettlement(h, t)
  BY <1>1 DEF HeapInv, Targets, JobsCarry
<1> HIDE DEF g, t, n
<1> USE DEF Allocated, Settled
<1>6. FreeIsBlank(g) /\ ReactionsPending(g) /\ SettledIsResolved(g) /\ FlagExact(g) /\ CountExact(g)
      /\ FulfilledFlat(g)
  BY <1>3 DEF HeapInv, FreeIsBlank, ReactionsPending, SettledIsResolved, FlagExact, CountExact, FulfilledFlat
<1>7. JobsCarry(g)
  BY <1>3, <1>4 DEF HeapInv, JobsCarry, CarriesSettlement, n
<1>8. Targets(g)
  BY <1>3, <1>4 DEF HeapInv, Targets, JobTarget, n
<1>9. ASSUME NEW x \in Promise
      PROVE  /\ QueueAdopts(g, x) => QueueAdopts(h, x)
             /\ ReactionAdopts(g, x) <=> ReactionAdopts(h, x)
  BY <1>3, <1>4 DEF QueueAdopts, ReactionAdopts, n
<1>10. AdopterPending(g)
  BY <1>3, <1>9 DEF HeapInv, AdopterPending, NoAdopter
<1>11. AdoptOnce(g)
  <2> SUFFICES ASSUME NEW x \in Promise
      PROVE /\ \A i, j \in 1..Len(g.queue) :
                 Adopts(g.queue[i].job, x) /\ Adopts(g.queue[j].job, x) => i = j
            /\ \A a, b \in Promise : \A i \in 1..Len(g.reactions[a]), j \in 1..Len(g.reactions[b]) :
                 Adopts(g.reactions[a][i], x) /\ Adopts(g.reactions[b][j], x) => a = b /\ i = j
            /\ ~(QueueAdopts(g, x) /\ ReactionAdopts(g, x))
    BY DEF AdoptOnce
  <2>1. AdoptOnce(h)
    BY DEF HeapInv
  <2>2. \A i, j \in 1..n : Adopts(h.queue[i].job, x) /\ Adopts(h.queue[j].job, x) => i = j
    BY <2>1 DEF AdoptOnce, n
  <2>3. \A i, j \in 1..Len(g.queue) :
          Adopts(g.queue[i].job, x) /\ Adopts(g.queue[j].job, x) => i = j
    <3> TAKE i, j \in 1..Len(g.queue)
    <3> HAVE Adopts(g.queue[i].job, x) /\ Adopts(g.queue[j].job, x)
    <3>1. i + 1 = j + 1
      BY <2>2, <1>4
    <3> QED BY <3>1, <1>4
  <2>4. \A a, b \in Promise : \A i \in 1..Len(g.reactions[a]), j \in 1..Len(g.reactions[b]) :
          Adopts(g.reactions[a][i], x) /\ Adopts(g.reactions[b][j], x) => a = b /\ i = j
    BY <2>1, <1>3 DEF AdoptOnce
  <2>5. ~(QueueAdopts(g, x) /\ ReactionAdopts(g, x))
    BY <2>1, <1>9 DEF AdoptOnce
  <2> QED BY <2>3, <2>4, <2>5
<1>12. ASSUME t.job.kind \in {"adopt", "adopt_subscribe"}
       PROVE  NoAdopter(g, t.job.p) /\ g.state[t.job.p] = "pending" /\ g.resolved[t.job.p]
  <2> DEFINE x == t.job.p
  <2>1. x \in Promise /\ Adopts(h.queue[1].job, x)
    BY <1>1, <1>5, <1>12 DEF Adopts, JobTarget, t
  <2> HIDE DEF x
  <2>2. QueueAdopts(h, x)
    BY <1>5, <2>1 DEF QueueAdopts, n
  <2>3. AdoptOnce(h) /\ AdopterPending(h)
    BY DEF HeapInv
  <2>4. ~ReactionAdopts(g, x) /\ g.state[x] = "pending" /\ g.resolved[x]
    BY <1>3, <1>9, <2>1, <2>2, <2>3 DEF AdoptOnce, AdopterPending, NoAdopter
  <2>5. ~QueueAdopts(g, x)
    <3> SUFFICES ASSUME NEW i \in 1..Len(g.queue), Adopts(g.queue[i].job, x) PROVE FALSE
      BY DEF QueueAdopts
    <3>1. Adopts(h.queue[i + 1].job, x) /\ i + 1 \in 1..n /\ i + 1 # 1
      BY <1>4
    <3>2. \A j, k \in 1..n : Adopts(h.queue[j].job, x) /\ Adopts(h.queue[k].job, x) => j = k
      BY <2>1, <2>3 DEF AdoptOnce, n
    <3> QED BY <1>5, <2>1, <3>1, <3>2
  <2> QED BY <2>4, <2>5 DEF NoAdopter, x
<1>13. Keeps(h, g) /\ Allocated(g) = Allocated(h)
  BY <1>3 DEF Keeps
<1> QED BY <1>1, <1>3, <1>5, <1>6, <1>7, <1>8, <1>10, <1>11, <1>12, <1>13 DEF HeapInv, g, t

------------------------------------------------------------------------------
(***************************************************************************)
(* Who waits: how the operations change the set of continuations, and the  *)
(* number of those that will settle a promise.  A continuation is never    *)
(* lost and never doubled: what leaves the registrations of a promise      *)
(* enters the queue.                                                       *)
(***************************************************************************)

-----------------------------------------------------------------------------
(* Counting.                                                               *)

\* A one-to-one image of a finite set is as large as the set.
LEMMA SameSize ==
  ASSUME NEW S, NEW T, IsFiniteSet(S), NEW f \in [S -> T],
         \A x, y \in S : f[x] = f[y] => x = y,
         \A t \in T : \E x \in S : f[x] = t
  PROVE  IsFiniteSet(T) /\ Cardinality(T) = Cardinality(S)
<1>1. f \in Bijection(S, T)
  BY DEF Bijection, Injection, Surjection, IsInjective
<1> QED BY <1>1, FS_Bijection DEF ExistsBijection

\* Positions moved by n are as many.
LEMMA ShiftSize ==
  ASSUME NEW I, I \subseteq Int, IsFiniteSet(I), NEW n \in Int
  PROVE  LET J == {i + n : i \in I}
         IN IsFiniteSet(J) /\ Cardinality(J) = Cardinality(I)
<1> DEFINE J == {i + n : i \in I}
           f == [i \in I |-> i + n]
<1>1. f \in [I -> J]
  OBVIOUS
<1>2. \A x, y \in I : f[x] = f[y] => x = y
  OBVIOUS
<1>3. \A t \in J : \E x \in I : f[x] = t
  OBVIOUS
<1> HIDE DEF f, J
<1> QED BY <1>1, <1>2, <1>3, SameSize DEF J

\* Positions tagged with the promise they are registered on are as many.
LEMMA TagSize ==
  ASSUME NEW I, IsFiniteSet(I), NEW q
  PROVE  IsFiniteSet({q} \X I) /\ Cardinality({q} \X I) = Cardinality(I)
<1> DEFINE J == {q} \X I
           f == [i \in I |-> <<q, i>>]
<1>1. f \in [I -> J] /\ \A x, y \in I : f[x] = f[y] => x = y
  OBVIOUS
<1>2. \A t \in J : \E x \in I : f[x] = t
  OBVIOUS
<1> HIDE DEF f, J
<1> QED BY <1>1, <1>2, SameSize DEF J

\* A set put together from two that have nothing in common.
LEMMA DisjointSize ==
  ASSUME NEW S, NEW T, IsFiniteSet(S), IsFiniteSet(T), S \cap T = {}
  PROVE  /\ IsFiniteSet(S \cup T)
         /\ Cardinality(S \cup T) = Cardinality(S) + Cardinality(T)
<1>1. Cardinality(S) \in Nat /\ Cardinality(T) \in Nat /\ Cardinality(S \cap T) = 0
  BY FS_CardinalityType, FS_EmptySet
<1>2. IsFiniteSet(S \cup T)
      /\ Cardinality(S \cup T) = Cardinality(S) + Cardinality(T) - Cardinality(S \cap T)
  BY FS_Union
<1> QED BY <1>1, <1>2

\* Where the continuations of p are registered on q.
Slots(h, q, p, K) == {i \in 1..Len(h.reactions[q]) : Continues(h.reactions[q][i], p, K)}

\* The registered continuations of p, place by place.
LEMMA RegisteredIs ==
  ASSUME NEW h \in Heap, NEW p, NEW K
  PROVE  /\ Registered(h, p, K) = UNION {{q} \X Slots(h, q, p, K) : q \in Promise}
         /\ Queued(h, p, K) = {i \in 1..Len(h.queue) : Continues(h.queue[i].job, p, K)}
         /\ \A q \in Promise : /\ h.reactions[q] \in Seq(Reaction) /\ Len(h.reactions[q]) \in Nat
                               /\ Slots(h, q, p, K) \subseteq Nat /\ IsFiniteSet(Slots(h, q, p, K))
         /\ h.queue \in Seq(Task) /\ Len(h.queue) \in Nat
         /\ Queued(h, p, K) \subseteq Nat /\ IsFiniteSet(Queued(h, p, K))
<1>1. h.queue \in Seq(Task) /\ \A q \in Promise : h.reactions[q] \in Seq(Reaction)
  BY DEF Heap
<1>2. /\ DOMAIN h.queue = 1..Len(h.queue) /\ Len(h.queue) \in Nat
      /\ \A q \in Promise : DOMAIN h.reactions[q] = 1..Len(h.reactions[q]) /\ Len(h.reactions[q]) \in Nat
  BY <1>1
<1>3. Queued(h, p, K) = {i \in 1..Len(h.queue) : Continues(h.queue[i].job, p, K)}
  BY <1>2 DEF Queued
<1>4. \A q \in Promise :
        Slots(h, q, p, K) = {i \in DOMAIN h.reactions[q] : Continues(h.reactions[q][i], p, K)}
  BY <1>2 DEF Slots
<1>5. Registered(h, p, K) = UNION {{q} \X Slots(h, q, p, K) : q \in Promise}
  BY <1>4 DEF Registered
<1>6. ASSUME NEW n \in Nat, NEW S \in SUBSET (1..n) PROVE S \subseteq Nat /\ IsFiniteSet(S)
  <2>1. IsFiniteSet(1..n) /\ 1..n \subseteq Nat
    BY FS_Interval
  <2> QED BY <2>1, FS_Subset
<1>7. \A q \in Promise : Slots(h, q, p, K) \subseteq Nat /\ IsFiniteSet(Slots(h, q, p, K))
  BY <1>2, <1>6 DEF Slots
<1>8. Queued(h, p, K) \subseteq Nat /\ IsFiniteSet(Queued(h, p, K))
  BY <1>2, <1>3, <1>6
<1> QED BY <1>1, <1>2, <1>3, <1>5, <1>7, <1>8

\* The continuations of p registered on q are finitely many.
LEMMA SlotsType ==
  ASSUME NEW h \in Heap, NEW q \in Promise, NEW p, NEW K
  PROVE  /\ Slots(h, q, p, K) \subseteq Int /\ IsFiniteSet(Slots(h, q, p, K))
         /\ Cardinality(Slots(h, q, p, K)) \in Nat
<1>1. Slots(h, q, p, K) \subseteq Nat /\ IsFiniteSet(Slots(h, q, p, K))
  BY RegisteredIs
<1> QED BY <1>1, FS_CardinalityType

\* The continuations registered on q, and those registered elsewhere.
LEMMA RegisteredSplit ==
  ASSUME NEW h \in Heap, NEW p, NEW K, NEW q \in Promise
  PROVE  LET rest == UNION {{x} \X Slots(h, x, p, K) : x \in Promise \ {q}}
         IN /\ Registered(h, p, K) = ({q} \X Slots(h, q, p, K)) \cup rest
            /\ ({q} \X Slots(h, q, p, K)) \cap rest = {}
            /\ IsFiniteSet(rest) /\ IsFiniteSet(Registered(h, p, K))
            /\ Cardinality(Registered(h, p, K)) = Cardinality(Slots(h, q, p, K)) + Cardinality(rest)
<1> DEFINE Part(x) == {x} \X Slots(h, x, p, K)
           rest == UNION {Part(x) : x \in Promise \ {q}}
<1>1. Registered(h, p, K) = UNION {Part(x) : x \in Promise}
  BY RegisteredIs
<1>2. Registered(h, p, K) = Part(q) \cup rest
  <2> HIDE DEF Part
  <2> QED BY <1>1
<1>3. Part(q) \cap rest = {}
  OBVIOUS
<1>4. \A x \in Promise : IsFiniteSet(Part(x))
  BY RegisteredIs, TagSize
<1>5. IsFiniteSet(rest)
  <2> DEFINE D == Promise \ {q}
             parts == {Part(x) : x \in D}
             f == [x \in D |-> Part(x)]
  <2>1. IsFiniteSet(D)
    BY FS_Subset, PromiseAssumption
  <2>2. f \in Surjection(D, parts)
    <3> HIDE DEF Part, D
    <3> QED BY DEF Surjection
  <2>3. IsFiniteSet(parts)
    <3> HIDE DEF parts, f, D
    <3> QED BY <2>1, <2>2, FS_Surjection
  <2> QED BY <1>4, <2>3, FS_UNION
<1>6. IsFiniteSet(Part(q)) /\ Cardinality(Part(q)) = Cardinality(Slots(h, q, p, K))
  BY RegisteredIs, TagSize
<1> HIDE DEF Part, rest
<1>7. /\ IsFiniteSet(Part(q) \cup rest)
      /\ Cardinality(Part(q) \cup rest) = Cardinality(Part(q)) + Cardinality(rest)
  BY <1>3, <1>5, <1>6, DisjointSize
<1> QED BY <1>2, <1>3, <1>5, <1>6, <1>7 DEF Part, rest

\* Those who wait are finitely many.
LEMMA WaitingType ==
  ASSUME NEW h \in Heap, NEW p, NEW K
  PROVE  /\ Waiting(h, p, K) \in Nat
         /\ Cardinality(Registered(h, p, K)) \in Nat /\ Cardinality(Queued(h, p, K)) \in Nat
<1>1. IsFiniteSet(Queued(h, p, K))
  BY RegisteredIs
<1>2. IsFiniteSet(Registered(h, p, K))
  <2>1. CASE Promise = {}
    BY <2>1, FS_EmptySet DEF Registered
  <2>2. CASE Promise # {}
    <3>1. PICK q \in Promise : TRUE
      BY <2>2
    <3> QED BY <3>1, RegisteredSplit
  <2> QED BY <2>1, <2>2
<1>3. Cardinality(Registered(h, p, K)) \in Nat /\ Cardinality(Queued(h, p, K)) \in Nat
  BY <1>1, <1>2, FS_CardinalityType
<1> QED BY <1>3 DEF Waiting

\* The continuations on q are those of its registrations, the others are in the queue.
LEMMA WaiterIs ==
  ASSUME NEW h, NEW w
  PROVE  w \in Waiters(h) <=>
           \/ \E q \in Promise : \E i \in 1..Len(h.reactions[q]) : w = <<h.reactions[q][i], q>>
           \/ \E i \in 1..Len(h.queue) : w = <<h.queue[i].job, h.queue[i].src>>
BY DEF Waiters

\* Who waits is a reaction and a promise, or no promise.
LEMMA WaiterType ==
  ASSUME NEW h \in Heap, NEW w \in Waiters(h)
  PROVE  w[1] \in Reaction /\ w[2] \in Promise \cup {NoPromise} /\ w = <<w[1], w[2]>>
<1>1. CASE \E q \in Promise : \E i \in 1..Len(h.reactions[q]) : w = <<h.reactions[q][i], q>>
  BY <1>1 DEF Heap
<1>2. CASE \E i \in 1..Len(h.queue) : w = <<h.queue[i].job, h.queue[i].src>>
  <2>1. PICK i \in 1..Len(h.queue) : w = <<h.queue[i].job, h.queue[i].src>>
    BY <1>2
  <2>2. h.queue[i] \in Task
    BY DEF Heap
  <2> QED BY <2>1, <2>2 DEF Task
<1> QED BY <1>1, <1>2, WaiterIs

\* Nobody waits on behalf of p exactly when the count is zero.
LEMMA WaitingZero ==
  ASSUME NEW h \in Heap, NEW p, NEW K
  PROVE  Waiting(h, p, K) = 0 <=> \A w \in Waiters(h) : ~Continues(w[1], p, K)
<1> DEFINE R == Registered(h, p, K)
           Q == Queued(h, p, K)
<1>1. /\ R = UNION {{q} \X Slots(h, q, p, K) : q \in Promise}
      /\ Q = {i \in 1..Len(h.queue) : Continues(h.queue[i].job, p, K)}
      /\ IsFiniteSet(Q)
  BY RegisteredIs
<1>2. IsFiniteSet(R)
  <2>1. CASE Promise = {}
    BY <2>1, FS_EmptySet DEF Registered
  <2>2. CASE Promise # {}
    BY <2>2, RegisteredSplit
  <2> QED BY <2>1, <2>2
<1>3. R = {} <=> \A q \in Promise : \A i \in 1..Len(h.reactions[q]) : ~Continues(h.reactions[q][i], p, K)
  <2>1. \A q \in Promise : \A i \in Slots(h, q, p, K) : <<q, i>> \in R
    BY <1>1
  <2>2. \A x \in R : \E q \in Promise : x \in {q} \X Slots(h, q, p, K)
    BY <1>1
  <2>3. \A x \in R : \E q \in Promise : \E i \in Slots(h, q, p, K) : TRUE
    BY <2>2
  <2> HIDE DEF R
  <2> QED BY <2>1, <2>3 DEF Slots
<1>4. Q = {} <=> \A i \in 1..Len(h.queue) : ~Continues(h.queue[i].job, p, K)
  BY <1>1
<1>5. /\ Cardinality(R) \in Nat /\ Cardinality(Q) \in Nat
      /\ Cardinality(R) = 0 <=> R = {}
      /\ Cardinality(Q) = 0 <=> Q = {}
  BY <1>1, <1>2, FS_CardinalityType, FS_EmptySet
<1>6. Waiting(h, p, K) = 0 <=> R = {} /\ Q = {}
  BY <1>5 DEF Waiting
<1>7. (\A w \in Waiters(h) : ~Continues(w[1], p, K)) <=>
        /\ \A q \in Promise : \A i \in 1..Len(h.reactions[q]) : ~Continues(h.reactions[q][i], p, K)
        /\ \A i \in 1..Len(h.queue) : ~Continues(h.queue[i].job, p, K)
  <2>1. \A q \in Promise : \A i \in 1..Len(h.reactions[q]) : <<h.reactions[q][i], q>> \in Waiters(h)
    BY DEF Waiters
  <2>2. \A i \in 1..Len(h.queue) : <<h.queue[i].job, h.queue[i].src>> \in Waiters(h)
    BY DEF Waiters
  <2>3. ASSUME NEW w \in Waiters(h)
        PROVE  \/ \E q \in Promise : \E i \in 1..Len(h.reactions[q]) : w[1] = h.reactions[q][i]
               \/ \E i \in 1..Len(h.queue) : w[1] = h.queue[i].job
    BY WaiterIs
  <2>4. \A a, b : <<a, b>>[1] = a
    OBVIOUS
  <2> QED BY <2>1, <2>2, <2>3, <2>4, Zenon
<1> QED BY <1>3, <1>4, <1>6, <1>7

\* Kinds that have nothing in common are counted apart.
LEMMA WaitingKinds ==
  ASSUME NEW h \in Heap, NEW p, NEW K, NEW L, K \cap L = {}
  PROVE  Waiting(h, p, K \cup L) = Waiting(h, p, K) + Waiting(h, p, L)
<1>1. Registered(h, p, K \cup L) = Registered(h, p, K) \cup Registered(h, p, L)
  BY DEF Registered, Continues
<1>2. Registered(h, p, K) \cap Registered(h, p, L) = {}
  BY DEF Registered, Continues
<1>3. /\ Queued(h, p, K \cup L) = Queued(h, p, K) \cup Queued(h, p, L)
      /\ Queued(h, p, K) \cap Queued(h, p, L) = {}
  BY DEF Queued, Continues
<1>4. ASSUME NEW M PROVE IsFiniteSet(Registered(h, p, M)) /\ IsFiniteSet(Queued(h, p, M))
  <2>1. CASE Promise = {}
    BY <2>1, RegisteredIs, FS_EmptySet DEF Registered
  <2>2. CASE Promise # {}
    BY <2>2, RegisteredSplit, RegisteredIs
  <2> QED BY <2>1, <2>2
<1>5. /\ Cardinality(Registered(h, p, K \cup L)) =
           Cardinality(Registered(h, p, K)) + Cardinality(Registered(h, p, L))
      /\ Cardinality(Queued(h, p, K \cup L)) = Cardinality(Queued(h, p, K)) + Cardinality(Queued(h, p, L))
  BY <1>1, <1>2, <1>3, <1>4, DisjointSize
<1> QED BY <1>5, WaitingType DEF Waiting

\* The same, over the places of the queue as one set.
Places(h) == 1..Len(h.queue)

\* The queued continuations and the waiters, by their places in the queue.
LEMMA PlacesAre ==
  ASSUME NEW h \in Heap, NEW p, NEW K
  PROVE  /\ Queued(h, p, K) = {i \in Places(h) : Continues(h.queue[i].job, p, K)}
         /\ \A w : w \in Waiters(h) <=>
              \/ \E q \in Promise : \E i \in 1..Len(h.reactions[q]) : w = <<h.reactions[q][i], q>>
              \/ \E i \in Places(h) : w = <<h.queue[i].job, h.queue[i].src>>
BY RegisteredIs, WaiterIs DEF Places

-----------------------------------------------------------------------------
(* The ways an operation moves continuations.                              *)

\* What touches neither the queue nor the registrations changes no continuation.
LEMMA WaitsSame ==
  ASSUME NEW h, NEW g, g.queue = h.queue, g.reactions = h.reactions, NEW p, NEW K
  PROVE  Waiters(g) = Waiters(h) /\ Waiting(g, p, K) = Waiting(h, p, K)
BY DEF Waiters, Waiting, Registered, Queued

\* A job at the end of the queue is one more continuation.
LEMMA WaitsQueued ==
  ASSUME NEW h \in Heap, NEW g \in Heap, NEW t \in Task, g.reactions = h.reactions,
         g.queue = Append(h.queue, t), NEW p, NEW K
  PROVE  /\ Waiters(g) = Waiters(h) \cup {<<t.job, t.src>>}
         /\ Waiting(g, p, K) = Waiting(h, p, K) + IF Continues(t.job, p, K) THEN 1 ELSE 0
<1> DEFINE n == Len(h.queue)
<1>1. /\ h.queue \in Seq(Task) /\ n \in Nat /\ Len(g.queue) = n + 1 /\ g.queue[n + 1] = t
      /\ \A i \in 1..n : g.queue[i] = h.queue[i]
      /\ \A i \in 1..(n + 1) : i \in 1..n \/ i = n + 1
      /\ 1..n \subseteq 1..(n + 1) /\ n + 1 \in 1..(n + 1) /\ n + 1 \notin 1..n
  BY DEF Heap
<1>2. ASSUME NEW w PROVE w \in Waiters(g) <=> w \in Waiters(h) \/ w = <<t.job, t.src>>
  <2> HIDE DEF n
  <2>1. (\E i \in 1..Len(g.queue) : w = <<g.queue[i].job, g.queue[i].src>>) <=>
          \/ \E i \in 1..n : w = <<h.queue[i].job, h.queue[i].src>>
          \/ w = <<t.job, t.src>>
    BY <1>1
  <2> QED BY <2>1, WaiterIs, SMTT(30) DEF n
<1>3. Registered(g, p, K) = Registered(h, p, K)
  BY DEF Registered
<1>4. Queued(g, p, K) = Queued(h, p, K) \cup (IF Continues(t.job, p, K) THEN {n + 1} ELSE {})
  <2>1. /\ Queued(g, p, K) = {i \in 1..Len(g.queue) : Continues(g.queue[i].job, p, K)}
        /\ Queued(h, p, K) = {i \in 1..Len(h.queue) : Continues(h.queue[i].job, p, K)}
    BY RegisteredIs
  <2> HIDE DEF n
  <2>2. Queued(h, p, K) = {i \in 1..n : Continues(h.queue[i].job, p, K)}
    BY <2>1 DEF n
  <2>3. CASE Continues(t.job, p, K)
    BY <1>1, <2>1, <2>2, <2>3
  <2>4. CASE ~Continues(t.job, p, K)
    BY <1>1, <2>1, <2>2, <2>4
  <2> QED BY <2>3, <2>4
<1>5. n + 1 \notin Queued(h, p, K) /\ IsFiniteSet(Queued(h, p, K))
  BY <1>1, RegisteredIs
<1>6. Cardinality(Queued(g, p, K)) =
        Cardinality(Queued(h, p, K)) + IF Continues(t.job, p, K) THEN 1 ELSE 0
  <2>1. CASE Continues(t.job, p, K)
    <3> HIDE DEF n
    <3>1. Cardinality(Queued(h, p, K) \cup {n + 1}) = Cardinality(Queued(h, p, K)) + 1
      BY <1>5, FS_AddElement
    <3> QED BY <1>4, <2>1, <3>1
  <2>2. CASE ~Continues(t.job, p, K)
    <3> HIDE DEF n
    <3>1. Queued(g, p, K) = Queued(h, p, K)
      BY <1>4, <2>2
    <3> QED BY <2>2, <3>1, WaitingType
  <2> QED BY <2>1, <2>2
<1>7. Waiting(g, p, K) = Waiting(h, p, K) + IF Continues(t.job, p, K) THEN 1 ELSE 0
  BY <1>3, <1>6, WaitingType DEF Waiting
<1> QED BY <1>2, <1>7

\* A registration is one more continuation, on the promise it is made on.
LEMMA WaitsRegistered ==
  ASSUME NEW h \in Heap, NEW g \in Heap, NEW q \in Promise, NEW r \in Reaction, g.queue = h.queue,
         g.reactions = [h.reactions EXCEPT ![q] = Append(h.reactions[q], r)], NEW p, NEW K
  PROVE  /\ Waiters(g) = Waiters(h) \cup {<<r, q>>}
         /\ Waiting(g, p, K) = Waiting(h, p, K) + IF Continues(r, p, K) THEN 1 ELSE 0
<1> DEFINE s == h.reactions[q]
           n == Len(s)
<1>1. /\ s \in Seq(Reaction) /\ n \in Nat /\ g.reactions[q] = Append(s, r)
      /\ \A x \in Promise \ {q} : g.reactions[x] = h.reactions[x]
  BY DEF Heap
<1> HIDE DEF s, n
<1>2. /\ Len(g.reactions[q]) = n + 1 /\ g.reactions[q][n + 1] = r
      /\ \A i \in 1..n : g.reactions[q][i] = s[i]
      /\ \A i \in 1..(n + 1) : i \in 1..n \/ i = n + 1
      /\ 1..n \subseteq 1..(n + 1) /\ n + 1 \in 1..(n + 1) /\ n + 1 \notin 1..n
  BY <1>1 DEF n
<1>3. ASSUME NEW w PROVE w \in Waiters(g) <=> w \in Waiters(h) \/ w = <<r, q>>
  <2>1. (\E i \in 1..Len(g.reactions[q]) : w = <<g.reactions[q][i], q>>) <=>
          \/ \E i \in 1..n : w = <<s[i], q>>
          \/ w = <<r, q>>
    BY <1>2
  <2>2. ASSUME NEW x \in Promise
        PROVE  (\E i \in 1..Len(g.reactions[x]) : w = <<g.reactions[x][i], x>>) <=>
                 \/ \E i \in 1..Len(h.reactions[x]) : w = <<h.reactions[x][i], x>>
                 \/ x = q /\ w = <<r, q>>
    BY <1>1, <2>1 DEF s, n
  <2>3. (\E x \in Promise : \E i \in 1..Len(g.reactions[x]) : w = <<g.reactions[x][i], x>>) <=>
          \/ \E x \in Promise : \E i \in 1..Len(h.reactions[x]) : w = <<h.reactions[x][i], x>>
          \/ w = <<r, q>>
    BY <2>2, Zenon
  <2>4. (\E i \in 1..Len(g.queue) : w = <<g.queue[i].job, g.queue[i].src>>) <=>
          (\E i \in 1..Len(h.queue) : w = <<h.queue[i].job, h.queue[i].src>>)
    OBVIOUS
  <2>5. w \in Waiters(h) <=>
          \/ \E x \in Promise : \E i \in 1..Len(h.reactions[x]) : w = <<h.reactions[x][i], x>>
          \/ \E i \in 1..Len(h.queue) : w = <<h.queue[i].job, h.queue[i].src>>
    BY WaiterIs
  <2>6. w \in Waiters(g) <=>
          \/ \E x \in Promise : \E i \in 1..Len(g.reactions[x]) : w = <<g.reactions[x][i], x>>
          \/ \E i \in 1..Len(g.queue) : w = <<g.queue[i].job, g.queue[i].src>>
    BY WaiterIs, ZenonT(40)
  <2> QED BY <2>3, <2>4, <2>5, <2>6, Zenon
<1>4. Slots(g, q, p, K) = Slots(h, q, p, K) \cup (IF Continues(r, p, K) THEN {n + 1} ELSE {})
  <2>1. Slots(h, q, p, K) = {i \in 1..n : Continues(s[i], p, K)}
    BY DEF Slots, n, s
  <2>2. CASE Continues(r, p, K)
    BY <1>2, <2>1, <2>2 DEF Slots
  <2>3. CASE ~Continues(r, p, K)
    BY <1>2, <2>1, <2>3 DEF Slots
  <2> QED BY <2>2, <2>3
<1>5. n + 1 \notin Slots(h, q, p, K) /\ IsFiniteSet(Slots(h, q, p, K))
      /\ Cardinality(Slots(h, q, p, K)) \in Nat
  <2>1. IsFiniteSet(Slots(h, q, p, K))
    BY RegisteredIs
  <2>2. n + 1 \notin Slots(h, q, p, K)
    BY <1>2 DEF Slots, n, s
  <2> QED BY <2>1, <2>2, FS_CardinalityType
<1>6. Cardinality(Slots(g, q, p, K)) =
        Cardinality(Slots(h, q, p, K)) + IF Continues(r, p, K) THEN 1 ELSE 0
  <2>1. CASE Continues(r, p, K)
    <3>1. Cardinality(Slots(h, q, p, K) \cup {n + 1}) = Cardinality(Slots(h, q, p, K)) + 1
      BY <1>5, FS_AddElement
    <3> QED BY <1>4, <2>1, <3>1
  <2>2. CASE ~Continues(r, p, K)
    <3>1. Slots(g, q, p, K) = Slots(h, q, p, K)
      BY <1>4, <2>2
    <3> QED BY <2>2, <3>1, <1>5
  <2> QED BY <2>1, <2>2
<1> DEFINE Rest(f) == UNION {{x} \X Slots(f, x, p, K) : x \in Promise \ {q}}
<1>7. Rest(g) = Rest(h)
  BY <1>1 DEF Slots
<1>8. /\ Cardinality(Registered(h, p, K)) = Cardinality(Slots(h, q, p, K)) + Cardinality(Rest(h))
      /\ Cardinality(Registered(g, p, K)) = Cardinality(Slots(g, q, p, K)) + Cardinality(Rest(g))
      /\ Cardinality(Rest(h)) \in Nat
  BY RegisteredSplit, FS_CardinalityType
<1> HIDE DEF Rest
<1>9. Queued(g, p, K) = Queued(h, p, K)
  BY DEF Queued
<1>10. Waiting(g, p, K) = Waiting(h, p, K) + IF Continues(r, p, K) THEN 1 ELSE 0
  BY <1>5, <1>6, <1>7, <1>8, <1>9, WaitingType DEF Waiting
<1> QED BY <1>3, <1>10

\* g is h after the registrations of q have entered the queue.
Moved(h, g, q) ==
  /\ g.reactions = [h.reactions EXCEPT ![q] = <<>>]
  /\ Len(g.queue) = Len(h.queue) + Len(h.reactions[q])
  /\ \A i \in 1..Len(h.queue) : g.queue[i] = h.queue[i]
  /\ \A i \in 1..Len(h.reactions[q]) : /\ g.queue[Len(h.queue) + i].job = h.reactions[q][i]
                                       /\ g.queue[Len(h.queue) + i].src = q

\* The registrations of q that enter the queue, in one step, stay as many.
LEMMA WaitsMoved ==
  ASSUME NEW h \in Heap, NEW g \in Heap, NEW q \in Promise, Moved(h, g, q), NEW p, NEW K
  PROVE  Waiters(g) = Waiters(h) /\ Waiting(g, p, K) = Waiting(h, p, K)
<1> DEFINE s == h.reactions[q]
           n == Len(h.queue)
           m == Len(s)
           I == Slots(h, q, p, K)
           J == {i + n : i \in I}
<1>1. /\ s \in Seq(Reaction) /\ n \in Nat /\ m \in Nat
      /\ \A x \in Promise \ {q} : g.reactions[x] = h.reactions[x]
      /\ g.reactions[q] = <<>>
  BY DEF Heap, Moved
<1> HIDE DEF s, n, m
<1>2. /\ Len(g.queue) = n + m /\ \A i \in 1..n : g.queue[i] = h.queue[i]
      /\ \A i \in 1..m : g.queue[i + n].job = s[i] /\ g.queue[i + n].src = q
      /\ \A i \in 1..(n + m) : i \in 1..n \/ \E k \in 1..m : i = k + n
      /\ 1..n \subseteq 1..(n + m) /\ \A k \in 1..m : k + n \in 1..(n + m) /\ k + n \notin 1..n
  <2>1. \A i \in 1..m : g.queue[n + i].job = s[i] /\ g.queue[n + i].src = q
    BY DEF s, n, m, Moved
  <2>2. \A i \in 1..m : n + i = i + n
    BY <1>1
  <2>3. \A i \in 1..(n + m) : i \in 1..n \/ (i - n \in 1..m /\ i = (i - n) + n)
    BY <1>1
  <2>4. 1..n \subseteq 1..(n + m) /\ \A k \in 1..m : k + n \in 1..(n + m) /\ k + n \notin 1..n
    BY <1>1
  <2>5. Len(g.queue) = n + m /\ \A i \in 1..n : g.queue[i] = h.queue[i]
    BY DEF s, n, m, Moved
  <2> QED BY <2>1, <2>2, <2>3, <2>4, <2>5
<1>3. ASSUME NEW w PROVE w \in Waiters(g) <=> w \in Waiters(h)
  <2>1. (\E i \in 1..Len(g.queue) : w = <<g.queue[i].job, g.queue[i].src>>) <=>
          \/ \E i \in 1..n : w = <<h.queue[i].job, h.queue[i].src>>
          \/ \E i \in 1..m : w = <<s[i], q>>
    <3>1. ASSUME NEW i \in 1..(n + m), w = <<g.queue[i].job, g.queue[i].src>>
          PROVE  \/ \E k \in 1..n : w = <<h.queue[k].job, h.queue[k].src>>
                 \/ \E k \in 1..m : w = <<s[k], q>>
      BY <1>2, <3>1
    <3>2. ASSUME NEW i \in 1..n, w = <<h.queue[i].job, h.queue[i].src>>
          PROVE  \E k \in 1..(n + m) : w = <<g.queue[k].job, g.queue[k].src>>
      BY <1>2, <3>2
    <3>3. ASSUME NEW i \in 1..m, w = <<s[i], q>>
          PROVE  \E k \in 1..(n + m) : w = <<g.queue[k].job, g.queue[k].src>>
      <4>1. i + n \in 1..(n + m) /\ w = <<g.queue[i + n].job, g.queue[i + n].src>>
        BY <1>2, <3>3
      <4> QED BY <4>1
    <3> QED BY <1>2, <3>1, <3>2, <3>3
  <2>2. (\E x \in Promise : \E i \in 1..Len(g.reactions[x]) : w = <<g.reactions[x][i], x>>) <=>
          \E x \in Promise \ {q} : \E i \in 1..Len(h.reactions[x]) : w = <<h.reactions[x][i], x>>
    BY <1>1
  <2>3. (\E x \in Promise : \E i \in 1..Len(h.reactions[x]) : w = <<h.reactions[x][i], x>>) <=>
          \/ \E x \in Promise \ {q} : \E i \in 1..Len(h.reactions[x]) : w = <<h.reactions[x][i], x>>
          \/ \E i \in 1..m : w = <<s[i], q>>
    BY DEF m, s
  <2>4. w \in Waiters(h) <=>
          \/ \E x \in Promise : \E i \in 1..Len(h.reactions[x]) : w = <<h.reactions[x][i], x>>
          \/ \E i \in 1..n : w = <<h.queue[i].job, h.queue[i].src>>
    BY WaiterIs DEF n
  <2>5. w \in Waiters(g) <=>
          \/ \E x \in Promise : \E i \in 1..Len(g.reactions[x]) : w = <<g.reactions[x][i], x>>
          \/ \E i \in Places(g) : w = <<g.queue[i].job, g.queue[i].src>>
    BY PlacesAre
  <2> HIDE DEF m, n, s
  <2> QED BY <2>1, <2>2, <2>3, <2>4, <2>5, Zenon DEF Places
<1>4. I = {i \in 1..m : Continues(s[i], p, K)} /\ Slots(g, q, p, K) = {}
  BY <1>1 DEF Slots, m, s
<1>5. Queued(g, p, K) = Queued(h, p, K) \cup J /\ Queued(h, p, K) \cap J = {}
  <2>1. /\ Queued(g, p, K) = {i \in 1..Len(g.queue) : Continues(g.queue[i].job, p, K)}
        /\ Queued(h, p, K) = {i \in 1..n : Continues(h.queue[i].job, p, K)}
    <3>1. Queued(g, p, K) = {i \in Places(g) : Continues(g.queue[i].job, p, K)}
      BY PlacesAre
    <3>2. Queued(h, p, K) = {i \in 1..Len(h.queue) : Continues(h.queue[i].job, p, K)}
      BY RegisteredIs
    <3> QED BY <3>1, <3>2 DEF n, Places
  <2>2. J = {i + n : i \in {k \in 1..m : Continues(s[k], p, K)}}
    BY <1>4
  <2> HIDE DEF I, J
  <2>3. ASSUME NEW i PROVE i \in Queued(g, p, K) <=> i \in Queued(h, p, K) \/ i \in J
    <3>1. i \in Queued(h, p, K) => i \in Queued(g, p, K)
      BY <1>2, <2>1
    <3>2. i \in J => i \in Queued(g, p, K)
      BY <1>2, <2>1, <2>2 DEF Continues
    <3>3. i \in Queued(g, p, K) => i \in Queued(h, p, K) \/ i \in J
      <4> SUFFICES ASSUME i \in Queued(g, p, K), i \notin 1..n PROVE i \in J
        BY <1>2, <2>1
      <4>1. PICK k \in 1..m : i = k + n
        BY <1>2, <2>1
      <4>2. Continues(s[k], p, K)
        BY <1>2, <2>1, <4>1
      <4> QED BY <2>2, <4>1, <4>2
    <3> QED BY <3>1, <3>2, <3>3
  <2>4. Queued(h, p, K) \cap J = {}
    BY <1>2, <2>1, <2>2
  <2> QED BY <2>3, <2>4
<1>6. /\ IsFiniteSet(I) /\ I \subseteq Int /\ Cardinality(I) \in Nat
      /\ IsFiniteSet(Queued(h, p, K))
  BY SlotsType, RegisteredIs
<1>7. IsFiniteSet(J) /\ Cardinality(J) = Cardinality(I)
  <2> HIDE DEF I
  <2>1. n \in Int
    BY <1>1
  <2> QED BY <1>6, <2>1, ShiftSize
<1>8. Cardinality(Queued(g, p, K)) = Cardinality(Queued(h, p, K)) + Cardinality(I)
  <2> HIDE DEF I, J
  <2> QED BY <1>5, <1>6, <1>7, DisjointSize
<1> DEFINE Rest(f) == UNION {{x} \X Slots(f, x, p, K) : x \in Promise \ {q}}
<1>9. Rest(g) = Rest(h)
  BY <1>1 DEF Slots
<1>10. /\ Cardinality(Registered(h, p, K)) = Cardinality(I) + Cardinality(Rest(h))
       /\ Cardinality(Registered(g, p, K)) = Cardinality(Slots(g, q, p, K)) + Cardinality(Rest(g))
       /\ Cardinality(Rest(h)) \in Nat /\ Cardinality(Slots(g, q, p, K)) = 0
  <2>1. /\ IsFiniteSet(Rest(h))
        /\ Cardinality(Registered(h, p, K)) = Cardinality(I) + Cardinality(Rest(h))
    BY RegisteredSplit
  <2>2. Cardinality(Registered(g, p, K)) = Cardinality(Slots(g, q, p, K)) + Cardinality(Rest(g))
    BY RegisteredSplit
  <2>3. Cardinality(Slots(g, q, p, K)) = 0
    BY <1>4, FS_EmptySet
  <2> HIDE DEF Rest, I
  <2> QED BY <2>1, <2>2, <2>3, FS_CardinalityType
<1> HIDE DEF Rest, I, J
<1>11. Waiting(g, p, K) = Waiting(h, p, K)
  <2>1. Cardinality(Registered(h, p, K)) = Cardinality(I) + Cardinality(Registered(g, p, K))
    BY <1>6, <1>9, <1>10
  <2>2. Cardinality(Queued(h, p, K)) \in Nat /\ Cardinality(Registered(g, p, K)) \in Nat
    BY WaitingType
  <2> QED BY <1>6, <1>8, <2>1, <2>2 DEF Waiting
<1> QED BY <1>3, <1>11

\* g is h after the first job has left the queue.
TakenOff(h, g) == h.queue # <<>> /\ g.reactions = h.reactions /\ g.queue = Tail(h.queue)

\* Taking the first job off the queue takes that continuation away, and no other.
LEMMA WaitsTaken ==
  ASSUME NEW h \in Heap, NEW g \in Heap, TakenOff(h, g), NEW p, NEW K
  PROVE  /\ Waiters(h) = Waiters(g) \cup {<<Head(h.queue).job, Head(h.queue).src>>}
         /\ Waiting(h, p, K) = Waiting(g, p, K) + IF Continues(Head(h.queue).job, p, K) THEN 1 ELSE 0
<1> DEFINE n == Len(h.queue)
           t == Head(h.queue)
           J == {i + 1 : i \in Queued(g, p, K)}
<1>1. /\ h.queue \in Seq(Task) /\ n \in Nat \ {0} /\ t = h.queue[1]
  BY DEF Heap, TakenOff
<1>2. /\ Len(g.queue) = n - 1 /\ \A i \in 1..(n - 1) : g.queue[i] = h.queue[i + 1]
      /\ \A i \in 1..n : i = 1 \/ (i - 1 \in 1..(n - 1) /\ i = (i - 1) + 1)
      /\ \A i \in 1..(n - 1) : i + 1 \in 1..n /\ i + 1 # 1
      /\ 1 \in 1..n
  BY <1>1 DEF TakenOff
<1> HIDE DEF n, t
<1>3. ASSUME NEW w PROVE w \in Waiters(h) <=> w \in Waiters(g) \/ w = <<t.job, t.src>>
  <2>1. (\E i \in 1..n : w = <<h.queue[i].job, h.queue[i].src>>) <=>
          \/ \E i \in 1..(n - 1) : w = <<g.queue[i].job, g.queue[i].src>>
          \/ w = <<t.job, t.src>>
    <3>1. ASSUME NEW i \in 1..n, w = <<h.queue[i].job, h.queue[i].src>>
          PROVE  \/ \E k \in 1..(n - 1) : w = <<g.queue[k].job, g.queue[k].src>>
                 \/ w = <<t.job, t.src>>
      <4>1. CASE i = 1
        BY <1>1, <3>1, <4>1
      <4>2. CASE i # 1
        <5>1. i - 1 \in 1..(n - 1) /\ g.queue[i - 1] = h.queue[i]
          BY <1>2, <4>2
        <5> QED BY <3>1, <5>1
      <4> QED BY <4>1, <4>2
    <3>2. ASSUME NEW i \in 1..(n - 1), w = <<g.queue[i].job, g.queue[i].src>>
          PROVE  \E k \in 1..n : w = <<h.queue[k].job, h.queue[k].src>>
      BY <1>2, <3>2
    <3>3. w = <<t.job, t.src>> => \E k \in 1..n : w = <<h.queue[k].job, h.queue[k].src>>
      BY <1>1, <1>2
    <3> QED BY <3>1, <3>2, <3>3
  <2>2. (\E q \in Promise : \E i \in 1..Len(g.reactions[q]) : w = <<g.reactions[q][i], q>>) <=>
          \E q \in Promise : \E i \in 1..Len(h.reactions[q]) : w = <<h.reactions[q][i], q>>
    BY DEF TakenOff
  <2>3. w \in Waiters(h) <=>
          \/ \E q \in Promise : \E i \in 1..Len(h.reactions[q]) : w = <<h.reactions[q][i], q>>
          \/ \E i \in 1..n : w = <<h.queue[i].job, h.queue[i].src>>
    BY WaiterIs DEF n
  <2>4. w \in Waiters(g) <=>
          \/ \E q \in Promise : \E i \in 1..Len(g.reactions[q]) : w = <<g.reactions[q][i], q>>
          \/ \E i \in 1..(n - 1) : w = <<g.queue[i].job, g.queue[i].src>>
    <3>1. w \in Waiters(g) <=>
            \/ \E q \in Promise : \E i \in 1..Len(g.reactions[q]) : w = <<g.reactions[q][i], q>>
            \/ \E i \in 1..Len(g.queue) : w = <<g.queue[i].job, g.queue[i].src>>
      BY WaiterIs, Zenon
    <3>2. Len(g.queue) = n - 1
      BY <1>2
    <3> QED BY <3>1, <3>2, Zenon
  <2> QED BY <2>1, <2>2, <2>3, <2>4, Zenon
<1>4. Queued(h, p, K) = J \cup (IF Continues(t.job, p, K) THEN {1} ELSE {}) /\ 1 \notin J
  <2>1. /\ Queued(g, p, K) = {i \in 1..(n - 1) : Continues(g.queue[i].job, p, K)}
        /\ Queued(h, p, K) = {i \in 1..n : Continues(h.queue[i].job, p, K)}
    <3>1. Queued(g, p, K) = {i \in Places(g) : Continues(g.queue[i].job, p, K)}
      BY PlacesAre
    <3>2. Queued(h, p, K) = {i \in 1..Len(h.queue) : Continues(h.queue[i].job, p, K)}
      BY RegisteredIs
    <3>3. Len(g.queue) = n - 1
      BY <1>2
    <3> QED BY <3>1, <3>2, <3>3, Zenon DEF n, Places
  <2>2. J = {i + 1 : i \in {k \in 1..(n - 1) : Continues(g.queue[k].job, p, K)}}
    BY <2>1
  <2> HIDE DEF J
  <2>3. \A i \in 1..n : i \in J <=> i # 1 /\ Continues(h.queue[i].job, p, K)
    BY <1>2, <2>2
  <2>4. J \subseteq 1..n
    BY <1>2, <2>2
  <2>5. CASE Continues(t.job, p, K)
    BY <1>1, <1>2, <2>1, <2>3, <2>4, <2>5
  <2>6. CASE ~Continues(t.job, p, K)
    BY <1>1, <1>2, <2>1, <2>3, <2>4, <2>6
  <2> QED BY <1>2, <2>3, <2>5, <2>6
<1>5. IsFiniteSet(J) /\ Cardinality(J) = Cardinality(Queued(g, p, K)) /\ Cardinality(J) \in Nat
  <2>1. IsFiniteSet(Queued(g, p, K)) /\ Queued(g, p, K) \subseteq Int
    BY RegisteredIs
  <2>2. IsFiniteSet(J) /\ Cardinality(J) = Cardinality(Queued(g, p, K))
    BY <2>1, ShiftSize
  <2> QED BY <2>2, FS_CardinalityType
<1> HIDE DEF J
<1>6. Cardinality(Queued(h, p, K)) =
        Cardinality(Queued(g, p, K)) + IF Continues(t.job, p, K) THEN 1 ELSE 0
  <2>1. CASE Continues(t.job, p, K)
    <3>1. Cardinality(J \cup {1}) = Cardinality(J) + 1
      BY <1>4, <1>5, FS_AddElement
    <3> QED BY <1>4, <1>5, <2>1, <3>1
  <2>2. CASE ~Continues(t.job, p, K)
    <3>1. Queued(h, p, K) = J
      BY <1>4, <2>2
    <3> QED BY <1>5, <2>2, <3>1
  <2> QED BY <2>1, <2>2
<1>7. Registered(g, p, K) = Registered(h, p, K)
  BY DEF Registered, TakenOff
<1>8. Waiting(h, p, K) = Waiting(g, p, K) + IF Continues(t.job, p, K) THEN 1 ELSE 0
  BY <1>6, <1>7, WaitingType DEF Waiting
<1> QED BY <1>3, <1>8 DEF t

-----------------------------------------------------------------------------
(* What each operation of the runtime does to those who wait.              *)

\* The same continuations wait.
Same(h, g) ==
  /\ Waiters(g) = Waiters(h)
  /\ \A p, K : Waiting(g, p, K) = Waiting(h, p, K)

\* r waits for q as well.
Gains(h, g, r, q) ==
  /\ Waiters(g) = Waiters(h) \cup {<<r, q>>}
  /\ \A p, K : Waiting(g, p, K) = Waiting(h, p, K) + IF Continues(r, p, K) THEN 1 ELSE 0

\* The queue only grows at its end, and nobody forgets that he was heard.
Grows(h, g) ==
  /\ \A p \in Promise : h.observed[p] => g.observed[p]
  /\ Len(h.queue) <= Len(g.queue)
  /\ \A i \in 1..Len(h.queue) : g.queue[i] = h.queue[i]

\* Every promise outside P is as it was.
Apart(h, g, P) ==
  \A q \in Promise \ P : /\ g.state[q] = h.state[q] /\ g.resolved[q] = h.resolved[q]
                         /\ g.value[q] = h.value[q]

\* Continuations start from nothing but a kind and a promise.
LEMMA RxType ==
  ASSUME NEW kind \in Kind, NEW p \in Promise PROVE Rx(kind, p) \in Reaction
BY DEF Rx, Reaction, Value

\* The order of the queue is kept from one operation to the next.
LEMMA GrowsOn ==
  ASSUME NEW h \in Heap, NEW g \in Heap, NEW f \in Heap, Grows(h, g), Grows(g, f)
  PROVE  Grows(h, f)
<1>1. Len(h.queue) \in Nat /\ Len(g.queue) \in Nat /\ Len(f.queue) \in Nat
  BY DEF Heap
<1>2. \A i \in 1..Len(h.queue) : i \in 1..Len(g.queue)
  BY <1>1 DEF Grows
<1> QED BY <1>1, <1>2 DEF Grows

\* g is h after p has been allocated: nothing waits on its behalf yet.
Allocates(h, g, p) ==
  /\ g \in Heap /\ Same(h, g) /\ Grows(h, g) /\ Apart(h, g, {p})
  /\ g.state[p] = "pending" /\ g.resolved = h.resolved /\ g.queue = h.queue
  /\ g.reactions = h.reactions

\* jsrt_promise_new does so.
LEMMA NewEffect ==
  ASSUME NEW h \in Heap, NEW p \in Promise
  PROVE  Allocates(h, PromiseNew(h, p), p)
<1> DEFINE g == PromiseNew(h, p)
<1>1. /\ g.state = [h.state EXCEPT ![p] = "pending"]
      /\ g.resolved = h.resolved /\ g.value = h.value /\ g.reactions = h.reactions
      /\ g.observed = h.observed /\ g.queue = h.queue /\ g \in Heap
  BY DEF PromiseNew, Heap, State
<1> HIDE DEF g
<1>2. Same(h, g)
  BY <1>1, WaitsSame DEF Same
<1>3. Grows(h, g)
  BY <1>1 DEF Grows, Heap
<1>4. Apart(h, g, {p}) /\ g.state[p] = "pending"
  BY <1>1 DEF Apart, Heap
<1> QED BY <1>1, <1>2, <1>3, <1>4 DEF g, Allocates

\* g is h after a job has been queued: its continuation waits for src.
Queues(h, g, r, src, v, rej) ==
  /\ g \in Heap /\ Gains(h, g, r, src) /\ Grows(h, g) /\ Apart(h, g, {})
  /\ g.state = h.state /\ g.resolved = h.resolved /\ g.value = h.value
  /\ g.observed = h.observed /\ g.queue = Append(h.queue, Job(r, src, v, rej))
  /\ g.reactions = h.reactions

\* The append to the microtask queue does so.
LEMMA EnqueueEffect ==
  ASSUME NEW h \in Heap, NEW r \in Reaction, NEW src \in Promise \cup {NoPromise},
         NEW v \in Value, NEW rej \in BOOLEAN
  PROVE  Queues(h, Enqueue(h, r, src, v, rej), r, src, v, rej)
<1> DEFINE g == Enqueue(h, r, src, v, rej)
           t == Job(r, src, v, rej)
<1>1. t \in Task /\ h.queue \in Seq(Task) /\ t.job = r /\ t.src = src
  BY DEF Heap, Job, Task
<1>2. g = [h EXCEPT !.queue = Append(h.queue, t)]
  BY DEF Enqueue
<1> HIDE DEF g, t
<1>3. Append(h.queue, t) \in Seq(Task)
  BY <1>1
<1>4. /\ g.state = h.state /\ g.resolved = h.resolved /\ g.value = h.value
      /\ g.reactions = h.reactions /\ g.observed = h.observed
      /\ g.queue = Append(h.queue, t) /\ g \in Heap
  BY <1>2, <1>3 DEF Heap
<1>5. Gains(h, g, r, src)
  <2>1. Waiters(g) = Waiters(h) \cup {<<t.job, t.src>>}
    BY <1>1, <1>4, WaitsQueued
  <2>2. \A p, K : Waiting(g, p, K) = Waiting(h, p, K) + IF Continues(t.job, p, K) THEN 1 ELSE 0
    BY <1>1, <1>4, WaitsQueued
  <2> QED BY <1>1, <2>1, <2>2 DEF Gains
<1>6. Grows(h, g)
  BY <1>1, <1>4 DEF Grows
<1>7. Apart(h, g, {})
  BY <1>4 DEF Apart
<1> QED BY <1>4, <1>5, <1>6, <1>7 DEF g, t, Queues

\* g is h after a subscription: r waits for p from now on, and p has been heard.
Subscribes(h, g, p, r) ==
  /\ g \in Heap /\ Gains(h, g, r, p) /\ Grows(h, g) /\ Apart(h, g, {})
  /\ g.state = h.state /\ g.resolved = h.resolved /\ g.value = h.value /\ g.observed[p]
  /\ h.state[p] = "pending" =>
       g.queue = h.queue /\ g.reactions = [h.reactions EXCEPT ![p] = Append(h.reactions[p], r)]
  /\ h.state[p] # "pending" =>
       /\ g.queue = Append(h.queue, Job(r, p, h.value[p], h.state[p] = "rejected"))
       /\ g.reactions = h.reactions

\* jsrt_promise_subscribe does so.
LEMMA SubscribeEffect ==
  ASSUME NEW h \in Heap, NEW p \in Promise, NEW r \in Reaction,
         CountExact(h)
  PROVE  Subscribes(h, Subscribe(h, p, r), p, r)
<1> DEFINE g == Subscribe(h, p, r)
<1>1. CASE h.state[p] = "pending"
  <2> DEFINE s == Append(h.reactions[p], r)
  <2>1. s \in Seq(Reaction)
    BY DEF Heap
  <2>2. g = [h EXCEPT !.reactions = [h.reactions EXCEPT ![p] = s],
                      !.observed = [h.observed EXCEPT ![p] = TRUE]]
    BY <1>1 DEF Heap, Subscribe
  <2> HIDE DEF g, s
  <2>3. /\ g.state = h.state /\ g.resolved = h.resolved /\ g.value = h.value
        /\ g.reactions = [h.reactions EXCEPT ![p] = s]
        /\ g.observed = [h.observed EXCEPT ![p] = TRUE] /\ g.queue = h.queue /\ g \in Heap
    BY <2>1, <2>2 DEF Heap
  <2>4. Gains(h, g, r, p)
    <3>1. g.reactions = [h.reactions EXCEPT ![p] = Append(h.reactions[p], r)]
      BY <2>3 DEF s
    <3>2. Waiters(g) = Waiters(h) \cup {<<r, p>>}
      BY <2>3, <3>1, WaitsRegistered
    <3>3. \A x, K : Waiting(g, x, K) = Waiting(h, x, K) + IF Continues(r, x, K) THEN 1 ELSE 0
      BY <2>3, <3>1, WaitsRegistered
    <3> QED BY <3>2, <3>3 DEF Gains
  <2>5. Grows(h, g) /\ g.observed[p]
    BY <2>3 DEF Grows, Heap
  <2>6. Apart(h, g, {})
    BY <2>3 DEF Apart
  <2>7. g.reactions = [h.reactions EXCEPT ![p] = Append(h.reactions[p], r)]
    BY <2>3 DEF s
  <2> QED BY <1>1, <2>3, <2>4, <2>5, <2>6, <2>7 DEF g, Subscribes
<1>2. CASE h.state[p] # "pending"
  <2> DEFINE e == Enqueue(h, r, p, h.value[p], h.state[p] = "rejected")
             c == IF h.unhandled[p] THEN e.unhandledRejections - 1 ELSE e.unhandledRejections
  <2>1. h.value[p] \in Value /\ (h.state[p] = "rejected") \in BOOLEAN
    BY DEF Heap
  <2>2. /\ e \in Heap /\ Gains(h, e, r, p) /\ Grows(h, e)
        /\ e.state = h.state /\ e.resolved = h.resolved /\ e.value = h.value
        /\ e.observed = h.observed /\ e.reactions = h.reactions
        /\ e.queue = Append(h.queue, Job(r, p, h.value[p], h.state[p] = "rejected"))
    <3>1. Queues(h, e, r, p, h.value[p], h.state[p] = "rejected")
      BY <2>1, EnqueueEffect
    <3> HIDE DEF e
    <3> QED BY <3>1 DEF Queues
  <2>3. g = [e EXCEPT !.unhandled = [e.unhandled EXCEPT ![p] = FALSE],
                      !.unhandledRejections = c,
                      !.observed = [e.observed EXCEPT ![p] = TRUE]]
    <3>1. g = [e EXCEPT !.unhandled[p] = FALSE,
                        !.unhandledRejections = IF h.unhandled[p] THEN @ - 1 ELSE @,
                        !.observed[p] = TRUE]
      BY <1>2 DEF Subscribe
    <3> HIDE DEF e, g
    <3> QED BY <2>2, <3>1 DEF Heap
  <2>4. c \in Nat
    <3>1. e.unhandledRejections = h.unhandledRejections
      BY DEF Enqueue, Heap
    <3>2. h.unhandled[p] => h.unhandledRejections # 0
      BY UnhandledFinite, FS_EmptySet DEF CountExact
    <3>3. h.unhandledRejections \in Nat
      BY DEF Heap
    <3> HIDE DEF e
    <3> QED BY <3>1, <3>2, <3>3
  <2> HIDE DEF g, e, c
  <2>5. /\ g.state = e.state /\ g.resolved = e.resolved /\ g.value = e.value
        /\ g.reactions = e.reactions /\ g.observed = [e.observed EXCEPT ![p] = TRUE]
        /\ g.queue = e.queue /\ g \in Heap
    BY <2>2, <2>3, <2>4 DEF Heap
  <2>6. Gains(h, g, r, p)
    <3>1. Gains(h, e, r, p) /\ g.queue = e.queue /\ g.reactions = e.reactions
      BY <2>2, <2>5
    <3>2. Waiters(g) = Waiters(e) /\ \A x, K : Waiting(g, x, K) = Waiting(e, x, K)
      BY <3>1, WaitsSame
    <3> QED BY <3>1, <3>2 DEF Gains
  <2>7. Grows(h, g) /\ g.observed[p]
    BY <2>2, <2>5 DEF Grows, Heap
  <2>8. Apart(h, g, {})
    BY <2>2, <2>5 DEF Apart
  <2> QED BY <1>2, <2>2, <2>5, <2>6, <2>7, <2>8 DEF g, Subscribes
<1> QED BY <1>1, <1>2

\* g is h after the state change of p: what was registered on p is in the queue.
SettlesNow(h, g, p, v, rej) ==
  /\ g \in Heap /\ Same(h, g) /\ Grows(h, g) /\ Apart(h, g, {p})
  /\ g.state[p] = (IF rej THEN "rejected" ELSE "fulfilled")
  /\ g.value[p] = v /\ g.resolved = h.resolved
  /\ h.reactions[p] = <<>> => g.queue = h.queue
  /\ Moved(h, g, p)

\* jsrt_promise_settle_now does so.
LEMMA SettleNowEffect ==
  ASSUME NEW h \in Heap, NEW p \in Promise, NEW v \in Value, NEW rej \in BOOLEAN
  PROVE  SettlesNow(h, PromiseSettleNow(h, p, v, rej), p, v, rej)
<1> DEFINE g == PromiseSettleNow(h, p, v, rej)
           s == h.reactions[p]
           lonely == rej /\ s = <<>>
           jobs == [i \in 1..Len(s) |-> Job(s[i], p, v, rej)]
           n == Len(h.queue)
           m == Len(s)
           c == IF lonely THEN h.unhandledRejections + 1 ELSE h.unhandledRejections
           st == IF rej THEN "rejected" ELSE "fulfilled"
           u == h.unhandled[p] \/ lonely
           queue == h.queue \o jobs
<1>1. /\ s \in Seq(Reaction) /\ m \in Nat /\ n \in Nat /\ h.queue \in Seq(Task)
      /\ u \in BOOLEAN /\ c \in Nat /\ st \in State
  BY DEF Heap, State
<1>2. jobs \in Seq(Task) /\ Len(jobs) = m /\ \A i \in 1..m : jobs[i].job = s[i] /\ jobs[i].src = p
  <2>1. \A i \in 1..Len(s) : Job(s[i], p, v, rej) \in Task
    BY <1>1 DEF Job, Task
  <2> QED BY <1>1, <2>1 DEF Job
<1>3. /\ queue \in Seq(Task) /\ Len(queue) = n + m
      /\ \A i \in 1..(n + m) : queue[i] = IF i <= n THEN h.queue[i] ELSE jobs[i - n]
  <2>1. \A a, b \in Seq(Task) :
          /\ a \o b \in Seq(Task)
          /\ Len(a \o b) = Len(a) + Len(b)
          /\ \A i \in 1..(Len(a) + Len(b)) :
               (a \o b)[i] = IF i <= Len(a) THEN a[i] ELSE b[i - Len(a)]
    BY ConcatProperties
  <2>2. /\ queue \in Seq(Task)
        /\ Len(queue) = Len(h.queue) + Len(jobs)
        /\ \A i \in 1..(Len(h.queue) + Len(jobs)) : queue[i] =
             IF i <= Len(h.queue) THEN h.queue[i] ELSE jobs[i - Len(h.queue)]
    <3> HIDE DEF jobs
    <3> QED BY <1>1, <1>2, <2>1, Zenon
  <2> HIDE DEF jobs, queue, m
  <2> QED BY <1>2, <2>2
<1>4. g = [h EXCEPT !.state = [h.state EXCEPT ![p] = st],
                    !.value = [h.value EXCEPT ![p] = v],
                    !.unhandled = [h.unhandled EXCEPT ![p] = u],
                    !.unhandledRejections = c,
                    !.queue = queue,
                    !.reactions = [h.reactions EXCEPT ![p] = <<>>]]
  BY DEF Heap, PromiseSettleNow
<1>5. s = <<>> => queue = h.queue
  <2>1. s = <<>> => jobs = <<>>
    OBVIOUS
  <2> HIDE DEF jobs, s
  <2>2. \A f \in Seq(Task) : f \o <<>> = f
    BY ConcatEmptySeq
  <2> QED BY <1>1, <2>1, <2>2
<1> HIDE DEF g, jobs, queue, c, st, u, lonely
<1>6. /\ g.state = [h.state EXCEPT ![p] = st] /\ g.resolved = h.resolved
      /\ g.value = [h.value EXCEPT ![p] = v]
      /\ g.reactions = [h.reactions EXCEPT ![p] = <<>>]
      /\ g.queue = queue /\ g.observed = h.observed /\ g \in Heap
  <2>1. <<>> \in Seq(Reaction)
    OBVIOUS
  <2> HIDE DEF s, n, m
  <2> QED BY <1>1, <1>3, <1>4, <2>1 DEF Heap
<1>7. /\ Apart(h, g, {p}) /\ g.state[p] = st /\ g.value[p] = v
  BY <1>6 DEF Apart, Heap
<1> HIDE DEF s, m, n
<1>8. /\ \A i \in 1..n : g.queue[i] = h.queue[i]
      /\ \A i \in 1..m : g.queue[n + i].job = s[i] /\ g.queue[n + i].src = p
      /\ Len(g.queue) = n + m
  <2>1. \A i \in 1..n : i \in 1..(n + m) /\ i <= n
    BY <1>1
  <2>2. \A i \in 1..m : n + i \in 1..(n + m) /\ ~(n + i <= n) /\ (n + i) - n = i
    BY <1>1
  <2>3. \A i \in 1..m : queue[n + i] = jobs[i]
    BY <1>3, <2>2
  <2> QED BY <1>2, <1>3, <1>6, <2>1, <2>3
<1>9. Moved(h, g, p)
  BY <1>6, <1>8 DEF Moved, n, m, s
<1>10. Same(h, g)
  BY <1>6, <1>9, WaitsMoved DEF Same
<1>11. Grows(h, g)
  BY <1>1, <1>6, <1>8 DEF Grows, n
<1> QED BY <1>5, <1>6, <1>7, <1>9, <1>10, <1>11 DEF g, st, s, SettlesNow

\* g is h after a resolving function: nothing if p was resolved; else p has
\* settled, or the job that subscribes p to v is queued.
Settles(h, g, p, v, rej) ==
  /\ g \in Heap /\ Grows(h, g) /\ Apart(h, g, {p}) /\ g.resolved[p]
  /\ h.resolved[p] => g = h
  /\ ~h.resolved[p] /\ ~rej /\ v \in Promise \ {p} =>
       /\ Gains(h, g, Rx("adopt_subscribe", p), NoPromise) /\ g.state = h.state
       /\ g.queue = Append(h.queue, Job(Rx("adopt_subscribe", p), NoPromise, v, FALSE))
       /\ g.reactions = h.reactions
  /\ ~h.resolved[p] /\ (rej \/ v \notin Promise \ {p}) =>
       /\ Same(h, g)
       /\ g.state[p] = (IF rej \/ v = p THEN "rejected" ELSE "fulfilled")
       /\ h.reactions[p] = <<>> => g.queue = h.queue
       /\ Moved(h, g, p)

\* The resolving functions do so.
LEMMA SettleEffect ==
  ASSUME NEW h \in Heap, NEW p \in Promise, NEW v \in Value, NEW rej \in BOOLEAN
  PROVE  Settles(h, PromiseSettle(h, p, v, rej), p, v, rej)
<1> DEFINE m == [h EXCEPT !.resolved[p] = TRUE]
           g == PromiseSettle(h, p, v, rej)
<1>1. /\ m.state = h.state /\ m.value = h.value /\ m.reactions = h.reactions
      /\ m.observed = h.observed /\ m.queue = h.queue /\ m \in Heap
      /\ m.resolved = [h.resolved EXCEPT ![p] = TRUE]
  <2>1. m = [h EXCEPT !.resolved = [h.resolved EXCEPT ![p] = TRUE]]
    BY DEF Heap
  <2> HIDE DEF m
  <2> QED BY <2>1 DEF Heap
<1>2. CycleError \in Value
  BY DEF Value
<1>3. g = CASE h.resolved[p] -> h
            [] ~h.resolved[p] /\ ~rej /\ v = p -> PromiseSettleNow(m, p, CycleError, TRUE)
            [] ~h.resolved[p] /\ ~rej /\ v \in Promise \ {p} ->
                 Enqueue(m, Rx("adopt_subscribe", p), NoPromise, v, FALSE)
            [] OTHER -> PromiseSettleNow(m, p, v, rej)
  BY DEF PromiseSettle
<1> HIDE DEF m, g
<1>4. Apart(h, m, {p}) /\ m.resolved[p] /\ Same(h, m) /\ Grows(h, m)
  <2>1. Same(h, m)
    BY <1>1, WaitsSame DEF Same
  <2>2. Grows(h, m)
    BY <1>1 DEF Grows, Heap
  <2>3. Apart(h, m, {p}) /\ m.resolved[p]
    BY <1>1 DEF Apart, Heap
  <2> QED BY <2>1, <2>2, <2>3
<1>5. CASE h.resolved[p]
  <2>1. g = h
    BY <1>3, <1>5
  <2> QED BY <1>5, <2>1 DEF Grows, Apart, Heap, g, Settles
<1>6. CASE ~h.resolved[p] /\ ~rej /\ v \in Promise \ {p}
  <2>1. g = Enqueue(m, Rx("adopt_subscribe", p), NoPromise, v, FALSE)
    BY <1>3, <1>6
  <2>2. Rx("adopt_subscribe", p) \in Reaction
    BY RxType DEF Kind
  <2>3. /\ g \in Heap /\ Gains(m, g, Rx("adopt_subscribe", p), NoPromise) /\ Grows(m, g)
        /\ g.state = m.state /\ g.resolved = m.resolved /\ g.value = m.value
        /\ g.queue = Append(m.queue, Job(Rx("adopt_subscribe", p), NoPromise, v, FALSE))
        /\ g.reactions = m.reactions
    <3>1. Queues(m, g, Rx("adopt_subscribe", p), NoPromise, v, FALSE)
      BY <1>1, <2>1, <2>2, EnqueueEffect
    <3> QED BY <3>1 DEF Queues
  <2>4. Gains(h, g, Rx("adopt_subscribe", p), NoPromise)
    BY <1>4, <2>3 DEF Gains, Same
  <2>5. Apart(h, g, {p}) /\ g.resolved[p]
    BY <1>4, <2>3 DEF Apart
  <2>6. Grows(h, g)
    BY <1>1, <1>4, <2>3, GrowsOn
  <2> QED BY <1>1, <1>6, <2>3, <2>4, <2>5, <2>6 DEF g, Settles
<1>7. CASE ~h.resolved[p] /\ (rej \/ v \notin Promise \ {p})
  <2>1. PICK w \in Value, b \in BOOLEAN :
          g = PromiseSettleNow(m, p, w, b) /\ b = (rej \/ v = p)
    <3>1. CASE ~rej /\ v = p
      BY <1>2, <1>3, <1>7, <3>1
    <3>2. CASE ~(~rej /\ v = p)
      <4>1. g = PromiseSettleNow(m, p, v, rej)
        BY <1>3, <1>7, <3>2
      <4>2. rej = (rej \/ v = p)
        BY <3>2
      <4> QED BY <4>1, <4>2
    <3> QED BY <3>1, <3>2
  <2>2. /\ g \in Heap /\ Same(m, g) /\ Grows(m, g) /\ Apart(m, g, {p})
        /\ g.state[p] = (IF b THEN "rejected" ELSE "fulfilled")
        /\ g.resolved = m.resolved
        /\ m.reactions[p] = <<>> => g.queue = m.queue
        /\ Moved(m, g, p)
    <3>1. SettlesNow(m, g, p, w, b)
      BY <1>1, <2>1, SettleNowEffect
    <3> QED BY <3>1 DEF SettlesNow
  <2>3. Apart(h, g, {p}) /\ g.resolved[p]
    BY <1>4, <2>2 DEF Apart
  <2>4. Same(h, g)
    BY <1>4, <2>2 DEF Same
  <2>5. Grows(h, g)
    BY <1>1, <1>4, <2>2, GrowsOn
  <2>6. Moved(h, g, p)
    BY <1>1, <2>2 DEF Moved
  <2> QED BY <1>1, <1>7, <2>1, <2>2, <2>3, <2>4, <2>5, <2>6 DEF g, Settles
<1> QED BY <1>5, <1>6, <1>7

\* g is h after Promise.resolve: a promise passes through, a value got a settled
\* promise.
Resolves(h, g, v, q) ==
  /\ g \in Heap /\ Same(h, g) /\ Grows(h, g)
  /\ Apart(h, g, IF v \in Promise THEN {} ELSE {q})
  /\ v \notin Promise => g.state[q] = "fulfilled" /\ g.resolved[q]
  /\ g.queue = h.queue

\* Promise.resolve does so, on a well formed heap.
LEMMA ResolveEffect ==
  ASSUME NEW h \in Heap, HeapInv(h), NEW v \in Value, NEW q \in Promise,
         v \notin Promise => q \in Free(h)
  PROVE  Resolves(h, PromiseResolve(h, v, q), v, q)
<1> DEFINE n == PromiseNew(h, q)
           g == PromiseResolve(h, v, q)
<1>1. CASE v \in Promise
  <2>1. g = h
    BY <1>1 DEF PromiseResolve
  <2> HIDE DEF g
  <2> QED BY <1>1, <2>1 DEF Same, Grows, Apart, Heap, g, Resolves
<1>2. CASE v \notin Promise
  <2>1. /\ n \in Heap /\ Same(h, n) /\ Grows(h, n) /\ Apart(h, n, {q})
        /\ n.resolved = h.resolved /\ n.queue = h.queue
    BY NewEffect DEF Allocates
  <2>2. q \in Free(h) /\ ~h.resolved[q] /\ h.reactions[q] = <<>>
    BY <1>2 DEF HeapInv, FreeIsBlank, Free, Allocated
  <2>3. n.reactions[q] = <<>> /\ ~n.resolved[q]
    BY <2>1, <2>2 DEF PromiseNew, Heap
  <2> HIDE DEF n
  <2>4. g = PromiseSettle(n, q, v, FALSE)
    BY <1>2 DEF PromiseResolve, n
  <2>5. /\ g \in Heap /\ Grows(n, g) /\ Apart(n, g, {q}) /\ g.resolved[q]
        /\ Same(n, g) /\ g.state[q] = "fulfilled" /\ g.queue = n.queue
    <3>1. Settles(n, g, q, v, FALSE)
      BY <2>1, <2>4, SettleEffect
    <3>2. v # q
      BY <1>2
    <3> HIDE DEF g
    <3> QED BY <1>2, <2>3, <3>1, <3>2 DEF Settles
  <2>6. Same(h, g) /\ Grows(h, g) /\ Apart(h, g, {q})
    <3> HIDE DEF g
    <3>1. Grows(h, g)
      BY <2>1, <2>5, GrowsOn
    <3> QED BY <2>1, <2>5, <3>1 DEF Same, Apart
  <2> QED BY <1>2, <2>1, <2>5, <2>6 DEF Resolves
<1> QED BY <1>1, <1>2

\* g is h after Promise.reject: a settled promise nobody waits on behalf of.
Rejects(h, g, q) ==
  /\ g \in Heap /\ Same(h, g) /\ Grows(h, g) /\ Apart(h, g, {q})
  /\ g.state[q] = "rejected" /\ g.resolved[q]

\* Promise.reject does so, on a well formed heap.
LEMMA RejectEffect ==
  ASSUME NEW h \in Heap, HeapInv(h), NEW v \in Value, NEW q \in Free(h)
  PROVE  Rejects(h, PromiseReject(h, v, q), q)
<1> DEFINE n == PromiseNew(h, q)
           g == PromiseReject(h, v, q)
<1>1. q \in Promise /\ ~h.resolved[q]
  BY DEF HeapInv, FreeIsBlank, Free, Allocated
<1>2. /\ n \in Heap /\ Same(h, n) /\ Grows(h, n) /\ Apart(h, n, {q}) /\ n.resolved = h.resolved
  BY <1>1, NewEffect DEF Allocates
<1> HIDE DEF n
<1>3. /\ g \in Heap /\ Grows(n, g) /\ Apart(n, g, {q}) /\ g.resolved[q]
      /\ Same(n, g) /\ g.state[q] = "rejected"
  <2>1. g = PromiseSettle(n, q, v, TRUE)
    BY DEF PromiseReject, n
  <2>2. Settles(n, g, q, v, TRUE)
    BY <1>1, <1>2, <2>1, SettleEffect
  <2> HIDE DEF g
  <2> QED BY <1>1, <1>2, <2>2 DEF Settles
<1> HIDE DEF g
<1>4. Grows(h, g)
  BY <1>2, <1>3, GrowsOn
<1> QED BY <1>2, <1>3, <1>4 DEF Same, Apart, g, Rejects

\* g is h after its first job has been taken, whose continuation no longer waits.
Pops(h, g) ==
  LET t == Head(h.queue)
  IN /\ g \in Heap /\ Gains(g, h, t.job, t.src) /\ t \in Task /\ t = h.queue[1]
     /\ g.state = h.state /\ g.resolved = h.resolved /\ g.value = h.value
     /\ g.observed = h.observed /\ g.unhandled = h.unhandled /\ g.reactions = h.reactions
     /\ g.queue = Tail(h.queue) /\ g.unhandledRejections = h.unhandledRejections

\* The drain loop does so.
LEMMA PopEffect ==
  ASSUME NEW h \in Heap, h.queue # <<>>
  PROVE  Pops(h, [h EXCEPT !.queue = Tail(@)])
<1> DEFINE g == [h EXCEPT !.queue = Tail(@)]
        t == Head(h.queue)
<1>1. h.queue \in Seq(Task) /\ Tail(h.queue) \in Seq(Task) /\ t \in Task /\ t = h.queue[1]
  BY DEF Heap
<1>2. /\ g.state = h.state /\ g.resolved = h.resolved /\ g.value = h.value
      /\ g.observed = h.observed /\ g.unhandled = h.unhandled /\ g.reactions = h.reactions
      /\ g.queue = Tail(h.queue) /\ g.unhandledRejections = h.unhandledRejections /\ g \in Heap
  BY <1>1 DEF Heap
<1> HIDE DEF g
<1>3. TakenOff(h, g)
  BY <1>2 DEF TakenOff
<1>4. Gains(g, h, t.job, t.src)
  BY <1>2, <1>3, WaitsTaken DEF Gains
<1> QED BY <1>1, <1>2, <1>4 DEF g, Pops

-----------------------------------------------------------------------------
(* Every adoption has its one continuation, after every operation.         *)

\* A new promise is adopting nothing.
LEMMA NewExact ==
  ASSUME NEW h, NEW g, HeapInv(h), NEW p \in Free(h), Allocates(h, g, p), AdoptExact(h)
  PROVE  AdoptExact(g)
<1>1. ~h.resolved[p] /\ p \in Promise
  BY DEF HeapInv, FreeIsBlank, Free, Allocated
<1> QED BY <1>1 DEF AdoptExact, Allocates, Same, Apart

\* Nor does subscribing anything but an adoption.
LEMMA SubscribeExact ==
  ASSUME NEW h \in Heap, NEW g, NEW p, NEW r \in Reaction, r.kind \notin AdopterKinds,
         Subscribes(h, g, p, r), AdoptExact(h)
  PROVE  AdoptExact(g)
<1>1. \A x \in Promise : ~Continues(r, x, AdopterKinds)
  BY DEF Continues
<1>2. \A x \in Promise : Waiting(g, x, AdopterKinds) = Waiting(h, x, AdopterKinds)
  BY <1>1, WaitingType DEF Subscribes, Gains
<1> QED BY <1>2 DEF AdoptExact, Subscribes

\* A resolving function queues one adoption of a promise that had none.
LEMMA SettleExact ==
  ASSUME NEW h, NEW g, HeapInv(h), NEW p \in Allocated(h), NEW v, NEW rej \in BOOLEAN,
         Settles(h, g, p, v, rej), AdoptExact(h)
  PROVE  AdoptExact(g)
<1>1. /\ p \in Promise /\ h \in Heap
      /\ ~h.resolved[p] => h.state[p] = "pending"
  BY DEF HeapInv, Allocated, SettledIsResolved, Settled, Heap, State
<1>2. CASE h.resolved[p]
  BY <1>2 DEF Settles
<1>3. CASE ~h.resolved[p] /\ ~rej /\ v \in Promise \ {p}
  <2> DEFINE r == Rx("adopt_subscribe", p)
  <2>1. /\ \A x : Waiting(g, x, AdopterKinds) = Waiting(h, x, AdopterKinds)
                    + IF Continues(r, x, AdopterKinds) THEN 1 ELSE 0
        /\ g.state = h.state /\ g.resolved[p]
        /\ \A x \in Promise \ {p} : g.resolved[x] = h.resolved[x]
    BY <1>3 DEF Settles, Gains, Apart
  <2>2. \A x : Continues(r, x, AdopterKinds) <=> x = p
    BY DEF Continues, Rx, AdopterKinds
  <2> HIDE DEF r
  <2>3. Waiting(h, p, AdopterKinds) = 0
    BY <1>1, <1>3 DEF AdoptExact
  <2>4. Waiting(g, p, AdopterKinds) = 1
    BY <2>1, <2>2, <2>3
  <2>5. ASSUME NEW x \in Promise, x # p
        PROVE  Waiting(g, x, AdopterKinds) = Waiting(h, x, AdopterKinds)
    BY <1>1, <2>1, <2>2, <2>5, WaitingType
  <2> QED BY <1>1, <1>3, <2>1, <2>4, <2>5 DEF AdoptExact
<1>4. CASE ~h.resolved[p] /\ (rej \/ v \notin Promise \ {p})
  <2>1. g.state[p] # "pending" /\ Same(h, g) /\ Apart(h, g, {p})
    BY <1>4 DEF Settles
  <2> QED BY <1>1, <1>4, <2>1 DEF AdoptExact, Same, Apart
<1> QED BY <1>2, <1>3, <1>4

\* Promise.resolve and Promise.reject begin no adoption.
LEMMA ResolveExact ==
  ASSUME NEW h, NEW g, HeapInv(h), NEW v, NEW q \in Promise, v \notin Promise => q \in Free(h),
         Resolves(h, g, v, q), AdoptExact(h)
  PROVE  AdoptExact(g)
<1>1. v \notin Promise => ~h.resolved[q]
  BY DEF HeapInv, FreeIsBlank, Free, Allocated
<1> QED BY <1>1 DEF AdoptExact, Resolves, Same, Apart

\* Promise.reject makes a promise that adopts nothing.
LEMMA RejectExact ==
  ASSUME NEW h, NEW g, HeapInv(h), NEW q \in Free(h), Rejects(h, g, q), AdoptExact(h)
  PROVE  AdoptExact(g)
<1>1. ~h.resolved[q] /\ q \in Promise
  BY DEF HeapInv, FreeIsBlank, Free, Allocated
<1> QED BY <1>1 DEF AdoptExact, Rejects, Same, Apart

\* The job of an adoption that leaves the queue; any other leaves them as they are.
LEMMA PopExact ==
  ASSUME NEW h \in Heap, NEW g, Pops(h, g), Head(h.queue).job.kind \notin AdopterKinds, AdoptExact(h)
  PROVE  AdoptExact(g)
<1>1. \A x \in Promise : ~Continues(Head(h.queue).job, x, AdopterKinds)
  BY DEF Continues
<1>2. g \in Heap /\ g.state = h.state /\ g.resolved = h.resolved
  BY DEF Pops
<1>3. \A x : Waiting(h, x, AdopterKinds) = Waiting(g, x, AdopterKinds)
               + IF Continues(Head(h.queue).job, x, AdopterKinds) THEN 1 ELSE 0
  BY DEF Pops, Gains
<1>4. \A x \in Promise : Waiting(g, x, AdopterKinds) = Waiting(h, x, AdopterKinds)
  BY <1>1, <1>2, <1>3, WaitingType
<1> QED BY <1>2, <1>4 DEF AdoptExact

\* The second half of an adoption ends it.
LEMMA AdoptedExact ==
  ASSUME NEW h, HeapInv(h), NEW n, NEW g, Pops(h, n), Head(h.queue).job.kind = "adopt",
         NEW v, NEW rej \in BOOLEAN, SettlesNow(n, g, Head(h.queue).job.p, v, rej), AdoptExact(h),
         h.state[Head(h.queue).job.p] = "pending", h.resolved[Head(h.queue).job.p]
  PROVE  AdoptExact(g)
<1> DEFINE r == Head(h.queue).job
           p == r.p
<1>1. /\ h \in Heap /\ n \in Heap /\ n.state = h.state /\ n.resolved = h.resolved
      /\ r \in Reaction /\ p \in Promise
  BY DEF HeapInv, Pops, Task, Reaction
<1>2. \A x : Waiting(h, x, AdopterKinds) = Waiting(n, x, AdopterKinds)
               + IF Continues(r, x, AdopterKinds) THEN 1 ELSE 0
  BY DEF Pops, Gains
<1>3. \A x : Continues(r, x, AdopterKinds) <=> x = p
  BY DEF Continues, AdopterKinds
<1>4. /\ \A x : Waiting(g, x, AdopterKinds) = Waiting(n, x, AdopterKinds)
      /\ g.state[p] # "pending" /\ g.resolved = n.resolved
      /\ \A x \in Promise \ {p} : g.state[x] = n.state[x]
  BY DEF SettlesNow, Same, Apart
<1> HIDE DEF r, p
<1>5. Waiting(h, p, AdopterKinds) = 1
  BY <1>1 DEF AdoptExact, p, r
<1>6. Waiting(n, p, AdopterKinds) \in Nat /\ Waiting(n, p, AdopterKinds) = 0
  BY <1>1, <1>2, <1>3, <1>5, WaitingType
<1>7. ASSUME NEW x \in Promise, x # p
      PROVE  Waiting(n, x, AdopterKinds) = Waiting(h, x, AdopterKinds)
  BY <1>1, <1>2, <1>3, <1>7, WaitingType
<1> QED BY <1>1, <1>4, <1>6, <1>7 DEF AdoptExact

\* The first half hands it on to the promise that is adopted.
LEMMA HandedOnExact ==
  ASSUME NEW h, HeapInv(h), NEW n, NEW g, Pops(h, n), Head(h.queue).job.kind = "adopt_subscribe",
         NEW v, Subscribes(n, g, v, Rx("adopt", Head(h.queue).job.p)), AdoptExact(h)
  PROVE  AdoptExact(g)
<1> DEFINE r == Head(h.queue).job
           a == Rx("adopt", r.p)
<1>1. /\ h \in Heap /\ n \in Heap /\ n.state = h.state /\ n.resolved = h.resolved
      /\ g.state = n.state /\ g.resolved = n.resolved
  BY DEF HeapInv, Pops, Subscribes
<1>2. \A x : Waiting(h, x, AdopterKinds) = Waiting(n, x, AdopterKinds)
               + IF Continues(r, x, AdopterKinds) THEN 1 ELSE 0
  BY DEF Pops, Gains
<1>3. \A x : Waiting(g, x, AdopterKinds) = Waiting(n, x, AdopterKinds)
               + IF Continues(a, x, AdopterKinds) THEN 1 ELSE 0
  BY DEF Subscribes, Gains
<1>4. \A x : Continues(r, x, AdopterKinds) <=> Continues(a, x, AdopterKinds)
  BY DEF Continues, AdopterKinds, Rx
<1> HIDE DEF r, a
<1>5. \A x : Waiting(g, x, AdopterKinds) = Waiting(h, x, AdopterKinds)
  BY <1>2, <1>3, <1>4, Zenon
<1> QED BY <1>1, <1>5 DEF AdoptExact

-----------------------------------------------------------------------------
(* A promise that was heard before its thunk stays so.                     *)

\* Jobs added at the end come after those that are there.
LEMMA HeardGrows ==
  ASSUME NEW h \in Heap, NEW g \in Heap, Grows(h, g), NEW p \in Promise, HeardFirst(h, p)
  PROVE  HeardFirst(g, p)
<1>1. CASE h.observed[p]
  BY <1>1 DEF Grows, HeardFirst
<1>2. CASE ~h.observed[p]
  <2>1. PICK i \in 1..Len(h.queue) :
          /\ h.queue[i].job.kind = "adopt_subscribe" /\ h.queue[i].value = p
          /\ \A j \in 1..i : ~Continues(h.queue[j].job, p, {"finally_thunk"})
    BY <1>2 DEF HeardFirst
  <2>2. Len(h.queue) \in Nat /\ Len(g.queue) \in Nat /\ Len(h.queue) <= Len(g.queue)
    BY DEF Heap, Grows
  <2>3. i \in 1..Len(g.queue) /\ \A j \in 1..i : j \in 1..Len(h.queue)
    BY <2>2
  <2>4. \A j \in 1..i : g.queue[j] = h.queue[j]
    BY <2>3 DEF Grows
  <2>5. i \in 1..i
    BY <2>2
  <2> QED BY <2>1, <2>3, <2>4, <2>5 DEF HeardFirst
<1> QED BY <1>1, <1>2

\* The thunk finds its promise heard; any job but the one that will subscribe to it
\* leaves it so.
LEMMA HeardPops ==
  ASSUME NEW h \in Heap, NEW g, Pops(h, g), h.queue # <<>>, NEW p \in Promise, HeardFirst(h, p)
  PROVE  /\ Continues(Head(h.queue).job, p, {"finally_thunk"}) => h.observed[p]
         /\ \/ Head(h.queue).job.kind = "adopt_subscribe" /\ Head(h.queue).value = p
            \/ HeardFirst(g, p)
<1>1. CASE h.observed[p]
  BY <1>1 DEF Pops, HeardFirst
<1>2. CASE ~h.observed[p]
  <2>1. PICK i \in 1..Len(h.queue) :
          /\ h.queue[i].job.kind = "adopt_subscribe" /\ h.queue[i].value = p
          /\ \A j \in 1..i : ~Continues(h.queue[j].job, p, {"finally_thunk"})
    BY <1>2 DEF HeardFirst
  <2>2. /\ h.queue \in Seq(Task) /\ Len(h.queue) \in Nat \ {0} /\ g.queue = Tail(h.queue)
        /\ Head(h.queue) = h.queue[1]
    BY DEF Heap, Pops
  <2>3. Len(g.queue) = Len(h.queue) - 1 /\ \A j \in 1..(Len(h.queue) - 1) : g.queue[j] = h.queue[j + 1]
    BY <2>2
  <2> DEFINE n == Len(h.queue)
  <2>4. 1 \in 1..i
    BY <2>2
  <2>5. ~Continues(Head(h.queue).job, p, {"finally_thunk"})
    BY <2>1, <2>2, <2>4
  <2>6. CASE i = 1
    BY <2>1, <2>2, <2>5, <2>6
  <2>7. CASE i # 1
    <3>1. /\ i - 1 \in 1..Len(g.queue) /\ g.queue[i - 1] = h.queue[i]
          /\ \A j \in 1..(i - 1) : j \in 1..(n - 1) /\ j + 1 \in 1..i
      <4>1. n \in Nat /\ i \in 1..n
        BY <2>2
      <4> HIDE DEF n
      <4>2. i - 1 \in 1..(n - 1) /\ (i - 1) + 1 = i
            /\ \A j \in 1..(i - 1) : j \in 1..(n - 1) /\ j + 1 \in 1..i
        BY <2>7, <4>1
      <4>3. g.queue[i - 1] = h.queue[(i - 1) + 1]
        BY <2>3, <4>2 DEF n
      <4> QED BY <2>3, <4>2, <4>3 DEF n
    <3>2. \A j \in 1..(i - 1) : ~Continues(g.queue[j].job, p, {"finally_thunk"})
      BY <2>1, <2>3, <3>1
    <3> QED BY <2>1, <2>5, <3>1, <3>2 DEF HeardFirst
  <2> QED BY <2>6, <2>7
<1> QED BY <1>1, <1>2

-----------------------------------------------------------------------------
(* Two calls that are made together.                                       *)

\* g is h after a new promise d that r will settle has been derived from p.
Derives(h, g, p, d, r) ==
  /\ g \in Heap /\ Gains(h, g, r, p) /\ Grows(h, g) /\ Apart(h, g, {d})
  /\ g.state[d] = "pending" /\ ~g.resolved[d]
  /\ AdoptExact(h) => AdoptExact(g)

\* then and finally do so.
LEMMA DeriveEffect ==
  ASSUME NEW h, HeapInv(h), NEW p \in Promise, NEW d \in Free(h), NEW r \in Reaction,
         r.kind \notin AdopterKinds
  PROVE  Derives(h, Subscribe(PromiseNew(h, d), p, r), p, d, r)
<1> DEFINE n == PromiseNew(h, d)
           g == Subscribe(n, p, r)
<1>1. h \in Heap /\ d \in Promise /\ ~h.resolved[d]
  BY DEF HeapInv, Free, FreeIsBlank, Allocated
<1>2. Allocates(h, n, d) /\ HeapInv(n)
  BY <1>1, NewEffect, NewInv
<1> HIDE DEF n
<1>3. n \in Heap /\ CountExact(n)
  BY <1>2 DEF HeapInv
<1>4. Subscribes(n, g, p, r)
  BY <1>3, SubscribeEffect
<1> HIDE DEF g
<1>5. AdoptExact(h) => AdoptExact(g)
  BY <1>2, <1>3, <1>4, NewExact, SubscribeExact
<1>6. Grows(h, g)
  BY <1>1, <1>2, <1>4, GrowsOn DEF Allocates, Subscribes
<1>7. Gains(h, g, r, p)
  BY <1>2, <1>4 DEF Allocates, Subscribes, Same, Gains
<1>8. Apart(h, g, {d}) /\ g.state[d] = "pending" /\ ~g.resolved[d] /\ g \in Heap
  BY <1>1, <1>2, <1>4 DEF Allocates, Subscribes, Apart
<1> QED BY <1>5, <1>6, <1>7, <1>8 DEF Derives, g, n

\* g is h after r has begun to wait for v, or for the settled promise q that holds v.
Listens(h, g, v, q, r) ==
  /\ g \in Heap /\ Gains(h, g, r, Resolved(v, q)) /\ Grows(h, g)
  /\ Apart(h, g, IF v \in Promise THEN {} ELSE {q})
  /\ v \notin Promise => g.state[q] = "fulfilled" /\ g.resolved[q]
  /\ AdoptExact(h) => AdoptExact(g)

\* await, Promise.all and the end of a finally callback do so.
LEMMA ListenEffect ==
  ASSUME NEW h, HeapInv(h), NEW v \in Value, NEW q \in Promise,
         v \in Promise => v \in Allocated(h), v \notin Promise => q \in Free(h),
         NEW r \in Reaction, r.kind \notin AdopterKinds
  PROVE  Listens(h, Subscribe(PromiseResolve(h, v, q), Resolved(v, q), r), v, q, r)
<1> DEFINE m == PromiseResolve(h, v, q)
           e == Resolved(v, q)
           g == Subscribe(m, e, r)
<1>1. h \in Heap /\ e \in Promise
  BY DEF HeapInv, Resolved
<1>2. Resolves(h, m, v, q) /\ HeapInv(m)
  BY <1>1, ResolveEffect, ResolveInv
<1> HIDE DEF m, e
<1>3. m \in Heap /\ CountExact(m)
  BY <1>2 DEF HeapInv
<1>4. Subscribes(m, g, e, r)
  BY <1>1, <1>3, SubscribeEffect
<1> HIDE DEF g
<1>5. AdoptExact(h) => AdoptExact(g)
  BY <1>2, <1>3, <1>4, ResolveExact, SubscribeExact
<1>6. Grows(h, g)
  BY <1>1, <1>2, <1>3, <1>4, GrowsOn DEF Resolves, Subscribes
<1>7. Gains(h, g, r, e)
  BY <1>2, <1>4 DEF Resolves, Subscribes, Same, Gains
<1>8. /\ Apart(h, g, IF v \in Promise THEN {} ELSE {q}) /\ g \in Heap
      /\ v \notin Promise => g.state[q] = "fulfilled" /\ g.resolved[q]
  BY <1>2, <1>4 DEF Resolves, Subscribes, Apart
<1> QED BY <1>5, <1>6, <1>7, <1>8 DEF Listens, g, m, e
================================================================================
