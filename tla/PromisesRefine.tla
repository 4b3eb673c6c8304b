------------------------------ MODULE PromisesRefine ------------------------------
(***************************************************************************)
(* The runtime's promises implement PromiseContract: who waits for p is    *)
(* the jobs p has already queued, in queue order, then the reactions still *)
(* registered on p.                                                        *)
(***************************************************************************)
EXTENDS Promises

OutcomeOf(h, p) == IF Settled(h, p) THEN <<h.state[p], h.value[p]>> ELSE <<"pending">>

\* At n, the continuations among the first n jobs that p has queued.
Owed(jobs, p) ==
  LET owed[n \in 0..Len(jobs)] ==
        IF n = 0 THEN <<>>
        ELSE IF jobs[n].src = p THEN owed[n - 1] \o <<jobs[n].job>> ELSE owed[n - 1]
  IN  owed

WaitingFor(h, p) == Owed(h.queue, p)[Len(h.queue)] \o h.reactions[p]

outcome == [p \in Promise |-> OutcomeOf(heap, p)]
waiting == [p \in Promise |-> WaitingFor(heap, p)]

Contract == INSTANCE PromiseContract WITH Pending <- <<"pending">>

\* The global microtask queue delivers every settlement as PromiseContract says:
\* once per registration, in registration order, and only after the promise settled.
ImplementsContract == Contract!Spec
================================================================================
