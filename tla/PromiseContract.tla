----------------------------- MODULE PromiseContract -----------------------------
(***************************************************************************)
(* What a promise promises, with no queue in sight: a promise settles at   *)
(* most once, and whoever waits for it is told once, after it has settled, *)
(* in the order of registration, one at a time.                            *)
(***************************************************************************)
EXTENDS Naturals, Sequences

CONSTANTS Promise, Pending

VARIABLES
  outcome,  \* how each promise settled, or Pending
  waiting   \* those who wait for each promise and have not been told

cvars == <<outcome, waiting>>

Init == outcome = [p \in Promise |-> Pending] /\ waiting = [p \in Promise |-> <<>>]

Extends(s, t) == Len(s) <= Len(t) /\ SubSeq(t, 1, Len(s)) = s

\* In one step, at most one waiter, the first of those of a promise that has
\* settled, is told; any promise may settle and any may get new waiters.
Step(told) ==
  /\ \A p \in told : outcome[p] # Pending /\ waiting[p] # <<>>
  /\ \A p \in Promise :
       /\ outcome[p] # Pending => outcome'[p] = outcome[p]
       /\ Extends(IF p \in told THEN Tail(waiting[p]) ELSE waiting[p], waiting'[p])
  /\ DOMAIN outcome' = Promise /\ DOMAIN waiting' = Promise

Next == \E told \in {{}} \cup {{p} : p \in Promise} : Step(told)

Spec == Init /\ [][Next]_cvars
================================================================================
