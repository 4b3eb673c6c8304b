---------------------------- MODULE ControlRuns ----------------------------
(* The compiled unit runs beside the language: the same leaves, the same    *)
(* outcomes, and the calls a generator or a suspended function receives.    *)
(* The machine m holds what the C holds (slots, the pending cell, the walk  *)
(* counts, the environments); r is the program of Completions.              *)
EXTENDS EmittedControl

VARIABLES id, running, m, r, parked, reply, nested, astray, made

vars == <<id, running, m, r, parked, reply, nested, astray, made>>

\* running is the body that runs: running.acts says what its leaves do besides
\* completing, "jump", "park", "bind" or "captured" (see Captured).
code == Compiled[id]

Sent == <<0, "sent">>
None == Completion("none", Undefined, 0)

(* The machine *)
NewEnv == [x |-> <<0, "first">>, it |-> [i \in DOMAIN running.chain |-> "a"]]
Machine ==
  LET Each(v) == [i \in DOMAIN running.chain |-> v]
  IN  [pc |-> 1, ins |-> code.lines[1], comp |-> Each(<<"normal", 0>>), exc |-> Each(Undefined), pend |-> None,
       ret |-> Undefined, slot0 |-> <<0, "given">>, caught |-> Undefined, walks |-> Each(0),
       finished |-> {}, sent |-> "next", envs |-> <<NewEnv>>, cur |-> 1, saved |-> Each(0),
       iter |-> Each(0), state |-> 0, answer |-> None, done |-> FALSE]

Plain == {"body", "try", "catch", "finally", "one", "two", "three"}

jsrt_throw(c, v)       == [c EXCEPT !.pend = Completion("throw", v, 0)]
jsrt_take_exception(c) == [c EXCEPT !.pend = None]
jsrt_env_clone(c, i) ==
  LET k == Len(c.envs) + 1
  IN  [c EXCEPT !.envs = Append(@, c.envs[c.saved[i]]), !.cur = k, !.iter[i] = k]
jsrt_env_copy_slots(c, i) ==
  [c EXCEPT !.envs[c.saved[i]] = c.envs[c.iter[i]], !.cur = c.saved[i]]

\* One instruction that neither jumps nor stops.
Effect(c, ins) ==
  LET i == ins.at
  IN  CASE ins.op = "throw"          -> jsrt_throw(c, i)
        [] ins.op = "throw-sent"     -> jsrt_throw(c, Sent)
        [] ins.op = "rethrow"        -> jsrt_throw(c, c.exc[i])
        [] ins.op = "drop"           -> jsrt_take_exception(c)
        [] ins.op = "take-exc"       -> jsrt_take_exception([c EXCEPT !.exc[i] = c.pend.v])
        [] ins.op = "take-caught"    -> jsrt_take_exception([c EXCEPT !.caught = c.pend.v])
        [] ins.op = "set-comp"       -> [c EXCEPT !.comp[i] = ins.n]
        [] ins.op = "set-return"     -> [c EXCEPT !.ret = i]
        [] ins.op = "clear-return"   -> [c EXCEPT !.ret = Undefined]
        [] ins.op = "return-sent"    -> [c EXCEPT !.ret = Sent]
        [] ins.op = "clear-slot-0"   -> [c EXCEPT !.slot0 = Undefined]
        [] ins.op = "fresh-iterator" -> [c EXCEPT !.finished = @ \ {i}]
        [] ins.op = "finish"         -> [c EXCEPT !.finished = @ \cup {i}]
        [] ins.op = "iter-begin"     -> [c EXCEPT !.walks[i] = @ + 1]
        [] ins.op = "iter-end"       -> [c EXCEPT !.walks[i] = @ - 1]
        [] ins.op = "env-open"       -> [c EXCEPT !.saved[i] = c.cur, !.iter[i] = 0]
        [] ins.op = "env-enter"      -> jsrt_env_clone(c, i)
        [] ins.op = "env-commit"     -> IF c.iter[i] = 0 THEN c ELSE jsrt_env_copy_slots(c, i)
        [] ins.op = "bind"           -> [c EXCEPT !.envs[c.cur].it[i] = "a"]
        [] ins.op = "step-binding"   -> [c EXCEPT !.envs[c.cur].it[i] = Flip(@)]
        [] OTHER                     -> c

Leaps(c, ins) ==
  \/ ins.op = "goto"
  \/ ins.op = "unless-comp"    /\ c.comp[ins.at] # ins.n
  \/ ins.op = "unless-sent"    /\ c.sent # ins.n
  \/ ins.op = "unless-pending" /\ c.pend = None
  \/ ins.op = "unless-open"    /\ ins.at \in c.finished

Exit(c, op) ==
  CASE op = "exit-slot"      -> Completion("return", IF running.valued THEN c.ret ELSE c.slot0, 0)
    [] op = "exit-undefined" -> Done("return")
    [] op = "exit-thrown"    -> c.pend

\* The instruction at line pc is next.
Fetch(c, pc) == [c EXCEPT !.pc = pc, !.ins = code.lines[pc]]

\* Run to the next leaf, the next suspension or the end of the unit.
RECURSIVE Run(_)
Run(c) ==
  CASE c.ins.op = "leaf" -> c
    [] c.ins.op = "park" ->
         [c EXCEPT !.state = 1, !.answer = IF running.kind = "generator" THEN Done("yield") ELSE @]
    [] c.ins.op \in {"exit-slot", "exit-undefined", "exit-thrown"} ->
         [c EXCEPT !.answer = Exit(c, c.ins.op), !.done = TRUE, !.pend = None]
    [] OTHER -> Run(Fetch(Effect(c, c.ins), IF Leaps(c, c.ins) THEN code.at[c.ins.to] ELSE c.pc + 1))

At(c)         == c.ins.at
Handling(c, o) == Fetch(c, code.at[Outcome(At(c), o)])

(* The run *)
\* An unlabelled break stands directly inside a labelled block: the emitter
\* takes the block for its target, which only the units that say so exercise.
Captured ==
  LET js == Around(running.chain, r, Breakable) IN running.chain[Innermost(js)].form = "block"

\* What leaves do besides completing and throwing.
Offered ==
  LET part == Last(r.path).part
  IN  {o \in Leaves(running.chain, r) :
         /\ o.t \in {"break", "continue"} => "jump" \in running.acts
         /\ o.t = "break" /\ o.to = 0 =>
              (Captured <=> "captured" \in running.acts)
         /\ o.t = "return" /\ o.v # Undefined => running.valued}

Stage == IF r.ended # Normal THEN "over"
         ELSE IF r.path = <<>> THEN "start"
         ELSE IF parked THEN "parked" ELSE "body"

Init ==
  /\ id \in DOMAIN Compiled
  /\ running = code.unit
  /\ parked = FALSE /\ reply = None /\ nested = FALSE /\ astray = FALSE /\ made = {}
  /\ r = Start(running.chain)
  /\ m = Machine

\* The loops that own an environment per iteration, and the bindings they may make: one
\* more for each loop after the first.
Owning == {i \in DOMAIN running.chain : running.chain[i].fresh}
Cells == MaxCells + Max({1, Cardinality(Owning)}) - 1
Bounded == Len(r'.vals) <= Cells /\ Len(m'.envs) <= Cells + 1

\* The completion c leaves the iteration of an owning loop where nothing commits it: a
\* throw, also of the close that a jump waits for, a return, or a jump that a cleanup
\* between the loop and its target holds up, whose dispatch stands outside the loop.
Cleanups(i) ==
  {j \in 1 .. i - 1 : \/ running.chain[j].form \in Finishing /\ r.path[j].part # "finally"
                      \/ running.chain[j].form \in {"gen", "map"} /\ r.path[j].part = "body"}
Strays(c) ==
  \E i \in Owning \cap DOMAIN r.path :
    \/ /\ r.path[i].part = "body"
       /\ IF i \in DOMAIN r'.path THEN r'.path[i].part # "body" ELSE TRUE
       /\ c.t \in {"throw", "return"} \/ \E j \in Cleanups(i) : j > c.to
    \/ r.path[i].part = "close" /\ r.path[i].held # Normal /\ c.t = "throw"

\* The language completes its leaf with c; a body that ends replies with how.
Completes(c) ==
  /\ r' = Complete(running.chain, r, c)
  /\ astray' = (astray \/ Strays(IF c.t = "normal" THEN Last(r.path).held ELSE c))
  /\ reply' = IF r'.ended = Normal THEN reply ELSE r'.ended
  /\ nested' = (nested \/ (c.t = "return" /\ \E k \in DOMAIN r.path : r.path[k].held.t = "return"))

\* The leaf the program stands at completes, throws, returns or jumps.
Leaf(o) ==
  /\ Stage = "body"
  /\ o \in Offered
  /\ Completes(Resolve(running.chain, r, o))
  /\ m' = Run(Handling(m, o))
  /\ Bounded
  /\ UNCHANGED <<id, running, parked, made>>

\* A yield or an await suspends the body; a yield answers its caller.
Park ==
  /\ Stage = "body" /\ running.kind # "sync" /\ "park" \in running.acts
  /\ Last(r.path).part \in Plain
  /\ m' = Run(Handling(m, Done("park")))
  /\ parked' = TRUE
  /\ reply' = IF running.kind = "generator" THEN Done("yield") ELSE reply
  /\ UNCHANGED <<id, running, r, nested, astray, made>>

\* What next, throw and return on a generator, and the settlement of what an
\* async body awaits, make of a parked body.
Resumption(how) ==
  CASE how = "next"  -> Normal
    [] how = "throw" -> Completion("throw", Sent, 0)
    [] OTHER         -> Completion("return", Sent, 0)

Resume(how) ==
  /\ Stage = "parked"
  /\ how = "return" => running.kind = "generator"
  /\ Completes(Resumption(how))
  /\ m' = Run(Fetch([m EXCEPT !.sent = how], m.pc + 1))
  /\ parked' = FALSE
  /\ Bounded
  /\ UNCHANGED <<id, running, made>>

\* The call that runs a body: of the function, or the first next of a
\* generator.
Begin ==
  /\ Stage = "start"
  /\ r' = Enter(running.chain, r, "body", Normal)
  /\ m' = Run(m)
  /\ UNCHANGED <<id, running, parked, reply, nested, astray, made>>

\* A generator that has ended never enters its body again, and one that has
\* not started is ended by a throw or return before it could.
generator_next ==
  /\ running.kind = "generator" /\ Stage = "over"
  /\ reply' = Done("return")
  /\ m' = IF m.done THEN [m EXCEPT !.answer = Done("return")] ELSE Run(m)
  /\ UNCHANGED <<id, running, r, parked, nested, astray, made>>

generator_inject(how) ==
  /\ running.kind = "generator" /\ Stage \in {"start", "over"}
  /\ how \in {"throw", "return"}
  /\ reply' = Resumption(how)
  /\ r' = IF Stage = "start" THEN [r EXCEPT !.ended = Resumption(how)] ELSE r
  /\ m' = IF m.done \/ m.state = 0
          THEN [m EXCEPT !.done = TRUE, !.answer = Resumption(how)]
          ELSE Run(Fetch([m EXCEPT !.sent = how], m.pc + 1))
  /\ UNCHANGED <<id, running, parked, nested, astray, made>>

(* The captured bindings *)
Bind(q, c) ==
  /\ Stage = "body" /\ "bind" \in running.acts /\ Last(r.path).part \in Plain \cup {"cond"}
  /\ r' = q /\ m' = c
  /\ UNCHANGED <<id, running, parked, reply, nested, astray>>

Standing(i) == running.chain[i].fresh /\ i \in DOMAIN r.path /\ r.path[i].part = "body"

\* The body assigns x, or calls a closure made before any loop that does.
Assign == Bind([r EXCEPT !.x = <<1, "assigned">>], [m EXCEPT !.envs[m.cur].x = <<1, "assigned">>])
          /\ UNCHANGED made
CallOut == "call" \in running.acts
           /\ Bind([r EXCEPT !.x = <<1, "called">>], [m EXCEPT !.envs[1].x = <<1, "called">>])
           /\ UNCHANGED made
\* It assigns the binding of an iteration it stands in, or closes over it.
AssignOwn(i) == /\ Standing(i)
                /\ Bind([r EXCEPT !.vals[r.cell[i]] = "b"], [m EXCEPT !.envs[m.cur].it[i] = "b"])
                /\ UNCHANGED made
Capture(i) == /\ Standing(i)
              /\ Bind(r, m)
              /\ made' = made \cup {[loop |-> i, cell |-> r.cell[i], env |-> m.cur,
                                    inside |-> \E j \in Owning : j > i /\ Standing(j)]}

Next ==
  \/ Stage = "body" /\ \E o \in Offered : Leaf(o)
  \/ Park
  \/ \E how \in {"next", "throw", "return"} : Resume(how) \/ generator_inject(how)
  \/ Begin \/ generator_next
  \/ Assign \/ CallOut
  \/ \E i \in DOMAIN running.chain : AssignOwn(i) \/ Capture(i)

Spec == Init /\ [][Next]_vars

(* Properties *)

\* The compiled unit is always where the language is: it stands at the same
\* leaf, has caught the same value, and ends or answers the same way.
ControlExact ==
  /\ Stage \in {"body", "parked"} => ~m.done /\ At(m) = Here(running.chain, r)
  /\ Stage = "over" => m.done
  /\ m.caught = r.caught
  /\ m.answer.t = reply.t
  /\ reply.t = "throw" => m.answer.v = reply.v

\* What a return gives is the value of the return that won.
ReturnExact == reply.t = "return" => m.answer.v = reply.v

\* ... unless a return ran while another waited behind a finally.
ReturnExactUnlessNested == ~nested => ReturnExact

\* A walk of a Map or Set is counted exactly while its loop is open, whichever
\* way the loop is left.
WalksBalanced ==
  \A i \in DOMAIN running.chain :
    m.walks[i] = IF i \in DOMAIN r.path /\ running.chain[i].form = "map" THEN 1 ELSE 0

\* Every view of the captured x is the one binding: the body's, and that of a
\* closure made before the loops.
OneBinding == m.envs[m.cur].x = r.x /\ m.envs[1].x = r.x

\* ... where the body goes on outside those loops, while none was left astray: an
\* iteration's assignment is there after a break or a continue the loop takes itself.
OneBindingBetween ==
  /\ Stage = "body" /\ Last(r.path).part \in Plain
  /\ DOMAIN r.path \cap Owning = {} /\ ~astray
  => OneBinding

\* The body sees the binding of each iteration it stands in as the language does, and so
\* does a closure made in one, while no owning loop was left astray: but for one made in
\* an inner owning loop, whose clone it keeps, or while such a loop runs its own clone.
IterationsKept ==
  /\ Stage = "body" => \A i \in Owning : Standing(i) => m.envs[m.cur].it[i] = Value(r, i)
  /\ ~astray => \A c \in made :
       ~c.inside /\ ~(\E j \in Owning : j > c.loop /\ Standing(j)) => m.envs[c.env].it[c.loop] = r.vals[c.cell]

\* Without those conditions: what README, 6 says does not hold.
IterationsExact == \A c \in made : m.envs[c.env].it[c.loop] = r.vals[c.cell]
=============================================================================
