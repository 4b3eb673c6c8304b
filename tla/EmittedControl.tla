--------------------------- MODULE EmittedControl ---------------------------
(* The C the emitter writes for a body: landing pads, completion codes,     *)
(* routed jumps, the close of a walk, the return slot and the environment a *)
(* loop clones per iteration.  Every operator gives the lines written for   *)
(* its node in a place s, which holds the emitter's stacks: pads (padStack),*)
(* fins (tryFinallyStack) and encl (enclosing).  A completion code is       *)
(* written as the jump it stands for.                                       *)
EXTENDS Completions, FiniteSetsExt, TLC

CONSTANTS Units   \* the program bodies, a sequence of
                  \* [chain, kind, valued, acts] records

Outermost == [pads |-> <<>>, fins |-> <<>>, encl |-> <<>>]

Line(op, at, n, to) == <<[op |-> op, at |-> at, n |-> n, to |-> to]>>
Op(op, at) == Line(op, at, "", <<>>)
Goto(to)   == Line("goto", 0, "", to)
Unless(op, at, n, to) == Line(op, at, n, to)
emitJumpTarget(to) == Line("label", 0, "", to)

\* Throwing operations go to the innermost pad, or to the unit's unwind tail.
currentPad(s) == IF s.pads = <<>> THEN <<"unwind">> ELSE Last(s.pads)
PushPad(s, pad)      == [s EXCEPT !.pads = Append(@, pad)]
PushFin(s, i, depth) == [s EXCEPT !.fins = Append(@, [id |-> i, depth |-> depth])]
enterLoop(s, i, loop, iterEnv) ==
  [s EXCEPT !.encl = Append(@, [id |-> i, isLoop |-> loop, iterEnv |-> iterEnv])]

Commits(encl) ==
  LET left == SelectSeq(encl, LAMBDA e : e.iterEnv)
  IN  [j \in DOMAIN left |-> Op("env-commit", left[Len(left) + 1 - j].id)[1]]

\* Mutant of commitIterEnvs: the loop that is left is not committed itself.
commitIterEnvsInner(s, k) == Commits(SubSeq(s.encl, k + 1, Len(s.encl)))

\* Environments of the loops from index k inwards are committed, innermost first.
commitIterEnvs(s, k) == Commits(SubSeq(s.encl, k, Len(s.encl)))

\* The jump is noted in the completion slot of the innermost finally, whose
\* dispatch performs it again with that finally popped.
routeJump(s, jump) ==
  LET i == Last(s.fins).id IN Line("set-comp", i, jump, <<>>) \o Goto(<<"fin", i>>)

\* Mutant of emitLoopJump: the loop directly around the try is not counted as
\* around it.
emitLoopJumpPast(s, name, target) ==
  IF s.fins # <<>> /\ Last(s.fins).depth > target + 1
  THEN routeJump(s, name)
  ELSE commitIterEnvs(s, IF name[1] = "cont" THEN target + 1 ELSE target) \o Goto(name)

\* A jump to a loop or switch that is around the innermost try is routed;
\* otherwise the environments of the loops it leaves are committed.
emitLoopJump(s, name, target) ==
  IF s.fins # <<>> /\ Last(s.fins).depth > target
  THEN routeJump(s, name)
  ELSE commitIterEnvs(s, IF name[1] = "cont" THEN target + 1 ELSE target) \o Goto(name)

emitReturnJump(s) ==
  IF s.fins = <<>> THEN commitIterEnvs(s, 1) \o Op("exit-slot", 0)
  ELSE routeJump(s, <<"return", 0>>)

\* The jumps the lines of a try route to its finally, and the arms that
\* perform them after it.
Routed(lines, i) ==
  {lines[k].n : k \in {j \in DOMAIN lines : /\ lines[j].op = "set-comp" /\ lines[j].at = i
                                           /\ lines[j].n[1] \in {"brk", "cont", "return"}}}
Index(s, id) == CHOOSE k \in DOMAIN s.encl : s.encl[k].id = id
Dispatch(s, i, jumps) ==
  LET Arm(jump) ==
        Unless("unless-comp", i, jump, <<"arm", i, jump>>)
        \o (IF jump[1] = "return" THEN emitReturnJump(s)
            ELSE emitLoopJump(s, jump, Index(s, jump[2])))
        \o emitJumpTarget(<<"arm", i, jump>>)
  IN  FoldSet(LAMBDA jump, lines : lines \o Arm(jump), <<>>, jumps)

\* break and continue take the innermost entry that may hold the jump; a label
\* must be its own.
JumpTarget(s, o) ==
  Innermost({k \in DOMAIN s.encl : /\ o.t = "continue" => s.encl[k].isLoop
                                   /\ o.to # 0 => s.encl[k].id = o.to})

EmitJump(s, o) ==
  LET k == JumpTarget(s, o)
  IN  emitLoopJump(s, <<IF o.t = "break" THEN "brk" ELSE "cont", s.encl[k].id>>, k)

\* Mutant of EmitReturn: a bare return that is routed leaves the slot alone.
EmitReturnKept(s, unit, here, o) ==
  IF o.v # Undefined
  THEN Op("set-return", here) \o (IF s.fins = <<>> THEN Op("exit-slot", 0) ELSE emitReturnJump(s))
  ELSE IF s.fins = <<>> THEN Op("exit-undefined", 0)
  ELSE emitReturnJump(s)

\* A unit that never returns a value has no return slot: a bare return that a
\* finally holds up is parked in slot 0.
EmitReturn(s, unit, here, o) ==
  IF o.v # Undefined
  THEN Op("set-return", here) \o (IF s.fins = <<>> THEN Op("exit-slot", 0) ELSE emitReturnJump(s))
  ELSE IF s.fins = <<>> THEN Op("exit-undefined", 0)
  ELSE Op(IF unit.valued THEN "clear-return" ELSE "clear-slot-0", 0) \o emitReturnJump(s)

\* await and yield park, and read what the resume brought when it comes.
emitPark(s, kind, here) ==
  LET on == <<"on", here>>
  IN  Op("park", here)
      \o Unless("unless-sent", 0, "throw", <<"kept", here>>)
      \o Op("throw-sent", 0) \o Goto(currentPad(s)) \o emitJumpTarget(<<"kept", here>>)
      \o (IF kind # "generator" THEN <<>>
          ELSE Unless("unless-sent", 0, "return", on) \o Op("return-sent", 0) \o emitReturnJump(s))
      \o emitJumpTarget(on)

\* A leaf, and the lines of each thing it may do behind that outcome's label.
Outcome(here, o) == <<"leaf", here, o.t, o.v, o.to>>
EmitLeaf(s, unit, here, outcomes) ==
  LET end == <<"end", here>>
      Arm(o) ==
        CASE o.t = "throw"               -> Op("throw", here) \o Goto(currentPad(s))
          [] o.t = "return"              -> EmitReturn(s, unit, here, o)
          [] o.t \in {"break", "continue"} -> EmitJump(s, o)
          [] o.t = "park"                -> emitPark(s, unit.kind, here) \o Goto(end)
          [] OTHER                       -> Goto(end)
  IN  Op("leaf", here)
      \o FoldSet(LAMBDA o, lines : lines \o emitJumpTarget(Outcome(here, o)) \o Arm(o), <<>>, outcomes)
      \o emitJumpTarget(end)

\* A leaf that decides: two ways on, or a throw.
EmitDecision(s, here, t1, to1, t2, to2) ==
  Op("leaf", here)
  \o emitJumpTarget(Outcome(here, Done(t1))) \o Goto(to1)
  \o emitJumpTarget(Outcome(here, Done(t2))) \o Goto(to2)
  \o emitJumpTarget(Outcome(here, Completion("throw", here, 0)))
  \o Op("throw", here) \o Goto(currentPad(s))

Jumps(chain, i, unlabelled) ==
  LET Marks(t, forms) ==
        LET js == {k \in 1 .. i : chain[k].form \in forms}
        IN  {Completion(t, Undefined, k) : k \in js}
            \cup {Done(t) : k \in {j \in js : chain[j].form \in unlabelled}}
  IN  Marks("break", Breakable) \cup Marks("continue", Iterations)

\* The stacks in a part of statement i, which itself stands in a place s.
Inside(s, unit, i, part) ==
  LET form  == unit.chain[i].form
      loop  == enterLoop(s, i, form \in Iterations, unit.chain[i].fresh)
      fin   == PushFin(s, i, Len(s.encl) + 1)
  IN  CASE form \in Breakable ->
             IF form \in {"gen", "map"} /\ part \in {"step", "body"}
             THEN PushPad(PushFin(loop, i, Len(s.encl) + 1), <<"finthr", i>>)
             ELSE loop
        [] form \in Catching /\ part = "try" ->
             PushPad(IF form \in Finishing THEN fin ELSE s, <<"cat", i>>)
        [] form \in Finishing /\ part = (IF form \in Catching THEN "catch" ELSE "try") ->
             PushPad(fin, <<"finthr", i>>)
        [] OTHER                -> s

Place(unit, i) ==
  FoldLeft(LAMBDA s, j : Inside(s, unit, j, unit.chain[j].at), Outermost, [j \in 1 .. i - 1 |-> j])
Within(unit, i, part) == Inside(Place(unit, i), unit, i, part)

\* A block: the statement nested in it, if it stands here, and the last leaf.
EmitBlock(unit, i, part, nested) ==
  LET here == <<i, part>>
      outcomes == {Normal, Completion("throw", here, 0), Completion("return", here, 0),
                   Done("return")}
                  \cup (IF unit.kind = "sync" THEN {} ELSE {Done("park")})
                  \cup Jumps(unit.chain, i, Iterations \cup {"switch"})
  IN  (IF unit.chain[i].at = part THEN nested ELSE <<>>)
      \o EmitLeaf(Within(unit, i, part), unit, here, outcomes)

EmitTest(unit, i, part, t1, to1, t2, to2) ==
  EmitDecision(Within(unit, i, part), <<i, part>>, t1, to1, t2, to2)

emitCatchEntry == Op("take-caught", 0)

emitTryCatch(unit, i, nested) ==
  EmitBlock(unit, i, "try", nested) \o Goto(<<"tend", i>>)
  \o emitJumpTarget(<<"cat", i>>) \o emitCatchEntry
  \o EmitBlock(unit, i, "catch", nested) \o emitJumpTarget(<<"tend", i>>)

Rethrow(s, i) ==
  Unless("unless-comp", i, <<"throw", 0>>, <<"rethrown", i>>)
  \o Op("rethrow", i) \o Goto(currentPad(s)) \o emitJumpTarget(<<"rethrown", i>>)

emitTryFinally(unit, i, nested) ==
  LET s       == Place(unit, i)
      body    == EmitBlock(unit, i, "try", nested) \o Goto(<<"fin", i>>)
      handler == IF unit.chain[i].form \notin Catching THEN <<>>
                 ELSE emitJumpTarget(<<"cat", i>>) \o emitCatchEntry
                      \o EmitBlock(unit, i, "catch", nested) \o Goto(<<"fin", i>>)
  IN  Line("set-comp", i, <<"normal", 0>>, <<>>) \o body \o handler
      \o emitJumpTarget(<<"finthr", i>>)
      \o Line("set-comp", i, <<"throw", 0>>, <<>>) \o Op("take-exc", i)
      \o emitJumpTarget(<<"fin", i>>) \o EmitBlock(unit, i, "finally", nested)
      \o Rethrow(s, i) \o Dispatch(s, i, Routed(body \o handler, i))

\* Tests in the order of the clauses, the default last; then the clauses,
\* each falling through to the next.
emitSwitch(unit, i, nested) ==
  EmitTest(unit, i, "test1", "match", <<"case", i, 1>>, "differ", <<"next", i>>)
  \o emitJumpTarget(<<"next", i>>)
  \o EmitTest(unit, i, "test3", "match", <<"case", i, 3>>, "differ", <<"case", i, 2>>)
  \o emitJumpTarget(<<"case", i, 1>>) \o EmitBlock(unit, i, "one", nested)
  \o emitJumpTarget(<<"case", i, 2>>) \o EmitBlock(unit, i, "two", nested)
  \o emitJumpTarget(<<"case", i, 3>>) \o EmitBlock(unit, i, "three", nested)
  \o emitJumpTarget(<<"brk", i>>)

EmitLabelled(unit, i, nested) ==
  EmitBlock(unit, i, "body", nested) \o emitJumpTarget(<<"brk", i>>)

\* Opening, entering and committing the environment of a loop that clones it.
\* (Mutant of emitIterEnvEnter: the body runs in the loop's own environment.)
emitIterEnvEnterShared(fresh, i) == <<>>
emitIterEnvOpen(fresh, i)   == IF fresh THEN Op("env-open", i) ELSE <<>>
emitIterEnvEnter(fresh, i)  == IF fresh THEN Op("env-enter", i) ELSE <<>>
emitIterEnvCommit(fresh, i) == IF fresh THEN Op("env-commit", i) ELSE <<>>

\* The loop body in its environment, and the continue target after it.
EmitBody(unit, i, nested) ==
  LET fresh == unit.chain[i].fresh
  IN  emitIterEnvEnter(fresh, i)
      \o (IF fresh /\ unit.chain[i].form # "for" THEN Op("bind", i) ELSE <<>>)
      \o EmitBlock(unit, i, "body", nested)
      \o emitJumpTarget(<<"cont", i>>) \o emitIterEnvCommit(fresh, i)

EmitCond(unit, i) ==
  EmitTest(unit, i, "cond", "true", <<"body", i>>, "false", <<"brk", i>>)
  \o emitJumpTarget(<<"body", i>>)

\* while, do-while and for: the test before or after the body, and for's
\* update after the continue target and after the commit.
EmitWhile(unit, i, nested) ==
  emitIterEnvOpen(unit.chain[i].fresh, i) \o emitJumpTarget(<<"top", i>>)
  \o EmitCond(unit, i) \o EmitBody(unit, i, nested)
  \o Goto(<<"top", i>>) \o emitJumpTarget(<<"brk", i>>)

EmitDoWhile(unit, i, nested) ==
  emitIterEnvOpen(unit.chain[i].fresh, i) \o emitJumpTarget(<<"top", i>>)
  \o EmitBody(unit, i, nested) \o EmitCond(unit, i)
  \o Goto(<<"top", i>>) \o emitJumpTarget(<<"brk", i>>)

EmitFor(unit, i, nested) ==
  LET fresh == unit.chain[i].fresh
      to    == <<"updated", i>>
  IN  (IF fresh THEN Op("bind", i) ELSE <<>>)
      \o emitIterEnvOpen(fresh, i) \o emitJumpTarget(<<"top", i>>)
      \o EmitCond(unit, i) \o EmitBody(unit, i, nested)
      \o EmitTest(unit, i, "update", "normal", to, "normal", to) \o emitJumpTarget(to)
      \o (IF fresh THEN Op("step-binding", i) ELSE <<>>)
      \o Goto(<<"top", i>>) \o emitJumpTarget(<<"brk", i>>)

\* The iterator's step: an item enters the body, exhaustion leaves the loop,
\* a throw goes to the pad of the close with the exception pending.
EmitStep(unit, i) ==
  LET here == <<i, "step">>
  IN  Op("leaf", here)
      \o emitJumpTarget(Outcome(here, Done("true"))) \o Goto(<<"item", i>>)
      \o emitJumpTarget(Outcome(here, Done("false"))) \o Op("finish", i) \o Goto(<<"fin", i>>)
      \o emitJumpTarget(Outcome(here, Completion("throw", here, 0)))
      \o Op("finish", i) \o Op("throw", here) \o Goto(currentPad(Within(unit, i, "step")))
      \o emitJumpTarget(<<"item", i>>)

\* The close of a generator: one that has finished runs nothing.
jsrt_iterator_close(i) ==
  LET here == <<i, "close">>
  IN  Unless("unless-open", i, "", <<"closed", i>>) \o Op("leaf", here)
      \o emitJumpTarget(Outcome(here, Normal)) \o Goto(<<"closed", i>>)
      \o emitJumpTarget(Outcome(here, Completion("throw", here, 0))) \o Op("throw", here)
      \o emitJumpTarget(<<"closed", i>>)

\* The walk of both for-of loops that clean up after themselves.
Walk(unit, i, nested) ==
  emitJumpTarget(<<"top", i>>) \o EmitStep(unit, i) \o EmitBody(unit, i, nested)
  \o Goto(<<"top", i>>)

emitBoxedIteratorForOf(unit, i, nested) ==
  LET walk  == Walk(unit, i, nested)
      outer == Within(unit, i, "close")
  IN  Op("fresh-iterator", i) \o emitIterEnvOpen(unit.chain[i].fresh, i)
      \o Line("set-comp", i, <<"normal", 0>>, <<>>) \o walk
      \o emitJumpTarget(<<"finthr", i>>)
      \o Line("set-comp", i, <<"throw", 0>>, <<>>) \o Op("take-exc", i) \o Goto(<<"fin", i>>)
      \o emitJumpTarget(<<"brk", i>>) \o emitJumpTarget(<<"fin", i>>) \o jsrt_iterator_close(i)
      \* The close threw: the exception already in flight wins over its own.
      \o Unless("unless-pending", i, "", <<"quiet", i>>)
      \o Unless("unless-comp", i, <<"throw", 0>>, <<"loud", i>>)
      \o Op("drop", i) \o Op("rethrow", i)
      \o emitJumpTarget(<<"loud", i>>) \o Goto(currentPad(outer)) \o emitJumpTarget(<<"quiet", i>>)
      \o Rethrow(outer, i) \o Dispatch(outer, i, Routed(walk, i))

\* Mutant of emitMapSetForOf: the pad of a throw leaves the walk counted.
emitMapSetForOfCounted(unit, i, nested) ==
  LET walk  == Walk(unit, i, nested)
      outer == Within(unit, i, "close")
  IN  emitIterEnvOpen(unit.chain[i].fresh, i) \o Op("iter-begin", i)
      \o Line("set-comp", i, <<"normal", 0>>, <<>>) \o walk
      \o emitJumpTarget(<<"finthr", i>>) \o Goto(currentPad(outer))
      \o emitJumpTarget(<<"brk", i>>) \o emitJumpTarget(<<"fin", i>>) \o Op("iter-end", i)
      \o Dispatch(outer, i, Routed(walk, i))

\* A Map or Set walk: iter_begin, and iter_end exactly once on every way out.
emitMapSetForOf(unit, i, nested) ==
  LET walk  == Walk(unit, i, nested)
      outer == Within(unit, i, "close")
  IN  emitIterEnvOpen(unit.chain[i].fresh, i) \o Op("iter-begin", i)
      \o Line("set-comp", i, <<"normal", 0>>, <<>>) \o walk
      \o emitJumpTarget(<<"finthr", i>>) \o Op("iter-end", i) \o Goto(currentPad(outer))
      \o emitJumpTarget(<<"brk", i>>) \o emitJumpTarget(<<"fin", i>>) \o Op("iter-end", i)
      \o Dispatch(outer, i, Routed(walk, i))

EmitStatement(unit, i, nested) ==
  LET form == unit.chain[i].form
  IN  CASE form = "while"     -> EmitWhile(unit, i, nested)
        [] form = "do"        -> EmitDoWhile(unit, i, nested)
        [] form = "for"       -> EmitFor(unit, i, nested)
        [] form = "gen"       -> emitBoxedIteratorForOf(unit, i, nested)
        [] form = "map"       -> emitMapSetForOf(unit, i, nested)
        [] form = "switch"    -> emitSwitch(unit, i, nested)
        [] form = "block"     -> EmitLabelled(unit, i, nested)
        [] form = "try-catch" -> emitTryCatch(unit, i, nested)
        [] form = "unit"      -> EmitBlock(unit, i, "body", nested)
        [] OTHER              -> emitTryFinally(unit, i, nested)

\* The unit: its statements, the fall off its end, and its unwind tail.
emitUnit(unit) ==
  FoldRight(LAMBDA i, nested : EmitStatement(unit, i, nested), [i \in DOMAIN unit.chain |-> i], <<>>)
  \o Op("exit-undefined", 0) \o emitJumpTarget(<<"unwind">>) \o Op("exit-thrown", 0)

\* What each unit compiles to: its lines, and where each label stands.
\* (The concatenation makes TLC compute the sequence once.)
Linked(unit, lines) ==
  [unit  |-> unit,
   lines |-> lines,
   at    |-> FoldSet(LAMBDA k, at : (lines[k].to :> k) @@ at, <<>>,
                     {k \in DOMAIN lines : lines[k].op = "label"})]
Link(unit) == Linked(unit, emitUnit(unit))
Compiled == <<>> \o [u \in DOMAIN Units |-> Link(Units[u])]
=============================================================================
