------------------------------ MODULE EmittedC ------------------------------
(* What the emitted C does: frames of slots, environments, and the pending  *)
(* exception, which stops nothing by itself.  C leaves open in which order  *)
(* the operands of an operator and the arguments of a call are evaluated.   *)
EXTENDS Emission

\* The machine of a program: Load and Store are those of Hir.  A slot starts as
\* undefined.
CFrame(size, own, env) == Frame([i \in 0 .. size - 1 |-> Undefined], own, env, NoCapture)
CMachine(code, backwards) ==
  [frames |-> <<CFrame(code.size, 0, 0)>>, heap |-> <<>>, out |-> <<>>, fuel |-> Fuel, ok |-> TRUE,
   threw |-> FALSE, fns |-> code.fns, backwards |-> backwards]

InFrame(m, f, i) == IF i \in DOMAIN m.frames[f].vars THEN <<"frame", f, i>> ELSE Nowhere
InEnv(env, i)    == IF env = 0 THEN Nowhere ELSE <<"env", env, i>>
SlotAt(m, f, place) ==
  CASE place[1] = "slot"   -> InFrame(m, f, place[2])
    [] place[1] = "global" -> InFrame(m, 1, place[2])
    [] place[1] = "own"    -> InEnv(m.frames[f].own, place[2])
    [] place[1] = "outer"  -> InEnv(EnvAt(m.heap, m.frames[f].env, place[2]), place[3])
    [] OTHER               -> Nowhere

RECURSIVE CEval(_, _, _), Run(_, _, _), Turn(_, _, _)

Operand(r, i, g) == [vs |-> [r.vs EXCEPT ![i] = g.v], m |-> g.m]
Operands(es, f, m, is) ==
  FoldLeft(LAMBDA r, i : Operand(r, i, CEval(es[i], f, r.m)), [vs |-> [i \in DOMAIN es |-> Unset], m |-> m], is)
InOrder(e, m) ==
  LET n == Len(e.as) IN [i \in 1 .. n |-> IF m.backwards /\ e.k # "," THEN n + 1 - i ELSE i]

\* A function has a frame of its own; what leaves it by the unwind label has
\* undefined for its caller.
CReturned(r) == Given(IF r.c = "return" THEN r.v ELSE Undefined, r.m)
Stored(m, unit, vs) ==
  FoldLeft(LAMBDA c, i : Store(c, SlotAt(c, Len(c.frames), unit.params[i]), Argument(vs, i)), m, [i \in DOMAIN unit.params |-> i])
Entered(m, unit, up) ==
  [m EXCEPT !.fuel = @ - 1,
            !.heap = IF unit.envs = 0 THEN @ ELSE Append(@, [slots |-> [i \in 1 .. unit.envs |-> Unset], parent |-> up]),
            !.frames = Append(@, CFrame(unit.size, IF unit.envs = 0 THEN 0 ELSE Len(m.heap) + 1, up))]
jsrt_call(fn, vs, m) ==
  IF fn[1] # "function" \/ m.fuel = 0 THEN Given(Undefined, Stuck(m))
  ELSE CReturned(Run(m.fns[fn[2].unit].body, Len(m.frames) + 1, Stored(Entered(m, m.fns[fn[2].unit], fn[2].up), m.fns[fn[2].unit], vs)))

CFinish(e, f, vs, m) ==
  IF ~m.ok THEN Given(Undefined, m)
  ELSE CASE e.k = "literal"  -> Given(e.v, m)
         [] e.k = "read"     -> Checked(Load(m, SlotAt(m, f, e.v)), m)
         [] e.k = "into"     -> Given(vs[1], Store(m, SlotAt(m, f, e.v), vs[1]))
         [] e.k = ","        -> Given(vs[Len(vs)], m)
         [] e.k = "test"     -> Given(Boolean(TakesRight(e.v[2], vs[1])), m)
         [] e.k = "print"    -> Given(Undefined, [m EXCEPT !.out = Append(@, <<vs, e.ps>>)])
         [] e.k = "throw"    -> Given(Undefined, [m EXCEPT !.threw = TRUE])
         [] e.k = "call"     -> jsrt_call(vs[1], Tail(vs), m)
         [] e.k = "closure"  ->
              Given(<<"function", [unit |-> e.slot, up |-> IF e.capture.needsEnv THEN currentEnv(m.frames[f]) ELSE 0]>>, m)
         [] OTHER            -> Checked(Operate(e.k, vs), m)

Picked(e, f, r)  == IF ~r.m.ok THEN r ELSE CEval(IF Truthy(r.v) THEN e.as[2] ELSE e.as[3], f, r.m)
Applied(e, f, r) == CFinish(e, f, r.vs, r.m)
CEval(e, f, m) ==
  IF ~m.ok THEN Given(Undefined, m)
  ELSE IF e.k = "?:" THEN Picked(e, f, CEval(e.as[1], f, m))
  ELSE Applied(e, f, Operands(e.as, f, m, InOrder(e, m)))

\* Statements run to a jump, or to their end.
Arm(s, f, r)  == IF ~r.m.ok THEN Done("normal", Undefined, r.m) ELSE Run(IF Truthy(r.v) THEN s.ss[1] ELSE s.ss[2], f, r.m)
Left(k, r)  == Done(k, r.v, r.m)
Rest(s, f, r) ==
  CASE r.c \in {"return", "unwind"} -> r
    [] r.c = "break-statement"      -> Done("normal", Undefined, r.m)
    [] OTHER ->
         IF r.m.fuel = 0 THEN Done("normal", Undefined, Stuck(r.m))
         ELSE Turn(s, f, [r.m EXCEPT !.fuel = @ - 1])
Tested(s, f, r) == IF r.c \in {"normal", "continue-statement"} THEN Rest(s, f, Run(s.ss[2], f, r.m)) ELSE Rest(s, f, r)
Turn(s, f, m)   == IF ~m.ok THEN Done("normal", Undefined, m) ELSE Tested(s, f, Run(s.ss[1], f, m))

RunOne(s, f, m) ==
  CASE s.k = "line"   -> Left("normal", CEval(s.as[1], f, m))
    [] s.k = "when"   -> Arm(s, f, CEval(s.as[1], f, m))
    [] s.k = "repeat" -> Turn(s, f, m)
    [] s.k = "return" -> Left("return", CEval(s.as[1], f, m))
    [] s.k = "check"  -> Done(IF m.threw THEN "unwind" ELSE "normal", Undefined, m)
    [] OTHER          -> Done(s.k, Undefined, m)
RunRest(ss, f, r) == IF r.c = "normal" THEN Run(Tail(ss), f, r.m) ELSE r
Run(ss, f, m)     == IF ss = <<>> \/ ~m.ok THEN Done("normal", Undefined, m) ELSE RunRest(ss, f, RunOne(ss[1], f, m))

CBehaviour(m) == [ok |-> m.ok, threw |-> m.threw, out |-> m.out]
RunC(code, backwards) == CBehaviour(Run(code.main, 1, CMachine(code, backwards)).m)
=============================================================================
