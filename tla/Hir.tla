-------------------------------- MODULE Hir --------------------------------
(* The tree a program is while it is compiled, and what running it prints.  *)
(* A node has a kind k, the name n it declares or reads, the type t of its  *)
(* value, parameters ps, expressions as and statement lists ss; a function  *)
(* says which of its names live in an environment.  A name is a source      *)
(* spelling and the number of the shadow made of it, 0 for none.  A node    *)
(* that the lowering made and no pass has rebuilt has an id: two of one id  *)
(* are one object.                                                          *)
EXTENDS Naturals, Sequences, SequencesExt

Number(n)  == <<"number", n>>
Boolean(b) == <<"boolean", b>>
Undefined  == <<"undefined", 0>>
Unset      == <<"unset", 0>>
Name(x)    == <<x, 0>>

\* envVars are the names of a function that nested ones read; captures says of
\* each outer name it reads how many environments out it is, and which slot.
NoCapture == [envVars |-> <<>>, captures |-> [n \in {} |-> n], needsEnv |-> FALSE]

Node(k, n, t, ps, as, ss) ==
  [k |-> k, n |-> n, v |-> Unset, t |-> t, ps |-> ps, as |-> as, ss |-> ss, capture |-> NoCapture, id |-> 0, slot |-> 0]
Expression(k, t, as) == Node(k, Name(""), t, <<>>, as, <<>>)
Statement(k, as, ss) == Node(k, Name(""), "undefined", <<>>, as, ss)

Literal(v)           == [Expression("literal", v[1], <<>>) EXCEPT !.v = v]
Identifier(n, t)     == [Expression("identifier", t, <<>>) EXCEPT !.n = n]
FunctionExpr(ps, ss) == Node("function", Name(""), "fn", ps, <<>>, <<ss>>)
CallExpr(f, as, t)   == Expression("call", t, <<Identifier(f, "fn")>> \o as)
ConsoleLog(es)       == Statement("expression-statement", <<Expression("console-log", "undefined", es)>>, <<>>)
Declaration(n, e)    == [Statement("declaration", <<e>>, <<>>) EXCEPT !.n = n, !.t = e.t]
Assignment(n, e)     == [Statement("assignment", <<e>>, <<>>) EXCEPT !.n = n, !.t = e.t]
FunctionDeclaration(n, ps, ss) == [Statement("function-declaration", <<>>, <<ss>>) EXCEPT !.n = n, !.ps = ps]
Parameter(n, t)      == [n |-> n, t |-> t]
Return(e)            == Statement("return-statement", <<e>>, <<>>)

\* Assignments that are expressions: the place, and for most a value.
LogicalOp  == {"&&", "||", "??"}
IncDec     == {"x++", "++x"}
LogicalOf  == [k \in {"&&=", "||=", "??="} |-> CASE k = "&&=" -> "&&" [] k = "||=" -> "||" [] k = "??=" -> "??"]
Updates    == {"=", "+="} \cup IncDec \cup DOMAIN LogicalOf
Functions  == {"function", "function-declaration"}

\* Every node at and below these, each as often as it stands in the tree, and
\* those of one function: what is inside a nested one is left out.
RECURSIVE Below(_), Unit(_)
Below(nodes) ==
  IF nodes = <<>> THEN <<>>
  ELSE <<nodes[1]>> \o Below(nodes[1].as) \o Below(FlattenSeq(nodes[1].ss)) \o Below(Tail(nodes))
Unit(nodes) ==
  IF nodes = <<>> THEN <<>>
  ELSE <<nodes[1]>> \o Unit(nodes[1].as) \o Unit(Tail(nodes)) \o
       (IF nodes[1].k \in Functions THEN <<>> ELSE Unit(FlattenSeq(nodes[1].ss)))

Declares(node)  == node.k \in {"declaration", "function-declaration"}
DeclaredIn(ss)  == {ss[i].n : i \in {j \in DOMAIN ss : Declares(ss[j])}}
NamesOf(ps)     == {ps[i].n : i \in DOMAIN ps}
\* The names of a function, or of all the files' top level.
UnitNames(ss)   == DeclaredIn(Unit(ss))

(* Running a tree.  The machine m has frames, environments (heap), what was *)
(* printed, and the steps left.  In a source program (m.lexical) every      *)
(* block is a frame inside another.  In the HIR a function call has one     *)
(* frame, with a slot for each of its names but those nested functions      *)
(* read, which are slots of its environment.                                *)
Fuel == 30   \* the calls and iterations a run may make
Machine(lexical, frames) ==
  [lexical |-> lexical, frames |-> frames, heap |-> <<>>, out |-> <<>>, fuel |-> Fuel, ok |-> TRUE, threw |-> FALSE]
Stuck(m) == [m EXCEPT !.ok = FALSE]
\* Nothing catches here: a throw ends the program.
Thrown(m) == [m EXCEPT !.ok = FALSE, !.threw = TRUE]
Given(v, m) == [v |-> v, m |-> m]

Unassigned(names) == [n \in names |-> Unset]
Block(names, up)  == [vars |-> Unassigned(names), up |-> up]
\* A frame has its own environment (0 for none), and the one it was called with.
Frame(vars, own, env, capture) == [vars |-> vars, own |-> own, env |-> env, capture |-> capture]

Nowhere == <<"nowhere">>

\* Where a name of a source program is, read in block f; a name of a file's
\* block may stand for another file's.
RECURSIVE Home(_, _, _)
Home(frames, f, n) ==
  IF f = 0 THEN Nowhere
  ELSE IF n \notin DOMAIN frames[f].vars THEN Home(frames, frames[f].up, n)
  ELSE IF frames[f].vars[n][1] = "import" THEN frames[f].vars[n][2] ELSE <<"frame", f, n>>

\* The environment some levels out, 0 past the outermost.
RECURSIVE EnvAt(_, _, _)
EnvAt(heap, env, levels) == IF env = 0 \/ levels = 0 THEN env ELSE EnvAt(heap, heap[env].parent, levels - 1)

\* Where the emitted C has a name: the function's own environment, an enclosing
\* one, its frame, or the globals.
slotRef(m, f, n) ==
  LET here == m.frames[f]
      At(env, i) == IF env = 0 THEN Nowhere ELSE <<"env", env, i>>
  IN  IF \E i \in DOMAIN here.capture.envVars : here.capture.envVars[i] = n
      THEN At(here.own, CHOOSE i \in DOMAIN here.capture.envVars : here.capture.envVars[i] = n)
      ELSE IF n \in DOMAIN here.capture.captures
      THEN At(EnvAt(m.heap, here.env, here.capture.captures[n].levels), here.capture.captures[n].index)
      ELSE IF n \in DOMAIN here.vars THEN <<"frame", f, n>>
      ELSE IF n \in DOMAIN m.frames[1].vars THEN <<"frame", 1, n>>
      ELSE Nowhere

Place(m, f, n) == IF m.lexical THEN Home(m.frames, f, n) ELSE slotRef(m, f, n)
Load(m, at) ==
  CASE at[1] = "frame" -> m.frames[at[2]].vars[at[3]]
    [] at[1] = "env"   -> m.heap[at[2]].slots[at[3]]
    [] OTHER           -> Unset
Store(m, at, v) ==
  CASE at[1] = "frame" -> [m EXCEPT !.frames[at[2]].vars[at[3]] = v]
    [] at[1] = "env"   -> [m EXCEPT !.heap[at[2]].slots[at[3]] = v]
    [] OTHER           -> Stuck(m)

\* An assignment is one of a name that has a value.
Assign(m, at, v) == IF Load(m, at)[1] = "unset" THEN Stuck(m) ELSE Store(m, at, v)

\* The value of a function where it stands: the block it is in, or the
\* environment its calls get.
currentEnv(frame) == IF frame.own # 0 THEN frame.own ELSE frame.env
closureValue(fn, f, m) ==
  <<"function", [ps |-> fn.ps, body |-> fn.ss[1], capture |-> fn.capture,
                 up |-> IF m.lexical THEN f ELSE IF fn.capture.needsEnv THEN currentEnv(m.frames[f]) ELSE 0]>>
emitHoistedFunctions(m, f, ss) ==
  FoldLeft(LAMBDA c, s : IF s.k = "function-declaration" THEN Store(c, Place(c, f, s.n), closureValue(s, f, c)) ELSE c, m, ss)

Truthy(v) == CASE v[1] = "number" -> v[2] # 0 [] v[1] = "boolean" -> v[2] [] OTHER -> v[1] = "function"

\* Whether a logical operator goes on to its right operand.
TakesRight(op, v) ==
  CASE op = "&&" -> Truthy(v) [] op = "||" -> ~Truthy(v) [] op = "??" -> v[1] = "undefined"

\* An operator over its operands' values; none is defined here on what would
\* need a conversion.
Operate(k, vs) ==
  CASE k = ","                                                -> vs[2]
    [] k = "!"                                                -> Boolean(~Truthy(vs[1]))
    [] k = "unary +" /\ vs[1][1] = "number"                   -> vs[1]
    [] k = "+" /\ vs[1][1] = "number" /\ vs[2][1] = "number"  -> Number(vs[1][2] + vs[2][2])
    [] k = "<" /\ vs[1][1] = "number" /\ vs[2][1] = "number"  -> Boolean(vs[1][2] < vs[2][2])
    [] OTHER                                                  -> Unset
BinaryOp  == {",", "+", "<"}
Operators == BinaryOp \cup {"!", "unary +"}

\* Control leaves a statement normally, or by a jump that carries a value.
Done(c, v, m) == [c |-> c, v |-> v, m |-> m]

RECURSIVE Eval(_, _, _), EvalAll(_, _, _, _), Exec(_, _, _), Loop(_, _, _)

EvalNext(es, f, vs, r) == EvalAll(Tail(es), f, Append(vs, r.v), r.m)
EvalAll(es, f, vs, m) ==
  IF es = <<>> \/ ~m.ok THEN [vs |-> vs, m |-> m] ELSE EvalNext(es, f, vs, Eval(es[1], f, m))

\* A value nobody has set, or an operation with none, stops the run.
Checked(v, m) == IF v[1] = "unset" THEN Given(Undefined, Stuck(m)) ELSE Given(v, m)

\* A block is entered: its functions are set, and its statements run.
EnterBlock(ss, f, m) ==
  IF m.lexical
  THEN Exec(ss, Len(m.frames) + 1,
            emitHoistedFunctions([m EXCEPT !.frames = Append(@, Block(DeclaredIn(ss), f))], Len(m.frames) + 1, ss))
  ELSE Exec(ss, f, emitHoistedFunctions(m, f, ss))

\* A function is called: its parameters have the arguments, in a frame whose
\* environment, if it has one, is inside the closure's.
Argument(vs, i) == IF i \in DOMAIN vs THEN vs[i] ELSE Undefined
Called(fn, vs, m) ==
  IF m.lexical THEN [m EXCEPT !.frames = Append(@, Block(NamesOf(fn.ps), fn.up))]
  ELSE LET vars == fn.capture.envVars
           names == (NamesOf(fn.ps) \cup UnitNames(fn.body)) \ Range(vars)
       IN  [m EXCEPT !.heap = IF vars = <<>> THEN @ ELSE Append(@, [slots |-> <<>> \o [i \in DOMAIN vars |-> Unset], parent |-> fn.up]),
                     !.frames = Append(@, Frame(Unassigned(names), IF vars = <<>> THEN 0 ELSE Len(m.heap) + 1, fn.up, fn.capture))]
WithArguments(fn, vs, m) ==
  FoldLeft(LAMBDA c, i : Store(c, Place(c, Len(c.frames), fn.ps[i].n), Argument(vs, i)), m, [i \in DOMAIN fn.ps |-> i])

Returned(r) == Given(IF r.c = "return" THEN r.v ELSE Undefined, r.m)
Invoke(fn, vs, m) ==
  IF fn[1] # "function" \/ m.fuel = 0 THEN Given(Undefined, Stuck(m))
  ELSE Returned(EnterBlock(fn[2].body, Len(m.frames) + 1,
                           WithArguments(fn[2], vs, Called(fn[2], vs, [m EXCEPT !.fuel = @ - 1]))))

\* What is printed: each value, and the static type it has.
Printed(e, vs) == <<vs, [i \in DOMAIN e.as |-> e.as[i].t]>>

\* The operands have been evaluated.
Finish(e, f, r) ==
  IF ~r.m.ok THEN Given(Undefined, r.m)
  ELSE CASE e.k = "literal"     -> Given(e.v, r.m)
         [] e.k = "identifier"  -> Checked(Load(r.m, Place(r.m, f, e.n)), r.m)
         [] e.k = "function"    -> Given(closureValue(e, f, r.m), r.m)
         [] e.k = "call"        -> Invoke(r.vs[1], Tail(r.vs), r.m)
         [] e.k = "console-log" -> Given(Undefined, [r.m EXCEPT !.out = Append(@, Printed(e, r.vs))])
         [] e.k \in Operators   -> Checked(Operate(e.k, r.vs), r.m)

EvalRight(op, e, f, r) == IF ~r.m.ok \/ ~TakesRight(op, r.v) THEN r ELSE Eval(e.as[2], f, r.m)
EvalBranch(e, f, r)    == IF ~r.m.ok THEN r ELSE Eval(IF Truthy(r.v) THEN e.as[2] ELSE e.as[3], f, r.m)

\* An update writes its place and answers, of the two values, the new one,
\* unless it is a postfix.
Written(e, f, old, r) ==
  IF ~r.m.ok THEN r
  ELSE IF r.v[1] = "unset" THEN Given(Undefined, Stuck(r.m))
  ELSE Given(IF e.k = "x++" THEN old ELSE r.v, Assign(r.m, Place(r.m, f, e.as[1].n), r.v))
Added(old, r) == Given(IF r.m.ok THEN Operate("+", <<old, r.v>>) ELSE Undefined, r.m)
EvalUpdate(e, f, old) ==
  IF ~old.m.ok THEN old
  ELSE CASE e.k \in IncDec           -> Written(e, f, old.v, Added(old.v, Given(Number(1), old.m)))
         [] e.k = "="                -> Written(e, f, old.v, Eval(e.as[2], f, old.m))
         [] e.k = "+="               -> Written(e, f, old.v, Added(old.v, Eval(e.as[2], f, old.m)))
         [] e.k \in DOMAIN LogicalOf ->
              IF TakesRight(LogicalOf[e.k], old.v) THEN Written(e, f, old.v, Eval(e.as[2], f, old.m)) ELSE old

Eval(e, f, m) ==
  CASE e.k \in LogicalOp -> EvalRight(e.k, e, f, Eval(e.as[1], f, m))
    [] e.k = "?:"        -> EvalBranch(e, f, Eval(e.as[1], f, m))
    [] e.k \in Updates   -> EvalUpdate(e, f, Eval(e.as[1], f, m))
    [] OTHER             -> Finish(e, f, EvalAll(e.as, f, <<>>, m))

Branch(s, f, r) ==
  IF ~r.m.ok THEN Done("normal", Undefined, r.m)
  ELSE IF Truthy(r.v) THEN EnterBlock(s.ss[1], f, r.m)
  ELSE IF Len(s.ss) = 2 THEN EnterBlock(s.ss[2], f, r.m)
  ELSE Done("normal", Undefined, r.m)

Again(s, f, r) ==
  IF ~r.m.ok THEN Done("normal", Undefined, r.m)
  ELSE IF r.c = "return" THEN r
  ELSE IF r.c = "break" THEN Done("normal", Undefined, r.m)
  ELSE IF r.m.fuel = 0 THEN Done("normal", Undefined, Stuck(r.m))
  ELSE Loop(s, f, [r.m EXCEPT !.fuel = @ - 1])
Test(s, f, r) ==
  IF ~r.m.ok \/ ~Truthy(r.v) THEN Done("normal", Undefined, r.m) ELSE Again(s, f, EnterBlock(s.ss[1], f, r.m))
Loop(s, f, m) == Test(s, f, Eval(s.as[1], f, m))

Value(r, f, s) ==
  IF ~r.m.ok THEN Done("normal", Undefined, r.m)
  ELSE CASE s.k = "declaration"      -> Done("normal", Undefined, Store(r.m, Place(r.m, f, s.n), r.v))
         [] s.k = "assignment"       -> Done("normal", Undefined, Assign(r.m, Place(r.m, f, s.n), r.v))
         [] s.k = "return-statement" -> Done("return", r.v, r.m)
         [] s.k = "throw-statement"  -> Done("normal", Undefined, Thrown(r.m))
         [] OTHER                    -> Done("normal", Undefined, r.m)

ExecOne(s, f, m) ==
  CASE s.k \in {"declaration", "assignment", "expression-statement", "return-statement", "throw-statement"} -> Value(Eval(s.as[1], f, m), f, s)
    [] s.k = "if-statement"       -> Branch(s, f, Eval(s.as[1], f, m))
    [] s.k = "while-statement"    -> Loop(s, f, m)
    [] s.k = "do-while-statement" -> Again(s, f, EnterBlock(s.ss[1], f, m))
    [] s.k = "break-statement"    -> Done("break", Undefined, m)
    [] s.k = "continue-statement" -> Done("continue", Undefined, m)
    [] s.k = "block"              -> EnterBlock(s.ss[1], f, m)
    [] OTHER                      -> Done("normal", Undefined, m)

ExecRest(ss, f, r) == IF r.c = "normal" THEN Exec(Tail(ss), f, r.m) ELSE r
Exec(ss, f, m) ==
  IF ss = <<>> \/ ~m.ok THEN Done("normal", Undefined, m) ELSE ExecRest(ss, f, ExecOne(ss[1], f, m))

\* What a run shows, and whether it came to its end.
Behaviour(m) == [ok |-> m.ok \/ m.threw, threw |-> m.threw, out |-> m.out]

\* What the compiled program prints.
RunModule(ss) ==
  Behaviour(EnterBlock(ss, 1, Machine(FALSE, <<Frame(Unassigned(UnitNames(ss)), 0, 0, NoCapture)>>)).m)

\* What the source program prints: its files' functions are set first, then
\* each file runs, in order.  imports gives each file its names of others' names.
RunSource(order, body, imports) ==
  LET files == [i \in DOMAIN order |-> i]
      PlaceOf(file, n) == <<"frame", CHOOSE i \in DOMAIN order : order[i] = file, n>>
      Top(g) == [vars |-> [n \in DOMAIN imports[g] |-> <<"import", PlaceOf(imports[g][n][1], imports[g][n][2])>>]
                            @@ Unassigned(DeclaredIn(body[g])),
                 up |-> 0]
      instantiated == FoldLeft(LAMBDA m, i : emitHoistedFunctions(m, i, body[order[i]]),
                               Machine(TRUE, <<>> \o [i \in DOMAIN order |-> Top(order[i])]), files)
  IN  Behaviour(FoldLeft(LAMBDA m, i : Exec(body[order[i]], i, m).m, instantiated, files))
=============================================================================
