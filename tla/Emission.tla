------------------------------ MODULE Emission ------------------------------
(* How the HIR becomes C (codegen/index.ts).  A first walk gives each name, *)
(* and each value that must outlive the operands after it, a slot of its    *)
(* unit's frame.  The second appends C statements, and leaves of each       *)
(* expression a C expression for its consumer to use.                       *)
EXTENDS Hir

(* C: trees of the same nodes.  A place is a slot of the frame, a global, a *)
(* slot of the function's environment or of one some levels out.            *)
CExpression(k, es)   == Expression(k, "c", es)
Read(place)          == [CExpression("read", <<>>) EXCEPT !.v = place]
Into(place, e)       == [CExpression("into", <<e>>) EXCEPT !.v = place]
Slot(i)              == <<"slot", i>>
TestOf(op, e)          == [CExpression("test", <<e>>) EXCEPT !.v = <<"op", op>>]
CPrint(e, vs)        == [CExpression("print", vs) EXCEPT !.ps = [i \in DOMAIN e.as |-> e.as[i].t]]
Line(e)              == Statement("line", <<e>>, <<>>)
When(e, then, other) == Statement("when", <<e>>, <<then, other>>)
Repeat(body, tail)   == Statement("repeat", <<>>, <<body, tail>>)
Goto(label)          == Statement(label, <<>>, <<>>)
\* A check that is left out after a call.
NoPendingCheck       == Goto("normal")
emitPendingCheck     == Goto("check")

(* Slots.  The counter c has the next slot, the names' slots, the slots of  *)
(* the nodes that have an id, and the functions met.                        *)
Counter == [next |-> 0, names |-> [n \in {} |-> 0], of |-> [i \in {} |-> 0], fns |-> <<>>]

\* A count of one slot for a binary operator, and none for what is printed.
ClaimsFew(e) ==
  CASE e.k \in BinaryOp \cup LogicalOp \cup Updates \cup {"?:"} -> 1
    [] e.k = "call" -> Len(e.as)
    [] OTHER        -> 0
Claims(e) ==
  CASE e.k \in BinaryOp                             -> 2
    [] e.k \in LogicalOp \cup Updates \cup {"?:"}   -> 1
    [] e.k = "call"                                 -> Len(e.as)
    [] e.k = "console-log" /\ Len(e.as) >= 2        -> Len(e.as)
    [] OTHER                                        -> 0

\* Counting one object again moves its slots.
Claim(c, node, i) == IF node.id = 0 THEN c ELSE [c EXCEPT !.of = (node.id :> i) @@ @]
slotOf(node, of)  == IF node.id = 0 THEN node.slot ELSE of[node.id]

bindSlot(c, n, env) ==
  IF n \in Range(env) \cup DOMAIN c.names THEN c
  ELSE [c EXCEPT !.names = (n :> c.next) @@ @, !.next = @ + 1]
registerFunction(c, fn) ==
  IF fn.id \in DOMAIN c.of THEN c ELSE [Claim(c, fn, Len(c.fns) + 1) EXCEPT !.fns = Append(@, fn)]

RECURSIVE Counted(_, _, _)
CountedMore(r, s) == [nodes |-> Append(r.nodes, s.node), c |-> s.c]
countEach(nodes, c, env) ==
  FoldLeft(LAMBDA r, node : CountedMore(r, Counted(node, r.c, env)), [nodes |-> <<>>, c |-> c], nodes)
CountedList(r, s) == [lists |-> Append(r.lists, s.nodes), c |-> s.c]
countLists(lists, c, env) ==
  FoldLeft(LAMBDA r, ss : CountedList(r, countEach(ss, r.c, env)), [lists |-> <<>>, c |-> c], lists)

WithCounted(node, as, r) == [node |-> [node EXCEPT !.as = as, !.ss = r.lists], c |-> r.c]
countParts(node, r, env) == WithCounted(node, r.nodes, countLists(node.ss, r.c, env))
countExpression(node, c, env) ==
  countParts([node EXCEPT !.slot = c.next], countEach(node.as, [Claim(c, node, c.next) EXCEPT !.next = @ + Claims(node)], env), env)
Counted(node, c, env) ==
  CASE node.k = "function"             -> [node |-> [node EXCEPT !.slot = Len(c.fns) + 1], c |-> registerFunction(c, node)]
    [] node.k = "function-declaration" ->
         [node |-> [node EXCEPT !.slot = Len(c.fns) + 1], c |-> registerFunction(bindSlot(c, node.n, env), node)]
    [] node.k = "declaration"          -> countExpression(node, bindSlot(c, node.n, env), env)
    [] OTHER                           -> countExpression(node, c, env)

(* Expressions.  u is the unit being emitted: what slots its names, the     *)
(* globals and the nodes have, and where its result waits.                  *)
refOf(u, n) ==
  IF \E i \in DOMAIN u.capture.envVars : u.capture.envVars[i] = n
  THEN <<"own", CHOOSE i \in DOMAIN u.capture.envVars : u.capture.envVars[i] = n>>
  ELSE IF n \in DOMAIN u.capture.captures
  THEN <<"outer", u.capture.captures[n].levels, u.capture.captures[n].index>>
  ELSE IF n \in DOMAIN u.names THEN Slot(u.names[n])
  ELSE IF n \in DOMAIN u.globals THEN <<"global", u.globals[n]>>
  ELSE Nowhere

Emitted(lines, value) == [lines |-> lines, value |-> value]

\* Operands on their way to their slots: what has been emitted, and the parts
\* of one comma expression not yet emitted.
NoParts           == [lines |-> <<>>, parts |-> <<>>]
flushParts(parts) == IF parts = <<>> THEN <<>> ELSE <<Line(CExpression(",", parts))>>
Flushed(c)        == c.lines \o flushParts(c.parts)
\* An operand's statements that do not wait for the operands before it.
joinPart(c, r, place) ==
  [lines |-> c.lines \o r.lines, parts |-> Append(c.parts, Into(place, r.value))]
sequencePart(c, r, place) ==
  IF r.lines = <<>> THEN [c EXCEPT !.parts = Append(@, Into(place, r.value))]
  ELSE [lines |-> Flushed(c) \o r.lines \o <<Line(Into(place, r.value))>>, parts |-> <<>>]
sequenceArgs(rs, base) ==
  FoldLeft(LAMBDA c, i : sequencePart(c, rs[i], Slot(base + i - 1)), NoParts, [i \in DOMAIN rs |-> i])
SlotsFrom(base, n) == [i \in 1 .. n |-> Read(Slot(base + i - 1))]

\* An operator over its operands' own C expressions, whose order C leaves open.
emitNested(e, base, rs) ==
  Emitted(rs[1].lines \o rs[2].lines, CExpression(e.k, <<rs[1].value, rs[2].value>>))
BinaryResult(c, result) ==
  IF c.lines = <<>> THEN Emitted(<<>>, CExpression(",", Append(c.parts, result))) ELSE Emitted(Flushed(c), result)
emitBinaryOp(e, base, rs) == BinaryResult(sequenceArgs(rs, base), CExpression(e.k, SlotsFrom(base, 2)))

\* A call is a statement: the check after it stands before what uses it.
finishStatement(c, base, call) ==
  Emitted(Flushed([c EXCEPT !.parts = Append(@, Into(Slot(base), call))]) \o <<emitPendingCheck>>, Read(Slot(base)))
emitCall(base, rs) == finishStatement(sequenceArgs(rs, base), base, CExpression("call", SlotsFrom(base, Len(rs))))

\* A right operand whose statements run whatever the left one is.
emitLogicalEager(e, temp, rs) ==
  Emitted(rs[1].lines \o <<Line(Into(temp, rs[1].value))>> \o rs[2].lines,
          CExpression("?:", <<TestOf(e.k, Read(temp)), rs[2].value, Read(temp)>>))
emitLogicalOp(e, temp, rs) ==
  IF rs[2].lines = <<>>
  THEN Emitted(rs[1].lines, CExpression(",", <<Into(temp, rs[1].value),
                                               CExpression("?:", <<TestOf(e.k, Read(temp)), rs[2].value, Read(temp)>>)>>))
  ELSE Emitted(rs[1].lines \o <<Line(Into(temp, rs[1].value)),
                                When(TestOf(e.k, Read(temp)), rs[2].lines \o <<Line(Into(temp, rs[2].value))>>, <<>>)>>,
               Read(temp))
emitConditional(temp, rs) ==
  LET Arm(r) == r.lines \o <<Line(Into(temp, r.value))>>
  IN  Emitted(rs[1].lines \o <<When(rs[1].value, Arm(rs[2]), Arm(rs[3]))>>, Read(temp))

AddC(a, b) == CExpression("+", <<a, b>>)
\* A postfix that answers with what it has written.
emitIncrement(e, result, place) ==
  <<Line(Into(result, AddC(Read(place), Literal(Number(1))))), Line(Into(place, Read(result)))>>
emitIncDec(e, result, place) ==
  IF e.k = "x++" THEN <<Line(Into(result, Read(place))), Line(Into(place, AddC(Read(result), Literal(Number(1)))))>>
  ELSE <<Line(Into(result, Read(place))), Line(Into(result, AddC(Read(result), Literal(Number(1))))), Line(Into(place, Read(result)))>>
UpdateLines(e, result, place, rs) ==
  LET Write(value) == rs[2].lines \o <<Line(Into(result, value)), Line(Into(place, Read(result)))>>
  IN  CASE e.k \in IncDec -> emitIncDec(e, result, place)
        [] e.k = "="      -> Write(rs[2].value)
        [] e.k = "+="     -> <<Line(Into(result, Read(place)))>> \o Write(AddC(Read(result), rs[2].value))
        [] e.k \in DOMAIN LogicalOf ->
             <<Line(Into(result, Read(place))), When(TestOf(LogicalOf[e.k], Read(result)), Write(rs[2].value), <<>>)>>
emitUpdate(e, result, place, rs) == Emitted(UpdateLines(e, result, place, rs), Read(result))

\* Two values or more are printed from slots, by a call that may throw.
consoleCall(e, base, rs) ==
  IF Len(rs) < 2 THEN Emitted(rs[1].lines, CPrint(e, <<rs[1].value>>))
  ELSE Emitted(Flushed(sequenceArgs(rs, base)), CPrint(e, SlotsFrom(base, Len(rs))))
ConsoleLines(e, r) == r.lines \o <<Line(r.value)>> \o (IF Len(e.as) < 2 THEN <<>> ELSE <<emitPendingCheck>>)
consoleValue(e, r) ==
  IF Len(e.as) < 2 THEN Emitted(r.lines, CExpression(",", <<r.value, Literal(Undefined)>>))
  ELSE Emitted(ConsoleLines(e, r), Literal(Undefined))

emitClosure(fn, id) == [CExpression("closure", <<>>) EXCEPT !.slot = id, !.capture = fn.capture]

RECURSIVE emitExpression(_, _)
emitEach(es, u) == <<>> \o [i \in DOMAIN es |-> emitExpression(es[i], u)]
emitParts(e, u, base, rs) ==
  CASE e.k = "literal"            -> Emitted(<<>>, Literal(e.v))
    [] e.k = "identifier"         -> Emitted(<<>>, Read(refOf(u, e.n)))
    [] e.k = "function"           -> Emitted(<<>>, emitClosure(e, base))
    [] e.k = "call"               -> emitCall(base, rs)
    [] e.k \in BinaryOp           -> emitBinaryOp(e, base, rs)
    [] e.k \in {"!", "unary +"}   -> Emitted(rs[1].lines, CExpression(e.k, <<rs[1].value>>))
    [] e.k \in LogicalOp          -> emitLogicalOp(e, Slot(base), rs)
    [] e.k = "?:"                 -> emitConditional(Slot(base), rs)
    [] e.k \in Updates            -> emitUpdate(e, Slot(base), refOf(u, e.as[1].n), rs)
    [] e.k = "console-log"        -> consoleValue(e, consoleCall(e, base, rs))
emitExpression(e, u) == emitParts(e, u, slotOf(e, u.of), emitEach(e.as, u))

(* Statements *)
RECURSIVE emitStatement(_, _)
hoistedClosures(ss, u) ==
  LET fns == SelectSeq(ss, LAMBDA s : s.k = "function-declaration")
  IN  [i \in DOMAIN fns |-> Line(Into(refOf(u, fns[i].n), emitClosure(fns[i], slotOf(fns[i], u.of))))]
emitScope(ss, u) == hoistedClosures(ss, u) \o FlattenSeq([i \in DOMAIN ss |-> emitStatement(ss[i], u)])

\* A loop tests what its condition's statements have computed this time.
LeaveUnless(r) == r.lines \o <<When(r.value, <<>>, <<Goto("break-statement")>>)>>
\* A condition whose statements run once, before the loop.
emitWhileOnce(r, body) == r.lines \o <<Repeat(<<When(r.value, <<>>, <<Goto("break-statement")>>)>> \o body, <<>>)>>
emitWhile(r, body)     == <<Repeat(LeaveUnless(r) \o body, <<>>)>>
emitDoWhile(r, body)   == <<Repeat(body, LeaveUnless(r))>>

emitValue(s, u, r) ==
  CASE s.k \in {"declaration", "assignment"} -> r.lines \o <<Line(Into(refOf(u, s.n), r.value))>>
    [] s.k = "expression-statement"          -> r.lines \o (IF r.value.k = "read" THEN <<>> ELSE <<Line(r.value)>>)
    [] s.k = "if-statement"                  ->
         r.lines \o <<When(r.value, emitScope(s.ss[1], u), IF Len(s.ss) = 2 THEN emitScope(s.ss[2], u) ELSE <<>>)>>
    [] s.k = "while-statement"               -> emitWhile(r, emitScope(s.ss[1], u))
    [] s.k = "do-while-statement"            -> emitDoWhile(r, emitScope(s.ss[1], u))
    [] s.k = "return-statement"              -> r.lines \o <<Statement("return", <<Into(u.result, r.value)>>, <<>>)>>
    [] s.k = "throw-statement"               -> r.lines \o <<Line(CExpression("throw", <<r.value>>)), Goto("unwind")>>
emitConsole(e, u) == ConsoleLines(e, consoleCall(e, slotOf(e, u.of), emitEach(e.as, u)))
emitStatement(s, u) ==
  CASE s.k = "function-declaration"                      -> <<>>
    [] s.k = "block"                                     -> emitScope(s.ss[1], u)
    [] s.k \in {"break-statement", "continue-statement"} -> <<Goto(s.k)>>
    [] s.k = "expression-statement" /\ s.as[1].k = "console-log" -> emitConsole(s.as[1], u)
    [] OTHER                                             -> emitValue(s, u, emitExpression(s.as[1], u))

(* Units.  The module is counted first and emitted last; in between, each   *)
(* function, in the order met, is counted and emitted.                      *)
EmittedUnit(fn, globals, r) ==
  LET u == [capture |-> fn.capture, names |-> r.c.names, globals |-> globals, of |-> r.c.of, result |-> Slot(r.c.next)]
  IN  [size   |-> r.c.next + (IF \E s \in Range(Unit(fn.ss[1])) : s.k = "return-statement" THEN 1 ELSE 0),
       params |-> [i \in DOMAIN fn.ps |-> refOf(u, fn.ps[i].n)],
       envs   |-> Len(fn.capture.envVars),
       body   |-> emitScope(r.nodes, u)]
countUnit(fn, c) ==
  countEach(fn.ss[1],
            FoldLeft(LAMBDA d, p : bindSlot(d, p.n, fn.capture.envVars), [c EXCEPT !.next = 0, !.names = Counter.names], fn.ps),
            fn.capture.envVars)

RECURSIVE emitFunctionUnits(_, _, _)
emitFunctionUnit(fn, globals, units, r) == emitFunctionUnits(r.c, globals, Append(units, EmittedUnit(fn, globals, r)))
emitFunctionUnits(c, globals, units) ==
  IF Len(units) = Len(c.fns) THEN [units |-> units, c |-> c]
  ELSE emitFunctionUnit(c.fns[Len(units) + 1], globals, units, countUnit(c.fns[Len(units) + 1], c))

Main(r, done) ==
  LET u == [capture |-> NoCapture, names |-> r.c.names, globals |-> r.c.names, of |-> done.c.of, result |-> Nowhere]
  IN  [size |-> r.c.next, fns |-> done.units, main |-> emitScope(r.nodes, u)]
Emit(r)  == Main(r, emitFunctionUnits(r.c, r.c.names, <<>>))
emit(ss) == Emit(countEach(ss, Counter, <<>>))
=============================================================================
