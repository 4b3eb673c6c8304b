----------------------------- MODULE HirVerify -----------------------------
(* The check the compiler makes of its own output before it emits C         *)
(* (hir/verify.ts).  A scope gives each readable name its type, and says of *)
(* the one being initialized that only a function inside may read it.       *)
EXTENDS Hir

Binding(t)    == [t |-> t, initializing |-> FALSE]
NoScope       == [n \in {} |-> n]
Inside        == [loop |-> FALSE, function |-> TRUE]
Outside       == [loop |-> FALSE, function |-> FALSE]
\* A verifier that carries the dead zone into the functions of an initializer.
deadZoneInside(scope) == scope
\* A function runs later: inside it every name is readable.
functionChild(scope) == [n \in DOMAIN scope |-> Binding(scope[n].t)]

hoistFunctions(ss, scope) ==
  FoldLeft(LAMBDA c, s : IF s.k = "function-declaration" THEN (s.n :> Binding("fn")) @@ c ELSE c, scope, ss)

RECURSIVE verifyExpression(_, _), verifyStatement(_, _, _), verifyStatements(_, _, _)

verifyBlock(ss, scope, in) == verifyStatements(ss, hoistFunctions(ss, scope), in)
verifyFunction(fn, scope) ==
  verifyBlock(fn.ss[1],
              FoldLeft(LAMBDA c, p : (p.n :> Binding(p.t)) @@ c, functionChild(scope), fn.ps), Inside)

\* A value of a type the HIR cannot describe is assignable both ways.
Assignable(from, to) == from = to \/ "unknown" \in {from, to}
Readable(n, scope) == n \in DOMAIN scope /\ ~scope[n].initializing
verifyExpression(e, scope) ==
  /\ \A i \in DOMAIN e.as : verifyExpression(e.as[i], scope)
  /\ CASE e.k = "literal"           -> e.t = e.v[1]
       [] e.k = "identifier"        -> Readable(e.n, scope) /\ scope[e.n].t = e.t
       [] e.k = "function"          -> verifyFunction(e, scope)
       [] e.k = "call"              -> e.as[1].t \in {"fn", "unknown"}
       [] e.k \in IncDec            -> e.t = "number"
       [] e.k = "unary +"           -> e.t = "number"
       [] e.k \in {"<", "!"}        -> e.t = "boolean"
       [] e.k = ","                 -> e.t = e.as[2].t
       [] e.k = "crash"             -> FALSE
       [] OTHER                     -> TRUE

verifyStatement(s, scope, in) ==
  /\ \A i \in DOMAIN s.as : verifyExpression(s.as[i], scope)
  /\ CASE s.k = "function-declaration"   -> verifyFunction(s, scope)
       [] s.k = "assignment"             -> Readable(s.n, scope) /\ Assignable(s.as[1].t, scope[s.n].t)
       [] s.k = "break-statement"        -> in.loop
       [] s.k = "continue-statement"     -> in.loop
       [] s.k = "return-statement"       -> in.function
       [] s.k \in {"while-statement", "do-while-statement"} ->
            verifyBlock(s.ss[1], scope, [in EXCEPT !.loop = TRUE])
       [] OTHER                          -> \A i \in DOMAIN s.ss : verifyBlock(s.ss[i], scope, in)

\* A declaration's name is being initialized while its value is checked.
During(s, scope) == IF s.k = "declaration" THEN (s.n :> [t |-> s.t, initializing |-> TRUE]) @@ scope ELSE scope
After(s, scope)  == IF s.k = "declaration" THEN (s.n :> Binding(s.t)) @@ scope ELSE scope
verifyStatements(ss, scope, in) ==
  ss = <<>> \/ (verifyStatement(ss[1], During(ss[1], scope), in) /\ verifyStatements(Tail(ss), After(ss[1], scope), in))

verifyHir(ss) == verifyBlock(ss, NoScope, Outside)
=============================================================================
