------------------------------- MODULE Passes -------------------------------
(* The rewriting of HIR between the lowering and the emitter: inlining,     *)
(* constant folding, and the removal of what cannot run (passes/).          *)
EXTENDS Hir, FiniteSets

IsLiteral(e)    == e.k = "literal"
IsIdentifier(e) == e.k = "identifier"
NamesRead(nodes) == {x.n : x \in {y \in Range(Below(nodes)) : IsIdentifier(y)}}

(* Inlining *)

\* Every binding of a name, one element for each.  The parameters of function
\* declarations are not visited.
bindingCounts(ss) ==
  FoldLeft(LAMBDA c, x :
             CASE x.k \in {"declaration", "function-declaration"} -> Append(c, x.n)
               [] x.k = "function" -> c \o [i \in DOMAIN x.ps |-> x.ps[i].n]
               [] OTHER -> c,
           <<>>, Below(ss))
BoundOnce(n, bound) == Cardinality({i \in DOMAIN bound : bound[i] = n}) = 1

rebindsNested(e, names) ==
  \E x \in Range(Below(<<e>>)) :
    (x.k = "function" /\ NamesOf(x.ps) \cap names # {}) \/ (x.k = "declaration" /\ x.n \in names)

\* A test that lets a result name what is in scope where the function stands.
AnyNames(e, names)      == ~rebindsNested(e, names)
\* A result may be substituted when it names nothing but the parameters.
Substitutable(e, names) == NamesRead(<<e>>) \subseteq names /\ ~rebindsNested(e, names)

candidateOf(s, bound) ==
  LET body == s.ss[1]
  IN  /\ s.k = "function-declaration" /\ BoundOnce(s.n, bound) /\ s.capture = NoCapture
      /\ Len(body) = 1 /\ body[1].k = "return-statement"
      /\ Substitutable(body[1].as[1], NamesOf(s.ps))
Candidates(ss, bound) ==
  LET found == {i \in DOMAIN ss : candidateOf(ss[i], bound)}
  IN  [n \in {ss[i].n : i \in found} |->
         LET s == ss[CHOOSE i \in found : ss[i].n = n] IN [ps |-> s.ps, result |-> s.ss[1][1].as[1]]]

isSubstitutable(e) == IsLiteral(e) \/ IsIdentifier(e)
\* Whether a call of a candidate agrees with it in arity and in every type.
Agrees(call, c) ==
  /\ Len(call.as) = Len(c.ps) + 1
  /\ \A i \in DOMAIN c.ps : isSubstitutable(call.as[i + 1]) /\ call.as[i + 1].t = c.ps[i].t
  /\ c.result.t = call.t
Substitution(call, c) ==
  [n \in NamesOf(c.ps) |->
     call.as[1 + CHOOSE i \in DOMAIN c.ps : c.ps[i].n = n /\ \A j \in i + 1 .. Len(c.ps) : c.ps[j].n # n]]

(* Constant folding *)

\* A literal is put in an expression's place only when it has its type, and
\* there is one.
Folded(e, v) == IF v[1] = e.t /\ e.t \in {"number", "boolean"} THEN Literal(v) ELSE e

\* A fold that takes the operands the other way round.
ChosenLeft(e) == IF TakesRight(e.k, e.as[1].v) THEN e.as[1] ELSE e.as[2]
\* The operand a logical operator with a literal on its left answers with.
Chosen(e)     == IF TakesRight(e.k, e.as[1].v) THEN e.as[2] ELSE e.as[1]
FoldLogical(e) == IF IsLiteral(e.as[1]) /\ Chosen(e).t = e.t THEN Chosen(e) ELSE e

fold(e) ==
  CASE e.k \in LogicalOp -> FoldLogical(e)
    [] e.k \in Operators /\ \A i \in DOMAIN e.as : IsLiteral(e.as[i]) ->
         Folded(e, Operate(e.k, [i \in DOMAIN e.as |-> e.as[i].v]))
    [] OTHER -> e

(* Dead code *)

terminates(s) == s.k \in {"return-statement", "break-statement", "continue-statement"}

\* A cut that does not spare the functions a list declares after its jump.
dropAllUnreachable(ss) ==
  IF ~\E i \in DOMAIN ss : terminates(ss[i]) THEN ss
  ELSE SubSeq(ss, 1, CHOOSE i \in DOMAIN ss : terminates(ss[i]) /\ \A j \in 1 .. i - 1 : ~terminates(ss[j]))

\* What follows a jump is dropped, but not the functions: they are hoisted.
dropUnreachable(ss) ==
  IF ~\E i \in DOMAIN ss : terminates(ss[i]) THEN ss
  ELSE LET cut == CHOOSE i \in DOMAIN ss : terminates(ss[i]) /\ \A j \in 1 .. i - 1 : ~terminates(ss[j])
       IN  SubSeq(ss, 1, cut) \o SelectSeq(SubSeq(ss, cut + 1, Len(ss)),
                                           LAMBDA s : s.k = "function-declaration")

\* A search that misses the jump inside an if.
JumpsHere(ss)    == \E i \in DOMAIN ss : ss[i].k \in {"break-statement", "continue-statement"}
\* Any jump counts, whichever loop it is for.
containsJump(ss) == \E x \in Range(Below(ss)) : x.k \in {"break-statement", "continue-statement"}

\* The statements a statement becomes: a literal condition has decided.  What
\* is kept of it stays a block, with a scope of its own.
AsBlock(ss) == <<Statement("block", <<>>, <<ss>>)>>
prune(s) ==
  CASE s.k = "if-statement" /\ IsLiteral(s.as[1]) ->
         IF Truthy(s.as[1].v) THEN AsBlock(s.ss[1]) ELSE IF Len(s.ss) = 2 THEN AsBlock(s.ss[2]) ELSE <<>>
    [] s.k = "while-statement" /\ IsLiteral(s.as[1]) /\ ~Truthy(s.as[1].v) -> <<>>
    [] s.k = "do-while-statement" /\ IsLiteral(s.as[1]) /\ ~Truthy(s.as[1].v) /\ ~containsJump(s.ss[1]) ->
         AsBlock(s.ss[1])
    [] OTHER -> <<s>>

(* The rewriter (rewrite.ts): children first, then what the pass p makes of *)
(* the node; x is what the pass looks names up in.                          *)
RECURSIVE rewriteExpression(_, _, _), rewriteEach(_, _, _), rewriteStatements(_, _, _)

inlineCall(e, x) ==
  IF e.k = "call" /\ IsIdentifier(e.as[1]) /\ e.as[1].n \in DOMAIN x /\ Agrees(e, x[e.as[1].n])
  THEN rewriteExpression(x[e.as[1].n].result, "substitute", Substitution(e, x[e.as[1].n])) ELSE e

RewrittenExpression(e, p, x) ==
  IF e.k \in Updates /\ ~IsIdentifier(e.as[1]) THEN Statement("crash", <<>>, <<>>)
  ELSE CASE p = "inline" -> inlineCall(e, x)
         [] p = "substitute" /\ IsIdentifier(e) /\ e.n \in DOMAIN x -> x[e.n]
         [] p = "fold"   -> fold(e)
         [] OTHER        -> e
RewrittenStatement(s, p) == IF p = "prune" THEN prune(s) ELSE <<s>>
RewrittenList(ss, p)     == IF p = "prune" THEN dropUnreachable(ss) ELSE ss

\* A node none of whose parts has changed stays the object it was.
Rebuilt(node, as, ss) ==
  IF as = node.as /\ ss = node.ss THEN node ELSE [node EXCEPT !.as = as, !.ss = ss, !.id = 0]
rebuilt(node, p, x) ==
  Rebuilt(node, rewriteEach(node.as, p, x), <<>> \o [i \in DOMAIN node.ss |-> rewriteStatements(node.ss[i], p, x)])
rewriteExpression(e, p, x) == RewrittenExpression(rebuilt(e, p, x), p, x)
rewriteEach(es, p, x) ==
  IF es = <<>> THEN <<>> ELSE <<rewriteExpression(es[1], p, x)>> \o rewriteEach(Tail(es), p, x)
rewriteStatements(ss, p, x) ==
  RewrittenList(FoldLeft(LAMBDA done, s : done \o RewrittenStatement(rebuilt(s, p, x), p), <<>>, ss), p)

inlineCalls(ss) == rewriteStatements(ss, "inline", Candidates(ss, bindingCounts(ss)))
constFold(ss)   == rewriteStatements(ss, "fold", <<>>)

\* The functions live code can reach: through the other statements, and through
\* the bodies of functions already found.
Reached(ss, live) == {i \in DOMAIN ss : ss[i].k = "function-declaration" /\ ss[i].n \in live}
RECURSIVE Live(_, _)
Live(ss, live) ==
  LET found == live \cup NamesRead(FlattenSeq([k \in 1 .. Len(ss) |-> IF k \in Reached(ss, live) THEN ss[k].ss[1] ELSE <<>>]))
  IN  IF found = live THEN live ELSE Live(ss, found)
RootNames(ss) == NamesRead(SelectSeq(ss, LAMBDA s : s.k # "function-declaration"))
shakeFunctions(ss, live) ==
  SelectSeq(ss, LAMBDA s : s.k # "function-declaration" \/ s.n \in live)
eliminateDeadCode(ss) ==
  LET pruned == rewriteStatements(ss, "prune", <<>>) IN shakeFunctions(pruned, Live(pruned, RootNames(pruned)))
=============================================================================
