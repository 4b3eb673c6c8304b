------------------------------ MODULE Lowering ------------------------------
(* How a source tree becomes HIR: each declaration gets the name the rest   *)
(* of the compiler knows it by (lower/scope.ts), each reference the name of *)
(* the binding it resolves to, and the files become one list of statements. *)
(* The state st has the chain of scopes, the names the function unit has    *)
(* declared, the counts of shadows and of nodes, and whether every name     *)
(* resolved.                                                                *)
EXTENDS Captures, FiniteSets

Scope(own, claimed) == [own |-> own, here |-> {}, claimed |-> claimed]
NoNames == [n \in {} |-> n]

Has(st, n)   == \E i \in DOMAIN st.scopes : n \in DOMAIN st.scopes[i].own
Innermost(st, n) == CHOOSE i \in DOMAIN st.scopes :
                      /\ n \in DOMAIN st.scopes[i].own
                      /\ \A j \in i + 1 .. Len(st.scopes) : n \notin DOMAIN st.scopes[j].own
hirName(st, n) == IF Has(st, n) THEN st.scopes[Innermost(st, n)].own[n] ELSE n

child(st) == [st EXCEPT !.scopes = Append(@, Scope(NoNames, {}))]
functionScope(st) == [child(st) EXCEPT !.unit = {}]
\* Back in the scopes and the unit of st, with what st2 has minted since.
Rejoin(st, st2) == [st EXCEPT !.count = st2.count, !.nodes = st2.nodes, !.ok = st2.ok]
RejoinBlock(st, st2) == [Rejoin(st, st2) EXCEPT !.unit = st2.unit]

Bound(st, n, hir, minted) ==
  [st EXCEPT !.scopes[Len(st.scopes)] =
               [@ EXCEPT !.own = (n :> hir) @@ @, !.here = @ \cup {n}],
             !.unit = @ \cup {n}, !.count = @ + minted]

\* A scope that renames only what is visible, not what a sibling has declared.
declareVisible(st, n) ==
  LET top == st.scopes[Len(st.scopes)]
  IN  IF n \notin top.here /\ n \notin top.claimed /\ Has(st, n)
      THEN Bound(st, n, <<n[1], st.count + 1>>, 1) ELSE Bound(st, n, hirName(st, n), 0)

\* A declaration shadows, or shares its function's slots with, another of its
\* name: it gets a name of its own.
declare(st, n) ==
  LET top == st.scopes[Len(st.scopes)]
  IN  IF n \notin top.here /\ n \notin top.claimed /\ (Has(st, n) \/ n \in st.unit)
      THEN Bound(st, n, <<n[1], st.count + 1>>, 1) ELSE Bound(st, n, hirName(st, n), 0)

hoistFunctionDeclarations(st, ss) ==
  FoldLeft(LAMBDA c, s : IF s.k = "function-declaration" THEN declare(c, s.n) ELSE c, st, ss)

RECURSIVE Lower(_, _), LowerAll(_, _, _), LowerLists(_, _, _)

Lowered(node, st) == [node |-> node, st |-> st]

LowerNext(nodes, done, r) == LowerAll(Tail(nodes), Append(done, r.node), r.st)
LowerAll(nodes, done, st) ==
  IF nodes = <<>> THEN Lowered(done, st) ELSE LowerNext(nodes, done, Lower(nodes[1], st))

\* A statement list in a scope the caller opened.
lowerBlock(ss, st) == LowerAll(ss, <<>>, hoistFunctionDeclarations(st, ss))

LowerRest(lists, done, st, r) == LowerLists(Tail(lists), Append(done, r.node), RejoinBlock(st, r.st))
LowerLists(lists, done, st) ==
  IF lists = <<>> THEN Lowered(done, st)
  ELSE LowerRest(lists, done, st, lowerBlock(lists[1], child(st)))

WithLists(node, r) == Lowered([node EXCEPT !.ss = r.node], r.st)
WithParts(node, r) == WithLists([node EXCEPT !.as = r.node], LowerLists(node.ss, <<>>, r.st))

\* A function is a unit of its own: its parameters, then its body.
FunctionBody(node, st, inner, r) ==
  Lowered([node EXCEPT !.ps = [i \in DOMAIN node.ps |-> Parameter(hirName(inner, node.ps[i].n), node.ps[i].t)],
                       !.ss = <<r.node>>],
          Rejoin(st, r.st))
WithParameters(node, st, inner) == FunctionBody(node, st, inner, lowerBlock(node.ss[1], child(inner)))
lowerFunction(node, st) ==
  WithParameters(node, st, FoldLeft(LAMBDA c, p : declare(c, p.n), functionScope(st), node.ps))

\* A name nothing binds is a diagnostic.
Resolving(n, st) == [st EXCEPT !.ok = @ /\ Has(st, n)]
Named(node, st) == [node EXCEPT !.n = hirName(st, node.n)]

\* An update whose value nobody uses becomes an assignment of an operation on
\* what the place holds.
assignmentParts(e) ==
  CASE e.k = "="                -> e.as[2]
    [] e.k = "+="               -> Expression("+", e.t, e.as)
    [] e.k \in DOMAIN LogicalOf -> Expression(LogicalOf[e.k], e.t, e.as)
    [] e.k \in IncDec           ->
         Expression("+", "number", <<Expression("unary +", "number", e.as), Literal(Number(1))>>)
IsUpdate(s) == s.k = "expression-statement" /\ s.as[1].k \in Updates

LowerNode(node, st) ==
  CASE IsUpdate(node)                  -> Lower(Assignment(node.as[1].as[1].n, assignmentParts(node.as[1])), st)
    [] node.k = "identifier"           -> Lowered(Named(node, st), Resolving(node.n, st))
    [] node.k = "declaration"          ->
         LET bound == declare(st, node.n) IN WithParts(Named(node, bound), LowerAll(node.as, <<>>, bound))
    [] node.k = "assignment"           -> WithParts(Named(node, st), LowerAll(node.as, <<>>, Resolving(node.n, st)))
    [] node.k = "function-declaration" -> lowerFunction(Named(node, st), st)
    [] node.k = "function"             -> lowerFunction(node, st)
    [] OTHER                           -> WithParts(node, LowerAll(node.as, <<>>, st))
Lower(node, st) == LowerNode([node EXCEPT !.id = st.nodes + 1], [st EXCEPT !.nodes = @ + 1])

\* The files in order, each in a scope of its own in which its imports are the
\* exporters' bindings; the entry, the last, keeps its top-level spellings.
Modules(order, body, imports) ==
  LET entry == Len(order)
      Claimed(i) == IF i = entry THEN DeclaredIn(body[order[i]]) ELSE {}
      Alias(scopes, i) ==
        [n \in DOMAIN imports[order[i]] |->
           hirName([scopes |-> <<scopes[imports[order[i]][n][1]]>>], imports[order[i]][n][2])]
      Opened(c, i) == [c.st EXCEPT !.scopes = <<Scope(Alias(c.scopes, i), Claimed(i))>>]
      Joined(c, i, r) == [st |-> r.st, ss |-> c.ss \o analyzeCaptures(r.node, <<>>),
                        scopes |-> (order[i] :> r.st.scopes[1]) @@ c.scopes]
      start == [st |-> [scopes |-> <<>>, unit |-> Claimed(entry), count |-> 0, nodes |-> 0, ok |-> TRUE],
                ss |-> <<>>, scopes |-> [f \in {} |-> f]]
  IN  FoldLeft(LAMBDA c, i : Joined(c, i, lowerBlock(body[order[i]], Opened(c, i))), start, [i \in DOMAIN order |-> i])
=============================================================================
