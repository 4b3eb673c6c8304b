------------------------------ MODULE Captures ------------------------------
(* Which names of a function live in a heap environment, because a function *)
(* nested in it reads them, and how each such read finds its slot           *)
(* (lower/captures.ts).                                                     *)
EXTENDS Hir, FiniteSets

\* The names a node itself refers to.
Referred(node) == IF node.k \in {"identifier", "assignment"} THEN {node.n} ELSE {}
References(fn) == UNION {Referred(x) : x \in Range(Unit(FlattenSeq(fn.ss)))}
Own(fn)        == NamesOf(fn.ps) \cup UnitNames(fn.ss[1])
Nested(fn)     == {x \in Range(Unit(FlattenSeq(fn.ss))) : x.k \in Functions}

\* What a function and those inside it refer to beyond it.
RECURSIVE Free(_)
Free(fn) == (References(fn) \cup UNION {Free(g) : g \in Nested(fn)}) \ Own(fn)

\* The functions a reference is in are numbered from the outermost; each has
\* its own names and the sequence of those it keeps in its environment.
hasEnv(unit) == unit.envVars # <<>>
Owner(chain, n) ==
  CHOOSE i \in 0 .. Len(chain) :
    /\ i > 0 => n \in chain[i].own
    /\ \A j \in i + 1 .. Len(chain) : n \notin chain[j].own
Owned(chain, n) == Owner(chain, n) > 0

\* A walk that counts every function it leaves.
levelsOfAll(chain, n) == Len(chain) - Owner(chain, n)
\* The environments between a function and its name's: those of the functions
\* on the way that have one.
levels(chain, n) == Cardinality({j \in Owner(chain, n) + 1 .. Len(chain) : hasEnv(chain[j])})

index(chain, n) == LET vars == chain[Owner(chain, n)].envVars IN CHOOSE i \in DOMAIN vars : vars[i] = n

\* An analysis that does not see what is read only through a nested function.
needsEnvItself(fn, chain) == \E n \in References(fn) \ Own(fn) : Owned(chain, n)
\* A function carries an environment for itself and for those inside it.
needsEnv(fn, chain) == \E n \in Free(fn) : Owned(chain, n)

envVars(fn) == SetToSeq(Own(fn) \cap UNION {Free(g) : g \in Nested(fn)})
CaptureInfo(fn, chain) ==
  [envVars  |-> envVars(fn),
   captures |-> [n \in {r \in References(fn) \ Own(fn) : Owned(chain, r)} |->
                   [levels |-> levels(chain, n), index |-> index(chain, n)]],
   needsEnv |-> needsEnv(fn, chain)]

RECURSIVE analyzeCaptures(_, _)
Recorded(node, chain, info) ==
  LET inner == IF node.k \in Functions THEN Append(chain, [own |-> Own(node), envVars |-> info.envVars]) ELSE chain
  IN  [node EXCEPT !.as = analyzeCaptures(@, inner), !.capture = info,
                   !.ss = <<>> \o [i \in DOMAIN @ |-> analyzeCaptures(@[i], inner)]]
analyzeCaptures(nodes, chain) ==
  IF nodes = <<>> THEN <<>>
  ELSE <<Recorded(nodes[1], chain, IF nodes[1].k \in Functions THEN CaptureInfo(nodes[1], chain) ELSE NoCapture)>>
       \o analyzeCaptures(Tail(nodes), chain)
=============================================================================
