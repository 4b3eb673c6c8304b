---------------------------- MODULE Completions ----------------------------
(* What a function body does in the language, one expression at a time: the *)
(* completions of ECMA-262 run over the place the program stands at.        *)
(*                                                                          *)
(* A body is a chain of nested statements.  Element 1 is the body itself;   *)
(* element i + 1 stands in the block prog[i].at of element i, and every     *)
(* block ends with one opaque expression statement, its leaf.  Tests,       *)
(* updates and iterator steps are leaves too.  What a leaf does (complete,  *)
(* throw, return, jump, suspend) is chosen as it runs.                      *)
EXTENDS Naturals, Sequences, SequencesExt

CONSTANTS Undefined,   \* the value of a bare return
          MaxCells     \* bound: bindings a run may create for loop iterations

Iterations == {"while", "do", "for", "gen", "map"}
Breakable  == Iterations \cup {"switch", "block"}
Catching   == {"try-catch", "try-catch-finally"}
Finishing  == {"try-finally", "try-catch-finally"}

Completion(t, v, to) == [t |-> t, v |-> v, to |-> to]
Done(t)  == Completion(t, Undefined, 0)
Normal   == Done("normal")

\* The part of a statement that runs first, and the one that decides a loop.
FirstPart(form) ==
  CASE form \in {"while", "for"}           -> "cond"
    [] form \in {"do", "block", "unit"}    -> "body"
    [] form \in {"gen", "map"}             -> "step"
    [] form \in Catching \cup Finishing    -> "try"
    [] form = "switch"                     -> "test1"
LoopTop(form) == IF form \in {"gen", "map"} THEN "step" ELSE "cond"

\* The running program: where it stands (the part each open statement is in,
\* and the completion a finally or a close is holding), how it ended, what the
\* last catch received, the captured variable x, and the binding each loop's
\* iteration owns: cell[i] names it, vals holds the values.
Start(prog) ==
  [path |-> <<>>, ended |-> Normal, caught |-> Undefined, x |-> <<0, "first">>,
   cell |-> [i \in DOMAIN prog |-> 0], vals |-> <<>>]

Here(prog, r) == <<Len(r.path), Last(r.path).part>>
Form(prog, r) == prog[Len(r.path)].form

\* A new binding for an iteration of loop i: a for statement copies the last
\* one and updates the copy (CreatePerIterationEnvironment), a declaration in
\* a body starts anew.
Flip(b) == IF b = "a" THEN "b" ELSE "a"
Fresh(r, i, value) == [r EXCEPT !.vals = Append(@, value), !.cell[i] = Len(r.vals) + 1]
Value(r, i) == r.vals[r.cell[i]]

Binds(prog, r, i, part) ==
  IF ~prog[i].fresh THEN r
  ELSE CASE prog[i].form = "for" /\ part = "cond" /\ r.cell[i] = 0 -> Fresh(r, i, "a")
         [] prog[i].form = "for" /\ part = "update"   -> Fresh(r, i, Flip(Value(r, i)))
         [] prog[i].form # "for" /\ part = "body"     -> Fresh(r, i, "a")
         [] OTHER                                     -> r

\* Stand in a part of the statement below r.path, down to its first leaf.
RECURSIVE Enter(_, _, _, _)
Enter(prog, r, part, held) ==
  LET i == Len(r.path) + 1
      q == [Binds(prog, r, i, part) EXCEPT
              !.path = Append(@, [part |-> part, held |-> held])]
  IN  IF part = prog[i].at
      THEN Enter(prog, [q EXCEPT !.cell[i + 1] = 0], FirstPart(prog[i + 1].form), Normal)
      ELSE q

\* The part the program stands in completes with c.
RECURSIVE Complete(_, _, _)
Complete(prog, r, c) ==
  LET i     == Len(r.path)
      form  == prog[i].form
      part  == Last(r.path).part
      held  == Last(r.path).held
      outer == [r EXCEPT !.path = Front(@)]
      To(p) == Enter(prog, outer, p, Normal)
      Hold(p, d) == Enter(prog, outer, p, d)
      \* The whole statement completes: the leaf after it is next, or the
      \* completion goes on outwards.
      Up(d) == IF d.t = "normal" THEN outer ELSE Complete(prog, outer, d)
      continued == c.t = "normal" \/ (c.t = "continue" /\ c.to = i)
      \* A break ends the statement it names.
      left == IF c.t = "break" /\ c.to = i THEN Normal ELSE c
      Try ==
        IF form \in Catching /\ part = "try" /\ c.t = "throw"
        THEN Enter(prog, [outer EXCEPT !.caught = c.v], "catch", Normal)
        ELSE IF form \notin Finishing THEN Up(c)
        ELSE IF part # "finally" THEN Hold("finally", c)
        ELSE Up(IF c.t = "normal" THEN held ELSE c)
      Switch ==
        CASE c.t = "match"   -> To(IF part = "test1" THEN "one" ELSE "three")
          [] c.t = "differ"  -> To(IF part = "test1" THEN "test3" ELSE "two")
          [] c.t = "normal" /\ part \in {"one", "two"} ->
               To(IF part = "one" THEN "two" ELSE "three")
          [] OTHER           -> Up(left)
      Loop ==
        CASE c.t = "true"  -> To("body")
          [] c.t = "false" -> Up(Normal)
          [] part = "close" -> Up(IF c.t = "throw" /\ held.t # "throw" THEN c ELSE held)
          [] part = "update" /\ c.t = "normal" -> To("cond")
          [] part = "body" /\ continued ->
               To(IF form = "for" THEN "update" ELSE LoopTop(form))
          [] part = "body" /\ form = "gen" /\ ~continued -> Hold("close", left)
          [] OTHER         -> Up(left)
  IN  CASE form = "unit" ->
             [outer EXCEPT !.ended = IF c.t = "normal" THEN Done("return") ELSE c]
        [] form = "block"                    -> Up(left)
        [] form \in Catching \cup Finishing -> Try
        [] form = "switch"                   -> Switch
        [] OTHER                             -> Loop

\* The statement an unlabelled jump leaves: break the innermost loop or
\* switch, continue the innermost loop.  Labels name statements outright.
Around(prog, r, forms) == {j \in 1 .. Len(r.path) : prog[j].form \in forms}
Innermost(js) == CHOOSE j \in js : \A k \in js : k <= j

\* What the leaf the program stands at may do.  A jump with to = 0 is
\* unlabelled, another names a statement by its label.
Leaves(prog, r) ==
  LET here  == Here(prog, r)
      part  == here[2]
      throw == Completion("throw", here, 0)
      jumps ==
        {Done("break") : j \in Around(prog, r, Iterations \cup {"switch"})}
        \cup {Done("continue") : j \in Around(prog, r, Iterations)}
        \cup {Completion("break", Undefined, j) : j \in Around(prog, r, Breakable)}
        \cup {Completion("continue", Undefined, j) : j \in Around(prog, r, Iterations)}
  IN  CASE part = "cond"                    -> {Done("true"), Done("false"), throw}
        [] part = "step"                    ->
             {Done("true"), Done("false")} \cup (IF Form(prog, r) = "map" THEN {} ELSE {throw})
        [] part \in {"test1", "test3"}      -> {Done("match"), Done("differ"), throw}
        [] part \in {"update", "close"}     -> {Normal, throw}
        [] OTHER -> {Normal, throw, Completion("return", here, 0), Done("return")} \cup jumps

\* The completion a leaf's outcome is, once the jump has found its statement.
Resolve(prog, r, o) ==
  IF o.to # 0 THEN o
  ELSE CASE o.t = "break"    -> [o EXCEPT !.to = Innermost(Around(prog, r, Iterations \cup {"switch"}))]
         [] o.t = "continue" -> [o EXCEPT !.to = Innermost(Around(prog, r, Iterations))]
         [] OTHER            -> o
=============================================================================
