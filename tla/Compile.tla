------------------------------ MODULE Compile ------------------------------
(* One build from its entry file to the C that is emitted (cli/build.ts):   *)
(* the walk over the files, the lowering of all of them into one list of    *)
(* statements, the passes over it, the verifier, and the emission.          *)
EXTENDS ModuleGraph, Lowering, Passes, HirVerify, EmittedC

CONSTANT Programs   \* the programs built: edges, and each file's body and imports

VARIABLES body,      \* file -> its top-level statements
          imports,   \* file -> its names of other files' names
          stage,     \* what the build has done
          module,    \* the HIR
          code,      \* the C
          meaning    \* what the source program does when it runs

vars == <<graphVars, body, imports, stage, module, code, meaning>>

NoCode == [main |-> <<>>, size |-> 0, fns |-> <<>>]

Init ==
  /\ \E p \in Programs : edges = p.edges /\ body = p.body /\ imports = p.imports
  /\ GraphInit
  /\ stage = "walking" /\ module = <<>> /\ code = NoCode /\ meaning = Behaviour(Machine(TRUE, <<>>))

Walk ==
  /\ GraphNext
  /\ UNCHANGED <<body, imports, stage, module, code, meaning>>

\* The walk reported a cycle: nothing is compiled.
ReportCycles ==
  /\ stage = "walking" /\ path = <<>> /\ diagnostics # {}
  /\ stage' = "refused"
  /\ UNCHANGED <<graphVars, body, imports, module, code, meaning>>

LoweredTo(r) ==
  IF r.st.ok THEN stage' = "lowered" /\ module' = r.ss /\ meaning' = RunSource(order, body, imports)
  ELSE stage' = "refused" /\ UNCHANGED <<module, meaning>>
LowerFiles ==
  /\ stage = "walking" /\ path = <<>> /\ diagnostics = {}
  /\ LoweredTo(Modules(order, body, imports))
  /\ UNCHANGED <<graphVars, body, imports, code>>

Pass(before, after, ss) ==
  /\ stage = before
  /\ stage' = after /\ module' = ss
  /\ UNCHANGED <<graphVars, body, imports, code, meaning>>
Inline == Pass("lowered", "inlined", inlineCalls(module))
Fold   == Pass("inlined", "folded", constFold(module))
Shake  == Pass("folded", "optimized", eliminateDeadCode(module))

Verify ==
  /\ stage = "optimized"
  /\ stage' = IF verifyHir(module) THEN "verified" ELSE "internal error"
  /\ UNCHANGED <<graphVars, body, imports, module, code, meaning>>

EmitC ==
  /\ stage = "verified"
  /\ stage' = "emitted" /\ code' = emit(module)
  /\ UNCHANGED <<graphVars, body, imports, module, meaning>>

Next == Walk \/ ReportCycles \/ LowerFiles \/ Inline \/ Fold \/ Shake \/ Verify \/ EmitC

Spec == Init /\ [][Next]_vars

(* Properties *)

\* The C prints what the source program prints, and throws when it throws, in
\* whichever order the C compiler evaluates what C leaves open.
EmissionKept ==
  stage = "emitted" /\ meaning.ok => \A backwards \in BOOLEAN : RunC(code, backwards) = meaning

\* Each stage of the HIR, and then the C, prints what the source program prints,
\* with the static types it has there, for every program that runs without error.
MeaningKept ==
  /\ stage \in {"lowered", "inlined", "folded", "optimized"} /\ meaning.ok => RunModule(module) = meaning
  /\ EmissionKept

\* The passes and the lowering hand the verifier nothing it rejects: what the
\* front end accepts is built.
NoInternalError == stage # "internal error"

\* The names declared in one function, nested functions left out, or at the top
\* of all the files, have each a slot of its own: no two blocks and no two files
\* share one.
Declared(ss) == LET here == SelectSeq(Unit(ss), Declares) IN [i \in DOMAIN here |-> here[i].n]
NamesDistinct ==
  stage # "walking" =>
    /\ IsInjective(Declared(module))
    /\ \A fn \in Range(Below(module)) : fn.k \in Functions =>
         IsInjective([i \in DOMAIN fn.ps |-> fn.ps[i].n] \o Declared(fn.ss[1]))
=============================================================================
