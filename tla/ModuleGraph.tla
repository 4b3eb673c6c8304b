---------------------------- MODULE ModuleGraph ----------------------------
(* Which files a program is, and in what order their top-level code runs:   *)
(* moduleOrder of frontend/graph.ts, a depth-first walk over the edges that *)
(* need another file to have run first.  The recursion of visit is the path *)
(* of files it stands in, with the edge each comes to next.                 *)
EXTENDS Naturals, Sequences

CONSTANTS File,     \* the source files
          Entry,    \* the file the build names
          Imports   \* the lists of files one file's imports may name

ASSUME FileAssumption == Entry \in File /\ Imports \subseteq Seq(File)

VARIABLES edges,        \* file -> the files its imports name, in source order
          path,         \* the files being visited, each inside the one before
          next,         \* for each of them, the index of its next edge
          order,        \* the files visited, dependencies before dependents
          diagnostics   \* the cycles reported, each at the edge that closes it

graphVars == <<edges, path, next, order, diagnostics>>

In(file, files) == \E i \in DOMAIN files : files[i] = file

Diagnostic(file, edge, cycle) == [file |-> file, edge |-> edge, cycle |-> cycle]

GraphInit ==
  /\ edges \in [File -> Imports]
  /\ path = <<Entry>> /\ next = <<1>>
  /\ order = <<>> /\ diagnostics = {}

\* The file whose edges the walk is in, and the edge it comes to.
Here   == path[Len(path)]
At     == next[Len(path)]
AtEdge == path # <<>> /\ At \in DOMAIN edges[Here]
Target == edges[Here][At]
Passed == [next EXCEPT ![Len(path)] = @ + 1]

\* A walk that reports the whole path it stands in as the cycle.
CycleOfPath ==
  /\ AtEdge /\ In(Target, path)
  /\ diagnostics' = diagnostics \cup {Diagnostic(Here, At, Append(path, Target))}
  /\ next' = Passed
  /\ UNCHANGED <<edges, path, order>>

\* The edge leads back into the path: a cycle, spelled from its target round.
Cycle ==
  /\ AtEdge
  /\ \E k \in DOMAIN path :
       /\ path[k] = Target
       /\ \A j \in DOMAIN path : path[j] = Target => k <= j
       /\ diagnostics' = diagnostics \cup
            {Diagnostic(Here, At, Append(SubSeq(path, k, Len(path)), Target))}
  /\ next' = Passed
  /\ UNCHANGED <<edges, path, order>>

\* The edge leads to a file that has been visited.
Skip ==
  /\ AtEdge /\ ~In(Target, path) /\ In(Target, order)
  /\ next' = Passed
  /\ UNCHANGED <<edges, path, order, diagnostics>>

Visit ==
  /\ AtEdge /\ ~In(Target, path) /\ ~In(Target, order)
  /\ path' = Append(path, Target)
  /\ next' = Append(Passed, 1)
  /\ UNCHANGED <<edges, order, diagnostics>>

\* A walk that puts the file before what it needs.
LeaveFirst ==
  /\ path # <<>> /\ At \notin DOMAIN edges[Here]
  /\ order' = <<Here>> \o order
  /\ path' = SubSeq(path, 1, Len(path) - 1)
  /\ next' = SubSeq(next, 1, Len(path) - 1)
  /\ UNCHANGED <<edges, diagnostics>>

\* A walk that leaves out of the order the file a reported cycle leads to.
LeaveCyclic ==
  /\ path # <<>> /\ At \notin DOMAIN edges[Here]
  /\ order' = IF \E d \in diagnostics : d.cycle[1] = Here THEN order ELSE Append(order, Here)
  /\ path' = SubSeq(path, 1, Len(path) - 1)
  /\ next' = SubSeq(next, 1, Len(path) - 1)
  /\ UNCHANGED <<edges, diagnostics>>

\* No edge is left: what the file needs has run, and it is next.
Leave ==
  /\ path # <<>> /\ At \notin DOMAIN edges[Here]
  /\ order' = Append(order, Here)
  /\ path' = SubSeq(path, 1, Len(path) - 1)
  /\ next' = SubSeq(next, 1, Len(path) - 1)
  /\ UNCHANGED <<edges, diagnostics>>

GraphNext == Cycle \/ Skip \/ Visit \/ Leave

GraphSpec == GraphInit /\ [][GraphNext]_graphVars

(* Properties *)

Diagnosed(ds, f, e) == \E d \in ds : d.file = f /\ d.edge = e

\* Every file that a file of the order imports has been visited or is being
\* visited: no import is lost to a cycle reported before it, and no file to a
\* cycle it is part of.
ImportsReached ==
  \A i \in DOMAIN order : \A e \in DOMAIN edges[order[i]] :
    In(edges[order[i]][e], order) \/ In(edges[order[i]][e], path)

\* A file's top-level code runs after that of every file it imports, whatever
\* other paths lead to either and whatever cycles the walk met on them, or the
\* edge that asks for the impossible has been reported.
ImportsFirst ==
  \A i \in DOMAIN order : \A e \in DOMAIN edges[order[i]] :
    \/ \E j \in 1 .. i - 1 : order[j] = edges[order[i]][e]
    \/ Diagnosed(diagnostics, order[i], e)

\* No file runs twice.
RunsOnce == \A i, j \in DOMAIN order : order[i] = order[j] => i = j

Edge(f, g) == \E e \in DOMAIN edges[f] : edges[f][e] = g

\* What is reported as a cycle is one: each file of it imports the next, the
\* last is the first, and the reported edge is the one that closes it.
CyclesReal ==
  \A d \in diagnostics :
    LET c == d.cycle
    IN  /\ Len(c) > 1 /\ c[1] = c[Len(c)]
        /\ \A k \in 1 .. Len(c) - 1 : Edge(c[k], c[k + 1])
        /\ c[Len(c) - 1] = d.file /\ d.edge \in DOMAIN edges[d.file] /\ edges[d.file][d.edge] = c[1]
=============================================================================
