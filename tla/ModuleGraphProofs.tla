------------------------- MODULE ModuleGraphProofs -------------------------
(* The order of the module graph is right for any number of files and any   *)
(* imports between them, cycles included.                                   *)
EXTENDS ModuleGraph, TLAPS

(* The inductive invariant *)

GraphTypeOK ==
  /\ edges \in [File -> Seq(File)]
  /\ path \in Seq(File) /\ next \in Seq(Nat) /\ Len(next) = Len(path)
  /\ order \in Seq(File)

\* Each file of the path stands one past an edge, which leads to the next one.
PathLinked ==
  /\ \A i \in 1 .. Len(path) : next[i] > 0
  /\ \A i \in 1 .. Len(path) - 1 :
       /\ next[i] - 1 \in DOMAIN edges[path[i]]
       /\ edges[path[i]][next[i] - 1] = path[i + 1]

\* A file is on the path once, in the order once, and never in both.
Apart ==
  /\ \A i, j \in 1 .. Len(path) : path[i] = path[j] => i = j
  /\ \A i, j \in 1 .. Len(order) : order[i] = order[j] => i = j
  /\ \A i \in 1 .. Len(path) : ~In(path[i], order)

\* What an edge asks for has run, or the edge is reported.
Met(files, ds, f, g, e) == In(g, files) \/ Diagnosed(ds, f, e)

\* What a file on the path needs before the edge it comes to next has run, or
\* is reported, or is the file visited inside it.
NeedsMet ==
  \A i \in 1 .. Len(path) : \A e \in DOMAIN edges[path[i]] :
    e < next[i] =>
      \/ Met(order, diagnostics, path[i], edges[path[i]][e], e)
      \/ i < Len(path) /\ e = next[i] - 1

\* Every import that a file on the path is past leads somewhere visited.
PathReached ==
  \A i \in 1 .. Len(path) : \A e \in DOMAIN edges[path[i]] :
    e < next[i] => In(edges[path[i]][e], order) \/ In(edges[path[i]][e], path)

GraphInv ==
  /\ GraphTypeOK /\ PathLinked /\ Apart /\ NeedsMet /\ PathReached
  /\ ImportsReached /\ ImportsFirst /\ CyclesReal

(* Lemmas *)

\* Passing an edge moves the last file of the path and no other.
LEMMA PassedSeq ==
  ASSUME GraphTypeOK, path # <<>>
  PROVE  /\ Len(path) \in Nat \ {0} /\ Here \in File /\ Here = path[Len(path)]
         /\ At \in Nat /\ At = next[Len(path)]
         /\ Passed \in Seq(Nat) /\ Len(Passed) = Len(path)
         /\ Passed[Len(path)] = At + 1
         /\ \A i \in 1 .. Len(path) - 1 : Passed[i] = next[i]
  BY DEF GraphTypeOK, Passed, Here, At

\* The edge the walk comes to leads to a file.
LEMMA TargetFile ==
  ASSUME GraphTypeOK, AtEdge
  PROVE  /\ path # <<>> /\ Target \in File
         /\ At \in DOMAIN edges[Here] /\ edges[Here][At] = Target
  BY PassedSeq DEF GraphTypeOK, AtEdge, Target

\* Before the first edge of the entry nothing is owed.
LEMMA InitInv == GraphInit => GraphInv
<1> SUFFICES ASSUME GraphInit PROVE GraphInv
  OBVIOUS
<1> USE FileAssumption DEF GraphInit
<1>1. GraphTypeOK
  BY DEF GraphTypeOK
<1>2. PathLinked /\ Apart
  BY DEF PathLinked, Apart, In
<1>3. NeedsMet /\ PathReached
  BY <1>1 DEF NeedsMet, PathReached, GraphTypeOK
<1>4. ImportsReached /\ ImportsFirst /\ CyclesReal
  BY DEF ImportsReached, ImportsFirst, CyclesReal
<1> QED BY <1>1, <1>2, <1>3, <1>4 DEF GraphInv

\* Passing an edge whose file has been visited, or which is reported, keeps
\* what is known of the files on the path.
LEMMA PassInv ==
  ASSUME GraphInv, AtEdge, NEW ds, diagnostics \subseteq ds, diagnostics' = ds,
         next' = Passed, UNCHANGED <<edges, path, order>>,
         Met(order, ds, Here, Target, At), In(Target, order) \/ In(Target, path)
  PROVE  /\ GraphTypeOK' /\ PathLinked' /\ Apart' /\ NeedsMet' /\ PathReached'
         /\ ImportsReached' /\ ImportsFirst'
<1> DEFINE n == Len(path)
<1>1. /\ path \in Seq(File) /\ next \in Seq(Nat) /\ Len(next) = n /\ order \in Seq(File)
      /\ edges \in [File -> Seq(File)] /\ n \in Nat \ {0}
  BY PassedSeq, TargetFile DEF GraphInv, GraphTypeOK
<1>2. /\ path[n] = Here /\ next[n] = At /\ At \in Nat
      /\ At \in DOMAIN edges[Here] /\ edges[Here][At] = Target
  BY PassedSeq, TargetFile DEF GraphInv
<1>3. /\ Passed \in Seq(Nat) /\ Len(Passed) = n /\ Passed[n] = At + 1
      /\ \A i \in 1 .. n - 1 : Passed[i] = next[i]
  BY PassedSeq, TargetFile DEF GraphInv
<1> HIDE DEF n
<1>4. GraphTypeOK'
  BY <1>1, <1>3 DEF GraphTypeOK, n
<1>5. \A i \in 1 .. n : i = n \/ i \in 1 .. n - 1
  BY <1>1
<1>6. PathLinked'
  <2>1. \A i \in 1 .. n : Passed[i] > 0
    BY <1>2, <1>3, <1>5 DEF GraphInv, PathLinked, n
  <2>2. \A i \in 1 .. n - 1 :
          /\ Passed[i] - 1 \in DOMAIN edges[path[i]]
          /\ edges[path[i]][Passed[i] - 1] = path[i + 1]
    BY <1>3 DEF GraphInv, PathLinked, n
  <2> QED BY <2>1, <2>2 DEF PathLinked, n
<1>7. Apart' /\ ImportsReached'
  BY DEF GraphInv, Apart, ImportsReached, In
<1>8. \A f, g, e : Met(order, diagnostics, f, g, e) => Met(order, ds, f, g, e)
  BY DEF Met, Diagnosed
<1>9. ASSUME NEW i \in 1 .. n, NEW e \in DOMAIN edges[path[i]], e < Passed[i]
      PROVE  e < next[i] \/ (i = n /\ e = At)
  <2>1. path[i] \in File /\ e \in Nat
    BY <1>1 DEF n
  <2> QED BY <2>1, <1>9, <1>2, <1>3, <1>5
<1>10. NeedsMet'
  <2> SUFFICES ASSUME NEW i \in 1 .. n, NEW e \in DOMAIN edges[path[i]], e < Passed[i]
               PROVE  \/ Met(order, ds, path[i], edges[path[i]][e], e)
                      \/ i < n /\ e = Passed[i] - 1
    BY DEF NeedsMet, n
  <2>1. CASE i = n /\ e = At
    BY <2>1, <1>2
  <2>2. CASE e < next[i]
    <3>1. \/ Met(order, diagnostics, path[i], edges[path[i]][e], e)
          \/ i < n /\ e = next[i] - 1
      BY <2>2 DEF GraphInv, NeedsMet, n
    <3>2. i < n => Passed[i] = next[i]
      BY <1>3, <1>5
    <3> QED BY <3>1, <3>2, <1>8
  <2> QED BY <2>1, <2>2, <1>9
<1>11. PathReached'
  <2> SUFFICES ASSUME NEW i \in 1 .. n, NEW e \in DOMAIN edges[path[i]], e < Passed[i]
               PROVE  In(edges[path[i]][e], order) \/ In(edges[path[i]][e], path)
    BY DEF PathReached, n
  <2> QED BY <1>2, <1>9 DEF GraphInv, PathReached, n
<1>12. ImportsFirst'
  BY DEF GraphInv, ImportsFirst, Diagnosed
<1> QED BY <1>4, <1>6, <1>7, <1>10, <1>11, <1>12

\* A path that leads back to where it passes is a cycle.
LEMMA PathCycle ==
  ASSUME GraphInv, AtEdge, NEW k \in DOMAIN path, path[k] = Target,
         NEW c, c = Append(SubSeq(path, k, Len(path)), Target)
  PROVE  /\ Len(c) > 1 /\ c[1] = Target /\ c[Len(c)] = Target /\ c[Len(c) - 1] = Here
         /\ \A j \in 1 .. Len(c) - 1 : Edge(c[j], c[j + 1])
<1>1. /\ path \in Seq(File) /\ k \in 1 .. Len(path) /\ Len(path) \in Nat
      /\ Target \in File /\ path[Len(path)] = Here
      /\ At \in DOMAIN edges[Here] /\ edges[Here][At] = Target
  <2>1. path \in Seq(File) /\ GraphTypeOK
    BY DEF GraphInv, GraphTypeOK
  <2>2. k \in 1 .. Len(path) /\ Len(path) \in Nat
    BY <2>1
  <2> QED BY <2>1, <2>2, TargetFile, PassedSeq
<1>2. PICK n \in Nat \ {0} : n = Len(path) - k + 1
  BY <1>1
<1>3. PICK s : s = SubSeq(path, k, Len(path))
  OBVIOUS
<1>4. s \in Seq(File) /\ Len(s) = n /\ \A j \in 1 .. n : s[j] = path[k + j - 1]
  BY <1>1, <1>2, <1>3
<1>5. c = Append(s, Target)
  BY <1>3
<1>6. Len(c) = n + 1 /\ c[n + 1] = Target /\ \A j \in 1 .. n : c[j] = path[k + j - 1]
  BY <1>1, <1>2, <1>4, <1>5
<1>7. c[1] = Target
  <2>1. 1 \in 1 .. n /\ k + 1 - 1 = k
    BY <1>1, <1>2
  <2> QED BY <2>1, <1>6
<1>8. c[n] = Here
  <2>1. n \in 1 .. n /\ k + n - 1 = Len(path)
    BY <1>1, <1>2
  <2> QED BY <2>1, <1>1, <1>6
<1>9. ASSUME NEW j \in 1 .. n PROVE Edge(c[j], c[j + 1])
  <2>1. CASE j = n
    BY <2>1, <1>1, <1>6, <1>8 DEF Edge
  <2>2. CASE j # n
    <3>1. k + j - 1 \in 1 .. Len(path) - 1 /\ j + 1 \in 1 .. n
      BY <2>2, <1>1, <1>2
    <3>2. PICK i \in 1 .. Len(path) - 1 : i = k + j - 1
      BY <3>1
    <3>3. c[j] = path[k + j - 1] /\ c[j + 1] = path[k + (j + 1) - 1]
      BY <3>1, <1>6
    <3>4. /\ next[i] - 1 \in DOMAIN edges[path[i]]
          /\ edges[path[i]][next[i] - 1] = path[i + 1]
      BY <3>2 DEF GraphInv, PathLinked
    <3>5. c[j] = path[i] /\ c[j + 1] = path[i + 1]
      <4>1. k \in Nat /\ j \in Nat
        BY <1>1, <1>2
      <4>2. i + 1 = k + (j + 1) - 1
        BY <4>1, <3>2
      <4>3. c[j] = path[i]
        BY <3>2, <3>3, Zenon
      <4>4. c[j + 1] = path[i + 1]
        BY <4>2, <3>3, Zenon
      <4> QED BY <4>3, <4>4
    <3> QED BY <3>4, <3>5 DEF Edge
  <2> QED BY <2>1, <2>2
<1>10. Len(c) > 1 /\ Len(c) - 1 = n
  BY <1>2, <1>6
<1> QED BY <1>6, <1>7, <1>8, <1>9, <1>10

\* Cycle: the path from its target round is a cycle, and the edge is reported.
LEMMA CycleInv == ASSUME GraphInv, Cycle PROVE GraphInv'
<1>1. PICK k \in DOMAIN path :
        /\ path[k] = Target
        /\ diagnostics' = diagnostics \cup
             {Diagnostic(Here, At, Append(SubSeq(path, k, Len(path)), Target))}
  BY DEF Cycle
<1>2. AtEdge /\ next' = Passed /\ UNCHANGED <<edges, path, order>>
  BY DEF Cycle
<1> DEFINE c == Append(SubSeq(path, k, Len(path)), Target)
           d == Diagnostic(Here, At, c)
<1>3. d.file = Here /\ d.edge = At /\ d.cycle = c
  BY DEF Diagnostic
<1>4. Met(order, diagnostics', Here, Target, At) /\ In(Target, path)
  BY <1>1, <1>3 DEF Met, Diagnosed, In
<1>5. /\ GraphTypeOK' /\ PathLinked' /\ Apart' /\ NeedsMet' /\ PathReached'
      /\ ImportsReached' /\ ImportsFirst'
  BY <1>1, <1>2, <1>4, PassInv
<1>6. /\ Len(c) > 1 /\ c[1] = Target /\ c[Len(c)] = Target /\ c[Len(c) - 1] = Here
      /\ \A j \in 1 .. Len(c) - 1 : Edge(c[j], c[j + 1])
  BY <1>1, <1>2, PathCycle
<1>7. At \in DOMAIN edges[Here] /\ edges[Here][At] = Target
  BY <1>2, TargetFile DEF GraphInv
<1> HIDE DEF c, d
<1>8. CyclesReal'
  <2>1. \A x \in diagnostics' : x \in diagnostics \/ x = d
    BY <1>1 DEF c, d
  <2>2. /\ Len(d.cycle) > 1 /\ d.cycle[1] = d.cycle[Len(d.cycle)]
        /\ \A j \in 1 .. Len(d.cycle) - 1 : Edge(d.cycle[j], d.cycle[j + 1])
        /\ d.cycle[Len(d.cycle) - 1] = d.file
        /\ d.edge \in DOMAIN edges[d.file] /\ edges[d.file][d.edge] = d.cycle[1]
    BY <1>3, <1>6, <1>7
  <2> DEFINE Real(x) ==
        /\ Len(x.cycle) > 1 /\ x.cycle[1] = x.cycle[Len(x.cycle)]
        /\ \A j \in 1 .. Len(x.cycle) - 1 : Edge(x.cycle[j], x.cycle[j + 1])
        /\ x.cycle[Len(x.cycle) - 1] = x.file
        /\ x.edge \in DOMAIN edges[x.file] /\ edges[x.file][x.edge] = x.cycle[1]
  <2>3. \A x \in diagnostics : Real(x)
    BY DEF CyclesReal, GraphInv
  <2>4. Real(d)
    BY <2>2
  <2> HIDE DEF Real
  <2>5. \A x \in diagnostics' : Real(x)
    BY <2>1, <2>3, <2>4
  <2> QED BY <2>5, <1>2 DEF CyclesReal, Edge, Real
<1> QED BY <1>5, <1>8 DEF GraphInv

\* Skip: the edge that is passed leads to a file of the order.
LEMMA SkipInv == ASSUME GraphInv, Skip PROVE GraphInv'
<1>1. /\ AtEdge /\ In(Target, order) /\ next' = Passed
      /\ UNCHANGED <<edges, path, order, diagnostics>>
  BY DEF Skip
<1>2. Met(order, diagnostics', Here, Target, At)
  BY <1>1 DEF Met
<1>3. CyclesReal'
  BY <1>1 DEF GraphInv, CyclesReal, Edge
<1> QED BY <1>1, <1>2, <1>3, PassInv DEF GraphInv

\* Visit: the target goes on the path, behind the edge that led to it.
LEMMA VisitInv == ASSUME GraphInv, Visit PROVE GraphInv'
<1>1. /\ AtEdge /\ ~In(Target, path) /\ ~In(Target, order)
      /\ path' = Append(path, Target) /\ next' = Append(Passed, 1)
      /\ edges' = edges /\ order' = order /\ diagnostics' = diagnostics
  BY DEF Visit
<1>2. /\ GraphTypeOK /\ path \in Seq(File) /\ next \in Seq(Nat) /\ Len(next) = Len(path)
      /\ order \in Seq(File) /\ edges \in [File -> Seq(File)]
  BY DEF GraphInv, GraphTypeOK
<1>3. PICK n \in Nat \ {0} : n = Len(path)
  BY <1>1, <1>2, TargetFile, PassedSeq
<1>4. /\ path[n] = Here /\ next[n] = At /\ At \in Nat
      /\ Target \in File /\ edges[Here][At] = Target /\ At \in DOMAIN edges[Here]
      /\ Passed \in Seq(Nat) /\ Len(Passed) = n /\ Passed[n] = At + 1
      /\ \A i \in 1 .. n - 1 : Passed[i] = next[i]
  BY <1>1, <1>2, <1>3, TargetFile, PassedSeq
<1>5. /\ path' \in Seq(File) /\ Len(path') = n + 1 /\ path'[n + 1] = Target
      /\ \A i \in 1 .. n : path'[i] = path[i]
  BY <1>1, <1>2, <1>3, <1>4
<1>6. /\ next' \in Seq(Nat) /\ Len(next') = n + 1 /\ next'[n + 1] = 1
      /\ next'[n] = At + 1 /\ \A i \in 1 .. n - 1 : next'[i] = next[i]
  <2>1. /\ next' \in Seq(Nat) /\ Len(next') = n + 1 /\ next'[n + 1] = 1
        /\ \A i \in 1 .. n : next'[i] = Passed[i]
    BY <1>1, <1>3, <1>4
  <2>2. n \in 1 .. n /\ \A i \in 1 .. n - 1 : i \in 1 .. n
    BY <1>3
  <2> QED BY <2>1, <2>2, <1>4
<1>7. GraphTypeOK'
  BY <1>1, <1>2, <1>5, <1>6 DEF GraphTypeOK
<1>8. \A i \in 1 .. n : i = n \/ i \in 1 .. n - 1
  BY <1>3
<1>9. PathLinked'
  <2>1. \A i \in 1 .. n + 1 : i \in 1 .. n \/ i = n + 1
    BY <1>3
  <2>2. \A i \in 1 .. n + 1 : next'[i] > 0
    BY <2>1, <1>3, <1>4, <1>6, <1>8, SMTT(40) DEF GraphInv, PathLinked
  <2>3. ASSUME NEW i \in 1 .. n
        PROVE  /\ next'[i] - 1 \in DOMAIN edges[path'[i]]
               /\ edges[path'[i]][next'[i] - 1] = path'[i + 1]
    <3>1. CASE i = n
      <4>1. path'[i] = Here /\ path'[i + 1] = Target /\ next'[i] = At + 1 /\ (At + 1) - 1 = At
        BY <3>1, <1>4, <1>5, <1>6
      <4> QED BY <4>1, <1>4
    <3>2. CASE i \in 1 .. n - 1
      <4>1. i + 1 \in 1 .. n
        BY <3>2, <1>3
      <4>2. path'[i] = path[i] /\ path'[i + 1] = path[i + 1] /\ next'[i] = next[i]
        BY <3>2, <4>1, <1>5, <1>6
      <4> QED BY <3>2, <4>2, <1>3 DEF GraphInv, PathLinked
    <3> QED BY <3>1, <3>2, <1>8
  <2>4. (n + 1) - 1 = n
    BY <1>3
  <2> QED BY <2>2, <2>3, <2>4, <1>1, <1>5 DEF PathLinked
<1>10. Apart'
  <2>1. \A i \in 1 .. n : path[i] # Target
    <3>1. DOMAIN path = 1 .. n
      BY <1>2, <1>3
    <3> QED BY <3>1, <1>1 DEF In
  <2>2. ASSUME NEW i \in 1 .. n + 1, NEW j \in 1 .. n + 1, path'[i] = path'[j]
        PROVE  i = j
    <3>1. CASE i = n + 1 \/ j = n + 1
      BY <3>1, <2>1, <2>2, <1>3, <1>5
    <3>2. CASE i # n + 1 /\ j # n + 1
      <4>1. i \in 1 .. n /\ j \in 1 .. n
        BY <3>2, <1>3
      <4> QED BY <4>1, <2>2, <1>3, <1>5 DEF GraphInv, Apart
    <3> QED BY <3>1, <3>2
  <2>3. ASSUME NEW i \in 1 .. n + 1 PROVE ~In(path'[i], order)
    <3>1. CASE i = n + 1
      BY <3>1, <1>1, <1>5
    <3>2. CASE i # n + 1
      <4>1. i \in 1 .. n
        BY <3>2, <1>3
      <4> QED BY <4>1, <1>3, <1>5 DEF GraphInv, Apart
    <3> QED BY <3>1, <3>2
  <2>4. \A i, j \in 1 .. Len(order) : order[i] = order[j] => i = j
    BY DEF GraphInv, Apart
  <2> QED BY <2>2, <2>3, <2>4, <1>1, <1>5 DEF Apart
<1>11. \A g : In(g, path) => In(g, path')
  <2> SUFFICES ASSUME NEW i \in 1 .. n PROVE i \in 1 .. n + 1 /\ path'[i] = path[i]
    BY <1>2, <1>3, <1>5 DEF In
  <2> QED BY <1>3, <1>5
<1>12. In(Target, path')
  <2>1. n + 1 \in DOMAIN path'
    BY <1>3, <1>5
  <2> QED BY <2>1, <1>5 DEF In
<1>13. ImportsReached'
  BY <1>1, <1>11 DEF GraphInv, ImportsReached
<1>14. ImportsFirst' /\ CyclesReal'
  BY <1>1 DEF GraphInv, ImportsFirst, CyclesReal, Edge
<1>15. ASSUME NEW i \in 1 .. n + 1, NEW e \in DOMAIN edges[path'[i]], e < next'[i]
       PROVE  /\ i \in 1 .. n /\ path'[i] = path[i]
              /\ e < next[i] \/ (i = n /\ e = At)
  <2>1. e \in Nat \ {0}
    BY <1>2, <1>5
  <2>2. i \in 1 .. n
    BY <2>1, <1>3, <1>6, <1>15
  <2>3. CASE i = n
    BY <2>1, <2>2, <2>3, <1>4, <1>5, <1>6, <1>15
  <2>4. CASE i \in 1 .. n - 1
    BY <2>2, <2>4, <1>5, <1>6, <1>15
  <2> QED BY <2>2, <2>3, <2>4, <1>8
<1>16. NeedsMet'
  <2> SUFFICES ASSUME NEW i \in 1 .. n + 1, NEW e \in DOMAIN edges[path'[i]], e < next'[i]
               PROVE  \/ Met(order, diagnostics, path'[i], edges[path'[i]][e], e)
                      \/ i < n + 1 /\ e = next'[i] - 1
    BY <1>1, <1>5 DEF NeedsMet
  <2>1. CASE i = n /\ e = At
    BY <2>1, <1>3, <1>4, <1>6
  <2>2. CASE e < next[i]
    <3>1. i \in 1 .. n /\ path'[i] = path[i]
      BY <1>15
    <3>2. \/ Met(order, diagnostics, path[i], edges[path[i]][e], e)
          \/ i < n /\ e = next[i] - 1
      BY <2>2, <3>1, <1>3 DEF GraphInv, NeedsMet
    <3>3. i < n => next'[i] = next[i] /\ i < n + 1
      BY <3>1, <1>3, <1>6, <1>8
    <3> QED BY <3>1, <3>2, <3>3
  <2> QED BY <2>1, <2>2, <1>15
<1>17. PathReached'
  <2> SUFFICES ASSUME NEW i \in 1 .. n + 1, NEW e \in DOMAIN edges[path'[i]], e < next'[i]
               PROVE  In(edges[path'[i]][e], order) \/ In(edges[path'[i]][e], path')
    BY <1>1, <1>5 DEF PathReached
  <2>1. CASE i = n /\ e = At
    BY <2>1, <1>4, <1>12, <1>15
  <2>2. CASE e < next[i]
    <3>1. i \in 1 .. n /\ path'[i] = path[i]
      BY <1>15
    <3>2. In(edges[path[i]][e], order) \/ In(edges[path[i]][e], path)
      BY <2>2, <3>1, <1>3 DEF GraphInv, PathReached
    <3> QED BY <3>1, <3>2, <1>11
  <2> QED BY <2>1, <2>2, <1>15
<1> QED BY <1>7, <1>9, <1>10, <1>13, <1>14, <1>16, <1>17 DEF GraphInv

\* Leave: every edge of the file is met, and it goes at the end of the order.
LEMMA LeaveInv == ASSUME GraphInv, Leave PROVE GraphInv'
<1>1. /\ path # <<>> /\ At \notin DOMAIN edges[Here]
      /\ order' = Append(order, Here)
      /\ path' = SubSeq(path, 1, Len(path) - 1) /\ next' = SubSeq(next, 1, Len(path) - 1)
      /\ edges' = edges /\ diagnostics' = diagnostics
  BY DEF Leave
<1>2. /\ GraphTypeOK /\ path \in Seq(File) /\ next \in Seq(Nat) /\ Len(next) = Len(path)
      /\ order \in Seq(File) /\ edges \in [File -> Seq(File)]
  BY DEF GraphInv, GraphTypeOK
<1>3. PICK n \in Nat \ {0} : n = Len(path)
  BY <1>1, <1>2, PassedSeq
<1>4. PICK m \in Nat : m = Len(order)
  BY <1>2
<1>5. path[n] = Here /\ next[n] = At /\ Here \in File /\ At \in Nat
  BY <1>1, <1>2, <1>3, PassedSeq
<1>6. At > 0
  BY <1>3, <1>5 DEF GraphInv, PathLinked
<1>7. /\ path' \in Seq(File) /\ Len(path') = n - 1
      /\ \A i \in 1 .. n - 1 : path'[i] = path[i]
  <2>1. path' = SubSeq(path, 1, n - 1)
    BY <1>1, <1>3
  <2> QED BY <2>1, <1>2, <1>3
<1>8. /\ next' \in Seq(Nat) /\ Len(next') = n - 1
      /\ \A i \in 1 .. n - 1 : next'[i] = next[i]
  <2>1. next' = SubSeq(next, 1, n - 1)
    BY <1>1, <1>3
  <2>2. next \in Seq(Nat) /\ Len(next) = n
    BY <1>2, <1>3
  <2> QED BY <2>1, <2>2
<1>9. /\ order' \in Seq(File) /\ Len(order') = m + 1 /\ order'[m + 1] = Here
      /\ \A i \in 1 .. m : order'[i] = order[i]
  BY <1>1, <1>2, <1>4, <1>5
<1>10. GraphTypeOK'
  BY <1>1, <1>2, <1>7, <1>8, <1>9 DEF GraphTypeOK
<1>11. \A i \in 1 .. m + 1 : i \in 1 .. m \/ i = m + 1
  BY <1>4
<1>12. \A i \in 1 .. n : i = n \/ i \in 1 .. n - 1
  BY <1>3
<1>13. \A g : In(g, order') <=> In(g, order) \/ g = Here
  <2>1. DOMAIN order = 1 .. m /\ DOMAIN order' = 1 .. m + 1
    BY <1>2, <1>4, <1>9
  <2>2. m + 1 \in 1 .. m + 1 /\ \A i \in 1 .. m : i \in 1 .. m + 1
    BY <1>4
  <2>3. ASSUME NEW g, In(g, order') PROVE In(g, order) \/ g = Here
    BY <2>1, <2>3, <1>9, <1>11 DEF In
  <2>4. ASSUME NEW g, In(g, order) PROVE In(g, order')
    BY <2>1, <2>2, <2>4, <1>9 DEF In
  <2>5. In(Here, order')
    BY <2>1, <2>2, <1>9 DEF In
  <2> QED BY <2>3, <2>4, <2>5
<1>14. \A g : In(g, path) => In(g, path') \/ g = Here
  <2>1. DOMAIN path = 1 .. n /\ DOMAIN path' = 1 .. n - 1
    BY <1>2, <1>3, <1>7
  <2> QED BY <2>1, <1>5, <1>7, <1>12 DEF In
<1>15. \A e \in DOMAIN edges[Here] : e < At
  BY <1>1, <1>2, <1>5, <1>6
<1>16. PathLinked'
  <2>1. \A i \in 1 .. n - 1 : next'[i] > 0
    BY <1>3, <1>8 DEF GraphInv, PathLinked
  <2>2. ASSUME NEW i \in 1 .. (n - 1) - 1
        PROVE  /\ next'[i] - 1 \in DOMAIN edges[path'[i]]
               /\ edges[path'[i]][next'[i] - 1] = path'[i + 1]
    <3>1. i \in 1 .. n - 1 /\ i + 1 \in 1 .. n - 1
      BY <1>3
    <3>2. path'[i] = path[i] /\ path'[i + 1] = path[i + 1] /\ next'[i] = next[i]
      BY <3>1, <1>7, <1>8
    <3> QED BY <3>1, <3>2, <1>3 DEF GraphInv, PathLinked
  <2> QED BY <2>1, <2>2, <1>1, <1>7 DEF PathLinked
<1>17. Apart'
  <2>1. /\ \A i \in 1 .. n - 1 : i \in 1 .. n /\ i # n
        /\ n \in 1 .. n
    BY <1>3
  <2>2. /\ \A i, j \in 1 .. n : path[i] = path[j] => i = j
        /\ \A i, j \in 1 .. m : order[i] = order[j] => i = j
        /\ \A i \in 1 .. n : ~In(path[i], order)
    BY <1>3, <1>4 DEF GraphInv, Apart
  <2>3. \A i \in 1 .. m : order[i] # Here
    <3>1. DOMAIN order = 1 .. m /\ ~In(Here, order)
      BY <2>1, <2>2, <1>2, <1>4, <1>5
    <3> QED BY <3>1 DEF In
  <2>4. ASSUME NEW i \in 1 .. m + 1, NEW j \in 1 .. m + 1, order'[i] = order'[j]
        PROVE  i = j
    BY <2>2, <2>3, <2>4, <1>9, <1>11
  <2>5. \A i, j \in 1 .. n - 1 : path'[i] = path'[j] => i = j
    BY <2>1, <2>2, <1>7
  <2>6. \A i \in 1 .. n - 1 : ~In(path'[i], order')
    BY <2>1, <2>2, <1>5, <1>7, <1>13
  <2> QED BY <2>4, <2>5, <2>6, <1>7, <1>9 DEF Apart
<1>18. \A f, g, e : Met(order, diagnostics, f, g, e) => Met(order', diagnostics, f, g, e)
  BY <1>13 DEF Met
<1>19. NeedsMet'
  <2> SUFFICES ASSUME NEW i \in 1 .. n - 1, NEW e \in DOMAIN edges[path[i]], e < next[i]
               PROVE  \/ Met(order', diagnostics, path[i], edges[path[i]][e], e)
                      \/ i < n - 1 /\ e = next[i] - 1
    BY <1>1, <1>7, <1>8 DEF NeedsMet
  <2>1. i \in 1 .. n /\ i < n
    BY <1>3
  <2>2. Met(order, diagnostics, path[i], edges[path[i]][e], e) \/ e = next[i] - 1
    BY <2>1, <1>3 DEF GraphInv, NeedsMet
  <2>3. CASE i = n - 1 /\ e = next[i] - 1
    <3>1. i + 1 = n
      BY <2>3, <1>3
    <3>2. edges[path[i]][next[i] - 1] = path[i + 1]
      BY <1>3 DEF GraphInv, PathLinked
    <3> QED BY <2>3, <3>1, <3>2, <1>5, <1>13 DEF Met
  <2>4. CASE i # n - 1 /\ e = next[i] - 1
    BY <2>1, <2>4, <1>3
  <2> QED BY <2>2, <2>3, <2>4, <1>18
<1>20. PathReached'
  <2> SUFFICES ASSUME NEW i \in 1 .. n - 1, NEW e \in DOMAIN edges[path'[i]], e < next'[i]
               PROVE  In(edges[path'[i]][e], order') \/ In(edges[path'[i]][e], path')
    BY <1>1, <1>7 DEF PathReached
  <2>1. i \in 1 .. n /\ path'[i] = path[i] /\ next'[i] = next[i]
    BY <1>3, <1>7, <1>8
  <2>2. In(edges[path[i]][e], order) \/ In(edges[path[i]][e], path)
    BY <2>1, <1>3 DEF GraphInv, PathReached
  <2> QED BY <2>1, <2>2, <1>13, <1>14
<1>21. ImportsReached'
  <2> SUFFICES ASSUME NEW i \in 1 .. m + 1, NEW e \in DOMAIN edges[order'[i]]
               PROVE  In(edges[order'[i]][e], order') \/ In(edges[order'[i]][e], path')
    <3>1. DOMAIN order' = 1 .. m + 1
      BY <1>9
    <3> QED BY <3>1, <1>1 DEF ImportsReached
  <2>1. In(edges[order'[i]][e], order) \/ In(edges[order'[i]][e], path)
    <3>1. CASE i = m + 1
      <4>1. order'[i] = Here /\ n \in 1 .. n
        BY <3>1, <1>3, <1>9
      <4> QED BY <4>1, <1>3, <1>5, <1>15 DEF GraphInv, PathReached
    <3>2. CASE i \in 1 .. m
      <4>1. order'[i] = order[i] /\ i \in DOMAIN order
        BY <3>2, <1>2, <1>4, <1>9
      <4> QED BY <4>1 DEF GraphInv, ImportsReached
    <3> QED BY <3>1, <3>2, <1>11
  <2> QED BY <2>1, <1>13, <1>14
<1>22. ImportsFirst'
  <2> SUFFICES ASSUME NEW i \in 1 .. m + 1, NEW e \in DOMAIN edges[order'[i]]
               PROVE  \/ \E j \in 1 .. i - 1 : order'[j] = edges[order'[i]][e]
                      \/ Diagnosed(diagnostics, order'[i], e)
    <3>1. DOMAIN order' = 1 .. m + 1
      BY <1>9
    <3> QED BY <3>1, <1>1 DEF ImportsFirst
  <2>1. CASE i = m + 1
    <3>1. order'[i] = Here /\ n \in 1 .. n /\ i - 1 = m
      BY <2>1, <1>3, <1>4, <1>9
    <3>2. Met(order, diagnostics, Here, edges[Here][e], e)
      BY <3>1, <1>3, <1>5, <1>15 DEF GraphInv, NeedsMet
    <3>3. CASE Diagnosed(diagnostics, Here, e)
      BY <3>1, <3>3
    <3>4. CASE In(edges[Here][e], order)
      <4>1. PICK j \in 1 .. m : order[j] = edges[Here][e]
        BY <3>4, <1>2, <1>4 DEF In
      <4>2. order'[j] = edges[Here][e]
        BY <4>1, <1>9
      <4> QED BY <3>1, <4>2
    <3> QED BY <3>2, <3>3, <3>4 DEF Met
  <2>2. CASE i \in 1 .. m
    <3>1. order'[i] = order[i] /\ i \in DOMAIN order
      BY <2>2, <1>2, <1>4, <1>9
    <3>2. \/ \E j \in 1 .. i - 1 : order[j] = edges[order[i]][e]
          \/ Diagnosed(diagnostics, order[i], e)
      BY <3>1 DEF GraphInv, ImportsFirst
    <3>3. \A j \in 1 .. i - 1 : order'[j] = order[j]
      BY <2>2, <1>4, <1>9
    <3> QED BY <3>1, <3>2, <3>3
  <2> QED BY <2>1, <2>2, <1>11
<1>23. CyclesReal'
  BY <1>1 DEF GraphInv, CyclesReal, Edge
<1> QED BY <1>10, <1>16, <1>17, <1>19, <1>20, <1>21, <1>22, <1>23 DEF GraphInv

\* A step that changes nothing.
LEMMA StutterInv == ASSUME GraphInv, UNCHANGED graphVars PROVE GraphInv'
<1>1. /\ edges' = edges /\ path' = path /\ next' = next
      /\ order' = order /\ diagnostics' = diagnostics
  BY DEF graphVars
<1>2. GraphTypeOK'
  BY <1>1 DEF GraphInv, GraphTypeOK
<1>3. PathLinked'
  BY <1>1 DEF GraphInv, PathLinked
<1>4. Apart'
  BY <1>1 DEF GraphInv, Apart
<1>5. NeedsMet'
  BY <1>1 DEF GraphInv, NeedsMet
<1>6. PathReached'
  BY <1>1 DEF GraphInv, PathReached
<1>7. ImportsReached' /\ ImportsFirst'
  BY <1>1 DEF GraphInv, ImportsReached, ImportsFirst
<1>8. CyclesReal'
  BY <1>1 DEF GraphInv, CyclesReal, Edge
<1> QED BY <1>2, <1>3, <1>4, <1>5, <1>6, <1>7, <1>8 DEF GraphInv

\* The walk keeps its invariant from any graph.
THEOREM GraphInvariance == GraphSpec => []GraphInv
<1>1. GraphInv /\ [GraphNext]_graphVars => GraphInv'
  BY CycleInv, SkipInv, VisitInv, LeaveInv, StutterInv DEF GraphNext
<1> QED BY <1>1, InitInv, PTL DEF GraphSpec

\* No import of a file that has been visited is lost, whatever cycles the walk
\* reported before it came to it.
THEOREM NoImportLost == GraphSpec => []ImportsReached
<1>1. GraphInv => ImportsReached
  BY DEF GraphInv
<1> QED BY <1>1, GraphInvariance, PTL

\* Every file of a program runs after the files it imports, unless the import
\* that asks for it has been reported as part of a cycle.
THEOREM ImportsRunFirst == GraphSpec => []ImportsFirst
<1>1. GraphInv => ImportsFirst
  BY DEF GraphInv
<1> QED BY <1>1, GraphInvariance, PTL

\* No file runs twice, however many paths lead to it.
THEOREM FilesRunOnce == GraphSpec => []RunsOnce
<1>1. GraphInv => RunsOnce
  <2> SUFFICES ASSUME GraphInv PROVE RunsOnce
    OBVIOUS
  <2>1. DOMAIN order = 1 .. Len(order)
    BY DEF GraphInv, GraphTypeOK
  <2> QED BY <2>1 DEF GraphInv, Apart, RunsOnce
<1> QED BY <1>1, GraphInvariance, PTL

\* What is reported as an import cycle is one.
THEOREM CyclesAreReal == GraphSpec => []CyclesReal
<1>1. GraphInv => CyclesReal
  BY DEF GraphInv
<1> QED BY <1>1, GraphInvariance, PTL
=============================================================================
