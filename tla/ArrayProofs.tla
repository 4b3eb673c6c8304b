------------------------------ MODULE ArrayProofs ------------------------------
(***************************************************************************)
(* The builtins of arrays, for any values, any positions and counts and    *)
(* any bound on the length. Each one is shown to have, in the buffer, the  *)
(* effect its name promises on the live cells, and to leave the spare ones *)
(* clear; so the buffer is never unsound. Then the refinement: seen        *)
(* through the length, every step is a step of ECMA-262's list. Then the   *)
(* builtins that only read. Last, the order a sort leaves.                 *)
(***************************************************************************)
EXTENDS ArrayWalks, Induction, SequenceTheorems, FiniteSetTheorems

-----------------------------------------------------------------------------
(* Buffers: the three ways to write a run of cells.                        *)

\* A function on the first n indices is a buffer.
LEMMA IsBuffer ==
  ASSUME NEW n \in Nat, NEW f \in [1 .. n -> Cell]
  PROVE  f \in Seq(Cell) /\ Len(f) = n /\ DOMAIN f = 1 .. n
OBVIOUS

\* A buffer is a function on its first indices.
LEMMA BufferIs ==
  ASSUME NEW cells \in Seq(Cell)
  PROVE  /\ Len(cells) \in Nat /\ DOMAIN cells = 1 .. Len(cells)
         /\ cells \in [1 .. Len(cells) -> Cell]
OBVIOUS

\* What a buffer of the same size, written anew, is.
Rewritten(out, cells) == out \in Seq(Cell) /\ Len(out) = Len(cells)

\* One cell for a run.
LEMMA OverwriteIs ==
  ASSUME NEW cells \in Seq(Cell), NEW from \in Int, NEW to \in Int, NEW c \in Cell
  PROVE  /\ Rewritten(Overwrite(cells, from, to, c), cells)
         /\ \A k \in 1 .. Len(cells) :
              Overwrite(cells, from, to, c)[k] = IF from < k /\ k <= to THEN c ELSE cells[k]
<1> DEFINE out == Overwrite(cells, from, to, c)
           n == Len(cells)
<1>1. n \in Nat /\ DOMAIN cells = 1 .. n /\ cells \in [1 .. n -> Cell]
  BY BufferIs
<1>2. out \in [1 .. n -> Cell] /\ \A k \in 1 .. n : out[k] = IF from < k /\ k <= to THEN c ELSE cells[k]
  <2> HIDE DEF n
  <2> QED BY <1>1 DEF Overwrite
<1> HIDE DEF out, n
<1>3. out \in Seq(Cell) /\ Len(out) = n
  BY <1>1, <1>2, IsBuffer
<1> QED BY <1>2, <1>3 DEF out, n, Rewritten

\* A run moved within a buffer.
LEMMA MoveRunIs ==
  ASSUME NEW cells \in Seq(Cell), NEW to \in Nat, NEW from \in Nat, NEW m \in Int,
         from + m <= Len(cells)
  PROVE  /\ Rewritten(MoveRun(cells, to, from, m), cells)
         /\ \A k \in 1 .. Len(cells) :
              MoveRun(cells, to, from, m)[k] = IF to < k /\ k <= to + m THEN cells[k - to + from] ELSE cells[k]
<1> DEFINE out == MoveRun(cells, to, from, m)
           n == Len(cells)
<1>1. n \in Nat /\ DOMAIN cells = 1 .. n /\ cells \in [1 .. n -> Cell]
  BY BufferIs
<1>2. \A k \in 1 .. n : to < k /\ k <= to + m => k - to + from \in 1 .. n
  BY <1>1
<1>3. out \in [1 .. n -> Cell]
      /\ \A k \in 1 .. n : out[k] = IF to < k /\ k <= to + m THEN cells[k - to + from] ELSE cells[k]
  <2> HIDE DEF n
  <2> QED BY <1>1, <1>2 DEF MoveRun
<1> HIDE DEF out, n
<1>4. out \in Seq(Cell) /\ Len(out) = n
  BY <1>1, <1>3, IsBuffer
<1> QED BY <1>3, <1>4 DEF out, n, Rewritten

\* A run of items laid into a buffer.
LEMMA PlaceIs ==
  ASSUME NEW cells \in Seq(Cell), NEW at \in Nat, NEW items \in Seq(Cell)
  PROVE  /\ Rewritten(Place(cells, at, items), cells)
         /\ \A k \in 1 .. Len(cells) :
              Place(cells, at, items)[k] = IF at < k /\ k <= at + Len(items) THEN items[k - at] ELSE cells[k]
<1> DEFINE out == Place(cells, at, items)
           n == Len(cells)
           m == Len(items)
<1>1. n \in Nat /\ DOMAIN cells = 1 .. n /\ cells \in [1 .. n -> Cell]
  BY BufferIs
<1>2. m \in Nat /\ items \in [1 .. m -> Cell]
  BY BufferIs
<1>3. \A k \in 1 .. n : at < k /\ k <= at + m => k - at \in 1 .. m
  BY <1>1, <1>2
<1>4. out = [k \in 1 .. n |-> IF at < k /\ k <= at + m THEN items[k - at] ELSE cells[k]]
  <2> HIDE DEF n
  <2> QED BY <1>1 DEF Place
<1>5. out \in [1 .. n -> Cell]
      /\ \A k \in 1 .. n : out[k] = IF at < k /\ k <= at + m THEN items[k - at] ELSE cells[k]
  <2> HIDE DEF n, m, out
  <2> QED BY <1>1, <1>2, <1>3, <1>4
<1> HIDE DEF out, n, m
<1>6. out \in Seq(Cell) /\ Len(out) = n
  BY <1>1, <1>5, IsBuffer
<1> QED BY <1>5, <1>6 DEF out, n, m, Rewritten

-----------------------------------------------------------------------------
(* Arrays: header and buffer.                                              *)

\* The header fits the buffer, and no spare cell holds anything: StoreInv of any array.
Fits(a) ==
  /\ a \in [length : Nat, elements : Seq(Cell)]
  /\ a.length <= Len(a.elements) /\ Len(a.elements) > 0
  /\ \A k \in DOMAIN a.elements : k > a.length => a.elements[k] = Undefined

\* The parts of an array that fits.
LEMMA FitsParts ==
  ASSUME NEW a, Fits(a)
  PROVE  /\ a.length \in Nat /\ a.elements \in Seq(Cell) /\ Len(a.elements) \in Nat
         /\ a.length <= Len(a.elements) /\ Len(a.elements) > 0
         /\ DOMAIN a.elements = 1 .. Len(a.elements)
         /\ \A k \in 1 .. Len(a.elements) : a.elements[k] \in Cell
         /\ \A k \in 1 .. Len(a.elements) : k > a.length => a.elements[k] = Undefined
<1>1. a.length \in Nat /\ a.elements \in Seq(Cell)
  BY DEF Fits
<1>2. /\ Len(a.elements) \in Nat /\ DOMAIN a.elements = 1 .. Len(a.elements)
      /\ a.elements \in [1 .. Len(a.elements) -> Cell]
  BY <1>1, BufferIs
<1> QED BY <1>1, <1>2 DEF Fits

\* An array from its parts.
LEMMA FitsMade ==
  ASSUME NEW n \in Nat, NEW cells \in Seq(Cell), n <= Len(cells), Len(cells) > 0,
         \A k \in 1 .. Len(cells) : k > n => cells[k] = Undefined
  PROVE  Fits([length |-> n, elements |-> cells])
<1>1. DOMAIN cells = 1 .. Len(cells)
  BY BufferIs
<1> QED BY <1>1 DEF Fits

\* What the program sees of an array that fits.
LEMMA LiveIs ==
  ASSUME NEW a, Fits(a)
  PROVE  /\ Live(a) \in Seq(Cell) /\ Len(Live(a)) = a.length /\ DOMAIN Live(a) = 1 .. a.length
         /\ \A k \in 1 .. a.length : Live(a)[k] = a.elements[k]
<1>1. a.length \in Nat /\ a.elements \in Seq(Cell) /\ a.length <= Len(a.elements)
  BY FitsParts
<1> QED BY <1>1, SubSeqProperties DEF Live

\* The recursion of Doublings.
LEMMA DoublingsAre ==
  ASSUME NEW c \in Nat, NEW i \in Nat
  PROVE  /\ Doublings(c, i) \in [0 .. i + 1 -> Nat] /\ Doublings(c, i)[0] = c
         /\ \A n \in 1 .. i + 1 : Doublings(c, i)[n] = 2 * Doublings(c, i)[n - 1]
<1> DEFINE L == i + 1
           G == [z \in (1 .. L) \X Nat |-> 2 * z[2]]
           Defines(f) == f = [n \in 0 .. L |-> IF n = 0 THEN c ELSE 2 * f[n - 1]]
<1>1. L \in Nat /\ G \in [(1 .. L) \X Nat -> Nat]
  OBVIOUS
<1>2. PICK f : Recursion(f, L, Nat, c, G)
  <2> HIDE DEF L, G
  <2> QED BY <1>1, Recursive
<1>3. f \in [0 .. L -> Nat] /\ f[0] = c /\ \A n \in 1 .. L : f[n] = G[<<n, f[n - 1]>>]
  BY <1>2 DEF Recursion
<1>4. \A n \in 1 .. L : f[n] = 2 * f[n - 1]
  <2> TAKE n \in 1 .. L
  <2>1. f[n - 1] \in Nat
    BY <1>1, <1>3
  <2> QED BY <1>3, <2>1
<1>5. Defines(f)
  BY <1>3, <1>4
<1> DEFINE g == CHOOSE h : Defines(h)
<1>6. Defines(g)
  BY <1>5
<1>7. Doublings(c, i) = g
  BY DEF Doublings
<1>8. g = [n \in 0 .. L |-> IF n = 0 THEN c ELSE 2 * g[n - 1]]
  BY <1>6
<1> HIDE DEF g, Defines
<1> DEFINE S == {n \in 0 .. L : g[n] \in Nat}
<1>9. 0 \in S /\ \A n \in 0 .. (L - 1) : n \in S => n + 1 \in S
  <2>1. 0 \in S
    BY <1>8
  <2>2. ASSUME NEW n \in 0 .. (L - 1), n \in S PROVE n + 1 \in S
    <3>1. g[n + 1] = 2 * g[n] /\ g[n] \in Nat
      BY <1>8, <2>2
    <3> QED BY <3>1, <2>2
  <2> QED BY <2>1, <2>2
<1>10. \A n \in 0 .. L : g[n] \in Nat
  <2>1. \A n \in 0 .. L : n \in S
    <3> HIDE DEF S, L
    <3> QED BY <1>1, <1>9, UpTo
  <2> QED BY <2>1
<1> QED BY <1>7, <1>8, <1>10

\* Doubling a capacity often enough passes the index.
LEMMA GrownCapacityFits ==
  ASSUME NEW c \in Nat, c > 0, NEW i \in Nat
  PROVE  GrownCapacity(c, i) \in Nat /\ GrownCapacity(c, i) > i
<1> DEFINE L == i + 1
           d == Doublings(c, i)
           S == {n \in 0 .. L : d[n] >= n + 1}
           T == {n \in 0 .. L : d[n] > i}
<1>1. L \in Nat /\ d \in [0 .. L -> Nat] /\ d[0] = c /\ \A n \in 1 .. L : d[n] = 2 * d[n - 1]
  <2>1. L \in Nat
    OBVIOUS
  <2>2. d \in [0 .. L -> Nat] /\ d[0] = c /\ \A n \in 1 .. L : d[n] = 2 * d[n - 1]
    BY DoublingsAre, Zenon
  <2> QED BY <2>1, <2>2
<1> HIDE DEF d
<1>2. 0 \in S
  BY <1>1
<1>3. ASSUME NEW n \in 0 .. (L - 1), n \in S PROVE n + 1 \in S
  <2>1. d[n + 1] = 2 * d[(n + 1) - 1] /\ d[n] \in Nat /\ d[n] >= n + 1
    BY <1>1, <1>3
  <2> QED BY <2>1, <1>3
<1>4. L \in S
  <2>1. \A n \in 0 .. L : n \in S
    <3> HIDE DEF S, L
    <3> QED BY <1>1, <1>2, <1>3, UpTo
  <2> QED BY <2>1, <1>1
<1>5. T \subseteq Nat /\ T # {}
  <2>1. L \in 0 .. L /\ d[L] >= L + 1 /\ L > i /\ d[L] \in Nat
    BY <1>1, <1>4
  <2>2. d[L] > i
    <3> HIDE DEF L
    <3> QED BY <1>1, <2>1
  <2> QED BY <2>1, <2>2
<1>6. PICK m \in T : \A n \in T : m <= n
  <2> HIDE DEF T
  <2> QED BY <1>5, LeastNat
<1>7. Least(T) \in T
  <2> HIDE DEF T
  <2> QED BY <1>6 DEF Least
<1>8. GrownCapacity(c, i) = d[Least(T)]
  BY DEF GrownCapacity, d
<1> HIDE DEF T
<1>9. d[Least(T)] \in Nat /\ d[Least(T)] > i
  BY <1>1, <1>7 DEF T
<1> QED BY <1>8, <1>9

\* Growth leaves the live cells where they were, and makes room for the index.
LEMMA GrowFits ==
  ASSUME NEW a, Fits(a), NEW i \in Nat
  PROVE  /\ Fits(Grow(a, i)) /\ Grow(a, i).length = a.length
         /\ i < Len(Grow(a, i).elements) /\ Len(a.elements) <= Len(Grow(a, i).elements)
         /\ \A k \in 1 .. a.length : Grow(a, i).elements[k] = a.elements[k]
<1> DEFINE n == Len(a.elements)
           g == GrownCapacity(n, i)
           cells == [k \in 1 .. g |-> IF k <= a.length THEN a.elements[k] ELSE Undefined]
<1>1. /\ a.length \in Nat /\ n \in Nat /\ a.length <= n /\ n > 0
      /\ \A k \in 1 .. n : a.elements[k] \in Cell
  BY FitsParts
<1>2. CASE i < n
  BY <1>1, <1>2 DEF Grow, Capacity
<1>3. CASE ~(i < n)
  <2>1. g \in Nat /\ g > i /\ g >= n
    <3> HIDE DEF n
    <3>1. g \in Nat /\ g > i
      BY <1>1, GrownCapacityFits
    <3> HIDE DEF g
    <3> QED BY <1>1, <1>3, <3>1
  <2>2. Undefined \in Cell
    BY DEF Cell
  <2>3. cells \in [1 .. g -> Cell]
    <3> HIDE DEF n, g
    <3> QED BY <1>1, <2>1, <2>2
  <2>4. /\ \A k \in 1 .. g : k > a.length => cells[k] = Undefined
        /\ \A k \in 1 .. a.length : cells[k] = a.elements[k]
    <3> HIDE DEF n, g
    <3> QED BY <1>1, <2>1
  <2>5. Grow(a, i) = [a EXCEPT !.elements = cells]
    BY <1>3 DEF Grow, Capacity
  <2> HIDE DEF cells, g
  <2>6. cells \in Seq(Cell) /\ Len(cells) = g
    BY <2>1, <2>3, IsBuffer
  <2>7. [a EXCEPT !.elements = cells] = [length |-> a.length, elements |-> cells]
    BY DEF Fits
  <2> HIDE DEF n
  <2>8. Fits([length |-> a.length, elements |-> cells])
    BY <1>1, <2>1, <2>4, <2>6, FitsMade
  <2> QED BY <1>1, <2>1, <2>4, <2>5, <2>6, <2>7, <2>8 DEF n
<1> QED BY <1>2, <1>3

\* The program's view of an array is given by its cells below the length.
LEMMA LiveEquals ==
  ASSUME NEW a, Fits(a), NEW l \in Seq(Cell), Len(l) = a.length,
         \A k \in 1 .. a.length : l[k] = a.elements[k]
  PROVE  Live(a) = l
<1>1. /\ Live(a) \in Seq(Cell) /\ Len(Live(a)) = Len(l)
      /\ \A k \in 1 .. Len(l) : Live(a)[k] = l[k]
  BY LiveIs
<1> HIDE DEF Live
<1> QED BY <1>1, SeqEqual

-----------------------------------------------------------------------------
(* The builtins that change the array: each keeps it fitting, and does to  *)
(* what the program sees what its name says.                               *)

\* What an operation on a makes: an array that fits, and shows l.
Shows(b, l) == Fits(b) /\ Live(b) = l

\* Appending a run.
LEMMA AppendAllShows ==
  ASSUME NEW a, Fits(a), NEW items \in Seq(Cell)
  PROVE  /\ Shows(AppendAll(a, items), Live(a) \o items)
         /\ AppendAll(a, items).length = a.length + Len(items)
<1> DEFINE n == a.length
           m == Len(items)
           l == Live(a)
<1>1. /\ n \in Nat /\ m \in Nat /\ (items = <<>> <=> m = 0)
      /\ l \in Seq(Cell) /\ Len(l) = n /\ \A k \in 1 .. n : l[k] = a.elements[k]
  BY FitsParts, LiveIs, BufferIs, EmptySeq
<1>2. CASE items = <<>>
  <2>1. AppendAll(a, items) = a /\ l \o items = l
    BY <1>1, <1>2, ConcatEmptySeq DEF AppendAll
  <2> QED BY <1>1, <1>2, <2>1 DEF Shows
<1>3. CASE items # <<>>
  <2> DEFINE g == Grow(a, n + m - 1)
             cells == Place(g.elements, n, items)
             b == [length |-> n + m, elements |-> cells]
  <2>1. n + m - 1 \in Nat
    BY <1>1, <1>3
  <2>2. /\ Fits(g) /\ g.length = n /\ n + m - 1 < Len(g.elements)
        /\ \A k \in 1 .. n : g.elements[k] = a.elements[k]
    <3> HIDE DEF m
    <3> QED BY <2>1, GrowFits
  <2> HIDE DEF g
  <2>3. /\ g.elements \in Seq(Cell) /\ Len(g.elements) \in Nat
        /\ \A k \in 1 .. Len(g.elements) : k > n => g.elements[k] = Undefined
    BY <2>2, FitsParts
  <2>4. /\ cells \in Seq(Cell) /\ Len(cells) = Len(g.elements)
        /\ \A k \in 1 .. Len(g.elements) : cells[k] = IF n < k /\ k <= n + m THEN items[k - n] ELSE g.elements[k]
    BY <1>1, <2>3, PlaceIs DEF Rewritten
  <2>5. AppendAll(a, items) = b
    BY <1>3 DEF AppendAll, g
  <2> HIDE DEF cells, m, n
  <2>6. Fits(b)
    <3>1. n + m \in Nat /\ n + m <= Len(cells) /\ Len(cells) > 0
      BY <1>1, <2>1, <2>2, <2>3, <2>4
    <3>2. \A k \in 1 .. Len(cells) : k > n + m => cells[k] = Undefined
      BY <1>1, <2>3, <2>4
    <3> QED BY <2>4, <3>1, <3>2, FitsMade
  <2> HIDE DEF l
  <2> DEFINE r == l \o items
  <2>7. /\ r \in Seq(Cell) /\ Len(r) = n + m
        /\ \A k \in 1 .. n + m : r[k] = IF k <= n THEN l[k] ELSE items[k - n]
    BY <1>1, ConcatProperties DEF m
  <2> HIDE DEF r
  <2>8. \A k \in 1 .. n + m : r[k] = cells[k]
    <3> TAKE k \in 1 .. n + m
    <3>1. k \in 1 .. Len(g.elements) /\ k \in Nat
      BY <1>1, <2>1, <2>2, <2>3
    <3>2. CASE k <= n
      <4>1. k \in 1 .. n /\ cells[k] = g.elements[k]
        BY <1>1, <2>4, <3>1, <3>2
      <4> QED BY <1>1, <2>2, <2>7, <3>2, <4>1
    <3>3. CASE ~(k <= n)
      <4>1. cells[k] = items[k - n]
        BY <1>1, <2>4, <3>1, <3>3
      <4> QED BY <2>7, <3>3, <4>1
    <3> QED BY <3>2, <3>3
  <2>9. Live(b) = r
    BY <2>6, <2>7, <2>8, LiveEquals
  <2> QED BY <2>5, <2>6, <2>9 DEF Shows, r, l, n, m
<1> QED BY <1>2, <1>3

\* A run of undefined, empty if the length is not positive.
Blanks(n) == [i \in 1 .. n |-> Undefined]

\* What such a run is.
LEMMA BlanksAre ==
  ASSUME NEW n \in Int
  PROVE  Blanks(n) \in Seq(Cell) /\ Len(Blanks(n)) = IF n > 0 THEN n ELSE 0
<1>1. Undefined \in Cell
  BY DEF Cell
<1>2. CASE n > 0
  <2>1. n \in Nat /\ Blanks(n) \in [1 .. n -> Cell]
    BY <1>1, <1>2 DEF Blanks
  <2> QED BY <1>2, <2>1, IsBuffer
<1>3. CASE ~(n > 0)
  <2>1. 1 .. n = {} /\ 1 .. 0 = {}
    BY <1>3
  <2>2. Blanks(n) \in [1 .. 0 -> Cell]
    BY <2>1 DEF Blanks
  <2> HIDE DEF Blanks
  <2> QED BY <1>3, <2>2, IsBuffer
<1> QED BY <1>2, <1>3

\* A list written at an index.
Written(l, n, i, c) ==
  [k \in 1 .. (IF i >= n THEN i + 1 ELSE n) |->
     IF k = i + 1 THEN c ELSE IF k <= n THEN l[k] ELSE Hole]

\* A write beyond the end leaves holes before it.
LEMMA StoreShows ==
  ASSUME NEW a, Fits(a), NEW i \in Nat, NEW c \in Cell
  PROVE  Shows(Store(a, i, c), Written(Live(a), a.length, i, c))
<1> DEFINE n == a.length
           g == Grow(a, i)
           filled == Overwrite(g.elements, n, i, Hole)
           cells == [filled EXCEPT ![i + 1] = c]
           len == IF i >= n THEN i + 1 ELSE n
           b == [length |-> len, elements |-> cells]
           l == [k \in 1 .. len |-> IF k = i + 1 THEN c ELSE IF k <= n THEN Live(a)[k] ELSE Hole]
<1>1. /\ n \in Nat /\ n <= Len(a.elements) /\ Len(a.elements) \in Nat
      /\ \A k \in 1 .. n : Live(a)[k] = a.elements[k]
      /\ \A k \in 1 .. n : a.elements[k] \in Cell
  BY FitsParts, LiveIs
<1>2. Hole \in Cell
  BY DEF Cell
<1>3. /\ Fits(g) /\ g.length = n /\ i < Len(g.elements) /\ Len(a.elements) <= Len(g.elements)
      /\ \A k \in 1 .. n : g.elements[k] = a.elements[k]
  BY GrowFits
<1> HIDE DEF g
<1>4. /\ g.elements \in Seq(Cell) /\ Len(g.elements) \in Nat
      /\ \A k \in 1 .. Len(g.elements) : k > n => g.elements[k] = Undefined
  BY <1>3, FitsParts
<1>5. /\ filled \in Seq(Cell) /\ Len(filled) = Len(g.elements)
      /\ \A k \in 1 .. Len(g.elements) : filled[k] = IF n < k /\ k <= i THEN Hole ELSE g.elements[k]
  BY <1>1, <1>2, <1>4, OverwriteIs DEF Rewritten
<1>6. filled \in [1 .. Len(g.elements) -> Cell]
  BY <1>5, BufferIs
<1> HIDE DEF filled
<1>7. /\ cells \in [1 .. Len(g.elements) -> Cell]
      /\ \A k \in 1 .. Len(g.elements) : cells[k] = IF k = i + 1 THEN c ELSE filled[k]
  BY <1>3, <1>6
<1>8. Store(a, i, c) = b
  BY DEF Store, filled, g
<1> HIDE DEF cells, n
<1>9. cells \in Seq(Cell) /\ Len(cells) = Len(g.elements)
  BY <1>4, <1>7, IsBuffer
<1>10. len \in Nat /\ len <= Len(cells) /\ Len(cells) > 0
  BY <1>1, <1>3, <1>4, <1>9
<1>11. \A k \in 1 .. Len(cells) : k > len => cells[k] = Undefined
  BY <1>1, <1>4, <1>5, <1>7, <1>9
<1>12. /\ l \in [1 .. len -> Cell]
       /\ \A k \in 1 .. len : l[k] = IF k = i + 1 THEN c ELSE IF k <= n THEN Live(a)[k] ELSE Hole
  BY <1>1, <1>2
<1> HIDE DEF l
<1>13. \A k \in 1 .. len : l[k] = cells[k]
  <2> TAKE k \in 1 .. len
  <2>1. k \in 1 .. Len(g.elements) /\ k \in Nat
    BY <1>4, <1>9, <1>10
  <2>2. CASE k = i + 1
    BY <1>7, <1>12, <2>1, <2>2
  <2>3. CASE k # i + 1 /\ k <= n
    <3>1. cells[k] = g.elements[k] /\ g.elements[k] = a.elements[k] /\ k \in 1 .. n
      BY <1>1, <1>3, <1>5, <1>7, <2>1, <2>3
    <3> QED BY <1>1, <1>12, <2>1, <2>3, <3>1
  <2>4. CASE k # i + 1 /\ k > n
    <3>1. n < k /\ k <= i
      BY <1>1, <2>1, <2>4
    <3>2. filled[k] = Hole
      BY <1>5, <2>1, <3>1
    <3>3. cells[k] = Hole
      BY <1>7, <2>1, <2>4, <3>2
    <3>4. l[k] = Hole
      BY <1>1, <1>12, <2>1, <2>4
    <3> QED BY <3>3, <3>4
  <2> QED BY <1>1, <2>1, <2>2, <2>3, <2>4
<1> HIDE DEF len
<1>14. Fits(b)
  BY <1>9, <1>10, <1>11, FitsMade
<1>15. l \in Seq(Cell) /\ Len(l) = len
  BY <1>10, <1>12, IsBuffer
<1>16. Live(b) = l
  BY <1>13, <1>14, <1>15, LiveEquals
<1> QED BY <1>8, <1>14, <1>16 DEF Shows, Written, l, len, n

\* A builtin that writes only below the length.
LEMMA InPlace ==
  ASSUME NEW a, Fits(a), NEW cells, Rewritten(cells, a.elements),
         \A k \in 1 .. Len(a.elements) : k > a.length => cells[k] = a.elements[k],
         NEW l \in [1 .. a.length -> Cell], \A k \in 1 .. a.length : l[k] = cells[k]
  PROVE  Shows([a EXCEPT !.elements = cells], l)
<1> DEFINE n == a.length
           b == [length |-> n, elements |-> cells]
<1>1. /\ n \in Nat /\ n <= Len(a.elements) /\ Len(a.elements) > 0
      /\ \A k \in 1 .. Len(a.elements) : k > n => a.elements[k] = Undefined
  BY FitsParts
<1>2. [a EXCEPT !.elements = cells] = b
  BY DEF Fits
<1>3. cells \in Seq(Cell) /\ Len(cells) = Len(a.elements)
  BY DEF Rewritten
<1>4. l \in Seq(Cell) /\ Len(l) = n
  BY <1>1, IsBuffer
<1> HIDE DEF n
<1>5. Fits(b)
  BY <1>1, <1>3, FitsMade DEF n
<1>6. Live(b) = l
  BY <1>4, <1>5, LiveEquals DEF n
<1> QED BY <1>2, <1>5, <1>6 DEF Shows

\* What the program sees, as a function.
LEMMA LiveFunction ==
  ASSUME NEW a, Fits(a)
  PROVE  Live(a) \in [1 .. a.length -> Cell] /\ a.length \in Nat
<1>1. Live(a) \in Seq(Cell) /\ Len(Live(a)) = a.length /\ a.length \in Nat
  BY LiveIs, FitsParts
<1> HIDE DEF Live
<1> QED BY <1>1, BufferIs

\* A deletion leaves a hole.
LEMMA DeleteShows ==
  ASSUME NEW a, Fits(a), NEW i \in Nat
  PROVE  Shows(Delete(a, i), [k \in 1 .. a.length |-> IF k = i + 1 THEN Hole ELSE Live(a)[k]])
<1> DEFINE n == a.length
           cells == [a.elements EXCEPT ![i + 1] = Hole]
           v == Live(a)
           l == [k \in 1 .. n |-> IF k = i + 1 THEN Hole ELSE v[k]]
<1>1. /\ n \in Nat /\ a.elements \in Seq(Cell) /\ n <= Len(a.elements) /\ Len(a.elements) \in Nat
      /\ v \in [1 .. n -> Cell] /\ \A k \in 1 .. n : v[k] = a.elements[k]
  BY FitsParts, LiveIs, LiveFunction
<1>2. Hole \in Cell
  BY DEF Cell
<1> HIDE DEF v
<1>3. l \in [1 .. n -> Cell]
  BY <1>1, <1>2
<1>4. CASE i < n
  <2>1. a.elements \in [1 .. Len(a.elements) -> Cell]
    BY <1>1, BufferIs
  <2>2. /\ cells \in [1 .. Len(a.elements) -> Cell]
        /\ \A k \in 1 .. Len(a.elements) : cells[k] = IF k = i + 1 THEN Hole ELSE a.elements[k]
    BY <1>1, <1>2, <1>4, <2>1
  <2> HIDE DEF cells
  <2>3. Rewritten(cells, a.elements)
    BY <1>1, <2>2, IsBuffer DEF Rewritten
  <2>4. \A k \in 1 .. n : l[k] = cells[k]
    BY <1>1, <2>2
  <2>5. \A k \in 1 .. Len(a.elements) : k > n => cells[k] = a.elements[k]
    BY <1>1, <1>4, <2>2
  <2>6. Delete(a, i) = [a EXCEPT !.elements = cells]
    BY <1>4 DEF Delete, cells
  <2> HIDE DEF l
  <2>7. Shows([a EXCEPT !.elements = cells], l)
    BY <1>3, <2>3, <2>4, <2>5, InPlace
  <2> QED BY <2>6, <2>7 DEF l, v
<1>5. CASE ~(i < n)
  <2>1. l = v
    BY <1>1, <1>5
  <2> QED BY <1>5, <2>1 DEF Delete, Shows, v
<1> QED BY <1>4, <1>5

\* Reversal.
LEMMA ReversedShows ==
  ASSUME NEW a, Fits(a)
  PROVE  Shows(Reversed(a), [k \in 1 .. a.length |-> Live(a)[a.length + 1 - k]])
<1> DEFINE n == a.length
           e == a.elements
           cells == [k \in DOMAIN e |-> IF k <= n THEN e[n + 1 - k] ELSE e[k]]
           v == Live(a)
           l == [k \in 1 .. n |-> v[n + 1 - k]]
<1>1. /\ n \in Nat /\ e \in Seq(Cell) /\ n <= Len(e) /\ Len(e) \in Nat
      /\ v \in [1 .. n -> Cell] /\ \A k \in 1 .. n : v[k] = e[k]
  BY FitsParts, LiveIs, LiveFunction
<1>2. e \in [1 .. Len(e) -> Cell] /\ DOMAIN e = 1 .. Len(e)
  BY <1>1, BufferIs
<1>3. Reversed(a) = [a EXCEPT !.elements = cells]
  BY DEF Reversed
<1> HIDE DEF v, e
<1>4. /\ cells \in [1 .. Len(e) -> Cell]
      /\ \A k \in 1 .. Len(e) : cells[k] = IF k <= n THEN e[n + 1 - k] ELSE e[k]
  BY <1>1, <1>2
<1> HIDE DEF cells, n
<1>5. Rewritten(cells, e)
  BY <1>1, <1>4, IsBuffer DEF Rewritten
<1>6. l \in [1 .. n -> Cell] /\ \A k \in 1 .. n : l[k] = cells[k]
  <2>1. \A k \in 1 .. n : n + 1 - k \in 1 .. n
    BY <1>1
  <2> QED BY <1>1, <1>4, <2>1
<1>7. \A k \in 1 .. Len(e) : k > n => cells[k] = e[k]
  BY <1>1, <1>4
<1> HIDE DEF l
<1>8. Shows([a EXCEPT !.elements = cells], l)
  BY <1>5, <1>6, <1>7, InPlace DEF n, e
<1> QED BY <1>3, <1>8 DEF l, v, n

-----------------------------------------------------------------------------
(* Index arguments.                                                        *)

\* What a program can give as a position or a count.
Numbers == Int \cup {Undefined, NaN}

\* An absent argument is what its builtin says; the rest is a number.
LEMMA IntOrInfIs ==
  ASSUME NEW v \in Numbers, NEW absent \in Int
  PROVE  /\ IntOrInf(v, absent) \in Int
         /\ IntOrInf(v, absent) = IF v = Undefined THEN absent ELSE IF v = NaN THEN 0 ELSE v
         /\ v \in Int => IntOrInf(v, absent) = v
<1>1. CASE v = Undefined
  BY <1>1, WalkAssumption DEF IntOrInf
<1>2. CASE v # Undefined /\ v = NaN
  BY <1>2, WalkAssumption DEF IntOrInf
<1>3. CASE v # Undefined /\ v # NaN
  BY <1>3, WalkAssumption DEF IntOrInf, Numbers
<1> QED BY <1>1, <1>2, <1>3

\* A position counted from the end if it is negative, and clamped.
LEMMA RelativeIndexIs ==
  ASSUME NEW v \in Int, NEW len \in Nat
  PROVE  /\ RelativeIndex(v, len) \in 0 .. len
         /\ RelativeIndex(v, len) =
              LET n == IF v < 0 THEN len + v ELSE v
              IN  IF n < 0 THEN 0 ELSE IF n > len THEN len ELSE n
<1>1. CASE v < 0 /\ len + v <= 0
  BY <1>1 DEF RelativeIndex
<1>2. CASE v < 0 /\ len + v > 0
  BY <1>2 DEF RelativeIndex
<1>3. CASE v >= len /\ ~(v < 0)
  BY <1>3 DEF RelativeIndex
<1>4. CASE v < len /\ ~(v < 0)
  BY <1>4 DEF RelativeIndex
<1> QED BY <1>1, <1>2, <1>3, <1>4

\* The start of a range, as the standard takes it.
LEMMA StartIs ==
  ASSUME NEW v \in Numbers, NEW len \in Nat
  PROVE  Start(v, len) \in 0 .. len /\ Start(v, len) = Contract!Relative(v, 0, len)
<1> DEFINE x == IntOrInf(v, 0)
<1>1. x \in Int /\ x = Contract!Integer(v, 0)
  BY IntOrInfIs DEF Contract!Integer
<1> HIDE DEF x
<1>2. RelativeIndex(x, len) \in 0 .. len /\ RelativeIndex(x, len) = Contract!Relative(v, 0, len)
  BY <1>1, RelativeIndexIs DEF Contract!Relative, Contract!Clamp
<1> QED BY <1>2 DEF Start, x

\* The end of a range, as the standard takes it.
LEMMA EndIs ==
  ASSUME NEW v \in Numbers, NEW len \in Nat
  PROVE  End(v, len) \in 0 .. len /\ End(v, len) = Contract!Relative(v, len, len)
<1> DEFINE x == IntOrInf(v, len)
<1>1. x \in Int /\ x = Contract!Integer(v, len)
  BY IntOrInfIs DEF Contract!Integer
<1> HIDE DEF x
<1>2. RelativeIndex(x, len) \in 0 .. len /\ RelativeIndex(x, len) = Contract!Relative(v, len, len)
  BY <1>1, RelativeIndexIs DEF Contract!Relative, Contract!Clamp
<1> QED BY <1>2 DEF End, x

-----------------------------------------------------------------------------
(* Builtins that move cells.                                               *)

\* A list filled in a range.
Filled(l, n, from, to, c) == [k \in 1 .. n |-> IF k - 1 \in from .. to - 1 THEN c ELSE l[k]]

\* One value for a range.
LEMMA FillShows ==
  ASSUME NEW a, Fits(a), NEW c \in Cell, NEW s \in Numbers, NEW e \in Numbers
  PROVE  Shows(Fill(a, c, s, e), Filled(Live(a), a.length, Start(s, a.length), End(e, a.length), c))
<1> DEFINE n == a.length
           from == Start(s, n)
           to == End(e, n)
           cells == Overwrite(a.elements, from, to, c)
           v == Live(a)
           l == [k \in 1 .. n |-> IF k - 1 \in from .. to - 1 THEN c ELSE v[k]]
<1>1. /\ n \in Nat /\ a.elements \in Seq(Cell) /\ n <= Len(a.elements) /\ Len(a.elements) \in Nat
      /\ v \in [1 .. n -> Cell] /\ \A k \in 1 .. n : v[k] = a.elements[k]
  BY FitsParts, LiveIs, LiveFunction
<1>2. from \in 0 .. n /\ to \in 0 .. n
  BY <1>1, StartIs, EndIs
<1>3. Fill(a, c, s, e) = [a EXCEPT !.elements = cells]
  BY DEF Fill, Fits
<1> HIDE DEF v, from, to
<1>4. /\ Rewritten(cells, a.elements)
      /\ \A k \in 1 .. Len(a.elements) : cells[k] = IF from < k /\ k <= to THEN c ELSE a.elements[k]
  BY <1>1, <1>2, OverwriteIs
<1> HIDE DEF cells, n
<1>5. l \in [1 .. n -> Cell] /\ \A k \in 1 .. n : l[k] = cells[k]
  <2>1. \A k \in 1 .. n : k \in 1 .. Len(a.elements) /\ (k - 1 \in from .. to - 1 <=> from < k /\ k <= to)
    <3>1. n \in Nat /\ Len(a.elements) \in Nat /\ n <= Len(a.elements)
      BY <1>1
    <3> QED BY <1>2, <3>1
  <2>2. \A k \in 1 .. n : l[k] = IF from < k /\ k <= to THEN c ELSE v[k]
    BY <2>1
  <2>3. \A k \in 1 .. n : v[k] \in Cell /\ v[k] = a.elements[k]
    BY <1>1
  <2>4. l \in [1 .. n -> Cell]
    BY <2>3
  <2> QED BY <1>4, <2>1, <2>2, <2>3, <2>4
<1>6. \A k \in 1 .. Len(a.elements) : k > n => cells[k] = a.elements[k]
  BY <1>1, <1>2, <1>4
<1> HIDE DEF l
<1>7. Shows([a EXCEPT !.elements = cells], l)
  BY <1>4, <1>5, <1>6, InPlace DEF n
<1> QED BY <1>3, <1>7 DEF l, v, from, to, n, Filled

\* A list with a run of it copied over another.
Copied(l, n, to, from, last) ==
  [k \in 1 .. n |-> IF to < k /\ k <= to + (last - from) THEN l[k - to + from] ELSE l[k]]

\* A run copied over another, as if it were read before it is written.
LEMMA CopyWithinShows ==
  ASSUME NEW a, Fits(a), NEW t \in Numbers, NEW s \in Numbers, NEW e \in Numbers
  PROVE  LET n == a.length
         IN  Shows(CopyWithin(a, t, s, e), Copied(Live(a), n, Start(t, n), Start(s, n), End(e, n)))
<1> DEFINE n == a.length
           to == Start(t, n)
           from == Start(s, n)
           last == End(e, n)
           span == IF last > from THEN last - from ELSE 0
           room == n - to
           m == IF span < room THEN span ELSE room
           cells == MoveRun(a.elements, to, from, m)
           v == Live(a)
           l == [k \in 1 .. n |-> IF to < k /\ k <= to + (last - from) THEN v[k - to + from] ELSE v[k]]
<1>1. /\ n \in Nat /\ a.elements \in Seq(Cell) /\ n <= Len(a.elements) /\ Len(a.elements) \in Nat
      /\ v \in [1 .. n -> Cell] /\ \A k \in 1 .. n : v[k] = a.elements[k]
  BY FitsParts, LiveIs, LiveFunction
<1>2. to \in 0 .. n /\ from \in 0 .. n /\ last \in 0 .. n
  BY <1>1, StartIs, EndIs
<1>3. CopyWithin(a, t, s, e) = [a EXCEPT !.elements = cells]
  BY DEF CopyWithin, Fits
<1> HIDE DEF v, from, to, last
<1>4. /\ m \in Int /\ from + m <= n /\ to + m <= n
      /\ \A k \in 1 .. n : (k <= to + m <=> k <= to + (last - from)) \/ k <= to
  BY <1>1, <1>2
<1> HIDE DEF m
<1>5. /\ Rewritten(cells, a.elements)
      /\ \A k \in 1 .. Len(a.elements) :
           cells[k] = IF to < k /\ k <= to + m THEN a.elements[k - to + from] ELSE a.elements[k]
  <2>1. to \in Nat /\ from \in Nat /\ from + m <= Len(a.elements)
    <3> HIDE DEF n
    <3> QED BY <1>1, <1>2, <1>4
  <2> QED BY <1>1, <1>4, <2>1, MoveRunIs
<1> HIDE DEF cells, n
<1>6. ASSUME NEW k \in 1 .. n PROVE l[k] = cells[k] /\ l[k] \in Cell
  <2>0. /\ k \in Int /\ to \in Int /\ from \in Int /\ last \in Int /\ n \in Int /\ m \in Int
        /\ k >= 1 /\ k <= n /\ from >= 0 /\ to >= 0 /\ from + m <= n
        /\ (k <= to + m <=> k <= to + (last - from)) \/ k <= to
        /\ k \in 1 .. Len(a.elements)
    <3>1. /\ k \in Int /\ to \in Int /\ from \in Int /\ last \in Int /\ n \in Int
          /\ k >= 1 /\ k <= n /\ from >= 0 /\ to >= 0 /\ k \in 1 .. Len(a.elements)
      BY <1>1, <1>2
    <3>2. m \in Int /\ from + m <= n
      BY <1>4
    <3>3. (k <= to + m <=> k <= to + (last - from)) \/ k <= to
      BY <1>4, Zenon
    <3> QED BY <3>1, <3>2, <3>3
  <2>1. CASE to < k /\ k <= to + m
    <3>1. k - to + from >= 1 /\ k - to + from <= n /\ k <= to + (last - from)
      BY <2>0, <2>1
    <3>2. k - to + from \in 1 .. n
      BY <2>0, <3>1
    <3>3. cells[k] = a.elements[k - to + from]
      BY <1>5, <2>0, <2>1
    <3>4. l[k] = v[k - to + from]
      BY <2>1, <3>1
    <3> QED BY <1>1, <3>2, <3>3, <3>4
  <2>2. CASE ~(to < k /\ k <= to + m)
    <3>1. ~(to < k /\ k <= to + (last - from))
      BY <2>0, <2>2
    <3>2. l[k] = v[k] /\ cells[k] = a.elements[k]
      BY <1>5, <2>0, <2>2, <3>1
    <3> QED BY <1>1, <3>2
  <2> QED BY <2>1, <2>2
<1>7. l \in [1 .. n -> Cell]
  BY <1>6
<1>8. \A k \in 1 .. Len(a.elements) : k > n => cells[k] = a.elements[k]
  BY <1>1, <1>2, <1>4, <1>5
<1> HIDE DEF l
<1>9. Shows([a EXCEPT !.elements = cells], l)
  <2>1. Rewritten(cells, a.elements) /\ \A k \in 1 .. n : l[k] = cells[k]
    BY <1>5, <1>6
  <2> QED BY <1>7, <1>8, <2>1, InPlace DEF n
<1> QED BY <1>3, <1>9 DEF l, v, from, to, last, n, Copied

\* pop and shift: the cell that falls vacant is cleared.
LEMMA TakeShows ==
  ASSUME NEW a, Fits(a), a.length # 0, NEW front \in BOOLEAN
  PROVE  Shows(Take(a, front), IF front THEN Tail(Live(a)) ELSE Front(Live(a)))
<1> DEFINE n == a.length
           e == a.elements
           moved == IF front THEN MoveRun(e, 0, 1, n - 1) ELSE e
           cells == [moved EXCEPT ![n] = Undefined]
           b == [length |-> n - 1, elements |-> cells]
           v == Live(a)
           l == [k \in 1 .. n - 1 |-> IF front THEN v[k + 1] ELSE v[k]]
<1>1. /\ n \in Nat /\ n > 0 /\ e \in Seq(Cell) /\ n <= Len(e) /\ Len(e) \in Nat
      /\ v \in Seq(Cell) /\ Len(v) = n /\ v \in [1 .. n -> Cell] /\ \A k \in 1 .. n : v[k] = e[k]
      /\ \A k \in 1 .. Len(e) : k > n => e[k] = Undefined
  BY FitsParts, LiveIs, LiveFunction
<1>2. Take(a, front) = b
  BY DEF Take
<1> HIDE DEF v, e
<1>3. /\ moved \in Seq(Cell) /\ Len(moved) = Len(e)
      /\ \A k \in 1 .. Len(e) : moved[k] = IF front /\ k <= n - 1 THEN e[k + 1] ELSE e[k]
  <2>1. CASE front
    <3>1. 0 \in Nat /\ 1 \in Nat /\ n - 1 \in Int /\ 1 + (n - 1) <= Len(e)
      BY <1>1
    <3>2. /\ MoveRun(e, 0, 1, n - 1) \in Seq(Cell) /\ Len(MoveRun(e, 0, 1, n - 1)) = Len(e)
          /\ \A k \in 1 .. Len(e) :
               MoveRun(e, 0, 1, n - 1)[k] = IF 0 < k /\ k <= 0 + (n - 1) THEN e[k - 0 + 1] ELSE e[k]
      <4> HIDE DEF n
      <4> QED BY <1>1, <3>1, MoveRunIs DEF Rewritten
    <3> QED BY <1>1, <2>1, <3>2
  <2>2. CASE ~front
    BY <1>1, <2>2
  <2> QED BY <2>1, <2>2
<1>4. moved \in [1 .. Len(e) -> Cell]
  BY <1>3, BufferIs
<1> HIDE DEF moved
<1>5. Undefined \in Cell
  BY DEF Cell
<1>6. /\ cells \in [1 .. Len(e) -> Cell]
      /\ \A k \in 1 .. Len(e) : cells[k] = IF k = n THEN Undefined ELSE moved[k]
  BY <1>1, <1>4, <1>5
<1> HIDE DEF cells, n
<1>7. cells \in Seq(Cell) /\ Len(cells) = Len(e)
  BY <1>1, <1>6, IsBuffer
<1>8. Fits(b)
  <2>1. n - 1 \in Nat /\ n - 1 <= Len(cells) /\ Len(cells) > 0
    BY <1>1, <1>7
  <2>2. \A k \in 1 .. Len(cells) : k > n - 1 => cells[k] = Undefined
    BY <1>1, <1>3, <1>6, <1>7
  <2> QED BY <1>7, <2>1, <2>2, FitsMade
<1>9. /\ l \in [1 .. n - 1 -> Cell] /\ \A k \in 1 .. n - 1 : l[k] = cells[k]
  BY <1>1, <1>3, <1>6
<1>10. l = IF front THEN Tail(v) ELSE Front(v)
  <2>1. CASE front
    <3>1. v # <<>>
      BY <1>1, EmptySeq
    <3>2. Tail(v) \in Seq(Cell) /\ Len(Tail(v)) = n - 1 /\ \A k \in 1 .. n - 1 : Tail(v)[k] = v[k + 1]
      BY <1>1, <3>1, HeadTailProperties
    <3>3. Tail(v) \in [1 .. n - 1 -> Cell]
      BY <3>2, BufferIs
    <3> QED BY <1>9, <2>1, <3>2, <3>3
  <2>2. CASE ~front
    <3>1. Front(v) = [k \in 1 .. n - 1 |-> v[k]]
      BY <1>1 DEF Front
    <3> QED BY <2>2, <3>1
  <2> QED BY <2>1, <2>2
<1> HIDE DEF l
<1>11. l \in Seq(Cell) /\ Len(l) = n - 1
  <2>1. n - 1 \in Nat
    BY <1>1
  <2> QED BY <1>9, <2>1, IsBuffer
<1>12. Live(b) = l
  BY <1>8, <1>9, <1>11, LiveEquals
<1> QED BY <1>2, <1>8, <1>10, <1>12 DEF Shows, v

\* What a splice makes of a list: c elements from index f replaced by the items.
Replacing(l, f, c, items) ==
  Contract!Keep(l, f) \o items \o Contract!Drop(Contract!Drop(l, f), c)

\* The same, element by element.
LEMMA ReplacingIs ==
  ASSUME NEW l \in Seq(Cell), NEW f \in 0 .. Len(l), NEW c \in 0 .. Len(l) - f, NEW items \in Seq(Cell)
  PROVE  LET n == Len(l)
             m == Len(items)
             r == Replacing(l, f, c, items)
         IN  /\ r \in Seq(Cell) /\ Len(r) = n - c + m
             /\ \A k \in 1 .. n - c + m :
                  r[k] = IF k <= f THEN l[k] ELSE IF k <= f + m THEN items[k - f] ELSE l[k - m + c]
<1> DEFINE n == Len(l)
           m == Len(items)
           x == SubSeq(l, 1, f)
           y == SubSeq(l, f + 1, n)
           z == SubSeq(y, c + 1, Len(y))
           h == x \o items
           r == h \o z
<1>1. n \in Nat /\ m \in Nat /\ f \in Nat /\ c \in Nat /\ f <= n /\ f + c <= n
  OBVIOUS
<1>2. x \in Seq(Cell) /\ Len(x) = f /\ \A k \in 1 .. f : x[k] = l[k]
  BY <1>1, SubSeqProperties
<1>3. y \in Seq(Cell) /\ Len(y) = n - f /\ \A k \in 1 .. n - f : y[k] = l[f + k]
  BY <1>1, SubSeqProperties
<1> HIDE DEF x, y
<1>4. z \in Seq(Cell) /\ Len(z) = n - f - c /\ \A k \in 1 .. n - f - c : z[k] = y[c + k]
  <2> HIDE DEF n
  <2>1. c + 1 \in 1 .. Len(y) + 1 /\ Len(y) \in Nat /\ Len(y) = n - f
    BY <1>1, <1>3
  <2> QED BY <1>1, <1>3, <2>1, SubSeqProperties
<1> HIDE DEF z
<1>5. /\ h \in Seq(Cell) /\ Len(h) = f + m
      /\ \A k \in 1 .. f + m : h[k] = IF k <= f THEN x[k] ELSE items[k - f]
  BY <1>1, <1>2, ConcatProperties
<1> HIDE DEF h
<1>6. /\ r \in Seq(Cell) /\ Len(r) = n - c + m
      /\ \A k \in 1 .. n - c + m : r[k] = IF k <= f + m THEN h[k] ELSE z[k - (f + m)]
  <2> HIDE DEF m, n
  <2>1. /\ r \in Seq(Cell) /\ Len(r) = Len(h) + Len(z)
        /\ \A k \in 1 .. Len(h) + Len(z) : r[k] = IF k <= Len(h) THEN h[k] ELSE z[k - Len(h)]
    BY <1>4, <1>5, ConcatProperties
  <2>2. Len(h) = f + m /\ Len(h) + Len(z) = n - c + m
    BY <1>1, <1>4, <1>5
  <2> QED BY <2>1, <2>2
<1>7. r = Replacing(l, f, c, items)
  BY DEF Replacing, Contract!Keep, Contract!Drop, r, h, x, y, z
<1> HIDE DEF r, m, n
<1>8. ASSUME NEW k \in 1 .. n - c + m
      PROVE  r[k] = IF k <= f THEN l[k] ELSE IF k <= f + m THEN items[k - f] ELSE l[k - m + c]
  <2>0. k \in Int /\ k >= 1 /\ k <= n - c + m
    BY <1>1
  <2>1. CASE k <= f
    <3>1. k \in 1 .. f /\ k \in 1 .. f + m /\ k <= f + m
      BY <1>1, <2>0, <2>1
    <3>2. r[k] = h[k] /\ h[k] = x[k] /\ x[k] = l[k]
      BY <1>2, <1>5, <1>6, <2>1, <3>1
    <3> QED BY <2>1, <3>2
  <2>2. CASE ~(k <= f) /\ k <= f + m
    <3>1. k \in 1 .. f + m
      BY <1>1, <2>0, <2>2
    <3>2. r[k] = h[k] /\ h[k] = items[k - f]
      BY <1>5, <1>6, <2>2, <3>1
    <3> QED BY <2>2, <3>2
  <2>3. CASE ~(k <= f) /\ ~(k <= f + m)
    <3>1. k - (f + m) \in 1 .. n - f - c
      BY <1>1, <2>0, <2>3
    <3>2. c + (k - (f + m)) \in 1 .. n - f /\ f + (c + (k - (f + m))) = k - m + c
      BY <1>1, <2>0, <3>1
    <3>3. r[k] = z[k - (f + m)]
      BY <1>6, <2>3
    <3>4. z[k - (f + m)] = y[c + (k - (f + m))]
      BY <1>4, <3>1
    <3>5. y[c + (k - (f + m))] = l[f + (c + (k - (f + m)))]
      BY <1>3, <3>2
    <3> QED BY <2>3, <3>2, <3>3, <3>4, <3>5
  <2> QED BY <2>1, <2>2, <2>3
<1> QED BY <1>6, <1>7, <1>8 DEF m, n

\* Growth by appending blanks: room for a longer list, with nothing in it yet.
LEMMA RoomMade ==
  ASSUME NEW a, Fits(a), NEW d \in Int
  PROVE  LET g == AppendAll(a, Blanks(d))
         IN  /\ g.elements \in Seq(Cell) /\ g.length = a.length + (IF d > 0 THEN d ELSE 0)
             /\ g.length <= Len(g.elements) /\ Len(g.elements) > 0
             /\ \A k \in 1 .. a.length : g.elements[k] = Live(a)[k]
             /\ \A k \in 1 .. Len(g.elements) : k > a.length => g.elements[k] = Undefined
<1> DEFINE n == a.length
           w == Blanks(d)
           g == AppendAll(a, w)
           v == Live(a)
           r == v \o w
<1>1. w \in Seq(Cell) /\ Len(w) = (IF d > 0 THEN d ELSE 0) /\ \A k \in 1 .. Len(w) : w[k] = Undefined
  <2>1. w \in Seq(Cell) /\ Len(w) = (IF d > 0 THEN d ELSE 0)
    BY BlanksAre
  <2>2. \A k \in 1 .. d : w[k] = Undefined
    BY DEF Blanks
  <2> HIDE DEF w
  <2> QED BY <2>1, <2>2
<1> HIDE DEF w
<1>2. n \in Nat /\ v \in Seq(Cell) /\ Len(v) = n
  BY FitsParts, LiveIs
<1> HIDE DEF v
<1>3. Fits(g) /\ Live(g) = r /\ g.length = n + Len(w)
  BY <1>1, AppendAllShows DEF Shows, v
<1>4. /\ r \in Seq(Cell) /\ \A k \in 1 .. n + Len(w) : r[k] = IF k <= n THEN v[k] ELSE w[k - n]
  BY <1>1, <1>2, ConcatProperties
<1> HIDE DEF g, r, n
<1>5. /\ g.elements \in Seq(Cell) /\ g.length <= Len(g.elements) /\ Len(g.elements) > 0
      /\ Len(g.elements) \in Nat
      /\ \A k \in 1 .. Len(g.elements) : k > g.length => g.elements[k] = Undefined
  BY <1>3, FitsParts
<1>6. \A k \in 1 .. g.length : r[k] = g.elements[k]
  BY <1>3, LiveIs
<1>7. \A k \in 1 .. n : g.elements[k] = v[k]
  BY <1>1, <1>2, <1>3, <1>4, <1>6
<1>8. ASSUME NEW k \in 1 .. Len(g.elements), k > n PROVE g.elements[k] = Undefined
  <2>1. CASE k <= g.length
    <3>1. k - n \in 1 .. Len(w) /\ k \in 1 .. n + Len(w) /\ ~(k <= n) /\ k \in 1 .. g.length
      BY <1>1, <1>2, <1>3, <1>5, <1>8, <2>1
    <3> QED BY <1>1, <1>4, <1>6, <3>1
  <2>2. CASE ~(k <= g.length)
    BY <1>1, <1>2, <1>3, <1>5, <2>2
  <2> QED BY <2>1, <2>2
<1> QED BY <1>1, <1>3, <1>5, <1>7, <1>8 DEF g, w, v, n

\* What unshift and splice leave in the buffer: a grows if it must, the tail moves
\* once, and the items are laid into the gap.
Laid(a, f, c, items) ==
  LET m == Len(items)
      g == AppendAll(a, Blanks(m - c))
  IN  Place(MoveRun(g.elements, f + m, f + c, a.length - f - c), f, items)

\* Its cells, up to the new length, are the list with the run replaced.
LEMMA LaidIs ==
  ASSUME NEW a, Fits(a), NEW f \in 0 .. a.length, NEW c \in 0 .. a.length - f,
         NEW items \in Seq(Cell)
  PROVE  LET n == a.length
             m == Len(items)
             cells == Laid(a, f, c, items)
         IN  /\ cells \in Seq(Cell) /\ Len(cells) > 0
             /\ n - c + m <= Len(cells) /\ n <= Len(cells)
             /\ \A k \in 1 .. n - c + m : cells[k] = Replacing(Live(a), f, c, items)[k]
             /\ \A k \in 1 .. Len(cells) : k > n /\ k > n - c + m => cells[k] = Undefined
<1> DEFINE n == a.length
           m == Len(items)
           g == AppendAll(a, Blanks(m - c))
           e == g.elements
           moved == MoveRun(e, f + m, f + c, n - f - c)
           cells == Laid(a, f, c, items)
           v == Live(a)
           r == Replacing(v, f, c, items)
<1>1. n \in Nat /\ m \in Nat /\ f \in Nat /\ c \in Nat /\ f + c <= n /\ v \in Seq(Cell) /\ Len(v) = n
  BY FitsParts, LiveIs
<1> HIDE DEF v
<1>2. /\ e \in Seq(Cell) /\ g.length = n + (IF m - c > 0 THEN m - c ELSE 0)
      /\ g.length <= Len(e) /\ Len(e) > 0
      /\ \A k \in 1 .. n : e[k] = v[k]
      /\ \A k \in 1 .. Len(e) : k > n => e[k] = Undefined
  <2>1. m - c \in Int
    BY <1>1
  <2> HIDE DEF m
  <2> QED BY <2>1, RoomMade DEF v
<1>3. cells = Place(moved, f, items)
  BY DEF Laid
<1> HIDE DEF g, cells, r
<1>4. Len(e) \in Nat /\ n <= Len(e) /\ n - c + m <= Len(e)
  <2>1. Len(e) \in Nat
    BY <1>2
  <2>2. n + (IF m - c > 0 THEN m - c ELSE 0) <= Len(e)
    BY <1>2
  <2> HIDE DEF e, m, n
  <2> QED BY <1>1, <2>1, <2>2
<1>5. /\ moved \in Seq(Cell) /\ Len(moved) = Len(e)
      /\ \A k \in 1 .. Len(e) :
           moved[k] = IF f + m < k /\ k <= f + m + (n - f - c) THEN e[k - (f + m) + (f + c)] ELSE e[k]
  <2> HIDE DEF m, n
  <2>1. f + m \in Nat /\ f + c \in Nat /\ n - f - c \in Int /\ f + c + (n - f - c) <= Len(e)
    BY <1>1, <1>4
  <2> QED BY <1>2, <2>1, MoveRunIs, SMTT(30) DEF Rewritten
<1> HIDE DEF moved
<1>6. /\ cells \in Seq(Cell) /\ Len(cells) = Len(e)
      /\ \A k \in 1 .. Len(e) : cells[k] = IF f < k /\ k <= f + m THEN items[k - f] ELSE moved[k]
  BY <1>1, <1>3, <1>5, PlaceIs DEF Rewritten
<1>7. \A k \in 1 .. n - c + m :
        r[k] = IF k <= f THEN v[k] ELSE IF k <= f + m THEN items[k - f] ELSE v[k - m + c]
  <2>1. f \in 0 .. Len(v) /\ c \in 0 .. Len(v) - f
    BY <1>1
  <2>2. \A k \in 1 .. Len(v) - c + m :
        r[k] = IF k <= f THEN v[k] ELSE IF k <= f + m THEN items[k - f] ELSE v[k - m + c]
    BY <1>1, <2>1, ReplacingIs DEF r
  <2> QED BY <1>1, <2>2
<1> HIDE DEF n, m
<1>8. ASSUME NEW k \in 1 .. n - c + m PROVE cells[k] = r[k]
  <2>0. k \in Int /\ k >= 1 /\ k <= n - c + m /\ k \in 1 .. Len(e)
    BY <1>1, <1>4
  <2>1. CASE k <= f
    <3>1. k \in 1 .. n /\ ~(f < k) /\ ~(f + m < k)
      BY <1>1, <2>0, <2>1
    <3>2. cells[k] = moved[k] /\ moved[k] = e[k] /\ e[k] = v[k]
      BY <1>2, <1>5, <1>6, <2>0, <3>1
    <3>3. r[k] = v[k]
      BY <1>7, <2>1
    <3> QED BY <3>2, <3>3
  <2>2. CASE ~(k <= f) /\ k <= f + m
    <3>1. f < k
      BY <1>1, <2>0, <2>2
    <3>2. cells[k] = items[k - f]
      BY <1>6, <2>0, <2>2, <3>1
    <3>3. r[k] = items[k - f]
      BY <1>7, <2>2
    <3> QED BY <3>2, <3>3
  <2>3. CASE ~(k <= f) /\ ~(k <= f + m)
    <3>1. f + m < k /\ k <= f + m + (n - f - c)
      BY <1>1, <2>0, <2>3
    <3>2. k - (f + m) + (f + c) = k - m + c /\ k - m + c \in 1 .. n
      BY <1>1, <2>0, <3>1
    <3>3. cells[k] = moved[k]
      BY <1>6, <2>0, <2>3
    <3>4. moved[k] = e[k - (f + m) + (f + c)]
      BY <1>5, <2>0, <3>1
    <3>5. e[k - m + c] = v[k - m + c]
      BY <1>2, <3>2
    <3>6. r[k] = v[k - m + c]
      BY <1>7, <2>3
    <3> QED BY <3>2, <3>3, <3>4, <3>5, <3>6
  <2> QED BY <2>1, <2>2, <2>3
<1>9. ASSUME NEW k \in 1 .. Len(cells), k > n, k > n - c + m PROVE cells[k] = Undefined
  <2>1. k \in 1 .. Len(e) /\ ~(k <= f + m) /\ ~(k <= f + m + (n - f - c))
    BY <1>1, <1>4, <1>6, <1>9
  <2>2. cells[k] = moved[k] /\ moved[k] = e[k] /\ e[k] = Undefined
    BY <1>2, <1>5, <1>6, <1>9, <2>1
  <2> QED BY <2>2
<1> QED BY <1>2, <1>4, <1>6, <1>8, <1>9 DEF cells, r, v, n, m

\* Items before all others.
LEMMA UnshiftShows ==
  ASSUME NEW a, Fits(a), NEW items \in Seq(Cell)
  PROVE  Shows(Unshift(a, items), items \o Live(a))
<1> DEFINE n == a.length
           m == Len(items)
           g == AppendAll(a, Blanks(m))
           cells == Laid(a, 0, 0, items)
           v == Live(a)
           r == items \o v
           b == [length |-> n + m, elements |-> cells]
<1>1. n \in Nat /\ m \in Nat /\ DOMAIN items = 1 .. m /\ v \in Seq(Cell) /\ Len(v) = n
  BY FitsParts, LiveIs
<1> HIDE DEF v
<1>2. Blanks(m) \in Seq(Cell) /\ Len(Blanks(m)) = m
  BY <1>1, BlanksAre
<1>3. g.length = n + m /\ Fits(g)
  BY <1>2, AppendAllShows DEF Shows
<1>4. Unshift(a, items) = b
  <2>1. [i \in DOMAIN items |-> Undefined] = Blanks(m)
    BY <1>1 DEF Blanks
  <2>2. m - 0 = m /\ 0 + m = m /\ 0 + 0 = 0 /\ n - 0 - 0 = n
    BY <1>1
  <2>3. Unshift(a, items) = [g EXCEPT !.elements = Place(MoveRun(g.elements, m, 0, n), 0, items)]
    BY <2>1 DEF Unshift
  <2>4. cells = Place(MoveRun(g.elements, m, 0, n), 0, items)
    <3> HIDE DEF n, m
    <3> QED BY <2>2 DEF Laid, n, m
  <2> HIDE DEF cells
  <2> QED BY <1>3, <2>3, <2>4 DEF Fits
<1>5. Replacing(v, 0, 0, items) = r
  <2>1. Contract!Keep(v, 0) = <<>>
    BY SubSeqEmpty DEF Contract!Keep
  <2>2. Contract!Drop(v, 0) = v
    <3>1. 0 + 1 = 1 /\ SubSeq(v, 1, Len(v)) = v
      BY <1>1, SubSeqFull
    <3> QED BY <3>1 DEF Contract!Drop
  <2>3. <<>> \o items = items
    BY ConcatEmptySeq
  <2> QED BY <2>1, <2>2, <2>3 DEF Replacing
<1>6. 0 \in 0 .. n /\ 0 \in 0 .. n - 0 /\ n - 0 + m = n + m
  BY <1>1
<1>7. /\ cells \in Seq(Cell) /\ Len(cells) > 0 /\ n + m <= Len(cells) /\ n <= Len(cells)
      /\ \A k \in 1 .. n + m : cells[k] = Replacing(v, 0, 0, items)[k]
      /\ \A k \in 1 .. Len(cells) : k > n /\ k > n + m => cells[k] = Undefined
  <2> HIDE DEF n, m
  <2>1. /\ cells \in Seq(Cell) /\ Len(cells) > 0 /\ n - 0 + m <= Len(cells) /\ n <= Len(cells)
        /\ \A k \in 1 .. n - 0 + m : cells[k] = Replacing(v, 0, 0, items)[k]
        /\ \A k \in 1 .. Len(cells) : k > n /\ k > n - 0 + m => cells[k] = Undefined
    BY <1>6, LaidIs DEF n, m, v
  <2> HIDE DEF cells
  <2> QED BY <1>6, <2>1
<1>8. r \in Seq(Cell) /\ Len(r) = n + m
  BY <1>1, ConcatProperties
<1> HIDE DEF cells, r, n, m
<1>9. Fits(b)
  <2>1. n + m \in Nat /\ \A k \in 1 .. Len(cells) : k > n + m => cells[k] = Undefined
    <3>1. n + m \in Nat /\ Len(cells) \in Nat /\ \A k \in 1 .. Len(cells) : k > n + m => k > n
      BY <1>1, <1>7
    <3> QED BY <1>7, <3>1
  <2> QED BY <1>7, <2>1, FitsMade
<1>10. Live(b) = r
  BY <1>5, <1>7, <1>8, <1>9, LiveEquals
<1> QED BY <1>4, <1>9, <1>10 DEF Shows, r, v, n, m

\* The count a splice is given, clamped.
LEMMA SpliceCountIs ==
  ASSUME NEW a, Fits(a), NEW s \in Numbers, NEW d \in Numbers
  PROVE  LET room == a.length - Start(s, a.length)
         IN  /\ SpliceCount(a, s, d) \in 0 .. room
             /\ SpliceCount(a, s, d) = Contract!Clamp(Contract!Integer(d, 0), room)
<1> DEFINE from == Start(s, a.length)
           room == a.length - from
           want == IntOrInf(d, 0)
<1>1. a.length \in Nat /\ from \in 0 .. a.length
  BY FitsParts, StartIs
<1>2. want \in Int /\ want = Contract!Integer(d, 0)
  BY IntOrInfIs DEF Contract!Integer
<1>3. SpliceCount(a, s, d) = CASE want <= 0 -> 0 [] want > 0 /\ want >= room -> room [] OTHER -> want
  BY DEF SpliceCount
<1>4. room \in Nat
  BY <1>1
<1> HIDE DEF want, room
<1>5. SpliceCount(a, s, d) \in 0 .. room /\ SpliceCount(a, s, d) = Contract!Clamp(want, room)
  <2>1. CASE want <= 0
    BY <1>2, <1>3, <1>4, <2>1 DEF Contract!Clamp
  <2>2. CASE want > 0 /\ want >= room
    BY <1>2, <1>3, <1>4, <2>2 DEF Contract!Clamp
  <2>3. CASE ~(want <= 0) /\ ~(want > 0 /\ want >= room)
    BY <1>2, <1>3, <1>4, <2>3 DEF Contract!Clamp
  <2> QED BY <2>1, <2>2, <2>3
<1> QED BY <1>2, <1>5, Zenon DEF room

\* A splice replaces a run, and clears what it vacates.
LEMMA SpliceShows ==
  ASSUME NEW a, Fits(a), NEW s \in Numbers, NEW d \in Numbers, NEW items \in Seq(Cell)
  PROVE  Shows(Splice(a, s, d, items),
               Replacing(Live(a), Start(s, a.length), SpliceCount(a, s, d), items))
<1> DEFINE n == a.length
           m == Len(items)
           f == Start(s, n)
           c == SpliceCount(a, s, d)
           cells == Laid(a, f, c, items)
           len == n - c + m
           out == Overwrite(cells, len, n, Undefined)
           r == Replacing(Live(a), f, c, items)
           b == [length |-> len, elements |-> out]
<1>1. n \in Nat /\ m \in Nat /\ f \in 0 .. n /\ c \in 0 .. n - f /\ Live(a) \in Seq(Cell) /\ Len(Live(a)) = n
  <2>1. n \in Nat /\ m \in Nat /\ Live(a) \in Seq(Cell) /\ Len(Live(a)) = n
    BY FitsParts, LiveIs
  <2>2. f \in 0 .. n
    BY <2>1, StartIs
  <2>3. c \in 0 .. n - f
    BY SpliceCountIs
  <2> QED BY <2>1, <2>2, <2>3
<1>2. Splice(a, s, d, items) = b
  <2>1. len - n = m - c
    <3> HIDE DEF n, m, c
    <3> QED BY <1>1
  <2>2. [i \in 1 .. len - n |-> Undefined] = Blanks(m - c)
    BY <2>1, Zenon DEF Blanks
  <2> QED BY <2>2, Zenon DEF Splice, Laid
<1> HIDE DEF c, f
<1>3. /\ cells \in Seq(Cell) /\ Len(cells) > 0 /\ len <= Len(cells) /\ n <= Len(cells)
      /\ \A k \in 1 .. len : cells[k] = r[k]
      /\ \A k \in 1 .. Len(cells) : k > n /\ k > len => cells[k] = Undefined
  BY <1>1, LaidIs
<1> HIDE DEF cells, n, m
<1>4. r \in Seq(Cell) /\ Len(r) = len
  BY <1>1, ReplacingIs DEF m
<1>5. len \in Nat /\ n \in Int /\ Undefined \in Cell /\ Len(cells) \in Nat
  BY <1>1, <1>3 DEF Cell
<1> HIDE DEF len, r
<1>6. /\ out \in Seq(Cell) /\ Len(out) = Len(cells)
      /\ \A k \in 1 .. Len(cells) : out[k] = IF len < k /\ k <= n THEN Undefined ELSE cells[k]
  <2>1. /\ Rewritten(Overwrite(cells, len, n, Undefined), cells)
        /\ \A k \in 1 .. Len(cells) :
             Overwrite(cells, len, n, Undefined)[k] = IF len < k /\ k <= n THEN Undefined ELSE cells[k]
    BY <1>3, <1>5, OverwriteIs
  <2> QED BY <2>1 DEF Rewritten
<1> HIDE DEF out
<1>7. Fits(b)
  <2>1. \A k \in 1 .. Len(out) : k > len => out[k] = Undefined
    BY <1>3, <1>5, <1>6
  <2> QED BY <1>3, <1>5, <1>6, <2>1, FitsMade
<1>8. \A k \in 1 .. len : r[k] = out[k]
  BY <1>3, <1>5, <1>6
<1>9. Live(b) = r
  BY <1>4, <1>7, <1>8, LiveEquals
<1> QED BY <1>2, <1>7, <1>9 DEF Shows, r, f, c, n

-----------------------------------------------------------------------------
(* New arrays.                                                             *)

\* An array made of items.
LEMMA NewArrayShows ==
  ASSUME NEW items \in Seq(Cell)
  PROVE  Shows(NewArray(items), items)
<1> DEFINE e == IF items = <<>> THEN <<Undefined>> ELSE items
           b == [length |-> Len(items), elements |-> e]
<1>1. Len(items) \in Nat /\ (items = <<>> <=> Len(items) = 0) /\ Undefined \in Cell
  BY EmptySeq DEF Cell
<1>2. /\ e \in Seq(Cell) /\ Len(e) > 0 /\ Len(items) <= Len(e)
      /\ \A k \in 1 .. Len(e) : k > Len(items) => e[k] = Undefined
  BY <1>1
<1>3. NewArray(items) = b
  BY DEF NewArray
<1>4. \A k \in 1 .. Len(items) : items[k] = e[k]
  BY <1>1
<1> HIDE DEF e
<1>5. Fits(b)
  BY <1>1, <1>2, FitsMade
<1>6. Live(b) = items
  BY <1>4, <1>5, LiveEquals
<1> QED BY <1>3, <1>5, <1>6 DEF Shows

\* An array of holes.
LEMMA HolesShows ==
  ASSUME NEW n \in Nat
  PROVE  Shows(Holes(n), [k \in 1 .. n |-> Hole])
<1> DEFINE l == [k \in 1 .. n |-> Hole]
<1>1. Hole \in Cell /\ <<>> \in Seq(Cell)
  BY DEF Cell
<1>2. l \in [1 .. n -> Cell]
  BY <1>1
<1>3. l \in Seq(Cell) /\ Len(l) = n
  <2> HIDE DEF l
  <2> QED BY <1>2, IsBuffer
<1>4. Fits(NewArray(<<>>)) /\ NewArray(<<>>).length = 0
  BY <1>1, NewArrayShows DEF Shows, NewArray
<1>5. CASE n = 0
  <2>1. l = <<>>
    <3> HIDE DEF l
    <3> QED BY <1>3, <1>5, EmptySeq
  <2> HIDE DEF l
  <2>2. Shows(NewArray(<<>>), l)
    BY <1>1, <2>1, NewArrayShows
  <2> QED BY <1>5, <2>2 DEF Holes, l
<1>6. CASE n # 0
  <2> DEFINE g == Grow(NewArray(<<>>), n - 1)
             e == Overwrite(g.elements, 0, n, Hole)
             b == [length |-> n, elements |-> e]
  <2>1. n - 1 \in Nat
    BY <1>6
  <2>2. Fits(g) /\ g.length = 0 /\ n - 1 < Len(g.elements)
    BY <1>4, <2>1, GrowFits
  <2>3. Holes(n) = b
    BY <1>6 DEF Holes
  <2> HIDE DEF g
  <2>4. /\ g.elements \in Seq(Cell) /\ Len(g.elements) \in Nat
        /\ \A k \in 1 .. Len(g.elements) : g.elements[k] = Undefined
    BY <2>2, FitsParts
  <2>5. /\ e \in Seq(Cell) /\ Len(e) = Len(g.elements)
        /\ \A k \in 1 .. Len(g.elements) : e[k] = IF 0 < k /\ k <= n THEN Hole ELSE g.elements[k]
    BY <1>1, <2>4, OverwriteIs DEF Rewritten
  <2> HIDE DEF e
  <2>6. n <= Len(e) /\ Len(e) > 0 /\ \A k \in 1 .. Len(e) : k > n => e[k] = Undefined
    BY <1>6, <2>2, <2>4, <2>5
  <2>7. \A k \in 1 .. n : l[k] = e[k]
    BY <2>5, <2>6
  <2>8. Fits(b)
    BY <2>5, <2>6, FitsMade
  <2> HIDE DEF l
  <2>9. Live(b) = l
    BY <1>3, <2>7, <2>8, LiveEquals
  <2> QED BY <2>3, <2>8, <2>9 DEF Shows, l
<1> QED BY <1>5, <1>6

-----------------------------------------------------------------------------
(* The present cells, and what a sort starts from.                         *)

\* The recursion of PresentCells.
KeptBy(f, cells) ==
  /\ f \in [0 .. Len(cells) -> Seq(Cell)]
  /\ f[0] = <<>>
  /\ \A n \in 1 .. Len(cells) :
       f[n] = IF cells[n] # Hole THEN Append(f[n - 1], cells[n]) ELSE f[n - 1]

\* PresentCells takes the cells one by one.
LEMMA PresentSteps ==
  ASSUME NEW cells \in Seq(Cell)
  PROVE  KeptBy(PresentCells(cells), cells)
<1> DEFINE L == Len(cells)
           X == Seq(Cell)
           Step(n, x) == IF cells[n] # Hole THEN Append(x, cells[n]) ELSE x
           G == [z \in (1 .. L) \X X |-> Step(z[1], z[2])]
           Defines(f) == f = [n \in 0 .. L |-> IF n = 0 THEN <<>> ELSE Step(n, f[n - 1])]
<1>1. L \in Nat /\ <<>> \in X
  OBVIOUS
<1>2. \A n \in 1 .. L : \A x \in X : Step(n, x) \in X
  <2> TAKE n \in 1 .. L
  <2> TAKE x \in X
  <2>1. cells[n] \in Cell
    OBVIOUS
  <2>2. Append(x, cells[n]) \in X
    BY <2>1, AppendProperties
  <2> QED BY <2>2
<1>3. G \in [(1 .. L) \X X -> X]
  <2> HIDE DEF Step, X
  <2> QED BY <1>2
<1>4. PICK f : Recursion(f, L, X, <<>>, G)
  <2> HIDE DEF L, X, G
  <2> QED BY <1>1, <1>3, Recursive
<1>5. Defines(f)
  <2> HIDE DEF Step, X, G, L
  <2>1. f \in [0 .. L -> X] /\ f[0] = <<>> /\ \A n \in 1 .. L : f[n] = G[<<n, f[n - 1]>>]
    BY <1>4 DEF Recursion
  <2>2. ASSUME NEW n \in 1 .. L PROVE f[n] = Step(n, f[n - 1])
    <3>1. f[n - 1] \in X
      <4>1. n - 1 \in 0 .. L
        BY <1>1
      <4> QED BY <2>1, <4>1
    <3>2. G[<<n, f[n - 1]>>] = Step(n, f[n - 1])
      <4> HIDE DEF X
      <4> QED BY <3>1, SMTT(30) DEF G
    <3> QED BY <2>1, <3>2
  <2> QED BY <1>1, <2>1, <2>2
<1> DEFINE g == CHOOSE h : Defines(h)
<1>6. Defines(g)
  BY <1>5
<1>7. PresentCells(cells) = g
  BY DEF PresentCells
<1> DEFINE S == {n \in 0 .. L : g[n] \in X}
<1>8. /\ g = [n \in 0 .. L |-> IF n = 0 THEN <<>> ELSE Step(n, g[n - 1])]
      /\ g[0] = <<>> /\ \A n \in 1 .. L : g[n] = Step(n, g[n - 1])
  <2> HIDE DEF Step, g, L
  <2>1. g = [n \in 0 .. L |-> IF n = 0 THEN <<>> ELSE Step(n, g[n - 1])]
    BY <1>6
  <2> HIDE DEF Defines
  <2> QED BY <1>1, <2>1
<1> HIDE DEF g, Defines, Step, X, L
<1>9. 0 \in S
  BY <1>1, <1>8
<1>10. \A n \in 0 .. (L - 1) : n \in S => n + 1 \in S
  <2> SUFFICES ASSUME NEW n \in 0 .. (L - 1), n \in S PROVE n + 1 \in S
    OBVIOUS
  <2>1. g[n + 1] = Step(n + 1, g[(n + 1) - 1]) /\ (n + 1) - 1 = n /\ n + 1 \in 1 .. L
    BY <1>1, <1>8
  <2>2. Step(n + 1, g[n]) \in X
    BY <1>2, <2>1
  <2> QED BY <1>1, <2>1, <2>2
<1>11. \A n \in 0 .. L : g[n] \in X
  <2>1. \A n \in 0 .. L : n \in S
    <3> HIDE DEF S
    <3> QED BY <1>1, <1>9, <1>10, UpTo
  <2> QED BY <2>1
<1>12. g \in [0 .. L -> X]
  BY <1>8, <1>11
<1> QED BY <1>7, <1>8, <1>12 DEF KeptBy, Step, X, L

\* At most one is kept of each cell.
LEMMA PresentShort ==
  ASSUME NEW cells \in Seq(Cell)
  PROVE  Flattened(cells) \in Seq(Cell) /\ Len(Flattened(cells)) <= Len(cells)
<1> DEFINE L == Len(cells)
           f == PresentCells(cells)
           S == {n \in 0 .. L : Len(f[n]) <= n}
<1>1. /\ L \in Nat /\ f \in [0 .. L -> Seq(Cell)] /\ f[0] = <<>>
      /\ \A n \in 1 .. L : f[n] = IF cells[n] # Hole THEN Append(f[n - 1], cells[n]) ELSE f[n - 1]
  BY PresentSteps DEF KeptBy
<1>2. \A n \in 1 .. L : cells[n] \in Cell
  OBVIOUS
<1> HIDE DEF f, L
<1>3. 0 \in S
  BY <1>1
<1>4. ASSUME NEW n \in 0 .. (L - 1), n \in S PROVE n + 1 \in S
  <2>1. /\ n + 1 \in 1 .. L /\ n + 1 \in 0 .. L /\ (n + 1) - 1 = n
        /\ f[n] \in Seq(Cell) /\ Len(f[n]) <= n /\ cells[n + 1] \in Cell
    BY <1>1, <1>2, <1>4
  <2>2. Len(Append(f[n], cells[n + 1])) = Len(f[n]) + 1
    BY <2>1, AppendProperties
  <2>3. f[n + 1] = IF cells[n + 1] # Hole THEN Append(f[n], cells[n + 1]) ELSE f[n]
    BY <1>1, <2>1, Zenon
  <2>4. Len(f[n + 1]) <= n + 1
    <3>1. CASE cells[n + 1] # Hole
      BY <2>1, <2>2, <2>3, <3>1
    <3>2. CASE cells[n + 1] = Hole
      BY <2>1, <2>3, <3>2
    <3> QED BY <3>1, <3>2
  <2> QED BY <2>1, <2>4
<1>5. \A n \in 0 .. L : n \in S
  <2> HIDE DEF S
  <2> QED BY <1>1, <1>3, <1>4, UpTo
<1>6. L \in 0 .. L /\ L \in S
  BY <1>1, <1>5
<1>7. Flattened(cells) = f[L]
  BY DEF Flattened, f, L
<1> QED BY <1>1, <1>6, <1>7 DEF L

-----------------------------------------------------------------------------
(* The merges of a sort: a recursion on the two halves of a run.           *)

\* The merges of a sort of p elements: both halves have an element.
MergesOf(p) == {r \in [lo : 0 .. p, mid : 0 .. p, hi : 0 .. p] : r.lo < r.mid /\ r.mid < r.hi}

Runs(p) == (0 .. p) \X (0 .. p)

\* One turn of the recursion.
Halves(of, run) ==
  IF run[2] - run[1] < 2 THEN <<>>
  ELSE of[<<run[1], Middle(run[1], run[2])>>] \o of[<<Middle(run[1], run[2]), run[2]>>]
         \o <<[lo |-> run[1], mid |-> Middle(run[1], run[2]), hi |-> run[2]]>>

\* Both halves are shorter, and neither is empty.
LEMMA MiddleIs ==
  ASSUME NEW p \in Nat, NEW run \in Runs(p), ~(run[2] - run[1] < 2)
  PROVE  LET mid == Middle(run[1], run[2])
         IN  /\ mid \in 0 .. p /\ run[1] < mid /\ mid < run[2]
             /\ <<run[1], mid>> \in Runs(p) /\ <<mid, run[2]>> \in Runs(p)
             /\ mid - run[1] < run[2] - run[1] /\ run[2] - mid < run[2] - run[1]
             /\ [lo |-> run[1], mid |-> mid, hi |-> run[2]] \in MergesOf(p)
<1> DEFINE lo == run[1]
           hi == run[2]
           mid == Middle(lo, hi)
<1>1. lo \in 0 .. p /\ hi \in 0 .. p
  BY DEF Runs
<1> HIDE DEF lo, hi
<1>2. lo < mid /\ mid < hi /\ mid \in 0 .. p
  <2>1. hi - lo >= 2
    BY <1>1 DEF lo, hi
  <2> QED BY <1>1, <2>1 DEF Middle
<1> HIDE DEF mid
<1>3. mid - lo < hi - lo /\ hi - mid < hi - lo
  BY <1>1, <1>2
<1>4. <<lo, mid>> \in Runs(p) /\ <<mid, hi>> \in Runs(p)
  BY <1>1, <1>2 DEF Runs
<1>5. [lo |-> lo, mid |-> mid, hi |-> hi] \in MergesOf(p)
  BY <1>1, <1>2 DEF MergesOf
<1> QED BY <1>2, <1>3, <1>4, <1>5 DEF lo, hi, mid

\* A turn, of a recursion that has given both halves.
LEMMA HalvesAre ==
  ASSUME NEW p \in Nat, NEW run \in Runs(p), NEW of,
         ~(run[2] - run[1] < 2) =>
            /\ of[<<run[1], Middle(run[1], run[2])>>] \in Seq(MergesOf(p))
            /\ of[<<Middle(run[1], run[2]), run[2]>>] \in Seq(MergesOf(p))
  PROVE  /\ Halves(of, run) \in Seq(MergesOf(p))
         /\ ~(run[2] - run[1] < 2) => Halves(of, run) # <<>>
<1> DEFINE M == MergesOf(p)
           mid == Middle(run[1], run[2])
           x == of[<<run[1], mid>>]
           y == of[<<mid, run[2]>>]
           r == [lo |-> run[1], mid |-> mid, hi |-> run[2]]
<1>1. CASE run[2] - run[1] < 2
  <2>1. <<>> \in Seq(M)
    BY EmptySeq
  <2> QED BY <1>1, <2>1 DEF Halves
<1>2. CASE ~(run[2] - run[1] < 2)
  <2>1. r \in M
    BY <1>2, MiddleIs
  <2>2. x \in Seq(M) /\ y \in Seq(M)
    BY <1>2
  <2>3. Halves(of, run) = x \o y \o <<r>>
    BY <1>2 DEF Halves
  <2> HIDE DEF M, x, y, r
  <2>4. x \o y \in Seq(M) /\ <<r>> \in Seq(M) /\ Len(<<r>>) = 1
    BY <2>1, <2>2, ConcatProperties
  <2> DEFINE h == x \o y
  <2>5. h \o <<r>> \in Seq(M) /\ Len(h \o <<r>>) = Len(h) + 1 /\ Len(h) \in Nat
    <3> HIDE DEF h
    <3>1. h \in Seq(M)
      BY <2>4 DEF h
    <3> QED BY <2>4, <3>1, ConcatProperties, LenProperties
  <2>6. h \o <<r>> # <<>>
    <3> HIDE DEF h
    <3> QED BY <2>5, EmptySeq
  <2> QED BY <2>3, <2>5, <2>6 DEF M, h
<1> QED BY <1>1, <1>2

\* The recursion of Merges has a solution.
LEMMA MergesDefined ==
  ASSUME NEW p \in Nat
  PROVE  \E of : of = [run \in Runs(p) |-> Halves(of, run)]
<1> DEFINE R == Runs(p)
           X == [R -> Seq(MergesOf(p))]
           L == p + 1
           Turn(of) == [run \in R |-> Halves(of, run)]
           G == [z \in (1 .. L) \X X |-> Turn(z[2])]
           none == [run \in R |-> <<>>]
<1>1. L \in Nat /\ none \in X
  BY EmptySeq
<1>2. ASSUME NEW of \in X PROVE Turn(of) \in X
  <2> SUFFICES ASSUME NEW run \in R PROVE Halves(of, run) \in Seq(MergesOf(p))
    OBVIOUS
  <2>1. ~(run[2] - run[1] < 2) =>
            /\ of[<<run[1], Middle(run[1], run[2])>>] \in Seq(MergesOf(p))
            /\ of[<<Middle(run[1], run[2]), run[2]>>] \in Seq(MergesOf(p))
    BY MiddleIs
  <2> QED BY <2>1, HalvesAre
<1>3. G \in [(1 .. L) \X X -> X]
  <2> HIDE DEF X, Turn
  <2> QED BY <1>2
<1>4. PICK f : Recursion(f, L, X, none, G)
  <2> HIDE DEF X, G, none, L
  <2> QED BY <1>1, <1>3, Recursive
<1>5. /\ f \in [0 .. L -> X] /\ f[0] = none
      /\ \A n \in 1 .. L : f[n] = Turn(f[n - 1])
  <2> HIDE DEF X, Turn, none, L
  <2>1. f \in [0 .. L -> X] /\ f[0] = none /\ \A n \in 1 .. L : f[n] = G[<<n, f[n - 1]>>]
    BY <1>4 DEF Recursion
  <2>2. ASSUME NEW n \in 1 .. L PROVE G[<<n, f[n - 1]>>] = Turn(f[n - 1])
    <3>1. f[n - 1] \in X
      BY <1>1, <2>1
    <3> QED BY <3>1
  <2> QED BY <2>1, <2>2
<1> HIDE DEF G
<1> DEFINE Settled(d) == \A run \in R : run[2] - run[1] <= d => f[d + 1][run] = f[d][run]
           S == {d \in 0 .. p : Settled(d)}
<1>6. ASSUME NEW d \in 0 .. p, NEW run \in R PROVE f[d + 1][run] = Halves(f[d], run)
  <2>1. d + 1 \in 1 .. L /\ (d + 1) - 1 = d
    OBVIOUS
  <2>2. f[d + 1] = Turn(f[d])
    <3> HIDE DEF L, Turn
    <3>1. f[d + 1] = Turn(f[(d + 1) - 1])
      BY <1>5, <2>1
    <3> QED BY <2>1, <3>1
  <2> QED BY <2>2
<1>7. 0 \in S
  <2> SUFFICES ASSUME NEW run \in R, run[2] - run[1] <= 0 PROVE f[0 + 1][run] = f[0][run]
    OBVIOUS
  <2>1. run[1] \in Int /\ run[2] \in Int
    BY DEF Runs
  <2>2. run[2] - run[1] < 2
    BY <2>1
  <2>3. f[0 + 1][run] = Halves(f[0], run)
    BY <1>6
  <2>4. Halves(f[0], run) = <<>>
    BY <2>2 DEF Halves
  <2>5. f[0][run] = <<>>
    BY <1>5
  <2> QED BY <2>3, <2>4, <2>5
<1>8. ASSUME NEW d \in 0 .. (p - 1), d \in S PROVE d + 1 \in S
  <2>0. d \in 0 .. p /\ d + 1 \in 0 .. p
    OBVIOUS
  <2> SUFFICES ASSUME NEW run \in R, run[2] - run[1] <= d + 1
               PROVE  f[(d + 1) + 1][run] = f[d + 1][run]
    BY <2>0
  <2>1. f[(d + 1) + 1][run] = Halves(f[d + 1], run) /\ f[d + 1][run] = Halves(f[d], run)
    BY <1>6, <2>0
  <2>2. CASE run[2] - run[1] < 2
    BY <2>1, <2>2 DEF Halves
  <2>3. CASE ~(run[2] - run[1] < 2)
    <3> DEFINE mid == Middle(run[1], run[2])
               x == <<run[1], mid>>
               y == <<mid, run[2]>>
    <3>1. /\ x \in R /\ y \in R /\ mid \in 0 .. p /\ run[1] \in Int /\ run[2] \in Int
          /\ mid - run[1] < run[2] - run[1] /\ run[2] - mid < run[2] - run[1]
      <4>1. run[1] \in Int /\ run[2] \in Int
        BY DEF Runs
      <4> QED BY <2>3, <4>1, MiddleIs
    <3>2. x[2] - x[1] <= d /\ y[2] - y[1] <= d
      <4> HIDE DEF mid
      <4> QED BY <3>1
    <3>3. f[d + 1][x] = f[d][x] /\ f[d + 1][y] = f[d][y]
      <4> HIDE DEF x, y
      <4> QED BY <1>8, <3>1, <3>2
    <3>4. Halves(f[d + 1], run) = Halves(f[d], run)
      BY <2>3, <3>3 DEF Halves
    <3> QED BY <2>1, <3>4
  <2> QED BY <2>2, <2>3
<1>9. p \in S
  <2>1. \A d \in 0 .. p : d \in S
    <3> HIDE DEF S
    <3> QED BY <1>7, <1>8, UpTo
  <2> QED BY <2>1
<1>10. Settled(p)
  BY <1>9
<1>11. \A run \in R : f[p + 1][run] = f[p][run]
  <2> TAKE run \in R
  <2>1. run[2] - run[1] <= p
    BY DEF Runs
  <2> QED BY <1>10, <2>1
<1> DEFINE g == f[p]
<1>12. g \in X
  <2> HIDE DEF X
  <2> QED BY <1>5
<1>13. \A run \in R : g[run] = Halves(g, run)
  <2> TAKE run \in R
  <2>1. f[p + 1][run] = Halves(f[p], run)
    BY <1>6
  <2> QED BY <1>11, <2>1
<1>14. g = [run \in R |-> Halves(g, run)]
  <2> HIDE DEF g, R
  <2> QED BY <1>12, <1>13
<1> QED BY <1>14

\* The merges of a sort, of at least one if there are two elements.
LEMMA MergesAre ==
  ASSUME NEW p \in Nat
  PROVE  Merges(p) \in Seq(MergesOf(p)) /\ (p >= 2 => Merges(p) # <<>>)
<1> DEFINE R == Runs(p)
           Defines(of) == of = [run \in R |-> Halves(of, run)]
           g == CHOOSE of : Defines(of)
<1>1. Defines(g)
  BY MergesDefined
<1>2. Merges(p) = g[<<0, p>>]
  BY DEF Merges, Halves, Runs
<1>3. \A run \in R : g[run] = Halves(g, run)
  <2> HIDE DEF g
  <2> QED BY <1>1
<1> HIDE DEF g, Defines
<1> DEFINE S == {d \in 0 .. p : \A run \in R : run[2] - run[1] <= d => g[run] \in Seq(MergesOf(p))}
<1>4. ASSUME NEW d \in 0 .. p, NEW run \in R, run[2] - run[1] <= d,
             d # 0 => d - 1 \in S
      PROVE  g[run] \in Seq(MergesOf(p)) /\ (~(run[2] - run[1] < 2) => g[run] # <<>>)
  <2> DEFINE mid == Middle(run[1], run[2])
             x == <<run[1], mid>>
             y == <<mid, run[2]>>
  <2>1. ASSUME ~(run[2] - run[1] < 2) PROVE g[x] \in Seq(MergesOf(p)) /\ g[y] \in Seq(MergesOf(p))
    <3>1. /\ x \in R /\ y \in R /\ mid \in 0 .. p /\ run[1] \in Int /\ run[2] \in Int
          /\ mid - run[1] < run[2] - run[1] /\ run[2] - mid < run[2] - run[1]
      <4>1. run[1] \in Int /\ run[2] \in Int
        BY DEF Runs
      <4> QED BY <2>1, <4>1, MiddleIs
    <3>2. d # 0 /\ x[2] - x[1] <= d - 1 /\ y[2] - y[1] <= d - 1
      <4> HIDE DEF mid
      <4> QED BY <1>4, <2>1, <3>1
    <3> HIDE DEF x, y
    <3> QED BY <1>4, <3>1, <3>2
  <2>2. g[run] = Halves(g, run)
    BY <1>3
  <2> QED BY <2>1, <2>2, HalvesAre
<1>5. 0 \in S
  <2> SUFFICES ASSUME NEW run \in R, run[2] - run[1] <= 0 PROVE g[run] \in Seq(MergesOf(p))
    OBVIOUS
  <2> HIDE DEF S
  <2> QED BY <1>4
<1>6. ASSUME NEW d \in 0 .. (p - 1), d \in S PROVE d + 1 \in S
  <2>1. d + 1 \in 0 .. p /\ (d + 1) - 1 = d
    OBVIOUS
  <2> SUFFICES ASSUME NEW run \in R, run[2] - run[1] <= d + 1 PROVE g[run] \in Seq(MergesOf(p))
    BY <2>1
  <2> HIDE DEF S
  <2> QED BY <1>4, <1>6, <2>1
<1>7. \A d \in 0 .. p : d \in S
  <2> HIDE DEF S
  <2> QED BY <1>5, <1>6, UpTo
<1> DEFINE run == <<0, p>>
<1>8. run \in R /\ run[1] = 0 /\ run[2] = p /\ p \in 0 .. p
  BY DEF Runs
<1>9. g[run] \in Seq(MergesOf(p)) /\ (~(run[2] - run[1] < 2) => g[run] # <<>>)
  <2>1. run[2] - run[1] <= p
    BY <1>8
  <2>2. p # 0 => p - 1 \in S
    <3>1. p # 0 => p - 1 \in 0 .. p
      OBVIOUS
    <3> QED BY <1>7, <3>1
  <2> HIDE DEF run, S
  <2> QED BY <1>4, <1>8, <2>1, <2>2
<1>10. p >= 2 => ~(run[2] - run[1] < 2)
  BY <1>8
<1> QED BY <1>2, <1>9, <1>10

\* What compaction leaves: the present cells, then holes.
LEMMA CompactedShows ==
  ASSUME NEW a, Fits(a)
  PROVE  LET p == Flattened(Live(a))
         IN  /\ p \in Seq(Cell) /\ Len(p) <= a.length /\ Len(p) \in Nat
             /\ Shows(Compacted(a), [k \in 1 .. a.length |-> IF k <= Len(p) THEN p[k] ELSE Hole])
             /\ Compacted(a).length = a.length
<1> DEFINE n == a.length
           v == Live(a)
           p == Flattened(v)
           m == Len(p)
           e == a.elements
           placed == Place(e, 0, p)
           cells == Overwrite(placed, m, n, Hole)
           l == [k \in 1 .. n |-> IF k <= m THEN p[k] ELSE Hole]
<1>1. /\ n \in Nat /\ e \in Seq(Cell) /\ n <= Len(e) /\ Len(e) \in Nat
      /\ v \in Seq(Cell) /\ Len(v) = n
  BY FitsParts, LiveIs
<1>2. Hole \in Cell
  BY DEF Cell
<1> HIDE DEF v
<1>3. p \in Seq(Cell) /\ m <= n
  BY <1>1, PresentShort
<1>4. Compacted(a) = [a EXCEPT !.elements = cells]
  BY DEF Compacted, Fits, v
<1> HIDE DEF p, e
<1>5. m \in Nat /\ \A k \in 1 .. m : p[k] \in Cell
  BY <1>3
<1>6. /\ placed \in Seq(Cell) /\ Len(placed) = Len(e)
      /\ \A k \in 1 .. Len(e) : placed[k] = IF 0 < k /\ k <= 0 + m THEN p[k - 0] ELSE e[k]
  BY <1>1, <1>3, PlaceIs DEF Rewritten
<1> HIDE DEF placed, m, n
<1>7. /\ Rewritten(cells, e)
      /\ \A k \in 1 .. Len(e) : cells[k] = IF m < k /\ k <= n THEN Hole ELSE placed[k]
  <2>1. m \in Int /\ n \in Int
    BY <1>1, <1>5
  <2> QED BY <1>2, <1>6, <2>1, OverwriteIs DEF Rewritten
<1> HIDE DEF cells
<1>8. l \in [1 .. n -> Cell]
  BY <1>1, <1>2, <1>5
<1>9. \A k \in 1 .. n : l[k] = cells[k]
  <2> TAKE k \in 1 .. n
  <2>1. k \in Int /\ k >= 1 /\ k <= n /\ k \in 1 .. Len(e) /\ k - 0 = k /\ 0 + m = m
    BY <1>1, <1>5
  <2>2. CASE k <= m
    <3>1. placed[k] = p[k]
      BY <1>6, <2>1, <2>2
    <3> QED BY <1>5, <1>7, <2>1, <2>2, <3>1
  <2>3. CASE ~(k <= m)
    BY <1>5, <1>7, <2>1, <2>3
  <2> QED BY <2>2, <2>3
<1>10. \A k \in 1 .. Len(e) : k > n => cells[k] = e[k]
  BY <1>1, <1>3, <1>5, <1>6, <1>7
<1> HIDE DEF l
<1>11. Shows([a EXCEPT !.elements = cells], l)
  BY <1>7, <1>8, <1>9, <1>10, InPlace DEF n, e
<1>12. [a EXCEPT !.elements = cells].length = n
  BY DEF Fits, n
<1> QED BY <1>3, <1>4, <1>5, <1>11, <1>12 DEF l, p, v, m, n

-----------------------------------------------------------------------------
(* The invariant.                                                          *)

\* The sources of what a merge has placed so far are cells of its two runs, each
\* used once.
DrawnFrom(g, w, r, e) ==
  /\ g \in [r.lo + 1 .. w.k -> r.lo + 1 .. r.hi]
  /\ \A i \in r.lo + 1 .. w.k : (g[i] <= w.a \/ r.mid < g[i]) /\ g[i] <= w.b /\ w.scratch[i] = e[g[i]]
  /\ \A i, j \in r.lo + 1 .. w.k : g[i] = g[j] => i = j

SortState ==
  [method : {"sort"}, todo : Seq([lo : Nat, mid : Nat, hi : Nat]), a : Nat, b : Nat, k : Nat,
   scratch : Seq(Cell), key : Keys, honest : BOOLEAN, before : Seq(Cell)]

\* A sort in progress: it is inside the first of its merges.
Merged(w, r) == r.lo <= w.a /\ w.a <= r.mid /\ r.mid <= w.b /\ w.b <= r.hi /\ w.k = w.a + w.b - r.mid /\ w.k < r.hi
MergesInside(w, n) ==
  w.todo \in Seq(MergesOf(Len(w.scratch))) /\ w.todo # <<>> /\ Len(w.scratch) <= n
SortFits(w, a) ==
  /\ w \in SortState
  /\ MergesInside(w, a.length)
  /\ Merged(w, w.todo[1])
  /\ \E g \in [w.todo[1].lo + 1 .. w.k -> w.todo[1].lo + 1 .. w.todo[1].hi] : DrawnFrom(g, w, w.todo[1], a.elements)

WalkFits ==
  walk # <<>> => walk = <<walk[1]>> /\ (walk[1].method = "sort" => SortFits(walk[1], store))

ArrayInv == Fits(store) /\ WalkFits

\* Literals and arrays of a given length fit.
LEMMA ArrayStarts == Init => ArrayInv
<1> SUFFICES ASSUME Init PROVE ArrayInv
  OBVIOUS
<1>1. MaxLength \in Nat
  BY WalkAssumption
<1>2. ASSUME NEW items \in Literals PROVE Fits(NewArray(items))
  <2>1. PICK n \in 0 .. MaxLength : items \in [1 .. n -> Given]
    BY DEF Literals
  <2>2. Given \subseteq Cell
    BY DEF Given, Cell
  <2>3. n \in Nat /\ items \in [1 .. n -> Cell]
    BY <1>1, <2>1, <2>2
  <2>4. items \in Seq(Cell)
    BY <2>3, IsBuffer
  <2> QED BY <2>4, NewArrayShows DEF Shows
<1>3. ASSUME NEW n \in 0 .. MaxLength PROVE Fits(Holes(n))
  <2>1. n \in Nat
    BY <1>1
  <2> QED BY <2>1, HolesShows DEF Shows
<1>4. Fits(store)
  BY <1>2, <1>3 DEF Init
<1> QED BY <1>4 DEF ArrayInv, WalkFits, Init

\* A change is made outside a sort, so that it only has to leave an array that fits.
LEMMA BecomeKeeps ==
  ASSUME ArrayInv, NEW change, May(change), NEW a, Fits(a), NEW gave, Become(a, gave)
  PROVE  ArrayInv'
<1>1. walk' = walk /\ store' = a
  BY DEF Become
<1>2. walk # <<>> => walk = <<walk[1]>> /\ walk[1].method # "sort"
  BY DEF May, ArrayInv, WalkFits
<1>3. Fits(store')
  BY <1>1
<1>4. WalkFits'
  BY <1>1, <1>2 DEF WalkFits
<1> QED BY <1>3, <1>4 DEF ArrayInv, Fits

\* What a variadic call is given is a sequence of cells.
LEMMA ItemsAre ==
  ASSUME NEW items \in Items
  PROVE  items \in Seq(Cell)
<1>1. Value \subseteq Cell
  BY DEF Cell
<1>2. CASE \E v \in Value : items = <<v>>
  BY <1>1, <1>2
<1>3. CASE items = <<>>
  BY <1>3
<1>4. CASE \E v, w \in Value : items = <<v, w>>
  BY <1>1, <1>4
<1> QED BY <1>2, <1>3, <1>4 DEF Items

\* Positions and counts.
LEMMA ArgumentIs ==
  ASSUME NEW v \in Argument
  PROVE  v \in Numbers
BY WalkAssumption DEF Numbers

\* Taking from an array, empty or not.
LEMMA TakeFits ==
  ASSUME NEW a, Fits(a), NEW front \in BOOLEAN
  PROVE  Fits(Take(a, front))
<1>1. CASE a.length = 0
  BY <1>1 DEF Take
<1>2. CASE a.length # 0
  BY <1>2, TakeShows DEF Shows
<1> QED BY <1>1, <1>2

\* Every change leaves an array that fits.
LEMMA ChangeKeeps == ArrayInv /\ Change => ArrayInv'
<1> SUFFICES ASSUME ArrayInv, Change PROVE ArrayInv'
  OBVIOUS
<1>0. Fits(store) /\ store.length \in Nat
  BY FitsParts DEF ArrayInv
<1>1. CASE Push
  <2>1. PICK items \in Items : Become(AppendAll(store, items), <<store.length + Len(items)>>)
    BY <1>1 DEF Push
  <2>2. Fits(AppendAll(store, items))
    BY <1>0, ItemsAre, AppendAllShows DEF Shows
  <2> QED BY <1>1, <2>1, <2>2, BecomeKeeps DEF Push
<1>2. CASE Prepend
  <2>1. PICK items \in Items : Become(Unshift(store, items), <<store.length + Len(items)>>)
    BY <1>2 DEF Prepend
  <2>2. Fits(Unshift(store, items))
    BY <1>0, ItemsAre, UnshiftShows DEF Shows
  <2> QED BY <1>2, <2>1, <2>2, BecomeKeeps DEF Prepend
<1>3. CASE Pop
  <2>1. Fits(Take(store, FALSE))
    BY <1>0, TakeFits
  <2> QED BY <1>3, <2>1, BecomeKeeps DEF Pop
<1>4. CASE Shift
  <2>1. Fits(Take(store, TRUE))
    BY <1>0, TakeFits
  <2> QED BY <1>4, <2>1, BecomeKeeps DEF Shift
<1>5. CASE SpliceRun
  <2>1. PICK start, count \in Argument, items \in Items :
          Become(Splice(store, start, count, items), Spliced(store, start, count))
    BY <1>5 DEF SpliceRun
  <2>2. start \in Numbers /\ count \in Numbers /\ items \in Seq(Cell)
    BY ArgumentIs, ItemsAre
  <2>3. Fits(Splice(store, start, count, items))
    BY <1>0, <2>2, SpliceShows DEF Shows
  <2> QED BY <1>5, <2>1, <2>3, BecomeKeeps DEF SpliceRun
<1>6. CASE SpliceTail
  <2>1. PICK start \in Argument :
          Become(SpliceFrom(store, start), Spliced(store, start, store.length))
    BY <1>6 DEF SpliceTail
  <2>2. start \in Numbers /\ Start(start, store.length) \in 0 .. store.length
    BY <1>0, ArgumentIs, StartIs
  <2>3. store.length - Start(start, store.length) \in Numbers /\ <<>> \in Seq(Cell)
    BY <1>0, <2>2 DEF Numbers
  <2>4. Fits(SpliceFrom(store, start))
    BY <1>0, <2>2, <2>3, SpliceShows DEF Shows, SpliceFrom
  <2> QED BY <1>6, <2>1, <2>4, BecomeKeeps DEF SpliceTail
<1>7. CASE SetIndex
  <2>1. PICK i \in 0 .. MaxLength - 1, v \in Given : Become(Store(store, i, v), <<>>)
    BY <1>7 DEF SetIndex
  <2>2. i \in Nat /\ v \in Cell
    BY WalkAssumption DEF Given, Cell
  <2>3. Fits(Store(store, i, v))
    BY <1>0, <2>2, StoreShows DEF Shows
  <2> QED BY <1>7, <2>1, <2>3, BecomeKeeps DEF SetIndex
<1>8. CASE DeleteIndex
  <2>1. PICK i \in 0 .. MaxLength - 1 : Become(Delete(store, i), <<>>)
    BY <1>8 DEF DeleteIndex
  <2>2. i \in Nat
    BY WalkAssumption
  <2>3. Fits(Delete(store, i))
    BY <1>0, <2>2, DeleteShows DEF Shows
  <2> QED BY <1>8, <2>1, <2>3, BecomeKeeps DEF DeleteIndex
<1>9. CASE ReverseAll
  <2>1. Fits(Reversed(store))
    BY <1>0, ReversedShows DEF Shows
  <2> QED BY <1>9, <2>1, BecomeKeeps DEF ReverseAll
<1>10. CASE FillRange
  <2>1. PICK v \in Value, start, end \in Argument : Become(Fill(store, v, start, end), <<>>)
    BY <1>10 DEF FillRange
  <2>2. v \in Cell /\ start \in Numbers /\ end \in Numbers
    BY ArgumentIs DEF Cell
  <2>3. Fits(Fill(store, v, start, end))
    BY <1>0, <2>2, FillShows DEF Shows
  <2> QED BY <1>10, <2>1, <2>3, BecomeKeeps DEF FillRange
<1>11. CASE CopyRange
  <2>1. PICK target, start, end \in Argument : Become(CopyWithin(store, target, start, end), <<>>)
    BY <1>11 DEF CopyRange
  <2>2. target \in Numbers /\ start \in Numbers /\ end \in Numbers
    BY ArgumentIs
  <2>3. Fits(CopyWithin(store, target, start, end))
    BY <1>0, <2>2, CopyWithinShows DEF Shows
  <2> QED BY <1>11, <2>1, <2>3, BecomeKeeps DEF CopyRange
<1> QED BY <1>1, <1>2, <1>3, <1>4, <1>5, <1>6, <1>7, <1>8, <1>9, <1>10, <1>11 DEF Change

\* A method that calls back is not a sort.
LEMMA OnwardKeeps ==
  ASSUME ArrayInv, UNCHANGED store, NEW m, m # "sort", NEW i, NEW len, NEW out,
         Onward(m, i, len, out) \/ walk' = <<>>
  PROVE  ArrayInv'
<1>1. walk' # <<>> => \E w : walk' = <<w>> /\ w.method # "sort"
  <2>1. CASE walk' = <<>>
    BY <2>1
  <2>2. CASE Onward(m, i, len, out)
    <3> DEFINE turns == IF m \in Downward THEN 0 .. i ELSE i .. MaxLength - 1
               due == {j \in turns : Visited(m, j, len)}
               at == IF m \in Downward THEN Max(due) ELSE Min(due)
               w == [method |-> m, at |-> at, len |-> len, out |-> out,
                     seen |-> Unhole(store.elements[at + 1])]
    <3>1. walk' = <<>> \/ walk' = <<w>>
      BY <2>2, Zenon DEF Onward
    <3>2. w.method = m
      OBVIOUS
    <3> HIDE DEF w
    <3> QED BY <3>1, <3>2
  <2> QED BY <2>1, <2>2
<1>2. WalkFits'
  BY <1>1 DEF WalkFits
<1>3. Fits(store')
  BY DEF ArrayInv
<1> QED BY <1>2, <1>3 DEF ArrayInv, Fits

\* The walks: a call, the answers of a callback, and a throw.
LEMMA WalksKeep == ArrayInv /\ (Call \/ Return \/ CallbackThrows \/ ComparatorThrows) => ArrayInv'
<1> SUFFICES ASSUME ArrayInv, Call \/ Return \/ CallbackThrows \/ ComparatorThrows PROVE ArrayInv'
  OBVIOUS
<1>1. CASE Call
  BY <1>1, OnwardKeeps, WalkAssumption DEF Call
<1>2. ASSUME NEW m, NEW out, m # "sort", Answered(m, out) \/ Stopped(m, out)
      PROVE  ArrayInv'
  BY <1>2, OnwardKeeps DEF Answered, Stopped
<1>3. CASE Return
  <2>1. CASE ForEachReturns
    BY <1>2, <2>1 DEF ForEachReturns
  <2>2. CASE MapReturns
    BY <1>2, <2>2 DEF MapReturns
  <2>3. CASE FilterReturns
    BY <1>2, <2>3 DEF FilterReturns
  <2>4. CASE FlatMapReturns
    BY <1>2, <2>4 DEF FlatMapReturns
  <2>5. CASE SomeReturns
    BY <1>2, <2>5 DEF SomeReturns
  <2>6. CASE EveryReturns
    BY <1>2, <2>6 DEF EveryReturns
  <2>7. CASE FindReturns
    BY <1>2, <2>7 DEF FindReturns
  <2>8. CASE ReduceReturns
    BY <1>2, <2>8 DEF ReduceReturns
  <2> QED BY <1>3, <2>1, <2>2, <2>3, <2>4, <2>5, <2>6, <2>7, <2>8 DEF Return
<1>4. CASE CallbackThrows
  BY <1>2, <1>4 DEF CallbackThrows
<1>5. CASE ComparatorThrows
  <2>1. store' = store /\ walk' = <<>>
    BY <1>5 DEF ComparatorThrows
  <2> QED BY <2>1, OnwardKeeps
<1> QED BY <1>1, <1>3, <1>4, <1>5

-----------------------------------------------------------------------------
(* The steps of a sort.                                                    *)

\* What a merge of p elements looks like.
LEMMA MergeIs ==
  ASSUME NEW p \in Nat, NEW r \in MergesOf(p)
  PROVE  /\ r.lo \in Nat /\ r.mid \in Nat /\ r.hi \in Nat
         /\ r.lo < r.mid /\ r.mid < r.hi /\ r.hi <= p
         /\ r \in [lo : Nat, mid : Nat, hi : Nat]
BY DEF MergesOf

\* A merge begins with nothing placed.
LEMMA MergingFits ==
  ASSUME NEW a, NEW w \in SortState, Len(w.scratch) <= a.length,
         NEW todo \in Seq(MergesOf(Len(w.scratch))), todo # <<>>
  PROVE  SortFits(Merging(w, todo), a)
<1> DEFINE r == todo[1]
           p == Len(w.scratch)
           x == Merging(w, todo)
           g == [i \in r.lo + 1 .. r.lo |-> r.lo + 1]
<1>1. w.scratch \in Seq(Cell) /\ p \in Nat
  BY DEF SortState
<1> HIDE DEF p
<1>2. r \in MergesOf(p)
  <2>1. Len(todo) \in Nat /\ Len(todo) > 0
    BY EmptySeq DEF p
  <2> QED BY <2>1 DEF p
<1>3. todo \in Seq([lo : Nat, mid : Nat, hi : Nat])
  <2>1. MergesOf(p) \subseteq [lo : Nat, mid : Nat, hi : Nat]
    BY <1>1, MergeIs
  <2>2. todo \in Seq(MergesOf(p))
    BY DEF p
  <2> QED BY <2>1, <2>2, SeqMonotonic
<1> HIDE DEF r
<1>4. r.lo \in Nat /\ r.mid \in Nat /\ r.hi \in Nat /\ r.lo < r.mid /\ r.mid < r.hi /\ r.hi <= p
  BY <1>1, <1>2, MergeIs
<1>5. x = [w EXCEPT !.todo = todo, !.a = r.lo, !.b = r.mid, !.k = r.lo]
  BY DEF Merging, r
<1>6. /\ x \in SortState
      /\ x.todo = todo /\ x.a = r.lo /\ x.b = r.mid /\ x.k = r.lo /\ x.scratch = w.scratch
  BY <1>3, <1>4, <1>5 DEF SortState
<1> HIDE DEF x
<1>7. MergesInside(x, a.length)
  BY <1>6 DEF MergesInside
<1>8. Merged(x, r)
  BY <1>4, <1>6 DEF Merged
<1>9. DrawnFrom(g, x, r, a.elements) /\ g \in [r.lo + 1 .. x.k -> r.lo + 1 .. r.hi]
  <2>1. r.lo + 1 .. r.lo = {}
    BY <1>4
  <2>2. x.k = r.lo /\ g \in [r.lo + 1 .. r.lo -> r.lo + 1 .. r.hi]
    BY <1>6, <2>1
  <2> HIDE DEF g
  <2> QED BY <2>1, <2>2 DEF DrawnFrom
<1> HIDE DEF g
<1>10. x.todo[1] = r
  BY <1>6 DEF r
<1> QED BY <1>6, <1>7, <1>8, <1>9, <1>10 DEF SortFits, x

\* A sort begins by compacting, and has nothing to do if fewer than two are present.
LEMMA SortKeeps == ArrayInv /\ Sort => ArrayInv'
<1> SUFFICES ASSUME ArrayInv, Sort PROVE ArrayInv'
  OBVIOUS
<1>1. PICK key \in Keys, honest \in BOOLEAN :
        LET present == Len(Flattened(Live(store)))
            fresh   == [method |-> "sort", todo |-> <<>>, a |-> 0, b |-> 0, k |-> 0,
                        scratch |-> SubSeq(Compacted(store).elements, 1, present),
                        key |-> key, honest |-> honest, before |-> Live(store)]
        IN  /\ store' = Compacted(store)
            /\ walk' = IF present < 2 THEN <<>> ELSE <<Merging(fresh, Merges(present))>>
  BY DEF Sort
<1> DEFINE p == Len(Flattened(Live(store)))
           e == Compacted(store).elements
           scratch == SubSeq(e, 1, p)
           fresh == [method |-> "sort", todo |-> <<>>, a |-> 0, b |-> 0, k |-> 0, scratch |-> scratch,
                     key |-> key, honest |-> honest, before |-> Live(store)]
<1>2. Fits(store)
  BY DEF ArrayInv
<1>3. /\ p \in Nat /\ p <= store.length /\ Fits(Compacted(store))
      /\ Compacted(store).length = store.length /\ store.length \in Nat
      /\ Live(store) \in Seq(Cell)
  BY <1>2, CompactedShows, LiveIs, FitsParts DEF Shows
<1>4. e \in Seq(Cell) /\ p <= Len(e) /\ Len(e) \in Nat
  <2> HIDE DEF p
  <2> QED BY <1>3, FitsParts
<1>5. store' = Compacted(store) /\ walk' = IF p < 2 THEN <<>> ELSE <<Merging(fresh, Merges(p))>>
  BY <1>1
<1> HIDE DEF p, e
<1>6. scratch \in Seq(Cell) /\ Len(scratch) = p
  BY <1>3, <1>4, SubSeqProperties
<1> HIDE DEF scratch
<1>7. fresh \in SortState /\ fresh.scratch = scratch
  <2>1. <<>> \in Seq([lo : Nat, mid : Nat, hi : Nat])
    BY EmptySeq
  <2> QED BY <1>3, <1>6, <2>1 DEF SortState
<1> HIDE DEF fresh
<1>8. Fits(store')
  BY <1>3, <1>5
<1>9. WalkFits'
  <2>1. CASE p < 2
    BY <1>5, <2>1 DEF WalkFits
  <2>2. CASE ~(p < 2)
    <3> DEFINE x == Merging(fresh, Merges(p))
    <3>1. Merges(p) \in Seq(MergesOf(Len(fresh.scratch))) /\ Merges(p) # <<>>
      BY <1>3, <1>6, <1>7, <2>2, MergesAre
    <3>2. SortFits(x, store')
      BY <1>3, <1>5, <1>6, <1>7, <3>1, MergingFits
    <3> HIDE DEF x
    <3>3. walk' = <<x>>
      BY <1>5, <2>2 DEF x
    <3> QED BY <3>2, <3>3 DEF WalkFits, SortFits
  <2> QED BY <2>1, <2>2
<1> QED BY <1>8, <1>9 DEF ArrayInv, Fits

\* The sort in progress.
LEMMA SortIs ==
  ASSUME ArrayInv, walk # <<>>, walk[1].method = "sort"
  PROVE  LET w == walk[1]
             r == w.todo[1]
         IN  /\ SortFits(w, store) /\ w \in SortState
             /\ w.a \in Nat /\ w.b \in Nat /\ w.k \in Nat /\ w.scratch \in Seq(Cell)
             /\ w.todo \in Seq(MergesOf(Len(w.scratch))) /\ w.todo # <<>> /\ r \in MergesOf(Len(w.scratch))
             /\ r.lo \in Nat /\ r.mid \in Nat /\ r.hi \in Nat /\ r.lo < r.mid /\ r.mid < r.hi
             /\ r.hi <= Len(w.scratch) /\ Len(w.scratch) <= store.length /\ Len(w.scratch) \in Nat
             /\ Merged(w, r)
<1> DEFINE w == walk[1]
           r == w.todo[1]
           p == Len(w.scratch)
<1>1. SortFits(w, store)
  BY DEF ArrayInv, WalkFits
<1> HIDE DEF w
<1>2. /\ w \in SortState /\ w.todo \in Seq(MergesOf(p)) /\ w.todo # <<>> /\ p <= store.length
      /\ Merged(w, r)
  BY <1>1 DEF SortFits, MergesInside
<1>3. w.a \in Nat /\ w.b \in Nat /\ w.k \in Nat /\ w.scratch \in Seq(Cell) /\ p \in Nat
  BY <1>2 DEF SortState
<1> HIDE DEF p
<1>4. r \in MergesOf(p)
  <2> DEFINE t == w.todo
  <2>1. t \in Seq(MergesOf(p)) /\ t # <<>>
    BY <1>2
  <2> HIDE DEF t
  <2>2. Len(t) \in Nat /\ Len(t) > 0
    BY <2>1, EmptySeq
  <2>3. t[1] \in MergesOf(p)
    BY <2>1, <2>2
  <2> QED BY <2>3 DEF t
<1> HIDE DEF r
<1>5. /\ r.lo \in Nat /\ r.mid \in Nat /\ r.hi \in Nat /\ r.lo < r.mid /\ r.mid < r.hi /\ r.hi <= p
  BY <1>3, <1>4, MergeIs
<1> QED BY <1>1, <1>2, <1>3, <1>4, <1>5 DEF w, r, p

\* The run an element is placed from has one left.
PlacedFrom(w, r, left) == IF left THEN w.a < r.mid ELSE w.b < r.hi

\* A merge takes its next element from a run that has one left.
LEMMA TakesOne ==
  ASSUME NEW w, NEW r, w.todo[1] = r, Merged(w, r), NEW left \in TakesLeft(w),
         w.a \in Nat, w.b \in Nat, r.mid \in Nat, r.hi \in Nat
  PROVE  left \in BOOLEAN /\ PlacedFrom(w, r, left)
<1>1. CASE w.a < r.mid /\ w.b < r.hi
  <2>1. PICK order \in Orders(w, store.elements[w.a + 1], store.elements[w.b + 1]) : left = (order <= 0)
    BY <1>1, Zenon DEF TakesLeft
  <2>2. left \in BOOLEAN
    <3>1. CASE order <= 0
      BY <2>1, <3>1
    <3>2. CASE ~(order <= 0)
      BY <2>1, <3>2
    <3> QED BY <3>1, <3>2
  <2>3. PlacedFrom(w, r, left)
    BY <1>1, Zenon DEF PlacedFrom
  <2> QED BY <2>2, <2>3
<1>2. CASE ~(w.a < r.mid /\ w.b < r.hi)
  <2>1. left = (w.a < r.mid)
    BY <1>2 DEF TakesLeft
  <2>2. CASE w.a < r.mid
    <3>1. left = TRUE
      BY <2>1, <2>2
    <3> QED BY <2>2, <3>1 DEF PlacedFrom
  <2>3. CASE ~(w.a < r.mid)
    <3>0. (w.a < r.mid) = FALSE
      BY <2>3
    <3>1. left = FALSE
      BY <2>1, <3>0, Zenon
    <3>2. w.b < r.hi
      BY <2>3 DEF Merged
    <3> QED BY <3>1, <3>2 DEF PlacedFrom
  <2> QED BY <2>2, <2>3
<1> QED BY <1>1, <1>2

\* Placed, over any buffer.
PlacedOver(w, e, left) ==
  [w EXCEPT !.scratch[w.k + 1] = e[(IF left THEN w.a ELSE w.b) + 1],
            !.a = IF left THEN @ + 1 ELSE @,
            !.b = IF left THEN @ ELSE @ + 1,
            !.k = @ + 1]

\* What has been placed stays drawn from the two runs, each cell once.
LEMMA PlacedDraws ==
  ASSUME NEW w \in SortState, NEW e, NEW r, Merged(w, r), NEW left \in BOOLEAN, PlacedFrom(w, r, left),
         r.lo \in Nat, r.mid \in Nat, r.hi \in Nat, r.hi <= Len(w.scratch), r.hi <= Len(e), e \in Seq(Cell),
         NEW g, DrawnFrom(g, w, r, e)
  PROVE  LET x == PlacedOver(w, e, left)
         IN  /\ x \in SortState /\ x.todo = w.todo /\ x.method = "sort" /\ Len(x.scratch) = Len(w.scratch)
             /\ r.lo <= x.a /\ x.a <= r.mid /\ r.mid <= x.b /\ x.b <= r.hi
             /\ x.k = x.a + x.b - r.mid /\ x.k = w.k + 1 /\ x.k <= r.hi
             /\ \E d : DrawnFrom(d, x, r, e)
<1> DEFINE lo == r.lo
           mid == r.mid
           hi == r.hi
           k == w.k
           aw == w.a
           bw == w.b
           from == (IF left THEN aw ELSE bw) + 1
           c == e[from]
           s == [w.scratch EXCEPT ![k + 1] = c]
           a == IF left THEN aw + 1 ELSE aw
           b == IF left THEN bw ELSE bw + 1
           x == PlacedOver(w, e, left)
           d == [i \in lo + 1 .. k + 1 |-> IF i = k + 1 THEN from ELSE g[i]]
<1>1. /\ aw \in Nat /\ bw \in Nat /\ k \in Nat /\ w.scratch \in Seq(Cell) /\ Len(w.scratch) \in Nat
      /\ w.todo \in Seq([lo : Nat, mid : Nat, hi : Nat])
      /\ w.method = "sort" /\ Len(e) \in Nat
  BY DEF SortState
<1>2. /\ lo <= aw /\ aw <= mid /\ mid <= bw /\ bw <= hi /\ k = aw + bw - mid /\ k < hi
      /\ lo \in Nat /\ mid \in Nat /\ hi \in Nat /\ hi <= Len(w.scratch) /\ hi <= Len(e)
      /\ IF left THEN aw < mid ELSE bw < hi
  BY DEF Merged, PlacedFrom
<1>7. /\ x = [w EXCEPT !.scratch = s, !.a = a, !.b = b, !.k = k + 1]
      /\ a \in Nat /\ b \in Nat /\ k + 1 \in Nat
  <2>1. a \in Nat /\ b \in Nat /\ k + 1 \in Nat
    BY <1>1, SMTT(30)
  <2>2. x = [w EXCEPT !.scratch = s, !.a = a, !.b = b, !.k = k + 1]
    BY DEF SortState, PlacedOver
  <2> QED BY <2>1, <2>2
<1> HIDE DEF lo, mid, hi, k, aw, bw, x
<1>10. /\ from \in lo + 1 .. hi
       /\ lo <= a /\ a <= mid /\ mid <= b /\ b <= hi /\ k + 1 = a + b - mid /\ k + 1 <= hi
       /\ (from <= a \/ mid < from) /\ from <= b
       /\ \A y \in Int : (y <= aw \/ mid < y) /\ y <= bw => y # from /\ (y <= a \/ mid < y) /\ y <= b
  <2>1. /\ lo \in Int /\ mid \in Int /\ hi \in Int /\ aw \in Int /\ bw \in Int /\ k \in Int
        /\ left \in BOOLEAN
    BY <1>1, <1>2
  <2>2. CASE left
    <3>1. from = aw + 1 /\ a = aw + 1 /\ b = bw /\ aw < mid
      BY <1>2, <2>2, Zenon
    <3> HIDE DEF from, a, b
    <3> QED BY <1>2, <2>1, <3>1
  <2>3. CASE ~left
    <3>1. from = bw + 1 /\ a = aw /\ b = bw + 1 /\ bw < hi
      BY <1>2, <2>3, Zenon
    <3> HIDE DEF from, a, b
    <3> QED BY <1>2, <2>1, <3>1
  <2> QED BY <2>2, <2>3
<1> HIDE DEF a, b, from, c
<1>3. from \in 1 .. Len(e)
  BY <1>1, <1>2, <1>10
<1>4. c \in Cell
  BY <1>3 DEF c
<1>5. w.scratch \in [1 .. Len(w.scratch) -> Cell]
  BY <1>1, BufferIs
<1>6. /\ s \in [1 .. Len(w.scratch) -> Cell]
      /\ \A i \in 1 .. Len(w.scratch) : s[i] = IF i = k + 1 THEN c ELSE w.scratch[i]
  BY <1>1, <1>2, <1>4, <1>5
<1> HIDE DEF s
<1>8. s \in Seq(Cell) /\ Len(s) = Len(w.scratch)
  BY <1>1, <1>6, IsBuffer
<1>9. /\ x \in SortState /\ x.todo = w.todo /\ x.method = "sort"
      /\ x.scratch = s /\ x.a = a /\ x.b = b /\ x.k = k + 1
  BY <1>1, <1>7, <1>8 DEF SortState
<1>11. /\ g \in [lo + 1 .. k -> lo + 1 .. hi]
       /\ \A i \in lo + 1 .. k : (g[i] <= aw \/ mid < g[i]) /\ g[i] <= bw /\ w.scratch[i] = e[g[i]]
       /\ \A i, j \in lo + 1 .. k : g[i] = g[j] => i = j
  BY DEF DrawnFrom, lo, mid, hi, k, aw, bw
<1>12. \A i \in lo + 1 .. k : g[i] \in lo + 1 .. hi /\ g[i] # from /\ (g[i] <= a \/ mid < g[i]) /\ g[i] <= b
  <2> TAKE i \in lo + 1 .. k
  <2>1. g[i] \in lo + 1 .. hi /\ (g[i] <= aw \/ mid < g[i]) /\ g[i] <= bw
    BY <1>11
  <2>2. g[i] \in Int
    BY <1>2, <2>1
  <2> QED BY <1>10, <2>1, <2>2
<1>13. DrawnFrom(d, x, r, e)
  <2>1. \A i \in lo + 1 .. k + 1 : i # k + 1 => i \in lo + 1 .. k
    BY <1>1, <1>2
  <2>2. d \in [lo + 1 .. k + 1 -> lo + 1 .. hi]
    BY <1>10, <1>11, <2>1
  <2>3. \A i \in lo + 1 .. k + 1 : d[i] = IF i = k + 1 THEN from ELSE g[i]
    OBVIOUS
  <2> HIDE DEF d
  <2>4. ASSUME NEW i \in lo + 1 .. k + 1
        PROVE  (d[i] <= a \/ mid < d[i]) /\ d[i] <= b /\ s[i] = e[d[i]]
    <3>1. i \in 1 .. Len(w.scratch)
      BY <1>1, <1>2
    <3>2. CASE i = k + 1
      <4>1. d[i] = from /\ s[i] = c
        BY <1>6, <2>3, <3>1, <3>2
      <4> QED BY <1>10, <4>1, Zenon DEF c
    <3>3. CASE i # k + 1
      <4>1. i \in lo + 1 .. k /\ d[i] = g[i] /\ s[i] = w.scratch[i]
        BY <1>6, <2>1, <2>3, <3>1, <3>3
      <4> QED BY <1>11, <1>12, <4>1, Zenon
    <3> QED BY <3>2, <3>3
  <2>5. ASSUME NEW i \in lo + 1 .. k + 1, NEW j \in lo + 1 .. k + 1, d[i] = d[j] PROVE i = j
    <3>1. CASE i # k + 1 /\ j # k + 1
      BY <1>11, <2>1, <2>3, <2>5, <3>1, Zenon
    <3>2. CASE i = k + 1 /\ j # k + 1
      BY <1>12, <2>1, <2>3, <2>5, <3>2, Zenon
    <3>3. CASE i # k + 1 /\ j = k + 1
      BY <1>12, <2>1, <2>3, <2>5, <3>3, Zenon
    <3> QED BY <3>1, <3>2, <3>3
  <2> QED BY <1>9, <2>2, <2>4, <2>5 DEF DrawnFrom, lo, mid, hi
<1> QED BY <1>8, <1>9, <1>10, <1>13 DEF x, c, from, lo, mid, hi, k, aw, bw
\* A list of n elements, rearranged by an injection.
Reorders(g, l, k, n) ==
  /\ DOMAIN l = 1 .. n /\ k \in [1 .. n -> Cell] /\ g \in [1 .. n -> 1 .. n]
  /\ \A i, j \in 1 .. n : g[i] = g[j] => i = j
  /\ \A i \in 1 .. n : k[i] = l[g[i]]

\* Such a list is rearranged as the standard says.
LEMMA RearrangedBy ==
  ASSUME NEW l, NEW n, NEW g, NEW k, Reorders(g, l, k, n)
  PROVE  Contract!Rearranged(l, k)
<1>1. g \in [DOMAIN l -> DOMAIN l] /\ \A i, j \in DOMAIN l : g[i] = g[j] => i = j
  BY DEF Reorders
<1>2. k = [i \in DOMAIN l |-> l[g[i]]]
  BY DEF Reorders
<1> QED BY <1>1, <1>2, Zenon DEF Contract!Rearranged

\* The first p of n cells trade places among themselves.
Trades(g, n, p) == \A i \in 1 .. n : i <= p <=> g[i] <= p

\* A turn places one element; the last of a merge writes the run back and begins the
\* next merge.
LEMMA MergeKeeps ==
  ASSUME ArrayInv, Merge
  PROVE  /\ ArrayInv' /\ store'.length = store.length
         /\ \E g : /\ Reorders(g, Live(store), Live(store'), store.length)
                 /\ Trades(g, store.length, Len(walk[1].scratch))
         /\ walk' # <<>> =>
              /\ walk'[1].method = "sort" /\ walk'[1].before = walk[1].before
              /\ Len(walk'[1].scratch) = Len(walk[1].scratch)
<1> DEFINE w == walk[1]
           r == w.todo[1]
           e == store.elements
           Back(x) == Place(e, r.lo, SubSeq(x.scratch, r.lo + 1, r.hi))
           Next1(x) == IF Len(x.todo) = 1 THEN <<>> ELSE <<Merging(x, Tail(x.todo))>>
<1>1. walk # <<>> /\ w.method = "sort"
  BY DEF Merge
<1>2. /\ SortFits(w, store) /\ w \in SortState
      /\ w.a \in Nat /\ w.b \in Nat /\ w.scratch \in Seq(Cell)
      /\ w.todo \in Seq(MergesOf(Len(w.scratch))) /\ w.todo # <<>>
      /\ r.lo \in Nat /\ r.mid \in Nat /\ r.hi \in Nat /\ r.lo < r.hi
      /\ r.hi <= Len(w.scratch) /\ Len(w.scratch) <= store.length /\ Len(w.scratch) \in Nat
      /\ Merged(w, r)
  BY <1>1, SortIs
<1>3. /\ Fits(store) /\ e \in Seq(Cell) /\ Len(e) \in Nat /\ store.length \in Nat /\ store.length <= Len(e)
      /\ \A k \in 1 .. Len(e) : e[k] \in Cell
  BY FitsParts DEF ArrayInv
<1>4. PICK left \in TakesLeft(w) :
        LET x == Placed(w, left)
        IN  IF x.k < x.todo[1].hi
            THEN walk' = <<x>> /\ UNCHANGED store
            ELSE /\ store' = [store EXCEPT !.elements =
                                Place(e, x.todo[1].lo, SubSeq(x.scratch, x.todo[1].lo + 1, x.todo[1].hi))]
                 /\ walk' = Next1(x)
  BY Zenon DEF Merge
<1> HIDE DEF w, e, Next1
<1>5. left \in BOOLEAN /\ PlacedFrom(w, r, left)
  BY <1>2, TakesOne
<1> DEFINE x == Placed(w, left)
<1>6. r.hi <= Len(e)
  BY <1>2, <1>3
<1>7. \E g : DrawnFrom(g, w, r, e)
  BY <1>2 DEF SortFits, e
<1>8. /\ x \in SortState /\ x.todo = w.todo /\ x.method = "sort" /\ Len(x.scratch) = Len(w.scratch)
      /\ r.lo <= x.a /\ x.a <= r.mid /\ r.mid <= x.b /\ x.b <= r.hi
      /\ x.k = x.a + x.b - r.mid /\ x.k <= r.hi
      /\ \E d : DrawnFrom(d, x, r, e)
  <2>1. x = PlacedOver(w, e, left)
    BY DEF Placed, PlacedOver, e
  <2> HIDE DEF r, x
  <2>2. PICK g : DrawnFrom(g, w, r, e)
    BY <1>7
  <2>3. LET y == PlacedOver(w, e, left)
        IN  /\ y \in SortState /\ y.todo = w.todo /\ y.method = "sort" /\ Len(y.scratch) = Len(w.scratch)
            /\ r.lo <= y.a /\ y.a <= r.mid /\ r.mid <= y.b /\ y.b <= r.hi
            /\ y.k = y.a + y.b - r.mid /\ y.k = w.k + 1 /\ y.k <= r.hi
            /\ \E d : DrawnFrom(d, y, r, e)
    BY <1>2, <1>3, <1>5, <1>6, <2>2, PlacedDraws
  <2> QED BY <2>1, <2>3
<1>9. x.todo[1] = r
  BY <1>8
<1>14. x.before = w.before
  BY <1>2 DEF Placed, SortState
<1> HIDE DEF x, r, Back
<1>12. x.scratch \in Seq(Cell) /\ x.k \in Nat
  BY <1>8 DEF SortState
<1>13. /\ r.lo \in Nat /\ r.hi \in Nat /\ r.lo < r.hi
       /\ r.hi <= Len(x.scratch) /\ r.hi <= store.length /\ store.length \in Nat
  BY <1>2, <1>3, <1>8
<1>10. CASE x.k < r.hi
  <2>1. walk' = <<x>> /\ store' = store
    BY <1>4, <1>9, <1>10, Zenon DEF x
  <2>2. SortFits(x, store)
    <3>1. MergesInside(x, store.length)
      BY <1>2, <1>8 DEF MergesInside
    <3>2. Merged(x, r)
      BY <1>8, <1>10 DEF Merged
    <3>3. PICK d : DrawnFrom(d, x, r, e)
      BY <1>8
    <3>4. d \in [r.lo + 1 .. x.k -> r.lo + 1 .. r.hi]
      BY <3>3 DEF DrawnFrom
    <3> QED BY <1>8, <1>9, <3>1, <3>2, <3>3, <3>4 DEF SortFits, e
  <2>3. \E g : Reorders(g, Live(store), Live(store'), store.length) /\ Trades(g, store.length, Len(w.scratch))
    <3> DEFINE l == Live(store)
               n == store.length
               g == [i \in 1 .. n |-> i]
    <3>1. l \in [1 .. n -> Cell]
      BY <1>3, LiveFunction
    <3>2. g \in [1 .. n -> 1 .. n] /\ \A i \in 1 .. n : g[i] = i
      OBVIOUS
    <3> HIDE DEF l, g, n
    <3>3. DOMAIN l = 1 .. n /\ (\A i \in 1 .. n : l[i] = l[g[i]]) /\ \A i, j \in 1 .. n : g[i] = g[j] => i = j
      BY <3>1, <3>2
    <3>4. Reorders(g, l, l, n) /\ Trades(g, n, Len(w.scratch))
      BY <3>1, <3>2, <3>3 DEF Reorders, Trades
    <3> QED BY <2>1, <3>4 DEF l, n
  <2>4. Len(x.scratch) = Len(w.scratch) /\ x.before = w.before
    BY <1>8, <1>14
  <2>5. ArrayInv' /\ store'.length = store.length
    BY <1>3, <2>1, <2>2 DEF ArrayInv, WalkFits, SortFits, Fits
  <2>6. walk' # <<>> /\ walk'[1] = x /\ x.method = "sort"
    BY <1>8, <2>1
  <2> QED BY <2>3, <2>4, <2>5, <2>6, Zenon DEF w
<1>11. CASE ~(x.k < r.hi)
  <2>1. store' = [store EXCEPT !.elements = Back(x)] /\ walk' = Next1(x)
    BY <1>4, <1>9, <1>11, Zenon DEF x, Back
  <2> DEFINE run == SubSeq(x.scratch, r.lo + 1, r.hi)
             cells == Place(e, r.lo, run)
  <2>2. run \in Seq(Cell) /\ Len(run) = r.hi - r.lo
    <3>1. r.lo + 1 \in Int /\ r.hi \in Int /\ r.lo + 1 <= r.hi /\ r.hi - (r.lo + 1) + 1 = r.hi - r.lo
      BY <1>13
    <3>2. \A i \in r.lo + 1 .. r.hi : x.scratch[i] \in Cell
      BY <1>12, <1>13
    <3> QED BY <3>1, <3>2, SubSeqProperties
  <2>11. \A i \in 1 .. r.hi - r.lo : run[i] = x.scratch[r.lo + 1 + i - 1]
    <3>1. r.lo + 1 \in Int /\ r.hi \in Int /\ r.hi - (r.lo + 1) + 1 = r.hi - r.lo
      BY <1>13
    <3>2. \A i \in r.lo + 1 .. r.hi : x.scratch[i] \in Cell
      BY <1>12, <1>13
    <3> QED BY <3>1, <3>2, SubSeqProperties
  <2> HIDE DEF run
  <2>3. /\ cells \in Seq(Cell) /\ Len(cells) = Len(e)
        /\ \A k \in 1 .. Len(e) : cells[k] = IF r.lo < k /\ k <= r.lo + Len(run) THEN run[k - r.lo] ELSE e[k]
    BY <1>2, <1>3, <2>2, PlaceIs DEF Rewritten
  <2> HIDE DEF cells
  <2> DEFINE l == [k \in 1 .. store.length |-> cells[k]]
  <2>4. l \in [1 .. store.length -> Cell]
    <3>1. \A k \in 1 .. Len(e) : cells[k] \in Cell
      BY <1>3, <2>3
    <3> QED BY <1>3, <3>1
  <2>5. \A k \in 1 .. Len(e) : k > store.length => cells[k] = e[k]
    <3>1. r.lo + Len(run) = r.hi /\ r.hi <= store.length
      BY <1>13, <2>2
    <3> QED BY <1>3, <1>13, <2>3, <3>1
  <2>6. Shows([store EXCEPT !.elements = cells], l)
    <3>1. \A k \in 1 .. store.length : l[k] = cells[k]
      OBVIOUS
    <3> HIDE DEF l
    <3> QED BY <1>3, <2>3, <2>4, <2>5, <3>1, InPlace DEF Rewritten, e
  <2>7. Fits(store') /\ store'.length = store.length
    <3>1. store' = [store EXCEPT !.elements = cells]
      BY <2>1 DEF cells, run, Back
    <3> QED BY <1>3, <2>6, <3>1 DEF Shows, Fits
  <2>10. \E g : Reorders(g, Live(store), Live(store'), store.length) /\ Trades(g, store.length, Len(w.scratch))
    <3> DEFINE v == Live(store)
               n == store.length
               u == Live(store')
    <3>1. PICK d : DrawnFrom(d, x, r, e)
      BY <1>8
    <3>2. x.k = r.hi
      BY <1>8, <1>11, <1>12, <1>13
    <3> DEFINE g == [i \in 1 .. n |-> IF r.lo < i /\ i <= r.hi THEN d[i] ELSE i]
    <3>3. /\ d \in [r.lo + 1 .. r.hi -> r.lo + 1 .. r.hi]
          /\ \A i \in r.lo + 1 .. r.hi : x.scratch[i] = e[d[i]]
          /\ \A i, j \in r.lo + 1 .. r.hi : d[i] = d[j] => i = j
      BY <3>1, <3>2 DEF DrawnFrom
    <3>4. /\ DOMAIN v = 1 .. n /\ DOMAIN u = 1 .. n /\ u = l
          /\ \A i \in 1 .. n : v[i] = e[i]
      <4>1. u = l
        BY <2>1, <2>6 DEF Shows, Back, cells, run
      <4> QED BY <1>3, <4>1, LiveIs DEF e
    <3>5. \A i \in 1 .. n : u[i] = cells[i]
      BY <3>4
    <3> HIDE DEF v, u, l
    <3>6. \A i \in 1 .. n : i \in 1 .. Len(e) /\ (r.lo < i /\ i <= r.hi <=> i \in r.lo + 1 .. r.hi)
      BY <1>3, <1>13
    <3>7. \A i \in r.lo + 1 .. r.hi : d[i] \in 1 .. n /\ d[i] \in r.lo + 1 .. r.hi /\ i \in 1 .. n
      BY <1>13, <3>3
    <3>8. g \in [1 .. n -> 1 .. n] /\ \A i \in 1 .. n : g[i] = IF i \in r.lo + 1 .. r.hi THEN d[i] ELSE i
      BY <3>6, <3>7
    <3> HIDE DEF g
    <3>9. ASSUME NEW i \in 1 .. n, NEW j \in 1 .. n, g[i] = g[j] PROVE i = j
      BY <3>3, <3>7, <3>8, <3>9
    <3>10. ASSUME NEW i \in 1 .. n PROVE u[i] = v[g[i]]
      <4>1. CASE i \in r.lo + 1 .. r.hi
        <5>0. i \in Int /\ r.lo \in Int /\ r.hi \in Int /\ r.lo + 1 <= i /\ i <= r.hi
          BY <1>13, <4>1
        <5>1. i - r.lo \in 1 .. r.hi - r.lo /\ r.lo + 1 + (i - r.lo) - 1 = i /\ i <= r.lo + (r.hi - r.lo)
          BY <5>0
        <5>2. cells[i] = run[i - r.lo]
          BY <2>2, <2>3, <3>6, <4>1, <5>1
        <5>3. run[i - r.lo] = x.scratch[i]
          BY <2>11, <4>1, <5>1
        <5> QED BY <3>3, <3>4, <3>5, <3>7, <3>8, <4>1, <5>2, <5>3
      <4>2. CASE i \notin r.lo + 1 .. r.hi
        <5>1. cells[i] = e[i]
          <6>1. r.lo + Len(run) = r.hi
            BY <1>13, <2>2
          <6> QED BY <2>3, <3>6, <4>2, <6>1
        <5> QED BY <3>4, <3>5, <3>8, <4>2, <5>1
      <4> QED BY <4>1, <4>2
    <3>11. u \in [1 .. n -> Cell]
      BY <2>4, <3>4
    <3>12. (\A i, j \in 1 .. n : g[i] = g[j] => i = j) /\ \A i \in 1 .. n : u[i] = v[g[i]]
      BY <3>9, <3>10
    <3>13. g \in [1 .. n -> 1 .. n] /\ DOMAIN v = 1 .. n
      BY <3>4, <3>8
    <3>15. Trades(g, n, Len(w.scratch))
      <4> DEFINE q == Len(w.scratch)
      <4>1. q \in Nat /\ r.hi \in Nat /\ r.lo \in Nat /\ r.hi <= q
        BY <1>2, <1>13
      <4> HIDE DEF q
      <4>2. ASSUME NEW i \in 1 .. n PROVE i <= q <=> g[i] <= q
        <5>1. CASE i \in r.lo + 1 .. r.hi
          <6>1. g[i] \in r.lo + 1 .. r.hi
            BY <3>7, <3>8, <5>1
          <6>2. g[i] <= q /\ i <= q
            BY <4>1, <5>1, <6>1
          <6> QED BY <6>2
        <5>2. CASE i \notin r.lo + 1 .. r.hi
          BY <3>8, <5>2
        <5> QED BY <5>1, <5>2
      <4> QED BY <4>2 DEF Trades, q
    <3> HIDE DEF n
    <3>14. Reorders(g, v, u, n)
      BY <3>11, <3>12, <3>13 DEF Reorders
    <3> QED BY <3>14, <3>15 DEF v, u, n
  <2>8. CASE Len(x.todo) = 1
    <3>1. walk' = <<>>
      BY <2>1, <2>8 DEF Next1
    <3>2. ArrayInv'
      BY <2>7, <3>1 DEF ArrayInv, WalkFits, Fits
    <3> QED BY <2>7, <2>10, <3>1, <3>2, Zenon DEF w
  <2>9. CASE Len(x.todo) # 1
    <3> DEFINE todo == Tail(x.todo)
               y == Merging(x, todo)
    <3>1. todo \in Seq(MergesOf(Len(x.scratch))) /\ todo # <<>>
      <4> DEFINE q == x.todo
                 M == MergesOf(Len(x.scratch))
      <4>1. q \in Seq(M) /\ q # <<>> /\ Len(q) # 1
        BY <1>2, <1>8, <2>9
      <4> HIDE DEF q, M
      <4>2. Tail(q) \in Seq(M) /\ Len(Tail(q)) = Len(q) - 1 /\ Len(q) \in Nat /\ Len(q) > 0
        BY <4>1, EmptySeq
      <4>3. Tail(q) # <<>>
        <5>1. Len(Tail(q)) # 0
          BY <4>1, <4>2
        <5> HIDE DEF todo
        <5> QED BY <5>1, EmptySeq
      <4> QED BY <4>2, <4>3 DEF q, M
    <3>2. SortFits(y, store')
      <4> HIDE DEF todo
      <4> QED BY <1>2, <1>8, <2>7, <3>1, MergingFits
    <3>3. y.method = "sort" /\ y.before = w.before /\ Len(y.scratch) = Len(w.scratch)
      BY <1>8, <1>14, <3>2 DEF SortFits, SortState, Merging
    <3> HIDE DEF y
    <3>4. walk' = <<y>>
      BY <2>1, <2>9 DEF Next1, y
    <3>5. ArrayInv' /\ walk' # <<>> /\ walk'[1] = y
      BY <2>7, <3>2, <3>3, <3>4 DEF ArrayInv, WalkFits, Fits
    <3> QED BY <2>7, <2>10, <3>3, <3>5, Zenon DEF w
  <2> QED BY <2>8, <2>9
<1> QED BY <1>10, <1>11

-----------------------------------------------------------------------------
(* The theorems.                                                           *)

\* ArrayInv: the array fits its buffer, and a sort stays inside it.
THEOREM ArrayInvariance == Spec => []ArrayInv
<1>1. ArrayInv /\ [Next]_vars => ArrayInv'
  <2> SUFFICES ASSUME ArrayInv, [Next]_vars PROVE ArrayInv'
    OBVIOUS
  <2>1. CASE UNCHANGED <<store, walk>>
    BY <2>1 DEF ArrayInv, WalkFits
  <2>2. CASE Next /\ ~TakeAnswer
    BY <2>2, ChangeKeeps, WalksKeep, SortKeeps, MergeKeeps DEF Next
  <2> QED BY <2>1, <2>2 DEF TakeAnswer, vars
<1> QED BY <1>1, ArrayStarts, PTL DEF Spec

\* The header never outgrows its buffer, and the collector finds nothing past the
\* length: whatever the program and its callbacks call, and in any order.
THEOREM StoreKept == Spec => []StoreInv
<1>1. ArrayInv => StoreInv
  <2> SUFFICES ASSUME ArrayInv PROVE StoreInv
    OBVIOUS
  <2> QED BY FitsParts DEF ArrayInv, StoreInv, Capacity
<1> QED BY <1>1, ArrayInvariance, PTL

-----------------------------------------------------------------------------
(* The refinement: the parts of the two modules that say the same.         *)

\* The least of a set of indices, as either module takes it.
LEMMA LeastIs ==
  ASSUME NEW T, T \subseteq Nat, T # {}
  PROVE  Min(T) = Contract!First(T) /\ Min(T) \in T
<1>1. \E m \in T : \A n \in T : m <= n
  BY LeastNat
<1>2. Min(T) \in T /\ \A n \in T : Min(T) <= n
  BY <1>1 DEF Min
<1> DEFINE f == Contract!First(T)
<1>3. f \in T \cup {-1} /\ \A n \in T : f # -1 /\ f <= n
  <2>1. \E i \in T \cup {-1} : \A j \in T : i # -1 /\ i <= j
    <3>1. Min(T) \in T \cup {-1} /\ Min(T) # -1
      BY <1>2
    <3> QED BY <1>2, <3>1
  <2> QED BY <2>1 DEF Contract!First
<1> HIDE DEF f
<1>4. f \in T
  BY <1>3
<1> DEFINE m == Min(T)
<1> HIDE DEF m
<1>5. m \in T /\ m <= f /\ f <= m
  BY <1>2, <1>3, <1>4 DEF m
<1>6. m = f
  BY <1>4, <1>5
<1> QED BY <1>5, <1>6 DEF m, f

\* The greatest of a set of indices.
LEMMA GreatestIs ==
  ASSUME NEW i \in Int, NEW T, T \subseteq 0 .. i, T # {}
  PROVE  Max(T) = Contract!Final(T) /\ Max(T) \in T
<1>0. \A n \in T : n \in Nat /\ n <= i /\ i - n \in Nat
  OBVIOUS
<1>1. \E m \in T : \A n \in T : m >= n
  <2> DEFINE U == {i - n : n \in T}
  <2>1. U \subseteq Nat /\ U # {}
    BY <1>0
  <2>2. PICK u \in U : \A n \in U : u <= n
    <3> HIDE DEF U
    <3> QED BY <2>1, LeastNat
  <2>3. PICK m \in T : u = i - m
    BY <2>2
  <2>4. \A n \in T : i - m <= i - n
    BY <2>2, <2>3
  <2>5. \A n \in T : n \in Int
    OBVIOUS
  <2> QED BY <2>4, <2>5
<1>2. Max(T) \in T /\ \A n \in T : Max(T) >= n
  BY <1>1 DEF Max
<1> DEFINE f == Contract!Final(T)
<1>3. f \in T \cup {-1} /\ \A n \in T : f >= n
  <2>1. \E k \in T \cup {-1} : \A j \in T : k >= j
    BY <1>1
  <2> QED BY <2>1 DEF Contract!Final
<1> HIDE DEF f
<1>4. f \in T
  <2>1. PICK n \in T : TRUE
    OBVIOUS
  <2>2. n \in Nat /\ f >= n
    BY <1>0, <1>3
  <2>3. f # -1
    BY <2>2
  <2> QED BY <1>3, <2>3
<1> DEFINE m == Max(T)
<1> HIDE DEF m
<1>5. m \in T /\ m >= f /\ f >= m
  BY <1>2, <1>3, <1>4 DEF m
<1>6. m = f
  BY <1>4, <1>5
<1> QED BY <1>5, <1>6 DEF m, f

\* What the program meets at an index.
LEMMA MeetsIs ==
  ASSUME Fits(store), NEW j \in Nat
  PROVE  /\ Contract!HasProperty(Live(store), j) <=> j < store.length /\ IndexPresent(j)
         /\ j < store.length => Contract!Get(Live(store), j) = Unhole(store.elements[j + 1])
<1> DEFINE l == Live(store)
<1>1. Len(l) = store.length /\ store.length \in Nat /\ \A k \in 1 .. store.length : l[k] = store.elements[k]
  BY LiveIs, FitsParts
<1>2. j < store.length => j + 1 \in 1 .. store.length /\ j \in 0 .. Len(l) - 1
  BY <1>1
<1>3. j \in 0 .. Len(l) - 1 => j < store.length
  BY <1>1
<1> HIDE DEF l
<1>4. Contract!HasProperty(l, j) <=> j < store.length /\ IndexPresent(j)
  BY <1>1, <1>2, <1>3 DEF Contract!HasProperty, IndexPresent
<1>5. j < store.length => Contract!Get(l, j) = Unhole(store.elements[j + 1])
  BY <1>1, <1>2, <1>3 DEF Contract!Get, Unhole
<1> QED BY <1>4, <1>5 DEF l

\* The turns still due are those the standard has.
LEMMA DueIs ==
  ASSUME Fits(store), store.length <= MaxLength, NEW m, NEW i \in Int, NEW len \in Nat,
         m \in {"find", "findLast"} => len <= store.length,
         IF m \in Downward THEN i < len ELSE i \in Nat
  PROVE  LET turns == IF m \in Downward THEN 0 .. i ELSE i .. MaxLength - 1
         IN  {j \in turns : Visited(m, j, len)} =
               {j \in Contract!Turns(m, Live(store), i, len) : Contract!Visited(m, Live(store), j)}
<1> DEFINE l == Live(store)
           n == store.length
<1>1. Len(l) = n /\ n \in Nat /\ MaxLength \in Nat
  BY LiveIs, FitsParts, WalkAssumption
<1>2. \A j \in Nat : Contract!HasProperty(l, j) <=> j < n /\ IndexPresent(j)
  BY MeetsIs
<1> HIDE DEF l, n
<1>3. n <= MaxLength /\ (m \in {"find", "findLast"} => len <= n)
  BY DEF n
<1>4. CASE m = "values"
  <2>1. m \notin Downward
    BY <1>4 DEF Downward
  <2>2. Contract!Turns(m, l, i, len) = i .. n - 1 /\ \A j \in Int : Contract!Visited(m, l, j)
    BY <1>1, <1>4 DEF Contract!Turns, Contract!Downward, Contract!Visited
  <2>3. \A j \in Int : Visited(m, j, len) <=> j < n
    BY <1>4 DEF Visited, Walking, ReadsAbsent, n
  <2>4. \A j : j \in i .. MaxLength - 1 /\ j < n <=> j \in i .. n - 1
    BY <1>1, <1>3
  <2> QED BY <2>1, <2>2, <2>3, <2>4 DEF l
<1>5. CASE m \in Downward
  <2>1. m # "values"
    BY <1>5 DEF Downward
  <2>2. Contract!Turns(m, l, i, len) = 0 .. i
    BY <1>5 DEF Contract!Turns, Contract!Downward, Downward
  <2>3. i < len
    BY <1>5
  <2>4. ASSUME NEW j \in 0 .. i PROVE Visited(m, j, len) <=> Contract!Visited(m, l, j)
    <3>1. j \in Nat /\ j < len
      BY <2>3
    <3>2. CASE m = "findLast"
      <4>1. j < n
        BY <1>1, <1>3, <3>1, <3>2
      <4> QED BY <2>1, <3>1, <3>2, <4>1 DEF Visited, Walking, ReadsAbsent, Contract!Visited, n
    <3>3. CASE m = "reduceRight"
      BY <1>2, <2>1, <3>1, <3>3 DEF Visited, Walking, ReadsAbsent, Contract!Visited, n
    <3> QED BY <1>5, <3>2, <3>3 DEF Downward
  <2> QED BY <1>5, <2>2, <2>4 DEF l
<1>6. CASE m \notin Downward /\ m # "values"
  <2>1. Contract!Turns(m, l, i, len) = i .. len - 1 /\ i \in Nat
    BY <1>6 DEF Contract!Turns, Contract!Downward, Downward
  <2>2. ASSUME NEW j \in Nat
        PROVE  j \in i .. MaxLength - 1 /\ Visited(m, j, len) <=> j \in i .. len - 1 /\ Contract!Visited(m, l, j)
    <3>1. CASE m = "find"
      <4>1. Contract!Visited(m, l, j) /\ len <= n
        BY <1>3, <3>1 DEF Contract!Visited
      <4>2. Visited(m, j, len) <=> j < len /\ j < n
        BY <1>6, <3>1 DEF Visited, Walking, ReadsAbsent, n
      <4> QED BY <1>1, <1>3, <2>1, <4>1, <4>2
    <3>2. CASE m # "find"
      <4>1. Contract!Visited(m, l, j) <=> j < n /\ IndexPresent(j)
        BY <1>2, <1>6, <3>2 DEF Contract!Visited, Downward
      <4>2. Visited(m, j, len) <=> j < len /\ j < n /\ IndexPresent(j)
        BY <1>6, <3>2 DEF Visited, Walking, ReadsAbsent, Downward, n
      <4> QED BY <1>1, <1>3, <2>1, <4>1, <4>2
    <3> QED BY <3>1, <3>2
  <2>3. \A j : j \in i .. MaxLength - 1 \/ j \in i .. len - 1 => j \in Nat
    BY <1>1, <2>1
  <2> QED BY <1>6, <2>1, <2>2, <2>3 DEF l
<1> QED BY <1>4, <1>5, <1>6

\* What the answer of a method is while it goes on.
OutFits(m, out) ==
  /\ m \in {"forEach", "values", "find", "findLast"} => out = <<>>
  /\ m = "some" => out = <<0>>
  /\ m = "every" => out = <<1>>
  /\ m = "flatMap" => out \in Seq(Cell)

\* A call in progress.
CallFits(w, n) ==
  /\ w.at \in Nat /\ w.len \in Nat
  /\ w.method # "values" => w.at < w.len
  /\ w.method \in {"find", "findLast"} => w.len <= n
  /\ OutFits(w.method, w.out)

\* A sort has only moved what its list held, and the absent elements are last; there
\* is something to compare.
Standing(l, k, n, p) ==
  /\ \E g : Reorders(g, l, k, n)
  /\ \A i \in 1 .. n : i <= p <=> k[i] # Hole
SortShows(w, a) ==
  Standing(w.before, Live(a), a.length, Len(w.scratch)) /\ Len(Contract!Present(w.before)) > 1

ListInv ==
  /\ ArrayInv /\ store.length <= MaxLength
  /\ walk # <<>> /\ walk[1].method # "sort" => CallFits(walk[1], store.length)
  /\ Sorts(walk) => SortShows(walk[1], store)

\* Outside a sort the standard's list is the array.
LEMMA ShownIs ==
  /\ ~Sorts(walk) => Shown = Live(store) /\ InProgress = walk
  /\ ~Sorts(walk') => Shown' = Live(store') /\ InProgress' = walk'
BY DEF Shown, InProgress, Sorts, Live

\* The next visit of a method is the standard's.
LEMMA OnwardMaps ==
  ASSUME Fits(store), store.length <= MaxLength, NEW m, m # "sort", NEW i \in Int, NEW len \in Nat,
         m \in {"find", "findLast"} => len <= store.length,
         IF m \in Downward THEN i < len ELSE i \in Nat,
         NEW out, ~Sorts(walk), UNCHANGED store, Onward(m, i, len, out)
  PROVE  /\ Contract!Onward(m, i, len, out) /\ ~Sorts(walk')
         /\ walk' # <<>> =>
              /\ walk' = <<walk'[1]>> /\ walk'[1].method = m /\ walk'[1].len = len /\ walk'[1].out = out
              /\ walk'[1].at \in Nat /\ (m # "values" => walk'[1].at < len)
<1> DEFINE turns == IF m \in Downward THEN 0 .. i ELSE i .. MaxLength - 1
           due == {j \in turns : Visited(m, j, len)}
           at == IF m \in Downward THEN Max(due) ELSE Min(due)
           w == [method |-> m, at |-> at, len |-> len, out |-> out, seen |-> Unhole(store.elements[at + 1])]
           l == Live(store)
           dueC == {j \in Contract!Turns(m, l, i, len) : Contract!Visited(m, l, j)}
           atC == IF m \in Downward THEN Contract!Final(dueC) ELSE Contract!First(dueC)
           wC == [method |-> m, at |-> atC, len |-> len, out |-> out, seen |-> Contract!Get(l, atC)]
<1>1. IF due = {} THEN walk' = <<>> /\ answer' = out ELSE walk' = <<w>> /\ answer' = <<>>
  BY Zenon DEF Onward
<1>2. due = dueC
  BY DueIs
<1>3. MaxLength \in Nat
  BY WalkAssumption
<1>4. due # {} => at \in due /\ at = atC
  <2> SUFFICES ASSUME due # {} PROVE at \in due /\ at = atC
    OBVIOUS
  <2> HIDE DEF dueC
  <2>1. CASE m \in Downward
    <3>1. due \subseteq 0 .. i
      BY <2>1
    <3> HIDE DEF due
    <3>2. Max(due) = Contract!Final(due) /\ Max(due) \in due
      BY <3>1, GreatestIs
    <3> QED BY <1>2, <2>1, <3>2
  <2>2. CASE m \notin Downward
    <3>1. due \subseteq Nat
      BY <1>3, <2>2
    <3> HIDE DEF due
    <3>2. Min(due) = Contract!First(due) /\ Min(due) \in due
      BY <3>1, LeastIs
    <3> QED BY <1>2, <2>2, <3>2
  <2> QED BY <2>1, <2>2
<1>5. \A j \in due : j \in Nat /\ j < store.length /\ (m # "values" => j < len)
  BY <1>3 DEF Visited, Walking
<1> HIDE DEF due, dueC, at, atC
<1>6. due # {} => at \in Nat /\ at < store.length /\ (m # "values" => at < len)
  BY <1>4, <1>5
<1>7. due # {} => w = wC
  BY <1>4, <1>6, MeetsIs
<1>8. w.method = m /\ w.at = at /\ w.len = len /\ w.out = out
  OBVIOUS
<1> HIDE DEF w, wC
<1>12. ~Sorts(walk')
  BY <1>1, <1>8 DEF Sorts
<1>13. InProgress' = walk'
  BY <1>12, ShownIs
<1>9. Shown = l /\ Shown' = l
  <2>1. Live(store') = Live(store)
    BY DEF Live
  <2> QED BY <1>12, <2>1, ShownIs
<1>10. CASE due = {}
  <2>1. walk' = <<>> /\ answer' = out
    BY <1>1, <1>10
  <2>2. dueC = {}
    BY <1>2, <1>10
  <2>3. Contract!Onward(m, i, len, out)
    BY <1>9, <1>13, <2>1, <2>2 DEF Contract!Onward, dueC, l, Contract!Downward, Downward
  <2> QED BY <1>12, <2>1, <2>3
<1>11. CASE due # {}
  <2>1. walk' = <<wC>> /\ answer' = <<>> /\ dueC # {} /\ walk'[1] = w
    BY <1>1, <1>2, <1>7, <1>11
  <2>2. InProgress' = <<wC>>
    BY <1>13, <2>1
  <2>3. Contract!Onward(m, i, len, out)
    BY <1>9, <2>1, <2>2 DEF Contract!Onward, dueC, atC, wC, l, Contract!Downward, Downward
  <2> QED BY <1>6, <1>8, <1>11, <1>12, <2>1, <2>3
<1> QED BY <1>10, <1>11

\* The parts of the invariant that a call in progress needs.
LEMMA CallIs ==
  ASSUME ListInv, walk # <<>>, walk[1].method # "sort"
  PROVE  /\ walk = <<walk[1]>> /\ InProgress = walk /\ ~Sorts(walk) /\ Shown = Live(store)
         /\ Fits(store) /\ store.length <= MaxLength /\ store.length \in Nat
         /\ CallFits(walk[1], store.length)
<1>1. ~Sorts(walk)
  BY DEF Sorts
<1> QED BY <1>1, FitsParts, ShownIs DEF ListInv, ArrayInv, WalkFits

\* A call that goes on from its next index.
LEMMA AnsweredMaps ==
  ASSUME ListInv, ArrayInv', NEW m, m # "sort", NEW out, Answered(m, out), OutFits(m, out)
  PROVE  /\ walk # <<>> /\ walk[1].method = m /\ InProgress = walk
         /\ Contract!Onward(m, IF m \in Contract!Downward THEN walk[1].at - 1 ELSE walk[1].at + 1, walk[1].len, out)
         /\ ListInv'
<1> DEFINE w == walk[1]
           i == IF m \in Downward THEN w.at - 1 ELSE w.at + 1
<1>1. walk # <<>> /\ w.method = m /\ UNCHANGED store /\ Onward(m, i, w.len, out)
  BY DEF Answered
<1>2. /\ InProgress = walk /\ Fits(store) /\ store.length <= MaxLength /\ store.length \in Nat
      /\ CallFits(w, store.length) /\ ~Sorts(walk)
  BY <1>1, CallIs
<1> HIDE DEF w
<1>3. w.at \in Nat /\ w.len \in Nat /\ (m # "values" => w.at < w.len)
      /\ (m \in {"find", "findLast"} => w.len <= store.length)
  BY <1>1, <1>2 DEF CallFits
<1>4. i \in Int /\ IF m \in Downward THEN i < w.len ELSE i \in Nat
  <2>1. CASE m \in Downward
    <3>1. m # "values"
      BY <2>1 DEF Downward
    <3> QED BY <1>3, <2>1, <3>1
  <2>2. CASE m \notin Downward
    BY <1>3, <2>2
  <2> QED BY <2>1, <2>2
<1> HIDE DEF i
<1>5. /\ Contract!Onward(m, i, w.len, out) /\ ~Sorts(walk')
      /\ walk' # <<>> =>
           /\ walk' = <<walk'[1]>> /\ walk'[1].method = m /\ walk'[1].len = w.len /\ walk'[1].out = out
           /\ walk'[1].at \in Nat /\ (m # "values" => walk'[1].at < w.len)
  BY <1>1, <1>2, <1>3, <1>4, OnwardMaps
<1>6. ListInv'
  BY <1>1, <1>2, <1>3, <1>5 DEF ListInv, CallFits, OutFits
<1>7. Contract!Downward = Downward
  BY DEF Contract!Downward, Downward
<1> QED BY <1>1, <1>2, <1>5, <1>6, <1>7 DEF w, i

\* A call that ends.
LEMMA StoppedMaps ==
  ASSUME ListInv, ArrayInv', NEW m, m # "sort", NEW out, Stopped(m, out)
  PROVE  /\ walk # <<>> /\ walk[1].method = m /\ InProgress = walk
         /\ Contract!Finish(out)
         /\ ListInv'
<1>1. walk # <<>> /\ walk[1].method = m /\ walk' = <<>> /\ answer' = out /\ UNCHANGED store
  BY DEF Stopped
<1>4. ~Sorts(walk')
  BY <1>1 DEF Sorts
<1>2. InProgress = walk /\ InProgress' = <<>> /\ Shown' = Shown
  <2>1. Live(store') = Live(store)
    BY <1>1 DEF Live
  <2> QED BY <1>1, <1>4, <2>1, CallIs, ShownIs
<1>3. ListInv'
  BY <1>1, <1>4 DEF ListInv
<1> QED BY <1>1, <1>2, <1>3 DEF Contract!Finish

\* How the first n cells are kept: each present one behind the present ones before it.
PresentIn(cells, n) == {i \in 1 .. n : cells[i] # Hole}
Keeps(f, cells, n) ==
  /\ IsFiniteSet(PresentIn(cells, n)) /\ Cardinality(PresentIn(cells, n)) = Len(f[n])
  /\ \A i \in PresentIn(cells, n) :
       Len(f[i - 1]) \in 0 .. Len(f[n]) - 1 /\ f[n][Len(f[i - 1]) + 1] = cells[i]
  /\ \A k \in 1 .. Len(f[n]) : \E i \in PresentIn(cells, n) : Len(f[i - 1]) = k - 1

\* One more cell is kept behind the others if it is present, and left out if not.
LEMMA KeepsNext ==
  ASSUME NEW cells \in Seq(Cell), NEW f, KeptBy(f, cells),
         NEW n \in 0 .. Len(cells) - 1, Keeps(f, cells, n)
  PROVE  Keeps(f, cells, n + 1)
<1> DEFINE at == PresentIn(cells, n)
           s == f[n]
           c == cells[n + 1]
<1>1. /\ n \in Nat /\ n + 1 \in 1 .. Len(cells) /\ (n + 1) - 1 = n /\ n \in 0 .. Len(cells)
      /\ s \in Seq(Cell) /\ Len(s) \in Nat /\ c \in Cell
  <2>1. Len(cells) \in Nat
    OBVIOUS
  <2>2. n \in Nat /\ n + 1 \in 1 .. Len(cells) /\ (n + 1) - 1 = n /\ n \in 0 .. Len(cells)
    BY <2>1
  <2>3. s \in Seq(Cell)
    BY <2>2 DEF KeptBy
  <2>4. Len(s) \in Nat
    BY <2>3
  <2> QED BY <2>2, <2>3, <2>4
<1>2. f[n + 1] = IF c # Hole THEN Append(s, c) ELSE s
  BY <1>1 DEF KeptBy
<1>3. /\ IsFiniteSet(at) /\ Cardinality(at) = Len(s)
      /\ \A i \in at : Len(f[i - 1]) \in 0 .. Len(s) - 1 /\ s[Len(f[i - 1]) + 1] = cells[i]
      /\ \A k \in 1 .. Len(s) : \E i \in at : Len(f[i - 1]) = k - 1
  BY DEF Keeps
<1>4. 1 .. n + 1 = (1 .. n) \cup {n + 1} /\ n + 1 \notin 1 .. n
  BY <1>1
<1>5. CASE c = Hole
  <2>1. PresentIn(cells, n + 1) = at
    BY <1>4, <1>5 DEF PresentIn
  <2>2. f[n + 1] = s
    BY <1>2, <1>5
  <2> HIDE DEF at, s
  <2> QED BY <1>3, <2>1, <2>2 DEF Keeps
<1>6. CASE c # Hole
  <2> DEFINE t == Append(s, c)
             all == at \cup {n + 1}
  <2>1. PresentIn(cells, n + 1) = all /\ n + 1 \notin at
    BY <1>4, <1>6 DEF PresentIn
  <2>2. f[n + 1] = t
    BY <1>2, <1>6
  <2>3. Len(t) = Len(s) + 1 /\ t[Len(s) + 1] = c /\ \A k \in 1 .. Len(s) : t[k] = s[k]
    <3> HIDE DEF s, c
    <3> QED BY <1>1, AppendProperties
  <2>4. IsFiniteSet(all) /\ Cardinality(all) = Len(t)
    <3>1. IsFiniteSet(all) /\ Cardinality(all) = Cardinality(at) + 1
      <4> HIDE DEF at
      <4> QED BY <1>3, <2>1, FS_AddElement
    <3> QED BY <1>3, <2>3, <3>1
  <2>5. ASSUME NEW i \in all PROVE Len(f[i - 1]) \in 0 .. Len(t) - 1 /\ t[Len(f[i - 1]) + 1] = cells[i]
    <3>1. CASE i = n + 1
      <4>1. f[i - 1] = s
        BY <1>1, <3>1
      <4> HIDE DEF t, s, c
      <4>2. Len(s) \in 0 .. Len(t) - 1
        BY <1>1, <2>3
      <4> QED BY <2>3, <3>1, <4>1, <4>2 DEF c
    <3>2. CASE i # n + 1
      <4>1. i \in at
        BY <3>2
      <4> DEFINE q == Len(f[i - 1])
      <4>2. q \in 0 .. Len(s) - 1 /\ s[q + 1] = cells[i]
        BY <1>3, <4>1
      <4> HIDE DEF q, t, s, at
      <4>3. q \in 0 .. Len(t) - 1 /\ q + 1 \in 1 .. Len(s)
        BY <1>1, <2>3, <4>2
      <4> QED BY <2>3, <4>2, <4>3 DEF q
    <3> QED BY <3>1, <3>2
  <2>6. ASSUME NEW k \in 1 .. Len(t) PROVE \E i \in all : Len(f[i - 1]) = k - 1
    <3>1. k \in 1 .. Len(s) \/ k = Len(s) + 1
      <4> HIDE DEF t, s
      <4> QED BY <1>1, <2>3
    <3>2. CASE k \in 1 .. Len(s)
      BY <1>3, <3>2
    <3>3. CASE k = Len(s) + 1
      <4>1. f[(n + 1) - 1] = s /\ k - 1 = Len(s)
        BY <1>1, <3>3
      <4> QED BY <4>1
    <3> QED BY <3>1, <3>2, <3>3
  <2> HIDE DEF t, all
  <2> QED BY <2>1, <2>2, <2>4, <2>5, <2>6 DEF Keeps
<1> QED BY <1>5, <1>6

\* What an append of an array takes from it is what is present in the list.
LEMMA FlattenedExact ==
  ASSUME NEW cells \in Seq(Cell)
  PROVE  Flattened(cells) = Contract!Present(cells)
<1> DEFINE L == Len(cells)
           f == PresentCells(cells)
           at == {i \in DOMAIN cells : cells[i] # Hole}
           S == {n \in 0 .. L : Keeps(f, cells, n)}
           pos(k) == CHOOSE i \in at : Cardinality({j \in at : j < i}) = k - 1
           p == [k \in 1 .. Cardinality(at) |-> cells[pos(k)]]
<1>1. L \in Nat /\ DOMAIN cells = 1 .. L /\ KeptBy(f, cells) /\ Flattened(cells) = f[L]
  BY PresentSteps DEF Flattened
<1>2. Contract!Present(cells) = p
  BY DEF Contract!Present, Contract!Cardinality, Cardinality
<1>3. at = PresentIn(cells, L)
  BY <1>1 DEF PresentIn
<1> HIDE DEF f, L
<1>4. 0 \in S
  <2>1. PresentIn(cells, 0) = {}
    BY DEF PresentIn
  <2>2. f[0] = <<>> /\ Len(f[0]) = 0
    BY <1>1 DEF KeptBy
  <2>3. Keeps(f, cells, 0)
    <3>1. IsFiniteSet({}) /\ Cardinality({}) = 0 /\ 1 .. 0 = {}
      BY FS_EmptySet
    <3> QED BY <2>1, <2>2, <3>1 DEF Keeps
  <2> QED BY <1>1, <2>3
<1>5. ASSUME NEW n \in 0 .. (L - 1), n \in S PROVE n + 1 \in S
  BY <1>1, <1>5, KeepsNext DEF L
<1>6. \A n \in 0 .. L : Keeps(f, cells, n)
  <2>1. \A n \in 0 .. L : n \in S
    <3> HIDE DEF S
    <3> QED BY <1>1, <1>4, <1>5, UpTo
  <2> QED BY <2>1
<1>7. ASSUME NEW i \in at PROVE Cardinality({j \in at : j < i}) = Len(f[i - 1])
  <2>1. i \in 1 .. L /\ i - 1 \in 0 .. L
    BY <1>1
  <2>2. {j \in at : j < i} = PresentIn(cells, i - 1)
    BY <1>1, <2>1 DEF PresentIn
  <2> QED BY <1>6, <2>1, <2>2 DEF Keeps
<1> DEFINE s == f[L]
<1>8. /\ s \in Seq(Cell) /\ Cardinality(at) = Len(s)
      /\ \A i \in at : s[Len(f[i - 1]) + 1] = cells[i]
      /\ \A k \in 1 .. Len(s) : \E i \in at : Len(f[i - 1]) = k - 1
  <2>1. Keeps(f, cells, L) /\ f[L] \in Seq(Cell)
    BY <1>1, <1>6 DEF KeptBy, L
  <2> HIDE DEF at
  <2> QED BY <1>3, <2>1 DEF Keeps
<1>9. ASSUME NEW k \in 1 .. Len(s) PROVE cells[pos(k)] = s[k]
  <2>1. \E i \in at : Cardinality({j \in at : j < i}) = k - 1
    BY <1>7, <1>8
  <2>2. pos(k) \in at /\ Cardinality({j \in at : j < pos(k)}) = k - 1
    BY <2>1
  <2> DEFINE i == pos(k)
  <2> HIDE DEF at, s
  <2>3. i \in at /\ Len(f[i - 1]) = k - 1
    BY <1>7, <2>2
  <2> HIDE DEF i
  <2>4. s[(k - 1) + 1] = cells[i] /\ (k - 1) + 1 = k
    BY <1>8, <2>3
  <2> QED BY <2>4 DEF i
<1>10. p = s
  <2> HIDE DEF s, at, pos
  <2>1. p = [k \in 1 .. Len(s) |-> s[k]]
    BY <1>8, <1>9
  <2>2. DOMAIN s = 1 .. Len(s) /\ s = [k \in DOMAIN s |-> s[k]]
    BY <1>8
  <2> QED BY <2>1, <2>2
<1> QED BY <1>1, <1>2, <1>10

\* A callback has answered.
LEMMA ReturnMaps ==
  ASSUME ListInv, ArrayInv', Return
  PROVE  Contract!Next /\ ListInv'
<1> DEFINE On(m, out) ==
             Contract!Onward(m, IF m \in Contract!Downward THEN walk[1].at - 1 ELSE walk[1].at + 1, walk[1].len, out)
           Given1 == Contract!Given \cup Contract!Runs \cup {<<Hole, x>> : x \in Value}
<1>1. ASSUME NEW v \in Given1, Contract!Continue(v) PROVE Contract!Next
  BY <1>1 DEF Contract!Next
<1>2. ASSUME NEW m, m # "sort", NEW out, Answered(m, out), OutFits(m, out)
      PROVE  walk # <<>> /\ walk[1].method = m /\ InProgress = walk /\ On(m, out) /\ ListInv'
  BY <1>2, AnsweredMaps
<1>3. ASSUME NEW m, m # "sort", NEW out, Stopped(m, out)
      PROVE  walk # <<>> /\ walk[1].method = m /\ InProgress = walk /\ Contract!Finish(out) /\ ListInv'
  BY <1>3, StoppedMaps
<1>4. PICK yes \in Value : yes # Undefined /\ yes \in Given1
  BY WalkAssumption, UndefinedAssumption DEF Contract!Given
<1>5. Undefined \in Given1 /\ Given \subseteq Given1 /\ Contract!Runs \subseteq Given1
  BY DEF Contract!Given, Given
<1>6. ASSUME NEW m, m # "sort", walk # <<>>, walk[1].method = m PROVE OutFits(m, walk[1].out)
  BY <1>6, CallIs DEF CallFits
<1> HIDE DEF On, Given1
<1>11. CASE ForEachReturns
  <2>1. PICK m \in {"forEach", "values"} : Answered(m, <<>>)
    BY <1>11 DEF ForEachReturns
  <2>2. OutFits(m, <<>>)
    BY DEF OutFits
  <2>3. walk # <<>> /\ walk[1].method = m /\ InProgress = walk /\ On(m, <<>>) /\ ListInv'
    BY <1>2, <2>1, <2>2
  <2>4. walk[1].out = <<>>
    BY <1>6, <2>3 DEF OutFits
  <2>5. Contract!Continue(Undefined)
    BY <2>3, <2>4 DEF Contract!Continue, On
  <2> QED BY <1>1, <1>5, <2>3, <2>5
<1>12. CASE MapReturns
  <2>1. PICK v \in Given : Answered("map", [walk[1].out EXCEPT ![walk[1].at + 1] = v])
    BY <1>12 DEF MapReturns
  <2> DEFINE out == [walk[1].out EXCEPT ![walk[1].at + 1] = v]
  <2>2. OutFits("map", out)
    BY DEF OutFits
  <2>3. walk # <<>> /\ walk[1].method = "map" /\ InProgress = walk /\ On("map", out) /\ ListInv'
    BY <1>2, <2>1, <2>2
  <2>4. Contract!Continue(v)
    BY <2>3 DEF Contract!Continue, On
  <2> QED BY <1>1, <1>5, <2>3, <2>4
<1>13. CASE FilterReturns
  <2>1. PICK keep \in BOOLEAN :
          Answered("filter", IF keep THEN Append(walk[1].out, walk[1].seen) ELSE walk[1].out)
    BY <1>13 DEF FilterReturns
  <2> DEFINE out == IF keep THEN Append(walk[1].out, walk[1].seen) ELSE walk[1].out
  <2>2. OutFits("filter", out)
    BY DEF OutFits
  <2>3. walk # <<>> /\ walk[1].method = "filter" /\ InProgress = walk /\ On("filter", out) /\ ListInv'
    BY <1>2, <2>1, <2>2
  <2>4. CASE keep
    <3>1. Contract!Continue(yes)
      BY <1>4, <2>3, <2>4 DEF Contract!Continue, On
    <3> QED BY <1>1, <1>4, <2>3, <3>1
  <2>5. CASE ~keep
    <3>1. Contract!Continue(Undefined)
      BY <2>3, <2>5 DEF Contract!Continue, On
    <3> QED BY <1>1, <1>5, <2>3, <3>1
  <2> QED BY <2>4, <2>5
<1>14. CASE FlatMapReturns
  <2>1. ASSUME NEW v, v \in Given1, NEW more, more \in Seq(Cell), Answered("flatMap", walk[1].out \o more),
               more = IF v \in Seq(Contract!Elements) THEN Contract!Present(v) ELSE <<v>>
        PROVE  Contract!Next /\ ListInv'
    <3>1. walk # <<>> /\ walk[1].method = "flatMap"
      BY <2>1 DEF Answered
    <3>2. walk[1].out \in Seq(Cell)
      BY <1>6, <3>1 DEF OutFits
    <3>3. OutFits("flatMap", walk[1].out \o more)
      BY <2>1, <3>2 DEF OutFits
    <3>4. InProgress = walk /\ On("flatMap", walk[1].out \o more) /\ ListInv'
      BY <1>2, <2>1, <3>3
    <3>5. Contract!Continue(v)
      BY <2>1, <3>1, <3>4 DEF Contract!Continue, On
    <3> QED BY <1>1, <2>1, <3>4, <3>5
  <2>2. Contract!Elements = Cell
    BY DEF Contract!Elements, Cell
  <2>3. CASE \E v \in Value : Answered("flatMap", Append(walk[1].out, v))
    <3>1. PICK v \in Value : Answered("flatMap", Append(walk[1].out, v))
      BY <2>3
    <3>2. walk[1].out \in Seq(Cell)
      BY <1>6, <3>1 DEF OutFits, Answered
    <3>3. v \in Cell /\ v \in Given1 /\ v \notin Seq(Cell)
      BY <1>5, WalkAssumption DEF Cell, Given
    <3>4. Append(walk[1].out, v) = walk[1].out \o <<v>> /\ <<v>> \in Seq(Cell)
      BY <3>2, <3>3
    <3> QED BY <2>1, <2>2, <3>1, <3>3, <3>4
  <2>4. CASE \E run \in {<<>>} \cup {<<Hole, v>> : v \in Value} :
               Answered("flatMap", walk[1].out \o Flattened(run))
    <3>1. PICK run \in {<<>>} \cup {<<Hole, v>> : v \in Value} :
            Answered("flatMap", walk[1].out \o Flattened(run))
      BY <2>4
    <3>2. run \in Given1
      BY DEF Given1, Contract!Runs
    <3>3. Flattened(run) = Contract!Present(run) /\ Flattened(run) \in Seq(Cell) /\ run \in Seq(Cell)
      <4>1. Hole \in Cell /\ Value \subseteq Cell
        BY DEF Cell
      <4>2. run = <<>> \/ \E v \in Value : run = <<Hole, v>>
        BY <3>1
      <4>3. \A v \in Value : <<Hole, v>> \in Seq(Cell)
        BY <4>1
      <4>4. run \in Seq(Cell)
        BY <4>2, <4>3, EmptySeq
      <4> QED BY <4>4, FlattenedExact, PresentShort
    <3> QED BY <2>1, <2>2, <3>1, <3>2, <3>3
  <2> QED BY <1>14, <2>3, <2>4 DEF FlatMapReturns
<1>15. CASE SomeReturns
  <2>1. CASE Stopped("some", <<1>>)
    <3>1. walk # <<>> /\ walk[1].method = "some" /\ InProgress = walk /\ Contract!Finish(<<1>>) /\ ListInv'
      BY <1>3, <2>1
    <3>2. Contract!Continue(yes)
      BY <1>4, <3>1 DEF Contract!Continue
    <3> QED BY <1>1, <1>4, <3>1, <3>2
  <2>2. CASE Answered("some", <<0>>)
    <3>1. OutFits("some", <<0>>)
      BY DEF OutFits
    <3>2. walk # <<>> /\ walk[1].method = "some" /\ InProgress = walk /\ On("some", <<0>>) /\ ListInv'
      BY <1>2, <2>2, <3>1
    <3>3. walk[1].out = <<0>>
      BY <1>6, <3>2 DEF OutFits
    <3>4. Contract!Continue(Undefined)
      BY <3>2, <3>3 DEF Contract!Continue, On
    <3> QED BY <1>1, <1>5, <3>2, <3>4
  <2> QED BY <1>15, <2>1, <2>2 DEF SomeReturns
<1>16. CASE EveryReturns
  <2>1. CASE Stopped("every", <<0>>)
    <3>1. walk # <<>> /\ walk[1].method = "every" /\ InProgress = walk /\ Contract!Finish(<<0>>) /\ ListInv'
      BY <1>3, <2>1
    <3>2. Contract!Continue(Undefined)
      BY <3>1 DEF Contract!Continue
    <3> QED BY <1>1, <1>5, <3>1, <3>2
  <2>2. CASE Answered("every", <<1>>)
    <3>1. OutFits("every", <<1>>)
      BY DEF OutFits
    <3>2. walk # <<>> /\ walk[1].method = "every" /\ InProgress = walk /\ On("every", <<1>>) /\ ListInv'
      BY <1>2, <2>2, <3>1
    <3>3. walk[1].out = <<1>>
      BY <1>6, <3>2 DEF OutFits
    <3>4. Contract!Continue(yes)
      BY <1>4, <3>2, <3>3 DEF Contract!Continue, On
    <3> QED BY <1>1, <1>4, <3>2, <3>4
  <2> QED BY <1>16, <2>1, <2>2 DEF EveryReturns
<1>17. CASE FindReturns
  <2>1. PICK m \in {"find", "findLast"} : Stopped(m, <<walk[1].at, walk[1].seen>>) \/ Answered(m, <<>>)
    BY <1>17 DEF FindReturns
  <2>2. CASE Stopped(m, <<walk[1].at, walk[1].seen>>)
    <3>1. walk # <<>> /\ walk[1].method = m /\ InProgress = walk
          /\ Contract!Finish(<<walk[1].at, walk[1].seen>>) /\ ListInv'
      BY <1>3, <2>2
    <3>2. Contract!Continue(yes)
      BY <1>4, <3>1 DEF Contract!Continue
    <3> QED BY <1>1, <1>4, <3>1, <3>2
  <2>3. CASE Answered(m, <<>>)
    <3>1. OutFits(m, <<>>)
      BY DEF OutFits
    <3>2. walk # <<>> /\ walk[1].method = m /\ InProgress = walk /\ On(m, <<>>) /\ ListInv'
      BY <1>2, <2>3, <3>1
    <3>3. walk[1].out = <<>>
      BY <1>6, <3>2 DEF OutFits
    <3>4. Contract!Continue(Undefined)
      BY <3>2, <3>3 DEF Contract!Continue, On
    <3> QED BY <1>1, <1>5, <3>2, <3>4
  <2> QED BY <2>1, <2>2, <2>3
<1>18. CASE ReduceReturns
  <2>1. PICK m \in {"reduce", "reduceRight"}, acc \in Given : Answered(m, <<acc>>)
    BY <1>18 DEF ReduceReturns
  <2>2. OutFits(m, <<acc>>)
    BY DEF OutFits
  <2>3. walk # <<>> /\ walk[1].method = m /\ InProgress = walk /\ On(m, <<acc>>) /\ ListInv'
    BY <1>2, <2>1, <2>2
  <2>4. Contract!Continue(acc)
    BY <2>3 DEF Contract!Continue, On
  <2> QED BY <1>1, <1>5, <2>3, <2>4
<1> QED BY <1>11, <1>12, <1>13, <1>14, <1>15, <1>16, <1>17, <1>18 DEF Return

\* What a method gives if it calls nothing back.
LEMMA FirstOutIs ==
  ASSUME Fits(store), ~Sorts(walk), NEW m, NEW initial
  PROVE  FirstOut(m, initial) = Contract!Initially(m, initial) /\ OutFits(m, FirstOut(m, initial))
<1>1. Live(Holes(store.length)) = [k \in DOMAIN Live(store) |-> Hole]
  <2>1. store.length \in Nat /\ DOMAIN Live(store) = 1 .. store.length
    BY FitsParts, LiveIs
  <2>2. Live(Holes(store.length)) = [k \in 1 .. store.length |-> Hole]
    BY <2>1, HolesShows DEF Shows
  <2> QED BY <2>1, <2>2
<1>2. <<>> \in Seq(Cell)
  BY EmptySeq
<1>3. CASE m = "map"
  BY <1>1, <1>3, ShownIs DEF FirstOut, Contract!Initially, OutFits
<1>4. CASE m \in {"reduce", "reduceRight"}
  BY <1>4 DEF FirstOut, Contract!Initially, OutFits
<1>5. CASE m = "some"
  BY <1>5 DEF FirstOut, Contract!Initially, OutFits
<1>6. CASE m = "every"
  BY <1>6 DEF FirstOut, Contract!Initially, OutFits
<1>7. CASE m \notin {"map", "reduce", "reduceRight", "some", "every"}
  <2>1. FirstOut(m, initial) = <<>> /\ Contract!Initially(m, initial) = <<>>
    BY <1>7 DEF FirstOut, Contract!Initially
  <2> QED BY <1>2, <1>7, <2>1 DEF OutFits
<1> QED BY <1>3, <1>4, <1>5, <1>6, <1>7

\* A method is called.
LEMMA CallMaps ==
  ASSUME ListInv, ArrayInv', Call
  PROVE  Contract!Next /\ ListInv'
<1>1. PICK m \in Method, initial \in Given :
        /\ walk = <<>> /\ UNCHANGED store
        /\ Onward(m, IF m \in Downward THEN store.length - 1 ELSE 0, store.length, FirstOut(m, initial))
  BY DEF Call
<1> DEFINE n == store.length
           i == IF m \in Downward THEN n - 1 ELSE 0
           out == FirstOut(m, initial)
<1>2. m # "sort"
  BY WalkAssumption
<1>3. Fits(store) /\ n \in Nat /\ n <= MaxLength /\ Len(Live(store)) = n
  BY FitsParts, LiveIs DEF ListInv, ArrayInv
<1>4. i \in Int /\ IF m \in Downward THEN i < n ELSE i \in Nat
  BY <1>3
<1>5. out = Contract!Initially(m, initial) /\ OutFits(m, out)
  <2>1. ~Sorts(walk)
    BY <1>1 DEF Sorts
  <2> QED BY <1>3, <2>1, FirstOutIs
<1> HIDE DEF i, out
<1>11. ~Sorts(walk)
  BY <1>1 DEF Sorts
<1>6. /\ Contract!Onward(m, i, n, out) /\ ~Sorts(walk')
      /\ walk' # <<>> =>
           /\ walk' = <<walk'[1]>> /\ walk'[1].method = m /\ walk'[1].len = n /\ walk'[1].out = out
           /\ walk'[1].at \in Nat /\ (m # "values" => walk'[1].at < n)
  <2>1. Onward(m, i, n, out)
    BY <1>1 DEF i, out
  <2>2. m \in {"find", "findLast"} => n <= store.length
    BY <1>3
  <2> QED BY <1>1, <1>2, <1>3, <1>4, <1>11, <2>1, <2>2, OnwardMaps
<1>7. ListInv'
  BY <1>1, <1>3, <1>5, <1>6 DEF ListInv, CallFits
<1>8. InProgress = <<>> /\ Shown = Live(store) /\ Contract!Downward = Downward
  BY <1>1, <1>11, ShownIs DEF Contract!Downward, Downward
<1>9. Contract!Begin(m, initial)
  BY <1>3, <1>5, <1>6, <1>8 DEF Contract!Begin, i
<1>10. initial \in Contract!Given
  BY DEF Contract!Given, Given
<1> QED BY <1>7, <1>9, <1>10 DEF Contract!Next

\* A list rearranged, its absent elements last, as the standard asks of a sort.
LEMMA StandsSorted ==
  ASSUME NEW l, NEW k, NEW n, NEW p \in Nat, Standing(l, k, n, p)
  PROVE  Contract!Rearranged(l, k) /\ Contract!HolesLast(k)
<1>2. PICK g : Reorders(g, l, k, n)
  BY DEF Standing
<1>3. DOMAIN k = 1 .. n /\ \A i \in 1 .. n : i <= p <=> k[i] # Hole
  BY <1>2 DEF Standing, Reorders
<1>4. ASSUME NEW i \in 1 .. n, NEW j \in 1 .. n, i < j, k[i] = Hole PROVE k[j] = Hole
  <2>1. ~(i <= p)
    BY <1>3, <1>4
  <2>2. ~(j <= p)
    BY <1>4, <2>1
  <2> QED BY <1>3, <2>2
<1>5. Contract!HolesLast(k)
  BY <1>3, <1>4 DEF Contract!HolesLast
<1> QED BY <1>2, <1>5, RearrangedBy

\* A callback throws, and the list is as it was; or a comparator does, and it is not.
LEMMA ThrowMaps ==
  ASSUME ListInv, ArrayInv', CallbackThrows \/ ComparatorThrows
  PROVE  (Contract!Next \/ SortAbandoned) /\ ListInv'
<1>1. walk # <<>> /\ walk' = <<>> /\ answer' = <<Thrown>> /\ UNCHANGED store
  BY DEF CallbackThrows, ComparatorThrows, Stopped
<1>2. ~Sorts(walk') /\ ListInv'
  BY <1>1 DEF ListInv, Sorts
<1>3. InProgress' = <<>> /\ Shown' = Live(store)
  <2>1. Live(store') = Live(store)
    BY <1>1 DEF Live
  <2> QED BY <1>1, <1>2, <2>1, ShownIs
<1>4. CASE CallbackThrows
  <2>1. walk[1].method # "sort"
    BY <1>4 DEF CallbackThrows
  <2>2. InProgress # <<>> /\ Shown = Live(store)
    BY <1>1, <2>1, CallIs
  <2> QED BY <1>1, <1>2, <1>3, <2>2 DEF Contract!Next, Contract!Throw
<1>5. CASE ComparatorThrows
  <2> DEFINE w == walk[1]
             p == Len(w.scratch)
  <2>1. Sorts(walk) /\ InProgress = Contract!Sorting /\ Shown = w.before
    BY <1>5 DEF ComparatorThrows, Sorts, InProgress, Shown, Contract!Sorting
  <2>2. Standing(w.before, Live(store), store.length, p)
    BY <2>1 DEF ListInv, SortShows
  <2>3. Contract!Rearranged(w.before, Live(store)) /\ Contract!HolesLast(Live(store))
    <3>1. p \in Nat
      BY <1>5, SortIs DEF ComparatorThrows, ListInv
    <3> QED BY <2>2, <3>1, StandsSorted
  <2> QED BY <1>1, <1>2, <1>3, <2>1, <2>3 DEF SortAbandoned
<1> QED BY <1>4, <1>5

\* The program takes an answer.
LEMMA TakenMaps ==
  ASSUME ListInv, ArrayInv', TakeAnswer
  PROVE  Contract!Next /\ ListInv'
<1>1. answer' = <<>> /\ walk' = walk /\ store' = store
  BY DEF TakeAnswer
<1>2. InProgress' = InProgress /\ Shown' = Shown
  BY <1>1 DEF InProgress, Shown, Live
<1>3. ListInv'
  BY <1>1 DEF ListInv
<1> QED BY <1>1, <1>2, <1>3 DEF Contract!Next, Contract!Taken

-----------------------------------------------------------------------------
(* The changes.                                                            *)

\* A change that shows the standard's list is the standard's.
LEMMA BecomeMaps ==
  ASSUME ListInv, ArrayInv', ~FindsShorten, NEW change, May(change), NEW a, NEW gave, Become(a, gave),
         NEW l, Live(a) = l
  PROVE  /\ answer = <<>> /\ InProgress' = InProgress /\ Shown' = l
         /\ InProgress # Contract!Sorting
         /\ answer' = IF InProgress = <<>> THEN gave ELSE <<>>
         /\ ListInv'
<1>1. /\ answer = <<>> /\ walk' = walk /\ store' = a /\ a.length <= MaxLength
      /\ answer' = IF walk = <<>> THEN gave ELSE <<>>
  BY DEF May, Become
<1>2. walk # <<>> => walk[1].method # "sort"
  BY DEF May
<1>7. ~Sorts(walk) /\ ~Sorts(walk')
  BY <1>1, <1>2 DEF Sorts
<1>3. InProgress' = InProgress /\ InProgress = walk
  BY <1>1, <1>7, ShownIs
<1>4. Shown' = l
  <2>1. Live(store') = l
    BY <1>1
  <2> QED BY <1>7, <2>1, ShownIs
<1>8. InProgress # Contract!Sorting
  BY <1>3, <1>7 DEF Contract!Sorting, Sorts
<1>5. ASSUME walk # <<>> PROVE CallFits(walk[1], a.length)
  <2>1. CallFits(walk[1], store.length) /\ store.length \in Nat
    BY <1>2, <1>5, CallIs
  <2>2. a.length \in Nat
    BY <1>1, FitsParts DEF ArrayInv, Fits
  <2>3. walk[1].method \in {"find", "findLast"} => walk[1].len <= store.length /\ ~(a.length < store.length)
    BY <1>5, <2>1 DEF Become, CallFits
  <2>4. walk[1].method \in {"find", "findLast"} => walk[1].len <= a.length
    BY <2>1, <2>2, <2>3 DEF CallFits
  <2> QED BY <2>1, <2>4 DEF CallFits
<1>6. ListInv'
  BY <1>1, <1>5, <1>7 DEF ListInv
<1> QED BY <1>1, <1>3, <1>4, <1>6, <1>8

\* The run a splice gives back.
LEMMA SplicedIs ==
  ASSUME NEW a, Fits(a), NEW f \in 0 .. a.length, NEW c \in 0 .. a.length - f
  PROVE  SubSeq(a.elements, f + 1, f + c) = Contract!Keep(Contract!Drop(Live(a), f), c)
<1> DEFINE n == a.length
           l == Live(a)
           e == a.elements
           rest == SubSeq(l, f + 1, n)
           run == SubSeq(e, f + 1, f + c)
           given == SubSeq(rest, 1, c)
<1>1. /\ n \in Nat /\ l \in Seq(Cell) /\ Len(l) = n /\ e \in Seq(Cell) /\ n <= Len(e) /\ Len(e) \in Nat
      /\ \A k \in 1 .. n : l[k] = e[k]
  BY LiveIs, FitsParts
<1>2. n \in Nat /\ f \in Nat /\ c \in Nat /\ f + c <= n
  BY <1>1
<1> HIDE DEF n, l, e
<1>3. rest \in Seq(Cell) /\ Len(rest) = n - f /\ \A k \in 1 .. n - f : rest[k] = l[f + k]
  <2>1. f + 1 \in Int /\ n \in Int /\ n - (f + 1) + 1 = n - f
    BY <1>1, <1>2
  <2>2. \A k \in f + 1 .. n : l[k] \in Cell
    BY <1>1, <1>2
  <2>3. \A k \in 1 .. n - f : f + 1 + k - 1 = f + k
    BY <1>1, <1>2
  <2>4. Len(rest) = IF f + 1 <= n THEN n - (f + 1) + 1 ELSE 0
    BY <2>1, <2>2, SubSeqProperties
  <2>5. Len(rest) = n - f
    <3> HIDE DEF rest
    <3> QED BY <1>2, <2>4
  <2> QED BY <2>1, <2>2, <2>3, <2>5, SubSeqProperties
<1> HIDE DEF rest
<1>4. run \in Seq(Cell) /\ Len(run) = c /\ \A k \in 1 .. c : run[k] = e[f + k]
  <2>1. f + 1 \in Int /\ f + c \in Int /\ f + c - (f + 1) + 1 = c
    BY <1>1, <1>2
  <2>2. \A k \in f + 1 .. f + c : e[k] \in Cell
    BY <1>1, <1>2
  <2>3. \A k \in 1 .. c : f + 1 + k - 1 = f + k
    BY <1>1, <1>2
  <2>4. Len(run) = IF f + 1 <= f + c THEN f + c - (f + 1) + 1 ELSE 0
    BY <2>1, <2>2, SubSeqProperties
  <2>5. Len(run) = c
    <3> HIDE DEF run
    <3> QED BY <1>2, <2>4
  <2> QED BY <2>1, <2>2, <2>3, <2>5, SubSeqProperties
<1>5. given \in Seq(Cell) /\ Len(given) = c /\ \A k \in 1 .. c : given[k] = rest[k]
  <2>1. 1 \in Int /\ c \in Int /\ c - 1 + 1 = c
    BY <1>1, <1>2
  <2>2. \A k \in 1 .. c : rest[k] \in Cell
    BY <1>1, <1>2, <1>3
  <2>3. \A k \in 1 .. c : 1 + k - 1 = k
    BY <1>1, <1>2
  <2>4. Len(given) = IF 1 <= c THEN c - 1 + 1 ELSE 0
    BY <2>1, <2>2, SubSeqProperties
  <2>5. Len(given) = c
    <3> HIDE DEF given
    <3> QED BY <1>2, <2>4
  <2> QED BY <2>1, <2>2, <2>3, <2>5, SubSeqProperties
<1> HIDE DEF run, given
<1>6. \A k \in 1 .. c : run[k] = given[k]
  <2> TAKE k \in 1 .. c
  <2>1. k \in 1 .. n - f /\ f + k \in 1 .. n
    BY <1>1, <1>2
  <2> QED BY <1>1, <1>3, <1>4, <1>5, <2>1
<1>7. run = given
  BY <1>2, <1>4, <1>5, <1>6, SeqEqual
<1> QED BY <1>1, <1>7 DEF run, given, rest, e, l, n, Contract!Keep, Contract!Drop

\* An array that is cut.
LEMMA CutIs ==
  ASSUME NEW l \in Seq(Cell), NEW f \in 0 .. Len(l)
  PROVE  /\ Replacing(l, f, Len(l) - f, <<>>) = Contract!Keep(l, f)
         /\ Contract!Keep(Contract!Drop(l, f), Len(l) - f) = Contract!Drop(l, f)
<1> DEFINE n == Len(l)
           keep == SubSeq(l, 1, f)
           rest == SubSeq(l, f + 1, n)
<1>1. n \in Nat /\ f \in Nat /\ f <= n
  OBVIOUS
<1> HIDE DEF n
<1>2. keep \in Seq(Cell)
  <2>1. \A k \in 1 .. f : l[k] \in Cell
    BY <1>1 DEF n
  <2> QED BY <1>1, <2>1, SubSeqProperties
<1>3. rest \in Seq(Cell) /\ Len(rest) = n - f
  <2>1. f + 1 \in Int /\ n \in Int
    BY <1>1
  <2>2. \A k \in f + 1 .. n : l[k] \in Cell
    BY <1>1 DEF n
  <2>4. rest \in Seq(Cell) /\ Len(rest) = IF f + 1 <= n THEN n - (f + 1) + 1 ELSE 0
    BY <2>1, <2>2, SubSeqProperties
  <2> QED BY <1>1, <2>4
<1> HIDE DEF keep, rest
<1>4. SubSeq(rest, 1, n - f) = rest
  <2>1. SubSeq(rest, 1, Len(rest)) = rest
    BY <1>3, SubSeqFull
  <2> QED BY <1>3, <2>1
<1>5. SubSeq(rest, n - f + 1, Len(rest)) = <<>>
  <2>1. n - f + 1 \in Int /\ Len(rest) \in Int /\ Len(rest) < n - f + 1
    BY <1>1, <1>3
  <2> QED BY <2>1, SubSeqEmpty
<1>6. keep \o <<>> \o <<>> = keep
  BY <1>2, ConcatEmptySeq
<1> QED BY <1>4, <1>5, <1>6 DEF Replacing, Contract!Keep, Contract!Drop, keep, rest, n

\* A list with a run laid over it.
Pasted(l, n, to, run) == [k \in 1 .. n |-> IF k - to \in DOMAIN run THEN run[k - to] ELSE l[k]]

\* A run copied over another, as the standard has it.
LEMMA CopiedIs ==
  ASSUME NEW l \in Seq(Cell), NEW from \in 0 .. Len(l), NEW last \in 0 .. Len(l), NEW to \in 0 .. Len(l)
  PROVE  Pasted(l, Len(l), to, SubSeq(l, from + 1, last)) = Copied(l, Len(l), to, from, last)
<1> DEFINE n == Len(l)
           run == SubSeq(l, from + 1, last)
<1>1. n \in Nat /\ from \in Nat /\ last \in Nat /\ to \in Nat /\ last <= n /\ from <= n
  OBVIOUS
<1> HIDE DEF n
<1>2. run \in Seq(Cell) /\ Len(run) = (IF from < last THEN last - from ELSE 0)
      /\ \A k \in 1 .. last - from : run[k] = l[from + k]
  <2>1. from + 1 \in Int /\ last \in Int /\ last - (from + 1) + 1 = last - from
    BY <1>1
  <2>2. \A k \in from + 1 .. last : l[k] \in Cell
    BY <1>1 DEF n
  <2>3. \A k \in 1 .. last - from : from + 1 + k - 1 = from + k
    BY <1>1
  <2>4. Len(run) = IF from + 1 <= last THEN last - (from + 1) + 1 ELSE 0
    BY <2>1, <2>2, SubSeqProperties
  <2>5. Len(run) = IF from < last THEN last - from ELSE 0
    BY <1>1, <2>4
  <2> QED BY <2>1, <2>2, <2>3, <2>5, SubSeqProperties
<1> HIDE DEF run
<1>3. DOMAIN run = 1 .. Len(run)
  BY <1>2
<1>4. ASSUME NEW k \in 1 .. n
      PROVE  (IF k - to \in DOMAIN run THEN run[k - to] ELSE l[k]) =
             (IF to < k /\ k <= to + (last - from) THEN l[k - to + from] ELSE l[k])
  <2>1. CASE to < k /\ k <= to + (last - from)
    <3>1. k - to \in 1 .. last - from /\ from < last /\ from + (k - to) = k - to + from
      BY <1>1, <2>1
    <3>2. k - to \in DOMAIN run
      BY <1>2, <1>3, <3>1
    <3> QED BY <1>2, <2>1, <3>1, <3>2
  <2>2. CASE ~(to < k /\ k <= to + (last - from))
    <3>1. k - to \notin 1 .. Len(run)
      BY <1>1, <1>2, <2>2
    <3> QED BY <1>3, <2>2, <3>1
  <2> QED BY <2>1, <2>2
<1> QED BY <1>4 DEF n, run, Copied, Pasted

\* A variadic call.
LEMMA ItemsGiven == \A items \in Items : items \in Contract!Runs
BY DEF Items, Contract!Runs

\* Each change is the standard's, or changes nothing.
LEMMA ChangeMaps ==
  ASSUME ListInv, ArrayInv', ~FindsShorten, Change
  PROVE  (Contract!Next \/ UNCHANGED Contract!vars) /\ ListInv'
<1> DEFINE l == Live(store)
           n == store.length
<1>0. /\ Fits(store) /\ n \in Nat /\ l \in Seq(Cell) /\ Len(l) = n /\ DOMAIN l = 1 .. n
      /\ \A k \in 1 .. n : l[k] = store.elements[k]
      /\ Shown = l /\ InProgress # Contract!Sorting
  <2>1. \E change : May(change)
    BY DEF Change, Push, Prepend, Pop, Shift, SpliceRun, SpliceTail, SetIndex, DeleteIndex,
           ReverseAll, FillRange, CopyRange
  <2>2. ~Sorts(walk)
    BY <2>1 DEF May, Sorts
  <2>3. Shown = l /\ InProgress # Contract!Sorting
    BY <2>2, ShownIs DEF Sorts, Contract!Sorting
  <2> QED BY <2>3, FitsParts, LiveIs DEF ListInv, ArrayInv
<1>a. MaxLength \in Nat
  BY WalkAssumption
<1>b. ASSUME NEW change, May(change), NEW a, NEW gave, Become(a, gave), NEW k, Live(a) = k
      PROVE  Contract!Become(k, gave) /\ answer = <<>> /\ UNCHANGED InProgress /\ Shown' = k /\ ListInv'
  BY <1>b, BecomeMaps DEF Contract!Become
<1>c. Contract!Change => Contract!Next
  BY DEF Contract!Next
<1> HIDE DEF l, n
<1>1. CASE Push
  <2>1. PICK items \in Items : Become(AppendAll(store, items), <<n + Len(items)>>)
    BY <1>1 DEF Push, n
  <2>2. items \in Seq(Cell) /\ items \in Contract!Runs
    BY ItemsAre, ItemsGiven
  <2>3. Live(AppendAll(store, items)) = l \o items
    BY <1>0, <2>2, AppendAllShows DEF Shows, l
  <2>4. Contract!Become(l \o items, <<n + Len(items)>>) /\ answer = <<>> /\ UNCHANGED InProgress /\ ListInv'
    BY <1>1, <1>b, <2>1, <2>3 DEF Push
  <2>5. Contract!Push(items)
    BY <1>0, <2>4 DEF Contract!Push
  <2> QED BY <1>0, <1>c, <2>2, <2>4, <2>5 DEF Contract!Change
<1>2. CASE Prepend
  <2>1. PICK items \in Items : Become(Unshift(store, items), <<n + Len(items)>>)
    BY <1>2 DEF Prepend, n
  <2>2. items \in Seq(Cell) /\ items \in Contract!Runs
    BY ItemsAre, ItemsGiven
  <2>3. Live(Unshift(store, items)) = items \o l
    BY <1>0, <2>2, UnshiftShows DEF Shows, l
  <2>4. Contract!Become(items \o l, <<n + Len(items)>>) /\ answer = <<>> /\ UNCHANGED InProgress /\ ListInv'
    BY <1>2, <1>b, <2>1, <2>3 DEF Prepend
  <2>5. Contract!Unshift(items)
    BY <1>0, <2>4 DEF Contract!Unshift
  <2> QED BY <1>0, <1>c, <2>2, <2>4, <2>5 DEF Contract!Change
<1>3. CASE Pop
  <2>1. Become(Take(store, FALSE), <<Taken(store, FALSE)>>)
    BY <1>3 DEF Pop
  <2>2. CASE n = 0
    <3>1. l = <<>> /\ Take(store, FALSE) = store /\ Taken(store, FALSE) = Undefined
      BY <1>0, <2>2 DEF Take, Taken, n
    <3>2. Contract!Become(l, <<Undefined>>) /\ answer = <<>> /\ UNCHANGED InProgress /\ ListInv'
      BY <1>3, <1>b, <2>1, <3>1 DEF Pop, l
    <3>3. Contract!Pop
      BY <1>0, <3>1, <3>2 DEF Contract!Pop
    <3> QED BY <1>0, <1>c, <3>2, <3>3 DEF Contract!Change
  <2>3. CASE n # 0
    <3>1. l # <<>> /\ n - 1 \in Nat /\ n - 1 < n /\ n - 1 + 1 = n
      BY <1>0, <2>3
    <3>2. Taken(store, FALSE) = Contract!Get(l, n - 1)
      <4>1. Contract!Get(l, n - 1) = Unhole(store.elements[n])
        BY <1>0, <3>1, MeetsIs DEF l, n
      <4> QED BY <2>3, <4>1 DEF Taken, n
    <3>3. Live(Take(store, FALSE)) = Front(l)
      BY <1>0, <2>3, TakeShows DEF Shows, l, n
    <3>4. Contract!Become(Front(l), <<Contract!Get(l, n - 1)>>) /\ answer = <<>> /\ UNCHANGED InProgress /\ ListInv'
      BY <1>3, <1>b, <2>1, <3>2, <3>3 DEF Pop
    <3>5. Contract!Pop
      BY <1>0, <3>1, <3>4 DEF Contract!Pop, Contract!Front, Front
    <3> QED BY <1>0, <1>c, <3>4, <3>5 DEF Contract!Change
  <2> QED BY <2>2, <2>3
<1>4. CASE Shift
  <2>1. Become(Take(store, TRUE), <<Taken(store, TRUE)>>)
    BY <1>4 DEF Shift
  <2>2. CASE n = 0
    <3>1. l = <<>> /\ Take(store, TRUE) = store /\ Taken(store, TRUE) = Undefined
      BY <1>0, <2>2 DEF Take, Taken, n
    <3>2. Contract!Become(l, <<Undefined>>) /\ answer = <<>> /\ UNCHANGED InProgress /\ ListInv'
      BY <1>4, <1>b, <2>1, <3>1 DEF Shift, l
    <3>3. Contract!Shift
      BY <1>0, <3>1, <3>2 DEF Contract!Shift
    <3> QED BY <1>0, <1>c, <3>2, <3>3 DEF Contract!Change
  <2>3. CASE n # 0
    <3>1. l # <<>> /\ 0 \in Nat /\ 0 < n /\ 0 + 1 = 1
      BY <1>0, <2>3
    <3>2. Taken(store, TRUE) = Contract!Get(l, 0)
      <4>1. Contract!Get(l, 0) = Unhole(store.elements[1])
        BY <1>0, <3>1, MeetsIs DEF l, n
      <4> QED BY <2>3, <4>1 DEF Taken, n
    <3>3. Live(Take(store, TRUE)) = Tail(l)
      BY <1>0, <2>3, TakeShows DEF Shows, l, n
    <3>4. Contract!Become(Tail(l), <<Contract!Get(l, 0)>>) /\ answer = <<>> /\ UNCHANGED InProgress /\ ListInv'
      BY <1>4, <1>b, <2>1, <3>2, <3>3 DEF Shift
    <3>5. Contract!Shift
      BY <1>0, <3>1, <3>4 DEF Contract!Shift
    <3> QED BY <1>0, <1>c, <3>4, <3>5 DEF Contract!Change
  <2> QED BY <2>2, <2>3
<1>5. CASE SpliceRun
  <2>1. PICK start, count \in Argument, items \in Items :
          Become(Splice(store, start, count, items), Spliced(store, start, count))
    BY <1>5 DEF SpliceRun
  <2>2. start \in Numbers /\ count \in Numbers /\ items \in Seq(Cell) /\ items \in Contract!Runs
    BY ArgumentIs, ItemsAre, ItemsGiven
  <2> DEFINE f == Contract!Relative(start, 0, n)
             c == Contract!Clamp(Contract!Integer(count, 0), n - f)
             out == Contract!Keep(l, f) \o items \o Contract!Drop(Contract!Drop(l, f), c)
             gave == Contract!Keep(Contract!Drop(l, f), c)
  <2>3. Start(start, n) = f /\ f \in 0 .. n /\ SpliceCount(store, start, count) = c /\ c \in 0 .. n - f
    BY <1>0, <2>2, StartIs, SpliceCountIs DEF n
  <2> HIDE DEF f, c
  <2>4. Live(Splice(store, start, count, items)) = out
    BY <1>0, <2>2, <2>3, SpliceShows DEF Shows, Replacing, l, n
  <2>5. Spliced(store, start, count) = gave
    BY <1>0, <2>3, SplicedIs DEF Spliced, l, n
  <2>6. Contract!Become(out, gave) /\ answer = <<>> /\ UNCHANGED InProgress /\ ListInv'
    BY <1>5, <1>b, <2>1, <2>4, <2>5 DEF SpliceRun
  <2>7. Contract!Splice(start, count, items)
    BY <1>0, <2>6 DEF Contract!Splice, f, c
  <2> QED BY <1>0, <1>c, <2>2, <2>6, <2>7 DEF Contract!Change
<1>6. CASE SpliceTail
  <2>1. PICK start \in Argument : Become(SpliceFrom(store, start), Spliced(store, start, n))
    BY <1>6 DEF SpliceTail, n
  <2> DEFINE f == Contract!Relative(start, 0, n)
  <2>2. start \in Numbers /\ Start(start, n) = f /\ f \in 0 .. n
    BY <1>0, ArgumentIs, StartIs
  <2> HIDE DEF f
  <2>3. n - f \in Numbers /\ n \in Numbers /\ <<>> \in Seq(Cell) /\ f \in Nat /\ n - f \in Nat
    BY <1>0, <2>2, EmptySeq DEF Numbers
  <2>4. SpliceCount(store, start, n - f) = n - f /\ SpliceCount(store, start, n) = n - f
    <3>1. \A d \in Int : Contract!Integer(d, 0) = d
      BY WalkAssumption DEF Contract!Integer
    <3>2. Contract!Clamp(n - f, n - f) = n - f /\ Contract!Clamp(n, n - f) = n - f
      BY <1>0, <2>2, <2>3 DEF Contract!Clamp
    <3> QED BY <1>0, <2>2, <2>3, <3>1, <3>2, SpliceCountIs DEF n
  <2>5. Live(SpliceFrom(store, start)) = Contract!Keep(l, f)
    <3>1. Live(SpliceFrom(store, start)) = Replacing(l, f, n - f, <<>>)
      <4>1. SpliceFrom(store, start) = Splice(store, start, n - f, <<>>)
        BY <2>2 DEF SpliceFrom, n
      <4>2. Live(Splice(store, start, n - f, <<>>)) =
              Replacing(Live(store), Start(start, store.length), SpliceCount(store, start, n - f), <<>>)
        <5>1. start \in Numbers /\ n - f \in Numbers /\ <<>> \in Seq(Cell) /\ Fits(store)
          BY <1>0, <2>2, <2>3
        <5>2. Shows(Splice(store, start, n - f, <<>>),
                    Replacing(Live(store), Start(start, store.length), SpliceCount(store, start, n - f), <<>>))
          BY <5>1, SpliceShows
        <5> QED BY <5>2, Zenon DEF Shows
      <4> QED BY <2>2, <2>4, <4>1, <4>2 DEF l, n
    <3> QED BY <1>0, <2>2, <3>1, CutIs
  <2>6. Spliced(store, start, n) = Contract!Drop(l, f)
    <3>1. n - f \in 0 .. n - f
      BY <2>3
    <3>2. Spliced(store, start, n) = Contract!Keep(Contract!Drop(l, f), n - f)
      BY <1>0, <2>2, <2>4, <3>1, SplicedIs DEF Spliced, l, n
    <3> QED BY <1>0, <2>2, <3>2, CutIs
  <2>7. Contract!Become(Contract!Keep(l, f), Contract!Drop(l, f)) /\ answer = <<>> /\ UNCHANGED InProgress /\ ListInv'
    BY <1>6, <1>b, <2>1, <2>5, <2>6 DEF SpliceTail
  <2>8. Contract!SpliceFrom(start)
    BY <1>0, <2>7 DEF Contract!SpliceFrom, f
  <2> QED BY <1>0, <1>c, <2>7, <2>8 DEF Contract!Change
<1>7. CASE SetIndex
  <2>1. PICK i \in 0 .. MaxLength - 1, v \in Given : Become(Store(store, i, v), <<>>)
    BY <1>7 DEF SetIndex
  <2>2. i \in Nat /\ v \in Cell /\ v \in Contract!Given
    BY <1>a DEF Given, Cell, Contract!Given
  <2> DEFINE size == IF i >= n THEN i + 1 ELSE n
             out == [k \in 1 .. size |-> IF k = i + 1 THEN v ELSE IF k <= n THEN l[k] ELSE Hole]
  <2>3. Live(Store(store, i, v)) = out
    <3>1. Live(Store(store, i, v)) = Written(l, n, i, v)
      BY <1>0, <2>2, StoreShows DEF Shows, l, n
    <3> QED BY <3>1 DEF Written
  <2>4. DOMAIN out = 1 .. size /\ i + 1 \in 1 .. size /\ i + 1 - 1 = i
    BY <1>0, <2>2
  <2> HIDE DEF out, size
  <2>5. Contract!Become(out, <<>>) /\ answer = <<>> /\ UNCHANGED InProgress /\ Shown' = out /\ ListInv'
    BY <1>7, <1>b, <2>1, <2>3 DEF SetIndex
  <2>6. Contract!Assign(i, v)
    BY <1>0, <2>5 DEF Contract!Assign, out, size
  <2>7. i + 1 \in DOMAIN Shown' /\ Contract!Assign((i + 1) - 1, v)
    BY <2>4, <2>5, <2>6
  <2> QED BY <1>0, <1>c, <2>2, <2>5, <2>7 DEF Contract!Change
<1>8. CASE DeleteIndex
  <2>1. PICK i \in 0 .. MaxLength - 1 : Become(Delete(store, i), <<>>)
    BY <1>8 DEF DeleteIndex
  <2>2. i \in Nat
    BY <1>a
  <2> DEFINE out == [k \in 1 .. n |-> IF k = i + 1 THEN Hole ELSE l[k]]
  <2>3. Live(Delete(store, i)) = out /\ DOMAIN out = 1 .. n
    BY <1>0, <2>2, DeleteShows DEF Shows, l, n
  <2> HIDE DEF out
  <2>4. Contract!Become(out, <<>>) /\ answer = <<>> /\ UNCHANGED InProgress /\ Shown' = out /\ ListInv'
    BY <1>8, <1>b, <2>1, <2>3 DEF DeleteIndex
  <2>5. Contract!Delete(i)
    BY <1>0, <2>4 DEF Contract!Delete, out
  <2>6. CASE i < n
    <3>1. i + 1 \in 1 .. n /\ i + 1 - 1 = i
      BY <1>0, <2>2, <2>6
    <3>2. i + 1 \in DOMAIN Shown' /\ Contract!Delete((i + 1) - 1)
      BY <2>3, <2>4, <2>5, <3>1
    <3> QED BY <1>0, <1>c, <2>4, <3>2 DEF Contract!Change
  <2>7. CASE ~(i < n)
    <3>1. store' = store /\ answer' = <<>>
      BY <2>1, <2>7 DEF Become, Delete, n
    <3>2. Shown' = Shown
      BY <2>1, <3>1 DEF Become, Shown, Live
    <3> QED BY <2>4, <3>1, <3>2 DEF Contract!vars
  <2> QED BY <2>6, <2>7
<1>9. CASE ReverseAll
  <2> DEFINE out == [k \in 1 .. n |-> l[n + 1 - k]]
  <2>1. Live(Reversed(store)) = out
    BY <1>0, ReversedShows DEF Shows, l, n
  <2>2. Contract!Reverse(l) = out
    <3>1. \A k \in 1 .. n : n + 1 - k = (n - k) + 1
      BY <1>0
    <3> QED BY <1>0, <3>1 DEF Contract!Reverse
  <2> HIDE DEF out
  <2>3. Contract!Become(out, <<>>) /\ answer = <<>> /\ UNCHANGED InProgress /\ ListInv'
    BY <1>9, <1>b, <2>1 DEF ReverseAll
  <2>4. Contract!Reversed
    BY <1>0, <2>2, <2>3 DEF Contract!Reversed
  <2> QED BY <1>0, <1>c, <2>3, <2>4 DEF Contract!Change
<1>10. CASE FillRange
  <2>1. PICK v \in Value, start, end \in Argument : Become(Fill(store, v, start, end), <<>>)
    BY <1>10 DEF FillRange
  <2>2. v \in Cell /\ start \in Numbers /\ end \in Numbers
    BY ArgumentIs DEF Cell
  <2> DEFINE f == Contract!Relative(start, 0, n)
             t == Contract!Relative(end, n, n)
             out == [k \in 1 .. n |-> IF k - 1 \in f .. t - 1 THEN v ELSE l[k]]
  <2>3. Start(start, n) = f /\ End(end, n) = t
    BY <1>0, <2>2, StartIs, EndIs
  <2> HIDE DEF f, t
  <2>4. Live(Fill(store, v, start, end)) = out
    <3>1. Live(Fill(store, v, start, end)) = Filled(l, n, f, t, v)
      BY <1>0, <2>2, <2>3, FillShows DEF Shows, l, n
    <3> QED BY <3>1 DEF Filled
  <2> HIDE DEF out
  <2>5. Contract!Become(out, <<>>) /\ answer = <<>> /\ UNCHANGED InProgress /\ ListInv'
    BY <1>10, <1>b, <2>1, <2>4 DEF FillRange
  <2>6. Contract!Fill(v, start, end)
    BY <1>0, <2>5 DEF Contract!Fill, out, f, t
  <2> QED BY <1>0, <1>c, <2>5, <2>6 DEF Contract!Change
<1>11. CASE CopyRange
  <2>1. PICK target, start, end \in Argument : Become(CopyWithin(store, target, start, end), <<>>)
    BY <1>11 DEF CopyRange
  <2>2. target \in Numbers /\ start \in Numbers /\ end \in Numbers
    BY ArgumentIs
  <2> DEFINE to == Contract!Relative(target, 0, n)
             f == Contract!Relative(start, 0, n)
             t == Contract!Relative(end, n, n)
             run == SubSeq(l, f + 1, t)
             out == Pasted(l, n, to, run)
  <2>3. /\ Start(target, n) = to /\ Start(start, n) = f /\ End(end, n) = t
        /\ to \in 0 .. n /\ f \in 0 .. n /\ t \in 0 .. n
    BY <1>0, <2>2, StartIs, EndIs
  <2> HIDE DEF f, t, to
  <2>4. Live(CopyWithin(store, target, start, end)) = out
    <3>1. Live(CopyWithin(store, target, start, end)) = Copied(l, n, to, f, t)
      BY <1>0, <2>2, <2>3, CopyWithinShows DEF Shows, l, n
    <3> QED BY <1>0, <2>3, <3>1, CopiedIs
  <2> HIDE DEF out
  <2>5. Contract!Become(out, <<>>) /\ answer = <<>> /\ UNCHANGED InProgress /\ ListInv'
    BY <1>11, <1>b, <2>1, <2>4 DEF CopyRange
  <2>6. Contract!CopyWithin(target, start, end)
    BY <1>0, <2>5 DEF Contract!CopyWithin, Contract!Section, Pasted, out, run, to, f, t
  <2> QED BY <1>0, <1>c, <2>5, <2>6 DEF Contract!Change
<1> QED BY <1>1, <1>2, <1>3, <1>4, <1>5, <1>6, <1>7, <1>8, <1>9, <1>10, <1>11 DEF Change

-----------------------------------------------------------------------------
(* A sort rearranges.                                                      *)

\* The first m cells, rearranged by g, are those of s, which are present, and then
\* holes; both are as they stood.
Packs(g, m, s, l) ==
  /\ g \in [1 .. m -> 1 .. m]
  /\ \A i, j \in 1 .. m : g[i] = g[j] => i = j
  /\ s \in Seq(Cell) /\ Len(s) <= m
  /\ \A k \in 1 .. m : l[g[k]] = IF k <= Len(s) THEN s[k] ELSE Hole
  /\ \A k \in 1 .. Len(s) : s[k] # Hole
  /\ \A i, j \in 1 .. m : i < j /\ (j <= Len(s) \/ i > Len(s)) => g[i] < g[j]

\* One more cell, a hole.
LEMMA PacksHole ==
  ASSUME NEW m \in Nat, NEW s, NEW l, NEW g, Packs(g, m, s, l), l[m + 1] = Hole
  PROVE  \E h : Packs(h, m + 1, s, l)
<1> DEFINE h == [k \in 1 .. m + 1 |-> IF k = m + 1 THEN m + 1 ELSE g[k]]
           q == Len(s)
<1>1. /\ g \in [1 .. m -> 1 .. m] /\ s \in Seq(Cell) /\ q \in Nat /\ q <= m
      /\ \A i, j \in 1 .. m : g[i] = g[j] => i = j
      /\ \A k \in 1 .. m : l[g[k]] = IF k <= q THEN s[k] ELSE Hole
      /\ \A k \in 1 .. q : s[k] # Hole
      /\ \A i, j \in 1 .. m : i < j /\ (j <= q \/ i > q) => g[i] < g[j]
  BY DEF Packs
<1>2. \A k \in 1 .. m + 1 : k # m + 1 => k \in 1 .. m /\ g[k] \in 1 .. m
  BY <1>1
<1>3. \A k \in 1 .. m : k \in 1 .. m + 1 /\ k # m + 1
  OBVIOUS
<1>4. h \in [1 .. m + 1 -> 1 .. m + 1]
  BY <1>2, <1>3
<1>5. \A k \in 1 .. m + 1 : h[k] = IF k = m + 1 THEN m + 1 ELSE g[k]
  OBVIOUS
<1> HIDE DEF h, q
<1>6. ASSUME NEW i \in 1 .. m + 1, NEW j \in 1 .. m + 1, h[i] = h[j] PROVE i = j
  <2>1. CASE i # m + 1 /\ j # m + 1
    BY <1>1, <1>2, <1>5, <1>6, <2>1, Zenon
  <2>2. CASE i = m + 1 \/ j = m + 1
    BY <1>2, <1>3, <1>5, <1>6, <2>2, Zenon
  <2> QED BY <2>1, <2>2
<1>7. ASSUME NEW k \in 1 .. m + 1 PROVE l[h[k]] = IF k <= q THEN s[k] ELSE Hole
  <2>1. CASE k = m + 1
    <3>1. ~(k <= q)
      BY <1>1, <2>1
    <3>2. h[k] = m + 1
      BY <1>5, <2>1
    <3> QED BY <3>1, <3>2
  <2>2. CASE k # m + 1
    <3>1. k \in 1 .. m /\ h[k] = g[k]
      BY <1>2, <1>5, <2>2
    <3> QED BY <1>1, <3>1
  <2> QED BY <2>1, <2>2
<1>8. q <= m + 1
  BY <1>1
<1>10. ASSUME NEW i \in 1 .. m + 1, NEW j \in 1 .. m + 1, i < j, j <= q \/ i > q PROVE h[i] < h[j]
  <2>1. i \in 1 .. m /\ i # m + 1 /\ h[i] = g[i] /\ g[i] \in 1 .. m
    BY <1>2, <1>5, <1>10
  <2>2. CASE j = m + 1
    <3>1. h[j] = m + 1
      BY <1>5, <2>2
    <3> QED BY <2>1, <3>1
  <2>3. CASE j # m + 1
    <3>1. j \in 1 .. m /\ h[j] = g[j]
      BY <1>2, <1>5, <2>3
    <3> QED BY <1>1, <1>10, <2>1, <3>1
  <2> QED BY <2>2, <2>3
<1>9. Packs(h, m + 1, s, l)
  BY <1>1, <1>4, <1>6, <1>7, <1>8, <1>10 DEF Packs, q
<1> QED BY <1>9

\* One more cell, present.
LEMMA PacksKept ==
  ASSUME NEW m \in Nat, NEW s, NEW l, NEW g, Packs(g, m, s, l), NEW c \in Cell, l[m + 1] = c, c # Hole
  PROVE  \E h : Packs(h, m + 1, Append(s, c), l)
<1> DEFINE q == Len(s)
           t == Append(s, c)
           h == [k \in 1 .. m + 1 |-> IF k <= q THEN g[k] ELSE IF k = q + 1 THEN m + 1 ELSE g[k - 1]]
<1>0. s \in Seq(Cell) /\ q \in Nat /\ q <= m
  BY DEF Packs
<1>1. /\ g \in [1 .. m -> 1 .. m] /\ s \in Seq(Cell) /\ q \in Nat /\ q <= m
      /\ \A i, j \in 1 .. m : g[i] = g[j] => i = j
      /\ \A k \in 1 .. m : l[g[k]] = IF k <= q THEN s[k] ELSE Hole
      /\ \A k \in 1 .. q : s[k] # Hole
      /\ \A i, j \in 1 .. m : i < j /\ (j <= q \/ i > q) => g[i] < g[j]
  BY <1>0, Zenon DEF Packs
<1>2. t \in Seq(Cell) /\ Len(t) = q + 1 /\ t[q + 1] = c /\ \A k \in 1 .. q : t[k] = s[k]
  BY <1>1
<1> HIDE DEF t, q
<1>3. \A k \in 1 .. m + 1 :
        /\ k <= q => k \in 1 .. m /\ k \in 1 .. q
        /\ k > q + 1 => k - 1 \in 1 .. m /\ k - 1 > q /\ ~(k <= q) /\ k # q + 1 /\ ~(k - 1 <= q)
        /\ k <= q \/ k = q + 1 \/ k > q + 1
        /\ k = q + 1 => ~(k <= q)
  BY <1>1
<1>4. \A k \in 1 .. m : g[k] \in 1 .. m /\ g[k] # m + 1 /\ g[k] \in 1 .. m + 1
  BY <1>1
<1>5. /\ h \in [1 .. m + 1 -> 1 .. m + 1]
      /\ \A k \in 1 .. m + 1 : h[k] = IF k <= q THEN g[k] ELSE IF k = q + 1 THEN m + 1 ELSE g[k - 1]
  <2>1. m + 1 \in 1 .. m + 1
    OBVIOUS
  <2>2. \A k \in 1 .. m + 1 : (IF k <= q THEN g[k] ELSE IF k = q + 1 THEN m + 1 ELSE g[k - 1]) \in 1 .. m + 1
    BY <1>3, <1>4, <2>1
  <2> QED BY <2>2
<1> HIDE DEF h
<1>6. \A k \in 1 .. m + 1 :
        /\ k <= q => h[k] = g[k]
        /\ k = q + 1 => h[k] = m + 1
        /\ k > q + 1 => h[k] = g[k - 1]
  BY <1>3, <1>5
<1>7. ASSUME NEW i \in 1 .. m + 1, NEW j \in 1 .. m + 1, h[i] = h[j] PROVE i = j
  <2>1. CASE i = q + 1 \/ j = q + 1
    BY <1>3, <1>4, <1>6, <1>7, <2>1
  <2>2. CASE i <= q /\ j <= q
    <3>1. i \in 1 .. m /\ j \in 1 .. m /\ g[i] = g[j]
      BY <1>3, <1>6, <1>7, <2>2
    <3> QED BY <1>1, <3>1
  <2>3. CASE i > q + 1 /\ j > q + 1
    <3>1. i - 1 = j - 1
      <4>1. i - 1 \in 1 .. m /\ j - 1 \in 1 .. m
        BY <1>3, <2>3
      <4>2. g[i - 1] = g[j - 1]
        BY <1>6, <1>7, <2>3
      <4> QED BY <1>1, <4>1, <4>2, Zenon
    <3> QED BY <3>1
  <2>4. CASE i <= q /\ j > q + 1
    <3>1. i = j - 1
      BY <1>1, <1>3, <1>6, <1>7, <2>4, SMTT(30)
    <3> QED BY <1>1, <1>3, <2>4, <3>1
  <2>5. CASE i > q + 1 /\ j <= q
    <3>1. i - 1 = j
      BY <1>1, <1>3, <1>6, <1>7, <2>5
    <3> QED BY <1>1, <1>3, <2>5, <3>1
  <2> QED BY <1>3, <2>1, <2>2, <2>3, <2>4, <2>5
<1>8. ASSUME NEW k \in 1 .. m + 1 PROVE l[h[k]] = IF k <= q + 1 THEN t[k] ELSE Hole
  <2>1. CASE k <= q
    <3>1. k <= q + 1 /\ k \in 1 .. m /\ k \in 1 .. q
      BY <1>1, <1>3, <2>1
    <3> QED BY <1>1, <1>2, <1>6, <2>1, <3>1
  <2>2. CASE k = q + 1
    BY <1>1, <1>2, <1>6, <2>2
  <2>3. CASE k > q + 1
    <3>1. k - 1 \in 1 .. m /\ ~(k - 1 <= q) /\ ~(k <= q + 1)
      BY <1>1, <1>3, <2>3
    <3> QED BY <1>1, <1>6, <2>3, <3>1, SMTT(30)
  <2> QED BY <1>3, <2>1, <2>2, <2>3
<1>10. ASSUME NEW i \in 1 .. m + 1, NEW j \in 1 .. m + 1, i < j, j <= q + 1 \/ i > q + 1
       PROVE  h[i] < h[j]
  <2>1. CASE j <= q
    <3>1. i <= q
      BY <1>1, <1>10, <2>1
    <3>2. h[i] = g[i] /\ h[j] = g[j] /\ i \in 1 .. m /\ j \in 1 .. m
      BY <1>3, <1>6, <2>1, <3>1
    <3> QED BY <1>1, <1>10, <2>1, <3>2
  <2>2. CASE j = q + 1
    <3>1. i <= q
      BY <1>1, <1>10, <2>2
    <3>2. h[i] = g[i] /\ h[j] = m + 1 /\ g[i] \in 1 .. m
      BY <1>3, <1>4, <1>6, <2>2, <3>1
    <3> QED BY <3>2
  <2>3. CASE j > q + 1
    <3>1. i > q + 1
      BY <1>1, <1>10, <2>3
    <3>2. h[i] = g[i - 1] /\ h[j] = g[j - 1] /\ i - 1 \in 1 .. m /\ j - 1 \in 1 .. m /\ i - 1 > q
      BY <1>3, <1>6, <2>3, <3>1
    <3>3. i - 1 < j - 1
      BY <1>10
    <3> QED BY <1>1, <3>2, <3>3
  <2> QED BY <1>3, <2>1, <2>2, <2>3
<1>9. Packs(h, m + 1, t, l)
  <2>1. q + 1 <= m + 1
    BY <1>1
  <2>2. \A k \in 1 .. q + 1 : t[k] # Hole
    <3> TAKE k \in 1 .. q + 1
    <3>1. k \in 1 .. q \/ k = q + 1
      BY <1>1
    <3> QED BY <1>1, <1>2, <3>1
  <2> QED BY <1>2, <1>5, <1>7, <1>8, <1>10, <2>1, <2>2 DEF Packs
<1> QED BY <1>9 DEF t

\* The elements, packed: what compaction leaves.
LEMMA CompactPacks ==
  ASSUME NEW a, Fits(a)
  PROVE  /\ \E g : Packs(g, a.length, Flattened(Live(a)), Live(a))
         /\ Live(Compacted(a)) =
              [k \in 1 .. a.length |-> IF k <= Len(Flattened(Live(a))) THEN Flattened(Live(a))[k] ELSE Hole]
         /\ DOMAIN Live(a) = 1 .. a.length /\ Live(a) \in Seq(Cell)
<1> DEFINE n == a.length
           l == Live(a)
           f == PresentCells(l)
           S == {m \in 0 .. n : \E g : Packs(g, m, f[m], l)}
<1>1. /\ n \in Nat /\ l \in Seq(Cell) /\ Len(l) = n /\ DOMAIN l = 1 .. n /\ Flattened(l) = f[n]
      /\ \A k \in 1 .. n : l[k] \in Cell
  BY FitsParts, LiveIs, LiveFunction DEF Flattened
<1>2. /\ f \in [0 .. n -> Seq(Cell)] /\ f[0] = <<>>
      /\ \A k \in 1 .. n : f[k] = IF l[k] # Hole THEN Append(f[k - 1], l[k]) ELSE f[k - 1]
  BY <1>1, PresentSteps DEF KeptBy
<1>3. Live(Compacted(a)) = [k \in 1 .. n |-> IF k <= Len(f[n]) THEN f[n][k] ELSE Hole]
  BY <1>1, CompactedShows DEF Shows
<1> HIDE DEF n, l, f
<1>4. 0 \in S
  <2> DEFINE g == [k \in 1 .. 0 |-> 1]
  <2>1. 1 .. 0 = {} /\ g \in [1 .. 0 -> 1 .. 0] /\ Len(<<>>) = 0 /\ <<>> \in Seq(Cell)
    BY EmptySeq
  <2> HIDE DEF g
  <2>2. Packs(g, 0, f[0], l)
    BY <1>2, <2>1 DEF Packs
  <2>3. 0 \in 0 .. n
    BY <1>1
  <2> QED BY <2>2, <2>3
<1>5. ASSUME NEW m \in 0 .. (n - 1), m \in S PROVE m + 1 \in S
  <2>1. m \in Nat /\ m + 1 \in 1 .. n /\ m + 1 \in 0 .. n /\ (m + 1) - 1 = m
    BY <1>1
  <2>2. PICK g : Packs(g, m, f[m], l)
    BY <1>5
  <2>3. f[m + 1] = IF l[m + 1] # Hole THEN Append(f[m], l[m + 1]) ELSE f[m]
    BY <1>2, <2>1
  <2>4. \E h : Packs(h, m + 1, f[m + 1], l)
    <3>1. CASE l[m + 1] = Hole
      BY <2>1, <2>2, <2>3, <3>1, PacksHole
    <3>2. CASE l[m + 1] # Hole
      BY <1>1, <2>1, <2>2, <2>3, <3>2, PacksKept
    <3> QED BY <3>1, <3>2
  <2> QED BY <2>1, <2>4
<1>6. n \in S
  <2>1. \A m \in 0 .. n : m \in S
    <3> HIDE DEF S
    <3> QED BY <1>1, <1>4, <1>5, UpTo
  <2> QED BY <1>1, <2>1
<1>7. \E g : Packs(g, n, f[n], l)
  BY <1>6
<1>8. /\ \E g : Packs(g, n, Flattened(l), l)
      /\ Live(Compacted(a)) = [k \in 1 .. n |-> IF k <= Len(Flattened(l)) THEN Flattened(l)[k] ELSE Hole]
      /\ DOMAIN l = 1 .. n /\ l \in Seq(Cell)
  BY <1>1, <1>3, <1>7
<1> QED BY <1>8, Zenon DEF l, n

\* What compaction leaves stands, and shows how much there is to compare.
LEMMA CompactStands ==
  ASSUME NEW a, Fits(a)
  PROVE  /\ Standing(Live(a), Live(Compacted(a)), a.length, Len(Flattened(Live(a))))
         /\ Flattened(Live(a)) = Contract!Present(Live(a))
<1> DEFINE n == a.length
           l == Live(a)
           s == Flattened(Live(a))
           k == Live(Compacted(a))
<1>1. PICK g : Packs(g, n, s, l)
  BY CompactPacks
<1>2. /\ k = [i \in 1 .. n |-> IF i <= Len(s) THEN s[i] ELSE Hole]
      /\ DOMAIN l = 1 .. n /\ l \in Seq(Cell) /\ n \in Nat
  BY CompactPacks, FitsParts
<1>3. s = Contract!Present(l)
  BY <1>2, FlattenedExact
<1> HIDE DEF n, l, s, k
<1>4. /\ g \in [1 .. n -> 1 .. n] /\ \A i, j \in 1 .. n : g[i] = g[j] => i = j
      /\ s \in Seq(Cell)
      /\ \A i \in 1 .. n : l[g[i]] = IF i <= Len(s) THEN s[i] ELSE Hole
      /\ \A i \in 1 .. Len(s) : s[i] # Hole
  BY <1>1, Zenon DEF Packs
<1>5. \A i \in 1 .. n : k[i] = l[g[i]]
  BY <1>2, <1>4
<1>6. \A i \in 1 .. n : i <= Len(s) => i \in 1 .. Len(s) /\ s[i] \in Cell
  BY <1>4
<1>7. k \in [1 .. n -> Cell]
  <2>1. Hole \in Cell
    BY DEF Cell
  <2> QED BY <1>2, <1>6, <2>1
<1>8. \A i \in 1 .. n : i <= Len(s) <=> k[i] # Hole
  BY <1>2, <1>4, <1>6
<1>9. Reorders(g, l, k, n)
  BY <1>2, <1>4, <1>5, <1>7 DEF Reorders
<1> QED BY <1>3, <1>8, <1>9 DEF Standing, n, l, s, k

\* A merge moves what stands, and it stands.
LEMMA StandingOn ==
  ASSUME NEW n, NEW p, NEW l, NEW k, NEW m, Standing(l, k, n, p),
         NEW h, Reorders(h, k, m, n), Trades(h, n, p)
  PROVE  Standing(l, m, n, p)
<1>1. PICK g : Reorders(g, l, k, n)
  BY DEF Standing
<1> DEFINE f == [i \in 1 .. n |-> g[h[i]]]
<1>2. /\ h \in [1 .. n -> 1 .. n] /\ \A i \in 1 .. n : m[i] = k[h[i]] /\ (i <= p <=> h[i] <= p)
      /\ \A i, j \in 1 .. n : h[i] = h[j] => i = j
  BY DEF Reorders, Trades
<1>3. /\ g \in [1 .. n -> 1 .. n] /\ \A i \in 1 .. n : k[i] = l[g[i]]
      /\ \A i, j \in 1 .. n : g[i] = g[j] => i = j
  BY <1>1 DEF Reorders
<1>4. f \in [1 .. n -> 1 .. n] /\ \A i \in 1 .. n : f[i] = g[h[i]]
  BY <1>2, <1>3
<1> HIDE DEF f
<1>5. ASSUME NEW i \in 1 .. n, NEW j \in 1 .. n, f[i] = f[j] PROVE i = j
  <2>1. h[i] \in 1 .. n /\ h[j] \in 1 .. n /\ g[h[i]] = g[h[j]]
    BY <1>2, <1>4, <1>5
  <2>2. h[i] = h[j]
    BY <1>3, <2>1
  <2> QED BY <1>2, <2>2
<1>6. ASSUME NEW i \in 1 .. n PROVE m[i] = l[f[i]]
  <2>1. h[i] \in 1 .. n /\ m[i] = k[h[i]]
    BY <1>2
  <2>2. k[h[i]] = l[g[h[i]]]
    BY <1>3, <2>1
  <2>3. f[i] = g[h[i]]
    BY <1>4
  <2> QED BY <2>1, <2>2, <2>3
<1>7. DOMAIN l = 1 .. n /\ m \in [1 .. n -> Cell]
  BY <1>1 DEF Reorders
<1>8. Reorders(f, l, m, n)
  BY <1>4, <1>5, <1>6, <1>7 DEF Reorders
<1>9. \A i \in 1 .. n : i <= p <=> m[i] # Hole
  <2>1. \A i \in 1 .. n : i <= p <=> k[i] # Hole
    BY DEF Standing
  <2> QED BY <1>2, <2>1
<1> QED BY <1>8, <1>9 DEF Standing

\* What a sort begins with.
LEMMA SortFresh ==
  ASSUME ListInv, Sort
  PROVE  \E w \in SortState :
           /\ walk = <<>> /\ answer' = <<>> /\ store' = Compacted(store)
           /\ walk' = IF Len(Flattened(Live(store))) < 2 THEN <<>>
                      ELSE <<Merging(w, Merges(Len(Flattened(Live(store)))))>>
           /\ w.before = Live(store) /\ Len(w.scratch) = Len(Flattened(Live(store))) /\ w.method = "sort"
<1> DEFINE p == Len(Flattened(Live(store)))
           e == Compacted(store).elements
           scratch == SubSeq(e, 1, p)
           Fresh(key, honest) == [method |-> "sort", todo |-> <<>>, a |-> 0, b |-> 0, k |-> 0,
                                  scratch |-> scratch, key |-> key, honest |-> honest,
                                  before |-> Live(store)]
<1>1. PICK key \in Keys, honest \in BOOLEAN :
        /\ walk = <<>> /\ answer' = <<>> /\ store' = Compacted(store)
        /\ walk' = IF p < 2 THEN <<>> ELSE <<Merging(Fresh(key, honest), Merges(p))>>
  BY DEF Sort
<1>2. Fits(store)
  BY DEF ListInv, ArrayInv
<1>3. /\ p \in Nat /\ p <= store.length /\ Fits(Compacted(store))
      /\ Compacted(store).length = store.length /\ store.length \in Nat
      /\ Live(store) \in Seq(Cell)
  BY <1>2, CompactedShows, LiveIs, FitsParts DEF Shows
<1>4. e \in Seq(Cell) /\ p <= Len(e) /\ Len(e) \in Nat
  <2> HIDE DEF p
  <2> QED BY <1>3, FitsParts
<1> HIDE DEF p, e
<1>5. scratch \in Seq(Cell) /\ Len(scratch) = p
  BY <1>3, <1>4, SubSeqProperties
<1> HIDE DEF scratch
<1> DEFINE w == Fresh(key, honest)
<1>6. w \in SortState /\ w.before = Live(store) /\ Len(w.scratch) = p /\ w.method = "sort"
  <2>1. <<>> \in Seq([lo : Nat, mid : Nat, hi : Nat])
    BY EmptySeq
  <2> QED BY <1>3, <1>5, <2>1 DEF SortState
<1> HIDE DEF Fresh
<1> QED BY <1>1, <1>6, Zenon DEF p

\* A sort begins; one with nothing to compare is already over.
LEMMA SortStarts ==
  ASSUME ListInv, ArrayInv', Sort
  PROVE  Contract!Next /\ ListInv'
<1> DEFINE l == Live(store)
           p == Len(Flattened(l))
           n == store.length
<1>1. PICK w \in SortState :
        /\ walk = <<>> /\ answer' = <<>> /\ store' = Compacted(store)
        /\ walk' = IF p < 2 THEN <<>> ELSE <<Merging(w, Merges(p))>>
        /\ w.before = l /\ Len(w.scratch) = p /\ w.method = "sort"
  BY SortFresh
<1>2. /\ Standing(l, Live(store'), n, p) /\ Flattened(l) = Contract!Present(l)
      /\ store'.length = n /\ p \in Nat
  <2>1. Fits(store)
    BY DEF ListInv, ArrayInv
  <2>2. Compacted(store).length = n /\ p \in Nat
    BY <2>1, CompactedShows
  <2> QED BY <1>1, <2>1, <2>2, CompactStands
<1>3. ~Sorts(walk) /\ Shown = l /\ InProgress = <<>>
  BY <1>1, ShownIs DEF Sorts
<1>4. Contract!Compares <=> ~(p < 2)
  BY <1>2, <1>3 DEF Contract!Compares
<1>10. Live(store)' = Live(store')
  BY DEF Live
<1> HIDE DEF l, p, n
<1>5. CASE p < 2
  <2>1. walk' = <<>> /\ ~Sorts(walk')
    BY <1>1, <1>5 DEF Sorts
  <2>2. Shown' = Live(store') /\ InProgress' = <<>>
    BY <2>1, ShownIs
  <2>3. Contract!Rearranged(l, Live(store')) /\ Contract!HolesLast(Live(store'))
    BY <1>2, StandsSorted
  <2>4. Contract!SortEnds
    BY <1>1, <1>3, <1>4, <1>5, <2>2, <2>3 DEF Contract!SortEnds
  <2>5. ListInv'
    BY <1>2, <2>1 DEF ListInv, n
  <2> QED BY <2>4, <2>5 DEF Contract!Next
<1>6. CASE ~(p < 2)
  <2> DEFINE x == Merging(w, Merges(p))
  <2>1. x.method = "sort" /\ x.before = l /\ Len(x.scratch) = p
    BY <1>1 DEF Merging, SortState
  <2> HIDE DEF x
  <2>2. walk' = <<x>> /\ walk'[1] = x
    BY <1>1, <1>6 DEF x
  <2>3. Sorts(walk') /\ InProgress' = Contract!Sorting /\ Shown' = l
    BY <2>1, <2>2 DEF Sorts, InProgress, Shown, Contract!Sorting
  <2>4. Contract!SortBegins
    BY <1>1, <1>3, <1>4, <1>6, <2>3 DEF Contract!SortBegins
  <2>5. SortShows(walk[1], store)'
    <3>1. Len(Contract!Present(l)) > 1
      BY <1>2, <1>6 DEF p
    <3>2. Standing(l, Live(store'), store'.length, Len(x.scratch))
      BY <1>2, <2>1
    <3> QED BY <1>10, <2>1, <2>2, <3>1, <3>2 DEF SortShows
  <2>6. ListInv'
    BY <1>2, <2>2, <2>1, <2>5 DEF ListInv, n
  <2> QED BY <2>4, <2>6 DEF Contract!Next
<1> QED BY <1>5, <1>6

\* A sort places one more element, which the standard does not see, or ends.
LEMMA MergeMaps ==
  ASSUME ListInv, ArrayInv', Merge
  PROVE  Contract!Next /\ ListInv'
<1> DEFINE w == walk[1]
           p == Len(w.scratch)
           n == store.length
<1>1. Sorts(walk) /\ answer' = <<>> /\ walk # <<>> /\ w.method = "sort"
  BY DEF Merge, Sorts
<1>2. /\ store'.length = n
      /\ \E g : Reorders(g, Live(store), Live(store'), n) /\ Trades(g, n, p)
      /\ walk' # <<>> => walk'[1].method = "sort" /\ walk'[1].before = w.before /\ Len(walk'[1].scratch) = p
  BY MergeKeeps DEF ListInv
<1>3. Standing(w.before, Live(store), n, p) /\ Len(Contract!Present(w.before)) > 1
  BY <1>1 DEF ListInv, SortShows
<1>4. InProgress = Contract!Sorting /\ Shown = w.before
  BY <1>1 DEF InProgress, Shown, Contract!Sorting
<1>5. Standing(w.before, Live(store'), n, p)
  BY <1>2, <1>3, StandingOn
<1>10. Live(store)' = Live(store')
  BY DEF Live
<1> HIDE DEF n, p, w
<1>6. CASE walk' = <<>>
  <2>1. ~Sorts(walk')
    BY <1>6 DEF Sorts
  <2>2. Shown' = Live(store') /\ InProgress' = <<>>
    BY <1>6, <2>1, ShownIs
  <2>3. Contract!Rearranged(w.before, Live(store')) /\ Contract!HolesLast(Live(store'))
    <3>1. p \in Nat
      BY <1>1, SortIs DEF ListInv, p, w
    <3> QED BY <1>5, <3>1, StandsSorted
  <2>4. Contract!Compares
    BY <1>3, <1>4 DEF Contract!Compares
  <2>5. Contract!SortEnds
    BY <1>1, <1>4, <2>2, <2>3, <2>4 DEF Contract!SortEnds
  <2>6. ListInv'
    BY <1>2, <1>6, <2>1 DEF ListInv, n
  <2> QED BY <2>5, <2>6 DEF Contract!Next
<1>7. CASE walk' # <<>>
  <2>1. Sorts(walk') /\ walk'[1].before = w.before /\ Len(walk'[1].scratch) = p
    BY <1>2, <1>7 DEF Sorts
  <2>2. InProgress' = InProgress /\ Shown' = Shown
    BY <1>1, <1>4, <2>1 DEF InProgress, Shown, Sorts, Contract!Sorting
  <2>3. Contract!Taken
    BY <1>1, <2>2 DEF Contract!Taken
  <2>4. SortShows(walk[1], store)'
    BY <1>2, <1>3, <1>5, <1>10, <2>1 DEF SortShows
  <2>5. ListInv'
    BY <1>2, <2>1, <2>4 DEF ListInv, Sorts, n
  <2> QED BY <2>3, <2>5 DEF Contract!Next
<1> QED BY <1>6, <1>7

-----------------------------------------------------------------------------
(* The theorems.                                                           *)

\* Literals and arrays of a given length are within the bound.
LEMMA ListStarts == Init => ListInv /\ Contract!Init
<1> SUFFICES ASSUME Init PROVE ListInv /\ Contract!Init
  OBVIOUS
<1>1. MaxLength \in Nat
  BY WalkAssumption
<1>2. ArrayInv
  BY ArrayStarts
<1>3. ASSUME NEW items \in Literals PROVE NewArray(items).length <= MaxLength
  <2>1. PICK n \in 0 .. MaxLength : items \in [1 .. n -> Given]
    BY DEF Literals
  <2>2. Len(items) = n
    BY <1>1, <2>1
  <2> QED BY <1>1, <2>2 DEF NewArray
<1>4. ASSUME NEW n \in 0 .. MaxLength PROVE Holes(n).length <= MaxLength
  <2>1. n \in Nat /\ n <= MaxLength
    BY <1>1
  <2>2. Holes(n).length = n
    <3>1. Fits(Holes(n)) /\ Live(Holes(n)) = [k \in 1 .. n |-> Hole]
      BY <2>1, HolesShows DEF Shows
    <3>2. Holes(n).length \in Nat /\ 1 .. Holes(n).length = 1 .. n
      BY <3>1, FitsParts, LiveIs
    <3> QED BY <2>1, <3>2
  <2> QED BY <2>1, <2>2
<1>5. store.length <= MaxLength /\ walk = <<>> /\ answer = <<>>
  BY <1>3, <1>4 DEF Init
<1>7. ~Sorts(walk) /\ Shown = Live(store) /\ InProgress = <<>>
  BY <1>5, ShownIs DEF Sorts
<1>6. Live(store) \in Seq(Contract!Elements)
  <2>1. Live(store) \in Seq(Cell)
    BY <1>2, LiveIs DEF ArrayInv
  <2> QED BY <2>1 DEF Contract!Elements, Cell
<1> QED BY <1>2, <1>5, <1>6, <1>7 DEF ListInv, Contract!Init

\* Every step is the standard's, or changes nothing it knows of, or gives up a sort.
LEMMA ListSteps ==
  ASSUME ListInv, ArrayInv', ~FindsShorten, [Next]_vars
  PROVE  (Contract!Next \/ SortAbandoned \/ UNCHANGED Contract!vars) /\ ListInv'
<1>1. CASE UNCHANGED vars
  <2>1. Shown' = Shown /\ InProgress' = InProgress /\ answer' = answer
    BY <1>1 DEF vars, Shown, Live, InProgress
  <2>2. ListInv'
    BY <1>1 DEF vars, ListInv
  <2> QED BY <2>1, <2>2 DEF Contract!vars
<1>2. CASE Next
  BY <1>2, TakenMaps, ChangeMaps, CallMaps, ReturnMaps, ThrowMaps, SortStarts, MergeMaps DEF Next
<1> QED BY <1>1, <1>2

\* Unless the callback of a find shortens the array, the builtins are ECMA-262's:
\* every step, whatever its callbacks change, is a step the standard allows or one it
\* does not see; a sort is not seen until it ends. The one step that is not the
\* standard's is SortAbandoned, a comparator that throws: even then the elements are
\* those the sort began with, the absent ones last.
THEOREM ListImplemented ==
  ASSUME ~FindsShorten
  PROVE  Spec => ImplementsList
<1>1. ListInv /\ ArrayInv' /\ [Next]_vars =>
        [Contract!Next \/ SortAbandoned]_(Contract!vars) /\ ListInv'
  BY ListSteps
<1> QED BY <1>1, ListStarts, ArrayInvariance, PTL DEF Spec, ImplementsList

-----------------------------------------------------------------------------
(* The builtins that only read.                                            *)

\* An argument, as either module takes it.
LEMMA IntegerIs ==
  ASSUME NEW v \in Argument, NEW absent \in Int
  PROVE  /\ Contract!Integer(v, absent) = IntOrInf(v, absent) /\ IntOrInf(v, absent) \in Int
         /\ v \in Numbers
<1>1. v \in Numbers
  BY ArgumentIs
<1>2. /\ IntOrInf(v, absent) \in Int
      /\ IntOrInf(v, absent) = IF v = Undefined THEN absent ELSE IF v = NaN THEN 0 ELSE v
  BY <1>1, IntOrInfIs
<1> QED BY <1>1, <1>2 DEF Contract!Integer

\* What the program meets at any index.
LEMMA GetIs ==
  ASSUME Fits(store), NEW k \in Int
  PROVE  Contract!Get(Live(store), k) =
           IF k < 0 \/ k >= store.length THEN Undefined ELSE Unhole(store.elements[k + 1])
<1>1. Len(Live(store)) = store.length /\ store.length \in Nat
  BY LiveIs, FitsParts
<1>2. CASE k < 0 \/ k >= store.length
  <2>1. k \notin 0 .. Len(Live(store)) - 1
    BY <1>1, <1>2
  <2> QED BY <1>2, <2>1 DEF Contract!Get
<1>3. CASE ~(k < 0 \/ k >= store.length)
  <2>1. k \in Nat /\ k < store.length
    BY <1>1, <1>3
  <2> QED BY <1>3, <2>1, MeetsIs
<1> QED BY <1>2, <1>3

\* at.
LEMMA AtIs ==
  ASSUME Fits(store), NEW i \in Argument
  PROVE  At(store, i) = Contract!GetAt(Live(store), i)
<1> DEFINE v == IntOrInf(i, 0)
           n == store.length
           k == IF v < 0 THEN v + n ELSE v
           q == IF v < 0 THEN n + v ELSE v
<1>1. n \in Nat /\ Len(Live(store)) = n /\ v \in Int /\ Contract!Integer(i, 0) = v
  BY FitsParts, LiveIs, IntegerIs
<1>2. Contract!GetAt(Live(store), i) = Contract!Get(Live(store), q)
  BY <1>1 DEF Contract!GetAt
<1>3. At(store, i) = IF k < 0 \/ k >= n THEN Undefined ELSE Unhole(store.elements[k + 1])
  BY DEF At
<1> HIDE DEF v
<1>4. k \in Int /\ q = k
  BY <1>1
<1> HIDE DEF k, q
<1> QED BY <1>2, <1>3, <1>4, GetIs DEF n

\* Where a value is found: the indices of either module.
LEMMA PositionsAre ==
  ASSUME Fits(store), NEW v \in Given
  PROVE  Contract!Positions(Live(store), v) = {i \in 0 .. store.length - 1 : store.elements[i + 1] = v}
<1> DEFINE l == Live(store)
           n == store.length
<1>1. n \in Nat /\ Len(l) = n
  BY FitsParts, LiveIs
<1>2. v # Hole
  BY UndefinedAssumption, HoleAssumption DEF Given
<1>3. ASSUME NEW i \in 0 .. n - 1
      PROVE  Contract!HasProperty(l, i) /\ Contract!Get(l, i) = v <=> store.elements[i + 1] = v
  <2>1. i \in Nat /\ i < n
    BY <1>1
  <2>2. /\ Contract!HasProperty(l, i) <=> store.elements[i + 1] # Hole
        /\ Contract!Get(l, i) = Unhole(store.elements[i + 1])
    BY <2>1, MeetsIs DEF IndexPresent
  <2> QED BY <1>2, <2>2 DEF Unhole, Given
<1> HIDE DEF l, n
<1> QED BY <1>1, <1>3 DEF Contract!Positions, l, n

\* indexOf.
LEMMA IndexOfIs ==
  ASSUME Fits(store), NEW v \in Given, NEW from \in Argument
  PROVE  IndexOf(store, v, from) = Contract!FirstIndexOf(Live(store), v, from)
<1> DEFINE n == store.length
           s == Start(from, n)
           hits == {i \in s .. n - 1 : store.elements[i + 1] = v}
           found == {i \in Contract!Positions(Live(store), v) : i >= Contract!Relative(from, 0, Len(Live(store)))}
<1>1. n \in Nat /\ Len(Live(store)) = n /\ s \in 0 .. n /\ s = Contract!Relative(from, 0, n)
  BY FitsParts, LiveIs, ArgumentIs, StartIs
<1>2. found = {i \in {j \in 0 .. n - 1 : store.elements[j + 1] = v} : i >= s}
  BY <1>1, PositionsAre
<1> HIDE DEF s, n
<1>3. found = hits /\ hits \subseteq Nat
  BY <1>1, <1>2
<1> HIDE DEF found, hits
<1>4. IndexOf(store, v, from) = IF hits = {} THEN -1 ELSE Least(hits)
  BY DEF IndexOf, hits, s, n
<1>5. Contract!FirstIndexOf(Live(store), v, from) = Contract!First(hits)
  BY <1>3 DEF Contract!FirstIndexOf, found
<1>6. CASE hits = {}
  <2>1. Contract!First({}) = -1
    BY DEF Contract!First
  <2> QED BY <1>4, <1>5, <1>6, <2>1
<1>7. CASE hits # {}
  <2>1. Min(hits) = Contract!First(hits)
    BY <1>3, <1>7, LeastIs
  <2>2. Min(hits) = Least(hits)
    BY DEF Min, Least
  <2> QED BY <1>4, <1>5, <1>7, <2>1, <2>2
<1> QED BY <1>6, <1>7

\* lastIndexOf.
LEMMA LastIndexOfIs ==
  ASSUME Fits(store), NEW v \in Given, NEW from \in Argument
  PROVE  LastIndexOf(store, v, from) = Contract!FinalIndexOf(Live(store), v, from)
<1> DEFINE len == store.length
           n == IntOrInf(from, 0)
           k == IF n >= 0 THEN n ELSE len + n
           q == IF n < 0 THEN len + n ELSE n
           top == IF k >= len THEN len - 1 ELSE k
           hits == {i \in 0 .. top : store.elements[i + 1] = v}
           found == {i \in Contract!Positions(Live(store), v) : i <= q}
<1>1. len \in Nat /\ Len(Live(store)) = len /\ n \in Int /\ Contract!Integer(from, 0) = n
  BY FitsParts, LiveIs, IntegerIs
<1>2. found = {i \in {j \in 0 .. len - 1 : store.elements[j + 1] = v} : i <= q}
  BY PositionsAre
<1>3. LastIndexOf(store, v, from) = IF hits = {} THEN -1 ELSE Greatest(hits)
  BY DEF LastIndexOf
<1>4. Contract!FinalIndexOf(Live(store), v, from) = Contract!Final(found)
  BY <1>1 DEF Contract!FinalIndexOf
<1> HIDE DEF n, len
<1>5. k \in Int /\ q = k /\ top \in Int /\ \A i \in Int : i <= top <=> i <= len - 1 /\ i <= k
  BY <1>1
<1> HIDE DEF k, q, top
<1>6. found = hits
  BY <1>1, <1>2, <1>5
<1>7. hits \subseteq 0 .. top
  OBVIOUS
<1> HIDE DEF found, hits
<1>8. CASE hits = {}
  <2>1. Contract!Final({}) = -1
    BY DEF Contract!Final
  <2> QED BY <1>3, <1>4, <1>6, <1>8, <2>1
<1>9. CASE hits # {}
  <2>1. Max(hits) = Contract!Final(hits)
    BY <1>5, <1>7, <1>9, GreatestIs
  <2>2. Max(hits) = Greatest(hits)
    BY DEF Max, Greatest
  <2> QED BY <1>3, <1>4, <1>6, <1>9, <2>1, <2>2
<1> QED BY <1>8, <1>9

\* includes.
LEMMA IncludesIs ==
  ASSUME Fits(store), NEW v \in Given, NEW from \in Argument
  PROVE  Includes(store, v, from) = Contract!Has(Live(store), v, from)
<1> DEFINE n == store.length
           s == Start(from, n)
<1>1. n \in Nat /\ Len(Live(store)) = n /\ s \in 0 .. n /\ s = Contract!Relative(from, 0, n)
  BY FitsParts, LiveIs, ArgumentIs, StartIs
<1> HIDE DEF s
<1>2. ASSUME NEW i \in s .. n - 1 PROVE Contract!Get(Live(store), i) = Unhole(store.elements[i + 1])
  <2>1. i \in Nat /\ i < n
    BY <1>1
  <2> QED BY <2>1, MeetsIs
<1>3. Includes(store, v, from) <=> \E i \in s .. n - 1 : Unhole(store.elements[i + 1]) = v
  BY DEF Includes, s
<1>4. Contract!Has(Live(store), v, from) <=> \E i \in s .. n - 1 : Contract!Get(Live(store), i) = v
  BY <1>1 DEF Contract!Has
<1>5. Includes(store, v, from) <=> Contract!Has(Live(store), v, from)
  BY <1>2, <1>3, <1>4
<1>6. Includes(store, v, from) \in BOOLEAN /\ Contract!Has(Live(store), v, from) \in BOOLEAN
  BY DEF Includes, Contract!Has
<1> QED BY <1>5, <1>6

\* slice.
LEMMA SliceIs ==
  ASSUME Fits(store), NEW i \in Argument, NEW j \in Argument
  PROVE  Slice(store, i, j) = Contract!Section(Live(store), i, j)
<1> DEFINE n == store.length
           l == Live(store)
           e == store.elements
           s == Start(i, n)
           t == End(j, n)
<1>1. /\ n \in Nat /\ l \in Seq(Cell) /\ Len(l) = n /\ e \in Seq(Cell) /\ n <= Len(e) /\ Len(e) \in Nat
      /\ \A k \in 1 .. n : l[k] = e[k]
  BY LiveIs, FitsParts
<1>2. /\ s \in 0 .. n /\ s = Contract!Relative(i, 0, n)
      /\ t \in 0 .. n /\ t = Contract!Relative(j, n, n)
  BY <1>1, ArgumentIs, StartIs, EndIs
<1>3. Slice(store, i, j) = SubSeq(e, s + 1, t) /\ Contract!Section(l, i, j) = SubSeq(l, s + 1, t)
  BY <1>1, <1>2 DEF Slice, Contract!Section
<1> HIDE DEF l, e, s, t, n
<1>4. s + 1 \in Int /\ t \in Int
  BY <1>1, <1>2
<1>5. \A k \in s + 1 .. t : k \in 1 .. n /\ e[k] \in Cell /\ l[k] \in Cell /\ e[k] = l[k]
  BY <1>1, <1>2
<1> DEFINE a == SubSeq(e, s + 1, t)
           b == SubSeq(l, s + 1, t)
           m == t - (s + 1) + 1
<1>6. a \in Seq(Cell) /\ Len(a) = (IF s + 1 <= t THEN m ELSE 0) /\ \A k \in 1 .. m : a[k] = e[s + 1 + k - 1]
  BY <1>4, <1>5, SubSeqProperties
<1>7. b \in Seq(Cell) /\ Len(b) = (IF s + 1 <= t THEN m ELSE 0) /\ \A k \in 1 .. m : b[k] = l[s + 1 + k - 1]
  BY <1>4, <1>5, SubSeqProperties
<1> HIDE DEF a, b
<1>8. \A k \in 1 .. Len(a) : a[k] = b[k]
  <2> TAKE k \in 1 .. Len(a)
  <2>1. k \in 1 .. m /\ s + 1 + k - 1 \in s + 1 .. t
    BY <1>4, <1>6
  <2> QED BY <1>5, <1>6, <1>7, <2>1
<1>9. a = b
  BY <1>6, <1>7, <1>8, SeqEqual
<1> QED BY <1>3, <1>9 DEF a, b, l

\* concat.
LEMMA ConcatIs ==
  ASSUME Fits(store)
  PROVE  Live(Concat(store, store)) = Live(store) \o Live(store)
<1>1. Live(store) \in Seq(Cell)
  BY LiveIs
<1>2. Fits(NewArray(Live(store))) /\ Live(NewArray(Live(store))) = Live(store)
  BY <1>1, NewArrayShows DEF Shows
<1> QED BY <1>1, <1>2, AppendAllShows DEF Shows, Concat

\* with, on an index the array has.
LEMMA WithIs ==
  ASSUME Fits(store), NEW i \in Argument, NEW v \in Value, At(store, i) # Undefined
  PROVE  With(store, i, v) = NewArray(Contract!Replaced(Live(store), i, v))
<1> DEFINE n == store.length
           l == Live(store)
           w == IntOrInf(i, 0)
           k == IF w < 0 THEN w + n ELSE w
           q == IF w < 0 THEN n + w ELSE w
           dense == [j \in 1 .. n |-> Unhole(store.elements[j])]
           cells == [dense EXCEPT ![k + 1] = v]
<1>1. /\ n \in Nat /\ Len(l) = n /\ DOMAIN l = 1 .. n /\ w \in Int /\ Contract!Integer(i, 0) = w
      /\ \A j \in 1 .. n : store.elements[j] \in Cell
  <2>1. n \in Nat /\ Len(l) = n /\ DOMAIN l = 1 .. n
    BY FitsParts, LiveIs
  <2>2. w \in Int /\ Contract!Integer(i, 0) = w
    BY IntegerIs
  <2>3. n <= Len(store.elements) /\ Len(store.elements) \in Nat
        /\ \A j \in 1 .. Len(store.elements) : store.elements[j] \in Cell
    BY FitsParts
  <2> HIDE DEF n
  <2>4. \A j \in 1 .. n : store.elements[j] \in Cell
    BY <2>1, <2>3
  <2> QED BY <2>1, <2>2, <2>4
<1>2. ~(k < 0 \/ k >= n)
  BY DEF At
<1>3. Contract!Dense(l) = dense
  <2>1. ASSUME NEW j \in 1 .. n PROVE Contract!Get(l, j - 1) = Unhole(store.elements[j])
    <3>1. j - 1 \in Nat /\ j - 1 < n /\ (j - 1) + 1 = j
      BY <1>1
    <3> QED BY <3>1, MeetsIs
  <2> QED BY <1>1, <2>1 DEF Contract!Dense
<1> HIDE DEF w
<1>4. k \in Int /\ q = k /\ k + 1 \in 1 .. n
  BY <1>1, <1>2
<1>5. Contract!Replaced(l, i, v) = cells
  BY <1>1, <1>3, <1>4 DEF Contract!Replaced
<1>6. \A j \in 1 .. n : Unhole(store.elements[j]) \in Cell
  BY <1>1 DEF Unhole, Cell
<1> HIDE DEF k
<1>7. dense \in [1 .. n -> Cell]
  BY <1>6
<1>8. v \in Cell
  BY DEF Cell
<1>9. dense \in Seq(Cell) /\ Len(dense) = n /\ dense # <<>>
  <2> HIDE DEF dense
  <2>1. dense \in Seq(Cell) /\ Len(dense) = n
    BY <1>1, <1>7, IsBuffer
  <2>2. n # 0
    BY <1>1, <1>4
  <2> QED BY <2>1, <2>2, EmptySeq
<1>10. cells \in [1 .. n -> Cell]
  <2> HIDE DEF dense
  <2> QED BY <1>7, <1>8
<1>11. cells \in Seq(Cell) /\ Len(cells) = n /\ cells # <<>>
  <2> HIDE DEF cells
  <2>1. cells \in Seq(Cell) /\ Len(cells) = n
    BY <1>1, <1>10, IsBuffer
  <2>2. n # 0
    BY <1>1, <1>4
  <2> QED BY <2>1, <2>2, EmptySeq
<1>12. DenseCopy(store) = [length |-> n, elements |-> dense]
  BY <1>9 DEF DenseCopy, NewArray
<1>13. With(store, i, v) = [DenseCopy(store) EXCEPT !.elements[k + 1] = v]
  BY DEF With, k, w
<1> HIDE DEF dense
<1>14. With(store, i, v) = [length |-> n, elements |-> cells]
  BY <1>12, <1>13
<1> HIDE DEF cells
<1>15. NewArray(cells) = [length |-> n, elements |-> cells]
  BY <1>11 DEF NewArray
<1> QED BY <1>5, <1>14, <1>15 DEF l

\* Every read, on every array a step leaves.
LEMMA ReadsAgree == ArrayInv => ReadsExact
<1> SUFFICES ASSUME ArrayInv PROVE ReadsExact
  OBVIOUS
<1>1. Fits(store) /\ Live(store) \in Seq(Cell)
  BY LiveIs DEF ArrayInv
<1>2. \A i \in Argument :
        /\ At(store, i) = Contract!GetAt(Live(store), i)
        /\ \A v \in Given :
             /\ IndexOf(store, v, i) = Contract!FirstIndexOf(Live(store), v, i)
             /\ LastIndexOf(store, v, i) = Contract!FinalIndexOf(Live(store), v, i)
             /\ Includes(store, v, i) = Contract!Has(Live(store), v, i)
        /\ \A v \in Value :
             At(store, i) # Undefined => With(store, i, v) = NewArray(Contract!Replaced(Live(store), i, v))
        /\ \A j \in Argument : Slice(store, i, j) = Contract!Section(Live(store), i, j)
  BY <1>1, AtIs, IndexOfIs, LastIndexOfIs, WithIs, IncludesIs, SliceIs
<1>3. Live(Concat(store, store)) = Live(store) \o Live(store)
  BY <1>1, ConcatIs
<1>4. Flattened(Live(store)) = Contract!Present(Live(store))
  BY <1>1, FlattenedExact
<1> QED BY <1>2, <1>3, <1>4 DEF ReadsExact

\* The builtins that only read, relative positions and absent indices included, give
\* what ECMA-262's give on every array the other builtins leave.
THEOREM ReadsKept == Spec => []ReadsExact
  BY ArrayInvariance, ReadsAgree, PTL

-----------------------------------------------------------------------------
(* The merges in order: those inside the halves of a merge come before it. *)

\* A merge that comes before another is beside it or inside one of its halves.
Beside(q, r) ==
  \/ q.hi <= r.lo \/ r.hi <= q.lo
  \/ r.lo <= q.lo /\ q.hi <= r.mid
  \/ r.mid <= q.lo /\ q.hi <= r.hi

\* A run that needs no merge, or is what one of the first t of them merges.
Made(M, t, lo, hi) == hi - lo < 2 \/ \E j \in 1 .. t : M[j].lo = lo /\ M[j].hi = hi

\* The merges of the run from lo to hi: each finds its halves merged, and leaves the
\* later ones theirs; the last merges the run.
PostOrder(M, lo, hi) ==
  /\ \A t \in 1 .. Len(M) : lo <= M[t].lo /\ M[t].hi <= hi
  /\ \A t \in 1 .. Len(M) : \A j \in 1 .. t - 1 : Beside(M[j], M[t])
  /\ \A t \in 1 .. Len(M) : Made(M, t - 1, M[t].lo, M[t].mid) /\ Made(M, t - 1, M[t].mid, M[t].hi)
  /\ hi - lo < 2 \/ (Len(M) > 0 /\ M[Len(M)].lo = lo /\ M[Len(M)].hi = hi)

\* Two halves in order, then their merge.
LEMMA PostOrderJoins ==
  ASSUME NEW p \in Nat, NEW r \in MergesOf(p),
         NEW A \in Seq(MergesOf(p)), NEW B \in Seq(MergesOf(p)),
         PostOrder(A, r.lo, r.mid), PostOrder(B, r.mid, r.hi)
  PROVE  PostOrder(A \o B \o <<r>>, r.lo, r.hi)
<1> DEFINE X == MergesOf(p)
           M == A \o B \o <<r>>
           la == Len(A)
           lb == Len(B)
           n == la + lb + 1
<1>1. /\ la \in Nat /\ lb \in Nat
      /\ r.lo \in Nat /\ r.mid \in Nat /\ r.hi \in Nat /\ r.lo < r.mid /\ r.mid < r.hi
  BY MergeIs
<1>2. /\ Len(M) = n /\ \A t \in 1 .. n : M[t] = IF t <= la THEN A[t] ELSE IF t <= la + lb THEN B[t - la] ELSE r
  <2> DEFINE h == A \o B
  <2>1. /\ h \in Seq(X) /\ Len(h) = la + lb
        /\ \A t \in 1 .. la + lb : h[t] = IF t <= la THEN A[t] ELSE B[t - la]
    <3> HIDE DEF X
    <3>1. A \in Seq(X) /\ B \in Seq(X)
      BY DEF X
    <3> QED BY <3>1, ConcatProperties
  <2>2. <<r>> \in Seq(X) /\ Len(<<r>>) = 1 /\ <<r>>[1] = r
    OBVIOUS
  <2> HIDE DEF h, X, n, la, lb
  <2>3. Len(h \o <<r>>) = la + lb + 1
    BY <2>1, <2>2, ConcatProperties
  <2>4. \A t \in 1 .. la + lb + 1 : (h \o <<r>>)[t] = IF t <= la + lb THEN h[t] ELSE <<r>>[t - (la + lb)]
    BY <2>1, <2>2, ConcatProperties
  <2>5. ASSUME NEW t \in 1 .. la + lb + 1
        PROVE  (h \o <<r>>)[t] = IF t <= la THEN A[t] ELSE IF t <= la + lb THEN B[t - la] ELSE r
    <3>1. CASE t <= la + lb
      <4>1. t \in 1 .. la + lb
        BY <1>1, <3>1
      <4> QED BY <2>1, <2>4, <3>1, <4>1
    <3>2. CASE ~(t <= la + lb)
      <4>1. t = la + lb + 1 /\ t - (la + lb) = 1 /\ ~(t <= la)
        BY <1>1, <3>2
      <4> QED BY <2>2, <2>4, <3>2, <4>1
    <3> QED BY <3>1, <3>2
  <2> QED BY <2>3, <2>5 DEF h, n
<1> DEFINE InA(t) == t \in 1 .. la
           InB(t) == t - la \in 1 .. lb
<1>3. \A t \in 1 .. n : \/ t \in 1 .. la /\ M[t] = A[t]
                        \/ t - la \in 1 .. lb /\ t > la /\ M[t] = B[t - la]
                        \/ t = n /\ M[t] = r
  <2> HIDE DEF M
  <2> TAKE t \in 1 .. n
  <2>1. CASE t <= la
    BY <1>1, <1>2, <2>1
  <2>2. CASE ~(t <= la) /\ t <= la + lb
    BY <1>1, <1>2, <2>2
  <2>3. CASE ~(t <= la + lb)
    <3>1. ~(t <= la) /\ t = n
      BY <1>1, <2>3
    <3> QED BY <1>2, <2>3, <3>1
  <2> QED BY <2>1, <2>2, <2>3
<1>4. /\ \A t \in 1 .. la : t \in 1 .. n /\ M[t] = A[t]
      /\ \A t \in 1 .. lb : la + t \in 1 .. n /\ la + t > la /\ (la + t) - la = t /\ M[la + t] = B[t]
      /\ n \in 1 .. n /\ M[n] = r
  <2> HIDE DEF M
  <2>1. ASSUME NEW t \in 1 .. lb PROVE la + t \in 1 .. n /\ la + t > la /\ (la + t) - la = t /\ M[la + t] = B[t]
    <3>1. la + t \in 1 .. n /\ la + t > la /\ (la + t) - la = t /\ ~(la + t <= la) /\ la + t <= la + lb
      BY <1>1
    <3> QED BY <1>2, <3>1
  <2>2. \A t \in 1 .. la : t \in 1 .. n /\ M[t] = A[t]
    BY <1>1, <1>2
  <2>3. n \in 1 .. n /\ ~(n <= la) /\ ~(n <= la + lb)
    BY <1>1
  <2> QED BY <1>2, <2>1, <2>2, <2>3
<1>5. /\ \A t \in 1 .. la : A[t] \in X /\ A[t].lo \in Nat /\ A[t].mid \in Nat /\ A[t].hi \in Nat /\ A[t].lo < A[t].mid /\ A[t].mid < A[t].hi
      /\ \A t \in 1 .. lb : B[t] \in X /\ B[t].lo \in Nat /\ B[t].mid \in Nat /\ B[t].hi \in Nat /\ B[t].lo < B[t].mid /\ B[t].mid < B[t].hi
  <2>1. (\A t \in 1 .. la : A[t] \in X) /\ \A t \in 1 .. lb : B[t] \in X
    OBVIOUS
  <2> HIDE DEF X, la, lb
  <2> QED BY <2>1, MergeIs DEF X
<1>6. /\ \A t \in 1 .. la : r.lo <= A[t].lo /\ A[t].hi <= r.mid
      /\ \A t \in 1 .. lb : r.mid <= B[t].lo /\ B[t].hi <= r.hi
  BY DEF PostOrder
<1> HIDE DEF M, X
<1>7. \A t \in 1 .. n : r.lo <= M[t].lo /\ M[t].hi <= r.hi
  <2> TAKE t \in 1 .. n
  <2>1. CASE t \in 1 .. la /\ M[t] = A[t]
    <3>1. M[t].lo \in Nat /\ M[t].hi \in Nat /\ r.lo <= M[t].lo /\ M[t].hi <= r.mid
      BY <1>5, <1>6, <2>1
    <3> QED BY <1>1, <3>1
  <2>2. CASE t - la \in 1 .. lb /\ M[t] = B[t - la]
    <3>1. M[t].lo \in Nat /\ M[t].hi \in Nat /\ r.mid <= M[t].lo /\ M[t].hi <= r.hi
      BY <1>5, <1>6, <2>2
    <3> QED BY <1>1, <3>1
  <2>3. CASE M[t] = r
    BY <1>1, <2>3
  <2> QED BY <1>3, <2>1, <2>2, <2>3
<1>8. ASSUME NEW t \in 1 .. n, NEW j \in 1 .. t - 1 PROVE Beside(M[j], M[t])
  <2>0. j \in 1 .. n /\ j < t /\ la \in Int /\ lb \in Int
    BY <1>1
  <2>1. CASE t \in 1 .. la /\ M[t] = A[t]
    <3>1. j \in 1 .. la
      BY <2>0, <2>1
    <3>2. M[j] = A[j]
      BY <1>4, <3>1
    <3>3. Beside(A[j], A[t])
      BY <2>1 DEF PostOrder
    <3> QED BY <2>1, <3>2, <3>3
  <2>2. CASE t - la \in 1 .. lb /\ M[t] = B[t - la]
    <3>1. CASE j \in 1 .. la /\ M[j] = A[j]
      <4>1. M[j].hi \in Nat /\ M[j].hi <= r.mid
        BY <1>5, <1>6, <3>1
      <4>2. M[t].lo \in Nat /\ r.mid <= M[t].lo
        BY <1>5, <1>6, <2>2
      <4>3. M[j].hi <= M[t].lo
        BY <1>1, <4>1, <4>2
      <4> QED BY <4>3 DEF Beside
    <3>2. CASE j - la \in 1 .. lb /\ M[j] = B[j - la]
      <4>1. j - la \in 1 .. (t - la) - 1
        BY <2>0, <3>2
      <4>2. Beside(B[j - la], B[t - la])
        BY <2>2, <4>1 DEF PostOrder
      <4> QED BY <2>2, <3>2, <4>2
    <3>3. CASE j = n
      BY <2>0, <3>3
    <3> QED BY <1>3, <2>0, <3>1, <3>2, <3>3
  <2>3. CASE t = n /\ M[t] = r
    <3>1. CASE j \in 1 .. la /\ M[j] = A[j]
      BY <1>6, <2>3, <3>1 DEF Beside
    <3>2. CASE j - la \in 1 .. lb /\ M[j] = B[j - la]
      BY <1>6, <2>3, <3>2 DEF Beside
    <3>3. CASE j = n
      BY <2>0, <2>3, <3>3
    <3> QED BY <1>3, <2>0, <3>1, <3>2, <3>3
  <2> QED BY <1>3, <2>1, <2>2, <2>3
<1>9. ASSUME NEW t \in 1 .. la, NEW lo, NEW hi, Made(A, t - 1, lo, hi) PROVE Made(M, t - 1, lo, hi)
  <2> USE <1>9 DEF Made
  <2>1. CASE hi - lo < 2
    BY <2>1
  <2>2. CASE ~(hi - lo < 2)
    <3>1. PICK j \in 1 .. t - 1 : A[j].lo = lo /\ A[j].hi = hi
      BY <2>2
    <3>2. j \in 1 .. la
      BY <1>1, <3>1
    <3> QED BY <1>4, <3>1, <3>2
  <2> QED BY <2>1, <2>2
<1>10. ASSUME NEW t \in 1 .. lb, NEW lo, NEW hi, Made(B, t - 1, lo, hi) PROVE Made(M, (la + t) - 1, lo, hi)
  <2> USE <1>10 DEF Made
  <2>1. CASE hi - lo < 2
    BY <2>1
  <2>2. CASE ~(hi - lo < 2)
    <3>1. PICK j \in 1 .. t - 1 : B[j].lo = lo /\ B[j].hi = hi
      BY <2>2
    <3>2. j \in 1 .. lb /\ la + j \in 1 .. (la + t) - 1
      BY <1>1, <3>1
    <3> QED BY <1>4, <3>1, <3>2
  <2> QED BY <2>1, <2>2
<1>11. Made(M, n - 1, r.lo, r.mid) /\ Made(M, n - 1, r.mid, r.hi)
  <2>1. ASSUME ~(r.mid - r.lo < 2) PROVE la \in 1 .. n - 1 /\ M[la].lo = r.lo /\ M[la].hi = r.mid
    <3>1. la > 0 /\ A[la].lo = r.lo /\ A[la].hi = r.mid
      BY <2>1 DEF PostOrder
    <3>2. la \in 1 .. la /\ la \in 1 .. n - 1
      BY <1>1, <3>1
    <3> QED BY <1>4, <3>1, <3>2
  <2>2. ASSUME ~(r.hi - r.mid < 2) PROVE la + lb \in 1 .. n - 1 /\ M[la + lb].lo = r.mid /\ M[la + lb].hi = r.hi
    <3>1. lb > 0 /\ B[lb].lo = r.mid /\ B[lb].hi = r.hi
      BY <2>2 DEF PostOrder
    <3>2. lb \in 1 .. lb /\ la + lb \in 1 .. n - 1
      BY <1>1, <3>1
    <3> QED BY <1>4, <3>1, <3>2
  <2> QED BY <2>1, <2>2 DEF Made
<1>12. ASSUME NEW t \in 1 .. n
       PROVE  Made(M, t - 1, M[t].lo, M[t].mid) /\ Made(M, t - 1, M[t].mid, M[t].hi)
  <2>1. CASE t \in 1 .. la /\ M[t] = A[t]
    <3>1. Made(A, t - 1, A[t].lo, A[t].mid) /\ Made(A, t - 1, A[t].mid, A[t].hi)
      BY <2>1 DEF PostOrder
    <3> QED BY <1>9, <2>1, <3>1
  <2>2. CASE t - la \in 1 .. lb /\ M[t] = B[t - la]
    <3> DEFINE s == t - la
    <3>1. Made(B, s - 1, B[s].lo, B[s].mid) /\ Made(B, s - 1, B[s].mid, B[s].hi) /\ s \in 1 .. lb
      BY <2>2 DEF PostOrder
    <3>2. la + s = t
      BY <1>1
    <3> HIDE DEF s
    <3>3. Made(M, (la + s) - 1, B[s].lo, B[s].mid) /\ Made(M, (la + s) - 1, B[s].mid, B[s].hi)
      BY <1>10, <3>1
    <3> QED BY <2>2, <3>2, <3>3 DEF s
  <2>3. CASE t = n /\ M[t] = r
    BY <1>11, <2>3
  <2> QED BY <1>3, <2>1, <2>2, <2>3
<1>13. n > 0 /\ M[n].lo = r.lo /\ M[n].hi = r.hi
  BY <1>1, <1>4
<1> HIDE DEF n, la, lb
<1> QED BY <1>2, <1>7, <1>8, <1>12, <1>13 DEF PostOrder, M

\* The merges of a sort are in order.
LEMMA MergesOrder ==
  ASSUME NEW p \in Nat
  PROVE  PostOrder(Merges(p), 0, p)
<1> DEFINE R == Runs(p)
           Defines(of) == of = [run \in R |-> Halves(of, run)]
           g == CHOOSE of : Defines(of)
           Good(m, run) == m \in Seq(MergesOf(p)) /\ PostOrder(m, run[1], run[2])
<1>1. Defines(g)
  BY MergesDefined
<1>2. Merges(p) = g[<<0, p>>]
  BY DEF Merges, Halves, Runs
<1>3. \A run \in R : g[run] = Halves(g, run)
  <2> HIDE DEF g
  <2> QED BY <1>1
<1> HIDE DEF g, Defines
<1> DEFINE S == {d \in 0 .. p : \A run \in R : run[2] - run[1] <= d => Good(g[run], run)}
<1>4. ASSUME NEW d \in 0 .. p, NEW run \in R, run[2] - run[1] <= d,
             d # 0 => d - 1 \in S
      PROVE  Good(g[run], run)
  <2> DEFINE mid == Middle(run[1], run[2])
             x == <<run[1], mid>>
             y == <<mid, run[2]>>
             r == [lo |-> run[1], mid |-> mid, hi |-> run[2]]
  <2>1. CASE ~(run[2] - run[1] < 2)
    <3>1. /\ x \in R /\ y \in R /\ mid \in 0 .. p /\ run[1] \in Int /\ run[2] \in Int
          /\ mid - run[1] < run[2] - run[1] /\ run[2] - mid < run[2] - run[1]
          /\ r \in MergesOf(p)
      <4>1. run[1] \in Int /\ run[2] \in Int
        BY DEF Runs
      <4> QED BY <2>1, <4>1, MiddleIs
    <3>2. d # 0 /\ x[2] - x[1] <= d - 1 /\ y[2] - y[1] <= d - 1
      <4> HIDE DEF mid
      <4> QED BY <1>4, <2>1, <3>1
    <3>3. Good(g[x], x) /\ Good(g[y], y)
      <4> HIDE DEF x, y, Good
      <4> QED BY <1>4, <3>1, <3>2
    <3>4. g[run] = g[x] \o g[y] \o <<r>>
      BY <1>3, <2>1 DEF Halves
    <3>5. PostOrder(g[x], r.lo, r.mid) /\ PostOrder(g[y], r.mid, r.hi) /\ r.lo = run[1] /\ r.hi = run[2]
      BY <3>3
    <3> HIDE DEF x, y, mid
    <3>6. PostOrder(g[run], run[1], run[2])
      <4>1. g[x] \in Seq(MergesOf(p)) /\ g[y] \in Seq(MergesOf(p))
        BY <3>3
      <4> HIDE DEF r
      <4> QED BY <3>1, <3>4, <3>5, <4>1, PostOrderJoins
    <3>7. g[run] \in Seq(MergesOf(p))
      BY <1>3, <2>1, <3>3, HalvesAre DEF x, y, mid
    <3> QED BY <3>6, <3>7
  <2>2. CASE run[2] - run[1] < 2
    <3>1. g[run] = <<>>
      BY <1>3, <2>2 DEF Halves
    <3>2. <<>> \in Seq(MergesOf(p)) /\ Len(<<>>) = 0 /\ 1 .. 0 = {}
      BY EmptySeq
    <3> QED BY <2>2, <3>1, <3>2 DEF PostOrder
  <2> QED BY <2>1, <2>2
<1> HIDE DEF Good
<1>5. 0 \in S
  <2> SUFFICES ASSUME NEW run \in R, run[2] - run[1] <= 0 PROVE Good(g[run], run)
    OBVIOUS
  <2> HIDE DEF S
  <2> QED BY <1>4
<1>6. ASSUME NEW d \in 0 .. (p - 1), d \in S PROVE d + 1 \in S
  <2>1. d + 1 \in 0 .. p /\ (d + 1) - 1 = d
    OBVIOUS
  <2> SUFFICES ASSUME NEW run \in R, run[2] - run[1] <= d + 1 PROVE Good(g[run], run)
    BY <2>1
  <2> HIDE DEF S
  <2> QED BY <1>4, <1>6, <2>1
<1>7. \A d \in 0 .. p : d \in S
  <2> HIDE DEF S
  <2> QED BY <1>5, <1>6, UpTo
<1> DEFINE run == <<0, p>>
<1>8. run \in R /\ run[1] = 0 /\ run[2] = p /\ p \in 0 .. p
  BY DEF Runs
<1>9. Good(g[run], run)
  <2>1. run[2] - run[1] <= p
    BY <1>8
  <2>2. p # 0 => p - 1 \in S
    <3>1. p # 0 => p - 1 \in 0 .. p
      OBVIOUS
    <3> QED BY <1>7, <3>1
  <2> HIDE DEF run, S
  <2> QED BY <1>4, <1>8, <2>1, <2>2
<1> QED BY <1>2, <1>9 DEF Good

-----------------------------------------------------------------------------
(* The order a sort leaves: by rank, and equal ranks as they stood.        *)

Before(rk, i, j) == rk[i] < rk[j] \/ (rk[i] = rk[j] /\ i < j)
OrderedRun(rk, g, lo, hi) == \A i, j \in lo + 1 .. hi : i < j => Before(rk, g[i], g[j])

\* A strict total order.
LEMMA BeforeOrders ==
  ASSUME NEW n \in Nat, NEW rk \in [1 .. n -> Int]
  PROVE  /\ \A i \in 1 .. n : ~Before(rk, i, i)
         /\ \A i, j \in 1 .. n : ~(Before(rk, i, j) /\ Before(rk, j, i))
         /\ \A i, j, k \in 1 .. n : Before(rk, i, j) /\ Before(rk, j, k) => Before(rk, i, k)
         /\ \A i, j \in 1 .. n : i < j /\ rk[i] <= rk[j] => Before(rk, i, j)
         /\ \A i, j \in 1 .. n : rk[i] < rk[j] => Before(rk, i, j)
<1>1. \A i \in 1 .. n : rk[i] \in Int /\ i \in Int
  OBVIOUS
<1> QED BY <1>1 DEF Before

\* u lists cells of a run in order, all before those of the run that are left.
Weaves(u, rk, g, lo, k, hi, rest) ==
  /\ u \in [lo + 1 .. k -> DOMAIN g]
  /\ \A i \in lo + 1 .. k : \E q \in lo + 1 .. hi : u[i] = g[q]
  /\ OrderedRun(rk, u, lo, k)
  /\ \A i \in lo + 1 .. k, q \in rest : Before(rk, u[i], g[q])

\* One more cell is listed.
Longer(u, g, lo, k, from) == [i \in lo + 1 .. k + 1 |-> IF i = k + 1 THEN g[from] ELSE u[i]]

\* The next cell is the first of those left.
LEMMA WeavesOn ==
  ASSUME NEW n \in Nat, NEW rk, NEW g \in [1 .. n -> 1 .. n],
         NEW lo \in Nat, NEW k \in Nat, NEW hi \in Nat, lo <= k, hi <= n,
         NEW rest \in SUBSET (lo + 1 .. hi), NEW from \in rest,
         \A q \in rest : q # from => Before(rk, g[from], g[q]),
         NEW u, Weaves(u, rk, g, lo, k, hi, rest)
  PROVE  Weaves(Longer(u, g, lo, k, from), rk, g, lo, k + 1, hi, rest \ {from})
<1> DEFINE v == Longer(u, g, lo, k, from)
<1>1. /\ u \in [lo + 1 .. k -> 1 .. n]
      /\ \A i \in lo + 1 .. k : \E q \in lo + 1 .. hi : u[i] = g[q]
      /\ \A i, j \in lo + 1 .. k : i < j => Before(rk, u[i], u[j])
      /\ \A i \in lo + 1 .. k, q \in rest : Before(rk, u[i], g[q])
  BY DEF Weaves, OrderedRun
<1>2. from \in lo + 1 .. hi /\ from \in 1 .. n /\ g[from] \in 1 .. n
  OBVIOUS
<1>3. \A i \in lo + 1 .. k + 1 : i # k + 1 => i \in lo + 1 .. k
  OBVIOUS
<1>4. /\ v \in [lo + 1 .. k + 1 -> 1 .. n]
      /\ \A i \in lo + 1 .. k + 1 : v[i] = IF i = k + 1 THEN g[from] ELSE u[i]
  BY <1>1, <1>2, <1>3 DEF Longer
<1> HIDE DEF v
<1>5. ASSUME NEW i \in lo + 1 .. k + 1 PROVE \E q \in lo + 1 .. hi : v[i] = g[q]
  <2>1. CASE i = k + 1
    BY <1>2, <1>4, <2>1
  <2>2. CASE i # k + 1
    BY <1>1, <1>3, <1>4, <2>2
  <2> QED BY <2>1, <2>2
<1>6. ASSUME NEW i \in lo + 1 .. k + 1, NEW j \in lo + 1 .. k + 1, i < j PROVE Before(rk, v[i], v[j])
  <2>1. i # k + 1 /\ i \in lo + 1 .. k
    BY <1>6
  <2>2. v[i] = u[i]
    BY <1>4, <2>1
  <2>3. CASE j = k + 1
    BY <1>1, <1>4, <2>1, <2>2, <2>3
  <2>4. CASE j # k + 1
    BY <1>1, <1>3, <1>4, <1>6, <2>1, <2>2, <2>4
  <2> QED BY <2>3, <2>4
<1>7. ASSUME NEW i \in lo + 1 .. k + 1, NEW q \in rest \ {from} PROVE Before(rk, v[i], g[q])
  <2>1. CASE i = k + 1
    BY <1>4, <2>1
  <2>2. CASE i # k + 1
    BY <1>1, <1>3, <1>4, <2>2
  <2> QED BY <2>1, <2>2
<1>8. DOMAIN g = 1 .. n
  OBVIOUS
<1> QED BY <1>4, <1>5, <1>6, <1>7, <1>8 DEF Weaves, OrderedRun, v

\* h has what g has, but for the order inside one run.
Within(h, g, n, lo, hi) ==
  /\ h \in [1 .. n -> 1 .. n]
  /\ \A i, j \in 1 .. n : h[i] = h[j] => i = j
  /\ \A i \in lo + 1 .. hi : \E q \in lo + 1 .. hi : h[i] = g[q]
  /\ \A i \in 1 .. n : i \notin lo + 1 .. hi => h[i] = g[i]

\* A run written back.
Rewoven(g, u, lo, hi) == [i \in DOMAIN g |-> IF i \in lo + 1 .. hi THEN u[i] ELSE g[i]]

\* A whole run has been listed: written back, it is in order.
LEMMA WovenBack ==
  ASSUME NEW n \in Nat, NEW rk \in [1 .. n -> Int], NEW g \in [1 .. n -> 1 .. n],
         \A i, j \in 1 .. n : g[i] = g[j] => i = j,
         NEW lo \in Nat, NEW hi \in Nat, hi <= n,
         NEW u, NEW rest, Weaves(u, rk, g, lo, hi, hi, rest)
  PROVE  /\ Within(Rewoven(g, u, lo, hi), g, n, lo, hi)
         /\ OrderedRun(rk, Rewoven(g, u, lo, hi), lo, hi)
<1> DEFINE h == Rewoven(g, u, lo, hi)
           I == lo + 1 .. hi
<1>1. /\ u \in [I -> 1 .. n]
      /\ \A i \in I : \E q \in I : u[i] = g[q]
      /\ \A i, j \in I : i < j => Before(rk, u[i], u[j])
  BY DEF Weaves, OrderedRun
<1>2. I \subseteq 1 .. n
  OBVIOUS
<1> HIDE DEF I
<1>3. h \in [1 .. n -> 1 .. n] /\ \A i \in 1 .. n : h[i] = IF i \in I THEN u[i] ELSE g[i]
  BY <1>1 DEF Rewoven, I
<1> HIDE DEF h
<1>4. ASSUME NEW i \in 1 .. n, NEW j \in 1 .. n, h[i] = h[j] PROVE i = j
  <2>1. CASE i \in I /\ j \in I
    <3>1. u[i] = u[j] /\ u[i] \in 1 .. n
      BY <1>1, <1>3, <1>4, <2>1
    <3>2. ~Before(rk, u[i], u[j]) /\ ~Before(rk, u[j], u[i])
      BY <3>1, BeforeOrders
    <3>3. ~(i < j) /\ ~(j < i)
      BY <1>1, <2>1, <3>2
    <3> QED BY <3>3
  <2>2. CASE i \in I /\ j \notin I
    <3>1. PICK q \in I : u[i] = g[q]
      BY <1>1, <2>2
    <3>2. g[q] = g[j]
      BY <1>3, <1>4, <2>2, <3>1
    <3> QED BY <1>2, <2>2, <3>2
  <2>3. CASE i \notin I /\ j \in I
    <3>1. PICK q \in I : u[j] = g[q]
      BY <1>1, <2>3
    <3>2. g[q] = g[i]
      BY <1>3, <1>4, <2>3, <3>1
    <3> QED BY <1>2, <2>3, <3>2
  <2>4. CASE i \notin I /\ j \notin I
    BY <1>3, <1>4, <2>4
  <2> QED BY <2>1, <2>2, <2>3, <2>4
<1>5. \A i \in I : h[i] = u[i]
  BY <1>2, <1>3
<1>6. Within(h, g, n, lo, hi)
  BY <1>1, <1>3, <1>4, <1>5 DEF Within, I
<1>7. OrderedRun(rk, h, lo, hi)
  BY <1>1, <1>5 DEF OrderedRun, I
<1> QED BY <1>6, <1>7 DEF h

\* Whatever h has from one cell to another, g has there.
Stays(h, g, from, to) == \A i \in from + 1 .. to : \E j \in from + 1 .. to : h[i] = g[j]

\* A stretch of cells that holds the run, or none of it, still has the same.
LEMMA WithinStays ==
  ASSUME NEW n \in Nat, NEW g, NEW h, NEW lo \in Nat, NEW hi \in Nat, Within(h, g, n, lo, hi),
         NEW from \in Nat, NEW to \in Nat, to <= n,
         hi <= from \/ to <= lo \/ (from <= lo /\ hi <= to)
  PROVE  Stays(h, g, from, to)
<1> SUFFICES ASSUME NEW i \in from + 1 .. to PROVE \E j \in from + 1 .. to : h[i] = g[j]
  BY DEF Stays
<1>1. CASE i \in lo + 1 .. hi
  <2>1. PICK q \in lo + 1 .. hi : h[i] = g[q]
    BY <1>1 DEF Within
  <2>2. q \in from + 1 .. to
    BY <1>1
  <2> QED BY <2>1, <2>2
<1>2. CASE i \notin lo + 1 .. hi
  <2>1. i \in 1 .. n
    OBVIOUS
  <2> QED BY <1>2, <2>1 DEF Within
<1> QED BY <1>1, <1>2

\* The elements of the left half stood before those of the right.
Split(g, r) == \A i \in r.lo + 1 .. r.mid, j \in r.mid + 1 .. r.hi : g[i] < g[j]

\* A merge inside a half, or beside it, leaves the halves of a later one apart.
LEMMA SplitStays ==
  ASSUME NEW n \in Nat, NEW g, NEW h, NEW q \in MergesOf(n), NEW r \in MergesOf(n),
         Within(h, g, n, q.lo, q.hi), Beside(q, r), Split(g, r)
  PROVE  Split(h, r)
<1>1. /\ q.lo \in Nat /\ q.hi \in Nat /\ q.lo < q.hi
      /\ r.lo \in Nat /\ r.mid \in Nat /\ r.hi \in Nat /\ r.lo < r.mid /\ r.mid < r.hi /\ r.hi <= n /\ r.mid <= n
  BY DEF MergesOf
<1>2. /\ q.hi <= r.lo \/ r.mid <= q.lo \/ (r.lo <= q.lo /\ q.hi <= r.mid)
      /\ q.hi <= r.mid \/ r.hi <= q.lo \/ (r.mid <= q.lo /\ q.hi <= r.hi)
  BY <1>1 DEF Beside
<1> DEFINE lo == q.lo
           hi == q.hi
<1>3. lo \in Nat /\ hi \in Nat /\ Within(h, g, n, lo, hi)
  BY <1>1
<1> DEFINE from == r.lo
           mid == r.mid
           to == r.hi
<1>4. /\ from \in Nat /\ mid \in Nat /\ to \in Nat /\ mid <= n /\ to <= n
      /\ hi <= from \/ mid <= lo \/ (from <= lo /\ hi <= mid)
      /\ hi <= mid \/ to <= lo \/ (mid <= lo /\ hi <= to)
      /\ \A x \in from + 1 .. mid, y \in mid + 1 .. to : g[x] < g[y]
  BY <1>1, <1>2 DEF Split
<1> HIDE DEF lo, hi, from, mid, to
<1>5. Stays(h, g, from, mid) /\ Stays(h, g, mid, to)
  BY <1>3, <1>4, WithinStays
<1>6. ASSUME NEW i \in from + 1 .. mid, NEW j \in mid + 1 .. to PROVE h[i] < h[j]
  <2>1. PICK x \in from + 1 .. mid : h[i] = g[x]
    BY <1>5 DEF Stays
  <2>2. PICK y \in mid + 1 .. to : h[j] = g[y]
    BY <1>5 DEF Stays
  <2> QED BY <1>4, <2>1, <2>2
<1> QED BY <1>6 DEF Split, from, mid, to

\* What is in order stays so when a merge that comes later is written back.
LEMMA OrderStays ==
  ASSUME NEW n \in Nat, NEW rk, NEW g, NEW h, NEW q \in MergesOf(n), NEW r \in MergesOf(n),
         Within(h, g, n, r.lo, r.hi), Beside(q, r),
         OrderedRun(rk, g, q.lo, q.hi), OrderedRun(rk, h, r.lo, r.hi)
  PROVE  OrderedRun(rk, h, q.lo, q.hi)
<1>1. /\ q.lo \in Nat /\ q.hi \in Nat /\ q.lo < q.hi /\ q.hi <= n
      /\ r.lo \in Nat /\ r.mid \in Nat /\ r.hi \in Nat /\ r.lo < r.mid /\ r.mid < r.hi
  BY DEF MergesOf
<1>2. CASE r.lo <= q.lo /\ q.hi <= r.hi
  <2>1. q.lo + 1 .. q.hi \subseteq r.lo + 1 .. r.hi
    BY <1>1, <1>2
  <2> QED BY <2>1 DEF OrderedRun
<1>3. CASE q.hi <= r.lo \/ r.hi <= q.lo
  <2>1. \A i \in q.lo + 1 .. q.hi : i \in 1 .. n /\ i \notin r.lo + 1 .. r.hi
    BY <1>1, <1>3
  <2>2. \A i \in q.lo + 1 .. q.hi : h[i] = g[i]
    BY <2>1 DEF Within
  <2> QED BY <2>2 DEF OrderedRun
<1>4. (r.lo <= q.lo /\ q.hi <= r.hi) \/ q.hi <= r.lo \/ r.hi <= q.lo
  BY <1>1 DEF Beside
<1> QED BY <1>2, <1>3, <1>4

-----------------------------------------------------------------------------
(* What sorting means: the index that k - 1 others precede comes k-th.     *)

\* The k-th of all the indices in order is the one that k - 1 precede.
LEMMA PlaceCounted ==
  ASSUME NEW n \in Nat, NEW rk \in [1 .. n -> Int], NEW g \in [1 .. n -> 1 .. n],
         OrderedRun(rk, g, 0, n), NEW k \in 1 .. n
  PROVE  g[k] = CHOOSE i \in 1 .. n : Cardinality({j \in 1 .. n : Before(rk, j, i)}) = k - 1
<1> DEFINE I == 1 .. n
           Ahead(i) == {j \in I : Before(rk, j, i)}
<1>1. \A i, j \in I : i < j => Before(rk, g[i], g[j])
  BY DEF OrderedRun
<1>2. /\ \A i \in I : ~Before(rk, i, i)
      /\ \A i, j \in I : ~(Before(rk, i, j) /\ Before(rk, j, i))
  BY BeforeOrders
<1>3. \A i \in I : g[i] \in I
  OBVIOUS
<1>4. \A i, j \in I : g[i] = g[j] => i = j
  <2> SUFFICES ASSUME NEW i \in I, NEW j \in I, g[i] = g[j] PROVE i = j
    OBVIOUS
  <2>1. ~(i < j) /\ ~(j < i)
    BY <1>1, <1>2, <1>3
  <2> QED BY <2>1
<1>5. \A x \in I : \E i \in I : g[i] = x
  <2>1. g \in Injection(I, I)
    <3>1. g \in [I -> I] /\ \A i, j \in I : g[i] = g[j] => i = j
      BY <1>4
    <3> QED BY <3>1 DEF Injection, IsInjective
  <2>2. IsFiniteSet(I)
    BY FS_Interval
  <2> HIDE DEF I
  <2>3. g \in Surjection(I, I)
    BY <2>1, <2>2, FS_Injection
  <2> QED BY <2>3 DEF Surjection
<1>6. ASSUME NEW m \in I PROVE Cardinality(Ahead(g[m])) = m - 1
  <2> DEFINE J == 1 .. m - 1
             f == [i \in J |-> g[i]]
  <2>1. J \subseteq I /\ m - 1 \in Int /\ 1 \in Int /\ Cardinality(J) = m - 1 /\ IsFiniteSet(J)
    <3>1. m - 1 \in Int /\ 1 \in Int /\ m - 1 >= 0 /\ J \subseteq I
      OBVIOUS
    <3>2. IsFiniteSet(J) /\ Cardinality(J) = IF 1 > m - 1 THEN 0 ELSE (m - 1) - 1 + 1
      BY <3>1, FS_Interval
    <3> HIDE DEF J
    <3> QED BY <3>1, <3>2
  <2>2. ASSUME NEW x \in Ahead(g[m]) PROVE \E i \in J : f[i] = x
    <3>1. PICK i \in I : g[i] = x
      BY <1>5
    <3>2. Before(rk, g[i], g[m])
      BY <3>1
    <3>3. i < m
      <4>1. i # m
        BY <1>2, <1>3, <3>2
      <4>2. ~(m < i)
        BY <1>1, <1>2, <1>3, <3>2
      <4> QED BY <4>1, <4>2
    <3>4. i \in J
      BY <3>3
    <3> QED BY <3>1, <3>4
  <2>3. ASSUME NEW i \in J PROVE f[i] \in Ahead(g[m])
    <3>1. i \in I /\ i < m
      OBVIOUS
    <3> QED BY <1>1, <1>3, <3>1
  <2>4. \A i, j \in J : f[i] = f[j] => i = j
    BY <1>4, <2>1
  <2>5. f \in [J -> Ahead(g[m])]
    BY <2>3
  <2> HIDE DEF f, J, Ahead, I
  <2>6. f \in Bijection(J, Ahead(g[m]))
    <3>1. f \in Injection(J, Ahead(g[m]))
      BY <2>4, <2>5 DEF Injection, IsInjective
    <3>2. f \in Surjection(J, Ahead(g[m]))
      BY <2>2, <2>5 DEF Surjection
    <3> QED BY <3>1, <3>2 DEF Bijection
  <2> QED BY <2>1, <2>6, FS_Bijection DEF ExistsBijection
<1>7. \A i \in I : Cardinality(Ahead(i)) = k - 1 => i = g[k]
  <2> SUFFICES ASSUME NEW i \in I, Cardinality(Ahead(i)) = k - 1 PROVE i = g[k]
    OBVIOUS
  <2>1. PICK m \in I : g[m] = i
    BY <1>5
  <2>2. m - 1 = k - 1
    BY <1>6, <2>1
  <2> QED BY <2>1, <2>2
<1>8. g[k] \in I /\ Cardinality(Ahead(g[k])) = k - 1
  BY <1>3, <1>6
<1> HIDE DEF I, Ahead
<1>9. g[k] = CHOOSE i \in I : Cardinality(Ahead(i)) = k - 1
  BY <1>7, <1>8
<1> QED BY <1>9 DEF I, Ahead

-----------------------------------------------------------------------------
(* How far a sort has come.                                                *)

\* The ranks of the elements a sort began with.
Ranks(w) == [i \in DOMAIN w.before |-> Rank(w, w.before[i])]

\* The holes rank last.
LEMMA RanksAre ==
  ASSUME NEW w \in SortState
  PROVE  /\ w.before \in Seq(Cell) /\ Len(w.before) \in Nat /\ DOMAIN w.before = 1 .. Len(w.before)
         /\ Ranks(w) \in [1 .. Len(w.before) -> Int]
         /\ \A i \in 1 .. Len(w.before) :
              /\ w.before[i] \in Cell /\ Ranks(w)[i] = Rank(w, w.before[i])
              /\ w.before[i] = Hole => Ranks(w)[i] = MaxKey + 2
              /\ w.before[i] # Hole => Ranks(w)[i] < MaxKey + 2
<1> DEFINE l == w.before
           n == Len(l)
<1>1. l \in Seq(Cell) /\ n \in Nat /\ DOMAIN l = 1 .. n /\ w.key \in [Value -> 0 .. MaxKey]
  BY DEF SortState, Keys
<1>2. \A i \in 1 .. n : l[i] \in Cell
  BY <1>1
<1> HIDE DEF l, n
<1>0. MaxKey \in Nat
  BY WalkAssumption
<1>3. ASSUME NEW c \in Cell
      PROVE  Rank(w, c) \in Int /\ (c = Hole => Rank(w, c) = MaxKey + 2) /\ (c # Hole => Rank(w, c) < MaxKey + 2)
  <2>1. CASE c = Hole
    <3>1. c # Undefined
      BY <2>1, HoleAssumption
    <3>2. Rank(w, c) = MaxKey + 2
      BY <2>1, <3>1 DEF Rank
    <3> QED BY <1>0, <2>1, <3>2
  <2>2. CASE c = Undefined
    <3>1. c # Hole
      BY <2>2, HoleAssumption
    <3>2. Rank(w, c) = MaxKey + 1
      BY <2>2, <3>1 DEF Rank
    <3> QED BY <1>0, <3>1, <3>2
  <2>3. CASE c # Hole /\ c # Undefined
    <3>1. c \in Value
      BY <2>3 DEF Cell
    <3>2. w.key[c] \in 0 .. MaxKey
      BY <1>1, <3>1
    <3>3. Rank(w, c) = w.key[c]
      BY <2>3 DEF Rank
    <3> QED BY <1>0, <2>3, <3>2, <3>3
  <2> QED BY <2>1, <2>2, <2>3
<1>4. \A i \in 1 .. n : Ranks(w)[i] = Rank(w, l[i])
  BY <1>1 DEF Ranks, l
<1>5. Ranks(w) \in [1 .. n -> Int]
  BY <1>1, <1>2, <1>3 DEF Ranks, l
<1> QED BY <1>1, <1>2, <1>3, <1>4, <1>5 DEF l, n

\* Each cell holds the element that stood at g; the present ones come first, and the
\* holes are as they stood.
Arranged(g, w, e) ==
  /\ g \in [1 .. Len(w.before) -> 1 .. Len(w.before)]
  /\ \A i, j \in 1 .. Len(w.before) : g[i] = g[j] => i = j
  /\ \A i \in 1 .. Len(w.before) : e[i] = w.before[g[i]]
  /\ \A i \in 1 .. Len(w.before) : i <= Len(w.scratch) <=> e[i] # Hole
  /\ \A i, j \in Len(w.scratch) + 1 .. Len(w.before) : i < j => g[i] < g[j]

\* The sort is at the t-th of its merges, M: what the earlier ones merged is in order,
\* and the halves of the later ones still hold what they held.
Reached(g, w, M, t) ==
  /\ t \in 1 .. Len(M) /\ Len(w.todo) = Len(M) - t + 1
  /\ \A k \in 1 .. Len(w.todo) : w.todo[k] = M[t - 1 + k]
  /\ \A j \in 1 .. t - 1 : OrderedRun(Ranks(w), g, M[j].lo, M[j].hi)
  /\ \A j \in t .. Len(M) : Split(g, M[j])

\* The cells of the two runs of a merge that are still to be placed.
Rest(w, r) == (w.a + 1 .. r.mid) \cup (w.b + 1 .. r.hi)

\* What has been placed in the scratch array is in order, and before the rest.
Woven(g, w, r) ==
  \E u : /\ Weaves(u, Ranks(w), g, r.lo, w.k, r.hi, Rest(w, r))
         /\ \A i \in r.lo + 1 .. w.k : w.scratch[i] = w.before[u[i]]

Ordering(w, e) ==
  \E g, t : Arranged(g, w, e) /\ Reached(g, w, Merges(Len(w.scratch)), t) /\ Woven(g, w, w.todo[1])

\* A sort in progress whose comparator agrees with one order.
OrderInv ==
  walk # <<>> /\ walk[1].method = "sort" /\ walk[1].honest =>
    Len(walk[1].before) = store.length /\ Ordering(walk[1], store.elements)

\* A merge begins with nothing placed.
LEMMA MergingOrders ==
  ASSUME NEW w \in SortState, NEW todo, NEW g,
         todo # <<>>, todo \in Seq([lo : Nat, mid : Nat, hi : Nat]), g \in [1 .. Len(w.before) -> 1 .. Len(w.before)]
  PROVE  LET x == Merging(w, todo)
         IN  /\ x.todo = todo /\ x.scratch = w.scratch /\ x.before = w.before /\ x.key = w.key
             /\ x.honest = w.honest /\ x.method = w.method
             /\ Ranks(x) = Ranks(w) /\ Woven(g, x, todo[1])
<1> DEFINE x == Merging(w, todo)
           r == todo[1]
           u == [i \in r.lo + 1 .. r.lo |-> 1]
<1>1. r.lo \in Nat
  <2>1. Len(todo) \in Nat /\ Len(todo) > 0
    BY EmptySeq
  <2>2. r \in [lo : Nat, mid : Nat, hi : Nat]
    <3> DEFINE N == [lo : Nat, mid : Nat, hi : Nat]
    <3>1. todo \in Seq(N)
      OBVIOUS
    <3> HIDE DEF N
    <3>2. todo[1] \in N
      BY <2>1, <3>1
    <3> QED BY <3>2 DEF N
  <2> HIDE DEF r
  <2> QED BY <2>2
<1>2. /\ x.todo = todo /\ x.scratch = w.scratch /\ x.before = w.before /\ x.key = w.key
      /\ x.honest = w.honest /\ x.method = w.method /\ x.k = r.lo
  BY DEF Merging, SortState
<1> HIDE DEF x, r
<1>3. Ranks(x) = Ranks(w)
  BY <1>2 DEF Ranks, Rank
<1>4. r.lo + 1 .. r.lo = {}
  BY <1>1
<1>5. u \in [r.lo + 1 .. x.k -> DOMAIN g]
  BY <1>2, <1>4
<1> HIDE DEF u
<1>6. Weaves(u, Ranks(x), g, r.lo, x.k, r.hi, Rest(x, r))
  BY <1>2, <1>4, <1>5 DEF Weaves, OrderedRun
<1>7. Woven(g, x, r)
  BY <1>2, <1>4, <1>6 DEF Woven
<1> QED BY <1>2, <1>3, <1>7 DEF x, r

\* A comparator that agrees with one order tells ranks apart.
LEMMA OrdersTell ==
  ASSUME NEW w \in SortState, w.honest, NEW x \in Cell, NEW y \in Cell, x # Hole, y # Hole,
         NEW order \in Orders(w, x, y)
  PROVE  order \in Int /\ Rank(w, x) \in Int /\ Rank(w, y) \in Int
         /\ (order <= 0 => Rank(w, x) <= Rank(w, y)) /\ (~(order <= 0) => Rank(w, y) < Rank(w, x))
<1>1. /\ x = Undefined => Rank(w, x) = MaxKey + 1
      /\ x # Undefined => Rank(w, x) = w.key[x] /\ w.key[x] \in 0 .. MaxKey
      /\ y = Undefined => Rank(w, y) = MaxKey + 1
      /\ y # Undefined => Rank(w, y) = w.key[y] /\ w.key[y] \in 0 .. MaxKey
  <2>1. w.key \in [Value -> 0 .. MaxKey]
    BY DEF SortState, Keys
  <2>2. (x # Undefined => x \in Value) /\ (y # Undefined => y \in Value)
    BY DEF Cell
  <2> QED BY <2>1, <2>2, HoleAssumption DEF Rank
<1>0. MaxKey \in Nat
  BY WalkAssumption
<1>2. CASE x = Undefined /\ y = Undefined
  <2>1. Orders(w, x, y) = {0}
    BY <1>2, Zenon DEF Orders
  <2>2. order = 0
    BY <2>1
  <2> QED BY <1>0, <1>1, <1>2, <2>2
<1>3. CASE x = Undefined /\ y # Undefined
  <2>1. Orders(w, x, y) = {1}
    BY <1>3, Zenon DEF Orders
  <2>2. order = 1
    BY <2>1
  <2> QED BY <1>0, <1>1, <1>3, <2>2
<1>4. CASE x # Undefined /\ y = Undefined
  <2>1. Orders(w, x, y) = {-1}
    BY <1>4, Zenon DEF Orders
  <2>2. order = -1
    BY <2>1
  <2> QED BY <1>0, <1>1, <1>4, <2>2
<1>5. CASE x # Undefined /\ y # Undefined
  <2>1. Orders(w, x, y) = {w.key[x] - w.key[y]}
    BY <1>5, Zenon DEF Orders
  <2>2. order = w.key[x] - w.key[y]
    BY <2>1
  <2> DEFINE i == Rank(w, x)
             j == Rank(w, y)
  <2>3. i \in 0 .. MaxKey /\ j \in 0 .. MaxKey /\ order = i - j
    BY <1>1, <1>5, <2>2
  <2> HIDE DEF i, j
  <2>4. /\ order \in Int /\ i \in Int /\ j \in Int
        /\ (order <= 0 => i <= j) /\ (~(order <= 0) => j < i)
    BY <2>3
  <2> QED BY <2>4 DEF i, j
<1> QED BY <1>2, <1>3, <1>4, <1>5

\* A half is in order when its merge begins.
LEMMA HalfOrdered ==
  ASSUME NEW rk, NEW g, NEW M, NEW t, NEW lo \in Nat, NEW hi \in Nat, Made(M, t - 1, lo, hi),
         \A j \in 1 .. t - 1 : OrderedRun(rk, g, M[j].lo, M[j].hi)
  PROVE  OrderedRun(rk, g, lo, hi)
<1>1. CASE hi - lo < 2
  <2>1. \A i, j \in lo + 1 .. hi : ~(i < j)
    BY <1>1
  <2> QED BY <2>1 DEF OrderedRun
<1>2. CASE ~(hi - lo < 2)
  BY <1>2 DEF Made
<1> QED BY <1>1, <1>2

\* The index an element is placed from.
From(w, left) == (IF left THEN w.a ELSE w.b) + 1

\* The element taken is before all the others that are left in its two runs.
LEMMA TakenFirst ==
  ASSUME NEW n \in Nat, NEW rk \in [1 .. n -> Int], NEW g \in [1 .. n -> 1 .. n],
         NEW r, r.lo \in Nat, r.mid \in Nat, r.hi \in Nat, r.hi <= n,
         OrderedRun(rk, g, r.lo, r.mid), OrderedRun(rk, g, r.mid, r.hi),
         NEW w, w.a \in Nat, w.b \in Nat, r.lo <= w.a, w.a <= r.mid, r.mid <= w.b, w.b <= r.hi,
         NEW left \in BOOLEAN, PlacedFrom(w, r, left),
         left /\ w.b < r.hi => Before(rk, g[w.a + 1], g[w.b + 1]),
         ~left /\ w.a < r.mid => Before(rk, g[w.b + 1], g[w.a + 1])
  PROVE  /\ From(w, left) \in Rest(w, r)
         /\ Rest(w, r) \subseteq r.lo + 1 .. r.hi
         /\ \A q \in Rest(w, r) : q # From(w, left) => Before(rk, g[From(w, left)], g[q])
<1> DEFINE lo == r.lo
           mid == r.mid
           hi == r.hi
           a == w.a
           b == w.b
<1>1. /\ lo \in Nat /\ mid \in Nat /\ hi \in Nat /\ hi <= n /\ a \in Nat /\ b \in Nat
      /\ lo <= a /\ a <= mid /\ mid <= b /\ b <= hi
      /\ \A i, j \in lo + 1 .. mid : i < j => Before(rk, g[i], g[j])
      /\ \A i, j \in mid + 1 .. hi : i < j => Before(rk, g[i], g[j])
      /\ left => a < mid
      /\ ~left => b < hi
      /\ left /\ b < hi => Before(rk, g[a + 1], g[b + 1])
      /\ ~left /\ a < mid => Before(rk, g[b + 1], g[a + 1])
      /\ Rest(w, r) = (a + 1 .. mid) \cup (b + 1 .. hi)
      /\ From(w, left) = (IF left THEN a ELSE b) + 1
  BY DEF OrderedRun, PlacedFrom, Rest, From
<1>2. \A i, j, k \in 1 .. n : Before(rk, i, j) /\ Before(rk, j, k) => Before(rk, i, k)
  BY BeforeOrders
<1> HIDE DEF lo, mid, hi, a, b
<1>3. \A i \in lo + 1 .. hi : i \in 1 .. n /\ g[i] \in 1 .. n
  BY <1>1
<1>6. /\ lo \in Nat /\ mid \in Nat /\ hi \in Nat /\ a \in Nat /\ b \in Nat
      /\ lo <= a /\ a <= mid /\ mid <= b /\ b <= hi
  BY <1>1
<1>7. Rest(w, r) = (a + 1 .. mid) \cup (b + 1 .. hi)
  BY <1>1
<1>4. CASE left
  <2>1. From(w, left) = a + 1 /\ a < mid /\ a + 1 \in lo + 1 .. mid /\ a + 1 \in lo + 1 .. hi
    BY <1>1, <1>4
  <2>2. ASSUME NEW q \in Rest(w, r), q # a + 1 PROVE Before(rk, g[a + 1], g[q])
    <3>1. CASE q \in a + 1 .. mid
      <4>1. q \in lo + 1 .. mid /\ a + 1 < q
        BY <1>1, <2>2, <3>1
      <4> QED BY <1>1, <2>1, <4>1
    <3>2. CASE q \in b + 1 .. hi
      <4>1. b < hi /\ b + 1 \in lo + 1 .. hi /\ b + 1 \in mid + 1 .. hi /\ q \in mid + 1 .. hi /\ q \in lo + 1 .. hi
        BY <1>6, <3>2
      <4>2. Before(rk, g[a + 1], g[b + 1])
        BY <1>1, <1>4, <4>1
      <4>3. CASE q = b + 1
        BY <4>2, <4>3
      <4>4. CASE q # b + 1
        <5>1. b + 1 < q
          BY <1>1, <3>2, <4>4
        <5>2. Before(rk, g[b + 1], g[q])
          BY <1>1, <4>1, <5>1
        <5> QED BY <1>2, <1>3, <2>1, <4>1, <4>2, <5>2
      <4> QED BY <4>3, <4>4
    <3> QED BY <1>1, <3>1, <3>2
  <2>3. a + 1 \in Rest(w, r) /\ Rest(w, r) \subseteq lo + 1 .. hi
    BY <1>6, <1>7, <2>1
  <2> QED BY <2>1, <2>2, <2>3 DEF lo, hi
<1>5. CASE ~left
  <2>1. From(w, left) = b + 1 /\ b < hi /\ b + 1 \in mid + 1 .. hi /\ b + 1 \in lo + 1 .. hi
    BY <1>1, <1>5
  <2>2. ASSUME NEW q \in Rest(w, r), q # b + 1 PROVE Before(rk, g[b + 1], g[q])
    <3>1. CASE q \in b + 1 .. hi
      <4>1. q \in mid + 1 .. hi /\ b + 1 < q
        BY <1>1, <2>2, <3>1
      <4> QED BY <1>1, <2>1, <4>1
    <3>2. CASE q \in a + 1 .. mid
      <4>1. a < mid /\ a + 1 \in lo + 1 .. hi /\ a + 1 \in lo + 1 .. mid /\ q \in lo + 1 .. mid /\ q \in lo + 1 .. hi
        BY <1>6, <3>2
      <4>2. Before(rk, g[b + 1], g[a + 1])
        BY <1>1, <1>5, <4>1
      <4>3. CASE q = a + 1
        BY <4>2, <4>3
      <4>4. CASE q # a + 1
        <5>1. a + 1 < q
          BY <1>1, <3>2, <4>4
        <5>2. Before(rk, g[a + 1], g[q])
          BY <1>1, <4>1, <5>1
        <5> QED BY <1>2, <1>3, <2>1, <4>1, <4>2, <5>2
      <4> QED BY <4>3, <4>4
    <3> QED BY <1>1, <3>1, <3>2
  <2>3. b + 1 \in Rest(w, r) /\ Rest(w, r) \subseteq lo + 1 .. hi
    BY <1>6, <1>7, <2>1
  <2> QED BY <2>1, <2>2, <2>3 DEF lo, hi
<1> QED BY <1>4, <1>5

\* What one step of a merge leaves of a sort.
LEMMA PlacedIs ==
  ASSUME NEW w \in SortState, NEW e, NEW r, Merged(w, r), NEW left \in BOOLEAN, PlacedFrom(w, r, left),
         r.lo \in Nat, r.mid \in Nat, r.hi \in Nat, r.hi <= Len(w.scratch)
  PROVE  LET x == PlacedOver(w, e, left)
         IN  /\ x.before = w.before /\ x.key = w.key /\ x.honest = w.honest
             /\ x.todo = w.todo /\ x.k = w.k + 1 /\ Ranks(x) = Ranks(w)
             /\ Rest(x, r) = Rest(w, r) \ {From(w, left)}
             /\ \A i \in r.lo + 1 .. w.k : x.scratch[i] = w.scratch[i]
             /\ x.scratch[w.k + 1] = e[From(w, left)]
<1> DEFINE x == PlacedOver(w, e, left)
           k == w.k
           s == w.scratch
           from == From(w, left)
<1>1. /\ w.a \in Nat /\ w.b \in Nat /\ k \in Nat /\ s \in Seq(Cell) /\ Len(s) \in Nat
      /\ r.lo <= w.a /\ w.a <= r.mid /\ r.mid <= w.b /\ w.b <= r.hi /\ k < r.hi
      /\ IF left THEN w.a < r.mid ELSE w.b < r.hi
      /\ DOMAIN s = 1 .. Len(s) /\ r.hi <= Len(s)
  BY DEF SortState, Merged, PlacedFrom
<1>2. /\ x.before = w.before /\ x.key = w.key /\ x.honest = w.honest /\ x.todo = w.todo /\ x.k = k + 1
      /\ x.a = (IF left THEN w.a + 1 ELSE w.a) /\ x.b = (IF left THEN w.b ELSE w.b + 1)
      /\ x.scratch = [s EXCEPT ![k + 1] = e[from]]
  BY DEF PlacedOver, SortState, From
<1> HIDE DEF x, s, k
<1>3. Ranks(x) = Ranks(w)
  BY <1>2 DEF Ranks, Rank
<1>4. k + 1 \in DOMAIN s /\ \A i \in r.lo + 1 .. k : i # k + 1
  BY <1>1
<1>5. /\ x.scratch[k + 1] = e[from]
      /\ \A i \in r.lo + 1 .. k : x.scratch[i] = s[i]
  BY <1>2, <1>4
<1>6. Rest(x, r) = Rest(w, r) \ {from}
  <2> DEFINE a == w.a
             b == w.b
             c == x.a
             d == x.b
             lo == r.lo
             mid == r.mid
             hi == r.hi
  <2>1. /\ a \in Nat /\ b \in Nat /\ lo \in Nat /\ mid \in Nat /\ hi \in Nat
        /\ lo <= a /\ a <= mid /\ mid <= b /\ b <= hi
    BY <1>1
  <2>2. CASE left
    <3>1. c = a + 1 /\ d = b /\ from = a + 1 /\ a < mid
      BY <1>1, <1>2, <2>2 DEF From
    <3> HIDE DEF a, b, c, d, mid, hi, from, lo
    <3>2. (c + 1 .. mid) \cup (d + 1 .. hi) = ((a + 1 .. mid) \cup (b + 1 .. hi)) \ {from}
      BY <2>1, <3>1
    <3> QED BY <3>2 DEF Rest, a, b, c, d, mid, hi
  <2>3. CASE ~left
    <3>1. c = a /\ d = b + 1 /\ from = b + 1 /\ b < hi
      BY <1>1, <1>2, <2>3 DEF From
    <3> HIDE DEF a, b, c, d, mid, hi, from, lo
    <3>2. (c + 1 .. mid) \cup (d + 1 .. hi) = ((a + 1 .. mid) \cup (b + 1 .. hi)) \ {from}
      BY <2>1, <3>1
    <3> QED BY <3>2 DEF Rest, a, b, c, d, mid, hi
  <2> QED BY <2>2, <2>3
<1> QED BY <1>2, <1>3, <1>5, <1>6 DEF x, s, k

\* What is placed stays in order, and before the rest.
LEMMA PlacedWeaves ==
  ASSUME NEW w \in SortState, NEW e, NEW r, Merged(w, r), NEW left \in BOOLEAN, PlacedFrom(w, r, left),
         r.lo \in Nat, r.mid \in Nat, r.hi \in Nat, r.hi <= Len(w.scratch),
         Len(w.scratch) <= Len(w.before), NEW g, Arranged(g, w, e), Woven(g, w, r),
         OrderedRun(Ranks(w), g, r.lo, r.mid), OrderedRun(Ranks(w), g, r.mid, r.hi),
         left /\ w.b < r.hi => Before(Ranks(w), g[w.a + 1], g[w.b + 1]),
         ~left /\ w.a < r.mid => Before(Ranks(w), g[w.b + 1], g[w.a + 1])
  PROVE  Woven(g, PlacedOver(w, e, left), r)
<1> DEFINE n == Len(w.before)
           l == w.before
           rk == Ranks(w)
           x == PlacedOver(w, e, left)
           lo == r.lo
           hi == r.hi
           k == w.k
           from == From(w, left)
           rest == Rest(w, r)
<1>1. n \in Nat /\ rk \in [1 .. n -> Int]
  BY RanksAre
<1>2. /\ g \in [1 .. n -> 1 .. n] /\ \A i \in 1 .. n : e[i] = l[g[i]]
  BY DEF Arranged
<1>3. /\ w.a \in Nat /\ w.b \in Nat /\ k \in Nat /\ Len(w.scratch) \in Nat
      /\ lo <= w.a /\ w.a <= r.mid /\ r.mid <= w.b /\ w.b <= hi /\ k = w.a + w.b - r.mid /\ k < hi
  BY DEF SortState, Merged
<1>4. lo \in Nat /\ hi \in Nat /\ hi <= n /\ lo <= k
  <2>1. hi <= Len(w.scratch) /\ Len(w.scratch) <= n /\ lo \in Nat /\ hi \in Nat /\ r.mid \in Nat
    OBVIOUS
  <2>2. n \in Nat
    BY <1>1
  <2> DEFINE aw == w.a
             bw == w.b
             mid == r.mid
  <2>3. aw \in Nat /\ bw \in Nat /\ mid \in Nat /\ lo <= aw /\ mid <= bw /\ k = aw + bw - mid
    BY <1>3, <2>1
  <2> HIDE DEF n, lo, hi, k, aw, bw, mid
  <2>4. hi <= n
    BY <1>3, <2>1, <2>2
  <2>5. lo <= k
    BY <2>1, <2>3
  <2> QED BY <2>1, <2>4, <2>5
<1>5. PICK u : /\ Weaves(u, rk, g, lo, k, hi, rest)
               /\ \A i \in lo + 1 .. k : w.scratch[i] = l[u[i]]
  BY DEF Woven
<1>6. /\ from \in rest /\ rest \subseteq lo + 1 .. hi
      /\ \A q \in rest : q # from => Before(rk, g[from], g[q])
  <2>1. /\ w.a \in Nat /\ w.b \in Nat /\ r.lo <= w.a /\ w.a <= r.mid /\ r.mid <= w.b /\ w.b <= r.hi
        /\ r.hi <= n
    BY <1>3, <1>4
  <2>2. /\ OrderedRun(rk, g, r.lo, r.mid) /\ OrderedRun(rk, g, r.mid, r.hi)
        /\ left /\ w.b < r.hi => Before(rk, g[w.a + 1], g[w.b + 1])
        /\ ~left /\ w.a < r.mid => Before(rk, g[w.b + 1], g[w.a + 1])
        /\ r.lo \in Nat /\ r.mid \in Nat /\ r.hi \in Nat /\ PlacedFrom(w, r, left)
    OBVIOUS
  <2> HIDE DEF n, rk
  <2>3. /\ From(w, left) \in Rest(w, r) /\ Rest(w, r) \subseteq r.lo + 1 .. r.hi
        /\ \A q \in Rest(w, r) : q # From(w, left) => Before(rk, g[From(w, left)], g[q])
    BY <1>1, <1>2, <2>1, <2>2, TakenFirst
  <2> QED BY <2>3
<1>7. /\ x.before = w.before /\ x.k = k + 1 /\ Ranks(x) = rk
      /\ Rest(x, r) = rest \ {from}
      /\ \A i \in lo + 1 .. k : x.scratch[i] = w.scratch[i]
      /\ x.scratch[k + 1] = e[from]
  BY PlacedIs
<1> DEFINE v == Longer(u, g, lo, k, from)
<1> HIDE DEF n, rk, x, lo, hi, k, from, rest
<1>8. Weaves(v, rk, g, lo, k + 1, hi, rest \ {from})
  <2>1. /\ n \in Nat /\ g \in [1 .. n -> 1 .. n] /\ lo \in Nat /\ k \in Nat /\ hi \in Nat /\ lo <= k /\ hi <= n
        /\ rest \in SUBSET (lo + 1 .. hi) /\ from \in rest
    BY <1>1, <1>2, <1>3, <1>4, <1>6
  <2>2. /\ \A q \in rest : q # from => Before(rk, g[from], g[q])
        /\ Weaves(u, rk, g, lo, k, hi, rest)
    BY <1>5, <1>6
  <2> HIDE DEF v
  <2> QED BY <2>1, <2>2, WeavesOn, Zenon DEF v
<1>9. \A i \in lo + 1 .. k + 1 : v[i] = IF i = k + 1 THEN g[from] ELSE u[i]
  BY DEF Longer
<1> HIDE DEF v
<1>10. ASSUME NEW i \in lo + 1 .. k + 1 PROVE x.scratch[i] = l[v[i]]
  <2>1. CASE i = k + 1
    <3>1. from \in 1 .. n
      BY <1>1, <1>4, <1>6
    <3> QED BY <1>2, <1>7, <1>9, <2>1, <3>1
  <2>2. CASE i # k + 1
    <3>1. i \in lo + 1 .. k
      BY <1>3, <1>4, <2>2
    <3> QED BY <1>5, <1>7, <1>9, <2>2, <3>1
  <2> QED BY <2>1, <2>2
<1> QED BY <1>7, <1>8, <1>10 DEF Woven, x, lo, hi, k, l

\* A merge written back: its run is in order as well, and the later ones keep their
\* halves.
LEMMA WrittenBack ==
  ASSUME NEW x \in SortState, NEW p \in Nat, p = Len(x.scratch), p <= Len(x.before),
         NEW M \in Seq(MergesOf(p)), PostOrder(M, 0, p), NEW t \in 1 .. Len(M),
         NEW e, NEW g, Arranged(g, x, e), Reached(g, x, M, t), Woven(g, x, M[t]), x.k = M[t].hi,
         NEW c, \A i \in 1 .. Len(x.before) : c[i] = IF i \in M[t].lo + 1 .. M[t].hi THEN x.scratch[i] ELSE e[i]
  PROVE  \E h : /\ Arranged(h, x, c)
                /\ \A j \in 1 .. t : OrderedRun(Ranks(x), h, M[j].lo, M[j].hi)
                /\ \A j \in t + 1 .. Len(M) : Split(h, M[j])
<1> DEFINE n == Len(x.before)
           l == x.before
           rk == Ranks(x)
           r == M[t]
           lo == r.lo
           hi == r.hi
<1>1. n \in Nat /\ rk \in [1 .. n -> Int]
  BY RanksAre
<1>2. Len(M) \in Nat /\ \A j \in 1 .. Len(M) : M[j] \in MergesOf(p)
  OBVIOUS
<1>3. MergesOf(p) \subseteq MergesOf(n)
  <2>1. p <= n
    OBVIOUS
  <2> HIDE DEF n
  <2>2. 0 .. p \subseteq 0 .. n
    BY <1>1, <2>1
  <2> QED BY <2>2 DEF MergesOf
<1>4. /\ g \in [1 .. n -> 1 .. n]
      /\ \A i, j \in 1 .. n : g[i] = g[j] => i = j
      /\ \A i \in 1 .. n : e[i] = l[g[i]]
      /\ \A i \in 1 .. n : i <= p <=> e[i] # Hole
      /\ \A i, j \in p + 1 .. n : i < j => g[i] < g[j]
  BY DEF Arranged
<1>5. PICK u : /\ Weaves(u, rk, g, lo, hi, hi, Rest(x, r))
               /\ \A i \in lo + 1 .. hi : x.scratch[i] = l[u[i]]
  BY DEF Woven
<1>6. r \in MergesOf(p) /\ lo \in Nat /\ hi \in Nat /\ hi <= p /\ p <= n /\ hi <= n
  <2>1. r \in MergesOf(p)
    BY <1>2
  <2> HIDE DEF r
  <2>2. r.lo \in Nat /\ r.hi \in Nat /\ r.hi <= p
    BY <2>1, MergeIs
  <2> QED BY <1>1, <2>1, <2>2
<1> HIDE DEF n, rk, r, lo, hi, l
<1> DEFINE h == Rewoven(g, u, lo, hi)
<1>7. Within(h, g, n, lo, hi) /\ OrderedRun(rk, h, lo, hi)
  BY <1>1, <1>4, <1>5, <1>6, WovenBack
<1>8. \A i \in 1 .. n : h[i] = IF i \in lo + 1 .. hi THEN u[i] ELSE g[i]
  BY <1>4 DEF Rewoven
<1> HIDE DEF h
<1>9. /\ h \in [1 .. n -> 1 .. n]
      /\ \A i, j \in 1 .. n : h[i] = h[j] => i = j
      /\ \A i \in lo + 1 .. hi : \E q \in lo + 1 .. hi : h[i] = g[q]
      /\ \A i \in 1 .. n : i \notin lo + 1 .. hi => h[i] = g[i]
  BY <1>7 DEF Within
<1>10. \A i \in 1 .. n : c[i] = IF i \in lo + 1 .. hi THEN x.scratch[i] ELSE e[i]
  BY DEF n, lo, hi, r
<1>11. ASSUME NEW i \in 1 .. n PROVE c[i] = l[h[i]]
  BY <1>4, <1>5, <1>8, <1>10
<1>12. ASSUME NEW i \in 1 .. n PROVE i <= p <=> c[i] # Hole
  <2>1. CASE i \in lo + 1 .. hi
    <3>1. PICK q \in lo + 1 .. hi : h[i] = g[q]
      BY <1>9, <2>1
    <3>2. q \in 1 .. n /\ q <= p /\ i <= p
      BY <1>1, <1>6, <2>1
    <3>3. c[i] = e[q]
      BY <1>4, <1>11, <3>1, <3>2
    <3> QED BY <1>4, <3>2, <3>3
  <2>2. CASE i \notin lo + 1 .. hi
    BY <1>4, <1>10, <2>2
  <2> QED BY <2>1, <2>2
<1>13. ASSUME NEW i \in p + 1 .. n, NEW j \in p + 1 .. n, i < j PROVE h[i] < h[j]
  <2>1. i \in 1 .. n /\ j \in 1 .. n /\ i \notin lo + 1 .. hi /\ j \notin lo + 1 .. hi
    BY <1>1, <1>6, SMTT(30)
  <2> QED BY <1>4, <1>9, <1>13, <2>1
<1>14. Arranged(h, x, c)
  <2>1. p = Len(x.scratch)
    OBVIOUS
  <2> QED BY <1>9, <1>11, <1>12, <1>13, <2>1 DEF Arranged, n, l
<1>15. ASSUME NEW j \in 1 .. t PROVE OrderedRun(rk, h, M[j].lo, M[j].hi)
  <2>1. CASE j = t
    BY <1>7, <2>1 DEF lo, hi, r
  <2>2. CASE j # t
    <3>1. j \in 1 .. t - 1 /\ j \in 1 .. Len(M)
      BY <1>2, <2>2
    <3>2. Beside(M[j], r)
      BY <3>1 DEF PostOrder, r
    <3>3. OrderedRun(rk, g, M[j].lo, M[j].hi)
      BY <3>1 DEF Reached, rk
    <3>4. M[j] \in MergesOf(n) /\ r \in MergesOf(n)
      BY <1>2, <1>3, <1>6, <3>1
    <3> DEFINE q == M[j]
    <3>5. q \in MergesOf(n) /\ Beside(q, r) /\ OrderedRun(rk, g, q.lo, q.hi)
      BY <3>2, <3>3, <3>4
    <3> HIDE DEF q
    <3>6. OrderedRun(rk, h, q.lo, q.hi)
      BY <1>1, <1>7, <3>4, <3>5, OrderStays DEF lo, hi
    <3> QED BY <3>6 DEF q
  <2> QED BY <2>1, <2>2
<1>16. ASSUME NEW j \in t + 1 .. Len(M) PROVE Split(h, M[j])
  <2>1. j \in t .. Len(M) /\ j \in 1 .. Len(M) /\ t \in 1 .. j - 1
    BY <1>2
  <2>2. Beside(r, M[j])
    BY <2>1 DEF PostOrder, r
  <2>3. Split(g, M[j])
    BY <2>1 DEF Reached
  <2>4. M[j] \in MergesOf(n) /\ r \in MergesOf(n)
    BY <1>2, <1>3, <1>6, <2>1
  <2> DEFINE q == M[j]
  <2>5. q \in MergesOf(n) /\ Beside(r, q) /\ Split(g, q)
    BY <2>2, <2>3, <2>4
  <2> HIDE DEF q
  <2>6. Split(h, q)
    BY <1>1, <1>7, <2>4, <2>5, SplitStays DEF lo, hi
  <2> QED BY <2>6 DEF q
<1> QED BY <1>14, <1>15, <1>16 DEF rk

\* When the last merge has been written back, the elements are as the standard has them.
LEMMA SortedIs ==
  ASSUME NEW w \in SortState, Len(w.scratch) <= Len(w.before), NEW e, NEW g, Arranged(g, w, e),
         OrderedRun(Ranks(w), g, 0, Len(w.scratch))
  PROVE  [k \in 1 .. Len(w.before) |-> e[k]] = Sorted(w)
<1> DEFINE n == Len(w.before)
           p == Len(w.scratch)
           l == w.before
           rk == Ranks(w)
<1>1. /\ n \in Nat /\ DOMAIN l = 1 .. n /\ rk \in [1 .. n -> Int]
      /\ \A i \in 1 .. n : /\ rk[i] = Rank(w, l[i])
                           /\ l[i] = Hole => rk[i] = MaxKey + 2
                           /\ l[i] # Hole => rk[i] < MaxKey + 2
  BY RanksAre
<1>2. p \in Nat /\ p <= n
  BY DEF SortState
<1>3. /\ g \in [1 .. n -> 1 .. n]
      /\ \A i \in 1 .. n : e[i] = l[g[i]]
      /\ \A i \in 1 .. n : i <= p <=> e[i] # Hole
      /\ \A i, j \in p + 1 .. n : i < j => g[i] < g[j]
      /\ \A i, j \in 0 + 1 .. p : i < j => Before(rk, g[i], g[j])
  BY DEF Arranged, OrderedRun
<1>4. Sorted(w) = [k \in 1 .. n |-> l[CHOOSE i \in 1 .. n : Cardinality({j \in 1 .. n : Before(rk, j, i)}) = k - 1]]
  <2> DEFINE Ahead(i, j) == \/ Rank(w, l[i]) < Rank(w, l[j])
                            \/ Rank(w, l[i]) = Rank(w, l[j]) /\ i < j
  <2>1. Sorted(w) = [k \in 1 .. n |-> l[CHOOSE i \in 1 .. n : Cardinality({j \in 1 .. n : Ahead(j, i)}) = k - 1]]
    <3> HIDE DEF n
    <3> QED BY <1>1 DEF Sorted
  <2>2. \A i, j \in 1 .. n : Ahead(j, i) <=> Before(rk, j, i)
    <3> HIDE DEF n, rk
    <3> QED BY <1>1 DEF Before
  <2> HIDE DEF Ahead, n, rk, l
  <2>3. \A i \in 1 .. n : {j \in 1 .. n : Ahead(j, i)} = {j \in 1 .. n : Before(rk, j, i)}
    BY <2>2
  <2>4. \A k \in 1 .. n : (CHOOSE i \in 1 .. n : Cardinality({j \in 1 .. n : Ahead(j, i)}) = k - 1)
                          = CHOOSE i \in 1 .. n : Cardinality({j \in 1 .. n : Before(rk, j, i)}) = k - 1
    BY <2>3
  <2> QED BY <2>1, <2>4
<1> HIDE DEF n, p, l, rk
<1>5. ASSUME NEW i \in 1 .. n, NEW j \in 1 .. n, i < j PROVE Before(rk, g[i], g[j])
  <2>0. g[i] \in 1 .. n /\ g[j] \in 1 .. n /\ e[i] = l[g[i]] /\ e[j] = l[g[j]]
    BY <1>3
  <2>1. CASE j <= p
    <3>1. i \in 0 + 1 .. p /\ j \in 0 + 1 .. p
      BY <1>2, <1>5, <2>1
    <3> QED BY <1>3, <1>5, <3>1
  <2>2. CASE i <= p /\ ~(j <= p)
    <3>1. l[g[i]] # Hole /\ l[g[j]] = Hole
      BY <1>3, <2>0, <2>2
    <3>2. rk[g[i]] < rk[g[j]]
      BY <1>1, <2>0, <3>1
    <3> QED BY <3>2 DEF Before
  <2>3. CASE ~(i <= p)
    <3>1. ~(j <= p)
      BY <1>2, <1>5, <2>3
    <3>2. l[g[i]] = Hole /\ l[g[j]] = Hole
      BY <1>3, <2>0, <2>3, <3>1
    <3>3. rk[g[i]] = rk[g[j]]
      BY <1>1, <2>0, <3>2
    <3>4. i \in p + 1 .. n /\ j \in p + 1 .. n
      BY <1>1, <1>2, <2>3, <3>1
    <3>5. g[i] < g[j]
      BY <1>3, <1>5, <3>4
    <3> QED BY <3>3, <3>5 DEF Before
  <2> QED BY <2>1, <2>2, <2>3
<1>6. OrderedRun(rk, g, 0, n)
  <2>1. 0 + 1 = 1
    OBVIOUS
  <2> QED BY <1>5, <2>1 DEF OrderedRun
<1>7. \A k \in 1 .. n : g[k] = CHOOSE i \in 1 .. n : Cardinality({j \in 1 .. n : Before(rk, j, i)}) = k - 1
  BY <1>1, <1>3, <1>6, PlaceCounted
<1>8. \A k \in 1 .. n :
        e[k] = l[CHOOSE i \in 1 .. n : Cardinality({j \in 1 .. n : Before(rk, j, i)}) = k - 1]
  BY <1>3, <1>7
<1>9. [k \in 1 .. n |-> e[k]] = Sorted(w)
  BY <1>4, <1>8, Zenon
<1> QED BY <1>9 DEF n

-----------------------------------------------------------------------------
(* The order is kept.                                                      *)

\* After compaction the halves of every merge stand apart, and nothing is placed.
LEMMA SortBegins ==
  ASSUME NEW a, Fits(a), NEW w \in SortState, w.before = Live(a),
         NEW p, p = Len(Flattened(Live(a))), Len(w.scratch) = p, ~(p < 2)
  PROVE  Len(w.before) = a.length /\ Ordering(Merging(w, Merges(p)), Compacted(a).elements)
<1> DEFINE n == a.length
           l == w.before
           s == Flattened(Live(a))
           e == Compacted(a).elements
           M == Merges(p)
           x == Merging(w, M)
<1>1. PICK g : Packs(g, n, s, l)
  BY CompactPacks
<1>2. /\ n \in Nat /\ p \in Nat /\ p <= n /\ Len(l) = n /\ s \in Seq(Cell) /\ p = Len(s)
  BY FitsParts, LiveIs, CompactedShows
<1>3. \A i \in 1 .. n : e[i] = IF i <= p THEN s[i] ELSE Hole
  <2> DEFINE b == Compacted(a)
             v == Live(b)
  <2>1. /\ Fits(b) /\ b.length = n
        /\ v = [k \in 1 .. n |-> IF k <= p THEN s[k] ELSE Hole]
    BY CompactedShows DEF Shows
  <2> HIDE DEF b, v, n, s
  <2>2. \A k \in 1 .. n : v[k] = b.elements[k]
    BY <2>1, LiveIs DEF v
  <2>3. \A k \in 1 .. n : v[k] = IF k <= p THEN s[k] ELSE Hole
    BY <2>1
  <2> QED BY <2>2, <2>3 DEF b
<1> HIDE DEF n, l, s, e
<1>4. /\ g \in [1 .. n -> 1 .. n]
      /\ \A i, j \in 1 .. n : g[i] = g[j] => i = j
      /\ \A i \in 1 .. n : l[g[i]] = IF i <= p THEN s[i] ELSE Hole
      /\ \A i \in 1 .. p : s[i] # Hole
      /\ \A i, j \in 1 .. n : i < j /\ (j <= p \/ i > p) => g[i] < g[j]
  <2>1. /\ g \in [1 .. n -> 1 .. n]
        /\ \A i, j \in 1 .. n : g[i] = g[j] => i = j
        /\ \A i \in 1 .. n : l[g[i]] = IF i <= Len(s) THEN s[i] ELSE Hole
        /\ \A i \in 1 .. Len(s) : s[i] # Hole
        /\ \A i, j \in 1 .. n : i < j /\ (j <= Len(s) \/ i > Len(s)) => g[i] < g[j]
    BY <1>1, Zenon DEF Packs
  <2>2. p = Len(s)
    BY <1>2
  <2> QED BY <2>1, <2>2
<1>5. M \in Seq(MergesOf(p)) /\ M # <<>> /\ PostOrder(M, 0, p)
  BY <1>2, MergesAre, MergesOrder
<1> HIDE DEF M
<1>6. Len(M) \in Nat /\ 1 \in 1 .. Len(M) /\ \A t \in 1 .. Len(M) : M[t] \in MergesOf(p)
  <2>1. Len(M) \in Nat /\ Len(M) > 0
    BY <1>5, EmptySeq
  <2> QED BY <1>5, <2>1
<1>7. MergesOf(p) \subseteq [lo : Nat, mid : Nat, hi : Nat]
  BY <1>2, MergeIs
<1>8. M \in Seq([lo : Nat, mid : Nat, hi : Nat])
  BY <1>5, <1>7, SeqMonotonic
<1>9. g \in [1 .. Len(w.before) -> 1 .. Len(w.before)]
  BY <1>2, <1>4 DEF l
<1>10. /\ x.todo = M /\ x.scratch = w.scratch /\ x.before = l /\ Ranks(x) = Ranks(w) /\ Woven(g, x, M[1])
  BY <1>5, <1>8, <1>9, MergingOrders DEF l
<1> HIDE DEF x
<1>11. Arranged(g, x, e)
  <2>1. ASSUME NEW i \in 1 .. n PROVE e[i] = l[g[i]] /\ (i <= p <=> e[i] # Hole)
    <3>1. e[i] = l[g[i]]
      BY <1>3, <1>4
    <3>2. CASE i <= p
      <4>1. i \in 1 .. p
        BY <1>2, <3>2
      <4> QED BY <1>3, <1>4, <3>1, <3>2, <4>1
    <3>3. CASE ~(i <= p)
      BY <1>3, <3>1, <3>3
    <3> QED BY <3>1, <3>2, <3>3
  <2>2. ASSUME NEW i \in p + 1 .. n, NEW j \in p + 1 .. n, i < j PROVE g[i] < g[j]
    <3>1. i \in 1 .. n /\ j \in 1 .. n /\ i > p
      <4>1. n \in Nat /\ p \in Nat
        BY <1>2
      <4> QED BY <4>1
    <3> QED BY <1>4, <2>2, <3>1
  <2>3. Len(x.before) = n /\ Len(x.scratch) = p /\ x.before = l
    BY <1>2, <1>10
  <2>4. g \in [1 .. n -> 1 .. n] /\ \A i, j \in 1 .. n : g[i] = g[j] => i = j
    BY <1>4
  <2> QED BY <2>1, <2>2, <2>3, <2>4, Zenon DEF Arranged
<1>12. \A j \in 1 .. Len(M) : Split(g, M[j])
  <2> TAKE t \in 1 .. Len(M)
  <2> DEFINE r == M[t]
  <2>1. r \in MergesOf(p)
    BY <1>6
  <2> HIDE DEF r
  <2>2. /\ r.lo \in Nat /\ r.mid \in Nat /\ r.hi \in Nat
        /\ r.lo < r.mid /\ r.mid < r.hi /\ r.hi <= p
    BY <1>2, <2>1, MergeIs
  <2>3. ASSUME NEW i \in r.lo + 1 .. r.mid, NEW j \in r.mid + 1 .. r.hi PROVE g[i] < g[j]
    <3>1. i \in 1 .. n /\ j \in 1 .. n /\ i < j /\ j <= p
      <4>1. n \in Nat /\ p \in Nat /\ p <= n
        BY <1>2
      <4> QED BY <2>2, <4>1, SMTT(30)
    <3> QED BY <1>4, <3>1
  <2>4. Split(g, r)
    BY <2>3 DEF Split
  <2> QED BY <2>4 DEF r
<1>13. Reached(g, x, M, 1)
  <2>1. /\ Len(x.todo) = Len(M) - 1 + 1 /\ 1 .. 1 - 1 = {}
        /\ \A k \in 1 .. Len(x.todo) : 1 - 1 + k = k
    BY <1>6, <1>10
  <2> QED BY <1>6, <1>10, <1>12, <2>1 DEF Reached
<1>14. Ordering(x, e)
  <2>1. Merges(Len(x.scratch)) = M /\ x.todo[1] = M[1]
    BY <1>10 DEF M
  <2> QED BY <1>10, <1>11, <1>13, <2>1 DEF Ordering
<1> QED BY <1>2, <1>14 DEF x, e, M, l, n

\* A sort begins in order.
LEMMA SortOrders == ArrayInv /\ Sort => OrderInv'
<1> SUFFICES ASSUME ArrayInv, Sort PROVE OrderInv'
  OBVIOUS
<1>1. PICK key \in Keys, honest \in BOOLEAN :
        LET present == Len(Flattened(Live(store)))
            fresh   == [method |-> "sort", todo |-> <<>>, a |-> 0, b |-> 0, k |-> 0,
                        scratch |-> SubSeq(Compacted(store).elements, 1, present),
                        key |-> key, honest |-> honest, before |-> Live(store)]
        IN  /\ store' = Compacted(store)
            /\ walk' = IF present < 2 THEN <<>> ELSE <<Merging(fresh, Merges(present))>>
  BY DEF Sort
<1> DEFINE p == Len(Flattened(Live(store)))
           e == Compacted(store).elements
           scratch == SubSeq(e, 1, p)
           fresh == [method |-> "sort", todo |-> <<>>, a |-> 0, b |-> 0, k |-> 0, scratch |-> scratch,
                     key |-> key, honest |-> honest, before |-> Live(store)]
<1>2. Fits(store)
  BY DEF ArrayInv
<1>3. /\ p \in Nat /\ p <= store.length /\ Fits(Compacted(store))
      /\ Compacted(store).length = store.length /\ store.length \in Nat
      /\ Live(store) \in Seq(Cell)
  BY <1>2, CompactedShows, LiveIs, FitsParts DEF Shows
<1>4. e \in Seq(Cell) /\ p <= Len(e) /\ Len(e) \in Nat
  <2> HIDE DEF p
  <2> QED BY <1>3, FitsParts
<1>5. store' = Compacted(store) /\ walk' = IF p < 2 THEN <<>> ELSE <<Merging(fresh, Merges(p))>>
  BY <1>1
<1> HIDE DEF p, e
<1>6. scratch \in Seq(Cell) /\ Len(scratch) = p
  BY <1>3, <1>4, SubSeqProperties
<1> HIDE DEF scratch
<1>7. fresh \in SortState /\ fresh.scratch = scratch /\ fresh.before = Live(store)
  <2>1. <<>> \in Seq([lo : Nat, mid : Nat, hi : Nat])
    BY EmptySeq
  <2> QED BY <1>3, <1>6, <2>1 DEF SortState
<1> DEFINE x == Merging(fresh, Merges(p))
<1>8. x.before = Live(store)
  BY <1>7 DEF Merging
<1> HIDE DEF fresh
<1>9. CASE p < 2
  BY <1>5, <1>9 DEF OrderInv
<1>10. CASE ~(p < 2)
  <2>1. Len(fresh.before) = store.length /\ Ordering(x, e)
    BY <1>2, <1>6, <1>7, <1>10, SortBegins DEF p, e
  <2> HIDE DEF x
  <2>2. walk' = <<x>> /\ Len(x.before) = store'.length /\ store'.elements = e
    BY <1>3, <1>5, <1>7, <1>8, <1>10, <2>1 DEF x, e
  <2> QED BY <2>1, <2>2 DEF OrderInv
<1> QED BY <1>9, <1>10
\* The comparator's answer, or the run that is not empty, gives the first of those left.
LEMMA TakeOrders ==
  ASSUME NEW w \in SortState, w.honest, NEW r, w.todo[1] = r, Merged(w, r),
         r.lo \in Nat, r.mid \in Nat, r.hi \in Nat, r.hi <= Len(w.scratch), Len(w.scratch) <= Len(w.before),
         NEW g, Arranged(g, w, store.elements), Split(g, r), NEW left \in TakesLeft(w)
  PROVE  /\ left \in BOOLEAN /\ PlacedFrom(w, r, left)
         /\ left /\ w.b < r.hi => Before(Ranks(w), g[w.a + 1], g[w.b + 1])
         /\ ~left /\ w.a < r.mid => Before(Ranks(w), g[w.b + 1], g[w.a + 1])
<1> DEFINE n == Len(w.before)
           p == Len(w.scratch)
           l == w.before
           rk == Ranks(w)
           e == store.elements
           a == w.a
           b == w.b
<1>1. a \in Nat /\ b \in Nat /\ p \in Nat
  BY DEF SortState
<1>2. left \in BOOLEAN /\ PlacedFrom(w, r, left)
  BY <1>1, TakesOne
<1>3. /\ n \in Nat /\ rk \in [1 .. n -> Int]
      /\ \A i \in 1 .. n : l[i] \in Cell /\ rk[i] = Rank(w, l[i])
  BY RanksAre
<1>4. /\ g \in [1 .. n -> 1 .. n]
      /\ \A i \in 1 .. n : e[i] = l[g[i]]
      /\ \A i \in 1 .. n : i <= p <=> e[i] # Hole
  BY DEF Arranged
<1>5. r.lo <= a /\ a <= r.mid /\ r.mid <= b /\ b <= r.hi
  BY DEF Merged
<1>6. CASE a < r.mid /\ b < r.hi
  <2>1. /\ a + 1 \in r.lo + 1 .. r.mid /\ b + 1 \in r.mid + 1 .. r.hi
        /\ a + 1 \in 1 .. n /\ b + 1 \in 1 .. n /\ a + 1 <= p /\ b + 1 <= p
    <3> DEFINE lo == r.lo
               mid == r.mid
               hi == r.hi
    <3>1. /\ lo \in Nat /\ mid \in Nat /\ hi \in Nat /\ hi <= p /\ p <= n /\ n \in Nat
          /\ lo <= a /\ a < mid /\ mid <= b /\ b < hi
      BY <1>3, <1>5, <1>6
    <3> HIDE DEF lo, mid, hi, a, b, n, p
    <3>2. /\ a + 1 \in lo + 1 .. mid /\ b + 1 \in mid + 1 .. hi
          /\ a + 1 \in 1 .. n /\ b + 1 \in 1 .. n /\ a + 1 <= p /\ b + 1 <= p
      BY <1>1, <3>1
    <3> QED BY <3>2 DEF lo, mid, hi
  <2> DEFINE i == g[a + 1]
             j == g[b + 1]
             x == e[a + 1]
             y == e[b + 1]
  <2>2. i \in 1 .. n /\ j \in 1 .. n /\ i < j
    <3>1. i < j
      BY <2>1 DEF Split
    <3> HIDE DEF n
    <3> QED BY <1>4, <2>1, <3>1
  <2>3. x = l[i] /\ y = l[j] /\ x # Hole /\ y # Hole
    BY <1>4, <2>1
  <2>4. x \in Cell /\ y \in Cell /\ rk[i] = Rank(w, x) /\ rk[j] = Rank(w, y)
    BY <1>3, <2>2, <2>3
  <2>5. PICK order \in Orders(w, x, y) : left = (order <= 0)
    BY <1>6, Zenon DEF TakesLeft
  <2> HIDE DEF i, j, x, y, n, rk
  <2>6. /\ order <= 0 => rk[i] <= rk[j]
        /\ ~(order <= 0) => rk[j] < rk[i]
    BY <2>3, <2>4, OrdersTell
  <2>7. (rk[i] <= rk[j] => Before(rk, i, j)) /\ (rk[j] < rk[i] => Before(rk, j, i))
    BY <1>3, <2>2, BeforeOrders
  <2>8. (left => Before(rk, i, j)) /\ (~left => Before(rk, j, i))
    BY <2>5, <2>6, <2>7, Zenon
  <2> QED BY <1>2, <2>8 DEF i, j, rk
<1>7. CASE ~(a < r.mid /\ b < r.hi)
  BY <1>2, <1>7 DEF PlacedFrom
<1> QED BY <1>6, <1>7

\* A turn of a merge keeps the order of what is placed.
LEMMA PlacedOrders ==
  ASSUME ArrayInv, OrderInv, walk # <<>>, walk[1].method = "sort", walk[1].honest,
         NEW left \in TakesLeft(walk[1])
  PROVE  LET w == walk[1]
             x == Placed(w, left)
         IN  /\ Ordering(x, store.elements)
             /\ x \in SortState /\ x.todo = w.todo /\ x.before = w.before /\ x.key = w.key /\ x.honest
             /\ Len(x.scratch) = Len(w.scratch) /\ x.k <= w.todo[1].hi
             /\ Len(w.before) = store.length
<1> DEFINE w == walk[1]
           r == w.todo[1]
           e == store.elements
           x == Placed(w, left)
           p == Len(w.scratch)
           M == Merges(p)
<1>1. /\ SortFits(w, store) /\ w \in SortState
      /\ w.a \in Nat /\ w.b \in Nat /\ w.todo \in Seq(MergesOf(p)) /\ w.todo # <<>>
      /\ r.lo \in Nat /\ r.mid \in Nat /\ r.hi \in Nat
      /\ r.hi <= p /\ p <= store.length /\ p \in Nat
      /\ Merged(w, r)
  BY SortIs
<1>2. Len(w.before) = store.length /\ Ordering(w, e) /\ w.honest
  BY DEF OrderInv
<1> HIDE DEF w
<1>3. PICK g, t : Arranged(g, w, e) /\ Reached(g, w, M, t) /\ Woven(g, w, r)
  BY <1>2 DEF Ordering
<1>4. e \in Seq(Cell) /\ r.hi <= Len(e)
  <2>1. e \in Seq(Cell) /\ Len(e) \in Nat /\ store.length <= Len(e) /\ store.length \in Nat
    BY FitsParts DEF ArrayInv
  <2> HIDE DEF e, r, p
  <2> QED BY <1>1, <2>1
<1>5. M \in Seq(MergesOf(p)) /\ PostOrder(M, 0, p)
  BY <1>1, MergesAre, MergesOrder
<1> HIDE DEF M
<1>6. /\ t \in 1 .. Len(M) /\ Len(M) \in Nat
      /\ M[t] = r
      /\ \A j \in 1 .. t - 1 : OrderedRun(Ranks(w), g, M[j].lo, M[j].hi)
      /\ \A j \in t .. Len(M) : Split(g, M[j])
  <2>1. /\ t \in 1 .. Len(M) /\ Len(w.todo) = Len(M) - t + 1
        /\ \A k \in 1 .. Len(w.todo) : w.todo[k] = M[t - 1 + k]
        /\ \A j \in 1 .. t - 1 : OrderedRun(Ranks(w), g, M[j].lo, M[j].hi)
        /\ \A j \in t .. Len(M) : Split(g, M[j])
    BY <1>3 DEF Reached
  <2>2. Len(M) \in Nat
    BY <1>5
  <2>3. 1 \in 1 .. Len(w.todo) /\ t - 1 + 1 = t
    BY <2>1, <2>2
  <2> QED BY <2>1, <2>2, <2>3
<1> HIDE DEF r
<1>7. OrderedRun(Ranks(w), g, r.lo, r.mid) /\ OrderedRun(Ranks(w), g, r.mid, r.hi)
  <2>1. Made(M, t - 1, r.lo, r.mid) /\ Made(M, t - 1, r.mid, r.hi)
    BY <1>5, <1>6 DEF PostOrder
  <2> QED BY <1>1, <1>6, <2>1, HalfOrdered
<1>8. Split(g, r)
  <2>1. t \in t .. Len(M)
    BY <1>6
  <2> QED BY <1>6, <2>1
<1>9. p <= Len(w.before)
  BY <1>1, <1>2
<1>10. w.todo[1] = r
  BY DEF r
<1>11. left \in TakesLeft(w)
  BY DEF w
<1>12. /\ left \in BOOLEAN /\ PlacedFrom(w, r, left)
       /\ left /\ w.b < r.hi => Before(Ranks(w), g[w.a + 1], g[w.b + 1])
       /\ ~left /\ w.a < r.mid => Before(Ranks(w), g[w.b + 1], g[w.a + 1])
  BY <1>1, <1>2, <1>3, <1>8, <1>9, <1>10, <1>11, TakeOrders
<1>13. x = PlacedOver(w, e, left)
  BY DEF Placed, PlacedOver
<1> HIDE DEF x
<1>14. Woven(g, x, r)
  BY <1>1, <1>3, <1>7, <1>9, <1>12, <1>13, PlacedWeaves
<1>15. /\ x.before = w.before /\ x.key = w.key /\ x.honest = w.honest
       /\ x.todo = w.todo /\ Ranks(x) = Ranks(w)
  <2>1. /\ w \in SortState /\ Merged(w, r) /\ left \in BOOLEAN /\ PlacedFrom(w, r, left)
        /\ r.lo \in Nat /\ r.mid \in Nat /\ r.hi \in Nat /\ r.hi <= Len(w.scratch)
    BY <1>1, <1>12
  <2> HIDE DEF e
  <2> DEFINE y == PlacedOver(w, e, left)
  <2>2. /\ y.before = w.before /\ y.key = w.key /\ y.honest = w.honest
        /\ y.todo = w.todo /\ y.k = w.k + 1 /\ Ranks(y) = Ranks(w)
        /\ Rest(y, r) = Rest(w, r) \ {From(w, left)}
        /\ \A i \in r.lo + 1 .. w.k : y.scratch[i] = w.scratch[i]
        /\ y.scratch[w.k + 1] = e[From(w, left)]
    BY <2>1, PlacedIs
  <2> QED BY <1>13, <2>2
<1>16. x \in SortState /\ Len(x.scratch) = p /\ x.k <= r.hi
  <2>1. PICK d : DrawnFrom(d, w, r, e)
    BY <1>1, <1>10 DEF SortFits
  <2> QED BY <1>1, <1>4, <1>12, <1>13, <2>1, PlacedDraws, SMTT(30)
<1>17. Arranged(g, x, e)
  <2>1. Len(x.scratch) = Len(w.scratch)
    BY <1>16
  <2> QED BY <1>3, <1>15, <2>1 DEF Arranged
<1>18. Reached(g, x, M, t)
  BY <1>3, <1>15 DEF Reached
<1>19. Ordering(x, e)
  <2>1. Merges(Len(x.scratch)) = M /\ x.todo[1] = r
    BY <1>10, <1>15, <1>16 DEF M
  <2> QED BY <1>14, <1>17, <1>18, <2>1 DEF Ordering
<1> QED BY <1>2, <1>10, <1>15, <1>16, <1>19 DEF w, x, e, p

\* The last turn of a merge writes its run back: the sort is at the next one, or done.
LEMMA BackOrders ==
  ASSUME NEW x \in SortState, NEW e, Ordering(x, e), NEW p \in Nat, p = Len(x.scratch), p <= Len(x.before),
         x.todo \in Seq(MergesOf(p)), x.todo # <<>>, x.k = x.todo[1].hi,
         NEW c, \A i \in 1 .. Len(x.before) :
                  c[i] = IF i \in x.todo[1].lo + 1 .. x.todo[1].hi THEN x.scratch[i] ELSE e[i]
  PROVE  IF Len(x.todo) = 1 THEN [k \in 1 .. Len(x.before) |-> c[k]] = Sorted(x)
         ELSE Ordering(Merging(x, Tail(x.todo)), c)
<1> DEFINE M == Merges(p)
           r == x.todo[1]
           N == [lo : Nat, mid : Nat, hi : Nat]
<1>1. PICK g, t : Arranged(g, x, e) /\ Reached(g, x, M, t) /\ Woven(g, x, r)
  BY DEF Ordering
<1>2. M \in Seq(MergesOf(p)) /\ PostOrder(M, 0, p)
  BY MergesAre, MergesOrder
<1> HIDE DEF M
<1>3. /\ t \in 1 .. Len(M) /\ Len(M) \in Nat /\ Len(x.todo) \in Nat /\ Len(x.todo) = Len(M) - t + 1
      /\ \A k \in 1 .. Len(x.todo) : x.todo[k] = M[t - 1 + k]
  BY <1>1, <1>2 DEF Reached
<1>4. M[t] = r /\ r \in MergesOf(p)
  <2>1. 1 \in 1 .. Len(x.todo) /\ t - 1 + 1 = t
    BY <1>3
  <2>2. M[t] \in MergesOf(p)
    BY <1>2, <1>3
  <2> QED BY <1>3, <2>1, <2>2
<1>5. PICK h : /\ Arranged(h, x, c)
               /\ \A j \in 1 .. t : OrderedRun(Ranks(x), h, M[j].lo, M[j].hi)
               /\ \A j \in t + 1 .. Len(M) : Split(h, M[j])
  <2> HIDE DEF r
  <2>1. x.k = M[t].hi /\ Woven(g, x, M[t])
    BY <1>1, <1>4 DEF r
  <2>2. \A i \in 1 .. Len(x.before) : c[i] = IF i \in M[t].lo + 1 .. M[t].hi THEN x.scratch[i] ELSE e[i]
    BY <1>4 DEF r
  <2>3. /\ M \in Seq(MergesOf(p)) /\ PostOrder(M, 0, p) /\ t \in 1 .. Len(M)
        /\ Arranged(g, x, e) /\ Reached(g, x, M, t)
    BY <1>1, <1>2, <1>3
  <2> QED BY <2>1, <2>2, <2>3, WrittenBack
<1>6. CASE Len(x.todo) = 1
  <2>1. t = Len(M) /\ t \in 1 .. t
    BY <1>3, <1>6
  <2>2. ~(p - 0 < 2)
    <3> HIDE DEF r
    <3> QED BY <1>4, MergeIs
  <2>3. M[t].lo = 0 /\ M[t].hi = p
    BY <1>2, <2>1, <2>2 DEF PostOrder
  <2>4. OrderedRun(Ranks(x), h, 0, Len(x.scratch))
    BY <1>5, <2>1, <2>3
  <2> QED BY <1>5, <1>6, <2>4, SortedIs
<1>7. CASE Len(x.todo) # 1
  <2> DEFINE q == x.todo
             todo == Tail(q)
             y == Merging(x, todo)
  <2>1. /\ todo \in Seq(MergesOf(p)) /\ todo # <<>> /\ Len(todo) = Len(q) - 1
        /\ \A k \in 1 .. Len(todo) : todo[k] = q[k + 1]
    <3>1. q \in Seq(MergesOf(p)) /\ q # <<>> /\ Len(q) # 1
      BY <1>7
    <3> HIDE DEF q
    <3>2. Tail(q) \in Seq(MergesOf(p)) /\ Len(Tail(q)) = Len(q) - 1 /\ Len(q) \in Nat /\ Len(q) > 0
      BY <3>1, EmptySeq
    <3>3. Len(Tail(q)) # 0
      BY <3>1, <3>2
    <3>4. Tail(q) # <<>>
      <4> HIDE DEF todo
      <4> QED BY <3>3, EmptySeq
    <3>5. \A k \in 1 .. Len(Tail(q)) : Tail(q)[k] = q[k + 1]
      BY <3>1, <3>2
    <3> QED BY <3>2, <3>4, <3>5
  <2>2. todo \in Seq(N)
    <3>1. MergesOf(p) \subseteq N
      BY MergeIs
    <3> HIDE DEF todo, N
    <3> QED BY <2>1, <3>1, SeqMonotonic
  <2>3. h \in [1 .. Len(x.before) -> 1 .. Len(x.before)]
    BY <1>5 DEF Arranged
  <2> HIDE DEF todo, q
  <2>4. /\ y.todo = todo /\ y.scratch = x.scratch /\ y.before = x.before /\ Ranks(y) = Ranks(x)
        /\ Woven(h, y, todo[1])
    BY <2>1, <2>2, <2>3, MergingOrders
  <2> HIDE DEF y
  <2>5. Arranged(h, y, c)
    BY <1>5, <2>4 DEF Arranged
  <2>6. Reached(h, y, M, t + 1)
    <3>1. /\ t + 1 \in 1 .. Len(M) /\ Len(todo) = Len(M) - (t + 1) + 1 /\ (t + 1) - 1 = t
          /\ \A k \in 1 .. Len(todo) : k + 1 \in 1 .. Len(q) /\ t - 1 + (k + 1) = (t + 1) - 1 + k
      BY <1>3, <1>7, <2>1 DEF q
    <3>2. \A k \in 1 .. Len(todo) : todo[k] = M[(t + 1) - 1 + k]
      BY <1>3, <2>1, <3>1 DEF q
    <3> QED BY <1>5, <2>4, <3>1, <3>2 DEF Reached
  <2>7. Ordering(y, c)
    <3>1. Merges(Len(y.scratch)) = M /\ y.todo[1] = todo[1]
      BY <2>4 DEF M
    <3> QED BY <2>4, <2>5, <2>6, <3>1 DEF Ordering
  <2> QED BY <1>7, <2>7 DEF y, todo, q
<1> QED BY <1>6, <1>7
\* A turn of a merge keeps the order, and the last of all leaves what the standard says.
LEMMA MergeOrders ==
  ASSUME ArrayInv, OrderInv, Merge
  PROVE  /\ OrderInv'
         /\ walk[1].honest /\ walk' = <<>> => Live(store)' = Sorted(walk[1])
<1> DEFINE w == walk[1]
           r == w.todo[1]
           e == store.elements
           n == store.length
           Back(x) == Place(e, r.lo, SubSeq(x.scratch, r.lo + 1, r.hi))
           Next1(x) == IF Len(x.todo) = 1 THEN <<>> ELSE <<Merging(x, Tail(x.todo))>>
<1>1. walk # <<>> /\ w.method = "sort"
  BY DEF Merge
<1>2. /\ w \in SortState /\ w.todo \in Seq(MergesOf(Len(w.scratch))) /\ w.todo # <<>>
      /\ r.lo \in Nat /\ r.hi \in Nat /\ r.lo < r.hi
      /\ r.hi <= Len(w.scratch) /\ Len(w.scratch) <= n /\ Len(w.scratch) \in Nat
  BY <1>1, SortIs
<1>3. e \in Seq(Cell) /\ Len(e) \in Nat /\ n \in Nat /\ n <= Len(e)
  BY FitsParts DEF ArrayInv
<1>4. ArrayInv' /\ store'.length = n
  BY MergeKeeps
<1>5. PICK left \in TakesLeft(w) :
        LET x == Placed(w, left)
        IN  IF x.k < x.todo[1].hi
            THEN walk' = <<x>> /\ UNCHANGED store
            ELSE /\ store' = [store EXCEPT !.elements =
                                Place(e, x.todo[1].lo, SubSeq(x.scratch, x.todo[1].lo + 1, x.todo[1].hi))]
                 /\ walk' = Next1(x)
  BY Zenon DEF Merge
<1> DEFINE x == Placed(w, left)
<1>6. x.todo = w.todo /\ x.honest = w.honest
  BY <1>2 DEF Placed, SortState
<1>7. CASE ~w.honest
  <2>1. \A todo : Merging(x, todo).honest = w.honest
    BY <1>2 DEF Merging, Placed, SortState
  <2>2. walk' # <<>> => walk'[1].honest = w.honest
    <3> HIDE DEF x, w
    <3>1. walk' \in {<<>>, <<x>>} \cup {<<Merging(x, todo)>> : todo \in {Tail(x.todo)}}
      BY <1>5 DEF x
    <3> QED BY <1>6, <2>1, <3>1
  <2> QED BY <1>7, <2>2 DEF OrderInv
<1>8. CASE w.honest
  <2>1. /\ Ordering(x, e) /\ x \in SortState /\ x.before = w.before /\ x.key = w.key /\ x.honest
        /\ Len(x.scratch) = Len(w.scratch) /\ x.k <= r.hi /\ Len(w.before) = n
    BY <1>1, <1>8, PlacedOrders
  <2>2. Sorted(x) = Sorted(w)
    BY <2>1 DEF Sorted, Rank
  <2> HIDE DEF x, w, e, n, r
  <2>3. x.todo[1] = r /\ x.k \in Nat /\ x.scratch \in Seq(Cell)
    BY <1>6, <2>1 DEF r, SortState
  <2>4. CASE x.k < r.hi
    <3>1. walk' = <<x>> /\ store' = store
      BY <1>5, <2>3, <2>4, Zenon DEF x
    <3> QED BY <2>1, <3>1 DEF OrderInv, e, n
  <2>5. CASE ~(x.k < r.hi)
    <3> DEFINE c == Back(x)
               p == Len(x.scratch)
    <3>1. store' = [store EXCEPT !.elements = c] /\ walk' = Next1(x)
      BY <1>5, <2>3, <2>5, Zenon DEF x
    <3>2. x.k = r.hi
      BY <1>2, <2>1, <2>3, <2>5
    <3>3. \A i \in 1 .. n : c[i] = IF i \in r.lo + 1 .. r.hi THEN x.scratch[i] ELSE e[i]
      <4> DEFINE run == SubSeq(x.scratch, r.lo + 1, r.hi)
      <4>1. /\ run \in Seq(Cell) /\ Len(run) = r.hi - r.lo
            /\ \A i \in 1 .. r.hi - r.lo : run[i] = x.scratch[r.lo + 1 + i - 1]
        <5>1. r.lo + 1 \in Int /\ r.hi \in Int /\ r.lo + 1 <= r.hi /\ r.hi - (r.lo + 1) + 1 = r.hi - r.lo
          BY <1>2
        <5>2. \A i \in r.lo + 1 .. r.hi : x.scratch[i] \in Cell
          BY <1>2, <2>1, <2>3
        <5> QED BY <5>1, <5>2, SubSeqProperties
      <4> HIDE DEF run
      <4>2. \A k \in 1 .. Len(e) : c[k] = IF r.lo < k /\ k <= r.lo + Len(run) THEN run[k - r.lo] ELSE e[k]
        BY <1>2, <1>3, <4>1, PlaceIs DEF run
      <4> HIDE DEF c
      <4> TAKE i \in 1 .. n
      <4>3. i \in 1 .. Len(e) /\ r.lo + Len(run) = r.hi
        BY <1>2, <1>3, <4>1
      <4>4. CASE i \in r.lo + 1 .. r.hi
        <5>0. i \in Int /\ r.lo \in Int /\ r.hi \in Int /\ r.lo + 1 <= i /\ i <= r.hi
          BY <1>2, <4>4
        <5>1. r.lo < i /\ i <= r.hi /\ i - r.lo \in 1 .. r.hi - r.lo /\ r.lo + 1 + (i - r.lo) - 1 = i
          BY <5>0
        <5> QED BY <4>1, <4>2, <4>3, <4>4, <5>1
      <4>5. CASE i \notin r.lo + 1 .. r.hi
        <5>1. ~(r.lo < i /\ i <= r.hi)
          BY <1>2, <4>5
        <5> QED BY <4>2, <4>3, <4>5, <5>1
      <4> QED BY <4>4, <4>5
    <3> HIDE DEF c
    <3>4. store'.elements = c
      <4>1. store \in [length : Nat, elements : Seq(Cell)]
        BY DEF ArrayInv, Fits
      <4> QED BY <3>1, <4>1
    <3>5. IF Len(x.todo) = 1 THEN [k \in 1 .. n |-> c[k]] = Sorted(x)
          ELSE Ordering(Merging(x, Tail(x.todo)), c)
      <4>1. /\ p \in Nat /\ p <= Len(x.before)
            /\ x.todo \in Seq(MergesOf(p)) /\ x.todo # <<>> /\ x.k = x.todo[1].hi
        BY <1>2, <1>6, <2>1, <2>3, <3>2
      <4>2. \A i \in 1 .. Len(x.before) :
              c[i] = IF i \in x.todo[1].lo + 1 .. x.todo[1].hi THEN x.scratch[i] ELSE e[i]
        BY <2>1, <2>3, <3>3
      <4>3. Len(x.before) = n
        BY <2>1
      <4>4. IF Len(x.todo) = 1 THEN [k \in 1 .. Len(x.before) |-> c[k]] = Sorted(x)
            ELSE Ordering(Merging(x, Tail(x.todo)), c)
        BY <2>1, <4>1, <4>2, BackOrders
      <4> QED BY <4>3, <4>4
    <3>6. CASE Len(x.todo) = 1
      <4>1. walk' = <<>>
        BY <3>1, <3>6
      <4>2. Live(store') = [k \in 1 .. n |-> c[k]]
        <5> DEFINE b == store'
        <5>1. Fits(b) /\ b.length = n /\ b.elements = c
          BY <1>4, <3>4 DEF ArrayInv, Fits
        <5> HIDE DEF b
        <5>2. Live(b) \in [1 .. n -> Cell] /\ \A k \in 1 .. n : Live(b)[k] = c[k]
          BY <5>1, LiveIs, LiveFunction
        <5> QED BY <5>2 DEF b
      <4>3. Live(store)' = Live(store')
        BY DEF Live
      <4> QED BY <2>2, <3>5, <3>6, <4>1, <4>2, <4>3 DEF OrderInv, w
    <3>7. CASE Len(x.todo) # 1
      <4> DEFINE y == Merging(x, Tail(x.todo))
      <4>1. walk' = <<y>> /\ Ordering(y, c)
        BY <3>1, <3>5, <3>7
      <4>2. y.before = w.before
        BY <2>1 DEF Merging
      <4> HIDE DEF y
      <4> QED BY <1>4, <2>1, <3>4, <4>1, <4>2 DEF OrderInv
    <3> QED BY <3>6, <3>7
  <2> QED BY <2>4, <2>5
<1> QED BY <1>7, <1>8
\* The walk a callback goes on with is no sort.
LEMMA OnwardLeaves ==
  ASSUME NEW m, m # "sort", NEW i, NEW len, NEW out, Onward(m, i, len, out) \/ walk' = <<>>
  PROVE  ~Sorts(walk')
<1>1. CASE walk' = <<>>
  BY <1>1 DEF Sorts
<1>2. CASE Onward(m, i, len, out)
  <2> DEFINE turns == IF m \in Downward THEN 0 .. i ELSE i .. MaxLength - 1
             due == {j \in turns : Visited(m, j, len)}
             at == IF m \in Downward THEN Max(due) ELSE Min(due)
             w == [method |-> m, at |-> at, len |-> len, out |-> out,
                   seen |-> Unhole(store.elements[at + 1])]
  <2>1. walk' = <<>> \/ walk' = <<w>>
    BY <1>2, Zenon DEF Onward
  <2>2. w.method = m
    OBVIOUS
  <2> HIDE DEF w
  <2> QED BY <2>1, <2>2 DEF Sorts
<1> QED BY <1>1, <1>2

\* Nothing but its own steps moves a sort on, or ends it without an answer.
LEMMA SortAlone ==
  ASSUME [Next]_vars, ~Sort, ~Merge
  PROVE  /\ Sorts(walk') => UNCHANGED <<store, walk>>
         /\ Sorts(walk) /\ walk' = <<>> => answer' # <<>>
<1>1. CASE UNCHANGED <<store, walk>>
  BY <1>1 DEF Sorts
<1>2. CASE Change
  <2>1. ASSUME NEW change, May(change) PROVE ~Sorts(walk)
    BY <2>1 DEF May, Sorts
  <2>2. ~Sorts(walk)
    <3>1. \E change : May(change)
      BY <1>2 DEF Change, Push, Prepend, Pop, Shift, SpliceRun, SpliceTail, SetIndex, DeleteIndex,
                  ReverseAll, FillRange, CopyRange
    <3> QED BY <2>1, <3>1
  <2>3. walk' = walk
    BY <1>2 DEF Change, Push, Prepend, Pop, Shift, SpliceRun, SpliceTail, SetIndex, DeleteIndex,
                ReverseAll, FillRange, CopyRange, Become
  <2> QED BY <2>2, <2>3
<1>3. CASE Call
  <2>1. ~Sorts(walk')
    BY <1>3, OnwardLeaves, WalkAssumption DEF Call
  <2> QED BY <1>3, <2>1 DEF Call, Sorts
<1>4. ASSUME NEW m, NEW out, m # "sort", Answered(m, out) \/ Stopped(m, out)
      PROVE  ~Sorts(walk) /\ ~Sorts(walk')
  <2>1. ~Sorts(walk')
    BY <1>4, OnwardLeaves DEF Answered, Stopped
  <2>2. ~Sorts(walk)
    BY <1>4 DEF Answered, Stopped, Sorts
  <2> QED BY <2>1, <2>2
<1>5. CASE Return
  <2>1. CASE ForEachReturns
    BY <1>4, <2>1 DEF ForEachReturns
  <2>2. CASE MapReturns
    BY <1>4, <2>2 DEF MapReturns
  <2>3. CASE FilterReturns
    BY <1>4, <2>3 DEF FilterReturns
  <2>4. CASE FlatMapReturns
    BY <1>4, <2>4 DEF FlatMapReturns
  <2>5. CASE SomeReturns
    BY <1>4, <2>5 DEF SomeReturns
  <2>6. CASE EveryReturns
    BY <1>4, <2>6 DEF EveryReturns
  <2>7. CASE FindReturns
    BY <1>4, <2>7 DEF FindReturns
  <2>8. CASE ReduceReturns
    BY <1>4, <2>8 DEF ReduceReturns
  <2> QED BY <1>5, <2>1, <2>2, <2>3, <2>4, <2>5, <2>6, <2>7, <2>8 DEF Return
<1>6. CASE CallbackThrows
  BY <1>4, <1>6 DEF CallbackThrows
<1>7. CASE ComparatorThrows
  <2>1. walk' = <<>> /\ answer' = <<Thrown>>
    BY <1>7 DEF ComparatorThrows
  <2> QED BY <2>1 DEF Sorts
<1> QED BY <1>1, <1>2, <1>3, <1>5, <1>6, <1>7 DEF Next, TakeAnswer, vars

\* OrderInv: a sort in progress whose comparator agrees with one order has put in that
\* order what its merges have merged, and keeps equal elements as they stood.
LEMMA OrderInvariance == Spec => []OrderInv
<1>1. Init => OrderInv
  BY DEF Init, OrderInv
<1>2. ArrayInv /\ OrderInv /\ [Next]_vars => OrderInv'
  <2> SUFFICES ASSUME ArrayInv, OrderInv, [Next]_vars PROVE OrderInv'
    OBVIOUS
  <2>1. CASE ~Sort /\ ~Merge
    <3>1. CASE Sorts(walk')
      <4>1. UNCHANGED <<store, walk>>
        BY <2>1, <3>1, SortAlone
      <4> QED BY <4>1 DEF OrderInv
    <3>2. CASE ~Sorts(walk')
      BY <3>2 DEF OrderInv, Sorts
    <3> QED BY <3>1, <3>2
  <2> QED BY <2>1, SortOrders, MergeOrders
<1> QED BY <1>1, <1>2, ArrayInvariance, PTL DEF Spec

\* A sort that its comparator let run to the end, with answers that agree with one
\* order, leaves the values in that order, equal ones as they stood, then the undefined
\* elements, then the holes: in place, whatever the array's length.
THEOREM SortOrdered == Spec => SortExact
<1> DEFINE Ends == walk # <<>> /\ walk' = <<>> /\ answer' = <<>>
           Exact == walk[1].method = "sort" => (walk[1].honest => Live(store)' = Sorted(walk[1]))
<1>1. ArrayInv /\ OrderInv /\ [Next]_vars => [Ends => Exact]_vars
  <2> SUFFICES ASSUME ArrayInv, OrderInv, [Next]_vars, Ends, walk[1].method = "sort", walk[1].honest
               PROVE  Live(store)' = Sorted(walk[1])
    OBVIOUS
  <2>1. ~Sort
    BY DEF Sort
  <2>2. ~(~Sort /\ ~Merge)
    BY SortAlone DEF Sorts
  <2> QED BY <2>1, <2>2, MergeOrders
<1>2. Spec => [][Ends => Exact]_vars
  BY <1>1, ArrayInvariance, OrderInvariance, PTL DEF Spec
<1> QED BY <1>2 DEF SortExact
=============================================================================
