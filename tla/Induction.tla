------------------------------- MODULE Induction -------------------------------
(***************************************************************************)
(* Induction over the natural numbers, and functions defined by recursion  *)
(* on them, stated with sets and functions only, so that a proof can cite  *)
(* them: a predicate is given as the set of the numbers it holds of, the   *)
(* step of a recursion as a function.                                      *)
(***************************************************************************)
EXTENDS Integers, WellFoundedInduction, TLAPS

\* Every set of natural numbers that is not empty has a least element.
LEMMA LeastNat ==
  ASSUME NEW T, T \subseteq Nat, T # {}
  PROVE  \E m \in T : \A n \in T : m <= n
<1> DEFINE R == {ss \in Nat \X Nat : ss[1] < ss[2]}
<1>1. IsWellFoundedOn(R, Nat)
  BY NatLessThanWellFounded DEF OpToRel
<1> HIDE DEF R
<1>2. PICK m \in T : \A n \in T : <<n, m>> \notin R
  BY <1>1, WFMin
<1>3. \A n \in T : ~(n < m)
  BY <1>2 DEF R
<1> QED BY <1>3

\* A set that holds 0, and with each number below L the next one, holds all up to L.
LEMMA UpTo ==
  ASSUME NEW L \in Nat, NEW S, 0 \in S, \A n \in 0..(L - 1) : n \in S => n + 1 \in S
  PROVE  \A n \in 0..L : n \in S
<1> SUFFICES ASSUME NEW k \in 0..L, k \notin S PROVE FALSE
  OBVIOUS
<1> DEFINE T == {n \in 0..L : n \notin S}
<1>1. T \subseteq Nat /\ k \in T
  OBVIOUS
<1> HIDE DEF T
<1>2. PICK m \in T : \A n \in T : m <= n
  BY <1>1, LeastNat
<1>3. m \in 0..L /\ m \notin S /\ m # 0
  BY <1>2 DEF T
<1>4. m - 1 \in 0..(L - 1) /\ m - 1 \in 0..L
  BY <1>3
<1>5. m - 1 \in S
  BY <1>2, <1>4 DEF T
<1>6. (m - 1) + 1 \in S
  BY <1>4, <1>5
<1> QED BY <1>3, <1>6

\* f is what recursion from a, by the steps of G, gives up to n.
Recursion(f, n, X, a, G) ==
  /\ f \in [0..n -> X]
  /\ f[0] = a
  /\ \A i \in 1..n : f[i] = G[<<i, f[i - 1]>>]

\* A recursion on the natural numbers defines a function.
LEMMA Recursive ==
  ASSUME NEW X, NEW L \in Nat, NEW a \in X, NEW G \in [(1..L) \X X -> X]
  PROVE  \E f : Recursion(f, L, X, a, G)
<1> DEFINE S == {n \in 0..L : \E f : Recursion(f, n, X, a, G)}
<1>1. 0 \in S
  <2> DEFINE f == [i \in 0..0 |-> a]
  <2>1. f \in [0..0 -> X] /\ f[0] = a /\ 1..0 = {}
    OBVIOUS
  <2>2. Recursion(f, 0, X, a, G)
    BY <2>1 DEF Recursion
  <2> QED BY <2>2
<1>2. ASSUME NEW n \in 0..(L - 1), n \in S PROVE n + 1 \in S
  <2>1. PICK f : Recursion(f, n, X, a, G)
    BY <1>2
  <2> DEFINE g == [i \in 0..(n + 1) |-> IF i = n + 1 THEN G[<<n + 1, f[n]>>] ELSE f[i]]
  <2>2. f \in [0..n -> X] /\ f[n] \in X /\ n + 1 \in 1..L
    BY <2>1 DEF Recursion
  <2>3. <<n + 1, f[n]>> \in (1..L) \X X
    BY <2>2
  <2>4. G[<<n + 1, f[n]>>] \in X
    BY <2>3
  <2>5. g \in [0..(n + 1) -> X]
    BY <2>2, <2>4
  <2>6. g[0] = a
    BY <2>1, <2>2 DEF Recursion
  <2>7. ASSUME NEW i \in 1..(n + 1) PROVE g[i] = G[<<i, g[i - 1]>>]
    <3>1. g[i - 1] = f[i - 1]
      OBVIOUS
    <3>2. CASE i = n + 1
      <4>1. i - 1 = n /\ g[i] = G[<<n + 1, f[n]>>]
        BY <3>2
      <4> QED BY <3>1, <3>2, <4>1
    <3>3. CASE i # n + 1
      <4>1. i \in 1..n /\ g[i] = f[i]
        BY <3>3
      <4>2. f[i] = G[<<i, f[i - 1]>>]
        BY <2>1, <4>1 DEF Recursion
      <4> QED BY <3>1, <4>1, <4>2
    <3> QED BY <3>2, <3>3
  <2>8. Recursion(g, n + 1, X, a, G)
    <3> HIDE DEF g
    <3> QED BY <2>5, <2>6, <2>7 DEF Recursion
  <2> QED BY <2>2, <2>8
<1>3. L \in S
  <2> HIDE DEF S
  <2>1. \A n \in 0..L : n \in S
    BY <1>1, <1>2, UpTo
  <2> QED BY <2>1
<1> QED BY <1>3

-----------------------------------------------------------------------------
(* Remainders: n consecutive numbers take every value modulo n.            *)

\* Division with remainder.
LEMMA ModRange ==
  ASSUME NEW a \in Nat, NEW n \in Nat \ {0}
  PROVE  a % n \in 0..(n - 1) /\ a = n * (a \div n) + (a % n) /\ a \div n \in Nat
OBVIOUS

\* The remainder of a multiple and a rest is the rest.
LEMMA ModIs ==
  ASSUME NEW n \in Nat \ {0}, NEW q \in Nat, NEW r \in 0..(n - 1)
  PROVE  (n * q + r) % n = r
OBVIOUS

\* Linear probing comes to every slot s.
LEMMA ProbeReaches ==
  ASSUME NEW h \in Nat, NEW n \in Nat \ {0}, NEW s \in 0..(n - 1)
  PROVE  \E d \in 0..(n - 1) : (h + d) % n = s
<1>1. PICK q \in Nat : h = n * q + (h % n)
  BY ModRange
<1> DEFINE r == h % n
<1>2. r \in 0..(n - 1) /\ h = n * q + r
  BY <1>1, ModRange
<1> HIDE DEF r
<1>3. CASE r <= s
  <2>1. h + (s - r) = n * q + s /\ s - r \in 0..(n - 1)
    BY <1>2, <1>3
  <2> QED BY <2>1, ModIs
<1>4. CASE r > s
  <2>1. n * (q + 1) = n * q + n /\ q + 1 \in Nat
    OBVIOUS
  <2>2. h + (s + n - r) = n * (q + 1) + s /\ s + n - r \in 0..(n - 1)
    BY <1>2, <1>4, <2>1
  <2> QED BY <2>1, <2>2, ModIs
<1> QED BY <1>2, <1>3, <1>4
================================================================================
