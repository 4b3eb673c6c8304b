---------------------------------- MODULE MCMap ----------------------------------
(***************************************************************************)
(* Small instances of MapWalk for TLC.  a and b collide; +0 and -0 are one *)
(* key; the probe of +0 wraps around the smallest index.                   *)
(***************************************************************************)
EXTENDS MapWalk, TLC

CONSTANTS a, b, c, w1, w2

Collisions == (a :> 3) @@ (b :> 3) @@ (PosZero :> 2) @@ (NegZero :> 2)

\* One more key, on the chain of the zeros.
FiveKeys == Collisions @@ (c :> 2)

\* Without the zeros: a and b share every chain.
TwoKeys == (a :> 3) @@ (b :> 3)
================================================================================
