----------------------------- MODULE MCObjects -----------------------------
(* The constants of the runs over DynObjects.                              *)
EXTENDS DynObjects, TLC

CONSTANTS a, b, i1, proto, inst, lone, box, site_a, site_b, u, v, get, both

MCPlain   == <<>>
MCIndexed == i1 :> 1
MCChain   == (proto :> None) @@ (inst :> proto)
MCNone    == [o \in {} |-> None]
MCSiteA   == (site_a :> a)
MCSites   == (site_a :> a) @@ (site_b :> b)
=============================================================================
