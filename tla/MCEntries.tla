----------------------------- MODULE MCEntries -----------------------------
(* The constants of the runs over EntriesWalk.                              *)
EXTENDS EntriesWalk, TLC

CONSTANTS a, b, i1, lone, box, site_a, u, v, get

MCPlain   == <<>>
MCIndexed == i1 :> 1
MCLone    == lone :> None
MCSites   == site_a :> a
=============================================================================
