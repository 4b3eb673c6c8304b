-------------------------------- MODULE MCArrays --------------------------------
(***************************************************************************)
(* A small instance of ArrayWalks for TLC.                                 *)
(***************************************************************************)
EXTENDS ArrayWalks, TLC

Methods == {"forEach", "values", "map", "filter", "flatMap", "some", "every", "find", "findLast",
            "reduce", "reduceRight"}
Arguments == {-4, -1, NaN, 2, 4, Undefined}
Changes == {"push", "unshift", "pop", "shift", "set", "delete"}
=================================================================================
