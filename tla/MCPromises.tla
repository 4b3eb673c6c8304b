------------------------------- MODULE MCPromises -------------------------------
(***************************************************************************)
(* Small instances of Promises for TLC: promise objects and plain values   *)
(* are model values; promises are interchangeable.                         *)
(***************************************************************************)
EXTENDS PromisesRefine, TLC

Symmetric == Permutations(Promise)
================================================================================
