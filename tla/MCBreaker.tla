------------------------------ MODULE MCBreaker ------------------------------
(***************************************************************************)
(* Small instances of Breaker.  Callers are interchangeable.               *)
(***************************************************************************)
EXTENDS Breaker, TLC

CallerSymmetry == Permutations(Callers)
=============================================================================
