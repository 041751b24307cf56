------------------------------ MODULE MCUsers ------------------------------
(* Users with one account and few keys; what happens to one account does   *)
(* not depend on the others.                                               *)
EXTENDS Users, TLC

Alike == Permutations(Procs) \cup Permutations(Objects)
=============================================================================
