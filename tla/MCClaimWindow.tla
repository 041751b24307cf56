---------------------------- MODULE MCClaimWindow ----------------------------
(***************************************************************************)
(* Small instances of ClaimWindow.  Callers and nonces are interchangeable *)
(* in the safety runs.                                                     *)
(***************************************************************************)
EXTENDS ClaimWindow, TLC

ClaimSymmetry == Permutations(Nonces) \cup Permutations(Procs)
=============================================================================
