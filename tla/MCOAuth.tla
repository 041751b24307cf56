------------------------------- MODULE MCOAuth -------------------------------
(***************************************************************************)
(* Small instances of OAuth.  The constants are given in the cfg files.    *)
(***************************************************************************)
EXTENDS OAuth
=============================================================================
