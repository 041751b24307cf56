------------------------------ MODULE MCDispatch ------------------------------
(* Two requests of one source; the combo endpoints are called with the     *)
(* master key, the others with a key of each kind.  There may be a combo,  *)
(* and another whose name begins with the prefix.                          *)
EXTENDS Dispatch

SomeAsked == {<<"public", "absent">>, <<"admin", "user">>,
              <<"me", "user">>, <<"admin", "unknown">>, <<"combos", "master">>}

\* Without the prefix.
SomeBare == [n \in Names |-> "x"]
=============================================================================
