----------------------------- MODULE MCKeyPools -----------------------------
(* KeyPools on small sets: a provider with a key in the environment, one    *)
(* the gateway does not know, the system tenant and a user.                *)
EXTENDS KeyPools, TLC

CONSTANTS k1, k2, rich, other, system, user, a, b

EnvOne == [p \in Known |-> <<k1>>]

\* Redis holds keys to merge into a pool, a pool of its own, or, as the gateway
\* leaves it, nothing.
KeptBoth == [p \in Providers |-> IF p = rich THEN <<k1, k2>> ELSE <<k2>>]
KeptOther == [p \in Providers |-> IF p = rich THEN <<>> ELSE <<k2>>]
KeptNone == [p \in Providers |-> <<>>]
SomeKept == {KeptBoth, KeptOther}
NothingKept == {KeptNone}

CallersAlike == Permutations(Callers)
=============================================================================
