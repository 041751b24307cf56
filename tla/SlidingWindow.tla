---------------------------- MODULE SlidingWindow ----------------------------
(***************************************************************************)
(* What the key manager promises of a pool: a key is handed out at most    *)
(* Limit times in any Span of time.  A grant is forgotten when it is Span  *)
(* old.  There are no callers, snapshots, stamps or scripts here.          *)
(***************************************************************************)
EXTENDS Integers, FiniteSets

CONSTANTS
    Keys,       \* the keys of the pool
    Ids,        \* names of grants
    Limit,      \* grants of one key in any Span
    Span,       \* length of the window
    MaxNow      \* bound of the clock

VARIABLES now, granted

Init ==
    /\ now = 0
    /\ granted = [k \in Keys |-> {}]

HandOut(k, i) ==
    /\ \A j \in Keys : \A g \in granted[j] : g.nonce # i
    /\ Cardinality(granted[k]) < Limit
    /\ granted' = [granted EXCEPT ![k] = @ \cup {[nonce |-> i, at |-> now]}]
    /\ UNCHANGED now

Tick ==
    /\ now < MaxNow
    /\ now' = now + 1
    /\ granted' = [k \in Keys |-> {g \in granted[k] : g.at > (now + 1) - Span}]

Next == Tick \/ \E k \in Keys, i \in Ids : HandOut(k, i)

Spec == Init /\ [][Next]_<<now, granted>>
=============================================================================
