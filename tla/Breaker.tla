------------------------------- MODULE Breaker -------------------------------
(***************************************************************************)
(* breaker.Breaker and the requests that report to it.  A request may ask  *)
(* Available, is sent to its target, and reports Success or Failure when   *)
(* the target has answered; by then the circuit may have changed under it. *)
(* Time is relative: an entry keeps how long its window still lasts, and   *)
(* -1 once time.Now() is after `until'.                                    *)
(***************************************************************************)
EXTENDS Integers, FiniteSets

CONSTANTS
    Targets,     \* key(provider, model)
    Callers,     \* requests
    NoTarget,    \* a caller without a request
    Threshold,   \* Breaker.threshold, after New's default
    OpenFor,     \* Breaker.openFor, after New's default
    Consulted,   \* TRUE: every request asks Available first
    MaxFailures  \* failures are counted up to here

ASSUME BreakerAssumption ==
    /\ Threshold \in Nat \ {0}
    /\ OpenFor \in Nat \ {0}
    /\ MaxFailures \in Nat /\ Threshold <= MaxFailures
    /\ Consulted \in BOOLEAN
    /\ NoTarget \notin Targets

VARIABLES
    states,     \* Breaker.states; a missing entry is Fresh
    target,     \* where each caller's request is out
    probe       \* history: the request was let through half open

vars == <<states, target, probe>>

Fresh == [failures |-> 0, state |-> "closed", left |-> -1]

\* An entry is closed exactly while fewer than Threshold failures followed the
\* last success, and half open only after its window.
Entry ==
    [failures : 0..Threshold - 1, state : {"closed"}, left : {-1}]
        \cup [failures : Threshold..MaxFailures, state : {"open"}, left : -1..OpenFor]
        \cup [failures : Threshold..MaxFailures, state : {"half_open"}, left : {-1}]

\* Types, and which failure counts go with which circuit state.
TypeOK ==
    /\ states \in [Targets -> Entry]
    /\ target \in [Callers -> Targets \cup {NoTarget}]
    /\ probe \in [Callers -> BOOLEAN]

Init ==
    /\ states = [t \in Targets |-> Fresh]
    /\ target = [c \in Callers |-> NoTarget]
    /\ probe = [c \in Callers |-> FALSE]

-----------------------------------------------------------------------------
Expired(t) == states[t].state = "open" /\ states[t].left = -1

\* Mutant of Allows: an open circuit stays open after its window.
AllowsNotOpen(t) == states[t].state # "open"

\* The answer of Available.
Allows(t) == states[t].state # "open" \/ Expired(t)

Begin(c, t) ==
    /\ target[c] = NoTarget
    /\ target' = [target EXCEPT ![c] = t]

\* Available lets the request through; the first to ask after the window half
\* opens the circuit.  When it refuses nothing changes.
Ask(c, t) ==
    /\ Begin(c, t)
    /\ Allows(t)
    /\ states' = IF Expired(t) THEN [states EXCEPT ![t].state = "half_open"] ELSE states
    /\ probe' = [probe EXCEPT ![c] = states'[t].state = "half_open"]

\* A request is sent without asking.
Send(c, t) ==
    /\ ~Consulted
    /\ Begin(c, t)
    /\ UNCHANGED <<states, probe>>

End(c) ==
    /\ target[c] # NoTarget
    /\ target' = [target EXCEPT ![c] = NoTarget]
    /\ probe' = [probe EXCEPT ![c] = FALSE]

\* A stream that its target refuses is not reported.
Abandon(c) ==
    /\ End(c)
    /\ UNCHANGED states

Success(c) ==
    /\ End(c)
    /\ states' = [states EXCEPT ![target[c]] = Fresh]

Count(n) == IF n < MaxFailures THEN n + 1 ELSE n

\* Mutant of Failed: every failure starts the window again.
FailedAgain(e) ==
    IF Count(e.failures) >= Threshold
    THEN [failures |-> Count(e.failures), state |-> "open", left |-> OpenFor]
    ELSE [e EXCEPT !.failures = Count(e.failures)]

\* What Failure makes of an entry.
Failed(e) ==
    IF Count(e.failures) >= Threshold /\ e.state # "open"
    THEN [failures |-> Count(e.failures), state |-> "open", left |-> OpenFor]
    ELSE [e EXCEPT !.failures = Count(e.failures)]

Failure(c) ==
    /\ End(c)
    /\ states' = [states EXCEPT ![target[c]] = Failed(@)]

Tick ==
    /\ \E t \in Targets : states[t].left >= 0
    /\ states' = [t \in Targets |->
           [states[t] EXCEPT !.left = IF @ = -1 THEN -1 ELSE @ - 1]]
    /\ UNCHANGED <<target, probe>>

Next ==
    \/ \E c \in Callers, t \in Targets : Ask(c, t) \/ Send(c, t)
    \/ \E c \in Callers : Success(c) \/ Failure(c) \/ Abandon(c)
    \/ Tick

Spec == Init /\ [][Next]_vars

\* Time passes.
FairSpec == Spec /\ WF_vars(Tick)

-----------------------------------------------------------------------------
\* The circuit state that Snapshot reports.
Shown(t) == IF Expired(t) THEN "half_open" ELSE states[t].state

\* What the metrics report agrees with what Available would answer.
SnapshotAgrees == \A t \in Targets : Shown(t) = "open" <=> ~Allows(t)

\* While the window of an open circuit lasts, only a success ends it: neither a
\* question nor the late failure of an earlier request half opens, extends or
\* shortens it.
OpenHolds ==
    [][\A t \in Targets :
          states[t].state = "open" /\ states[t].left >= 0 =>
              \/ states'[t] = Fresh
              \/ /\ states'[t].state = "open"
                 /\ states'[t].left \in {states[t].left, states[t].left - 1}]_vars

\* A circuit that refuses requests lets one through again in the end, however
\* many requests keep failing.
Recovers == \A t \in Targets : ~Allows(t) ~> Allows(t)

\* The package comment: "one probe is allowed through".  It does not hold: see
\* README.md.
OneProbe ==
    \A t \in Targets : Cardinality({c \in Callers : target[c] = t /\ probe[c]}) <= 1
=============================================================================
