--------------------------- MODULE Breaker_proofs ---------------------------
(***************************************************************************)
(* Proofs about Breaker: which entries can occur, that the metrics agree   *)
(* with Available, and that nothing but a success ends an open window.     *)
(***************************************************************************)
EXTENDS Breaker, TLAPS

\* A failure turns an entry into an entry.
LEMMA FailedEntry ==
    ASSUME NEW e \in Entry
    PROVE  Failed(e) \in Entry
<1> USE BreakerAssumption
<1>1. /\ Count(e.failures) \in 0..MaxFailures
      /\ Count(e.failures) >= e.failures
    BY DEF Count, Entry
<1>2. CASE Count(e.failures) >= Threshold /\ e.state # "open"
  <2>1. [failures |-> Count(e.failures), state |-> "open", left |-> OpenFor]
            \in [failures : Threshold..MaxFailures, state : {"open"}, left : -1..OpenFor]
    BY <1>1, <1>2
  <2> QED
    BY <1>2, <2>1 DEF Failed, Entry
<1>3. CASE e.state = "open"
  <2>1. e \in [failures : Threshold..MaxFailures, state : {"open"}, left : -1..OpenFor]
    BY <1>3 DEF Entry
  <2>2. [e EXCEPT !.failures = Count(e.failures)]
            \in [failures : Threshold..MaxFailures, state : {"open"}, left : -1..OpenFor]
    BY <1>1, <2>1
  <2> QED
    BY <1>3, <2>2 DEF Failed, Entry
<1>4. CASE ~(Count(e.failures) >= Threshold) /\ e.state # "open"
  <2>1. e \in [failures : 0..Threshold - 1, state : {"closed"}, left : {-1}]
    BY <1>1, <1>4 DEF Entry
  <2>2. [e EXCEPT !.failures = Count(e.failures)]
            \in [failures : 0..Threshold - 1, state : {"closed"}, left : {-1}]
    BY <1>1, <1>4, <2>1
  <2> QED
    BY <1>4, <2>2 DEF Failed, Entry
<1> QED
    BY <1>2, <1>3, <1>4

\* Which entries can occur, for every number of targets and requests, every
\* threshold and every window.
THEOREM TypeCorrect == Spec => []TypeOK
<1> USE BreakerAssumption
<1>1. Fresh \in Entry
    BY DEF Fresh, Entry
<1>2. Init => TypeOK
    BY <1>1 DEF Init, TypeOK
<1>3. TypeOK /\ [Next]_vars => TypeOK'
  <2> SUFFICES ASSUME TypeOK, [Next]_vars PROVE TypeOK'
    OBVIOUS
  <2>1. ASSUME NEW c \in Callers, NEW t \in Targets, Ask(c, t) PROVE TypeOK'
    <3>1. ASSUME Expired(t) PROVE [states[t] EXCEPT !.state = "half_open"] \in Entry
      BY <3>1 DEF Expired, TypeOK, Entry
    <3>2. states' \in [Targets -> Entry]
      BY <2>1, <3>1 DEF Ask, TypeOK
    <3> QED
      BY <2>1, <3>2 DEF Ask, Begin, TypeOK
  <2>2. ASSUME NEW c \in Callers, NEW t \in Targets, Send(c, t) PROVE TypeOK'
    BY <2>2 DEF Send, Begin, TypeOK
  <2>3. ASSUME NEW c \in Callers, Success(c) PROVE TypeOK'
    BY <1>1, <2>3 DEF Success, End, TypeOK
  <2>4. ASSUME NEW c \in Callers, Failure(c) PROVE TypeOK'
    BY <2>4, FailedEntry DEF Failure, End, TypeOK
  <2>5. ASSUME Tick PROVE TypeOK'
    <3>1. ASSUME NEW t \in Targets
          PROVE  [states[t] EXCEPT !.left = IF @ = -1 THEN -1 ELSE @ - 1] \in Entry
      BY DEF TypeOK, Entry
    <3> QED
      BY <2>5, <3>1 DEF Tick, TypeOK
  <2>6. ASSUME NEW c \in Callers, Abandon(c) PROVE TypeOK'
    BY <2>6 DEF Abandon, End, TypeOK
  <2>7. ASSUME UNCHANGED vars PROVE TypeOK'
    BY <2>7 DEF vars, TypeOK
  <2> QED
    BY <2>1, <2>2, <2>3, <2>4, <2>5, <2>6, <2>7 DEF Next
<1> QED
    BY <1>2, <1>3, PTL DEF Spec

\* What the metrics report always agrees with what Available would answer.
THEOREM MetricsAgree == Spec => []SnapshotAgrees
<1>1. TypeOK => SnapshotAgrees
    BY DEF TypeOK, Entry, SnapshotAgrees, Shown, Allows, Expired
<1> QED
    BY <1>1, TypeCorrect, PTL

\* While the window of an open circuit lasts, only a success ends it.
THEOREM WindowHolds == Spec => OpenHolds
<1>1. ASSUME TypeOK, [Next]_vars, NEW t \in Targets,
             states[t].state = "open", states[t].left >= 0
      PROVE  \/ states'[t] = Fresh
             \/ /\ states'[t].state = "open"
                /\ states'[t].left \in {states[t].left, states[t].left - 1}
  <2>1. CASE UNCHANGED vars
    BY <1>1, <2>1 DEF vars
  <2>2. ASSUME NEW c \in Callers, NEW u \in Targets, Ask(c, u) PROVE states'[t] = states[t]
    BY <1>1, <2>2 DEF Ask, Expired, TypeOK
  <2>3. ASSUME NEW c \in Callers, NEW u \in Targets, Send(c, u) PROVE states'[t] = states[t]
    BY <2>3 DEF Send
  <2>4. ASSUME NEW c \in Callers, Success(c)
        PROVE  states'[t] = Fresh \/ states'[t] = states[t]
    BY <2>4 DEF Success, End, TypeOK
  <2>5. ASSUME NEW c \in Callers, Failure(c)
        PROVE  states'[t].state = "open" /\ states'[t].left = states[t].left
    BY <1>1, <2>5 DEF Failure, End, Failed, TypeOK, Entry
  <2>6. ASSUME Tick
        PROVE  states'[t].state = "open" /\ states'[t].left = states[t].left - 1
    BY <1>1, <2>6 DEF Tick, TypeOK, Entry
  <2>7. ASSUME NEW c \in Callers, Abandon(c) PROVE states'[t] = states[t]
    BY <2>7 DEF Abandon
  <2> QED
    BY <1>1, <2>1, <2>2, <2>3, <2>4, <2>5, <2>6, <2>7 DEF Next
<1>2. TypeOK /\ [Next]_vars =>
        [\A t \in Targets :
            states[t].state = "open" /\ states[t].left >= 0 =>
                \/ states'[t] = Fresh
                \/ /\ states'[t].state = "open"
                   /\ states'[t].left \in {states[t].left, states[t].left - 1}]_vars
    BY <1>1
<1> QED
    BY <1>2, TypeCorrect, PTL DEF Spec, OpenHolds
=============================================================================
