-------------------------- MODULE ClaimWindow_proofs --------------------------
(***************************************************************************)
(* Proofs about ClaimWindow: its types, the inductive invariant ClaimInv,  *)
(* the limiter's bound WindowBound, that every step of the key manager is  *)
(* a step of SlidingWindow or leaves its variables alone, and that a       *)
(* caller's refusal is justified by what happened during its last round.   *)
(***************************************************************************)
EXTENDS ClaimWindow, FiniteSetTheorems, TLAPS

-----------------------------------------------------------------------------
(* Trimming a set of entries. *)

\* ZREMRANGEBYSCORE leaves a finite subset with a count.
LEMMA TrimFinite ==
    ASSUME NEW S, IsFiniteSet(S), NEW t
    PROVE  /\ Trim(S, t) \subseteq S
           /\ IsFiniteSet(Trim(S, t))
           /\ Cardinality(Trim(S, t)) \in Nat
           /\ Cardinality(Trim(S, t)) <= Cardinality(S)
<1>1. Trim(S, t) \subseteq S
    BY DEF Trim
<1>2. QED
    BY <1>1, FS_Subset, FS_CardinalityType

-----------------------------------------------------------------------------
(* Type correctness. *)

\* The records a caller starts from are typed.
LEMMA EmptyRecords ==
    /\ NoView \in [Keys -> Status]
    /\ NoCall \in Call
BY ClaimAssumption DEF NoView, Status, NoCall, Call, Outcome

\* The updates of a claim under way keep its type.
LEMMA CallUpdates ==
    ASSUME NEW c \in Call
    PROVE  /\ \A r \in Outcome : [c EXCEPT !.res = r] \in Call
           /\ \A t \in Nat : [c EXCEPT !.again = TRUE, !.ts = t] \in Call
           /\ [c EXCEPT !.tries = @ + 1, !.res = "none"] \in Call
           /\ c.ts \in Nat /\ c.key \in Keys \cup {0}
<1>1. \A r \in Outcome : [c EXCEPT !.res = r] \in Call
    BY DEF Call
<1>2. \A t \in Nat : [c EXCEPT !.again = TRUE, !.ts = t] \in Call
    BY DEF Call
<1>3. [c EXCEPT !.tries = @ + 1, !.res = "none"] \in Call
  <2>1. c.tries + 1 \in Nat
    BY DEF Call
  <2>2. \A i \in Nat : [c EXCEPT !.tries = i, !.res = "none"] \in Call
    BY DEF Call, Outcome
  <2> QED
    BY <2>1, <2>2, [c EXCEPT !.tries = @ + 1, !.res = "none"]
                       = [c EXCEPT !.tries = c.tries + 1, !.res = "none"]
<1>4. c.ts \in Nat /\ c.key \in Keys \cup {0}
    BY DEF Call
<1> QED
    BY <1>1, <1>2, <1>3, <1>4

\* A new claim is typed.
LEMMA NewCall ==
    ASSUME NEW k \in Keys, NEW t \in Nat, NEW n \in Nonces
    PROVE  LET c == [NoCall EXCEPT !.key = k, !.ts = t, !.nonce = n]
           IN  c \in Call /\ c.key = k /\ c.nonce = n /\ c.ts = t /\ c.res = "none"
BY DEF NoCall, Call, Outcome

\* A call that returns leaves typed variables.
LEMMA LeaveTyped ==
    ASSUME LocalTypes, ClaimTypes, NEW p \in Procs, Leave(p)
    PROVE  LocalTypes' /\ ClaimTypes'
<1>1. LocalTypes'
    BY EmptyRecords, ClaimAssumption DEF LocalTypes, Leave
<1>2. ClaimTypes'
    BY DEF LocalTypes, ClaimTypes, Claiming, Leave
<1> QED
    BY <1>1, <1>2

\* So does one that begins a round.
LEMMA BeginTyped ==
    ASSUME LocalTypes, ClaimTypes, ManagerTypes, NEW p \in Procs, BeginRound(p),
           deadline' \in [Procs -> Nat]
    PROVE  LocalTypes' /\ ClaimTypes'
<1>1. LocalTypes'
  <2>1. view' \in [Procs -> [Keys -> Status]]
    BY EmptyRecords DEF LocalTypes, BeginRound
  <2>2. shift' \in [Procs -> 0..NumKeys - 1] /\ left' \in [Procs -> SUBSET Keys]
    BY ClaimAssumption DEF LocalTypes, BeginRound
  <2> QED
    BY <2>1, <2>2 DEF LocalTypes, ManagerTypes, BeginRound
<1>2. ClaimTypes'
    BY DEF LocalTypes, ClaimTypes, Claiming, BeginRound
<1> QED
    BY <1>1, <1>2

\* Hand-outs are typed.
LEMMA GrantTyped ==
    ASSUME TypeOK, NEW p \in Procs, Claiming(p)
    PROVE  /\ call[p].key \in Keys
           /\ [nonce |-> call[p].nonce, at |-> now] \in Grant
           /\ [ts |-> call[p].ts, nonce |-> call[p].nonce] \in Entry
BY CallUpdates DEF TypeOK, ClaimTypes, ManagerTypes, LocalTypes, Grant, Entry

\* Every step keeps the types.
LEMMA TypeStep ==
    ASSUME TypeOK, Step, Observe
    PROVE  TypeOK'
<1> USE DEF TypeOK
<1>0. unblocked' \in [Procs -> SUBSET Keys]
    BY DEF Observe, Free, HistoryTypes
<1>1. ASSUME NEW p \in Procs, Acquire(p) PROVE TypeOK'
  <2>1. RedisTypes'
    BY <1>1 DEF Acquire, redis, RedisTypes
  <2>2. ManagerTypes'
    BY <1>1 DEF Acquire, ManagerTypes
  <2>3. LocalTypes' /\ ClaimTypes'
    BY <1>1, BeginTyped, ClaimAssumption DEF Acquire, LocalTypes, ManagerTypes
  <2>4. HistoryTypes'
    BY <1>1, <1>0 DEF Acquire, history, HistoryTypes
  <2> QED
    BY <2>1, <2>2, <2>3, <2>4
<1>2. ASSUME NEW p \in Procs, NEW k \in Keys, SnapKey(p, k) PROVE TypeOK'
  <2>1. RedisTypes'
    BY <1>2, TrimFinite DEF SnapKey, RedisTypes
  <2>2. ManagerTypes'
    BY <1>2, ClaimAssumption DEF SnapKey, EndSnapshot, ManagerTypes
  <2>3. LocalTypes'
    <3>1. view' \in [Procs -> [Keys -> Status]]
      <4>1. [used |-> Cardinality(Trim(zset[k], snapAt[p])), cooling |-> Cooling(k)]
                \in Status
        BY TrimFinite DEF RedisTypes, Status, Cooling
      <4> QED
        BY <1>2, <4>1 DEF SnapKey, LocalTypes
    <3>2. left' \in [Procs -> SUBSET Keys]
      BY <1>2 DEF SnapKey, EndSnapshot, LocalTypes
    <3>3. shift' \in [Procs -> 0..NumKeys - 1]
      <4>1. /\ (cursor + 1) % NumKeys \in 0..NumKeys - 1
            /\ 0 \in 0..NumKeys - 1
        BY ClaimAssumption DEF ManagerTypes
      <4> QED
        BY <1>2, <4>1 DEF SnapKey, EndSnapshot, LocalTypes
    <3> QED
      BY <1>2, <3>1, <3>2, <3>3 DEF SnapKey, EndSnapshot, LocalTypes
  <2>4. ClaimTypes'
    BY <1>2 DEF SnapKey, EndSnapshot, LocalTypes, ClaimTypes, Claiming
  <2>5. HistoryTypes'
    BY <1>2, <1>0 DEF SnapKey, history, HistoryTypes
  <2> QED
    BY <2>1, <2>2, <2>3, <2>4, <2>5
<1>3. ASSUME NEW p \in Procs, NEW k \in Keys, NEW n \in Nonces, Stamp(p, k, n) PROVE TypeOK'
  <2>1. RedisTypes'
    BY <1>3 DEF Stamp, redis, RedisTypes
  <2>2. ManagerTypes'
    BY <1>3 DEF Stamp, ManagerTypes
  <2>3. LocalTypes'
    BY <1>3, NewCall DEF Stamp, ManagerTypes, LocalTypes
  <2>4. ClaimTypes'
    <3>1. ASSUME NEW q \in Procs, Claiming(q)', q # p
          PROVE  /\ call'[q].key \in Keys
                 /\ call'[q].nonce \in Nonces
                 /\ view'[q][call'[q].key].used < Limit
      BY <1>3, <3>1 DEF Stamp, LocalTypes, ClaimTypes, Claiming
    <3>2. /\ call'[p].key = k
          /\ call'[p].nonce = n
      BY <1>3 DEF Stamp, LocalTypes, NoCall
    <3>3. view'[p][k].used < Limit
      BY <1>3 DEF Stamp, IsFirst, Candidates
    <3> QED
      BY <3>1, <3>2, <3>3 DEF ClaimTypes, Claiming
  <2>5. HistoryTypes'
    BY <1>3, <1>0 DEF Stamp, history, HistoryTypes
  <2> QED
    BY <2>1, <2>2, <2>3, <2>4, <2>5
<1>4. ASSUME NEW p \in Procs, RunScript(p) PROVE TypeOK'
  <2>1. RedisTypes'
    <3>1. /\ Live(p) \subseteq zset[call[p].key]
          /\ IsFiniteSet(Live(p))
      BY <1>4, TrimFinite, GrantTyped DEF RunScript, Claiming, Live, RedisTypes
    <3>2. CASE RefuseCooling(p)
      BY <3>2 DEF RefuseCooling, Answer, RedisTypes
    <3>3. CASE RefuseFull(p)
      BY <3>1, <3>3 DEF RefuseFull, Answer, RedisTypes
    <3>4. CASE GrantClaim(p)
      <4>1. [ts |-> call[p].ts, nonce |-> call[p].nonce] \in Entry
        BY <1>4, GrantTyped DEF RunScript, Claiming
      <4>2. IsFiniteSet(Live(p) \cup {[ts |-> call[p].ts, nonce |-> call[p].nonce]})
        BY <3>1, FS_AddElement
      <4>3. /\ zset' \in [Keys -> SUBSET Entry]
            /\ \A k \in Keys : IsFiniteSet(zset'[k])
        BY <3>1, <3>4, <4>1, <4>2 DEF GrantClaim, Store, RedisTypes
      <4>4. expireAt' \in [Keys -> Nat]
        <5>1. now + W \in Nat
          BY ClaimAssumption DEF ManagerTypes
        <5> QED
          BY <3>4, <5>1 DEF GrantClaim, Store, RedisTypes
      <4> QED
        BY <3>4, <4>3, <4>4 DEF GrantClaim, Answer, RedisTypes
    <3> QED
      BY <1>4, <3>2, <3>3, <3>4 DEF RunScript
  <2>2. ManagerTypes'
    BY <1>4 DEF RunScript, RefuseCooling, RefuseFull, GrantClaim, Store, Answer, ManagerTypes
  <2>3. LocalTypes'
    <3>1. \A r \in Outcome : [call[p] EXCEPT !.res = r] \in Call
      BY CallUpdates DEF LocalTypes
    <3>2. ASSUME NEW r \in Outcome, Answer(p, r) PROVE LocalTypes'
      BY <3>1, <3>2 DEF Answer, LocalTypes
    <3> QED
      BY <1>4, <3>2 DEF RunScript, RefuseCooling, RefuseFull, GrantClaim, Outcome
  <2>4. ClaimTypes'
    <3>1. ASSUME NEW r \in Outcome, Answer(p, r) PROVE ClaimTypes'
      BY <1>4, <3>1 DEF RunScript, Answer, LocalTypes, ClaimTypes, Claiming, Call
    <3> QED
      BY <1>4, <3>1 DEF RunScript, RefuseCooling, RefuseFull, GrantClaim, Outcome
  <2>5. HistoryTypes'
    BY <1>4, <1>0 DEF RunScript, RefuseCooling, RefuseFull, GrantClaim, Store, Answer, history, HistoryTypes
  <2> QED
    BY <2>1, <2>2, <2>3, <2>4, <2>5
<1>5. ASSUME NEW p \in Procs, NoScript(p) PROVE TypeOK'
  <2>1. RedisTypes'
    BY <1>5 DEF NoScript, redis, RedisTypes
  <2>2. ManagerTypes'
    BY <1>5 DEF NoScript, ManagerTypes
  <2>3. LocalTypes'
    BY <1>5, CallUpdates DEF NoScript, ManagerTypes, LocalTypes
  <2>4. ClaimTypes'
    BY <1>5 DEF NoScript, LocalTypes, ClaimTypes, Claiming, Call
  <2>5. HistoryTypes'
    BY <1>5, <1>0 DEF NoScript, history, HistoryTypes
  <2> QED
    BY <2>1, <2>2, <2>3, <2>4, <2>5
<1>6. ASSUME NEW p \in Procs, NoScriptAgain(p) PROVE TypeOK'
  <2>1. RedisTypes'
    BY <1>6 DEF NoScriptAgain, Uncounted, redis, RedisTypes
  <2>2. ManagerTypes'
    BY <1>6 DEF NoScriptAgain, Uncounted, ManagerTypes
  <2>3. LocalTypes' /\ ClaimTypes'
    BY <1>6, LeaveTyped DEF NoScriptAgain, Uncounted
  <2>4. HistoryTypes'
    BY <1>6, <1>0, GrantTyped DEF NoScriptAgain, Uncounted, Claiming, HistoryTypes
  <2> QED
    BY <2>1, <2>2, <2>3, <2>4
<1>7. ASSUME NEW p \in Procs, HandOut(p) PROVE TypeOK'
  <2>1. RedisTypes'
    BY <1>7 DEF HandOut, redis, RedisTypes
  <2>2. ManagerTypes'
    BY <1>7, ClaimAssumption DEF HandOut, ManagerTypes, LocalTypes, ClaimTypes, Claiming, Status
  <2>3. LocalTypes' /\ ClaimTypes'
    BY <1>7, LeaveTyped DEF HandOut
  <2>4. HistoryTypes'
    BY <1>7, <1>0, GrantTyped DEF HandOut, Claiming, HistoryTypes
  <2> QED
    BY <2>1, <2>2, <2>3, <2>4
<1>8. ASSUME NEW p \in Procs, Refused(p) PROVE TypeOK'
  <2>1. RedisTypes'
    BY <1>8 DEF Refused, redis, RedisTypes
  <2>2. ManagerTypes'
    BY <1>8 DEF Refused, ManagerTypes
  <2>3. LocalTypes'
    BY <1>8, EmptyRecords DEF Refused, LocalTypes
  <2>4. ClaimTypes'
    BY <1>8 DEF Refused, LocalTypes, ClaimTypes, Claiming
  <2>5. HistoryTypes'
    BY <1>8, <1>0 DEF Refused, history, HistoryTypes
  <2> QED
    BY <2>1, <2>2, <2>3, <2>4, <2>5
<1>9. ASSUME NEW p \in Procs, Sleep(p) PROVE TypeOK'
  <2>1. RedisTypes'
    BY <1>9 DEF Sleep, redis, RedisTypes
  <2>2. ManagerTypes'
    BY <1>9 DEF Sleep, ManagerTypes
  <2>3. LocalTypes'
    BY <1>9, EmptyRecords DEF Sleep, LocalTypes
  <2>4. ClaimTypes'
    BY <1>9 DEF Sleep, LocalTypes, ClaimTypes, Claiming
  <2>5. HistoryTypes'
    BY <1>9, <1>0 DEF Sleep, history, HistoryTypes
  <2> QED
    BY <2>1, <2>2, <2>3, <2>4, <2>5
<1>10. ASSUME NEW p \in Procs, GiveUp(p) PROVE TypeOK'
  <2>1. RedisTypes'
    BY <1>10 DEF GiveUp, redis, RedisTypes
  <2>2. ManagerTypes'
    BY <1>10 DEF GiveUp, ManagerTypes
  <2>3. LocalTypes' /\ ClaimTypes'
    BY <1>10, LeaveTyped DEF GiveUp
  <2>4. HistoryTypes'
    BY <1>10, <1>0 DEF GiveUp, history, HistoryTypes
  <2> QED
    BY <2>1, <2>2, <2>3, <2>4
<1>11. ASSUME NEW p \in Procs, Wake(p) PROVE TypeOK'
  <2>1. RedisTypes'
    BY <1>11 DEF Wake, redis, RedisTypes
  <2>2. ManagerTypes'
    BY <1>11 DEF Wake, ManagerTypes
  <2>3. LocalTypes' /\ ClaimTypes'
    BY <1>11, BeginTyped DEF Wake, LocalTypes
  <2>4. HistoryTypes'
    BY <1>11, <1>0 DEF Wake, history, HistoryTypes
  <2> QED
    BY <2>1, <2>2, <2>3, <2>4
<1>12. ASSUME NEW p \in Procs, CtxDone(p) PROVE TypeOK'
  <2>1. RedisTypes'
    BY <1>12 DEF CtxDone, redis, RedisTypes
  <2>2. ManagerTypes'
    BY <1>12 DEF CtxDone, ManagerTypes
  <2>3. LocalTypes' /\ ClaimTypes'
    BY <1>12, LeaveTyped DEF CtxDone
  <2>4. HistoryTypes'
    BY <1>12, <1>0 DEF CtxDone, history, HistoryTypes
  <2> QED
    BY <2>1, <2>2, <2>3, <2>4
<1>13. ASSUME NEW p \in Procs, SnapFail(p) PROVE TypeOK'
  <2>1. RedisTypes'
    BY <1>13 DEF SnapFail, EndSnapshot, redis, RedisTypes
  <2>2. ManagerTypes'
    BY <1>13, ClaimAssumption DEF SnapFail, EndSnapshot, ManagerTypes
  <2>3. LocalTypes'
    BY <1>13, ClaimAssumption DEF SnapFail, EndSnapshot, ManagerTypes, LocalTypes
  <2>4. ClaimTypes'
    BY <1>13 DEF SnapFail, EndSnapshot, LocalTypes, ClaimTypes, Claiming
  <2>5. HistoryTypes'
    BY <1>13, <1>0 DEF SnapFail, EndSnapshot, history, HistoryTypes
  <2> QED
    BY <2>1, <2>2, <2>3, <2>4, <2>5
<1>14. ASSUME NEW p \in Procs, FailOpen(p) PROVE TypeOK'
  <2>1. RedisTypes'
    BY <1>14 DEF FailOpen, Uncounted, redis, RedisTypes
  <2>2. ManagerTypes'
    BY <1>14 DEF FailOpen, Uncounted, ManagerTypes
  <2>3. LocalTypes' /\ ClaimTypes'
    BY <1>14, LeaveTyped DEF FailOpen, Uncounted
  <2>4. HistoryTypes'
    BY <1>14, <1>0, GrantTyped DEF FailOpen, Uncounted, HistoryTypes
  <2> QED
    BY <2>1, <2>2, <2>3, <2>4
<1>15. ASSUME NEW p \in Procs, Resend(p) PROVE TypeOK'
  <2>1. RedisTypes'
    BY <1>15 DEF Resend, redis, RedisTypes
  <2>2. ManagerTypes'
    BY <1>15 DEF Resend, ManagerTypes
  <2>3. LocalTypes'
    BY <1>15, CallUpdates DEF Resend, LocalTypes
  <2>4. ClaimTypes'
    BY <1>15 DEF Resend, LocalTypes, ClaimTypes, Claiming, Call
  <2>5. HistoryTypes'
    BY <1>15, <1>0 DEF Resend, history, HistoryTypes
  <2> QED
    BY <2>1, <2>2, <2>3, <2>4, <2>5
<1>16. ASSUME NEW k \in Keys, ReportError(k) PROVE TypeOK'
  <2>1. RedisTypes'
    BY <1>16, ClaimAssumption DEF ReportError, RedisTypes, ManagerTypes
  <2>2. ManagerTypes'
    BY <1>16 DEF ReportError, ManagerTypes
  <2>3. LocalTypes'
    BY <1>16 DEF ReportError, local, LocalTypes
  <2>4. ClaimTypes'
    BY <1>16 DEF ReportError, local, ClaimTypes, Claiming
  <2>5. HistoryTypes'
    BY <1>16, <1>0 DEF ReportError, history, HistoryTypes
  <2> QED
    BY <2>1, <2>2, <2>3, <2>4, <2>5
<1>17. ASSUME Flush PROVE TypeOK'
  <2>1. RedisTypes'
    BY <1>17 DEF Flush, redis, RedisTypes
  <2>2. ManagerTypes'
    BY <1>17 DEF Flush, ManagerTypes
  <2>3. LocalTypes'
    BY <1>17 DEF Flush, local, LocalTypes
  <2>4. ClaimTypes'
    BY <1>17 DEF Flush, local, ClaimTypes, Claiming
  <2>5. HistoryTypes'
    BY <1>17, <1>0 DEF Flush, history, HistoryTypes
  <2> QED
    BY <2>1, <2>2, <2>3, <2>4, <2>5
<1>18. ASSUME Restart PROVE TypeOK'
  <2>1. RedisTypes'
    BY <1>18 DEF Restart, LoseMemory, redis, RedisTypes
  <2>2. ManagerTypes'
    <3>1. cursor' \in 0..NumKeys - 1
      BY <1>18, ClaimAssumption DEF Restart, LoseMemory
    <3>2. shown' \in [Keys -> 0..Limit]
      BY <1>18, ClaimAssumption DEF Restart, LoseMemory
    <3> QED
      BY <1>18, <3>1, <3>2 DEF Restart, LoseMemory, ManagerTypes
  <2>3. LocalTypes'
    BY <1>18, EmptyRecords, ClaimAssumption DEF Restart, LoseMemory, LocalTypes
  <2>4. ClaimTypes'
    BY <1>18 DEF Restart, LoseMemory, ClaimTypes, Claiming
  <2>5. HistoryTypes'
    BY <1>18, <1>0 DEF Restart, LoseMemory, history, HistoryTypes
  <2> QED
    BY <2>1, <2>2, <2>3, <2>4, <2>5
<1>19. ASSUME Tick PROVE TypeOK'
  <2>1. RedisTypes'
    BY <1>19, FS_EmptySet DEF Tick, RedisTypes
  <2>2. ManagerTypes'
    BY <1>19 DEF Tick, ManagerTypes
  <2>3. LocalTypes'
    BY <1>19 DEF Tick, local, LocalTypes
  <2>4. ClaimTypes'
    BY <1>19 DEF Tick, local, ClaimTypes, Claiming
  <2>5. HistoryTypes'
    BY <1>19, <1>0 DEF Tick, history, HistoryTypes
  <2> QED
    BY <2>1, <2>2, <2>3, <2>4, <2>5
<1> QED
    BY <1>1, <1>2, <1>3, <1>4, <1>5, <1>6, <1>7, <1>8, <1>9, <1>10, <1>11, <1>12, <1>13, <1>14, <1>15, <1>16, <1>17, <1>18, <1>19 DEF Step, Advance

\* Type correctness of the key manager's state: whatever the callers do, every
\* variable keeps its type and RequestsUsed stays within the limit.
THEOREM TypeCorrect == Spec => []TypeOK
<1>1. Init => TypeOK
  <2>1. Init => RedisTypes
    BY FS_EmptySet DEF Init, RedisTypes
  <2>2. Init => ManagerTypes /\ HistoryTypes
    <3>1. 0 \in 0..NumKeys - 1 /\ 0 \in 0..Limit
      BY ClaimAssumption
    <3>2. Init => ManagerTypes
      <4>1. [k \in Keys |-> 0] \in [Keys -> 0..Limit]
        BY <3>1
      <4>2. Init => now = 0 /\ sha = FALSE /\ cursor = 0 /\ shown = [k \in Keys |-> 0]
        BY DEF Init
      <4>3. Init => sha \in BOOLEAN
        BY Zenon DEF Init
      <4> QED
        BY <3>1, <4>1, <4>2, <4>3 DEF ManagerTypes
    <3>3. Init => HistoryTypes
      BY DEF Init, HistoryTypes
    <3> QED
      BY <3>2, <3>3
  <2>3. Init => LocalTypes /\ ClaimTypes
    BY EmptyRecords, ClaimAssumption DEF Init, LocalTypes, ClaimTypes, Claiming
  <2> QED
    BY <2>1, <2>2, <2>3 DEF TypeOK
<1>2. TypeOK /\ [Next]_vars => TypeOK'
  <2>1. TypeOK /\ UNCHANGED vars => TypeOK'
    BY DEF TypeOK, vars, redis, local, history, RedisTypes, ManagerTypes,
           LocalTypes, HistoryTypes, ClaimTypes, Claiming
  <2> QED
    BY <2>1, TypeStep DEF Next
<1> QED
    BY <1>1, <1>2, PTL DEF Spec

-----------------------------------------------------------------------------
(* The inductive invariant. *)

\* Only a snapshot, the script, a hand-out and the clock touch what the promise
\* is about.
LEMMA StepEffect ==
    ASSUME Step
    PROVE  \/ \E p \in Procs, k \in Keys : SnapKey(p, k)
           \/ \E p \in Procs : RunScript(p) \/ HandOut(p)
           \/ Tick
           \/ UNCHANGED <<now, zset, expireAt, handed>>
<1>1. ASSUME NEW p \in Procs, Acquire(p) \/ Wake(p) \/ Sleep(p) \/ SnapFail(p)
      PROVE  UNCHANGED <<now, zset, expireAt, handed>>
    BY <1>1 DEF Acquire, Wake, Sleep, SnapFail, redis, history
<1>2. ASSUME NEW p \in Procs, NEW k \in Keys, NEW n \in Nonces, Stamp(p, k, n)
      PROVE  UNCHANGED <<now, zset, expireAt, handed>>
    BY <1>2 DEF Stamp, history
<1>3. ASSUME NEW p \in Procs, NoScript(p) \/ Refused(p) \/ Resend(p)
      PROVE  UNCHANGED <<now, zset, expireAt, handed>>
    BY <1>3 DEF NoScript, Refused, Resend, redis, history
<1>4. ASSUME NEW p \in Procs, NoScriptAgain(p) \/ FailOpen(p) \/ GiveUp(p) \/ CtxDone(p)
      PROVE  UNCHANGED <<now, zset, expireAt, handed>>
    BY <1>4 DEF NoScriptAgain, FailOpen, Uncounted, GiveUp, CtxDone, redis, history
<1>5. ASSUME Flush \/ Restart \/ \E k \in Keys : ReportError(k)
      PROVE  UNCHANGED <<now, zset, expireAt, handed>>
    BY <1>5 DEF Flush, Restart, ReportError, redis, history
<1> QED
    BY <1>1, <1>2, <1>3, <1>4, <1>5 DEF Step, Advance

\* Trimming a set of stamps keeps the bound on it.
LEMMA ShrinkKeepsBound ==
    ASSUME TypeOK, StoredBound, UNCHANGED <<now, expireAt>>,
           \A k \in Keys : zset'[k] \subseteq zset[k]
    PROVE  StoredBound'
<1> SUFFICES ASSUME NEW k \in Keys
             PROVE  /\ Cardinality(zset'[k]) <= Limit
                    /\ \A e \in zset'[k] : e.ts <= now /\ e.ts + W <= expireAt[k]
    BY DEF StoredBound
<1>1. /\ zset'[k] \subseteq zset[k]
      /\ IsFiniteSet(zset[k])
    BY DEF TypeOK, RedisTypes
<1>2. /\ Cardinality(zset'[k]) \in Nat
      /\ Cardinality(zset[k]) \in Nat
      /\ Cardinality(zset'[k]) <= Cardinality(zset[k])
    BY <1>1, FS_Subset, FS_CardinalityType
<1> QED
    BY <1>1, <1>2, ClaimAssumption DEF StoredBound

\* Young stamps are all that matters to the keys handed out ...
LEMMA YoungKeepHanded ==
    ASSUME TypeOK, HandedIsStored, UNCHANGED <<now, handed>>,
           \A k \in Keys : \A e \in zset[k] : e.ts > now - W => e \in zset'[k]
    PROVE  HandedIsStored'
<1> SUFFICES ASSUME NEW k \in Keys, NEW g \in handed[k]
             PROVE  \E e \in zset'[k] : e.nonce = g.nonce /\ e.ts >= g.at - Lag
    BY DEF HandedIsStored, Recent
<1>1. PICK e \in zset[k] : e.nonce = g.nonce /\ e.ts >= g.at - Lag
    BY DEF HandedIsStored
<1>2. /\ e.ts \in Nat
      /\ g.at \in Nat
      /\ now \in Nat
    BY DEF TypeOK, RedisTypes, HistoryTypes, ManagerTypes, Entry, Grant
<1>3. e.ts > now - W
    BY <1>1, <1>2, ClaimAssumption DEF HandedIsStored, Recent
<1> QED
    BY <1>1, <1>3

\* ... and to the claims under way, if no claim begins or is granted.
LEMMA YoungKeepClaims ==
    ASSUME TypeOK, ClaimsStored, UNCHANGED <<now, handed>>,
           \A k \in Keys : \A e \in zset[k] : e.ts > now - W => e \in zset'[k],
           \A p \in Procs : Claiming(p)' =>
               /\ Claiming(p)
               /\ call'[p].key = call[p].key
               /\ call'[p].nonce = call[p].nonce
               /\ call'[p].ts = call[p].ts
               /\ pc'[p] = "reply" /\ call'[p].res = "granted" =>
                     pc[p] = "reply" /\ call[p].res = "granted"
    PROVE  ClaimsStored'
<1>1. ASSUME NEW p \in Procs, Claiming(p)'
      PROVE  /\ call'[p].ts <= now
             /\ now - call'[p].ts <= Lag
             /\ \A k \in Keys : \A g \in handed[k] : g.nonce # call'[p].nonce
  <2>1. /\ Claiming(p)
        /\ call'[p].nonce = call[p].nonce
        /\ call'[p].ts = call[p].ts
    BY <1>1
  <2>2. /\ call[p].ts <= now
        /\ now - call[p].ts <= Lag
        /\ \A k \in Keys : \A g \in handed[k] : g.nonce # call[p].nonce
    BY <2>1 DEF ClaimsStored
  <2> QED
    BY <2>1, <2>2
<1>2. ASSUME NEW p \in Procs, Claiming(p)', pc'[p] = "reply", call'[p].res = "granted"
      PROVE  [ts |-> call'[p].ts, nonce |-> call'[p].nonce] \in zset'[call'[p].key]
  <2>1. /\ Claiming(p)
        /\ [ts |-> call[p].ts, nonce |-> call[p].nonce] \in zset[call[p].key]
        /\ now - call[p].ts <= Lag
    BY <1>2 DEF ClaimsStored
  <2>2. /\ call[p].key \in Keys
        /\ call[p].ts \in Nat
        /\ now \in Nat
    BY <2>1, CallUpdates DEF TypeOK, ClaimTypes, LocalTypes, ManagerTypes
  <2>3. call[p].ts > now - W
    BY <2>1, <2>2, ClaimAssumption
  <2> QED
    BY <1>2, <2>1, <2>2, <2>3
<1>3. ASSUME NEW p \in Procs, NEW q \in Procs, Claiming(p)', Claiming(q)', p # q
      PROVE  call'[p].nonce # call'[q].nonce
    BY <1>3 DEF ClaimsStored
<1> QED
    BY <1>1, <1>2, <1>3 DEF ClaimsStored

\* A set trimmed with a stamp of the past keeps its young stamps.
LEMMA TrimKeepsYoung ==
    ASSUME TypeOK, NEW k \in Keys, NEW t \in Nat, t <= now
    PROVE  \A e \in zset[k] : e.ts > now - W => e \in Trim(zset[k], t)
BY ClaimAssumption DEF Trim, TypeOK, RedisTypes, ManagerTypes, Entry

\* So does the set of the script's key, whatever the script answers.
LEMMA ScriptKeepsYoung ==
    ASSUME TypeOK, ClaimsStored, NEW p \in Procs, RunScript(p)
    PROVE  \A k \in Keys : \A e \in zset[k] : e.ts > now - W => e \in zset'[k]
<1>1. /\ call[p].key \in Keys
      /\ call[p].ts \in Nat
      /\ call[p].ts <= now
    BY GrantTyped, CallUpdates DEF RunScript, Claiming, ClaimsStored, TypeOK, LocalTypes
<1>2. \A e \in zset[call[p].key] : e.ts > now - W => e \in Live(p)
    BY <1>1, TrimKeepsYoung DEF Live
<1>3. \/ zset' = zset
      \/ zset' = [zset EXCEPT ![call[p].key] = Live(p)]
      \/ zset' = [zset EXCEPT ![call[p].key] =
                     Live(p) \cup {[ts |-> call[p].ts, nonce |-> call[p].nonce]}]
    BY DEF RunScript, RefuseCooling, RefuseFull, GrantClaim, Store
<1> QED
    BY <1>1, <1>2, <1>3 DEF TypeOK, RedisTypes

\* The bound survives every step: a set only grows by the script's ZADD, which
\* counts it first; and a TTL only ends after the stamps it covers.
LEMMA BoundStep ==
    ASSUME TypeOK, ClaimInv, Step
    PROVE  StoredBound'
<1> USE DEF ClaimInv
<1>1. ASSUME UNCHANGED <<now, zset, expireAt>> PROVE StoredBound'
    BY <1>1 DEF StoredBound
<1>2. ASSUME NEW p \in Procs, NEW k \in Keys, SnapKey(p, k) PROVE StoredBound'
  <2>1. \A j \in Keys : zset'[j] \subseteq zset[j]
    BY <1>2 DEF SnapKey, Trim, TypeOK, RedisTypes
  <2> QED
    BY <1>2, <2>1, ShrinkKeepsBound DEF SnapKey
<1>3. ASSUME NEW p \in Procs, RunScript(p) PROVE StoredBound'
  <2>1. CASE RefuseCooling(p)
    BY <2>1, <1>1 DEF RefuseCooling, Answer
  <2>2. CASE RefuseFull(p)
    <3>1. \A j \in Keys : zset'[j] \subseteq zset[j]
      BY <2>2 DEF RefuseFull, Live, Trim, TypeOK, RedisTypes
    <3> QED
      BY <2>2, <3>1, ShrinkKeepsBound DEF RefuseFull, Answer
  <2>3. CASE GrantClaim(p)
    <3> DEFINE k == call[p].key
               e == [ts |-> call[p].ts, nonce |-> call[p].nonce]
    <3>1. /\ k \in Keys
          /\ zset' = [zset EXCEPT ![k] = Live(p) \cup {e}]
          /\ expireAt' = [expireAt EXCEPT ![k] = now + W]
          /\ now' = now
          /\ ~Full(Live(p))
          /\ call[p].ts <= now
      BY <1>3, <2>3, GrantTyped
         DEF RunScript, Claiming, GrantClaim, Store, Answer, ClaimsStored
    <3>2. /\ Live(p) \subseteq zset[k]
          /\ IsFiniteSet(Live(p))
          /\ Cardinality(Live(p)) \in Nat
      BY <3>1, TrimFinite DEF Live, TypeOK, RedisTypes
    <3>3. Cardinality(Live(p) \cup {e}) <= Limit
      <4>1. \/ Cardinality(Live(p) \cup {e}) = Cardinality(Live(p))
            \/ Cardinality(Live(p) \cup {e}) = Cardinality(Live(p)) + 1
        BY <3>2, FS_AddElement
      <4>2. Cardinality(Live(p)) < Limit
        BY <3>1, <3>2, ClaimAssumption DEF Full
      <4> QED
        BY <3>2, <4>1, <4>2, ClaimAssumption
    <3>4. \A f \in Live(p) \cup {e} : f.ts <= now /\ f.ts + W <= now + W
      <4>1. \A f \in zset[k] : f.ts \in Nat /\ f.ts <= now
        BY <3>1 DEF StoredBound, TypeOK, RedisTypes, Entry
      <4>2. e.ts = call[p].ts /\ call[p].ts \in Nat /\ now \in Nat
        BY CallUpdates DEF TypeOK, LocalTypes, ManagerTypes
      <4> QED
        BY <3>1, <3>2, <4>1, <4>2, ClaimAssumption
    <3>5. /\ zset'[k] = Live(p) \cup {e}
          /\ expireAt'[k] = now + W
          /\ \A j \in Keys \ {k} : zset'[j] = zset[j] /\ expireAt'[j] = expireAt[j]
      BY <3>1 DEF TypeOK, RedisTypes
    <3> QED
      BY <3>1, <3>3, <3>4, <3>5 DEF StoredBound
  <2> QED
    BY <1>3, <2>1, <2>2, <2>3 DEF RunScript
<1>4. ASSUME Tick PROVE StoredBound'
  <2> SUFFICES ASSUME NEW k \in Keys
               PROVE  /\ Cardinality(zset'[k]) <= Limit
                      /\ \A e \in zset'[k] : e.ts <= now' /\ e.ts + W <= expireAt'[k]
    BY DEF StoredBound
  <2>1. CASE expireAt[k] <= now + 1
    BY <1>4, <2>1, FS_EmptySet, ClaimAssumption DEF Tick
  <2>2. CASE ~(expireAt[k] <= now + 1)
    <3>1. zset'[k] = zset[k] /\ expireAt'[k] = expireAt[k] /\ now' = now + 1
      BY <1>4, <2>2 DEF Tick
    <3>2. \A e \in zset[k] : e.ts \in Nat /\ e.ts <= now /\ now \in Nat
      BY DEF StoredBound, TypeOK, RedisTypes, ManagerTypes, Entry
    <3> QED
      BY <3>1, <3>2 DEF StoredBound
  <2> QED
    BY <2>1, <2>2
<1> QED
    BY <1>1, <1>2, <1>3, <1>4, StepEffect DEF HandOut, redis

\* A key handed out keeps its stamp in Redis as long as the hand-out is recent.
LEMMA HandedStep ==
    ASSUME TypeOK, ClaimInv, Step
    PROVE  HandedIsStored'
<1> USE DEF ClaimInv
<1>1. ASSUME UNCHANGED <<now, zset, handed>> PROVE HandedIsStored'
    BY <1>1 DEF HandedIsStored, Recent
<1>2. ASSUME NEW p \in Procs, NEW k \in Keys, SnapKey(p, k) PROVE HandedIsStored'
  <2>1. \A j \in Keys : \A e \in zset[j] : e.ts > now - W => e \in zset'[j]
    <3>1. \A e \in zset[k] : e.ts > now - W => e \in Trim(zset[k], snapAt[p])
      BY TrimKeepsYoung DEF SnapshotsPast, TypeOK, LocalTypes
    <3> QED
      BY <1>2, <3>1 DEF SnapKey, TypeOK, RedisTypes
  <2> QED
    BY <1>2, <2>1, YoungKeepHanded DEF SnapKey, history
<1>3. ASSUME NEW p \in Procs, RunScript(p) PROVE HandedIsStored'
  <2>1. \A j \in Keys : \A e \in zset[j] : e.ts > now - W => e \in zset'[j]
    BY <1>3, ScriptKeepsYoung
  <2> QED
    BY <1>3, <2>1, YoungKeepHanded
       DEF RunScript, RefuseCooling, RefuseFull, GrantClaim, Answer, history
<1>4. ASSUME NEW p \in Procs, HandOut(p) PROVE HandedIsStored'
  <2> DEFINE k == call[p].key
             h == [nonce |-> call[p].nonce, at |-> now]
             e == [ts |-> call[p].ts, nonce |-> call[p].nonce]
  <2>1. /\ k \in Keys
        /\ handed' = [handed EXCEPT ![k] = @ \cup {h}]
        /\ now' = now /\ zset' = zset
        /\ e \in zset[k]
        /\ now - call[p].ts <= Lag
    BY <1>4, GrantTyped DEF HandOut, Claiming, ClaimsStored, redis
  <2>2. /\ now \in Nat
        /\ call[p].ts \in Nat
    BY CallUpdates DEF TypeOK, ManagerTypes, LocalTypes
  <2>3. /\ h.at <= now
        /\ Recent(h, now)
        /\ \E f \in zset[k] : f.nonce = h.nonce /\ f.ts >= h.at - Lag
    BY <2>1, <2>2, ClaimAssumption DEF Recent
  <2>4. \A j \in Keys : \A g \in handed'[j] : g \in handed[j] \/ (j = k /\ g = h)
    BY <2>1 DEF TypeOK, HistoryTypes
  <2> QED
    BY <2>1, <2>3, <2>4 DEF HandedIsStored, Recent
<1>5. ASSUME Tick PROVE HandedIsStored'
  <2> SUFFICES ASSUME NEW k \in Keys, NEW g \in handed'[k]
               PROVE  /\ g.at <= now'
                      /\ Recent(g, now')
                      /\ \E e \in zset'[k] : e.nonce = g.nonce /\ e.ts >= g.at - Lag
    BY DEF HandedIsStored, Recent
  <2>1. /\ now' = now + 1
        /\ g \in handed[k]
        /\ Recent(g, now + 1)
    BY <1>5 DEF Tick, Recent
  <2>2. PICK e \in zset[k] : e.nonce = g.nonce /\ e.ts >= g.at - Lag
    BY <2>1 DEF HandedIsStored
  <2>3. /\ g.at \in Nat /\ g.at <= now
        /\ now \in Nat
        /\ e.ts \in Nat
        /\ expireAt[k] \in Nat
        /\ e.ts + W <= expireAt[k]
    BY <2>1, <2>2 DEF HandedIsStored, StoredBound, TypeOK, ManagerTypes,
       HistoryTypes, RedisTypes, Grant, Entry
  <2>4. expireAt[k] > now + 1
    BY <2>1, <2>2, <2>3, ClaimAssumption DEF Recent
  <2>5. zset'[k] = zset[k]
    BY <1>5, <2>3, <2>4 DEF Tick
  <2> QED
    BY <2>1, <2>2, <2>3, <2>5 DEF Recent
<1> QED
    BY <1>1, <1>2, <1>3, <1>4, <1>5, StepEffect

\* A nonce stands for one hand-out: a claim is fresh when it begins and is over
\* once its key is handed out.
LEMMA NonceStep ==
    ASSUME TypeOK, ClaimInv, Step
    PROVE  OneHandOutPerNonce'
<1> USE DEF ClaimInv
<1>1. ASSUME UNCHANGED handed PROVE OneHandOutPerNonce'
    BY <1>1 DEF OneHandOutPerNonce
<1>2. ASSUME NEW p \in Procs, HandOut(p) PROVE OneHandOutPerNonce'
  <2> DEFINE k == call[p].key
             h == [nonce |-> call[p].nonce, at |-> now]
  <2>1. /\ k \in Keys
        /\ handed' = [handed EXCEPT ![k] = @ \cup {h}]
        /\ \A j \in Keys : \A g \in handed[j] : g.nonce # h.nonce
    BY <1>2, GrantTyped DEF HandOut, Claiming, ClaimsStored
  <2>2. \A j \in Keys : \A g \in handed'[j] : g \in handed[j] \/ (j = k /\ g = h)
    BY <2>1 DEF TypeOK, HistoryTypes
  <2> QED
    BY <2>1, <2>2 DEF OneHandOutPerNonce
<1>3. ASSUME Tick PROVE OneHandOutPerNonce'
  <2>1. \A k \in Keys : handed'[k] \subseteq handed[k]
    BY <1>3 DEF Tick
  <2> QED
    BY <2>1 DEF OneHandOutPerNonce
<1> QED
    BY <1>1, <1>2, <1>3, StepEffect
       DEF SnapKey, RunScript, RefuseCooling, RefuseFull, GrantClaim, Answer, history

\* The claims under way stay young, distinct and, once granted, stored.
LEMMA ClaimsStep ==
    ASSUME TypeOK, ClaimInv, Step
    PROVE  ClaimsStored'
<1> USE DEF ClaimInv
\* Steps that neither begin nor answer a claim.
<1>1. ASSUME UNCHANGED <<now, handed, zset>>,
             \A p \in Procs : Claiming(p)' =>
                 /\ Claiming(p)
                 /\ call'[p].key = call[p].key
                 /\ call'[p].nonce = call[p].nonce
                 /\ call'[p].ts = call[p].ts
                 /\ pc'[p] = "reply" /\ call'[p].res = "granted" =>
                       pc[p] = "reply" /\ call[p].res = "granted"
      PROVE  ClaimsStored'
    BY <1>1, YoungKeepClaims
<1>2. ASSUME UNCHANGED <<now, handed, zset, pc, call>> PROVE ClaimsStored'
    BY <1>1, <1>2 DEF Claiming
<1>3. ASSUME NEW p \in Procs, UNCHANGED <<now, handed, zset>>, Leave(p)
      PROVE  ClaimsStored'
    BY <1>1, <1>3 DEF Leave, Claiming, TypeOK, LocalTypes
<1>4. ASSUME NEW p \in Procs, UNCHANGED <<now, handed, zset>>, BeginRound(p)
      PROVE  ClaimsStored'
    BY <1>1, <1>4 DEF BeginRound, Claiming, TypeOK, LocalTypes
<1>5. ASSUME NEW p \in Procs, NEW k \in Keys, SnapKey(p, k) PROVE ClaimsStored'
  <2>1. \A j \in Keys : \A e \in zset[j] : e.ts > now - W => e \in zset'[j]
    <3>1. \A e \in zset[k] : e.ts > now - W => e \in Trim(zset[k], snapAt[p])
      BY TrimKeepsYoung DEF SnapshotsPast, TypeOK, LocalTypes
    <3> QED
      BY <1>5, <3>1 DEF SnapKey, TypeOK, RedisTypes
  <2>2. \A q \in Procs : Claiming(q)' => Claiming(q) /\ pc'[q] = pc[q]
    BY <1>5 DEF SnapKey, EndSnapshot, Claiming, TypeOK, LocalTypes
  <2> QED
    BY <1>5, <2>1, <2>2, YoungKeepClaims DEF SnapKey, history
<1>6. ASSUME NEW p \in Procs, NEW k \in Keys, NEW n \in Nonces, Stamp(p, k, n)
      PROVE  ClaimsStored'
  <2>1. /\ call'[p].nonce = n /\ call'[p].ts = now /\ call'[p].res = "none"
        /\ pc'[p] = "sent"
        /\ \A q \in Procs \ {p} : pc'[q] = pc[q] /\ call'[q] = call[q]
    BY <1>6 DEF Stamp, NoCall, TypeOK, LocalTypes
  <2>2. /\ \A q \in Procs : call[q].nonce # n
        /\ \A j \in Keys : \A g \in handed[j] : g.nonce # n
    BY <1>6 DEF Stamp, Fresh
  <2>3. now' = now /\ handed' = handed /\ zset' = zset /\ now \in Nat
    BY <1>6 DEF Stamp, history, TypeOK, ManagerTypes
  <2>4. ASSUME NEW q \in Procs, Claiming(q)'
        PROVE  /\ call'[q].ts <= now
               /\ now - call'[q].ts <= Lag
               /\ \A j \in Keys : \A g \in handed[j] : g.nonce # call'[q].nonce
               /\ pc'[q] = "reply" /\ call'[q].res = "granted" =>
                    [ts |-> call'[q].ts, nonce |-> call'[q].nonce] \in zset[call'[q].key]
    <3>1. CASE q = p
      BY <2>1, <2>2, <2>3, <3>1, ClaimAssumption
    <3>2. CASE q # p
      BY <2>1, <2>4, <3>2 DEF ClaimsStored, Claiming
    <3> QED
      BY <3>1, <3>2
  <2>5. ASSUME NEW q \in Procs, NEW r \in Procs, Claiming(q)', Claiming(r)', q # r
        PROVE  call'[q].nonce # call'[r].nonce
    BY <2>1, <2>2, <2>5 DEF ClaimsStored, Claiming
  <2> QED
    BY <2>3, <2>4, <2>5 DEF ClaimsStored
<1>7. ASSUME NEW p \in Procs, RunScript(p) PROVE ClaimsStored'
  <2>1. \A k \in Keys : \A e \in zset[k] : e.ts > now - W => e \in zset'[k]
    BY <1>7, ScriptKeepsYoung
  <2>2. /\ pc' = [pc EXCEPT ![p] = "reply"]
        /\ \E r \in Outcome : call' = [call EXCEPT ![p].res = r]
        /\ UNCHANGED <<now, handed>>
    BY <1>7 DEF RunScript, RefuseCooling, RefuseFull, GrantClaim, Answer, Outcome, history
  <2>3. CASE ~GrantClaim(p)
    <3>1. call'[p].res # "granted"
      <4>1. \E r \in {"cooling", "full"} : call' = [call EXCEPT ![p].res = r]
        BY <1>7, <2>3 DEF RunScript, RefuseCooling, RefuseFull, Answer
      <4> QED
        BY <4>1 DEF TypeOK, LocalTypes, Call
    <3>2. \A q \in Procs : Claiming(q)' =>
              /\ Claiming(q)
              /\ call'[q].key = call[q].key
              /\ call'[q].nonce = call[q].nonce
              /\ call'[q].ts = call[q].ts
      BY <1>7, <2>2 DEF RunScript, Claiming, TypeOK, LocalTypes, Call
    <3>3. \A q \in Procs \ {p} : pc'[q] = pc[q] /\ call'[q] = call[q]
      BY <2>2 DEF TypeOK, LocalTypes
    <3> QED
      BY <2>1, <2>2, <3>1, <3>2, <3>3, YoungKeepClaims
  <2>4. CASE GrantClaim(p)
    <3>1. /\ call'[p].key = call[p].key
          /\ call'[p].nonce = call[p].nonce
          /\ call'[p].ts = call[p].ts
          /\ \A q \in Procs \ {p} : pc'[q] = pc[q] /\ call'[q] = call[q]
      BY <2>2 DEF TypeOK, LocalTypes, Call
    <3>2. [ts |-> call[p].ts, nonce |-> call[p].nonce] \in zset'[call[p].key]
      BY <1>7, <2>4, GrantTyped
         DEF RunScript, Claiming, GrantClaim, Store, TypeOK, RedisTypes
    <3>3. Claiming(p)
      BY <1>7 DEF RunScript, Claiming
    <3>4. ASSUME NEW q \in Procs \ {p}, pc[q] = "reply", call[q].res = "granted"
          PROVE  [ts |-> call[q].ts, nonce |-> call[q].nonce] \in zset'[call[q].key]
      <4>1. /\ [ts |-> call[q].ts, nonce |-> call[q].nonce] \in zset[call[q].key]
            /\ now - call[q].ts <= Lag
        BY <3>4 DEF ClaimsStored, Claiming
      <4>2. call[q].key \in Keys /\ call[q].ts \in Nat /\ now \in Nat
        BY <3>4, CallUpdates DEF TypeOK, ClaimTypes, Claiming, LocalTypes, ManagerTypes
      <4>3. call[q].ts > now - W
        BY <4>1, <4>2, ClaimAssumption
      <4> QED
        BY <2>1, <4>1, <4>2, <4>3
    <3>5. ASSUME NEW q \in Procs, Claiming(q)'
          PROVE  /\ call'[q].ts <= now
                 /\ now - call'[q].ts <= Lag
                 /\ \A k \in Keys : \A g \in handed[k] : g.nonce # call'[q].nonce
                 /\ pc'[q] = "reply" /\ call'[q].res = "granted" =>
                      [ts |-> call'[q].ts, nonce |-> call'[q].nonce]
                          \in zset'[call'[q].key]
      <4>1. CASE q = p
        BY <3>1, <3>2, <3>3, <4>1 DEF ClaimsStored
      <4>2. CASE q # p
        BY <3>1, <3>4, <3>5, <4>2 DEF ClaimsStored, Claiming
      <4> QED
        BY <4>1, <4>2
    <3>6. ASSUME NEW q \in Procs, NEW r \in Procs, Claiming(q)', Claiming(r)', q # r
          PROVE  call'[q].nonce # call'[r].nonce
      BY <3>1, <3>3, <3>6 DEF ClaimsStored, Claiming
    <3> QED
      BY <2>2, <3>5, <3>6 DEF ClaimsStored
  <2> QED
    BY <2>3, <2>4
<1>8. ASSUME NEW p \in Procs, NoScript(p) PROVE ClaimsStored'
  <2>1. /\ call'[p].nonce = call[p].nonce /\ call'[p].ts = now
        /\ pc[p] = "sent" /\ pc' = pc
        /\ \A q \in Procs \ {p} : call'[q] = call[q]
        /\ UNCHANGED <<now, handed, zset>>
    BY <1>8 DEF NoScript, history, TypeOK, LocalTypes, Call
  <2>2. ASSUME NEW q \in Procs, Claiming(q)'
        PROVE  /\ call'[q].ts <= now
               /\ now - call'[q].ts <= Lag
               /\ \A k \in Keys : \A g \in handed[k] : g.nonce # call'[q].nonce
               /\ pc[q] = "reply" /\ call'[q].res = "granted" =>
                    [ts |-> call'[q].ts, nonce |-> call'[q].nonce] \in zset[call'[q].key]
    <3>1. CASE q = p
      <4>1. \A k \in Keys : \A g \in handed[k] : g.nonce # call[p].nonce
        BY <2>1 DEF ClaimsStored, Claiming
      <4>2. now \in Nat
        BY DEF TypeOK, ManagerTypes
      <4> QED
        BY <2>1, <3>1, <4>1, <4>2, ClaimAssumption
    <3>2. CASE q # p
      BY <2>1, <2>2, <3>2 DEF ClaimsStored, Claiming
    <3> QED
      BY <3>1, <3>2
  <2>3. ASSUME NEW q \in Procs, NEW r \in Procs, Claiming(q)', Claiming(r)', q # r
        PROVE  call'[q].nonce # call'[r].nonce
    BY <2>1, <2>3 DEF ClaimsStored, Claiming
  <2> QED
    BY <2>1, <2>2, <2>3 DEF ClaimsStored
<1>9. ASSUME NEW p \in Procs, HandOut(p) PROVE ClaimsStored'
  <2> DEFINE k == call[p].key
             h == [nonce |-> call[p].nonce, at |-> now]
  <2>1. /\ k \in Keys
        /\ handed' = [handed EXCEPT ![k] = @ \cup {h}]
        /\ now' = now /\ zset' = zset
        /\ Claiming(p)
    BY <1>9, GrantTyped DEF HandOut, Claiming, redis
  <2>2. \A q \in Procs : Claiming(q)' =>
            q # p /\ Claiming(q) /\ pc'[q] = pc[q] /\ call'[q] = call[q]
    BY <1>9 DEF HandOut, Leave, Claiming, TypeOK, LocalTypes
  <2>3. \A j \in Keys : \A g \in handed'[j] : g \in handed[j] \/ g = h
    BY <2>1 DEF TypeOK, HistoryTypes
  <2>4. ASSUME NEW q \in Procs, Claiming(q)'
        PROVE  \A j \in Keys : \A g \in handed'[j] : g.nonce # call'[q].nonce
    <3>1. call'[q] = call[q] /\ Claiming(q) /\ q # p
      BY <2>2, <2>4
    <3>2. h.nonce # call[q].nonce
      BY <2>1, <3>1 DEF ClaimsStored
    <3>3. \A j \in Keys : \A g \in handed[j] : g.nonce # call[q].nonce
      BY <3>1 DEF ClaimsStored
    <3> QED
      BY <2>3, <3>1, <3>2, <3>3
  <2> QED
    BY <2>1, <2>2, <2>4 DEF ClaimsStored
<1>10. ASSUME Tick PROVE ClaimsStored'
  <2>1. /\ now' = now + 1
        /\ pc' = pc /\ call' = call
        /\ \A k \in Keys : handed'[k] \subseteq handed[k]
    BY <1>10 DEF Tick, local
  <2>2. ASSUME NEW p \in Procs, Claiming(p)
        PROVE  /\ call[p].ts <= now'
               /\ now' - call[p].ts <= Lag
               /\ \A k \in Keys : \A g \in handed'[k] : g.nonce # call[p].nonce
    <3>1. now + 1 - call[p].ts <= Lag
      BY <1>10, <2>2 DEF Tick
    <3>2. now \in Nat /\ call[p].ts \in Nat /\ call[p].ts <= now
      BY <2>2, CallUpdates DEF ClaimsStored, TypeOK, ManagerTypes, LocalTypes
    <3>3. \A k \in Keys : \A g \in handed[k] : g.nonce # call[p].nonce
      BY <2>2 DEF ClaimsStored
    <3> QED
      BY <2>1, <3>1, <3>2, <3>3
  <2>3. ASSUME NEW p \in Procs, pc[p] = "reply", call[p].res = "granted"
        PROVE  [ts |-> call[p].ts, nonce |-> call[p].nonce] \in zset'[call[p].key]
    <3> DEFINE k == call[p].key
               e == [ts |-> call[p].ts, nonce |-> call[p].nonce]
    <3>1. /\ k \in Keys
          /\ e \in zset[k]
          /\ now + 1 - call[p].ts <= Lag
      BY <1>10, <2>3, GrantTyped DEF Tick, Claiming, ClaimsStored
    <3>2. /\ now \in Nat
          /\ call[p].ts \in Nat
          /\ expireAt[k] \in Nat
          /\ call[p].ts + W <= expireAt[k]
      BY <3>1, CallUpdates DEF StoredBound, TypeOK, ManagerTypes, LocalTypes, RedisTypes
    <3>3. expireAt[k] > now + 1
      BY <3>1, <3>2, ClaimAssumption
    <3> QED
      BY <1>10, <3>1, <3>2, <3>3 DEF Tick
  <2> QED
    BY <2>1, <2>2, <2>3 DEF ClaimsStored, Claiming
<1>11. ASSUME NEW p \in Procs, Refused(p) \/ Sleep(p) \/ SnapFail(p) PROVE ClaimsStored'
    BY <1>1, <1>11
       DEF Refused, Sleep, SnapFail, EndSnapshot, Claiming, redis, history, TypeOK, LocalTypes
<1>12. ASSUME NEW p \in Procs, Resend(p) PROVE ClaimsStored'
    BY <1>1, <1>12 DEF Resend, Claiming, redis, history, TypeOK, LocalTypes, Call
<1>13. ASSUME Restart PROVE ClaimsStored'
    BY <1>1, <1>13 DEF Restart, LoseMemory, Claiming, redis, history
<1>14. ASSUME NEW p \in Procs,
              \/ GiveUp(p) \/ CtxDone(p) \/ NoScriptAgain(p) \/ FailOpen(p)
              \/ Acquire(p) \/ Wake(p)
       PROVE  ClaimsStored'
    BY <1>3, <1>4, <1>14
       DEF GiveUp, CtxDone, NoScriptAgain, FailOpen, Uncounted, Acquire, Wake, redis, history
<1>15. ASSUME Flush \/ \E k \in Keys : ReportError(k) PROVE ClaimsStored'
    BY <1>2, <1>15 DEF Flush, ReportError, local, history
<1> QED
    BY <1>5, <1>6, <1>7, <1>8, <1>9, <1>10, <1>11, <1>12, <1>13, <1>14, <1>15
       DEF Step, Advance

\* The clock only moves forward, and a snapshot is stamped with it.
LEMMA SnapshotsStep ==
    ASSUME TypeOK, ClaimInv, Step
    PROVE  SnapshotsPast'
<1>1. now \in Nat /\ \A p \in Procs : snapAt[p] \in Nat /\ snapAt[p] <= now
    BY DEF ClaimInv, SnapshotsPast, TypeOK, ManagerTypes, LocalTypes
<1>2. ASSUME NEW p \in Procs, now' = now,
             snapAt' = snapAt \/ snapAt' = [snapAt EXCEPT ![p] = now]
                 \/ snapAt' = [snapAt EXCEPT ![p] = 0]
      PROVE  SnapshotsPast'
    BY <1>1, <1>2 DEF SnapshotsPast, TypeOK, LocalTypes
<1>3. ASSUME NEW p \in Procs, Acquire(p) \/ Wake(p) PROVE SnapshotsPast'
    BY <1>2, <1>3 DEF Acquire, Wake, BeginRound
<1>4. ASSUME NEW p \in Procs,
             HandOut(p) \/ GiveUp(p) \/ CtxDone(p) \/ FailOpen(p) \/ NoScriptAgain(p)
      PROVE  SnapshotsPast'
    BY <1>2, <1>4 DEF HandOut, GiveUp, CtxDone, FailOpen, NoScriptAgain, Uncounted, Leave
<1>5. ASSUME NEW p \in Procs,
             \/ \E k \in Keys : SnapKey(p, k)
             \/ \E k \in Keys, n \in Nonces : Stamp(p, k, n)
             \/ RunScript(p) \/ NoScript(p) \/ Refused(p) \/ Sleep(p)
             \/ SnapFail(p) \/ Resend(p)
      PROVE  SnapshotsPast'
    BY <1>2, <1>5 DEF SnapKey, Stamp, RunScript, RefuseCooling, RefuseFull, GrantClaim,
       Answer, NoScript, Refused, Sleep, SnapFail, Resend
<1>6. ASSUME Flush \/ \E k \in Keys : ReportError(k) PROVE SnapshotsPast'
    BY <1>1, <1>6 DEF Flush, ReportError, local, SnapshotsPast
<1>7. ASSUME Restart PROVE SnapshotsPast'
    BY <1>1, <1>7 DEF Restart, LoseMemory, SnapshotsPast
<1>8. ASSUME Tick PROVE SnapshotsPast'
    BY <1>1, <1>8 DEF Tick, local, SnapshotsPast
<1> QED
    BY <1>3, <1>4, <1>5, <1>6, <1>7, <1>8 DEF Step, Advance

\* The inductive invariant: what Redis stores of the recent past is complete
\* enough for the script's count to bound the keys handed out.
THEOREM ClaimInvariant == Spec => []ClaimInv
<1>1. Init => ClaimInv
    BY FS_EmptySet, ClaimAssumption
       DEF Init, ClaimInv, StoredBound, HandedIsStored, OneHandOutPerNonce,
           ClaimsStored, SnapshotsPast, Claiming
<1>2. TypeOK /\ ClaimInv /\ [Next]_vars => ClaimInv'
  <2>1. ASSUME ClaimInv, UNCHANGED vars PROVE ClaimInv'
    BY <2>1 DEF ClaimInv, vars, redis, local, history, StoredBound, HandedIsStored,
       OneHandOutPerNonce, ClaimsStored, SnapshotsPast, Claiming, Recent
  <2>2. ASSUME TypeOK, ClaimInv, Next PROVE ClaimInv'
    BY <2>2, BoundStep, HandedStep, NonceStep, ClaimsStep, SnapshotsStep DEF Next, ClaimInv
  <2> QED
    BY <2>1, <2>2
<1> QED
    BY <1>1, <1>2, TypeCorrect, PTL DEF Spec

-----------------------------------------------------------------------------
(* The limiter's bound. *)

\* Each recent hand-out of a key has a stamp of its own in Redis.
LEMMA StampsOfHandOuts ==
    ASSUME ClaimInv, NEW k \in Keys
    PROVE  \E f \in Injection(handed[k], zset[k]) :
              \A g \in handed[k] : f[g].nonce = g.nonce
<1> DEFINE f == [g \in handed[k] |-> CHOOSE e \in zset[k] : e.nonce = g.nonce]
<1>1. \A g \in handed[k] : f[g] \in zset[k] /\ f[g].nonce = g.nonce
    BY DEF ClaimInv, HandedIsStored
<1>2. f \in [handed[k] -> zset[k]]
    BY <1>1
<1>3. ASSUME NEW g \in handed[k], NEW h \in handed[k], f[g] = f[h]
      PROVE  g = h
    BY <1>1, <1>3 DEF ClaimInv, OneHandOutPerNonce
<1> HIDE DEF f
<1>4. f \in Injection(handed[k], zset[k])
    BY <1>2, <1>3 DEF Injection, IsInjective
<1> QED
    BY <1>1, <1>4

\* So the recent hand-outs of a key are no more than its stamps in Redis.
LEMMA HandedAtMostStored ==
    ASSUME TypeOK, ClaimInv, NEW k \in Keys
    PROVE  /\ IsFiniteSet(handed[k])
           /\ Cardinality(handed[k]) \in Nat
           /\ Cardinality(handed[k]) <= Cardinality(zset[k])
<1>1. PICK f \in Injection(handed[k], zset[k]) : TRUE
    BY StampsOfHandOuts
<1>2. IsFiniteSet(zset[k])
    BY DEF TypeOK, RedisTypes
<1> QED
    BY <1>1, <1>2, FS_Injection, FS_CardinalityType

\* At most Limit granted claims are handed out per key in any W - Lag, for every number of
\* keys, callers and claims, every limit and every window longer than the lag.
THEOREM WindowBounded == Spec => []WindowBound
<1>1. TypeOK /\ ClaimInv => WindowBound
  <2> SUFFICES ASSUME TypeOK, ClaimInv, NEW k \in Keys
               PROVE  Cardinality(handed[k]) <= Limit
    BY DEF WindowBound
  <2>1. Cardinality(zset[k]) \in Nat /\ Cardinality(zset[k]) <= Limit
    BY FS_CardinalityType DEF TypeOK, RedisTypes, ClaimInv, StoredBound
  <2> QED
    BY <2>1, HandedAtMostStored, ClaimAssumption
<1> QED
    BY <1>1, TypeCorrect, ClaimInvariant, PTL

-----------------------------------------------------------------------------
(* Refinement of SlidingWindow. *)

\* A hand-out of the key manager is one of the abstract limiter: the claim's own
\* stamp is stored besides those of the earlier hand-outs, so fewer than Limit
\* were recent.
LEMMA HandOutRefines ==
    ASSUME TypeOK, ClaimInv, NEW p \in Procs, HandOut(p)
    PROVE  Limiter!HandOut(call[p].key, call[p].nonce)
<1> DEFINE k == call[p].key
           n == call[p].nonce
           e == [ts |-> call[p].ts, nonce |-> n]
<1>1. /\ k \in Keys
      /\ e \in zset[k]
      /\ \A j \in Keys : \A g \in handed[j] : g.nonce # n
    BY GrantTyped DEF HandOut, Claiming, ClaimInv, ClaimsStored
<1>2. Cardinality(handed[k]) < Limit
  <2>1. PICK f \in Injection(handed[k], zset[k]) :
            \A g \in handed[k] : f[g].nonce = g.nonce
    BY <1>1, StampsOfHandOuts
  <2>2. \A g \in handed[k] : f[g] # e
    BY <1>1, <2>1
  <2>3. f \in Injection(handed[k], zset[k] \ {e})
    BY <2>1, <2>2 DEF Injection, IsInjective
  <2>4. IsFiniteSet(zset[k])
    BY <1>1 DEF TypeOK, RedisTypes
  <2>5. Cardinality(zset[k]) <= Limit
    BY <1>1 DEF ClaimInv, StoredBound
  <2>6. /\ IsFiniteSet(zset[k] \ {e})
        /\ Cardinality(zset[k] \ {e}) = Cardinality(zset[k]) - 1
        /\ Cardinality(zset[k]) \in Nat
    BY <1>1, <2>4, FS_RemoveElement, FS_CardinalityType
  <2>7. Cardinality(handed[k]) <= Cardinality(zset[k] \ {e})
    BY <2>3, <2>6, FS_Injection
  <2>8. Cardinality(handed[k]) \in Nat
    BY <1>1, HandedAtMostStored
  <2> QED
    BY <2>5, <2>6, <2>7, <2>8, ClaimAssumption
<1> QED
  <2>1. Limiter!Cardinality(handed[k]) = Cardinality(handed[k])
    BY Zenon DEF Limiter!Cardinality, Cardinality
  <2> QED
    BY <1>1, <1>2, <2>1 DEF HandOut, redis, Limiter!HandOut

\* Every behaviour of the key manager is one of the sliding window.
THEOREM ClaimWindowRefines == Spec => Refinement
<1>1. Init => Limiter!Init
    BY DEF Init, Limiter!Init
<1>2. TypeOK /\ ClaimInv /\ [Next]_vars => [Limiter!Next]_<<now, handed>>
  <2>1. UNCHANGED vars => UNCHANGED <<now, handed>>
    BY DEF vars, history
  <2>2. ASSUME Tick PROVE Limiter!Tick
    BY <2>2 DEF Tick, Recent, Limiter!Tick
  <2>3. ASSUME TypeOK, ClaimInv, NEW p \in Procs, HandOut(p) PROVE Limiter!Next
    BY <2>3, HandOutRefines, GrantTyped
       DEF HandOut, Claiming, TypeOK, ClaimTypes, Limiter!Next
  <2>4. ASSUME Step PROVE \/ Tick
                          \/ \E p \in Procs : HandOut(p)
                          \/ UNCHANGED <<now, handed>>
    BY <2>4, StepEffect
       DEF SnapKey, RunScript, RefuseCooling, RefuseFull, GrantClaim, Answer, history
  <2> QED
    BY <2>1, <2>2, <2>3, <2>4 DEF Next, Limiter!Next
<1> QED
    BY <1>1, <1>2, TypeCorrect, ClaimInvariant, PTL DEF Spec, Refinement, Limiter!Spec

-----------------------------------------------------------------------------
(* What a round has seen. *)

\* The snapshot of k lets p claim it.
Open(p, k) == ~view[p][k].cooling /\ view[p][k].used < Limit

\* The keys that no look at Redis found blocked since p's round began are still
\* to be read, with a view that lets them pass, or to be tried: what the
\* snapshot saw, what the script answered and what Redis held agree, because the
\* script's stamp is not older than the snapshot's.
RoundRight(p) ==
    /\ pc[p] \in {"idle", "sleep"} => unblocked[p] = {}
    /\ pc[p] = "snap" => \A k \in left[p] \cup unblocked[p] : Open(p, k)
    /\ pc[p] \in {"scan", "sent", "reply"} =>
          \A k \in unblocked[p] : k \in left[p] /\ Open(p, k)
    /\ Claiming(p) => call[p].ts >= snapAt[p]
    /\ pc[p] = "sent" => call[p].res = "none"
    /\ pc[p] = "reply" /\ call[p].res # "granted" => call[p].key \notin unblocked[p]

RoundInv == \A p \in Procs : RoundRight(p)

\* A key that Observe still counts as unblocked is neither cooling nor full now;
\* within a round no key is added.
LEMMA StillUnblocked ==
    ASSUME TypeOK, Observe, NEW p \in Procs
    PROVE  /\ pc'[p] \in {"idle", "sleep"} => unblocked'[p] = {}
           /\ pc[p] \notin {"idle", "sleep"} => unblocked'[p] \subseteq unblocked[p]
           /\ \A k \in unblocked'[p] :
                 /\ k \in Keys
                 /\ ~(errUntil'[k] > now')
                 /\ ~(Cardinality(Trim(zset'[k], snapAt'[p])) >= Limit)
<1>1. unblocked'[p] = IF pc'[p] \in {"idle", "sleep"} THEN {}
                      ELSE IF pc[p] \in {"idle", "sleep"} THEN Free(p)'
                      ELSE unblocked[p] \cap Free(p)'
    BY DEF Observe
<1>2. Free(p)' = {k \in Keys : ~(errUntil'[k] > now') /\ ~(Cardinality(Trim(zset'[k], snapAt'[p])) >= Limit)}
    BY DEF Free, Cooling, Full, Trim
<1> QED
    BY <1>1, <1>2

\* A caller that does nothing keeps what it knows.
LEMMA BystanderRight ==
    ASSUME TypeOK, RoundInv, Observe, NEW p \in Procs,
           pc'[p] = pc[p], view'[p] = view[p], left'[p] = left[p], call'[p] = call[p],
           snapAt'[p] = snapAt[p]
    PROVE  RoundRight(p)'
<1>1. RoundRight(p) /\ (pc[p] \notin {"idle", "sleep"} => unblocked'[p] \subseteq unblocked[p])
      /\ (pc'[p] \in {"idle", "sleep"} => unblocked'[p] = {})
    BY StillUnblocked DEF RoundInv
<1> QED
    BY <1>1 DEF RoundRight, Open, Claiming

Acts(p) == Acquire(p) \/ Advance(p) \/ CtxDone(p) \/ SnapFail(p) \/ FailOpen(p) \/ Resend(p)

\* A caller's step leaves the others' locals alone.
LEMMA OwnLocals ==
    ASSUME TypeOK, NEW p \in Procs, Acts(p), NEW q \in Procs, q # p
    PROVE  /\ pc'[q] = pc[q] /\ view'[q] = view[q] /\ left'[q] = left[q]
           /\ call'[q] = call[q] /\ snapAt'[q] = snapAt[q]
<1> USE DEF TypeOK, LocalTypes
<1>1. CASE Acquire(p) \/ Wake(p)
    BY <1>1 DEF Acquire, Wake, BeginRound
<1>2. CASE \E k \in Keys : SnapKey(p, k)
    BY <1>2 DEF SnapKey, EndSnapshot
<1>3. CASE \E k \in Keys, n \in Nonces : Stamp(p, k, n)
    BY <1>3 DEF Stamp
<1>4. CASE RunScript(p)
    BY <1>4 DEF RunScript, RefuseCooling, RefuseFull, GrantClaim, Answer
<1>5. CASE NoScript(p) \/ Refused(p) \/ Sleep(p) \/ Resend(p)
    BY <1>5 DEF NoScript, Refused, Sleep, Resend
<1>6. CASE HandOut(p) \/ GiveUp(p) \/ CtxDone(p) \/ FailOpen(p) \/ NoScriptAgain(p)
    BY <1>6 DEF HandOut, GiveUp, CtxDone, FailOpen, NoScriptAgain, Uncounted, Leave
<1>7. CASE SnapFail(p)
    BY <1>7 DEF SnapFail, EndSnapshot
<1> QED
    BY <1>1, <1>2, <1>3, <1>4, <1>5, <1>6, <1>7 DEF Acts, Advance

\* A snapshot that has not read a key takes it for unused and healthy.
LEMMA UnreadOpen == \A k \in Keys : NoView[k].used < Limit /\ ~NoView[k].cooling
BY ClaimAssumption DEF NoView

\* A round begins with every key still to be read.
LEMMA RoundBegins ==
    ASSUME TypeOK, Observe, NEW p \in Procs, Acquire(p) \/ Wake(p)
    PROVE  RoundRight(p)'
<1>1. pc'[p] = "snap" /\ view'[p] = NoView /\ left'[p] = Keys
    BY DEF Acquire, Wake, BeginRound, TypeOK, LocalTypes
<1>2. \A k \in left'[p] \cup unblocked'[p] : k \in Keys
    BY <1>1, StillUnblocked
<1> QED
    BY <1>1, <1>2, UnreadOpen DEF RoundRight, Open, Claiming

\* Trimming twice with one stamp is trimming once; trimming with a later stamp
\* leaves nothing for an earlier one to trim.
LEMMA TrimTwice ==
    ASSUME NEW S \in SUBSET Entry, NEW t \in Nat, NEW s \in Nat, s <= t
    PROVE  Trim(Trim(S, t), s) = Trim(S, t)
<1>1. \A e \in S : e.ts \in Nat
    BY DEF Entry
<1> QED
    BY <1>1, ClaimAssumption DEF Trim

\* A key that is unblocked after it was read was read as open.
LEMMA ReadRight ==
    ASSUME TypeOK, RoundInv, Observe, NEW p \in Procs, NEW k \in Keys, SnapKey(p, k)
    PROVE  RoundRight(p)'
<1> DEFINE live == Trim(zset[k], snapAt[p])
<1>1. /\ pc[p] = "snap" /\ k \in left[p]
      /\ zset' = [zset EXCEPT ![k] = live]
      /\ view' = [view EXCEPT ![p][k] = [used |-> Cardinality(live), cooling |-> Cooling(k)]]
      /\ UNCHANGED <<now, errUntil, snapAt, call>>
    BY DEF SnapKey
<1>2. \A j \in left[p] \cup unblocked[p] : Open(p, j)
    BY <1>1 DEF RoundInv, RoundRight
<1>3. /\ unblocked'[p] \subseteq unblocked[p]
      /\ \A j \in unblocked'[p] : j \in Keys /\ ~(errUntil'[j] > now')
                                 /\ ~(Cardinality(Trim(zset'[j], snapAt'[p])) >= Limit)
    BY <1>1, StillUnblocked
<1>4. /\ view'[p][k].used = Cardinality(live) /\ view'[p][k].cooling = Cooling(k)
      /\ \A j \in Keys \ {k} : view'[p][j] = view[p][j]
    BY <1>1 DEF TypeOK, LocalTypes, Status
<1>5. k \in unblocked'[p] => ~view'[p][k].cooling /\ view'[p][k].used < Limit
  <2> SUFFICES ASSUME k \in unblocked'[p] PROVE ~view'[p][k].cooling /\ view'[p][k].used < Limit
    OBVIOUS
  <2>1. zset'[k] = live /\ snapAt[p] \in Nat /\ zset[k] \in SUBSET Entry /\ IsFiniteSet(zset[k])
    BY <1>1 DEF TypeOK, RedisTypes, LocalTypes
  <2>2. Trim(live, snapAt[p]) = live /\ Cardinality(live) \in Nat
    BY <2>1, TrimTwice, TrimFinite
  <2>3. ~(Cardinality(live) >= Limit) /\ ~(errUntil[k] > now)
    BY <1>1, <1>3, <2>1, <2>2
  <2>4. ~Cooling(k)
    BY <2>3 DEF Cooling
  <2>5. ~view'[p][k].cooling
    BY <1>4, <2>4, Zenon
  <2>6. view'[p][k].used < Limit
    BY <1>4, <2>2, <2>3, ClaimAssumption
  <2> QED
    BY <2>5, <2>6
<1>6. \A j \in left[p] : j \in Keys
    BY DEF TypeOK, LocalTypes
<1>7. \A j \in unblocked'[p] : ~view'[p][j].cooling /\ view'[p][j].used < Limit
    BY <1>2, <1>3, <1>4, <1>5 DEF Open
<1>8. \A j \in left[p] \ {k} : ~view'[p][j].cooling /\ view'[p][j].used < Limit
    BY <1>2, <1>4, <1>6 DEF Open
<1>9. CASE left[p] = {k}
  <2>1. pc'[p] = "scan" /\ left'[p] = Keys
    BY <1>9 DEF SnapKey, EndSnapshot, TypeOK, LocalTypes
  <2> QED
    BY <2>1, <1>3, <1>7 DEF RoundRight, Open, Claiming
<1>10. CASE left[p] # {k}
  <2>1. pc'[p] = "snap" /\ left'[p] = left[p] \ {k}
    BY <1>1, <1>10 DEF SnapKey, TypeOK, LocalTypes
  <2> QED
    BY <2>1, <1>7, <1>8 DEF RoundRight, Open, Claiming
<1> QED
    BY <1>9, <1>10

\* When the pipeline breaks, the keys not read count as open.
LEMMA BrokenRight ==
    ASSUME TypeOK, RoundInv, Observe, NEW p \in Procs, SnapFail(p)
    PROVE  RoundRight(p)'
<1>1. pc[p] = "snap" /\ pc'[p] = "scan" /\ left'[p] = Keys /\ view' = view
    BY DEF SnapFail, EndSnapshot, TypeOK, LocalTypes
<1>2. \A k \in unblocked[p] : Open(p, k)
    BY <1>1 DEF RoundInv, RoundRight
<1>3. unblocked'[p] \subseteq unblocked[p] /\ \A k \in unblocked'[p] : k \in Keys
    BY <1>1, StillUnblocked
<1> QED
    BY <1>1, <1>2, <1>3 DEF RoundRight, Open, Claiming

\* The script's stamp is taken after the snapshot's, and the claim is new.
LEMMA StampRight ==
    ASSUME TypeOK, RoundInv, SnapshotsPast, Observe, NEW p \in Procs,
           NEW k \in Keys, NEW n \in Nonces, Stamp(p, k, n)
    PROVE  RoundRight(p)'
<1>1. /\ pc[p] = "scan" /\ pc'[p] = "sent"
      /\ call'[p] = [NoCall EXCEPT !.key = k, !.ts = now, !.nonce = n]
      /\ UNCHANGED <<view, left, snapAt>>
    BY DEF Stamp, TypeOK, LocalTypes
<1>2. call'[p].ts = now /\ call'[p].res = "none" /\ snapAt'[p] <= now
  <2>1. now \in Nat
    BY DEF TypeOK, ManagerTypes
  <2>2. call'[p].ts = now /\ call'[p].res = "none"
    <3> DEFINE c == [NoCall EXCEPT !.key = k, !.ts = now, !.nonce = n]
    <3>1. c.ts = now /\ c.res = "none"
      BY DEF NoCall
    <3> QED
      BY <1>1, <3>1
  <2>3. snapAt'[p] <= now
    BY <1>1 DEF SnapshotsPast
  <2> QED
    BY <2>2, <2>3
<1>3. \A j \in unblocked[p] : j \in left[p] /\ Open(p, j)
    BY <1>1 DEF RoundInv, RoundRight
<1>4. unblocked'[p] \subseteq unblocked[p]
    BY <1>1, StillUnblocked
<1>5. now \in Nat /\ snapAt'[p] \in Nat
    BY <1>1 DEF TypeOK, ManagerTypes, LocalTypes
<1> QED
    BY <1>1, <1>2, <1>3, <1>4, <1>5 DEF RoundRight, Open, Claiming

\* The script refuses a key only when it is blocked at that moment.
LEMMA ScriptRight ==
    ASSUME TypeOK, RoundInv, Observe, NEW p \in Procs, RunScript(p)
    PROVE  RoundRight(p)'
<1> DEFINE k == call[p].key
<1>1. /\ pc[p] = "sent" /\ pc'[p] = "reply"
      /\ \E r \in {"cooling", "full", "granted"} : call'[p] = [call[p] EXCEPT !.res = r]
      /\ UNCHANGED <<view, left, snapAt, now, errUntil>>
    BY DEF RunScript, RefuseCooling, RefuseFull, GrantClaim, Answer, TypeOK, LocalTypes
<1>2. call'[p].ts = call[p].ts /\ call'[p].key = k
    BY <1>1 DEF TypeOK, LocalTypes, Call
<1>3. /\ \A j \in unblocked[p] : j \in left[p] /\ Open(p, j)
      /\ call[p].ts >= snapAt[p]
    BY <1>1 DEF RoundInv, RoundRight, Claiming
<1>4. /\ unblocked'[p] \subseteq unblocked[p]
      /\ \A j \in unblocked'[p] : ~(errUntil'[j] > now')
                                 /\ ~(Cardinality(Trim(zset'[j], snapAt'[p])) >= Limit)
    BY <1>1, StillUnblocked
<1>5. call'[p].res # "granted" => k \notin unblocked'[p]
  <2>1. CASE RefuseCooling(p)
    BY <1>1, <1>4, <2>1 DEF RefuseCooling, Cooling
  <2>2. CASE RefuseFull(p)
    <3>1. k \in Keys /\ zset'[k] = Live(p) /\ Full(Live(p))
      BY <1>1, <2>2 DEF RefuseFull, TypeOK, RedisTypes, ClaimTypes, Claiming
    <3>2. zset[k] \in SUBSET Entry /\ call[p].ts \in Nat /\ snapAt[p] \in Nat /\ snapAt[p] <= call[p].ts
      BY <1>3, <3>1 DEF TypeOK, RedisTypes, LocalTypes, Call
    <3>3. Trim(Live(p), snapAt[p]) = Live(p)
      BY <3>2, TrimTwice DEF Live
    <3> QED
      BY <1>1, <1>4, <3>1, <3>3 DEF Full
  <2>3. CASE GrantClaim(p)
    BY <2>3 DEF GrantClaim, Answer, TypeOK, LocalTypes, Call
  <2> QED
    BY <2>1, <2>2, <2>3 DEF RunScript
<1> QED
    BY <1>1, <1>2, <1>3, <1>4, <1>5 DEF RoundRight, Open, Claiming

\* A claim that is sent again, with a stamp of its own when the script was gone.
LEMMA AgainRight ==
    ASSUME TypeOK, RoundInv, SnapshotsPast, Observe, NEW p \in Procs, NoScript(p) \/ Resend(p)
    PROVE  RoundRight(p)'
<1>1. Claiming(p) /\ pc'[p] = "sent" /\ UNCHANGED <<view, left, snapAt>>
    BY DEF NoScript, Resend, Claiming, TypeOK, LocalTypes
<1>2. call'[p].ts \in {call[p].ts, now} /\ call'[p].res = "none"
    BY <1>1 DEF NoScript, Resend, TypeOK, LocalTypes, Call, RoundInv, RoundRight
<1>3. call[p].ts >= snapAt[p] /\ now >= snapAt[p]
    BY <1>1 DEF RoundInv, RoundRight, SnapshotsPast, TypeOK, ManagerTypes, LocalTypes
<1>4. unblocked'[p] \subseteq unblocked[p] /\ \A j \in unblocked[p] : j \in left[p] /\ Open(p, j)
    BY <1>1, StillUnblocked DEF Claiming, RoundInv, RoundRight
<1> QED
    BY <1>1, <1>2, <1>3, <1>4 DEF RoundRight, Open, Claiming

\* A refused key is not tried again, and was blocked.
LEMMA RefusedRight ==
    ASSUME TypeOK, RoundInv, Observe, NEW p \in Procs, Refused(p)
    PROVE  RoundRight(p)'
<1>1. /\ pc[p] = "reply" /\ pc'[p] = "scan" /\ left'[p] = left[p] \ {call[p].key}
      /\ UNCHANGED view
    BY DEF Refused, TypeOK, LocalTypes
<1>2. /\ call[p].key \notin unblocked[p]
      /\ \A j \in unblocked[p] : j \in left[p] /\ Open(p, j)
    BY <1>1 DEF Refused, RoundInv, RoundRight
<1>3. unblocked'[p] \subseteq unblocked[p]
    BY <1>1, StillUnblocked
<1> QED
    BY <1>1, <1>2, <1>3 DEF RoundRight, Open, Claiming

\* A caller that leaves or goes to sleep ends its round.
LEMMA EndRight ==
    ASSUME TypeOK, Observe, NEW p \in Procs,
           HandOut(p) \/ GiveUp(p) \/ CtxDone(p) \/ FailOpen(p) \/ NoScriptAgain(p) \/ Sleep(p)
    PROVE  RoundRight(p)'
<1>1. pc'[p] \in {"idle", "sleep"}
    BY DEF HandOut, GiveUp, CtxDone, FailOpen, NoScriptAgain, Uncounted, Leave, Sleep, TypeOK, LocalTypes
<1> QED
    BY <1>1, StillUnblocked DEF RoundRight, Claiming

\* Every step keeps what the rounds have seen.
LEMMA RoundStep ==
    ASSUME TypeOK, RoundInv, SnapshotsPast, [Next]_vars
    PROVE  RoundInv'
<1>1. CASE UNCHANGED vars
    BY <1>1 DEF vars, redis, local, RoundInv, RoundRight, Open, Claiming
<1>2. ASSUME Observe, NEW p \in Procs, Acts(p) PROVE RoundInv'
  <2>1. RoundRight(p)'
    BY <1>2, RoundBegins, ReadRight, BrokenRight, StampRight, ScriptRight, AgainRight,
       RefusedRight, EndRight DEF Acts, Advance
  <2>2. ASSUME NEW q \in Procs, q # p PROVE RoundRight(q)'
    BY <1>2, <2>2, OwnLocals, BystanderRight
  <2> QED
    BY <2>1, <2>2 DEF RoundInv
<1>3. ASSUME Observe, Tick \/ Flush \/ \E k \in Keys : ReportError(k) PROVE RoundInv'
  <2>1. UNCHANGED <<pc, local>>
    BY <1>3 DEF Tick, Flush, ReportError
  <2> QED
    BY <1>3, <2>1, BystanderRight DEF local, RoundInv
<1>4. ASSUME Observe, Restart PROVE RoundInv'
  <2>1. \A p \in Procs : pc'[p] = "idle"
    BY <1>4 DEF Restart, LoseMemory
  <2> QED
    BY <1>4, <2>1, StillUnblocked DEF RoundInv, RoundRight, Claiming
<1> QED
    BY <1>1, <1>2, <1>3, <1>4 DEF Next, Step, Acts

LEMMA RoundInvariant == Spec => []RoundInv
<1>1. Init => RoundInv
    BY DEF Init, RoundInv, RoundRight, Claiming
<1>2. ClaimInv => SnapshotsPast
    BY DEF ClaimInv
<1> QED
    BY <1>1, <1>2, RoundStep, TypeCorrect, ClaimInvariant, PTL DEF Spec

\* ErrAllLimited is never spurious: when a caller gives up, each key was full or
\* cooling at some moment since its last round began.
THEOREM RefusalIsJustified == Spec => RefusalJustified
<1>1. ASSUME RoundInv, NEW p \in Procs, GiveUp(p) PROVE unblocked[p] = {}
    BY <1>1 DEF GiveUp, Candidates, RoundInv, RoundRight, Open
<1>2. RoundInv => [\A p \in Procs : GiveUp(p) => unblocked[p] = {}]_vars
    BY <1>1
<1> QED
    BY <1>2, RoundInvariant, PTL DEF RefusalJustified
=============================================================================
