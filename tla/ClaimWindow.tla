----------------------------- MODULE ClaimWindow -----------------------------
(***************************************************************************)
(* keymanager.Manager.Acquire over one pool of API keys, and the Redis     *)
(* structures it shares with every other caller: a sorted set of request   *)
(* stamps per key, an error flag per key and the cached Lua script.        *)
(*                                                                         *)
(* A caller first takes a snapshot of the pool, one key after the other    *)
(* and without a transaction, orders the keys, and then claims them one by *)
(* one with a script that Redis runs atomically.  The script works with a  *)
(* time stamp the CALLER took before it sent the script, so claims run in  *)
(* an order that is not the order of their stamps, and anything may have   *)
(* happened between the snapshot and the claim.                            *)
(*                                                                         *)
(* Time is an integer clock.  One tick is far longer than the 250 ms the   *)
(* code sleeps between two rounds, so a sleeping caller may wake without a *)
(* tick.                                                                   *)
(***************************************************************************)
EXTENDS Integers, FiniteSets

CONSTANTS
    NumKeys,    \* keys in the pool; a key is its position, KeyInfo.Index + 1
    Procs,      \* goroutines that call Acquire
    Nonces,     \* the nonces of claims ("<UnixNano>-<fingerprint>")
    NoNonce,    \* no claim under way
    W,          \* defaultWindowMs
    Limit,      \* KeyInfo.RequestsLimit
    Lag,        \* longest time from a claim's stamp to its reply
    Wait,       \* Manager.waitFor
    Cooldown,   \* cooldownSecs of ReportError
    Strategy,   \* Manager.strategy
    Retries,    \* go-redis resends a command after a network error this often
    Faults,     \* TRUE: lost replies sent again, script flushes, restarts
    MaxNow      \* bound of the clock

Keys == 1..NumKeys

ASSUME ClaimAssumption ==
    /\ NumKeys \in Nat \ {0}
    /\ W \in Nat /\ Limit \in Nat \ {0}
    /\ Lag \in Nat /\ Lag < W
    /\ Wait \in Nat /\ Cooldown \in Nat /\ Retries \in Nat /\ MaxNow \in Nat
    /\ Strategy \in {"least_used", "round_robin"}
    /\ Faults \in BOOLEAN
    /\ NoNonce \notin Nonces

VARIABLES
    now,        \* the clock
    zset,       \* Redis: gw:keys:..:<index>:requests, a set of entries per key
    expireAt,   \* Redis: when the TTL of that sorted set ends
    errUntil,   \* Redis: when gw:keys:..:<index>:error ends
    loaded,     \* Redis: the claim script is in its script cache
    sha,        \* Manager.luaSha is not empty
    cursor,     \* Pool.rrCursor modulo the number of keys
    shown,      \* KeyInfo.RequestsUsed
    pc,         \* where each caller is in Acquire
    deadline,   \* Acquire's local deadline
    snapAt,     \* snapshotPool's local now
    view,       \* the []keyStatus of the round
    shift,      \* order's local shift
    left,       \* keys the caller has still to read (snap) or to try (scan)
    call,       \* the claim under way
    handed,     \* history: keys handed out after a successful claim
    uncounted,  \* history: keys handed out because claim returned an error
    unblocked   \* history: keys no caller's round has seen blocked so far

redis == <<zset, expireAt, errUntil, loaded>>
local == <<deadline, snapAt, view, shift, left, call>>
history == <<handed, uncounted>>
vars == <<now, redis, sha, cursor, shown, pc, local, history, unblocked>>

Entry == [ts : Nat, nonce : Nonces]
Grant == [nonce : Nonces, at : Nat]
Status == [used : Nat, cooling : BOOLEAN]
Outcome == {"none", "cooling", "full", "granted"}
Call == [key : Keys \cup {0}, ts : Nat, nonce : Nonces \cup {NoNonce},
         again : BOOLEAN, tries : Nat, res : Outcome]
NoCall == [key |-> 0, ts |-> 0, nonce |-> NoNonce,
           again |-> FALSE, tries |-> 0, res |-> "none"]
NoView == [k \in Keys |-> [used |-> 0, cooling |-> FALSE]]

Claiming(p) == pc[p] \in {"sent", "reply"}

RedisTypes ==
    /\ zset \in [Keys -> SUBSET Entry]
    /\ \A k \in Keys : IsFiniteSet(zset[k])
    /\ expireAt \in [Keys -> Nat]
    /\ errUntil \in [Keys -> Nat]
    /\ loaded \in BOOLEAN

ManagerTypes ==
    /\ now \in Nat
    /\ sha \in BOOLEAN
    /\ cursor \in 0..NumKeys - 1
    /\ shown \in [Keys -> 0..Limit]

LocalTypes ==
    /\ pc \in [Procs -> {"idle", "snap", "scan", "sent", "reply", "sleep"}]
    /\ deadline \in [Procs -> Nat]
    /\ snapAt \in [Procs -> Nat]
    /\ view \in [Procs -> [Keys -> Status]]
    /\ shift \in [Procs -> 0..NumKeys - 1]
    /\ left \in [Procs -> SUBSET Keys]
    /\ call \in [Procs -> Call]

HistoryTypes ==
    /\ handed \in [Keys -> SUBSET Grant]
    /\ uncounted \in [Keys -> SUBSET Grant]
    /\ unblocked \in [Procs -> SUBSET Keys]

\* A claim under way is for a key the snapshot saw below its limit.
ClaimTypes ==
    \A p \in Procs :
        Claiming(p) =>
            /\ call[p].key \in Keys
            /\ call[p].nonce \in Nonces
            /\ view[p][call[p].key].used < Limit

\* Types; RequestsUsed never exceeds the limit of its key.
TypeOK ==
    RedisTypes /\ ManagerTypes /\ LocalTypes /\ HistoryTypes /\ ClaimTypes

Init ==
    /\ now = 0
    /\ zset = [k \in Keys |-> {}]
    /\ expireAt = [k \in Keys |-> 0]
    /\ errUntil = [k \in Keys |-> 0]
    /\ loaded \in BOOLEAN
    /\ sha = FALSE
    /\ cursor = 0
    /\ shown = [k \in Keys |-> 0]
    /\ pc = [p \in Procs |-> "idle"]
    /\ deadline = [p \in Procs |-> 0]
    /\ snapAt = [p \in Procs |-> 0]
    /\ view = [p \in Procs |-> NoView]
    /\ shift = [p \in Procs |-> 0]
    /\ left = [p \in Procs |-> {}]
    /\ call = [p \in Procs |-> NoCall]
    /\ handed = [k \in Keys |-> {}]
    /\ uncounted = [k \in Keys |-> {}]
    /\ unblocked = [p \in Procs |-> {}]

-----------------------------------------------------------------------------
\* Mutant of Trim: the window is one tick short.
TrimEarly(S, t) == {e \in S : e.ts > t - W + 1}

\* ZREMRANGEBYSCORE 0 .. t - W leaves these entries.
Trim(S, t) == {e \in S : e.ts > t - W}

Cooling(k) == errUntil[k] > now

Full(S) == Cardinality(S) >= Limit

\* Nonces are UnixNano stamps: a new one differs from all that still matter.
Fresh(n) ==
    /\ \A p \in Procs : call[p].nonce # n
    /\ \A k \in Keys :
          \A e \in zset[k] \cup handed[k] \cup uncounted[k] : e.nonce # n

\* The order of the candidates: round_robin starts at the shifted position,
\* the default is a stable sort by the snapshot's used count.
Before(p, j, k) ==
    IF Strategy = "round_robin"
    THEN (j - 1 - shift[p]) % NumKeys <= (k - 1 - shift[p]) % NumKeys
    ELSE \/ view[p][j].used < view[p][k].used
         \/ view[p][j].used = view[p][k].used /\ j <= k

Candidates(p) ==
    {k \in left[p] : ~view[p][k].cooling /\ view[p][k].used < Limit}

IsFirst(p, k) ==
    k \in Candidates(p) /\ \A j \in Candidates(p) : Before(p, k, j)

\* The call returns: its local variables are gone.
Leave(p) ==
    /\ pc' = [pc EXCEPT ![p] = "idle"]
    /\ deadline' = [deadline EXCEPT ![p] = 0]
    /\ snapAt' = [snapAt EXCEPT ![p] = 0]
    /\ view' = [view EXCEPT ![p] = NoView]
    /\ shift' = [shift EXCEPT ![p] = 0]
    /\ left' = [left EXCEPT ![p] = {}]
    /\ call' = [call EXCEPT ![p] = NoCall]

\* The head of the for loop: snapshotPool takes its own time stamp.
BeginRound(p) ==
    /\ pc' = [pc EXCEPT ![p] = "snap"]
    /\ snapAt' = [snapAt EXCEPT ![p] = now]
    /\ view' = [view EXCEPT ![p] = NoView]
    /\ shift' = [shift EXCEPT ![p] = 0]
    /\ left' = [left EXCEPT ![p] = Keys]
    /\ UNCHANGED call

Acquire(p) ==
    /\ pc[p] = "idle"
    /\ now + Wait < MaxNow
    /\ deadline' = [deadline EXCEPT ![p] = now + Wait]
    /\ BeginRound(p)
    /\ UNCHANGED <<now, redis, sha, cursor, shown, history>>

\* order: once all keys are read, the round-robin cursor moves and the scan
\* of all keys begins.
EndSnapshot(p) ==
    LET next == (cursor + 1) % NumKeys
    IN  /\ pc' = [pc EXCEPT ![p] = "scan"]
        /\ left' = [left EXCEPT ![p] = Keys]
        /\ cursor' = IF Strategy = "round_robin" THEN next ELSE cursor
        /\ shift' = [shift EXCEPT ![p] =
                        IF Strategy = "round_robin" THEN next ELSE 0]

\* The pipeline's four commands for one key: trim, count, error flag (and the
\* oldest entry, which only tunes the length of the sleep).
SnapKey(p, k) ==
    LET live == Trim(zset[k], snapAt[p])
    IN  /\ pc[p] = "snap"
        /\ k \in left[p] /\ \A j \in left[p] : k <= j
        /\ zset' = [zset EXCEPT ![k] = live]
        /\ view' = [view EXCEPT ![p][k] =
                       [used |-> Cardinality(live), cooling |-> Cooling(k)]]
        /\ IF left[p] = {k}
           THEN EndSnapshot(p)
           ELSE /\ left' = [left EXCEPT ![p] = @ \ {k}]
                /\ UNCHANGED <<pc, cursor, shift>>
        /\ UNCHANGED <<now, expireAt, errUntil, loaded, sha, shown,
                       deadline, snapAt, call, history>>

\* The pipeline breaks, because Redis fails or the caller's context is cancelled:
\* errors are ignored, and every key not read yet counts as unused and healthy.
SnapFail(p) ==
    /\ pc[p] = "snap"
    /\ EndSnapshot(p)
    /\ UNCHANGED <<now, redis, sha, shown, deadline, snapAt, view, call, history>>

\* claim up to the script: nonce, sha (loading the script when none is
\* cached), time stamp.
Stamp(p, k, n) ==
    /\ pc[p] = "scan"
    /\ IsFirst(p, k)
    /\ Fresh(n)
    /\ pc' = [pc EXCEPT ![p] = "sent"]
    /\ call' = [call EXCEPT ![p] =
                   [NoCall EXCEPT !.key = k, !.ts = now, !.nonce = n]]
    /\ sha' = TRUE
    /\ loaded' = (loaded \/ ~sha)
    /\ UNCHANGED <<now, zset, expireAt, errUntil, cursor, shown,
                   deadline, snapAt, view, shift, left, history>>

\* Redis runs the claim script: the entries it counts, and its three answers.
Live(p) == Trim(zset[call[p].key], call[p].ts)

Answer(p, r) ==
    /\ pc' = [pc EXCEPT ![p] = "reply"]
    /\ call' = [call EXCEPT ![p].res = r]
    /\ UNCHANGED <<now, errUntil, loaded, sha, cursor, shown,
                   deadline, snapAt, view, shift, left, history>>

RefuseCooling(p) ==
    /\ Cooling(call[p].key)
    /\ Answer(p, "cooling")
    /\ UNCHANGED <<zset, expireAt>>

RefuseFull(p) ==
    /\ ~Cooling(call[p].key)
    /\ Full(Live(p))
    /\ zset' = [zset EXCEPT ![call[p].key] = Live(p)]
    /\ Answer(p, "full")
    /\ UNCHANGED expireAt

\* ZADD and PEXPIRE.
Store(p) ==
    /\ zset' = [zset EXCEPT ![call[p].key] = Live(p) \cup
                   {[ts |-> call[p].ts, nonce |-> call[p].nonce]}]
    /\ expireAt' = [expireAt EXCEPT ![call[p].key] = now + W]

GrantClaim(p) ==
    /\ ~Cooling(call[p].key)
    /\ ~Full(Live(p))
    /\ Store(p)
    /\ Answer(p, "granted")

RunScript(p) ==
    /\ pc[p] = "sent"
    /\ loaded
    /\ RefuseCooling(p) \/ RefuseFull(p) \/ GrantClaim(p)

\* The first NOSCRIPT: reload, take a new stamp, same nonce.
NoScript(p) ==
    /\ pc[p] = "sent"
    /\ ~loaded
    /\ ~call[p].again
    /\ loaded' = TRUE
    /\ sha' = TRUE
    /\ call' = [call EXCEPT ![p].again = TRUE, ![p].ts = now]
    /\ UNCHANGED <<now, zset, expireAt, errUntil, cursor, shown, pc,
                   deadline, snapAt, view, shift, left, history>>

\* The claim succeeded: RequestsUsed is written from the snapshot, the key goes
\* to the caller.
HandOut(p) ==
    LET k == call[p].key
    IN  /\ pc[p] = "reply"
        /\ call[p].res = "granted"
        /\ shown' = [shown EXCEPT ![k] = view[p][k].used + 1]
        /\ handed' = [handed EXCEPT ![k] = @ \cup
                         {[nonce |-> call[p].nonce, at |-> now]}]
        /\ Leave(p)
        /\ UNCHANGED <<now, redis, sha, cursor, uncounted>>

\* Mutant of Refused: the loop ends at the first refusal.
RefusedBreak(p) ==
    /\ pc[p] = "reply"
    /\ call[p].res # "granted"
    /\ pc' = [pc EXCEPT ![p] = "scan"]
    /\ left' = [left EXCEPT ![p] = {}]
    /\ call' = [call EXCEPT ![p] = NoCall]
    /\ UNCHANGED <<now, redis, sha, cursor, shown,
                   deadline, snapAt, view, shift, history>>

\* The claim was refused: on to the next key.
Refused(p) ==
    /\ pc[p] = "reply"
    /\ call[p].res # "granted"
    /\ pc' = [pc EXCEPT ![p] = "scan"]
    /\ left' = [left EXCEPT ![p] = @ \ {call[p].key}]
    /\ call' = [call EXCEPT ![p] = NoCall]
    /\ UNCHANGED <<now, redis, sha, cursor, shown,
                   deadline, snapAt, view, shift, history>>

\* Mutant of Sleep: the deadline does not keep it from sleeping on.
SleepOn(p) ==
    /\ pc[p] = "scan"
    /\ Candidates(p) = {}
    /\ pc' = [pc EXCEPT ![p] = "sleep"]
    /\ view' = [view EXCEPT ![p] = NoView]
    /\ left' = [left EXCEPT ![p] = {}]
    /\ UNCHANGED <<now, redis, sha, cursor, shown,
                   deadline, snapAt, shift, call, history>>

\* Every candidate was refused before the deadline: sleep up to 250 ms.
Sleep(p) ==
    /\ pc[p] = "scan"
    /\ Candidates(p) = {}
    /\ now <= deadline[p]
    /\ pc' = [pc EXCEPT ![p] = "sleep"]
    /\ view' = [view EXCEPT ![p] = NoView]
    /\ left' = [left EXCEPT ![p] = {}]
    /\ UNCHANGED <<now, redis, sha, cursor, shown,
                   deadline, snapAt, shift, call, history>>

\* ErrAllLimited.
GiveUp(p) ==
    /\ pc[p] = "scan"
    /\ Candidates(p) = {}
    /\ now > deadline[p]
    /\ Leave(p)
    /\ UNCHANGED <<now, redis, sha, cursor, shown, history>>

Wake(p) ==
    /\ pc[p] = "sleep"
    /\ BeginRound(p)
    /\ UNCHANGED <<now, redis, sha, cursor, shown, deadline, history>>

\* ctx.Done() while asleep.
CtxDone(p) ==
    /\ pc[p] = "sleep"
    /\ Leave(p)
    /\ UNCHANGED <<now, redis, sha, cursor, shown, history>>

\* The key is handed out all the same, and RequestsUsed is left alone.
Uncounted(p) ==
    /\ uncounted' = [uncounted EXCEPT ![call[p].key] = @ \cup
                        {[nonce |-> call[p].nonce, at |-> now]}]
    /\ Leave(p)
    /\ UNCHANGED <<now, redis, cursor, shown, handed>>

\* claim returns an error: Redis fails, or the caller's context is cancelled
\* although Redis answers, which the code does not tell apart.  The script has run
\* or not; when it could not be loaded luaSha stays empty.
FailOpen(p) ==
    /\ Claiming(p)
    /\ sha' \in {sha, FALSE}
    /\ Uncounted(p)

\* The second NOSCRIPT is an error like any other.
NoScriptAgain(p) ==
    /\ pc[p] = "sent"
    /\ ~loaded
    /\ call[p].again
    /\ Uncounted(p)
    /\ UNCHANGED sha

\* The reply is lost and go-redis sends the same command again.
Resend(p) ==
    /\ Faults
    /\ pc[p] = "reply"
    /\ call[p].tries < Retries
    /\ pc' = [pc EXCEPT ![p] = "sent"]
    /\ call' = [call EXCEPT ![p].tries = @ + 1, ![p].res = "none"]
    /\ UNCHANGED <<now, redis, sha, cursor, shown,
                   deadline, snapAt, view, shift, left, history>>

\* Any caller reports an error of a key.
ReportError(k) ==
    /\ errUntil' = [errUntil EXCEPT ![k] = now + Cooldown]
    /\ UNCHANGED <<now, zset, expireAt, loaded, sha, cursor, shown, pc, local,
                   history>>

\* Redis loses its script cache.
Flush ==
    /\ Faults
    /\ loaded
    /\ loaded' = FALSE
    /\ UNCHANGED <<now, zset, expireAt, errUntil, sha, cursor, shown, pc, local,
                   history>>

\* The gateway stops and starts again: what is in Redis stays.
LoseMemory ==
    /\ sha' = FALSE
    /\ cursor' = 0
    /\ shown' = [k \in Keys |-> 0]
    /\ pc' = [p \in Procs |-> "idle"]
    /\ deadline' = [p \in Procs |-> 0]
    /\ snapAt' = [p \in Procs |-> 0]
    /\ view' = [p \in Procs |-> NoView]
    /\ shift' = [p \in Procs |-> 0]
    /\ left' = [p \in Procs |-> {}]
    /\ call' = [p \in Procs |-> NoCall]

\* Mutant of Restart: the stamps live in the gateway's memory.
RestartForgets ==
    /\ Faults
    /\ LoseMemory
    /\ zset' = [k \in Keys |-> {}]
    /\ UNCHANGED <<now, expireAt, errUntil, loaded, history>>

Restart ==
    /\ Faults
    /\ LoseMemory
    /\ UNCHANGED <<now, redis, history>>

Recent(g, t) == g.at > t - (W - Lag)

\* Time passes: Redis drops what has expired, and the history forgets what no
\* property looks at any more.  A claim under way is answered within Lag.
Tick ==
    /\ now < MaxNow
    /\ \A p \in Procs : Claiming(p) => now + 1 - call[p].ts <= Lag
    /\ now' = now + 1
    /\ zset' = [k \in Keys |-> IF expireAt[k] <= now + 1 THEN {} ELSE zset[k]]
    /\ handed' = [k \in Keys |-> {g \in handed[k] : Recent(g, now + 1)}]
    /\ uncounted' = [k \in Keys |-> {g \in uncounted[k] : Recent(g, now + 1)}]
    /\ expireAt' = [k \in Keys |-> IF expireAt[k] <= now + 1 THEN 0 ELSE expireAt[k]]
    /\ errUntil' = [k \in Keys |-> IF errUntil[k] <= now + 1 THEN 0 ELSE errUntil[k]]
    /\ UNCHANGED <<loaded, sha, cursor, shown, pc, local>>

Advance(p) ==
    \/ \E k \in Keys : SnapKey(p, k)
    \/ \E k \in Keys, n \in Nonces : Stamp(p, k, n)
    \/ RunScript(p) \/ NoScript(p) \/ NoScriptAgain(p)
    \/ HandOut(p) \/ Refused(p)
    \/ Sleep(p) \/ GiveUp(p) \/ Wake(p)

Step ==
    \/ \E p \in Procs :
          \/ Acquire(p) \/ Advance(p) \/ CtxDone(p)
          \/ SnapFail(p) \/ FailOpen(p) \/ Resend(p)
    \/ \E k \in Keys : ReportError(k)
    \/ Flush \/ Restart \/ Tick

\* History: the keys a caller could have claimed ever since its round began,
\* judged with the window of the round's own time stamp.
Free(p) ==
    {k \in Keys : ~Cooling(k) /\ ~Full(Trim(zset[k], snapAt[p]))}

Observe ==
    unblocked' = [p \in Procs |->
        IF pc'[p] \in {"idle", "sleep"} THEN {}
        ELSE IF pc[p] \in {"idle", "sleep"} THEN Free(p)'
        ELSE unblocked[p] \cap Free(p)']

Next == Step /\ Observe

Spec == Init /\ [][Next]_vars

\* A goroutine that can run does run, and time passes.
FairSpec ==
    /\ Spec
    /\ \A p \in Procs : WF_vars(Advance(p) /\ Observe)
    /\ WF_vars(Tick /\ Observe)

-----------------------------------------------------------------------------
\* Redis never stores more than Limit stamps of a key; the TTL it gives a set
\* outlasts every stamp in it.
StoredBound ==
    \A k \in Keys :
        /\ Cardinality(zset[k]) <= Limit
        /\ \A e \in zset[k] : e.ts <= now /\ e.ts + W <= expireAt[k]

\* A key handed out in the last W - Lag still has its stamp in Redis, and the
\* stamp is at most Lag older than the hand-out.
HandedIsStored ==
    \A k \in Keys : \A g \in handed[k] :
        /\ g.at <= now
        /\ Recent(g, now)
        /\ \E e \in zset[k] : e.nonce = g.nonce /\ e.ts >= g.at - Lag

\* A nonce stands for one hand-out.
OneHandOutPerNonce ==
    \A j, k \in Keys : \A g \in handed[j], h \in handed[k] :
        g.nonce = h.nonce => j = k /\ g = h

\* A claim under way is young, is not handed out yet, and once granted it is
\* stored until its caller reads the reply.
ClaimsStored ==
    /\ \A p \in Procs :
          Claiming(p) =>
            /\ call[p].ts <= now
            /\ now - call[p].ts <= Lag
            /\ \A k \in Keys : \A g \in handed[k] : g.nonce # call[p].nonce
            /\ pc[p] = "reply" /\ call[p].res = "granted" =>
                  [ts |-> call[p].ts, nonce |-> call[p].nonce]
                      \in zset[call[p].key]
    /\ \A p, q \in Procs :
          Claiming(p) /\ Claiming(q) /\ p # q => call[p].nonce # call[q].nonce

\* A snapshot's stamp never lies ahead of the clock.
SnapshotsPast == \A p \in Procs : snapAt[p] <= now

\* The inductive invariant behind WindowBound.
ClaimInv ==
    /\ StoredBound
    /\ HandedIsStored
    /\ OneHandOutPerNonce
    /\ ClaimsStored
    /\ SnapshotsPast

-----------------------------------------------------------------------------
\* The limiter's promise for the claims the script granted: at most Limit of them
\* are handed out per key in any W - Lag, whatever the order of stamps, claims
\* and replies, and across restarts of the gateway.
WindowBound == \A k \in Keys : Cardinality(handed[k]) <= Limit

\* README.md:18 promises a limiter with which callers "never hit provider limits":
\* the same bound for every key handed out, those that claim lets pass uncounted
\* among them.  The code does not keep it: one cancelled request is enough.
NeverOverLimit ==
    \A k \in Keys : Cardinality(handed[k] \cup uncounted[k]) <= Limit

\* ErrAllLimited is never spurious: since the caller's last round began, each
\* key was at some moment full or cooling.
RefusalJustified ==
    [][\A p \in Procs : GiveUp(p) => unblocked[p] = {}]_vars

\* The same promise as a specification of its own: whatever callers, stamps and
\* Redis do, the hand-outs are those of a sliding window of W - Lag.
Limiter == INSTANCE SlidingWindow
    WITH Ids <- Nonces, Span <- W - Lag, granted <- handed

Refinement == Limiter!Spec

\* Every call of Acquire returns.
AcquireReturns == \A p \in Procs : pc[p] # "idle" ~> pc[p] = "idle"
=============================================================================
