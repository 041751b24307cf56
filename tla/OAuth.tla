-------------------------------- MODULE OAuth --------------------------------
(***************************************************************************)
(* oauth.Manager and the handlers that call it: logins by PKCE             *)
(* (antigravity) and by device code (kiro), their tokens in Redis and in   *)
(* the mirror, and the mutex that guards the mirror and the pending flows. *)
(*                                                                         *)
(* A flow gives at most one token (the authorities honour a code once), so *)
(* a token is named by its flow and 0 is no token.  Whether a token has    *)
(* expired makes no difference to any store: no record has a token_url, so *)
(* refresh returns an error before it does anything.                       *)
(***************************************************************************)
EXTENDS Integers, FiniteSets

CONSTANTS
    Procs,      \* requests that are served at the same time
    Free,       \* no goroutine holds the mutex
    MaxFlows    \* bound: logins that are started

ASSUME OAuthAssumption == MaxFlows \in Nat /\ Free \notin Procs

Providers == {"kiro", "antigravity"}
Flows == 1..MaxFlows
NoToken == 0

VARIABLES
    started,    \* the flows started so far: the provider of each
    pending,    \* Manager.pending
    redeemed,   \* flows the authority has given a token for
    redis,      \* gw:oauth:{provider}
    local,      \* Manager.local
    mu,         \* who holds Manager.mu beyond one step
    pc, prov, flow, rec,    \* each request: where it is, provider, state, record
    unsure      \* history: providers whose last change was disturbed

stores == <<redis, local, unsure>>
flows == <<started, pending, redeemed>>
vars == <<flows, stores, mu, pc, prov, flow, rec>>

\* Inside a store operation on v: a save, a deletion or a fill has made its first
\* access to Redis or to the mirror and not its last.
Open(p, v) == pc[p] \in {"mirror", "del", "fill"} /\ prov[p] = v

Tokens(v) == {f \in DOMAIN started : started[f] = v} \cup {NoToken}

\* Types; a token is only ever stored for the provider it was issued for.
TypeOK ==
    /\ \E n \in 0..MaxFlows : started \in [1..n -> Providers]
    /\ pending \in SUBSET Flows /\ redeemed \in SUBSET Flows
    /\ pending \cup redeemed \subseteq DOMAIN started
    /\ redis \in [Providers -> Flows \cup {NoToken}]
    /\ local \in [Providers -> Flows \cup {NoToken}]
    /\ \A v \in Providers : redis[v] \in Tokens(v) /\ local[v] \in Tokens(v)
    /\ mu \in Procs \cup {Free}
    /\ pc \in [Procs -> {"idle", "start", "callback", "poll", "exchange", "drop",
                         "save", "mirror", "get", "fetch", "fill", "delete", "del",
                         "status", "keys"}]
    /\ prov \in [Procs -> Providers]
    /\ flow \in [Procs -> Flows \cup {0}]
    /\ rec \in [Procs -> Flows \cup {NoToken}]
    /\ \A p \in Procs : pc[p] \in {"drop", "save", "mirror", "fill"} =>
          rec[p] # NoToken /\ rec[p] \in Tokens(prov[p])
    /\ \A p \in Procs : pc[p] = "exchange" => flow[p] \in DOMAIN started
    /\ unsure \in SUBSET Providers

Init ==
    /\ started = <<>>
    /\ pending = {} /\ redeemed = {}
    /\ redis = [v \in Providers |-> NoToken]
    /\ local = [v \in Providers |-> NoToken]
    /\ mu = Free
    /\ pc = [p \in Procs |-> "idle"]
    /\ prov = [p \in Procs |-> "kiro"]
    /\ flow = [p \in Procs |-> 0]
    /\ rec = [p \in Procs |-> NoToken]
    /\ unsure = {}

-----------------------------------------------------------------------------
\* Requests and their arguments.
Call(p, at, v, f) ==
    /\ pc[p] = "idle"
    /\ pc' = [pc EXCEPT ![p] = at]
    /\ prov' = [prov EXCEPT ![p] = v]
    /\ flow' = [flow EXCEPT ![p] = f]
    /\ UNCHANGED <<flows, stores, mu, rec>>

StartLogin(p, v) == Call(p, "start", v, 0)
Callback(p, f) == Call(p, "callback", "antigravity", f)
Poll(p, f) == Call(p, "poll", "kiro", f)
AccessToken(p, v) == Call(p, "get", v, 0)
Disconnect(p, v) == Call(p, "delete", v, 0)
Status(p) == Call(p, "status", "kiro", 0)

At(p, here) == pc[p] = here
Goto(p, there) == pc' = [pc EXCEPT ![p] = there]

\* The request is answered and its local variables are gone.
Return(p) ==
    /\ pc' = [pc EXCEPT ![p] = "idle"]
    /\ prov' = [prov EXCEPT ![p] = "kiro"]
    /\ flow' = [flow EXCEPT ![p] = 0]
    /\ rec' = [rec EXCEPT ![p] = NoToken]

\* A first access to the stores of v.  It is disturbed when another operation
\* on v is open; an undisturbed change settles what was unsure before.
Enter(p, v, settles) ==
    unsure' = IF \E q \in Procs \ {p} : Open(q, v)
              THEN unsure \cup {v}
              ELSE IF settles THEN unsure \ {v} ELSE unsure

\* StartPKCE and StartDeviceCode: a new flow becomes pending.
StartFlow(p) ==
    /\ At(p, "start") /\ mu = Free
    /\ Cardinality(DOMAIN started) < MaxFlows
    /\ LET f == Cardinality(DOMAIN started) + 1
       IN  /\ started' = [g \in 1..f |-> IF g = f THEN prov[p] ELSE started[g]]
           /\ pending' = pending \cup {f}
    /\ Return(p)
    /\ UNCHANGED <<redeemed, stores, mu>>

\* The authority does not register the device flow (or the bound is reached).
StartFails(p) ==
    /\ At(p, "start")
    /\ prov[p] = "kiro" \/ Cardinality(DOMAIN started) = MaxFlows
    /\ Return(p)
    /\ UNCHANGED <<flows, stores, mu>>

\* PollDeviceCode takes the flow of the state; a PKCE flow has no client
\* credentials in its verifier.
FindPoll(p) ==
    /\ At(p, "poll") /\ mu = Free
    /\ IF flow[p] \in pending /\ started[flow[p]] = "kiro"
       THEN /\ Goto(p, "exchange")
            /\ prov' = [prov EXCEPT ![p] = started[flow[p]]]
            /\ UNCHANGED <<flow, rec>>
       ELSE Return(p)
    /\ UNCHANGED <<flows, stores, mu>>

\* CompletePKCE takes any pending flow.
FindCallback(p) ==
    /\ At(p, "callback") /\ mu = Free
    /\ IF flow[p] \in pending
       THEN Goto(p, "exchange") /\ UNCHANGED <<prov, flow, rec>>
       ELSE Return(p)
    /\ UNCHANGED <<flows, stores, mu>>

\* The authority honours a code of its own flow, once.
Granted(p) ==
    /\ At(p, "exchange")
    /\ flow[p] \notin redeemed /\ started[flow[p]] = prov[p]
    /\ redeemed' = redeemed \cup {flow[p]}
    /\ rec' = [rec EXCEPT ![p] = flow[p]]
    /\ Goto(p, "drop")
    /\ UNCHANGED <<started, pending, stores, mu, prov, flow>>

\* authorization_pending, a refusal, an error.
NotGranted(p) ==
    /\ At(p, "exchange")
    /\ Return(p)
    /\ UNCHANGED <<flows, stores, mu>>

DropFlow(p) ==
    /\ At(p, "drop") /\ mu = Free
    /\ pending' = pending \ {flow[p]}
    /\ Goto(p, "save")
    /\ UNCHANGED <<started, redeemed, stores, mu, prov, flow, rec>>

-----------------------------------------------------------------------------
\* save: Redis first,
SaveRedis(p) ==
    /\ At(p, "save")
    /\ redis' = [redis EXCEPT ![prov[p]] = rec[p]]
    /\ Enter(p, prov[p], TRUE)
    /\ Goto(p, "mirror")
    /\ UNCHANGED <<flows, local, mu, prov, flow, rec>>

\* Mutant of SaveFails: an error is taken for success.
SaveFailsOn(p) ==
    /\ At(p, "save")
    /\ UNCHANGED redis
    /\ Enter(p, prov[p], TRUE)
    /\ Goto(p, "mirror")
    /\ UNCHANGED <<flows, local, mu, prov, flow, rec>>

\* or an error, after which the record may have been written all the same,
SaveFails(p) ==
    /\ At(p, "save")
    /\ \/ UNCHANGED <<redis, unsure>>
       \/ /\ redis' = [redis EXCEPT ![prov[p]] = rec[p]]
          /\ unsure' = unsure \cup {prov[p]}
    /\ Return(p)
    /\ UNCHANGED <<flows, local, mu>>

\* then the mirror, and the answer "connected".
SaveMirror(p) ==
    /\ At(p, "mirror") /\ mu = Free
    /\ local' = [local EXCEPT ![prov[p]] = rec[p]]
    /\ Return(p)
    /\ UNCHANGED <<flows, redis, unsure, mu>>

\* Get: the mirror first.  ConnectedProviders calls it with the mutex held, and
\* then this step is never enabled.
Lookup(p) ==
    /\ At(p, "get") /\ mu = Free
    /\ IF local[prov[p]] # NoToken
       THEN Return(p)
       ELSE Goto(p, "fetch") /\ UNCHANGED <<prov, flow, rec>>
    /\ UNCHANGED <<flows, stores, mu>>

Fetch(p) ==
    /\ At(p, "fetch")
    /\ redis[prov[p]] # NoToken
    /\ rec' = [rec EXCEPT ![p] = redis[prov[p]]]
    /\ Enter(p, prov[p], FALSE)
    /\ Goto(p, "fill")
    /\ UNCHANGED <<flows, redis, local, mu, prov, flow>>

\* Nothing stored, or an error.
FetchNothing(p) ==
    /\ At(p, "fetch")
    /\ Return(p)
    /\ UNCHANGED <<flows, stores, mu>>

Fill(p) ==
    /\ At(p, "fill") /\ mu = Free
    /\ local' = [local EXCEPT ![prov[p]] = rec[p]]
    /\ Return(p)
    /\ UNCHANGED <<flows, redis, unsure, mu>>

\* Mutant of DeleteMirror: the mirror keeps the token.
DeleteMirrorNot(p) ==
    /\ At(p, "delete") /\ mu = Free
    /\ Enter(p, prov[p], TRUE)
    /\ Goto(p, "del")
    /\ UNCHANGED <<flows, redis, local, mu, prov, flow, rec>>

\* Delete: the mirror first,
DeleteMirror(p) ==
    /\ At(p, "delete") /\ mu = Free
    /\ local' = [local EXCEPT ![prov[p]] = NoToken]
    /\ Enter(p, prov[p], TRUE)
    /\ Goto(p, "del")
    /\ UNCHANGED <<flows, redis, mu, prov, flow, rec>>

\* then Redis, whose error is ignored.
DeleteRedis(p) ==
    /\ At(p, "del")
    /\ redis' \in {redis, [redis EXCEPT ![prov[p]] = NoToken]}
    /\ Return(p)
    /\ UNCHANGED <<flows, local, unsure, mu>>

\* ConnectedProviders takes the mutex for all it does: the mirror,
StatusLock(p) ==
    /\ At(p, "status") /\ mu = Free
    /\ mu' = p
    /\ Goto(p, "keys")
    /\ UNCHANGED <<flows, stores, prov, flow, rec>>

\* Mutant of StatusDone: an early return without the unlock.
StatusLeaves(p) ==
    /\ At(p, "keys")
    /\ Return(p)
    /\ UNCHANGED <<flows, stores, mu>>

\* then the names in Redis: all are known, or Redis does not answer,
StatusDone(p) ==
    /\ At(p, "keys")
    /\ mu' = Free
    /\ Return(p)
    /\ UNCHANGED <<flows, stores>>

\* or Get is called for one that the mirror lacks.
StatusGet(p) ==
    /\ At(p, "keys")
    /\ \E v \in Providers :
          /\ redis[v] # NoToken /\ local[v] = NoToken
          /\ prov' = [prov EXCEPT ![p] = v]
    /\ Goto(p, "get")
    /\ UNCHANGED <<flows, stores, mu, flow, rec>>

\* The gateway stops and starts: Redis stays.
Restart ==
    /\ pending' = {}
    /\ local' = [v \in Providers |-> NoToken]
    /\ unsure' = {}
    /\ mu' = Free
    /\ pc' = [p \in Procs |-> "idle"]
    /\ prov' = [p \in Procs |-> "kiro"]
    /\ flow' = [p \in Procs |-> 0]
    /\ rec' = [p \in Procs |-> NoToken]
    /\ UNCHANGED <<started, redeemed, redis>>

Request(p) ==
    \/ \E v \in Providers : StartLogin(p, v) \/ AccessToken(p, v) \/ Disconnect(p, v)
    \/ \E f \in Flows : Callback(p, f) \/ Poll(p, f)
    \/ Status(p)

Advance(p) ==
    \/ StartFlow(p) \/ StartFails(p)
    \/ FindPoll(p) \/ FindCallback(p) \/ Granted(p) \/ NotGranted(p) \/ DropFlow(p)
    \/ SaveRedis(p) \/ SaveFails(p) \/ SaveMirror(p)
    \/ Lookup(p) \/ Fetch(p) \/ FetchNothing(p) \/ Fill(p)
    \/ DeleteMirror(p) \/ DeleteRedis(p)
    \/ StatusLock(p) \/ StatusDone(p) \/ StatusGet(p)

Next == Restart \/ \E p \in Procs : Request(p) \/ Advance(p)

Spec == Init /\ [][Next]_vars

\* A goroutine whose next step is enabled takes it: the HTTP client of the
\* manager and go-redis have timeouts, and a free mutex is handed over.
FairSpec == Spec /\ \A p \in Procs : SF_vars(Advance(p))

-----------------------------------------------------------------------------
\* "The local cache is purely a read-through mirror" of Redis: between
\* operations the mirror holds what Redis holds or nothing, so a login that was
\* deleted is not served and one that was replaced is not either.  It takes two
\* operations on the provider at once, or a save whose answer was lost, to break
\* that, and the next undisturbed login or deletion mends it.
MirrorAgrees ==
    \A v \in Providers :
        v \notin unsure /\ (\A p \in Procs : ~Open(p, v)) =>
            local[v] \in {NoToken, redis[v]}

\* docs/API.md, "200 when the tokens are stored": a login is answered with
\* success only when its token is in Redis and in the mirror, unless another
\* operation on the provider was open at the same time.
LoginStored ==
    [][\A p \in Procs :
          pc[p] = "mirror" /\ pc'[p] = "idle" /\ local' # local =>
              prov[p] \in unsure \/ redis'[prov[p]] = rec[p]]_vars

\* ConnectedProviders waits for the mutex it holds.
SelfLocked == \E p \in Procs : mu = p /\ pc[p] = "get"

\* Every request is answered as long as no status request locks itself out.
CallsReturn ==
    []~SelfLocked => \A p \in Procs : pc[p] # "idle" ~> pc[p] = "idle"

\* docs/API.md, "GET /api/oauth/status: current OAuth session per provider": the
\* request is answered.
StatusAnswered == \A p \in Procs : pc[p] = "status" ~> pc[p] = "idle"
=============================================================================
