# my-gateway in TLA+

A verification project for the Go gateway under `gateway/`: an HTTP server that
accepts OpenAI-style and Anthropic-style chat requests and forwards them to LLM
providers, with pools of API keys per tenant, rate limits, a circuit breaker,
racing between targets, a cache, conversation memory, users with gateway keys
and OAuth logins. Paths below are relative to `gateway/internal/` unless they
begin with `cmd/`, `docs/` or `README.md`.

Contents: 1 the system, 2 what is modelled and how, 3 the runs, 4 the proofs,
5 where code and documentation disagree, 6 what is not modelled and the plan.

## 1. The system

### 1.1 Components, their state and their operations

| component | state | operations that change state | module |
|---|---|---|---|
| key manager, acquiring (`keymanager/manager.go`) | Redis: a sorted set of request stamps and an error flag per key, the cached Lua script; memory: round-robin cursor, `RequestsUsed`, the sha of the script | `Acquire` (snapshot, order, claim, sleep), `ReportError` | `ClaimWindow` |
| key manager, pools (`keymanager/manager.go`) | `pools[tenant][provider]`, each a list of keys | `RegisterPool`, `AddKey`, `PersistReload` | `KeyPools` |
| circuit breaker (`breaker/breaker.go`) | an entry (failures, state, until) per provider and model | `Available`, `Success`, `Failure` (`Snapshot` reads) | `Breaker` |
| racing (`racing/racing.go`) | per call: goroutines, a buffered channel, contexts | `Execute`: `orderTargets`, `race`, `failover` | `Racing` |
| users (`users/users.go`) | Redis: user records and an index by key hash; memory: a mirror of both, made of pointers to shared `User` objects | `Create`, `Lookup`, `Get`, `List`, `RotateKey`, `Disable`, `Enable` (the admin's DELETE calls `Disable`) | `Users` |
| chat handlers (`api/handlers_chat.go`) | per request: local variables, a stream's channel, the goroutine that stores the conversation | `runDirect`, `streamChat`, `chatWithRetry` | `Chat`, `Streams` |
| | | `runCombo` | `Racing` |
| response cache (`cache/cache.go`) | Redis: entries with a TTL, an index set per project | `Get`, `Set` (`InvalidateProject` has no caller) | `Chat` |
| metrics (`metrics/metrics.go`) | a bounded window of samples per target | `Record` (`Summary` reads) | `Chat`: what is counted |
| providers (`providers/*.go`) | per call: a reader goroutine and its channel | `Chat`, `ChatStream`, `toGeminiBody`, `buildKiroPayload` | `Streams`, `Chat`, `Prompts`, `Racing` |
| memory (`memory/*.go`) | Qdrant: collections and their points | `EnsureCollection`, `Upsert`, `UpsertBatch`, `StoreEntry`, `StoreConversation`, `DeleteProject`, `EnrichContext` | `Memory`, `Prompts` |
| indexer (`indexer/indexer.go`) | per run: the batch that is being filled | `Run`, `chunkText`, `overlappingTail` | `Memory`, `Chunks` |
| OAuth (`oauth/oauth.go`) | memory: pending logins, a mirror of the tokens, the mutex of both; Redis: a token per provider | `StartPKCE`, `CompletePKCE`, `StartDeviceCode`, `PollDeviceCode`, `AccessToken`, `Delete`, `ConnectedProviders` | `OAuth` |
| authentication (`api/server.go`, `security/security.go`) | a fixed-window counter of attempts per source: the first entry of `X-Forwarded-For`, or `RemoteAddr`, which is what `middleware.RealIP` read from another proxy header or, without any, host and port, so one TCP connection | `authMiddleware`, `AuthLimiter.Allow`, `Reset`, `requestTenant` | `Access`; the check of user keys in `Users` |
| combos (`combos/combos.go`) | Redis: a record per combo and an index of their names; memory: a mirror | `Save`, `Get`, `List`, `Delete` | `Combos`, `Dispatch` |
| admin handlers (`api/handlers_*.go`) | none | they call the stores above | with each store |

### 1.2 How they interact

A chat request goes through these steps, on the goroutine of its HTTP handler:

1. `authMiddleware` counts the attempt (`AuthLimiter`), compares the key with
   the master key or looks it up (`Users.Lookup`), and fixes the tenant.
2. `dispatchChat` finds the combo of the model, if it names one, and runs
   `racing.Execute` with `runCombo`'s attempt function; otherwise `runDirect`.
3. `runDirect` asks the cache, enriches the request from memory, resolves the
   credential (an OAuth token, or `Manager.Acquire` of the tenant's own pool;
   there is no fallback to the system's), calls the provider (`chatWithRetry`,
   `streamChat`),
   reports to the breaker and the metrics, fills the cache, and lets a new
   goroutine store the conversation. The combo route has neither cache nor
   memory nor breaker.
4. Admin handlers change users, keys, combos and OAuth logins meanwhile.

Nothing but the stores connects two requests: Redis (rate limits, users,
combos, cache, tokens), Qdrant, and the maps in memory (mirrors, pools, breaker
entries, metrics), each under its own mutex or under none. Several operations
read under a lock, release it, and act on what they read; that is where most of
the hazards in `PROJECT.json` are.

Two facts about production shape the models. The breaker is told of every call
but never asked (`handlers_chat.go:145`): `Breaker` therefore has requests that
ask and requests that do not. `ReportError` has no caller in production: it is
modelled because it is the other half of the cooldown that the script checks.

### 1.3 What is hard, and what each component must guarantee

| component | hard to test | what makes it correct |
|---|---|---|
| acquiring | stamps taken by callers, claims executed later in another order; snapshots that are stale when used; lost replies; restarts; TTLs | of counted claims no key is handed out more than its limit in a window (a claim that ends in an error is not counted); `ErrAllLimited` is never spurious; every call returns |
| pools | the map is read under a lock that is given up before the pool is replaced or appended to | positions (and so counters) are unique in a pool; no key twice; the keys of the boot stay |
| breaker | reports that arrive late, after the circuit has changed | an open window holds; the circuit recovers; metrics agree with what is enforced |
| racing | results, the closing of the channel and cancellation in any order; losers that send after the return | the outcome is a real one; nothing leaks; losers are cancelled; fan-out is bounded |
| users | a mirror filled from reads that are stale, shared objects, two writes per operation | a disabled user is refused unless a stale record came in between; the current key works |
| chat | a breaker nobody asks, retries on one claim, a goroutine that stores after the answer, a cache whose key leaves things out | every request is answered; a cached answer answers the question that is asked; what is remembered was sent; the breaker hears of a request at most once |
| streams | a reader, a buffered channel and a handler that all may be left by the client; bodies that break off | what a client has is a prefix of the answer; a finish reason tells that it is whole (`[DONE]` does not); no goroutine stays behind |
| OAuth | a mutex held across a call that takes it, a mirror filled from stale reads, saves that fail | the mirror agrees with Redis; a login that was answered is stored; requests are answered |
| memory, indexer | calls that fail half-way or whose answer is lost, a collection deleted under a run, chunk boundaries | what is counted is what is stored; a run that succeeds is complete; chunks cover the text; which turns and which context reach each kind of upstream |
| authentication | windows that meet, requests of one source between a check and its reset | bursts are bounded, a refusal means a full window, a source is let in again; tenants are never mixed up |
| combos | a mirror filled from stale reads, two stores written in opposite orders, ignored errors and lost answers, names that Save and Get treat differently | what is served and listed is what the last undisturbed change left, or what a change begun since was to leave |

## 2. The modules

Each component's module declares its parameters as `CONSTANTS` with a
named assumption; `MC*` modules give them small values; `*_proofs` modules hold
the theorems, `Tenants_proofs` those of both `Users` and `KeyPools`. Definitions that begin with "Mutant of" in their comment are not
used by the specification: each is a variant of an action or operator that some
property must refute.

### 2.1 `ClaimWindow`, `SlidingWindow`: `Manager.Acquire` over one pool

| TLA+ | code |
|---|---|
| `zset`, `expireAt`, `errUntil`, `loaded` | the sorted set of a key and its TTL, its error flag, Redis' script cache |
| `sha`, `cursor`, `shown` | `Manager.luaSha`, `Pool.rrCursor`, `KeyInfo.RequestsUsed` |
| `pc`, `deadline`, `snapAt`, `view`, `shift`, `left`, `call` | where a caller is in `Acquire` and its local variables |
| `Acquire`, `BeginRound`, `SnapKey`, `SnapFail`, `EndSnapshot` | the head of the loop, `snapshotPool` key by key (its pipeline is no transaction) with its ignored errors, `order` |
| `Stamp`, `RunScript`, `NoScript`, `NoScriptAgain` | `claim`: stamp and nonce, the Lua script as one atomic step, its reload |
| `HandOut`, `Refused`, `FailOpen`, `Sleep`, `GiveUp`, `Wake`, `CtxDone` | the body and the end of the loop |
| `ReportError`, `Flush`, `Restart`, `Resend`, `Tick` | the error report, the environment: script flush, restart of the gateway, go-redis sending a command again, time and Redis expiry |

`handed`, `uncounted` and `unblocked` are history variables: the keys handed
out after a claim, those handed out because `claim` returned an error (Redis
failed, or the caller's context was cancelled while Redis answered), and the
keys that a caller's round has not yet seen blocked. `Faults` adds Redis
errors, flushes and restarts; a caller's cancellation is always there. One tick of the clock stands for far
more than the 250 ms between two rounds. `Lag` is the longest time from a
claim's stamp to its reply; that it is shorter than the window is an
assumption (go-redis' timeouts are seconds, the window a minute).

`SlidingWindow` is the abstract limiter: at most `Limit` grants of a key in any
`Span`. `ClaimWindow` implements it with `Span <- W - Lag`, `granted <- handed`.
The span is `W - Lag`, not `W`: the window is measured by the callers' stamps,
a hand-out happens up to `Lag` after its stamp.

### 2.2 `Breaker`

`states` is `Breaker.states`, with the window kept as the time it still lasts
(-1 once `time.Now()` is after `until`). `Ask` is `Available` when it answers
true, with the change to half open; a refusal changes nothing and is a stutter.
`Success`, `Failure` are the reports of a request that `Ask` or `Send` (a
request that does not ask, as in production) let out some time before.
`Shown` is `Snapshot`. Failures are counted up to `MaxFailures`, above the
threshold, where one more makes no difference.

### 2.3 `KeyPools`

`gens[t][p]` is the history of the pools registered for a tenant and a provider;
the map holds the last, a call of `AddKey` may still hold an earlier one. A call
runs in the steps in which the code gives its locks up: `AddKey` (the tenant's
map under the read lock), `Read` (the pool out of that map, after the unlock),
`Register` or `AppendKey`/`Duplicate`. `PoolsInit`/`Reboot` is the boot of
`cmd/gateway`, `ReloadPool` and `ReloadKey` are `PersistReload`, which ends
before requests are served (`Serving`). Nothing in the repository writes the
hashes that `PersistReload` reads; `Persisted` lists what they may hold when
another tool has written them.

### 2.4 `Racing`

One call of `Execute` after the other, with the combo, the usage of its targets
and whether it is a stream chosen anew. `att[i]` is the attempt at the i-th
target, `sent`, `results`, `closed` the goroutines that have sent, the buffered
channel and its end; `cancelled` is `ctxAll`, `gone` the client's context,
`late` the attempts whose timeout is over. `Win`, `Lose`, `RunOut`, `Abandon`
are the cases of the select in `race`; `FailoverWins`, `FailoverFails` those of
`failover`. An attempt returns a response, an error, or, when the request is a
stream, whatever had arrived ("partial"), which the code cannot tell from a
response (`handlers_chat.go:207`).

### 2.5 `Users`

`records` and `hashes` are Redis, `byHash` and `byID` the mirror, `heap` the
`User` objects the mirror and the operations point to. Every operation runs in
the steps between which others can run: get the object, change it, delete the
old hash (`Del`), the transaction of `persist` (`Exec`, which may fail), the
update of the mirror (`Mirror`); `List` reads (`List`) and merges later
(`Merge`); `Lookup` reads the mirror, asks Redis, loads, fills the mirror, and
`authMiddleware` looks at `Disabled` (`Check`). Keys are numbered per user in
the order they are minted and a hash stands for its key; hash 0 is that of an
object that was read back from Redis, whose JSON does not hold `KeyHash`.
Any operation may begin at any time, whatever the others are doing. `Del`
deletes the old hash or, because its error is ignored, does not; the
transaction of `persist` is done, fails, or is done with its answer lost
(`ExecFails`).

The rest is history, what callers may count on. `access` is what the last
answer about a user says: `on` and `off` when it is certain, `told` when
`Disable` was answered while a record read before was on its way to the mirror,
`unsure` when changes overlapped or failed. `crowded` are the users of whom two
changes are or were open at once. `latest` is the key returned last. `barred`
and `due` are the requests that came while their user had to be refused, or
their key accepted. `DisabledRefused` speaks of `off`, `DisabledStopped` (a
violation) of `told` too.

### 2.6 `OAuth`

A token is named by the flow (the login) it was issued for, because an authority
honours a code once. `redis` and `local` are the token of each provider in Redis
and in the mirror, `pending` the flows of `Manager.pending`, `mu` is who holds
the mutex beyond one step: that is `ConnectedProviders`, from `StatusLock` to
`StatusDone` or, when a token is in Redis and not in the mirror, to `StatusGet`,
whose `Lookup` waits for the mutex for ever. Saves may fail, also after Redis
has taken the record (`SaveFails`); `Delete` ignores Redis' error
(`DeleteRedis`). `unsure` is history: the providers whose last change was
disturbed by another open operation on the provider or by a lost answer.
`refresh` returns before it does anything, because no record has a `token_url`.

### 2.7 `Streams`, `Chat`

`Streams` is `ChatStream` of the three kinds of client with the handler that
drains the channel. A body is a sequence of frames (text, text with a finish
reason, `[DONE]`, noise that does not parse, a frame that is cut) and may break.
`ReadFrame`, `ReadEnd` are `streamLoop` and antigravity's loop, `Decoded` is
kiro's reader, which has the whole body before it sends a word; `Send`, `Drop`,
`Close` their sends, kiro's select and the deferred close; `Take` is the
handler's loop. A chunk names the frame its text came from, so that gaps and
order can be stated.

`Chat` is `runDirect`: `Arrive`, `Hit`/`Miss`, `Enrich`, `Authorized`/
`Unauthorized`, then `Succeed`/`TryAgain`/`Fail` (`chatWithRetry`), `Fill`,
`Reply`, or `StreamStarts`/`StreamFails` and `StreamDone` (`streamChat`), and
`Remember`/`Forget`, the goroutine that stores the conversation. An answer is
the request it was made for, the set of frames whose text it has, and whether
`[DONE]` followed: `StreamDone` writes it whatever ended the channel. `Chat`
extends `Streams` and instantiates `Breaker` with its own requests: the module
that promises what circuits do is the abstract specification the pipeline is
shown to implement (`BreakerSpec`).

### 2.8 `Memory`, `Chunks`, `Prompts`

`Memory` is `memory.Service` over Qdrant with its callers: a call stores a
conversation or an entry, indexes a tree (`Walk` fills a batch, then the batch
is ensured, embedded and upserted), deletes a project, or enriches a chat.
`total`, `at`, `kept` count the points a call has to make, made and stored.
Calls of Qdrant fail or lose their answer (`Fail`, `UpsertFails`). `Chunks` is
`chunkText` over the lengths of a text's lines, `OverlappingTail` and `Push`
its helpers, `Filled` its loop over the lines. `Prompts` is what becomes of a
conversation, a sequence of roles and sets of texts: `WithContext`
(`EnrichContext`), `GeminiContents` (antigravity), and `KiroHistory` with the
question, which is all kiro is sent (`SentToKiro`). `Turns` and `Dialogue` are
what the properties speak in. Recursion is over numbers, in functions. Chunking,
arranging and storing are joined because the indexer stores what `chunkText`
returns and the clients arrange what memory returns.

### 2.9 `Access`, `Combos`, `Dispatch`

`Access` is what a request passes before its handler: `Arrive`
(`authMiddleware` up to the key), `Allow`, then `Master`, which resets the
source's bucket, or `NotMaster` and `UserKey`, which do not; `Handle` the test
of the tenant that handlers begin with (`requestTenant`, `isMaster`). A bucket's
age is kept in ticks up to the end of its window. A source is what
`authMiddleware` makes of the request (1.1), so a client may be many.

`Combos` is the store: every operation in the steps between which others run,
`Save` mirror first, `Delete` Redis first, `Get` with its fill of the mirror,
`List` over the index and then the records one by one. `Get` and `Delete` take
the prefix `combo:` off the name they are asked for (`Bare`), `Save` does not.
A write of Redis is done, fails, or is done with its answer lost (`Write`), and
the code goes on in the same way. Two histories: `may`, what a name may stand
for: what the last `Save` or `Delete` left that had the name to itself, and what
any change begun since was to leave; `stale`, what Redis has when it answered
the last write with an error. A `Get` or `List` collects what `may` was while it
ran (`Heard`). `Dispatch` composes the two: a request that got through to a
combo handler calls the store and answers when it returns.

## 3. The runs

Runs without `FairSpec` check safety only and use symmetry where callers, nonces
or objects are interchangeable; the liveness runs use none.

| run | instance | shows |
|---|---|---|
| `ClaimWindow_faults` | 1 key, Limit 1, 2 callers, every fault, one resend, 3 ticks | `WindowBound` and `Refinement` with Redis errors, lost replies, script flushes and restarts |
| `ClaimWindow_scan` | 2 keys, least used first, 2 callers, errors reported, clients that leave | `RefusalJustified` |
| `ClaimWindow_live` | 1 key, 2 callers, 2 ticks, fair | `AcquireReturns` |
| `Breaker_calls` | 2 targets, 3 requests, threshold 2, window of 2, fair | `OpenHolds`, `Recovers` |
| `KeyPools_calls` | 2 tenants, 2 providers (one unknown), 2 keys, 2 concurrent requests, restarts | `OwnCounters`, `AddedOnce`, `SystemKeysStay` |
| `Racing_execute` | all strategies, 1 to 3 targets, sizes 2 and 3, fair | `OutcomeRight`, `LosersCancelled`, `ExecuteReturns`, `NoneLeaks` |
| `Users_accounts` | 1 user, 2 keys, 2 processes, 3 objects; any two operations overlap | `TypeOK`, `DisabledRefused`, `CurrentKeyWorks` |
| `OAuth_logins` | 2 providers, 2 requests, 2 logins, restarts, fair | `MirrorAgrees`, `LoginStored`, `CallsReturn` |
| `OAuth_status` | the same | violates `StatusAnswered` |
| `Chat_requests` | 2 requests, one a stream of every kind, 8 bodies, a channel of 1, fair | `TypeOK`, `InOrder`, `FinishTells`, `HitsMatch`, `RemembersSent`, `BreakerSpec`, `RequestsEnd` |
| `Memory_calls` | 3 calls over 2 projects, batches of 2, texts of up to 5 lines of 4 lengths, 5 conversations, fair | `BatchesKept`, `IndexComplete`, `ChunksCover`, `TurnsArrive`, `CallsReturn` |
| `Dispatch_requests` | 2 requests, 1 source, limit 2, every kind of key, combos named `x` and `combo:x`, 1 save, restarts, fair | `BurstBound`, `TenantRight`, `LetInAgain`, `ServedAsSaved`, `ListAgrees` |

The type invariants are proved for every value of the constants and not run
again but for `Chat`'s, which says how often a target is called, and that of
`Users`, which says that a hash in Redis leads to a record.

**Bounds.** Two callers are what a race for the last place of a window takes;
with `Limit` 1 they race for the only one. `MaxNow` is past the end of a window
of 2 (`ClaimWindow_faults`), so stamps age out and sets expire. With one key,
three nonces are a recent grant and both callers' claims; a nonce is used again
when nothing remembers it, as `Fresh` says. In `ClaimWindow_scan` there are two,
so a caller may have to wait for one: that takes safety behaviours away and adds
none. Two keys are what a choice of order and a
scan past a refused key take. Three breaker requests allow one late report
beside two that open the circuit. Two callers of `AddKey` show every pair of
its steps; the theorems cover any number. Racing's sizes are below, equal to
and above the number of targets. A user's operations touch no other user's
state, hence one user; two keys are one before and one after a rotation. Two
OAuth logins allow one that replaces another, and two requests every pair of
operations; the theorems cover any number. In `Chat_requests` the second
request asks what the first may have asked, in the same project and in
another; a channel of one chunk makes every second send wait, and the bodies
end in each way a body can. In `Memory_calls` one run has three batches, the
second call stores beside it or deletes under it, the third enriches; lines of
0, 2, 5 and 9 with chunks of 7 and an overlap of 4 are empty, fit the
overlap, fit a chunk, or fit neither. One save of a combo with its deletion is
what it takes for a record that was read to be stale; the theorems cover any
number of saves. Two names show the prefix that `Get` takes off and `Save`
keeps. A limit of two and a window of one tick let two windows meet.

**Deadlock** is checked where requests come for ever. It is not in the
`ClaimWindow` runs, where the clock stops at `MaxNow`, and in `Chat_requests`,
`Memory_calls` and `Dispatch_requests`, where the requests or the saves are
numbered and the model may come to its end.

**Round robin** is a strategy of `Manager` that production never selects:
`cmd/gateway/main.go:79` passes `Settings.DefaultProvider` where the strategy
belongs, and any other word than `round_robin` sorts by least used. The theorems of
`ClaimWindow` hold for both strategies; TLC runs the one that is reached.

**Fairness.** `ClaimWindow!FairSpec`: a goroutine whose next step is enabled
takes it (`WF(Advance(p))`; its Redis calls return, with an answer or with an
error), and time passes. Nothing is assumed of errors, cancellation, restarts
or of other callers. `Breaker!FairSpec`: time passes. `Racing!FairSpec`:
goroutines are scheduled, timeouts fire, and an attempt whose context is done
returns (`CutOff`), because both the provider's request and the wait for a key
carry that context; nothing says an attempt returns before.
`OAuth!FairSpec`: a goroutine whose step is enabled again and again takes it
(strong, because it competes for the mutex, and Go's mutexes do not starve a
goroutine); a goroutine that holds the mutex and waits for it has no step, and
`CallsReturn` says that this is the only way not to be answered.
`Chat!FairSpec`: the handler's and the reader's steps are taken; calls of
providers and Redis end with the request's context, which `middleware.Timeout`
ends after 180 seconds (`server.go:145`). Nothing is assumed of the clock or of
clients. `Memory!FairSpec`: Qdrant's client has a timeout of 10 seconds; the
embedding server is called with no timeout but the context's, so a chat's call
of it ends and an indexing run's need not, which is what `CallsReturn` says.
`Dispatch!FairSpec`: time passes, nothing else.

## 4. The proofs

All are checked by TLAPS for every value of the constants that satisfies the
named assumptions (`ClaimAssumption`, `BreakerAssumption`,
`KeyPoolsAssumption`, `UsersAssumption`, `RacingAssumption`, `OAuthAssumption`,
`StreamAssumption`, `ChatAssumption`, `ChunkAssumption`, `MemoryAssumption`,
`AccessAssumption`, `DispatchAssumption`). Every safety property that a passing
run checks is one of the theorems; the table gives each property its theorem.

| module | theorem (property) |
|---|---|
| `ClaimWindow_proofs` | `WindowBounded` (`WindowBound`), `ClaimWindowRefines` (`Refinement`), `RefusalIsJustified` (`RefusalJustified`), `TypeCorrect`, `ClaimInvariant` |
| `Breaker_proofs` | `WindowHolds` (`OpenHolds`), `MetricsAgree`, `TypeCorrect` |
| `Tenants_proofs` | `AccountTypes` (`Users!TypeOK`), `DisabledAreRefused` (`DisabledRefused`), `CurrentKeysWork` (`CurrentKeyWorks`), `CountersOwned` (`OwnCounters`), `OnceAdded` (`AddedOnce`), `SystemKeysKept` (`SystemKeysStay`), `PoolTypes` |
| `Racing_proofs` | `OutcomeCorrect` (`OutcomeRight`), `LosersAreCancelled` (`LosersCancelled`), `FanOutBounded`, `TypeCorrect` |
| `OAuth_proofs` | `MirrorIsRedis` (`MirrorAgrees`), `LoginsAreStored` (`LoginStored`), `TypeCorrect` |
| `Chat_proofs` | `TypeCorrect` (`Chat!TypeOK`), `TextInOrder` (`InOrder`), `FinishIsRight` (`FinishTells`), `RightAnswer` (`HitsMatch`), `RightMemory` (`RemembersSent`), `ReportsRight` (`BreakerSpec`), `CircuitHolds` |
| `Memory_proofs` | `BatchesAreKept` (`BatchesKept`), `RunsAreComplete` (`IndexComplete`), `TurnsThatArrive` (`TurnsArrive`), `ChunksCoverTexts` (`ChunksCover`), `TypeCorrect` |
| `Dispatch_proofs` | `Served` (`ServedAsSaved`), `Listed` (`ListAgrees`), `RightTenant` (`TenantRight`), `BurstsBounded` (`BurstBound`), `RefusedIsFull`, `AccessTypes`, `PartsKept`, `DispatchRight` |

**`ClaimWindow_proofs`**. That a key is handed out at most `Limit` times in
`W - Lag` is not inductive: what bounds a claim is what Redis stores, not what
callers received. The invariant `ClaimInv` connects the two. Redis never stores
more than `Limit` stamps of a key, and the TTL it gives them outlasts each
(`StoredBound`); every recent hand-out is still stored, under its own nonce
(`HandedIsStored`), and a nonce stands for one hand-out (`OneHandOutPerNonce`),
so hand-outs inject into stored stamps; a granted claim is still stored when
its reply is read, because claims are younger than `Lag < W` (`ClaimsStored`);
and a stale snapshot cannot trim a stamp that is still recent, because its own
stamp is not ahead of the clock (`SnapshotsPast`). `ClaimWindowRefines` maps
`HandOut` to the abstract hand-out, `Tick` to the abstract tick, and every other
step to a stutter.
`RefusalIsJustified` is about a caller's round, and needs `RoundInv`: a key the
round has not yet seen blocked is still to be tried and open in the caller's
view (`RoundRight`), a claim that was refused is no longer such a key, and a
claim's stamp is not older than the snapshot. So a caller without candidates has
seen every key full or cooling. What is handed out uncounted has no bound and no
theorem (section 5).

**`Breaker_proofs`**. The type invariant is the inductive one: `Entry` says which
failure counts go with which circuit state, and the other two follow from it.

**`Tenants_proofs`, accounts**. `AccountsInv` holds whatever overlaps. It says
of each user (`Always`) that nothing is known before `Create` (`Fresh`); that a
hash in Redis, and a `Lookup` that was led by one, has a record (`Recorded`); of
each operation that mints, that the user's last key is the one its object has,
`persist` writes and Redis then knows, and that no two of them mint the same
(`KeysRight`); and that while no rotation is open the key that was returned last
is in Redis and nobody deletes it (`LatestRight`): the hash an operation deletes
is older than the key it minted. Of states it says (`StatesRight`): changes that
overlap are seen (`CrowdRight`); a change that nothing overlapped has changed
its object, its buffer and the record in that order (`SwitchRight`); and of a
user who is certainly disabled, or enabled, the record, the mirror's object and
every object and buffer an operation will still write say so, and no opposite
change is under way (`OffRight`, `OnRight`). A request to be refused, or to be
accepted, is on its way to that answer (`BarredRight`, `DueRight`).

No hypothesis is made on what runs when. What the theorems do not promise is in
`access`: after changes that overlapped, or a failed one, a user's state is
unsure; and a `Disable` that was answered while a record read before was on its
way to the mirror is only told (section 5).

**`Tenants_proofs`, pools**. `PoolsInv` says that the pools of the boot stay
registered and that no call is about to register one in their place
(`BootPools`): that is what keeps their keys. `CountersOwned` strengthens it with
`Placed`, in every pool ever registered a key's index is its position; `OnceAdded`
with the same kind of statement about duplicates, which only the list a pool
began with may hold. Both speak of all generations of a pool because an append
may go to one that has been replaced meanwhile.

**`Racing_proofs`**. `OutcomeRight` needs that an outcome which was sent is in the
channel until Execute takes it, that Execute has only taken errors while it
still waits (`NothingLost`), and that failover has tried the targets in order
(`InTurn`).

**`OAuth_proofs`**. The property speaks of providers no operation is open on; the
invariant says what an open one has done: a save that has written Redis and not
the mirror, a deletion that has emptied the mirror and not Redis, a fill that
holds what Redis holds, each as long as no other operation came in between (then
the provider is `unsure`).

**`Chat_proofs`**: `TextInOrder` and `FinishIsRight` are about the streams,
whose invariant `StreamInv` speaks of the chunks made and not of those sent.
Chunks are in the order of their frames (`Ordered`); before a chunk, and while
the reader still reads, no text is missing (`Gapless`), for a frame that is
dropped with text in it ends the body (`StreamAssumption`); a chunk that says
stop has its frame read and everything before it made (`StopRight`); and an
upstream's finish, once read, has its chunk made, which reaches a client that
stays (`ToldInv`). kiro makes all its chunks at the end or drops a tail of them,
so what is left is a prefix or has no text. `StreamsKept` proves that the
pipeline does with the channels only what `Streams` does, which carries both
theorems over to it.
`RightAnswer` and `RightMemory` follow from `AnswerInv`: an answer
or a cache entry belongs to a request that has one of its own (`Own`), and a
request's own answer, its key and, once the channel is closed, its stream's text
do not change any more (`ClosedStays`). `ReportsRight` shows that every step of
the pipeline is one of `Breaker`'s or leaves the circuits alone, and
`TypeCorrect` and `CircuitHolds` use it to take over what is proved of `Breaker`.

**`Memory_proofs`**. `MemoryInv` follows each call (`Right`): where it can be
with its operation (`ShapeRight`), that the points it has in memory are the
first ones it made, as many as it counts, or, when the answer of the batch that
failed was lost, as many as it made (`Kept`), that a `Run` reports success only
with its last batch flushed (`DoneRight`), and that a conversation was left
alone or has memory before it (`SentRight`). A call stores in its own project's
collection only (`PointsRight`), so a deletion marks whom it hits. Chunks and
turns are functions by recursion over numbers. The library's induction theorems
take an operator and cannot be used; here induction is a lemma about a set of
numbers (`Induction`, `InductionUpTo`, from the well-foundedness of `<`), and
`Recursion` proves that a function so defined exists. `FilledRight` then carries
through the loop of `chunkText` that the chunks so far cover the lines they
cover and that the next may follow (`Covering`, `MayFollow`). `TurnsThatArrive`
compares both arrangements with the conversation message by message, for any
conversation and whatever memory found: a Gemini-shaped request has every turn;
of a dialogue's earlier turns kiro's has all, or, when the system messages
before them are odd in number, none, because it pairs from the first message
(`DialogueHistory`, `DialogueAfter`).

**`Dispatch_proofs`**. `Served`, `Listed` are theorems of the store alone
(`StoreSpec`), `AccessTypes`, `RightTenant`, `BurstsBounded` and `RefusedIsFull`
of the middleware alone (`Spec`). `StoreInv` says what mirror and Redis hold of a
name: what it may stand for, or what Redis had when it answered with an error
(`NameInv`); what a change goes on to write, and what one that has its name to
itself has done so far (`ChangeInv`); and that what `Get` and `List` have read,
or may read yet, is among what the name has stood for while they run (`GetInv`,
`ListInv`). Nothing is said of `Bare` but that it maps names to names.
`AccessInv` follows a request: what key it must have come with to be where it is
with the tenant it has (`RequestRight`).
`LimiterInv` says what a bucket's age and count say of the requests that passed
(`Counted`): while a window runs, all that it counted are of its age or younger
and at least one is exactly as old as the window, because a window begins with
the attempt that it lets pass; what passed before belongs to the window before,
without the attempt that began it, which is already older than a window. Hence
twice the limit less one, and not twice the limit. `FoldIsSum` shows that the
fold in `Passed` is a sum that grows age by age.
`PartsKept` proves that a behaviour of the composition is one of each part,
and with it `DispatchRight` carries the theorems over.

**Assumptions outside the modules.** A claim is answered within `Lag < W`
of its stamp. Nonces (`UnixNano` and the key's fingerprint) are distinct. The
clock of the gateway does not go back. Hashes of gateway keys do not collide.
Attempts honour their context. An authority honours a code once. Point ids
(`UnixNano`) are distinct.

**Model-checked only.** The liveness properties (`AcquireReturns`, `Recovers`,
`ExecuteReturns`, `NoneLeaks`, both `CallsReturn`, `RequestsEnd`,
`LetInAgain`), which the prover does not reach. No theorem has a hypothesis
beside the assumptions on constants.

## 5. Where code and documentation disagree

Shown by a run: `OAuth_status`. `ConnectedProviders` holds the mutex and calls
`Get`, which takes it again when a token is in Redis and not in the mirror
(`oauth.go:421`), as after every restart. The request is never answered, nor is
any OAuth operation after it, and with them no chat of kiro or antigravity.
`docs/API.md:368` lists the status request as any other.

The modules state what else the documentation promises and the code does not
keep. Each of these properties is violated when it stands in the configuration
of the run that is named, alone:

| property | run | disagreement |
|---|---|---|
| `ClaimWindow!NeverOverLimit` | `ClaimWindow_live`, `ClaimWindow_faults` | `README.md:18`: "never hit provider limits". `Acquire` hands a key out whenever `claim` returns an error (`manager.go:219-223`): when Redis fails, and also when the request's context is cancelled while Redis answers (`:361-374`) |
| `Breaker!OneProbe` | `Breaker_calls` with `Consulted = TRUE` | `breaker.go:4-5` promises one probe in a half-open circuit; `Available` lets every caller through (`breaker.go:59-63`) |
| `KeyPools!AddedKeysStay` | `KeyPools_calls` | two requests that add the first keys of a provider: the second registration replaces the first pool, and an accepted key is lost (`manager.go:164-173`; `:162` "AddKey appends a key.") |
| `Users!DisabledStopped` | `Users_accounts` | `docs/USERS.md:61`: "Anything at all stops until re-enabled". A `List` or `Lookup` that read the record before `Disable` puts the enabled one back into the mirror after it (`users.go:133-144`, `:187-193`) |
| `Users!RotatedRefused` | `Users_accounts` | `docs/USERS.md:52`: "Old key stops working immediately", `users.go:204`. The mirror keeps the old hash, and after a restart or a listing Redis does too, as the object's hash is unknown (`users.go:219`) |
| `Chat!DoneMeansWhole` | `Chat_requests` | `docs/API.md:72-79` and `providers.go:378` ("until [DONE]"). `streamChat` writes `[DONE]` whatever closed the channel, a read error too (`handlers_chat.go:266`, `providers.go:392`) |
| `Chat!FailuresCounted` | `Chat_requests` | `docs/API.md:265-273`: "request/error counters", `total_errors` 12. A failed call is never recorded (`handlers_chat.go:146`), so it stays 0 |
| `Chat!OpenSkipped` | `Chat_requests` with `Threshold = 1` | `README.md:25`: "skipping unhealthy targets automatically". Nobody asks `Available` (`handlers_chat.go:145`) |
| `Memory!MemoryArrives` | `Memory_calls` | `docs/MEMORY_SYSTEM.md:108-115`, `:141`: the context is in what the LLM receives. kiro's request has no system message, and memory's shifts the pairs so that the earlier turns are dropped (`kiro.go:124`) |
| `Memory!SystemHoisted` | `Memory_calls` | `antigravity.go:119-121`: "system hoisted to systemInstruction". System messages stay at the front of `contents` (`:129`), and `buildEnvelope` sets no `systemInstruction` |
| `Access!SuccessResets` | `Dispatch_requests` | `security.go:49-50`, `:67`: only failures count, any successful authentication resets; `docs/USERS.md:75`: "20 failed attempts/minute". Every request with a key counts, and only the master key resets (`server.go:289-300`) |
| `Combos!FoundByItsName` | `Combos!Spec` with the combos of `Dispatch_requests` | `docs/API.md:321`: "Accepts the bare name or `combo:<name>`". `Get` and `Delete` take the prefix off (`combos.go:98`, `:160`), `Save` does not (`:61-94`): a combo saved as `combo:x` is listed and found by neither name |
| `Combos!DeletedIsGone` | `Combos!Spec` with the combos of `Dispatch_requests` | `combos.go:43`, `:158`. A `Get` that read Redis before a `Delete` fills the mirror after it, and the deleted combo is served on (`combos.go:119`) |

The properties that do pass say where each stops: `DisabledRefused` (a `Disable`
nothing overlapped and no stale record followed), `FinishTells` (a finish reason
of an OpenAI-compatible stream, not `[DONE]`), `TurnsArrive` (which turns kiro
gets), `ServedAsSaved` (what a disturbed change leaves open), `WindowBound`
(the counted hand-outs).

Seen while modelling and not the subject of a run:

*Keys and breaker*

- Keys added at runtime are not persisted: nothing writes the hashes that
  `PersistReload` reads (`manager.go:395-399`, `cmd/gateway/main.go:83`).
- Counters are filed under a key's index: after a restart with another list of
  keys a key goes on with another's counters (`manager.go:147`).
- A failure after the window of an open circuit neither opens it again nor half
  opens it (`breaker.go:85`).
- A client that leaves during a call counts as a failure of its target; a stream
  that fails to start is not reported at all, and one that breaks off is
  reported as a success (`handlers_chat.go:148`, `:242`, `:285`).

*Answers*

- The retry of `chatWithRetry` calls the provider again on the claim of the
  first try (`handlers_chat.go:313`): two calls, one hand-out.
- A `round_robin` combo never rotates (`racing.go:138`, `docs/API.md:293`).
- A race is won by a stream that was cut short (`handlers_chat.go:211`,
  `docs/API.md:295`).
- Every race is recorded as won, so `race_wins` equals `total_races`.
- The cache's key leaves out provider, tenant, memory and the penalties
  (`handlers_chat.go:118`): `HitsMatch` says what a hit does agree on.
  `cache.Key` and `InvalidateProject` have no caller.
- A stream's conversation is stored even when the request asked for no memory
  (`handlers_chat.go:274`), and what is stored of it are the enriched messages.
- kiro's client answers a body it cannot read with an empty text and success;
  a frame whose headers are longer than the frame ends the process
  (`kiro.go:280`), as does an index an embedding server makes up in `EmbedBatch`.
- antigravity's calls fail without a project id, and nothing calls
  `FetchAntigravityProject`; the failure is tried twice.

*Memory*

- Points are numbered by the clock although `memory.go:151` calls them stable:
  indexing a project again stores everything again.
- Enriched conversations hold their system message twice
  (`Prompts!WithContext`).
- Distinct project names may share a collection (`service.go:301`), while
  `docs/MEMORY_SYSTEM.md:32` promises isolation.
- A project that is deleted while it is indexed comes back with the next batch.
  `Run` of a path that does not exist succeeds with nothing indexed.

*Logins and combos*

- Tokens are never refreshed, and pending logins never expire.
- Fixed windows let twice the limit less one pass in the span of a window
  (`BurstBound`), while `security.go:39-41` allows the limit "per window".
- Without a proxy's header the source that is limited is a TCP connection, and
  with `X-Forwarded-For` it is what the header says (`server.go:277-282`), so
  the bounds are those of a source and not of a client.
- A request whose tenant was not set counts as the system's (`server.go:309`);
  `TenantRight` says that today only public paths get there.
- `Save` and `Delete` of combos ignore Redis' errors, so a restart undoes what
  was answered (`stale`). A combo that only Redis holds is deleted there, and
  the answer is 404.

## 6. What is not modelled, and the plan

Formats of requests and responses, encryption, the dashboard, configuration and
the scripts are data or I/O and stay out. Of what is modelled, these
abstractions remain: the oldest stamp of a key (it only tunes a sleep), the
stores without Redis (development only), unsynchronised map accesses that would
end the Go process (a `Restart` to the models), read-only queries and
listings, the sums and percentiles of the metrics, the lists of models.

What remains worth doing: the counters of a pool across restarts with another
list of keys, that is `ClaimWindow`'s counters with `KeyPools`' positions.
