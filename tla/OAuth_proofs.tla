---------------------------- MODULE OAuth_proofs ----------------------------
(***************************************************************************)
(* Proofs about OAuth: types, that a token is stored only for the provider *)
(* it was issued for, and that the mirror agrees with Redis, for any       *)
(* number of concurrent requests and of logins.                            *)
(***************************************************************************)
EXTENDS OAuth, FiniteSetTheorems, TLAPS

PCs == {"idle", "start", "callback", "poll", "exchange", "drop", "save", "mirror",
        "get", "fetch", "fill", "delete", "del", "status", "keys"}

\* What an open store operation has done and the other half still lacks.
HalfDone(p, v) ==
    /\ pc[p] = "mirror" => redis[v] = rec[p]
    /\ pc[p] = "del" => local[v] = NoToken
    /\ pc[p] = "fill" => rec[p] = redis[v] /\ local[v] \in {NoToken, redis[v]}

\* Unless v is unsure at most one operation is open on it, and with none open
\* the mirror agrees.
Settled(v) ==
    v \notin unsure =>
        /\ \A p, q \in Procs : Open(p, v) /\ Open(q, v) => p = q
        /\ \A p \in Procs : Open(p, v) => HalfDone(p, v)
        /\ (\A p \in Procs : ~Open(p, v)) => local[v] \in {NoToken, redis[v]}

IInv == TypeOK /\ \A v \in Providers : Settled(v)

\* A token stays one of its provider's when a flow is started.
LEMMA TokensGrow ==
    ASSUME TypeOK, NEW p \in Procs, StartFlow(p), NEW v \in Providers, NEW t \in Tokens(v)
    PROVE  t \in Tokens(v)'
<1>1. PICK n \in 0..MaxFlows : started \in [1..n -> Providers]
  BY DEF TypeOK
<1>2. n \in Nat /\ DOMAIN started = 1..n
  BY <1>1, OAuthAssumption
<1>3. Cardinality(DOMAIN started) = n
  BY <1>2, FS_Interval
<1>4. started' = [g \in 1..(n + 1) |-> IF g = n + 1 THEN prov[p] ELSE started[g]]
  BY <1>3 DEF StartFlow
<1>5. DOMAIN started \subseteq DOMAIN started' /\ \A g \in DOMAIN started : started'[g] = started[g]
  BY <1>2, <1>4
<1> QED
  BY <1>5 DEF Tokens

\* What TypeOK says of one request.
ProcOK(p) ==
    /\ pc[p] \in PCs /\ prov[p] \in Providers
    /\ flow[p] \in Flows \cup {0} /\ rec[p] \in Flows \cup {NoToken}
    /\ pc[p] \in {"drop", "save", "mirror", "fill"} =>
          rec[p] # NoToken /\ rec[p] \in Tokens(prov[p])
    /\ pc[p] = "exchange" => flow[p] \in DOMAIN started

\* A step of p leaves the other requests alone and keeps the types of p.
Moves(p) ==
    /\ pc' \in [Procs -> PCs] /\ prov' \in [Procs -> Providers]
    /\ flow' \in [Procs -> Flows \cup {0}] /\ rec' \in [Procs -> Flows \cup {NoToken}]
    /\ \A q \in Procs \ {p} : pc'[q] = pc[q] /\ prov'[q] = prov[q] /\ flow'[q] = flow[q] /\ rec'[q] = rec[q]
    /\ ProcOK(p)'

\* What TypeOK says of the flows and of the stores.
FlowsOK ==
    /\ \E n \in 0..MaxFlows : started \in [1..n -> Providers]
    /\ pending \in SUBSET Flows /\ redeemed \in SUBSET Flows
    /\ pending \cup redeemed \subseteq DOMAIN started
StoresOK ==
    /\ redis \in [Providers -> Flows \cup {NoToken}]
    /\ local \in [Providers -> Flows \cup {NoToken}]
    /\ \A v \in Providers : redis[v] \in Tokens(v) /\ local[v] \in Tokens(v)
    /\ mu \in Procs \cup {Free}
    /\ unsure \in SUBSET Providers

\* A step of one request keeps the types when it does so for that request and
\* for what the requests share.
LEMMA StepTypes ==
    ASSUME TypeOK, NEW p \in Procs, Moves(p), started' = started \/ StartFlow(p),
           FlowsOK', StoresOK'
    PROVE  TypeOK'
<1>2. \A u \in Providers : \A t \in Tokens(u) : t \in Tokens(u)'
  BY TokensGrow DEF Tokens
<1>3. \A g \in DOMAIN started : g \in DOMAIN started'
  <2>1. \A g \in DOMAIN started : g \in Tokens(started[g]) /\ g # 0 /\ started[g] \in Providers
    BY DEF Tokens, TypeOK
  <2> QED BY <1>2, <2>1 DEF Tokens, NoToken
<1>4. ASSUME NEW q \in Procs PROVE ProcOK(q)'
  <2>1. CASE q = p
    BY <2>1 DEF Moves
  <2>2. CASE q # p
    <3>1. pc'[q] = pc[q] /\ prov'[q] = prov[q] /\ flow'[q] = flow[q] /\ rec'[q] = rec[q]
      BY <2>2 DEF Moves
    <3> QED
      BY <1>2, <1>3, <3>1 DEF TypeOK, ProcOK, PCs, Moves
  <2> QED BY <2>1, <2>2
<1> QED
  BY <1>4 DEF TypeOK, ProcOK, PCs, FlowsOK, StoresOK, Moves

\* A request that is answered or begins is in order.
LEMMA ReturnMoves ==
    ASSUME TypeOK, NEW p \in Procs, Return(p)
    PROVE  Moves(p) /\ pc'[p] = "idle"
BY DEF Return, Moves, TypeOK, ProcOK, PCs, Providers, NoToken

LEMMA CallMoves ==
    ASSUME TypeOK, NEW p \in Procs, NEW v \in Providers, NEW f \in Flows \cup {0},
           NEW at \in {"start", "callback", "poll", "get", "delete", "status"}, Call(p, at, v, f)
    PROVE  Moves(p) /\ pc'[p] = at
BY DEF Call, Moves, TypeOK, ProcOK, PCs

\* Every step of a request leaves the others alone and keeps its own types.
LEMMA AdvanceMoves ==
    ASSUME TypeOK, NEW p \in Procs, Advance(p)
    PROVE  Moves(p)
<1> USE DEF At, Goto
<1>1. CASE Return(p)
  BY <1>1, ReturnMoves
<1>2. CASE FindPoll(p) /\ ~Return(p)
  BY <1>2 DEF FindPoll, Moves, TypeOK, ProcOK, PCs, flows
<1>3. CASE FindCallback(p) /\ ~Return(p)
  BY <1>3 DEF FindCallback, Moves, TypeOK, ProcOK, PCs, flows
<1>4. CASE Lookup(p) /\ ~Return(p)
  BY <1>4 DEF Lookup, Moves, TypeOK, ProcOK, PCs, flows
<1>5. CASE Granted(p)
  BY <1>5 DEF Granted, Moves, TypeOK, ProcOK, PCs, Tokens, NoToken, Flows
<1>6. CASE DropFlow(p)
  BY <1>6 DEF DropFlow, Moves, TypeOK, ProcOK, PCs, Tokens
<1>7. CASE SaveRedis(p)
  BY <1>7 DEF SaveRedis, Moves, TypeOK, ProcOK, PCs, flows, Tokens
<1>8. CASE Fetch(p)
  BY <1>8 DEF Fetch, Moves, TypeOK, ProcOK, PCs, flows, Tokens, NoToken
<1>9. CASE DeleteMirror(p)
  BY <1>9 DEF DeleteMirror, Moves, TypeOK, ProcOK, PCs, flows, Tokens
<1>10. CASE StatusLock(p) \/ StatusGet(p)
  BY <1>10 DEF StatusLock, StatusGet, Moves, TypeOK, ProcOK, PCs
<1> QED
  BY <1>1, <1>2, <1>3, <1>4, <1>5, <1>6, <1>7, <1>8, <1>9, <1>10
     DEF Advance, StartFlow, StartFails, NotGranted, SaveFails, SaveMirror, FetchNothing, Fill,
         DeleteRedis, StatusDone

\* Types; every token that is stored is one of its provider's.
THEOREM TypeCorrect == Spec => []TypeOK
<1> USE OAuthAssumption
<1>1. Init => TypeOK
  <2> SUFFICES ASSUME Init PROVE TypeOK
    OBVIOUS
  <2>1. 0 \in 0..MaxFlows /\ started \in [1..0 -> Providers] /\ DOMAIN started = {}
    BY DEF Init
  <2>2. \A v \in Providers : NoToken \in Tokens(v)
    BY DEF Tokens
  <2>3. /\ redis \in [Providers -> Flows \cup {NoToken}]
        /\ local \in [Providers -> Flows \cup {NoToken}]
        /\ \A v \in Providers : redis[v] \in Tokens(v) /\ local[v] \in Tokens(v)
    BY <2>2 DEF Init
  <2>4. /\ \E n \in 0..MaxFlows : started \in [1..n -> Providers]
        /\ pending \cup redeemed \subseteq DOMAIN started
    BY <2>1 DEF Init
  <2> QED
    BY <2>3, <2>4 DEF Init, TypeOK, Providers, NoToken
<1>2. TypeOK /\ [Next]_vars => TypeOK'
  <2> SUFFICES ASSUME TypeOK, [Next]_vars PROVE TypeOK'
    OBVIOUS
  <2>1. CASE UNCHANGED vars
    BY <2>1 DEF vars, flows, stores, TypeOK, Tokens
  <2>2. CASE Restart
    BY <2>2 DEF Restart, TypeOK, Tokens, Providers, NoToken
  <2>3. FlowsOK /\ StoresOK
    BY DEF TypeOK, FlowsOK, StoresOK
  <2>4. UNCHANGED flows => FlowsOK' /\ \A v \in Providers : Tokens(v)' = Tokens(v)
    BY <2>3 DEF FlowsOK, flows, Tokens
  <2>5. UNCHANGED <<flows, stores, mu>> => FlowsOK' /\ StoresOK' /\ started' = started
    BY <2>3, <2>4 DEF StoresOK, stores, flows
  <2>6. ASSUME NEW p \in Procs, Request(p) PROVE TypeOK'
    <3>1. PICK v \in Providers, f \in Flows \cup {0},
               at \in {"start", "callback", "poll", "get", "delete", "status"} : Call(p, at, v, f)
      BY <2>6 DEF Request, StartLogin, Callback, Poll, AccessToken, Disconnect, Status, Providers
    <3>2. UNCHANGED <<flows, stores, mu>>
      BY <3>1 DEF Call
    <3> QED
      BY <2>5, <3>1, <3>2, CallMoves, StepTypes
  <2>7. ASSUME NEW p \in Procs, Advance(p) PROVE TypeOK'
    <3> USE DEF At, Goto
    <3>1. CASE StartFlow(p)
      <4>1. PICK n \in 0..MaxFlows : started \in [1..n -> Providers]
        BY DEF TypeOK
      <4>2. n \in Nat /\ DOMAIN started = 1..n /\ Cardinality(1..n) = n
        BY <4>1, FS_Interval
      <4>3. n + 1 \in 0..MaxFlows /\ started' \in [1..(n + 1) -> Providers] /\ DOMAIN started' = 1..(n + 1)
        BY <3>1, <4>1, <4>2 DEF StartFlow, TypeOK
      <4>4. pending' = pending \cup {n + 1}
        BY <3>1, <4>2 DEF StartFlow
      <4>5. FlowsOK'
        <5>1. pending \in SUBSET Flows /\ redeemed' = redeemed /\ redeemed \in SUBSET Flows
              /\ pending \cup redeemed \subseteq 1..n /\ n + 1 \in Flows
          BY <3>1, <4>2, <4>3 DEF StartFlow, TypeOK, Flows
        <5> QED
          BY <4>2, <4>3, <4>4, <5>1 DEF FlowsOK
      <4>6. StoresOK'
        BY <2>3, <3>1, TokensGrow DEF StoresOK, StartFlow, stores
      <4> QED
        BY <2>7, <3>1, <4>5, <4>6, AdvanceMoves, StepTypes
    <3>2. CASE UNCHANGED <<flows, stores, mu>>
      BY <2>5, <2>7, <3>2, AdvanceMoves, StepTypes
    <3>3. CASE Granted(p) \/ DropFlow(p)
      <4>1. StoresOK' /\ started' = started
        BY <2>3, <3>3 DEF Granted, DropFlow, StoresOK, stores, Tokens
      <4>2. pc[p] = "exchange" => flow[p] \in DOMAIN started /\ DOMAIN started \subseteq Flows
        BY DEF TypeOK, Flows
      <4>3. /\ pending' \subseteq pending
            /\ redeemed' = redeemed \/ (redeemed' = redeemed \cup {flow[p]} /\ pc[p] = "exchange")
        BY <3>3 DEF Granted, DropFlow
      <4>4. FlowsOK'
        BY <2>3, <4>1, <4>2, <4>3 DEF FlowsOK
      <4> QED
        BY <2>7, <4>1, <4>4, AdvanceMoves, StepTypes
    <3>4. CASE UNCHANGED flows /\ StoresOK'
      BY <2>4, <2>7, <3>4, AdvanceMoves, StepTypes DEF flows
    <3>5. CASE SaveRedis(p) \/ SaveFails(p) \/ SaveMirror(p) \/ Fill(p) \/ DeleteRedis(p)
      <4>1. UNCHANGED flows
        BY <3>5 DEF SaveRedis, SaveFails, SaveMirror, Fill, DeleteRedis
      <4>2. StoresOK'
        BY <2>3, <2>4, <3>5, <4>1 DEF SaveRedis, SaveFails, SaveMirror, Fill, DeleteRedis, Enter,
           StoresOK, TypeOK, Tokens
      <4> QED BY <3>4, <4>1, <4>2
    <3>6. CASE Fetch(p) \/ DeleteMirror(p)
      <4>1. UNCHANGED flows
        BY <3>6 DEF Fetch, DeleteMirror
      <4>2. StoresOK'
        BY <2>3, <2>4, <3>6, <4>1 DEF Fetch, DeleteMirror, Enter, StoresOK, TypeOK, Tokens, NoToken
      <4> QED BY <3>4, <4>1, <4>2
    <3>7. CASE StatusLock(p) \/ StatusDone(p) \/ StatusGet(p)
      <4>1. UNCHANGED <<flows, stores>>
        BY <3>7 DEF StatusLock, StatusDone, StatusGet
      <4>2. StoresOK'
        BY <2>3, <2>4, <3>7, <4>1 DEF StatusLock, StatusDone, StatusGet, StoresOK, stores
      <4> QED BY <3>4, <4>1, <4>2
    <3> QED
      BY <2>7, <3>1, <3>2, <3>3, <3>5, <3>6, <3>7
         DEF Advance, StartFails, FindPoll, FindCallback, NotGranted, Lookup, FetchNothing
  <2> QED
    BY <2>1, <2>2, <2>6, <2>7 DEF Next
<1> QED
  BY <1>1, <1>2, PTL DEF Spec

\* A step of p that neither is nor gets inside a store operation and leaves the
\* stores alone disturbs nothing.
LEMMA Quiet ==
    ASSUME IInv, NEW p \in Procs, Moves(p), UNCHANGED stores, NEW v \in Providers,
           pc[p] \notin {"mirror", "del", "fill"}, pc'[p] \notin {"mirror", "del", "fill"}
    PROVE  Settled(v)'
<1>1. \A q \in Procs : Open(q, v)' <=> Open(q, v)
  BY DEF Moves, Open
<1>2. \A q \in Procs : Open(q, v) => q # p
  BY DEF Open
<1> QED
  BY <1>1, <1>2 DEF IInv, Settled, HalfDone, stores, Moves

\* A first access of p to the stores of a provider: either it is disturbed, or
\* p alone is inside an operation and has done its half.
LEMMA First ==
    ASSUME IInv, NEW p \in Procs, Moves(p), NEW u \in Providers, NEW settles \in BOOLEAN,
           Enter(p, u, settles), prov'[p] = u, prov[p] = u,
           \A w \in Providers \ {u} : redis'[w] = redis[w] /\ local'[w] = local[w],
           pc[p] \notin {"mirror", "del", "fill"}, pc'[p] \in {"mirror", "del", "fill"},
           u \notin unsure' => HalfDone(p, u)', ~settles => UNCHANGED <<redis, local>>,
           NEW v \in Providers
    PROVE  Settled(v)'
<1>1. CASE v = u
  <2>1. CASE \E q \in Procs \ {p} : Open(q, u)
    BY <1>1, <2>1 DEF Enter, Settled
  <2>2. CASE ~\E q \in Procs \ {p} : Open(q, u)
    <3>1. \A q \in Procs : Open(q, u)' <=> q = p
      BY <2>2 DEF Moves, Open
    <3> QED
      BY <1>1, <3>1 DEF Settled
  <2> QED BY <2>1, <2>2
<1>2. CASE v # u
  <2>1. v \in unsure' <=> v \in unsure
    BY <1>2 DEF Enter
  <2>2. \A q \in Procs : (Open(q, v)' <=> Open(q, v)) /\ (Open(q, v) => q # p)
    BY <1>2 DEF Moves, Open
  <2>3. redis'[v] = redis[v] /\ local'[v] = local[v]
    BY <1>2
  <2>4. \A q \in Procs : q # p => pc'[q] = pc[q] /\ rec'[q] = rec[q]
    BY DEF Moves
  <2> QED
    BY <2>1, <2>2, <2>3, <2>4 DEF IInv, Settled, HalfDone
<1> QED BY <1>1, <1>2

\* A last access of p: when nothing disturbed it, the mirror agrees afterwards.
LEMMA Last ==
    ASSUME IInv, NEW p \in Procs, Moves(p), NEW u \in Providers, prov[p] = u,
           \A w \in Providers \ {u} : redis'[w] = redis[w] /\ local'[w] = local[w],
           unsure' = unsure, Open(p, u), pc'[p] = "idle",
           HalfDone(p, u) => local'[u] \in {NoToken, redis'[u]},
           NEW v \in Providers
    PROVE  Settled(v)'
<1>1. CASE v = u
  <2>1. \A q \in Procs : Open(q, v)' <=> Open(q, v) /\ q # p
    BY <1>1 DEF Moves, Open
  <2> QED
    BY <1>1, <2>1 DEF IInv, Settled
<1>2. CASE v # u
  <2>1. \A q \in Procs : (Open(q, v)' <=> Open(q, v)) /\ (Open(q, v) => q # p)
    BY <1>2 DEF Moves, Open
  <2>2. redis'[v] = redis[v] /\ local'[v] = local[v]
    BY <1>2
  <2>3. \A q \in Procs : q # p => pc'[q] = pc[q] /\ rec'[q] = rec[q]
    BY DEF Moves
  <2> QED
    BY <2>1, <2>2, <2>3 DEF IInv, Settled, HalfDone
<1> QED BY <1>1, <1>2

\* IInv is inductive.
LEMMA IInvariant == Spec => []IInv
<1> USE OAuthAssumption
<1>1. Init => \A v \in Providers : Settled(v)
  BY DEF Init, Settled, Open, HalfDone
<1>2. ASSUME IInv, [Next]_vars, NEW v \in Providers PROVE Settled(v)'
  <2>1. CASE UNCHANGED vars
    BY <1>2, <2>1 DEF vars, flows, stores, IInv, Settled, Open, HalfDone
  <2>2. CASE Restart
    BY <2>2 DEF Restart, Settled, Open
  <2>3. TypeOK
    BY <1>2 DEF IInv
  <2>4. ASSUME NEW p \in Procs, Request(p) PROVE Settled(v)'
    <3>1. PICK u \in Providers, f \in Flows \cup {0},
               at \in {"start", "callback", "poll", "get", "delete", "status"} : Call(p, at, u, f)
      BY <2>4 DEF Request, StartLogin, Callback, Poll, AccessToken, Disconnect, Status, Providers
    <3> QED
      BY <1>2, <2>3, <3>1, CallMoves, Quiet DEF Call
  <2>5. ASSUME NEW p \in Procs, Advance(p) PROVE Settled(v)'
    <3> USE DEF At, Goto
    <3>1. Moves(p) /\ prov[p] \in Providers
      BY <2>3, <2>5, AdvanceMoves DEF TypeOK
    <3>2. CASE UNCHANGED stores /\ pc[p] \notin {"mirror", "del", "fill"} /\ pc'[p] \notin {"mirror", "del", "fill"}
      BY <1>2, <3>1, <3>2, Quiet
    <3>3. CASE Return(p) /\ UNCHANGED stores /\ pc[p] \notin {"mirror", "del", "fill"}
      BY <2>3, <3>2, <3>3, ReturnMoves
    <3>4. CASE StartFlow(p) \/ StartFails(p) \/ FindPoll(p) \/ FindCallback(p) \/ Granted(p) \/ NotGranted(p)
                \/ DropFlow(p) \/ Lookup(p) \/ FetchNothing(p) \/ StatusLock(p) \/ StatusDone(p) \/ StatusGet(p)
      BY <2>3, <3>2, <3>3, <3>4 DEF StartFlow, StartFails, FindPoll, FindCallback, Granted, NotGranted,
         DropFlow, Lookup, FetchNothing, StatusLock, StatusDone, StatusGet, TypeOK, stores
    <3>5. CASE SaveFails(p)
      <4>1. CASE UNCHANGED <<redis, unsure>>
        BY <3>3, <3>5, <4>1 DEF SaveFails, stores
      <4>2. CASE redis' = [redis EXCEPT ![prov[p]] = rec[p]] /\ unsure' = unsure \cup {prov[p]}
        <5>1. pc'[p] = "idle" /\ local' = local /\ pc[p] = "save"
          BY <2>3, <3>5, ReturnMoves DEF SaveFails
        <5>2. \A q \in Procs : Open(q, v)' <=> Open(q, v)
          BY <3>1, <5>1 DEF Moves, Open
        <5>3. \A q \in Procs : Open(q, v) => pc'[q] = pc[q] /\ rec'[q] = rec[q]
          BY <3>1, <5>1 DEF Moves, Open
        <5>4. v \notin unsure' => v \notin unsure /\ redis'[v] = redis[v]
          BY <2>3, <4>2 DEF TypeOK
        <5> QED
          BY <1>2, <5>1, <5>2, <5>3, <5>4 DEF IInv, Settled, HalfDone
      <4> QED
        BY <3>5, <4>1, <4>2 DEF SaveFails
    <3>6. CASE SaveRedis(p)
      BY <1>2, <2>3, <3>1, <3>6, First DEF SaveRedis, TypeOK, HalfDone
    <3>7. CASE DeleteMirror(p)
      BY <1>2, <2>3, <3>1, <3>7, First DEF DeleteMirror, TypeOK, HalfDone
    <3>8. CASE Fetch(p)
      <4>1. prov[p] \notin unsure' => prov[p] \notin unsure /\ \A q \in Procs : ~Open(q, prov[p])
        BY <3>1, <3>8 DEF Fetch, Enter, Open
      <4>2. prov[p] \notin unsure' => local[prov[p]] \in {NoToken, redis[prov[p]]}
        BY <1>2, <3>1, <4>1 DEF IInv, Settled
      <4>3. rec'[p] = redis[prov[p]] /\ pc'[p] = "fill" /\ pc[p] = "fetch" /\ UNCHANGED <<redis, local, prov>>
        BY <2>3, <3>8 DEF Fetch, TypeOK
      <4>4. prov[p] \notin unsure' => HalfDone(p, prov[p])'
        BY <4>2, <4>3 DEF HalfDone
      <4> QED
        BY <1>2, <2>3, <3>1, <3>8, <4>3, <4>4, First DEF Fetch
    <3>9. CASE SaveMirror(p) \/ Fill(p) \/ DeleteRedis(p)
      <4>1. Return(p) /\ unsure' = unsure /\ Open(p, prov[p])
        BY <3>9 DEF SaveMirror, Fill, DeleteRedis, Open
      <4>2. \A w \in Providers \ {prov[p]} : redis'[w] = redis[w] /\ local'[w] = local[w]
        BY <2>3, <3>9 DEF SaveMirror, Fill, DeleteRedis, TypeOK
      <4>3. HalfDone(p, prov[p]) => local'[prov[p]] \in {NoToken, redis'[prov[p]]}
        BY <2>3, <3>9 DEF SaveMirror, Fill, DeleteRedis, TypeOK, HalfDone
      <4> QED
        BY <1>2, <2>3, <3>1, <4>1, <4>2, <4>3, ReturnMoves, Last
    <3> QED
      BY <2>5, <3>4, <3>5, <3>6, <3>7, <3>8, <3>9 DEF Advance
  <2> QED
    BY <1>2, <2>1, <2>2, <2>4, <2>5 DEF Next
<1>3. TypeOK /\ (\A v \in Providers : Settled(v)) /\ [Next]_vars => (\A v \in Providers : Settled(v))'
  BY <1>2 DEF IInv
<1> QED
  BY <1>1, <1>3, TypeCorrect, PTL DEF Spec, IInv

\* Between operations the mirror of the tokens holds what Redis holds or
\* nothing, unless two operations on the provider overlapped or a save whose
\* answer was lost left it unsure.
THEOREM MirrorIsRedis == Spec => []MirrorAgrees
<1>1. IInv => MirrorAgrees
  BY DEF IInv, Settled, MirrorAgrees
<1> QED
  BY <1>1, IInvariant, PTL

\* A login that nothing disturbed is in Redis when it is answered with success.
THEOREM LoginsAreStored == Spec => LoginStored
<1>1. ASSUME IInv, [Next]_vars, NEW p \in Procs, pc[p] = "mirror", pc'[p] = "idle", local' # local,
             prov[p] \notin unsure
      PROVE  redis'[prov[p]] = rec[p]
  <2>1. prov[p] \in Providers /\ Open(p, prov[p]) /\ redis[prov[p]] = rec[p]
    BY <1>1 DEF IInv, TypeOK, Settled, HalfDone, Open
  <2>2. CASE UNCHANGED vars \/ Restart
    BY <1>1, <2>1, <2>2 DEF vars, stores, Restart
  <2>3. ASSUME NEW q \in Procs, Request(q) PROVE redis' = redis
    BY <2>3 DEF Request, Call, StartLogin, Callback, Poll, AccessToken, Disconnect, Status, stores
  <2>4. ASSUME NEW q \in Procs, Advance(q) PROVE redis'[prov[p]] = rec[p]
    <3>1. Moves(q)
      BY <1>1, <2>4, AdvanceMoves DEF IInv
    <3>2. q = p
      BY <1>1, <3>1 DEF Moves
    <3>3. SaveMirror(p)
      BY <1>1, <2>4, <3>2 DEF Advance, At, StartFlow, StartFails, FindPoll, FindCallback, Granted, NotGranted,
         DropFlow, SaveRedis, SaveFails, Lookup, Fetch, FetchNothing, Fill, DeleteMirror, DeleteRedis,
         StatusLock, StatusDone, StatusGet
    <3> QED
      BY <2>1, <3>3 DEF SaveMirror
  <2> QED
    BY <1>1, <2>1, <2>2, <2>3, <2>4 DEF Next
<1>2. IInv /\ [Next]_vars =>
        [\A p \in Procs :
            pc[p] = "mirror" /\ pc'[p] = "idle" /\ local' # local =>
                prov[p] \in unsure \/ redis'[prov[p]] = rec[p]]_vars
  BY <1>1
<1> QED
  BY <1>2, IInvariant, PTL DEF Spec, LoginStored
=============================================================================
