--------------------------- MODULE Tenants_proofs ---------------------------
(***************************************************************************)
(* Proofs about what the gateway keeps for its users: Users, their records *)
(* and gateway keys in Redis and in the mirror, and KeyPools, the provider *)
(* keys they and the system added.  For any users, objects, processes,     *)
(* tenants, providers, keys and calls, any number of keys minted, and any  *)
(* contents of the environment and of Redis.                               *)
(***************************************************************************)
EXTENDS Users, KeyPools, TLAPS

-----------------------------------------------------------------------------
(* Accounts.  Between the steps of one operation the others run, on objects *)
(* that several of them share.                                              *)

\* An operation under way.
Active == [pc : {"change", "del", "exec", "mirror", "merge", "ask", "load", "fill", "check", "answered"},
           op : {"create", "lookup", "list", "disable", "enable", "rotate"},
           u : Ids, k : Hash, o : Objects \cup {Nil}, buf : States, hash : Hash,
           answer : {"none", "accepted", "refused", "unreachable"},
           sure : BOOLEAN, old : BOOLEAN]

\* The steps of each operation, and where it has an object.
Stage(r) ==
    /\ r.op = "create" => r.pc \in {"exec", "mirror"}
    /\ r.op \in {"disable", "enable"} => r.pc \in {"change", "exec", "mirror"}
    /\ r.op = "rotate" => r.pc \in {"change", "del", "exec", "mirror"}
    /\ r.op = "list" => r.pc = "merge"
    /\ r.op = "lookup" => r.pc \in {"ask", "load", "fill", "check", "answered"}
    /\ r.pc \notin {"ask", "load", "answered"} => r.o # Nil

Busy(p, u) == proc[p] # Idle /\ proc[p].u = u
Minting(p, u) == Busy(p, u) /\ proc[p].op \in {"create", "rotate"} /\ proc[p].pc # "change"
Changes(p, u) == Busy(p, u) /\ proc[p].op \in {"create", "disable", "enable", "rotate"}

ProcTyped ==
    /\ proc \in [Procs -> Active \cup {Idle}]
    /\ \A p \in Procs : proc[p] # Idle => Stage(proc[p])
    /\ \A p \in due : proc[p] # Idle /\ proc[p].op = "lookup"

Typed ==
    /\ records \in [Ids -> States \cup {"none"}]
    /\ hashes \in [Ids -> SUBSET (1..MaxKeys)]
    /\ heap \in [Ids -> [Objects -> Object]]
    /\ byHash \in [Ids -> SUBSET Hash]
    /\ byID \in [Ids -> Objects \cup {Nil}]
    /\ minted \in [Ids -> Hash]
    /\ access \in [Ids -> Access]
    /\ crowded \in SUBSET Ids
    /\ barred \in SUBSET Procs
    /\ due \in SUBSET Procs
    /\ latest \in [Ids -> Hash]
    /\ ProcTyped

\* Nothing is known of a user before Create.
Fresh(u) ==
    minted[u] = 0 => /\ records[u] = "none" /\ byID[u] = Nil /\ latest[u] = 0 /\ access[u] = "unsure"
                     /\ \A p \in Procs : ~Busy(p, u)

\* A hash leads to a record, to which a Lookup may be on its way.
Recorded(u) ==
    /\ hashes[u] # {} => records[u] # "none"
    /\ \A p \in Procs : Busy(p, u) /\ proc[p].pc = "load" => records[u] # "none"

\* A process that mints: its key was minted, and if it is the user's last, it is
\* the one the object has, that persist writes and that Redis then knows.
KeyRight(p, u) ==
    Minting(p, u) =>
        /\ proc[p].k \in 1..minted[u]
        /\ proc[p].op = "create" => proc[p].k = 1
        /\ proc[p].pc = "del" =>
              /\ heap[u][proc[p].o].hash \in 1..minted[u] /\ proc[p].hash < proc[p].k
              /\ proc[p].k = minted[u] => heap[u][proc[p].o].hash = proc[p].k
        /\ proc[p].pc # "del" =>
              /\ proc[p].hash \in 1..minted[u]
              /\ proc[p].k = minted[u] => proc[p].hash = proc[p].k
        /\ proc[p].pc = "mirror" /\ proc[p].k = minted[u] => proc[p].k \in hashes[u]

KeysRight(u) ==
    /\ \A o \in Objects : heap[u][o].hash <= minted[u]
    /\ \A p \in Procs : KeyRight(p, u)
    /\ \A p, q \in Procs : p # q /\ Minting(p, u) /\ Minting(q, u) => proc[p].k # proc[q].k

LatestRight(u) ==
    latest[u] # 0 =>
        /\ latest[u] \in hashes[u] /\ latest[u] <= minted[u]
        /\ \A p \in Procs : Busy(p, u) => proc[p].op # "rotate"
        /\ \A p \in Procs : Minting(p, u) => proc[p].k # latest[u]

Always(u) == Fresh(u) /\ Recorded(u) /\ KeysRight(u) /\ LatestRight(u)

\* Changes of a user that overlap are seen.
CrowdRight(u) ==
    \A p, q \in Procs : p # q /\ Changes(p, u) /\ Changes(q, u) => u \in crowded

\* A change of a user's state that nothing overlaps: the object, what persist
\* writes and the record.
Target(op) == IF op = "disable" THEN "disabled" ELSE "enabled"
SwitchRight(p, u) ==
    Changes(p, u) /\ proc[p].op # "rotate" /\ proc[p].pc # "change" /\ u \notin crowded =>
        /\ heap[u][proc[p].o].state = Target(proc[p].op)
        /\ proc[p].pc = "exec" => proc[p].buf = Target(proc[p].op)
        /\ proc[p].pc = "mirror" => records[u] = Target(proc[p].op)

\* All there is of a user says that it is in this state: the record, the mirror,
\* and what a process has that it will write to one of them.
Writes(p, u) == Busy(p, u) /\ proc[p].pc \in {"change", "del", "exec", "mirror", "merge", "fill"}
Says(u, state) ==
    /\ records[u] = state
    /\ byID[u] # Nil => heap[u][byID[u]].state = state
    /\ \A p \in Procs : Writes(p, u) =>
          /\ heap[u][proc[p].o].state = state
          /\ proc[p].pc = "exec" => proc[p].buf = state

\* Once a user is known to be disabled everything says so, and nobody is at work to
\* change it.
OffRight(u) ==
    access[u] = "off" => /\ Says(u, "disabled")
                         /\ \A p \in Procs : Busy(p, u) => proc[p].op \notin {"create", "enable"}

\* The same of a user who is known to be enabled.
OnRight(u) ==
    access[u] = "on" => /\ Says(u, "enabled")
                        /\ \A p \in Procs : Busy(p, u) => proc[p].op # "disable"

\* A request that is to be refused.
BarredRight(p, u) ==
    Busy(p, u) /\ proc[p].op = "lookup" /\ proc[p].sure /\ p \in barred =>
        /\ access[u] = "off"
        /\ proc[p].pc = "check" => heap[u][proc[p].o].state = "disabled"
        /\ proc[p].answer # "accepted"

\* A request whose key is to be accepted.
DueRight(p, u) ==
    Busy(p, u) /\ proc[p].op = "lookup" /\ p \in due =>
        /\ access[u] = "on" /\ proc[p].k = latest[u] /\ proc[p].k # 0
        /\ proc[p].pc = "check" => heap[u][proc[p].o].state = "enabled"
        /\ proc[p].answer # "refused"

RequestsRight(u) == \A p \in Procs : BarredRight(p, u) /\ DueRight(p, u)
StatesRight(u) ==
    /\ CrowdRight(u) /\ OffRight(u) /\ OnRight(u)
    /\ \A p \in Procs : SwitchRight(p, u)

AccountsInv == Typed /\ \A u \in Ids : Always(u) /\ StatesRight(u) /\ RequestsRight(u)

-----------------------------------------------------------------------------
(* What the steps have in common. *)

\* A step of p for u and of nobody else.
Only(p, u) ==
    /\ \A q \in Procs : q # p => proc'[q] = proc[q]
    /\ proc[p] # Idle => proc[p].u = u
    /\ proc'[p] # Idle => proc'[p].u = u
    /\ \A q \in Procs : q # p /\ ~Busy(q, u) => (q \in barred' => q \in barred) /\ (q \in due' => q \in due)
    /\ \A v \in Ids : v # u =>
          /\ records'[v] = records[v] /\ hashes'[v] = hashes[v] /\ heap'[v] = heap[v] /\ byID'[v] = byID[v]
          /\ minted'[v] = minted[v] /\ access'[v] = access[v] /\ latest'[v] = latest[v]
          /\ v \in crowded' <=> v \in crowded

LEMMA OthersStay ==
    ASSUME NEW p \in Procs, NEW u \in Ids, Only(p, u), NEW v \in Ids, v # u,
           Always(v), StatesRight(v), RequestsRight(v)
    PROVE  Always(v)' /\ StatesRight(v)' /\ RequestsRight(v)'
<1>1. /\ records'[v] = records[v] /\ hashes'[v] = hashes[v] /\ heap'[v] = heap[v] /\ byID'[v] = byID[v]
      /\ minted'[v] = minted[v] /\ access'[v] = access[v] /\ latest'[v] = latest[v]
      /\ v \in crowded' <=> v \in crowded
  BY DEF Only
<1>2. \A q \in Procs : Busy(q, v)' <=> Busy(q, v)
  BY DEF Only, Busy
<1>3. \A q \in Procs : Busy(q, v) => proc'[q] = proc[q] /\ (q \in barred' => q \in barred) /\ (q \in due' => q \in due)
  BY DEF Only, Busy
<1>4. \A q \in Procs : (Minting(q, v)' <=> Minting(q, v)) /\ (Changes(q, v)' <=> Changes(q, v)) /\ (Writes(q, v)' <=> Writes(q, v))
  BY <1>2, <1>3 DEF Minting, Changes, Writes
<1>5. Fresh(v)' /\ Recorded(v)' /\ LatestRight(v)'
  BY <1>1, <1>2, <1>3, <1>4 DEF Always, Fresh, Recorded, LatestRight, Minting
<1>6. KeysRight(v)'
  <2>1. \A q \in Procs : KeyRight(q, v)'
    BY <1>1, <1>3, <1>4 DEF Always, KeysRight, KeyRight, Minting
  <2> QED
    BY <1>1, <1>3, <1>4, <2>1 DEF Always, KeysRight, Minting
<1>7. ASSUME NEW state, Says(v, state) PROVE Says(v, state)'
  BY <1>1, <1>3, <1>4, <1>7 DEF Says, Writes
<1>8. OffRight(v)' /\ OnRight(v)'
  BY <1>1, <1>2, <1>3, <1>7 DEF StatesRight, OffRight, OnRight
<1>9. CrowdRight(v)'
  BY <1>1, <1>4 DEF StatesRight, CrowdRight
<1>10. \A q \in Procs : SwitchRight(q, v)'
  BY <1>1, <1>3, <1>4 DEF StatesRight, SwitchRight, Changes
<1>11. \A q \in Procs : BarredRight(q, v)' /\ DueRight(q, v)'
  BY <1>1, <1>2, <1>3 DEF RequestsRight, BarredRight, DueRight
<1> QED
  BY <1>5, <1>6, <1>8, <1>9, <1>10, <1>11 DEF Always, StatesRight, RequestsRight

\* A step of p after which it mints nothing, and which takes no hash.
LEMMA AlwaysStays ==
    ASSUME NEW p \in Procs, NEW u \in Ids, Typed, Always(u), minted[u] # 0,
           minted'[u] = minted[u], hashes[u] \subseteq hashes'[u], hashes'[u] = hashes[u] \/ records'[u] # "none",
           records'[u] = records[u] \/ records'[u] # "none",
           \A q \in Procs : q # p => proc'[q] = proc[q],
           \A o \in Objects : heap'[u][o].hash <= minted[u],
           \A q \in Procs : q # p /\ Minting(q, u) => heap'[u][proc[q].o].hash = heap[u][proc[q].o].hash,
           ~Minting(p, u)',
           \/ LatestRight(u)'
           \/ /\ latest'[u] \in {0, latest[u]}
              /\ Busy(p, u)' /\ proc'[p].op = "rotate" => latest'[u] = 0 \/ (Busy(p, u) /\ proc[p].op = "rotate"),
           Busy(p, u)' /\ proc'[p].pc = "load" => records'[u] # "none"
    PROVE  Always(u)'
<1>1. \A q \in Procs : q # p => (Busy(q, u)' <=> Busy(q, u)) /\ (Minting(q, u)' <=> Minting(q, u))
  BY DEF Busy, Minting
<1>2. Fresh(u)'
  BY DEF Fresh
<1>3. Recorded(u)'
  BY <1>1 DEF Always, Recorded
<1>4. KeysRight(u)'
  <2>1. ASSUME NEW q \in Procs PROVE KeyRight(q, u)'
    <3>1. CASE q = p
      BY <3>1 DEF KeyRight
    <3>2. CASE q # p
      <4>1. KeyRight(q, u)
        BY DEF Always, KeysRight
      <4> QED
        BY <1>1, <3>2, <4>1 DEF KeyRight
    <3> QED
      BY <3>1, <3>2
  <2> QED
    BY <1>1, <2>1 DEF Always, KeysRight
<1>5. LatestRight(u)'
  BY <1>1 DEF Always, LatestRight
<1> QED
  BY <1>2, <1>3, <1>4, <1>5 DEF Always

\* p begins to change u, goes on, or its change is over.
LEMMA CrowdStays ==
    ASSUME NEW p \in Procs, NEW u \in Ids, CrowdRight(u),
           \A q \in Procs : q # p => proc'[q] = proc[q],
           \/ crowded' = crowded /\ (Changes(p, u)' => Changes(p, u))
           \/ Begins(u)
           \/ Ends(p, u) /\ ~Changes(p, u)'
    PROVE  /\ CrowdRight(u)'
           /\ \A q \in Procs : q # p /\ Changes(q, u) /\ u \notin crowded' => u \notin crowded /\ ~Changes(p, u)
<1>1. \A q \in Procs : q # p => (Changes(q, u)' <=> Changes(q, u))
  BY DEF Changes, Busy
<1>2. Changing(u) = {q \in Procs : Changes(q, u)}
  BY DEF Changing, Of, Changes, Busy
<1>3. CASE crowded' = crowded /\ (Changes(p, u)' => Changes(p, u))
  BY <1>1, <1>3 DEF CrowdRight
<1>4. CASE Begins(u)
  <2>1. (\E q \in Procs : Changes(q, u)) => u \in crowded'
    BY <1>2, <1>4 DEF Begins
  <2> QED
    BY <1>1, <2>1 DEF CrowdRight
<1>5. CASE Ends(p, u) /\ ~Changes(p, u)'
  <2>1. (\E q \in Procs : q # p /\ Changes(q, u)) => crowded' = crowded
    BY <1>2, <1>5 DEF Ends
  <2> QED
    BY <1>1, <1>5, <2>1 DEF CrowdRight
<1> QED
  BY <1>3, <1>4, <1>5

\* What all of u says is said still.
LEMMA SaysStays ==
    ASSUME NEW p \in Procs, NEW u \in Ids, NEW state, Says(u, state),
           \A q \in Procs : q # p => proc'[q] = proc[q],
           \A q \in Procs : q # p /\ Writes(q, u) => heap'[u][proc[q].o].state = state,
           records'[u] = state,
           byID'[u] # Nil => heap'[u][byID'[u]].state = state,
           Writes(p, u)' => /\ heap'[u][proc'[p].o].state = state
                            /\ proc'[p].pc = "exec" => proc'[p].buf = state
    PROVE  Says(u, state)'
<1>1. \A q \in Procs : q # p => (Writes(q, u)' <=> Writes(q, u))
  BY DEF Writes, Busy
<1>2. ASSUME NEW q \in Procs, Writes(q, u)'
      PROVE  /\ heap'[u][proc'[q].o].state = state
             /\ proc'[q].pc = "exec" => proc'[q].buf = state
  <2>1. CASE q = p
    BY <1>2, <2>1
  <2>2. CASE q # p
    BY <1>1, <1>2, <2>2 DEF Says
  <2> QED
    BY <2>1, <2>2
<1> QED
  BY <1>2 DEF Says

\* What an access that is certain says of the user's state.
Certain(state) == IF state = "disabled" THEN "off" ELSE "on"

\* A step of p that makes nobody's access certain.
LEMMA OnOffStay ==
    ASSUME NEW p \in Procs, NEW u \in Ids, StatesRight(u),
           \A q \in Procs : q # p => proc'[q] = proc[q],
           access'[u] \in {"on", "off"} => access'[u] = access[u],
           Busy(p, u)' /\ proc'[p].op \in {"create", "enable"} => access'[u] # "off",
           Busy(p, u)' /\ proc'[p].op = "disable" => access'[u] # "on",
           \A state \in States : access'[u] = Certain(state) /\ Says(u, state) => Says(u, state)'
    PROVE  OffRight(u)' /\ OnRight(u)'
<1>1. \A q \in Procs : q # p => (Busy(q, u)' <=> Busy(q, u))
  BY DEF Busy
<1>2. access'[u] = "off" => Says(u, "disabled")' /\ \A q \in Procs : Busy(q, u) => proc[q].op \notin {"create", "enable"}
  BY DEF StatesRight, OffRight, Certain, States
<1>3. access'[u] = "on" => Says(u, "enabled")' /\ \A q \in Procs : Busy(q, u) => proc[q].op # "disable"
  BY DEF StatesRight, OnRight, Certain, States
<1> QED
  BY <1>1, <1>2, <1>3 DEF OffRight, OnRight

\* A step of p that leaves the requests of others what they were.
LEMMA RequestsStay ==
    ASSUME NEW p \in Procs, NEW u \in Ids, RequestsRight(u),
           \A q \in Procs : q # p => proc'[q] = proc[q],
           \A q \in Procs : q # p /\ Busy(q, u) /\ proc[q].op = "lookup" /\ q \in barred' =>
               /\ q \in barred
               /\ access[u] = "off" =>
                     /\ access'[u] = "off"
                     /\ proc[q].pc = "check" /\ heap[u][proc[q].o].state = "disabled" => heap'[u][proc[q].o].state = "disabled",
           \A q \in Procs : q # p /\ Busy(q, u) /\ proc[q].op = "lookup" /\ q \in due' =>
               /\ q \in due
               /\ access[u] = "on" /\ latest[u] # 0 =>
                     /\ access'[u] = "on" /\ latest'[u] = latest[u]
                     /\ proc[q].pc = "check" /\ heap[u][proc[q].o].state = "enabled" => heap'[u][proc[q].o].state = "enabled",
           BarredRight(p, u)', DueRight(p, u)'
    PROVE  RequestsRight(u)'
<1>1. \A q \in Procs : q # p => (Busy(q, u)' <=> Busy(q, u))
  BY DEF Busy
<1>2. ASSUME NEW q \in Procs, q # p PROVE BarredRight(q, u)' /\ DueRight(q, u)'
  <2>1. BarredRight(q, u) /\ DueRight(q, u) /\ proc'[q] = proc[q]
    BY <1>2 DEF RequestsRight
  <2>2. BarredRight(q, u)'
    BY <1>1, <1>2, <2>1 DEF BarredRight
  <2>3. DueRight(q, u)'
    BY <1>1, <1>2, <2>1 DEF DueRight
  <2> QED
    BY <2>2, <2>3
<1> QED
  BY <1>2 DEF RequestsRight

\* A step of p in which no other process' object changes its state.
LEMMA StatesStay ==
    ASSUME NEW p \in Procs, NEW u \in Ids, Typed, StatesRight(u), RequestsRight(u),
           \A q \in Procs : q # p => proc'[q] = proc[q],
           \A q \in Procs : q # p /\ Busy(q, u) /\ proc[q].o # Nil => heap'[u][proc[q].o].state = heap[u][proc[q].o].state,
           access'[u] = access[u] \/ access'[u] \in {"unsure", "told"},
           \A q \in Procs : q # p /\ Busy(q, u) /\ q \in barred' => q \in barred /\ (access[u] = "off" => access'[u] = "off"),
           \A q \in Procs : q # p /\ Busy(q, u) /\ q \in due' =>
               q \in due /\ (access[u] = "on" /\ latest[u] # 0 => access'[u] = "on" /\ latest'[u] = latest[u]),
           \/ crowded' = crowded /\ (Changes(p, u)' => Changes(p, u))
           \/ Begins(u)
           \/ Ends(p, u) /\ ~Changes(p, u)',
           records'[u] = records[u] \/ (Changes(p, u) /\ proc[p].pc = "exec" /\ records'[u] = proc[p].buf),
           Busy(p, u)' /\ proc'[p].op \in {"create", "enable"} => access'[u] # "off",
           Busy(p, u)' /\ proc'[p].op = "disable" => access'[u] # "on",
           \A state \in States : Says(u, state) =>
               /\ byID'[u] # Nil => heap'[u][byID'[u]].state = state
               /\ Writes(p, u)' => /\ heap'[u][proc'[p].o].state = state
                                   /\ proc'[p].pc = "exec" => proc'[p].buf = state,
           SwitchRight(p, u)', BarredRight(p, u)', DueRight(p, u)'
    PROVE  StatesRight(u)' /\ RequestsRight(u)'
<1>0. \A q \in Procs : Writes(q, u) \/ (Busy(q, u) /\ proc[q].pc = "check") => Busy(q, u) /\ proc[q].o # Nil
  BY DEF Writes, Busy, Typed, ProcTyped, Stage
<1>1. /\ CrowdRight(u)'
      /\ \A q \in Procs : q # p /\ Changes(q, u) /\ u \notin crowded' => u \notin crowded /\ ~Changes(p, u)
  BY CrowdStays DEF StatesRight
<1>2. ASSUME NEW state \in States, Says(u, state) PROVE Says(u, state)'
  <2>1. \A q \in Procs : q # p /\ Writes(q, u) => heap'[u][proc[q].o].state = state
    BY <1>0, <1>2 DEF Says
  <2>2. records'[u] = state
    <3>1. Changes(p, u) /\ proc[p].pc = "exec" => proc[p].buf = state
      BY <1>2 DEF Says, Writes, Changes
    <3> QED
      BY <1>2, <3>1 DEF Says
  <2> QED
    BY <1>2, <2>1, <2>2, SaysStays
<1>3. OffRight(u)' /\ OnRight(u)'
  BY <1>2, OnOffStay
<1>4. ASSUME NEW q \in Procs PROVE SwitchRight(q, u)'
  <2>1. CASE q = p
    BY <2>1
  <2>2. CASE q # p
    <3>1. (Changes(q, u)' <=> Changes(q, u)) /\ proc'[q] = proc[q] /\ SwitchRight(q, u)
      BY <2>2 DEF Changes, Busy, StatesRight
    <3>2. Changes(q, u) /\ u \notin crowded' => u \notin crowded /\ records'[u] = records[u]
      BY <1>1, <2>2
    <3>3. Changes(q, u) /\ proc[q].op # "rotate" => Writes(q, u) /\ proc[q].o # Nil
      BY <1>0 DEF Changes, Writes, Busy, Typed, ProcTyped, Stage, Active
    <3> QED
      BY <2>2, <3>1, <3>2, <3>3 DEF SwitchRight, Changes
  <2> QED
    BY <2>1, <2>2
<1>5. RequestsRight(u)'
  BY <1>0, RequestsStay
<1> QED
  BY <1>1, <1>3, <1>4, <1>5 DEF StatesRight

\* A step of p that keeps what is to be kept, for u and so for everybody.
Keeps(p, u) == Typed' /\ Only(p, u) /\ Always(u)' /\ StatesRight(u)' /\ RequestsRight(u)'

LEMMA KeepsAll ==
    ASSUME AccountsInv, NEW p \in Procs, NEW u \in Ids, Keeps(p, u)
    PROVE  AccountsInv'
<1>1. ASSUME NEW v \in Ids PROVE Always(v)' /\ StatesRight(v)' /\ RequestsRight(v)'
  <2>1. CASE v = u
    BY <2>1 DEF Keeps
  <2>2. CASE v # u
    BY <2>2, OthersStay DEF Keeps, AccountsInv
  <2> QED
    BY <2>1, <2>2
<1> QED
  BY <1>1 DEF Keeps, AccountsInv

\* A process that is busy with a user has one whose first key was minted.
LEMMA BusyRight ==
    ASSUME AccountsInv, NEW p \in Procs, proc[p] # Idle
    PROVE  /\ proc[p] \in Active /\ Stage(proc[p])
           /\ proc[p].u \in Ids /\ Busy(p, proc[p].u) /\ minted[proc[p].u] # 0
<1>1. proc[p] \in Active /\ Stage(proc[p])
  BY DEF AccountsInv, Typed, ProcTyped
<1>2. proc[p].u \in Ids /\ Busy(p, proc[p].u)
  BY <1>1 DEF Active, Busy
<1>3. Fresh(proc[p].u)
  BY <1>2 DEF AccountsInv, Always
<1> QED
  BY <1>1, <1>2, <1>3 DEF Fresh

LEMMA AtActive ==
    ASSUME NEW pc \in {"change", "exec", "merge", "ask", "check"}, NEW op \in {"create", "lookup", "list", "disable", "enable", "rotate"},
           NEW u \in Ids, NEW k \in Hash
    PROVE  At(pc, op, u, k) \in Active
<1>1. 0 \in Hash /\ "enabled" \in States
  BY UsersAssumption DEF Hash, States
<1> QED
  BY <1>1 DEF At, Active

-----------------------------------------------------------------------------
(* Lookups. *)

\* p goes on with a lookup, ends, or puts the object it has into the mirror.
LEMMA Quietly ==
    ASSUME AccountsInv, NEW p \in Procs, NEW u \in Ids, NEW r, minted[u] # 0,
           UNCHANGED <<records, hashes, heap, minted, access, latest, crowded>>,
           proc' = [proc EXCEPT ![p] = r],
           proc[p] # Idle => proc[p].u = u,
           r # Idle => /\ r \in Active /\ Stage(r) /\ r.u = u /\ r.op = "lookup" /\ r.pc # "fill"
                       /\ r.pc = "load" => records[u] # "none",
           byHash' \in [Ids -> SUBSET Hash],
           \/ byID' = byID
           \/ Writes(p, u) /\ byID' = [byID EXCEPT ![u] = proc[p].o],
           barred' \in {barred, barred \cup {p}, barred \ {p}}, due' \in {due, due \cup {p}, due \ {p}},
           r = Idle => p \notin due',
           BarredRight(p, u)', DueRight(p, u)'
    PROVE  Keeps(p, u)
<1>1. Typed /\ Always(u) /\ StatesRight(u) /\ RequestsRight(u)
  BY DEF AccountsInv
<1>2. /\ proc'[p] = r
      /\ \A q \in Procs : q # p => proc'[q] = proc[q]
      /\ byID'[u] = byID[u] \/ (Writes(p, u) /\ byID'[u] = proc[p].o)
      /\ \A v \in Ids : v # u => byID'[v] = byID[v]
  BY <1>1 DEF Typed, ProcTyped
<1>3. Typed'
  <2>1. Busy(p, u) => proc[p].o \in Objects \cup {Nil}
    BY <1>1 DEF Typed, ProcTyped, Busy, Active
  <2>2. byID' \in [Ids -> Objects \cup {Nil}]
    BY <1>1, <2>1 DEF Typed, ProcTyped, Writes
  <2>3. proc' \in [Procs -> Active \cup {Idle}] /\ \A q \in Procs : proc'[q] # Idle => Stage(proc'[q])
    BY <1>1, <1>2 DEF Typed, ProcTyped
  <2>4. /\ barred' \in SUBSET Procs /\ due' \in SUBSET Procs
        /\ \A q \in due' : proc'[q] # Idle /\ proc'[q].op = "lookup"
    BY <1>1, <1>2 DEF Typed, ProcTyped
  <2> QED
    BY <1>1, <2>2, <2>3, <2>4 DEF Typed, ProcTyped
<1>4. Only(p, u)
  BY <1>2 DEF Only
<1>5. Busy(p, u)' => proc'[p] = r /\ r # Idle
  BY <1>2 DEF Busy
<1>6. ~Minting(p, u)' /\ ~Changes(p, u)' /\ ~Writes(p, u)'
  BY <1>5 DEF Minting, Changes, Writes, Stage
<1>7. Always(u)'
  <2>1. \A o \in Objects : heap'[u][o].hash <= minted[u]
    BY <1>1 DEF Always, KeysRight
  <2> QED
    BY <1>1, <1>2, <1>5, <1>6, <2>1, AlwaysStays
<1>8. StatesRight(u)' /\ RequestsRight(u)'
  <2>1. \A state \in States : Says(u, state) => (byID'[u] # Nil => heap'[u][byID'[u]].state = state)
    BY <1>2 DEF Says
  <2>2. SwitchRight(p, u)'
    BY <1>6 DEF SwitchRight
  <2>3. \A q \in Procs : q # p => (q \in barred' => q \in barred) /\ (q \in due' => q \in due)
    OBVIOUS
  <2> QED
    BY <1>1, <1>2, <1>5, <1>6, <2>1, <2>2, <2>3, StatesStay
<1> QED
  BY <1>3, <1>4, <1>7, <1>8 DEF Keeps

LEMMA LookupStep ==
    ASSUME AccountsInv, NEW p \in Procs, NEW u \in Ids, NEW k \in 1..MaxKeys, Lookup(p, u, k)
    PROVE  Keeps(p, u)
<1> DEFINE r == [At(IF k \in byHash[u] /\ byID[u] # Nil THEN "check" ELSE "ask", "lookup", u, k)
                    EXCEPT !.o = IF k \in byHash[u] THEN byID[u] ELSE Nil,
                           !.sure = access[u] = "off", !.old = k < latest[u]]
<1>1. /\ proc[p] = Idle /\ k \in 1..minted[u] /\ proc' = [proc EXCEPT ![p] = r]
      /\ barred' \in {barred, barred \cup {p}}
      /\ due' = IF Works(u, k) THEN due \cup {p} ELSE due
      /\ UNCHANGED <<records, hashes, heap, minted, access, latest, crowded, byHash, byID>>
  BY DEF Lookup, redis, mirror, answers, Free
<1>2. Typed /\ minted[u] \in Hash /\ byID[u] \in Objects \cup {Nil} /\ StatesRight(u)
  BY DEF AccountsInv, Typed, ProcTyped
<1>3. minted[u] # 0 /\ k \in Hash /\ k # 0
  BY <1>1, <1>2, UsersAssumption DEF Hash
<1>4. /\ r.pc = IF k \in byHash[u] /\ byID[u] # Nil THEN "check" ELSE "ask"
      /\ r.op = "lookup" /\ r.u = u /\ r.k = k /\ r.answer = "none"
      /\ r.o = IF k \in byHash[u] THEN byID[u] ELSE Nil
      /\ r.sure <=> access[u] = "off"
  BY DEF At
<1>5. r \in Active /\ Stage(r)
  <2>1. r \in Active
    <3>1. At("check", "lookup", u, k) \in Active /\ At("ask", "lookup", u, k) \in Active
      BY <1>3, AtActive
    <3>2. (access[u] = "off") \in BOOLEAN /\ (k < latest[u]) \in BOOLEAN
      OBVIOUS
    <3>3. ASSUME NEW a \in Active, NEW o \in Objects \cup {Nil}, NEW b1 \in BOOLEAN, NEW b2 \in BOOLEAN
          PROVE  [a EXCEPT !.o = o, !.sure = b1, !.old = b2] \in Active
      BY DEF Active
    <3> QED
      BY <1>2, <3>1, <3>2, <3>3
  <2>2. Stage(r)
    BY <1>4 DEF Stage
  <2> QED
    BY <2>1, <2>2
<1>6. byHash' \in [Ids -> SUBSET Hash]
  BY <1>1, <1>2 DEF Typed, ProcTyped
<1> HIDE DEF r
<1>7. proc'[p] = r
  BY <1>1, <1>2 DEF Typed, ProcTyped
<1>8. p \notin due
  BY <1>1, <1>2 DEF Typed, ProcTyped
<1>9. BarredRight(p, u)'
  BY <1>1, <1>2, <1>4, <1>7 DEF BarredRight, StatesRight, OffRight, Says
<1>10. DueRight(p, u)'
  BY <1>1, <1>2, <1>3, <1>4, <1>7, <1>8 DEF DueRight, Works, StatesRight, OnRight, Says
<1>11. r.pc \notin {"load", "fill"} /\ r # Idle
  BY <1>4 DEF Idle
<1> QED
  BY <1>1, <1>3, <1>4, <1>5, <1>6, <1>9, <1>10, <1>11, Quietly

\* A lookup goes on.
LEMMA LookupGoesOn ==
    ASSUME AccountsInv, NEW p \in Procs, proc[p] # Idle, proc[p].op = "lookup", NEW u \in Ids, u = proc[p].u,
           NEW pc \in {"load", "check", "answered"}, NEW o \in {proc[p].o, byID[u]},
           NEW answer \in {"none", "accepted", "refused", "unreachable"},
           UNCHANGED <<records, hashes, heap, minted, access, latest, crowded, barred, due>>,
           proc' = [proc EXCEPT ![p] = [proc[p] EXCEPT !.pc = pc, !.o = o, !.answer = answer]],
           pc = "check" => /\ o # Nil
                           /\ access[u] = "off" => heap[u][o].state = "disabled"
                           /\ access[u] = "on" => heap[u][o].state = "enabled",
           pc = "load" => records[u] # "none",
           answer = proc[p].answer \/ (answer = "accepted" => ~(proc[p].sure /\ p \in barred)),
           answer = proc[p].answer \/ (answer = "refused" => p \notin due),
           byHash' \in [Ids -> SUBSET Hash],
           \/ byID' = byID
           \/ Writes(p, u) /\ byID' = [byID EXCEPT ![u] = proc[p].o]
    PROVE  Keeps(p, u)
<1> DEFINE r == [proc[p] EXCEPT !.pc = pc, !.o = o, !.answer = answer]
<1>1. /\ proc[p] \in Active /\ Stage(proc[p]) /\ u \in Ids /\ Busy(p, u) /\ minted[u] # 0
      /\ byID[u] \in Objects \cup {Nil} /\ BarredRight(p, u) /\ DueRight(p, u)
  BY BusyRight DEF AccountsInv, Typed, ProcTyped, RequestsRight
<1>2. /\ r \in Active /\ r.pc = pc /\ r.op = "lookup" /\ r.u = u /\ r.k = proc[p].k /\ r.o = o /\ r.answer = answer
      /\ r.sure = proc[p].sure
  BY <1>1 DEF Active
<1>3. Stage(r)
  BY <1>2 DEF Stage
<1>4. r # Idle
  BY <1>2 DEF Idle
<1>5. proc' = [proc EXCEPT ![p] = r]
  OBVIOUS
<1> HIDE DEF r
<1>6. /\ proc'[p] = r
      /\ \A q \in Procs : q # p => proc'[q] = proc[q]
  BY <1>5 DEF AccountsInv, Typed, ProcTyped
<1>7. BarredRight(p, u)'
  BY <1>1, <1>2, <1>6 DEF BarredRight
<1>8. DueRight(p, u)'
  BY <1>1, <1>2, <1>6 DEF DueRight
<1> QED
  BY <1>1, <1>2, <1>3, <1>4, <1>5, <1>7, <1>8, Quietly

LEMMA AskStep ==
    ASSUME AccountsInv, NEW p \in Procs, NEW u \in Ids, u = proc[p].u, Ask(p)
    PROVE  Keeps(p, u)
<1>1. /\ proc[p] # Idle /\ proc[p].pc = "ask"
      /\ UNCHANGED <<records, hashes, heap, minted, access, latest, crowded, barred, due, byHash, byID>>
  BY DEF Ask, Idle, redis, mirror, history, answers, requests
<1>2. /\ proc[p] \in Active /\ Stage(proc[p]) /\ u \in Ids /\ Always(u) /\ StatesRight(u) /\ DueRight(p, u) /\ Busy(p, u)
      /\ proc \in [Procs -> Active \cup {Idle}] /\ byHash' \in [Ids -> SUBSET Hash] /\ hashes[u] \in SUBSET (1..MaxKeys)
  BY <1>1, BusyRight DEF AccountsInv, Typed, ProcTyped, RequestsRight
<1>3. proc[p].op = "lookup" /\ proc[p].answer \in {"none", "accepted", "refused", "unreachable"}
  BY <1>1, <1>2 DEF Stage, Active
<1>4. CASE proc[p].k \notin hashes[u]
  <2>0. Refuse(p)
    BY <1>4 DEF Ask
  <2>1. proc' = [proc EXCEPT ![p] = [proc[p] EXCEPT !.pc = "answered", !.o = proc[p].o, !.answer = "refused"]]
    BY <1>2, <2>0 DEF Refuse, Active
  <2>2. p \notin due
    BY <1>2, <1>3, <1>4 DEF DueRight, Always, LatestRight
  <2> QED
    BY <1>1, <1>2, <1>3, <2>1, <2>2, LookupGoesOn
<1>5. CASE proc[p].k \in hashes[u] /\ byID[u] # Nil
  <2>1. proc' = [proc EXCEPT ![p] = [proc[p] EXCEPT !.pc = "check", !.o = byID[u], !.answer = proc[p].answer]]
    BY <1>2, <1>5 DEF Ask, Active
  <2>2. /\ access[u] = "off" => heap[u][byID[u]].state = "disabled"
        /\ access[u] = "on" => heap[u][byID[u]].state = "enabled"
    BY <1>2, <1>5 DEF StatesRight, OffRight, OnRight, Says
  <2> QED
    BY <1>1, <1>2, <1>3, <1>5, <2>1, <2>2, LookupGoesOn
<1>6. CASE proc[p].k \in hashes[u] /\ byID[u] = Nil
  <2>1. proc' = [proc EXCEPT ![p] = [proc[p] EXCEPT !.pc = "load", !.o = proc[p].o, !.answer = proc[p].answer]]
    BY <1>2, <1>6 DEF Ask, Enter, Active
  <2>2. records[u] # "none"
    BY <1>2, <1>6 DEF Always, Recorded
  <2> QED
    BY <1>1, <1>2, <1>3, <2>1, <2>2, LookupGoesOn
<1> QED
  BY <1>4, <1>5, <1>6

LEMMA UnreachableStep ==
    ASSUME AccountsInv, NEW p \in Procs, NEW u \in Ids, u = proc[p].u, Unreachable(p)
    PROVE  Keeps(p, u)
<1>1. /\ proc[p] # Idle /\ proc[p].pc \in {"ask", "load"}
      /\ UNCHANGED <<records, hashes, heap, minted, access, latest, crowded, barred, due, byHash, byID>>
  BY DEF Unreachable, Idle, redis, mirror, history, answers, requests
<1>2. /\ proc[p] \in Active /\ Stage(proc[p])
      /\ proc \in [Procs -> Active \cup {Idle}] /\ byHash' \in [Ids -> SUBSET Hash]
  BY <1>1, BusyRight DEF AccountsInv, Typed, ProcTyped
<1>3. proc[p].op = "lookup"
  BY <1>1, <1>2 DEF Stage, Active
<1>4. proc' = [proc EXCEPT ![p] = [proc[p] EXCEPT !.pc = "answered", !.o = proc[p].o, !.answer = "unreachable"]]
  BY <1>2 DEF Unreachable, Active
<1> QED
  BY <1>1, <1>2, <1>3, <1>4, LookupGoesOn

LEMMA FillStep ==
    ASSUME AccountsInv, NEW p \in Procs, NEW u \in Ids, u = proc[p].u, Fill(p)
    PROVE  Keeps(p, u)
<1>1. /\ proc[p] # Idle /\ proc[p].pc = "fill"
      /\ UNCHANGED <<records, hashes, heap, minted, access, latest, crowded, barred, due>>
      /\ byID' = [byID EXCEPT ![proc[p].u] = proc[p].o]
  BY DEF Fill, Idle, redis, history, answers, requests
<1>2. /\ proc[p] \in Active /\ Stage(proc[p]) /\ Busy(p, u) /\ StatesRight(u)
      /\ proc \in [Procs -> Active \cup {Idle}] /\ byHash \in [Ids -> SUBSET Hash]
  BY <1>1, BusyRight DEF AccountsInv, Typed, ProcTyped
<1>3. proc[p].op = "lookup" /\ proc[p].o # Nil /\ Writes(p, u)
  BY <1>1, <1>2 DEF Stage, Active, Writes
<1>4. proc' = [proc EXCEPT ![p] = [proc[p] EXCEPT !.pc = "check", !.o = proc[p].o, !.answer = proc[p].answer]]
  BY <1>2 DEF Fill, Enter, Active
<1>5. byHash' \in [Ids -> SUBSET Hash]
  BY <1>2 DEF Fill, Active
<1>6. proc[p].answer \in {"none", "accepted", "refused", "unreachable"}
  BY <1>2 DEF Active
<1>7. /\ access[u] = "off" => heap[u][proc[p].o].state = "disabled"
      /\ access[u] = "on" => heap[u][proc[p].o].state = "enabled"
  BY <1>2, <1>3 DEF StatesRight, OffRight, OnRight, Says
<1> QED
  BY <1>1, <1>3, <1>4, <1>5, <1>6, <1>7, LookupGoesOn

LEMMA CheckStep ==
    ASSUME AccountsInv, NEW p \in Procs, NEW u \in Ids, u = proc[p].u, Check(p)
    PROVE  Keeps(p, u)
<1>1. /\ proc[p] # Idle /\ proc[p].pc = "check"
      /\ UNCHANGED <<records, hashes, heap, minted, access, latest, crowded, barred, due, byHash, byID>>
  BY DEF Check, Idle, redis, mirror, history, answers, requests
<1>2. /\ proc[p] \in Active /\ Stage(proc[p]) /\ Busy(p, u) /\ BarredRight(p, u) /\ DueRight(p, u)
      /\ proc \in [Procs -> Active \cup {Idle}] /\ byHash' \in [Ids -> SUBSET Hash]
  BY <1>1, BusyRight DEF AccountsInv, Typed, ProcTyped, RequestsRight
<1>3. proc[p].op = "lookup"
  BY <1>1, <1>2 DEF Stage, Active
<1>4. CASE heap[u][proc[p].o].state = "disabled"
  <2>0. Refuse(p)
    BY <1>4 DEF Check
  <2>1. proc' = [proc EXCEPT ![p] = [proc[p] EXCEPT !.pc = "answered", !.o = proc[p].o, !.answer = "refused"]]
    BY <1>2, <2>0 DEF Refuse, Active
  <2>2. p \notin due
    BY <1>1, <1>2, <1>3, <1>4 DEF DueRight
  <2> QED
    BY <1>1, <1>2, <1>3, <2>1, <2>2, LookupGoesOn
<1>5. CASE heap[u][proc[p].o].state # "disabled"
  <2>1. proc' = [proc EXCEPT ![p] = [proc[p] EXCEPT !.pc = "answered", !.o = proc[p].o, !.answer = "accepted"]]
    BY <1>2, <1>5 DEF Check, Active
  <2>2. ~(proc[p].sure /\ p \in barred)
    BY <1>1, <1>2, <1>3, <1>5 DEF BarredRight
  <2> QED
    BY <1>1, <1>2, <1>3, <2>1, <2>2, LookupGoesOn
<1> QED
  BY <1>4, <1>5

\* A lookup or a listing ends, which puts what it read into the mirror.
LEMMA DoneStep ==
    ASSUME AccountsInv, NEW p \in Procs, NEW u \in Ids, u = proc[p].u, Done(p) \/ Merge(p)
    PROVE  Keeps(p, u)
<1>1. /\ proc[p] # Idle /\ Leave(p) /\ proc[p].pc \in {"answered", "merge"}
      /\ UNCHANGED <<records, hashes, heap, minted, access, latest, crowded>>
      /\ barred' \in {barred, barred \ {p}} /\ due' \in {due, due \ {p}}
      /\ proc[p].pc = "answered" => due' = due \ {p}
  BY DEF Done, Merge, Idle, redis, history, answers, requests
<1>2. /\ proc[p] \in Active /\ Stage(proc[p]) /\ byHash \in [Ids -> SUBSET Hash] /\ minted[u] # 0 /\ Busy(p, u)
      /\ proc \in [Procs -> Active \cup {Idle}]
  BY <1>1, BusyRight DEF AccountsInv, Typed, ProcTyped
<1>3. byHash' \in [Ids -> SUBSET Hash]
  <2>1. 0 \in Hash
    BY UsersAssumption DEF Hash
  <2> QED
    BY <1>2, <2>1 DEF Done, Merge, mirror, Active
<1>4. byID' = byID \/ (Writes(p, u) /\ byID' = [byID EXCEPT ![u] = proc[p].o])
  BY <1>1, <1>2 DEF Done, Merge, mirror, Writes
<1>5. p \notin due'
  <2>1. proc[p].pc = "merge" => proc[p].op # "lookup"
    BY <1>2 DEF Stage
  <2> QED
    BY <1>1, <2>1 DEF AccountsInv, Typed, ProcTyped
<1>6. proc' = [proc EXCEPT ![p] = Idle] /\ proc'[p] = Idle
  BY <1>1, <1>2 DEF Leave
<1>7. BarredRight(p, u)' /\ DueRight(p, u)'
  BY <1>6 DEF BarredRight, DueRight, Busy
<1> QED
  BY <1>1, <1>2, <1>3, <1>4, <1>5, <1>6, <1>7, Quietly

-----------------------------------------------------------------------------
(* Reads of records. *)

\* Nobody holds a new object.
LEMMA NewObject ==
    ASSUME AccountsInv, NEW u \in Ids, NEW o \in Unused(u), NEW object \in Object, New(u, o, object)
    PROVE  /\ o \in Objects /\ heap' \in [Ids -> [Objects -> Object]]
           /\ \A v \in Ids : v # u => heap'[v] = heap[v]
           /\ heap'[u][o] = object
           /\ byID[u] # Nil => heap'[u][byID[u]] = heap[u][byID[u]]
           /\ \A q \in Procs : Busy(q, u) /\ proc[q].o # Nil => heap'[u][proc[q].o] = heap[u][proc[q].o]
           /\ \A x \in Objects : heap'[u][x] = heap[u][x] \/ heap'[u][x] = object
<1>1. /\ heap \in [Ids -> [Objects -> Object]] /\ byID[u] \in Objects \cup {Nil}
      /\ o \in Objects /\ heap' = [heap EXCEPT ![u][o] = object] /\ o # byID[u]
  BY DEF AccountsInv, Typed, ProcTyped, New, Unused
<1>2. heap[u] \in [Objects -> Object]
  BY <1>1
<1>3. heap' = [heap EXCEPT ![u] = [heap[u] EXCEPT ![o] = object]]
  BY <1>1
<1>4. \A q \in Procs : Busy(q, u) /\ proc[q].o # Nil => proc[q].o \in Objects /\ proc[q].o # o
  BY BusyRight DEF Unused, Active, Busy
<1>5. heap'[u] = [heap[u] EXCEPT ![o] = object]
  BY <1>1, <1>3
<1>6. [heap[u] EXCEPT ![o] = object] \in [Objects -> Object]
  BY <1>1, <1>2
<1>7. heap' \in [Ids -> [Objects -> Object]]
  BY <1>1, <1>3, <1>6
<1> QED
  BY <1>1, <1>2, <1>3, <1>4, <1>5, <1>7

\* p gets an object: the mirror's, or one that is new.
LEMMA GetsObject ==
    ASSUME AccountsInv, NEW p \in Procs, NEW u \in Ids, NEW r \in Active, Stage(r), r.u = u,
           r.pc \in {"change", "merge", "fill"},
           \/ r.o = byID[u] /\ byID[u] # Nil /\ heap' = heap
           \/ records[u] # "none" /\ New(u, r.o, Loaded(u)),
           proc' = [proc EXCEPT ![p] = r],
           proc[p] # Idle => proc[p].u = u,
           \/ proc[p] = Idle /\ r.op # "lookup"
           \/ proc[p] # Idle /\ r.op = "lookup" /\ proc[p].op = r.op /\ proc[p].k = r.k /\ proc[p].sure = r.sure
              /\ proc[p].answer = r.answer,
           UNCHANGED <<records, hashes, byHash, byID, minted>>,
           access' = access \/ \E a \in {access[u], "unsure"} : access' = [access EXCEPT ![u] = a],
           r.op = "enable" => access'[u] # "off",
           r.op = "disable" => access'[u] # "on",
           IF r.op = "rotate" THEN latest' = [latest EXCEPT ![u] = 0] ELSE latest' = latest,
           IF r.pc = "change" THEN Begins(u) ELSE crowded' = crowded,
           barred' \subseteq barred, due' \subseteq due,
           \A q \in Procs : Busy(q, u) /\ q \in barred' /\ access[u] = "off" => access'[u] = "off",
           \A q \in Procs : Busy(q, u) /\ q \in due' => access'[u] = access[u] /\ latest'[u] = latest[u]
    PROVE  Keeps(p, u)
<1>1. Typed /\ Always(u) /\ StatesRight(u) /\ RequestsRight(u) /\ 0 \in Hash /\ minted[u] \in Hash /\ minted[u] \in Nat
  BY UsersAssumption DEF AccountsInv, Typed, ProcTyped, Hash
<1>2. /\ proc'[p] = r /\ Busy(p, u)' /\ r # Idle
      /\ \A q \in Procs : q # p => proc'[q] = proc[q]
  <2>1. r # Idle
    BY DEF Active, Idle
  <2> QED
    BY <1>1, <2>1 DEF Typed, ProcTyped, Busy
<1>3. minted[u] # 0
  BY <1>1 DEF Always, Fresh
<1>4. /\ heap' \in [Ids -> [Objects -> Object]]
      /\ \A v \in Ids : v # u => heap'[v] = heap[v]
      /\ byID[u] # Nil => heap'[u][byID[u]] = heap[u][byID[u]]
      /\ \A q \in Procs : q # p /\ Busy(q, u) /\ proc[q].o # Nil => heap'[u][proc[q].o] = heap[u][proc[q].o]
      /\ \A x \in Objects : heap'[u][x].hash = heap[u][x].hash \/ heap'[u][x].hash = 0
      /\ (r.o = byID[u] /\ byID[u] # Nil /\ heap'[u][r.o] = heap[u][byID[u]]) \/ (records[u] # "none" /\ heap'[u][r.o].state = records[u])
  <2>1. CASE r.o = byID[u] /\ byID[u] # Nil /\ heap' = heap
    BY <1>1, <2>1 DEF Typed, ProcTyped
  <2>2. CASE records[u] # "none" /\ New(u, r.o, Loaded(u))
    <3> DEFINE o == r.o
    <3>1. Loaded(u) \in Object /\ Loaded(u).hash = 0 /\ Loaded(u).state = records[u]
      BY <1>1, <2>2 DEF Typed, ProcTyped, Object, Loaded
    <3>2. PICK object \in Object : object = Loaded(u) /\ o \in Unused(u) /\ New(u, o, object)
      BY <2>2, <3>1 DEF New
    <3>3. /\ o \in Objects /\ heap' \in [Ids -> [Objects -> Object]]
          /\ \A v \in Ids : v # u => heap'[v] = heap[v]
          /\ heap'[u][o] = object
          /\ byID[u] # Nil => heap'[u][byID[u]] = heap[u][byID[u]]
          /\ \A q \in Procs : Busy(q, u) /\ proc[q].o # Nil => heap'[u][proc[q].o] = heap[u][proc[q].o]
          /\ \A x \in Objects : heap'[u][x] = heap[u][x] \/ heap'[u][x] = object
      <4>1. o \in Unused(u) /\ object \in Object /\ New(u, o, object) /\ u \in Ids
        BY <3>2
      <4> HIDE DEF o
      <4>2. heap'[u][o] = object
        BY <4>1, NewObject
      <4>3. o \in Objects
        BY <4>1, NewObject
      <4>4. heap' \in [Ids -> [Objects -> Object]]
        BY <4>1, NewObject
      <4>5. \A v \in Ids : v # u => heap'[v] = heap[v]
        BY <4>1, NewObject
      <4>6. byID[u] # Nil => heap'[u][byID[u]] = heap[u][byID[u]]
        BY <4>1, NewObject
      <4>7. \A q \in Procs : Busy(q, u) /\ proc[q].o # Nil => heap'[u][proc[q].o] = heap[u][proc[q].o]
        BY <4>1, NewObject
      <4>8. \A x \in Objects : heap'[u][x] = heap[u][x] \/ heap'[u][x] = object
        BY <4>1, NewObject
      <4> QED
        BY <4>2, <4>3, <4>4, <4>5, <4>6, <4>7, <4>8
    <3>4. \A x \in Objects : heap'[u][x].hash = heap[u][x].hash \/ heap'[u][x].hash = 0
      BY <3>1, <3>2, <3>3
    <3> QED
      BY <2>2, <3>1, <3>2, <3>3, <3>4
  <2> QED
    BY <2>1, <2>2
<1>5. Typed'
  <2>1. proc' \in [Procs -> Active \cup {Idle}] /\ \A q \in Procs : proc'[q] # Idle => Stage(proc'[q])
    BY <1>1, <1>2 DEF Typed, ProcTyped
  <2>2. access' \in [Ids -> Access]
    <3>1. access[u] \in Access /\ "unsure" \in Access
      BY <1>1 DEF Typed, ProcTyped, Access
    <3> QED
      BY <1>1, <3>1 DEF Typed, ProcTyped
  <2>3. latest' \in [Ids -> Hash]
    <3>1. latest \in [Ids -> Hash] /\ [latest EXCEPT ![u] = 0] \in [Ids -> Hash]
      BY <1>1 DEF Typed, ProcTyped
    <3> QED
      BY <3>1
  <2>4. crowded' \in SUBSET Ids
    BY <1>1 DEF Typed, Begins
  <2>5. barred' \in SUBSET Procs /\ due' \in SUBSET Procs /\ \A q \in due' : proc'[q] # Idle /\ proc'[q].op = "lookup"
    BY <1>1, <1>2 DEF Typed, ProcTyped
  <2> QED
    BY <1>1, <1>4, <2>1, <2>2, <2>3, <2>4, <2>5 DEF Typed, ProcTyped
<1>6. /\ \A v \in Ids : v # u => access'[v] = access[v] /\ latest'[v] = latest[v] /\ (v \in crowded' <=> v \in crowded)
      /\ access'[u] \in {access[u], "unsure"}
      /\ latest'[u] \in {0, latest[u]} /\ (r.op = "rotate" => latest'[u] = 0)
  BY <1>1 DEF Typed, ProcTyped, Begins
<1>7. Only(p, u)
  BY <1>2, <1>4, <1>6 DEF Only
<1>8. ~Minting(p, u)' /\ r.pc # "load" /\ r.pc # "exec" /\ r.op # "create"
  BY <1>2 DEF Minting, Stage
<1>9. Always(u)'
  <2>1. \A o \in Objects : heap'[u][o].hash <= minted[u]
    BY <1>1, <1>4 DEF Always, KeysRight
  <2>2. \A q \in Procs : q # p /\ Minting(q, u) => heap'[u][proc[q].o].hash = heap[u][proc[q].o].hash
    <3>1. \A q \in Procs : Minting(q, u) => Busy(q, u) /\ proc[q].o # Nil
      BY BusyRight DEF Minting, Busy, Stage
    <3> QED
      BY <1>4, <3>1
  <2> QED
    BY <1>1, <1>2, <1>3, <1>6, <1>8, <2>1, <2>2, AlwaysStays
<1>10. \A state \in States : Says(u, state) =>
          /\ byID'[u] # Nil => heap'[u][byID'[u]].state = state
          /\ heap'[u][proc'[p].o].state = state /\ proc'[p].pc # "exec"
  BY <1>2, <1>4, <1>8 DEF Says
<1>11. SwitchRight(p, u)'
  BY <1>2 DEF SwitchRight, Stage, Changes
<1>12. BarredRight(p, u)' /\ DueRight(p, u)'
  <2> SUFFICES ASSUME r.op = "lookup" PROVE BarredRight(p, u)' /\ DueRight(p, u)'
    BY <1>2 DEF BarredRight, DueRight
  <2>1. Busy(p, u) /\ BarredRight(p, u) /\ DueRight(p, u) /\ r.pc = "fill"
    BY <1>1 DEF RequestsRight, Busy, Stage
  <2> QED
    BY <1>2, <2>1 DEF BarredRight, DueRight
<1>13. (crowded' = crowded /\ ~Changes(p, u)') \/ Begins(u)
  BY <1>2 DEF Changes, Stage
<1>14. StatesRight(u)' /\ RequestsRight(u)'
  <2>1. \A q \in Procs : q # p /\ Busy(q, u) /\ proc[q].o # Nil => heap'[u][proc[q].o].state = heap[u][proc[q].o].state
    BY <1>4
  <2>2. \A q \in Procs : q # p /\ Busy(q, u) /\ q \in barred' => q \in barred /\ (access[u] = "off" => access'[u] = "off")
    OBVIOUS
  <2>3. \A q \in Procs : q # p /\ Busy(q, u) /\ q \in due' => q \in due /\ access'[u] = access[u] /\ latest'[u] = latest[u]
    OBVIOUS
  <2> QED
    BY <1>1, <1>2, <1>6, <1>8, <1>10, <1>11, <1>12, <1>13, <2>1, <2>2, <2>3, StatesStay
<1> QED
  BY <1>5, <1>7, <1>9, <1>14 DEF Keeps

LEMMA GetStep ==
    ASSUME AccountsInv, NEW p \in Procs, NEW u \in Ids, NEW op \in {"disable", "enable", "rotate"}, Get(p, u, op),
           access' = access \/ \E a \in {access[u], "unsure"} : access' = [access EXCEPT ![u] = a],
           op = "enable" => access'[u] # "off",
           op = "disable" => access'[u] # "on",
           IF op = "rotate" THEN latest' = [latest EXCEPT ![u] = 0] ELSE latest' = latest,
           Begins(u), barred' \subseteq barred, due' \subseteq due,
           \A q \in Procs : Busy(q, u) /\ q \in barred' /\ access[u] = "off" => access'[u] = "off",
           \A q \in Procs : Busy(q, u) /\ q \in due' => access'[u] = access[u] /\ latest'[u] = latest[u]
    PROVE  Keeps(p, u)
<1>1. /\ proc[p] = Idle
      /\ UNCHANGED <<records, hashes, byHash, byID, minted>>
  BY DEF Get, GetShared, GetCopy, Free, redis, mirror
<1>2. PICK o \in Objects :
          /\ (o = byID[u] /\ byID[u] # Nil /\ heap' = heap) \/ (records[u] # "none" /\ New(u, o, Loaded(u)))
          /\ proc' = [proc EXCEPT ![p] = [At("change", op, u, 0) EXCEPT !.o = o]]
  <2>1. CASE GetShared(p, u, op)
    BY <2>1 DEF GetShared, AccountsInv, Typed, ProcTyped
  <2>2. CASE GetCopy(p, u, op)
    BY <2>2 DEF GetCopy
  <2> QED
    BY <2>1, <2>2 DEF Get
<1>3. o # Nil
  BY UsersAssumption
<1> DEFINE r == [At("change", op, u, 0) EXCEPT !.o = o]
<1>4. At("change", op, u, 0) \in Active
  BY UsersAssumption, AtActive DEF Hash
<1>5. r \in Active /\ r.pc = "change" /\ r.op = op /\ r.u = u /\ r.o = o
  BY <1>4 DEF Active, At
<1>6. Stage(r)
  BY <1>3, <1>5 DEF Stage
<1>7. proc' = [proc EXCEPT ![p] = r]
  BY <1>2
<1> HIDE DEF r
<1>8. (r.o = byID[u] /\ byID[u] # Nil /\ heap' = heap) \/ (records[u] # "none" /\ New(u, r.o, Loaded(u)))
  BY <1>2, <1>5
<1> QED
  BY <1>1, <1>5, <1>6, <1>7, <1>8, GetsObject

LEMMA ChangeStep ==
    ASSUME AccountsInv, NEW p \in Procs, NEW u \in Ids, Disable(p, u) \/ Enable(p, u) \/ Rotate(p, u)
    PROVE  Keeps(p, u)
<1>1. access \in [Ids -> Access] /\ latest \in [Ids -> Hash] /\ RequestsRight(u) /\ ProcTyped
  BY DEF AccountsInv, Typed
<1>2. \A q \in Procs : Busy(q, u) => q \in Of(u)
  BY DEF Of, Busy
<1>3. CASE Disable(p, u)
  <2>1. /\ Get(p, u, "disable") /\ latest' = latest /\ Begins(u) /\ barred' = barred /\ due' = due \ Of(u)
        /\ access' = [access EXCEPT ![u] = IF access[u] = "on" THEN "unsure" ELSE access[u]]
    BY <1>3 DEF Disable
  <2>2. PICK a \in {access[u], "unsure"} : a = (IF access[u] = "on" THEN "unsure" ELSE access[u]) /\ access' = [access EXCEPT ![u] = a]
    BY <1>1, <2>1
  <2>3. access'[u] # "on" /\ (access[u] = "off" => access'[u] = access[u])
    BY <1>1, <2>2
  <2> QED
    BY <1>2, <2>1, <2>2, <2>3, GetStep
<1>4. CASE Enable(p, u)
  <2>1. /\ Get(p, u, "enable") /\ latest' = latest /\ Begins(u) /\ barred' = barred \ Of(u) /\ due' = due
        /\ access' = [access EXCEPT ![u] = IF access[u] \in {"off", "told"} THEN "unsure" ELSE access[u]]
    BY <1>4 DEF Enable
  <2>2. PICK a \in {access[u], "unsure"} : a = (IF access[u] \in {"off", "told"} THEN "unsure" ELSE access[u]) /\ access' = [access EXCEPT ![u] = a]
    BY <1>1, <2>1
  <2>3. access'[u] # "off" /\ (access[u] = "on" => access'[u] = access[u])
    BY <1>1, <2>2
  <2>4. \A q \in Procs : Busy(q, u) /\ q \in due' => access'[u] = access[u]
    BY <1>1, <2>1, <2>3 DEF RequestsRight, DueRight, ProcTyped
  <2> QED
    BY <1>2, <2>1, <2>2, <2>3, <2>4, GetStep
<1>5. CASE Rotate(p, u)
  BY <1>2, <1>5, GetStep DEF Rotate
<1> QED
  BY <1>3, <1>4, <1>5

LEMMA ListStep ==
    ASSUME AccountsInv, NEW p \in Procs, NEW u \in Ids, List(p, u)
    PROVE  Keeps(p, u)
<1>1. /\ proc[p] = Idle /\ records[u] # "none"
      /\ UNCHANGED <<records, hashes, byHash, byID, minted, access, latest, crowded, barred, due>>
  BY DEF List, Free, redis, mirror, history, answers, requests
<1>2. PICK o \in Objects : New(u, o, Loaded(u)) /\ proc' = [proc EXCEPT ![p] = [At("merge", "list", u, 0) EXCEPT !.o = o]]
  BY DEF List
<1>3. o # Nil
  BY UsersAssumption
<1> DEFINE r == [At("merge", "list", u, 0) EXCEPT !.o = o]
<1>4. At("merge", "list", u, 0) \in Active
  BY UsersAssumption, AtActive DEF Hash
<1>5. r \in Active /\ r.pc = "merge" /\ r.op = "list" /\ r.u = u /\ r.o = o /\ r.answer = "none"
  BY <1>4 DEF Active, At
<1>6. Stage(r)
  BY <1>3, <1>5 DEF Stage
<1>7. proc' = [proc EXCEPT ![p] = r]
  BY <1>2
<1> HIDE DEF r
<1>8. New(u, r.o, Loaded(u))
  BY <1>2, <1>5
<1> QED
  BY <1>1, <1>5, <1>6, <1>7, <1>8, GetsObject

LEMMA LoadStep ==
    ASSUME AccountsInv, NEW p \in Procs, NEW u \in Ids, u = proc[p].u, Load(p)
    PROVE  Keeps(p, u)
<1>2. /\ proc[p] # Idle /\ proc[p].pc = "load"
      /\ UNCHANGED <<records, hashes, byHash, byID, minted, access, latest, crowded, barred, due>>
  BY DEF Load, Idle, redis, mirror, history, answers, requests
<1>3. proc[p] \in Active /\ Stage(proc[p]) /\ Busy(p, u) /\ proc \in [Procs -> Active \cup {Idle}]
  BY <1>2, BusyRight DEF AccountsInv, Typed, ProcTyped
<1>4. PICK o \in Objects : New(u, o, Loaded(u)) /\ proc' = [proc EXCEPT ![p].pc = "fill", ![p].o = o]
  BY DEF Load
<1>5. records[u] # "none"
  BY <1>2, <1>3 DEF AccountsInv, Always, Recorded
<1>6. PICK r \in Active : r = [proc[p] EXCEPT !.pc = "fill", !.o = o]
  BY <1>3 DEF Active
<1>7. /\ r.pc = "fill" /\ r.op = "lookup" /\ r.u = u /\ r.o = o /\ r.k = proc[p].k /\ r.sure = proc[p].sure /\ r.answer = proc[p].answer
      /\ proc[p].op = "lookup" /\ o # Nil
  BY <1>2, <1>3, <1>6, UsersAssumption DEF Active, Stage
<1>8. Stage(r)
  BY <1>7 DEF Stage
<1>9. proc' = [proc EXCEPT ![p] = r]
  BY <1>3, <1>4, <1>6
<1>10. New(u, r.o, Loaded(u))
  BY <1>4, <1>7
<1> QED
  BY <1>2, <1>5, <1>7, <1>8, <1>9, <1>10, GetsObject

-----------------------------------------------------------------------------
(* Changes. *)

\* p puts another hash or state into its object.
Puts(u, o, object) == heap' = [heap EXCEPT ![u] = [heap[u] EXCEPT ![o] = object]]

LEMMA ObjectChanges ==
    ASSUME AccountsInv, NEW u \in Ids, NEW o \in Objects, NEW object \in Object, Puts(u, o, object)
    PROVE  /\ heap' \in [Ids -> [Objects -> Object]]
           /\ \A v \in Ids : v # u => heap'[v] = heap[v]
           /\ heap'[u][o] = object
           /\ \A x \in Objects : x # o => heap'[u][x] = heap[u][x]
<1>1. heap \in [Ids -> [Objects -> Object]] /\ heap[u] \in [Objects -> Object]
  BY DEF AccountsInv, Typed
<1>2. [heap[u] EXCEPT ![o] = object] \in [Objects -> Object]
  BY <1>1
<1>3. heap' \in [Ids -> [Objects -> Object]]
  BY <1>1, <1>2 DEF Puts
<1>4. heap'[u] = [heap[u] EXCEPT ![o] = object]
  BY <1>1 DEF Puts
<1> QED
  BY <1>1, <1>3, <1>4 DEF Puts

\* p goes on with the user it is busy with.
Becomes(p, r) == proc' = [proc EXCEPT ![p] = r]

LEMMA GoesOn ==
    ASSUME AccountsInv, NEW p \in Procs, proc[p] # Idle, NEW u \in Ids, u = proc[p].u,
           NEW r \in Active, Stage(r), r.u = u, r.op = proc[p].op, Becomes(p, r), due' = due
    PROVE  /\ ProcTyped'
           /\ proc'[p] = r /\ r # Idle /\ Busy(p, u) /\ Busy(p, u)'
           /\ \A q \in Procs : q # p => proc'[q] = proc[q]
<1>1. r # Idle
  BY DEF Active, Idle
<1>2. /\ proc \in [Procs -> Active \cup {Idle}] /\ \A q \in Procs : proc[q] # Idle => Stage(proc[q])
      /\ \A q \in due : q \in Procs /\ proc[q] # Idle /\ proc[q].op = "lookup"
  BY DEF AccountsInv, Typed, ProcTyped
<1>3. /\ proc' \in [Procs -> Active \cup {Idle}] /\ proc'[p] = r
      /\ \A q \in Procs : q # p => proc'[q] = proc[q]
  BY <1>2 DEF Becomes
<1> QED
  BY <1>1, <1>2, <1>3 DEF Busy, ProcTyped

\* A process that changes u and goes on is no request.
LEMMA NoRequest ==
    ASSUME NEW p \in Procs, NEW u \in Ids, Busy(p, u)' => proc'[p].op # "lookup"
    PROVE  BarredRight(p, u)' /\ DueRight(p, u)'
  BY DEF BarredRight, DueRight

LEMMA SwitchStep ==
    ASSUME AccountsInv, NEW p \in Procs, NEW u \in Ids, u = proc[p].u, Switch(p)
    PROVE  Keeps(p, u)
<1>2. PICK state \in States : state = IF proc[p].op = "disable" THEN "disabled" ELSE "enabled"
  BY DEF States
<1>3. /\ proc[p] # Idle /\ proc[p].pc = "change" /\ proc[p].op \in {"disable", "enable"}
      /\ UNCHANGED <<records, hashes, byHash, byID, minted, access, latest, crowded, barred, due>>
      /\ heap' = [heap EXCEPT ![u][proc[p].o].state = state]
      /\ proc' = [proc EXCEPT ![p].pc = "exec", ![p].buf = state]
  BY <1>2 DEF Switch, Idle, redis, mirror, history, answers, requests
<1>4. /\ Typed /\ Always(u) /\ StatesRight(u) /\ RequestsRight(u)
      /\ proc[p] \in Active /\ Stage(proc[p]) /\ Busy(p, u) /\ minted[u] # 0
      /\ proc \in [Procs -> Active \cup {Idle}] /\ heap \in [Ids -> [Objects -> Object]]
  BY <1>3, BusyRight DEF AccountsInv, Typed, ProcTyped
<1>5. PICK o \in Objects : o = proc[p].o
  BY <1>3, <1>4 DEF Stage, Active
<1>6. PICK r \in Active : r = [proc[p] EXCEPT !.pc = "exec", !.buf = state]
  BY <1>4 DEF Active
<1>7. r.pc = "exec" /\ r.op = proc[p].op /\ r.u = u /\ r.o = o /\ r.buf = state /\ o # Nil
  BY <1>4, <1>5, <1>6, UsersAssumption DEF Active
<1>8. Stage(r)
  BY <1>3, <1>7 DEF Stage
<1>9. Becomes(p, r)
  BY <1>3, <1>4, <1>6 DEF Becomes
<1>10. /\ ProcTyped'
       /\ proc'[p] = r /\ r # Idle /\ Busy(p, u)'
       /\ \A q \in Procs : q # p => proc'[q] = proc[q]
  BY <1>3, <1>7, <1>8, <1>9, GoesOn
<1>11. PICK object \in Object : object = [heap[u][o] EXCEPT !.state = state]
  <2>1. heap[u][o] \in Object
    BY <1>4
  <2> QED
    BY <2>1 DEF Object
<1>12. object.hash = heap[u][o].hash /\ object.state = state
  BY <1>4, <1>11 DEF Object
<1>13. Puts(u, o, object)
  BY <1>3, <1>4, <1>5, <1>11 DEF Puts
<1>14. /\ heap' \in [Ids -> [Objects -> Object]]
       /\ \A v \in Ids : v # u => heap'[v] = heap[v]
       /\ heap'[u][o] = object
       /\ \A x \in Objects : x # o => heap'[u][x] = heap[u][x]
  BY <1>13, ObjectChanges
<1>15. Typed'
  BY <1>3, <1>4, <1>10, <1>14 DEF Typed
<1>16. Only(p, u)
  BY <1>3, <1>7, <1>10, <1>14 DEF Only
<1>17. \A x \in Objects : heap'[u][x].hash = heap[u][x].hash /\ heap'[u][x].state \in {heap[u][x].state, state}
  BY <1>12, <1>14
<1>18. ~Minting(p, u)' /\ Changes(p, u) /\ Changes(p, u)'
  BY <1>3, <1>4, <1>7, <1>10 DEF Minting, Changes
<1>19. Always(u)'
  <2>1. \A x \in Objects : heap'[u][x].hash <= minted[u]
    BY <1>4, <1>17 DEF Always, KeysRight
  <2>2. \A q \in Procs : q # p /\ Minting(q, u) => heap'[u][proc[q].o].hash = heap[u][proc[q].o].hash
    <3>1. \A q \in Procs : Minting(q, u) => proc[q].o \in Objects
      BY BusyRight DEF Minting, Busy, Stage, Active
    <3> QED
      BY <1>17, <3>1
  <2> QED
    BY <1>3, <1>4, <1>7, <1>10, <1>18, <2>1, <2>2, AlwaysStays
\* The state that is known is the one the object gets.
<1>20. /\ access[u] = "off" => state = "disabled"
       /\ access[u] = "on" => state = "enabled"
  BY <1>2, <1>3, <1>4 DEF StatesRight, OffRight, OnRight
<1>21. \A q \in Procs : Writes(q, u) \/ (Busy(q, u) /\ proc[q].pc = "check") => proc[q].o \in Objects
  BY BusyRight DEF Writes, Busy, Stage, Active
<1>22. OffRight(u)' /\ OnRight(u)'
  <2>1. ASSUME Says(u, state) PROVE Says(u, state)'
    <3>1. \A q \in Procs : q # p /\ Writes(q, u) => heap'[u][proc[q].o].state = state
      BY <1>17, <1>21, <2>1 DEF Says
    <3>2. byID'[u] # Nil => heap'[u][byID'[u]].state = state
      BY <1>3, <1>4, <1>17, <2>1 DEF Says, Typed
    <3>3. records'[u] = state /\ heap'[u][proc'[p].o].state = state /\ proc'[p].buf = state
      BY <1>3, <1>7, <1>10, <1>12, <1>14, <2>1 DEF Says
    <3> QED
      BY <1>10, <2>1, <3>1, <3>2, <3>3, SaysStays
  <2>2. \A s \in States : access'[u] = Certain(s) => s = state
    BY <1>3, <1>20 DEF Certain, States
  <2>3. /\ Busy(p, u)' /\ proc'[p].op \in {"create", "enable"} => access'[u] # "off"
        /\ Busy(p, u)' /\ proc'[p].op = "disable" => access'[u] # "on"
        /\ access'[u] = access[u]
    BY <1>2, <1>3, <1>7, <1>10, <1>20
  <2> QED
    BY <1>4, <1>10, <2>1, <2>2, <2>3, OnOffStay
<1>23. /\ CrowdRight(u)'
       /\ \A q \in Procs : q # p /\ Changes(q, u) => u \in crowded'
  BY <1>3, <1>4, <1>10, <1>18, CrowdStays DEF StatesRight
<1>24. ASSUME NEW q \in Procs PROVE SwitchRight(q, u)'
  <2>1. CASE q = p
    BY <1>2, <1>3, <1>7, <1>10, <1>12, <1>14, <2>1 DEF SwitchRight, Target
  <2>2. CASE q # p
    BY <1>10, <1>23, <2>2 DEF SwitchRight, Changes, Busy
  <2> QED
    BY <2>1, <2>2
<1>25. RequestsRight(u)'
  <2>1. BarredRight(p, u)' /\ DueRight(p, u)'
    BY <1>3, <1>7, <1>10, NoRequest
  <2>2. \A q \in Procs : q # p /\ Busy(q, u) /\ proc[q].op = "lookup" /\ q \in barred' =>
           /\ q \in barred
           /\ access[u] = "off" =>
                 /\ access'[u] = "off"
                 /\ proc[q].pc = "check" /\ heap[u][proc[q].o].state = "disabled" => heap'[u][proc[q].o].state = "disabled"
    BY <1>3, <1>17, <1>20, <1>21
  <2>3. \A q \in Procs : q # p /\ Busy(q, u) /\ proc[q].op = "lookup" /\ q \in due' =>
           /\ q \in due
           /\ access[u] = "on" /\ latest[u] # 0 =>
                 /\ access'[u] = "on" /\ latest'[u] = latest[u]
                 /\ proc[q].pc = "check" /\ heap[u][proc[q].o].state = "enabled" => heap'[u][proc[q].o].state = "enabled"
    BY <1>3, <1>17, <1>20, <1>21
  <2> QED
    BY <1>4, <1>10, <2>1, <2>2, <2>3, RequestsStay
<1> QED
  BY <1>15, <1>16, <1>19, <1>22, <1>23, <1>24, <1>25 DEF Keeps, StatesRight

LEMMA MintStep ==
    ASSUME AccountsInv, NEW p \in Procs, NEW u \in Ids, u = proc[p].u, Mint(p)
    PROVE  Keeps(p, u)
<1>1. PICK k \in Nat : k = minted[u] + 1
  BY DEF AccountsInv, Typed, Hash
<1>2. /\ proc[p] # Idle /\ proc[p].pc = "change" /\ proc[p].op = "rotate" /\ k <= MaxKeys
      /\ UNCHANGED <<records, hashes, byHash, byID, access, latest, crowded, barred, due>>
      /\ minted' = [minted EXCEPT ![u] = k]
      /\ heap' = [heap EXCEPT ![u][proc[p].o].hash = k]
      /\ proc' = [proc EXCEPT ![p].pc = "del", ![p].k = k, ![p].hash = heap[u][proc[p].o].hash]
  BY <1>1 DEF Mint, Idle, redis, mirror, history, answers, requests
<1>3. /\ Typed /\ Always(u) /\ StatesRight(u) /\ RequestsRight(u) /\ proc[p] \in Active /\ Stage(proc[p]) /\ Busy(p, u) /\ minted[u] # 0
      /\ proc \in [Procs -> Active \cup {Idle}] /\ heap \in [Ids -> [Objects -> Object]] /\ k \in Hash
      /\ minted \in [Ids -> Hash] /\ minted[u] \in Nat
  BY <1>1, <1>2, BusyRight, UsersAssumption DEF AccountsInv, Typed, ProcTyped, Hash
<1>4. PICK o \in Objects : o = proc[p].o
  BY <1>2, <1>3 DEF Stage, Active
<1>5. heap[u][o] \in Object /\ heap[u][o].hash \in Hash
  BY <1>3 DEF Object
<1>6. PICK r \in Active :
          /\ r = [proc[p] EXCEPT !.pc = "del", !.k = k, !.hash = heap[u][o].hash]
          /\ r.pc = "del" /\ r.op = proc[p].op /\ r.u = proc[p].u /\ r.o = proc[p].o
          /\ r.k = k /\ r.hash = heap[u][o].hash
  <2>1. PICK a \in Active, h \in Hash : a = proc[p] /\ h = heap[u][o].hash
    BY <1>3, <1>5
  <2>2. PICK b \in Active : b = [a EXCEPT !.pc = "del", !.k = k, !.hash = h]
    BY <1>3, <2>1 DEF Active
  <2>3. b.pc = "del" /\ b.op = a.op /\ b.u = a.u /\ b.o = a.o /\ b.k = k /\ b.hash = h
    BY <1>3, <2>1, <2>2 DEF Active
  <2> QED
    BY <2>1, <2>2, <2>3
<1>7. r.pc = "del" /\ r.op = "rotate" /\ r.u = u /\ r.o = o /\ r.k = k /\ r.hash = heap[u][o].hash /\ o # Nil
  BY <1>2, <1>4, <1>6, UsersAssumption
<1>8. Stage(r)
  BY <1>7 DEF Stage
<1>9. Becomes(p, r)
  BY <1>2, <1>3, <1>4, <1>6 DEF Becomes
<1>10. /\ ProcTyped'
       /\ proc'[p] = r /\ r # Idle /\ Busy(p, u)'
       /\ \A q \in Procs : q # p => proc'[q] = proc[q]
  BY <1>2, <1>7, <1>8, <1>9, GoesOn
<1>11. PICK object \in Object : object = [heap[u][o] EXCEPT !.hash = k]
  BY <1>3, <1>5 DEF Object
<1>12. object.hash = k /\ object.state = heap[u][o].state
  BY <1>5, <1>11 DEF Object
<1>13. Puts(u, o, object)
  BY <1>2, <1>3, <1>4, <1>11 DEF Puts
<1>14. /\ heap' \in [Ids -> [Objects -> Object]]
       /\ \A v \in Ids : v # u => heap'[v] = heap[v]
       /\ heap'[u][o] = object
       /\ \A x \in Objects : x # o => heap'[u][x] = heap[u][x]
  BY <1>13, ObjectChanges
<1>15. minted' \in [Ids -> Hash] /\ minted'[u] = k /\ \A v \in Ids : v # u => minted'[v] = minted[v]
  BY <1>2, <1>3
<1>16. Typed'
  BY <1>2, <1>3, <1>10, <1>14, <1>15 DEF Typed
<1>17. Only(p, u)
  BY <1>2, <1>7, <1>10, <1>14, <1>15 DEF Only
<1>18. \A q \in Procs : q # p => (Busy(q, u)' <=> Busy(q, u)) /\ (Minting(q, u)' <=> Minting(q, u))
  BY <1>10 DEF Busy, Minting
<1>19. Always(u)'
  <2>1. Fresh(u)' /\ Recorded(u)'
    BY <1>1, <1>2, <1>3, <1>7, <1>10, <1>15, <1>18 DEF Always, Fresh, Recorded
  <2>2. \A x \in Objects : heap[u][x].hash <= minted[u] /\ heap[u][x].hash \in Nat
    <3>1. \A x \in Objects : heap[u][x] \in Object
      BY <1>3
    <3> QED
      BY <1>3, <3>1 DEF Always, KeysRight, Object, Hash
  <2>3. \A x \in Objects : heap'[u][x].hash <= k
    BY <1>1, <1>3, <1>12, <1>14, <2>2
  <2>4. \A q \in Procs : q # p /\ Minting(q, u) => proc[q].k \in 1..minted[u] /\ proc[q].o \in Objects
    BY <1>3, BusyRight DEF Always, KeysRight, KeyRight, Minting, Busy, Stage, Active
  <2>5. ASSUME NEW q \in Procs PROVE KeyRight(q, u)'
    <3>1. CASE q = p
      BY <1>1, <1>3, <1>7, <1>10, <1>12, <1>14, <1>15, <2>2, <3>1 DEF KeyRight
    <3>2. CASE q # p
      <4> SUFFICES ASSUME Minting(q, u) PROVE KeyRight(q, u)'
        BY <1>18, <3>2 DEF KeyRight
      <4>1. KeyRight(q, u) /\ proc'[q] = proc[q] /\ proc[q].k \in 1..minted[u] /\ proc[q].o \in Objects
        BY <1>3, <1>10, <2>4, <3>2 DEF Always, KeysRight
      <4>2. heap'[u][proc[q].o].hash \in {heap[u][proc[q].o].hash, k}
        BY <1>12, <1>14, <4>1
      <4>3. proc[q].k # minted'[u] /\ proc[q].k \in 1..minted'[u]
        BY <1>1, <1>3, <1>15, <4>1
      <4>4. proc[q].pc = "del" => heap'[u][proc[q].o].hash \in 1..minted'[u] /\ proc[q].hash < proc[q].k
        BY <1>1, <1>3, <1>15, <4>1, <4>2 DEF KeyRight
      <4>5. proc[q].pc # "del" => proc[q].hash \in 1..minted'[u]
        BY <1>1, <1>3, <1>15, <4>1 DEF KeyRight
      <4>6. proc[q].op = "create" => proc[q].k = 1
        BY <4>1 DEF KeyRight
      <4> QED
        BY <4>1, <4>3, <4>4, <4>5, <4>6 DEF KeyRight
    <3> QED
      BY <3>1, <3>2
  <2>6. ASSUME NEW q \in Procs, NEW x \in Procs, q # x, Minting(q, u)', Minting(x, u)' PROVE proc'[q].k # proc'[x].k
    <3>1. CASE q = p
      BY <1>1, <1>3, <1>7, <1>10, <1>18, <2>4, <2>6, <3>1
    <3>2. CASE x = p
      BY <1>1, <1>3, <1>7, <1>10, <1>18, <2>4, <2>6, <3>2
    <3>3. CASE q # p /\ x # p
      BY <1>3, <1>10, <1>18, <2>6, <3>3 DEF Always, KeysRight
    <3> QED
      BY <3>1, <3>2, <3>3
  <2>7. KeysRight(u)'
    BY <1>15, <2>3, <2>5, <2>6 DEF KeysRight
  <2>8. LatestRight(u)'
    BY <1>2, <1>3 DEF Always, LatestRight
  <2> QED
    BY <2>1, <2>7, <2>8 DEF Always
<1>20. \A x \in Objects : heap'[u][x].state = heap[u][x].state
  BY <1>12, <1>14
<1>21. \A s \in States : Says(u, s) =>
          /\ byID'[u] # Nil => heap'[u][byID'[u]].state = s
          /\ heap'[u][proc'[p].o].state = s /\ proc'[p].pc # "exec"
  <2>1. Writes(p, u) /\ proc'[p].o = o /\ proc[p].o = o /\ o \in Objects
    BY <1>2, <1>3, <1>4, <1>7, <1>10 DEF Writes
  <2>2. byID[u] # Nil => byID[u] \in Objects
    BY <1>3 DEF Typed
  <2> QED
    BY <1>2, <1>7, <1>10, <1>20, <2>1, <2>2 DEF Says
<1>22. \A q \in Procs : q # p /\ Busy(q, u) /\ proc[q].o # Nil => heap'[u][proc[q].o].state = heap[u][proc[q].o].state
  <2>1. \A q \in Procs : Busy(q, u) /\ proc[q].o # Nil => proc[q].o \in Objects
    BY BusyRight DEF Busy, Active
  <2> QED
    BY <1>20, <2>1
<1>23. BarredRight(p, u)' /\ DueRight(p, u)' /\ SwitchRight(p, u)' /\ Changes(p, u)
  BY <1>2, <1>3, <1>7, <1>10, NoRequest DEF SwitchRight, Changes
<1>24. StatesRight(u)' /\ RequestsRight(u)'
  BY <1>2, <1>3, <1>7, <1>10, <1>21, <1>22, <1>23, StatesStay
<1> QED
  BY <1>16, <1>17, <1>19, <1>24 DEF Keeps

LEMMA DelStep ==
    ASSUME AccountsInv, NEW p \in Procs, NEW u \in Ids, u = proc[p].u, Del(p)
    PROVE  Keeps(p, u)
<1>1. /\ Typed /\ Always(u) /\ StatesRight(u) /\ RequestsRight(u) /\ proc[p] # Idle /\ proc[p].pc = "del" /\ proc[p] \in Active /\ Stage(proc[p])
      /\ Busy(p, u) /\ minted[u] # 0 /\ minted[u] \in Nat /\ KeyRight(p, u)
      /\ heap \in [Ids -> [Objects -> Object]] /\ hashes \in [Ids -> SUBSET (1..MaxKeys)]
      /\ proc \in [Procs -> Active \cup {Idle}]
  BY BusyRight DEF Del, Idle, AccountsInv, Typed, ProcTyped, Hash, Always, KeysRight
<1>2. proc[p].op = "rotate" /\ Minting(p, u)
  BY <1>1 DEF Stage, Active, Minting
<1>3. PICK o \in Objects : o = proc[p].o
  BY <1>1 DEF Stage, Active
<1>4. PICK object \in Object : object = heap[u][o]
  BY <1>1
<1>5. PICK h \in Hash : h = proc[p].hash
  BY <1>1 DEF Active
<1>6. /\ UNCHANGED <<records, heap, byHash, byID, minted, access, latest, crowded, barred, due>>
      /\ hashes' \in {hashes, [hashes EXCEPT ![u] = hashes[u] \ {h}]}
      /\ proc' = [proc EXCEPT ![p].pc = "exec", ![p].buf = object.state, ![p].hash = object.hash]
  BY <1>3, <1>4, <1>5 DEF Del, mirror, history, answers, requests
<1>7. object.hash \in Hash /\ object.state \in States
  BY DEF Object
<1>8. PICK r \in Active :
          /\ r = [proc[p] EXCEPT !.pc = "exec", !.buf = object.state, !.hash = object.hash]
          /\ r.pc = "exec" /\ r.op = "rotate" /\ r.u = u /\ r.o = o /\ r.k = proc[p].k
          /\ r.hash = object.hash /\ r.buf = object.state
  <2>1. PICK a \in Active, x \in Hash, y \in States : a = proc[p] /\ x = object.hash /\ y = object.state
    BY <1>1, <1>7
  <2>2. PICK b \in Active : b = [a EXCEPT !.pc = "exec", !.buf = y, !.hash = x]
    BY <2>1 DEF Active
  <2>3. b.pc = "exec" /\ b.op = a.op /\ b.u = a.u /\ b.o = a.o /\ b.k = a.k /\ b.hash = x /\ b.buf = y
    BY <2>1, <2>2 DEF Active
  <2> QED
    BY <1>2, <1>3, <2>1, <2>2, <2>3
<1>9. o # Nil
  BY UsersAssumption
<1>10. Stage(r)
  BY <1>8, <1>9 DEF Stage
<1>11. Becomes(p, r)
  BY <1>1, <1>6, <1>8 DEF Becomes
<1>12. /\ ProcTyped'
       /\ proc'[p] = r /\ r # Idle /\ Busy(p, u)'
       /\ \A q \in Procs : q # p => proc'[q] = proc[q]
  <2>1. proc[p] # Idle /\ r.u = u /\ r.op = proc[p].op
    BY <1>1, <1>2, <1>8
  <2> QED
    BY <1>6, <1>10, <1>11, <2>1, GoesOn
<1>13. /\ hashes' \in [Ids -> SUBSET (1..MaxKeys)] /\ hashes'[u] \in {hashes[u], hashes[u] \ {h}}
       /\ \A v \in Ids : v # u => hashes'[v] = hashes[v]
  BY <1>1, <1>6
<1>14. Typed'
  BY <1>1, <1>6, <1>12, <1>13 DEF Typed
<1>15. Only(p, u)
  BY <1>6, <1>8, <1>12, <1>13 DEF Only
<1>16. \A q \in Procs : (Busy(q, u)' <=> Busy(q, u)) /\ (Minting(q, u)' <=> Minting(q, u)) /\ (Minting(q, u) => proc'[q].k = proc[q].k)
  BY <1>1, <1>2, <1>8, <1>12 DEF Busy, Minting
<1>17. Always(u)'
  <2>1. Fresh(u)'
    BY <1>1, <1>6 DEF Fresh
  <2>2. Recorded(u)'
    BY <1>1, <1>6, <1>8, <1>12, <1>13, <1>16 DEF Always, Recorded
  <2>3. KeyRight(p, u)'
    <3>1. /\ proc[p].k \in 1..minted[u] /\ object.hash \in 1..minted[u]
          /\ proc[p].k = minted[u] => object.hash = proc[p].k
      BY <1>1, <1>2, <1>3, <1>4 DEF KeyRight
    <3>2. minted'[u] = minted[u] /\ proc'[p] = r
      BY <1>6, <1>12
    <3> QED
      BY <1>8, <3>1, <3>2 DEF KeyRight
  <2>4. ASSUME NEW q \in Procs, q # p PROVE KeyRight(q, u)'
    <3>1. KeyRight(q, u) /\ proc'[q] = proc[q]
      BY <1>1, <1>12, <2>4 DEF Always, KeysRight
    <3>2. h < minted[u] /\ h # minted[u]
      BY <1>1, <1>2, <1>5 DEF KeyRight, Hash
    <3>3. minted[u] \in hashes[u] => minted[u] \in hashes'[u]
      BY <1>13, <3>2
    <3> QED
      BY <1>6, <1>16, <3>1, <3>3 DEF KeyRight
  <2>5. KeysRight(u)'
    BY <1>1, <1>6, <1>16, <2>3, <2>4 DEF Always, KeysRight
  <2>6. LatestRight(u)'
    BY <1>1, <1>2, <1>6 DEF Always, LatestRight
  <2> QED
    BY <2>1, <2>2, <2>5, <2>6 DEF Always
<1>18. \A s \in States : Says(u, s) =>
          /\ byID'[u] # Nil => heap'[u][byID'[u]].state = s
          /\ heap'[u][proc'[p].o].state = s /\ proc'[p].buf = s
  <2>1. Writes(p, u)
    BY <1>1 DEF Writes
  <2>2. /\ heap' = heap /\ byID'[u] = byID[u] /\ proc'[p].o = o /\ proc[p].o = o
        /\ proc'[p].buf = heap[u][o].state
    BY <1>3, <1>4, <1>6, <1>8, <1>12
  <2>3. \A s \in States : Says(u, s) => (byID[u] # Nil => heap[u][byID[u]].state = s) /\ heap[u][o].state = s
    BY <2>1, <2>2 DEF Says
  <2> QED
    BY <2>2, <2>3
<1>19. BarredRight(p, u)' /\ DueRight(p, u)' /\ SwitchRight(p, u)' /\ Changes(p, u)
  BY <1>1, <1>2, <1>8, <1>12, NoRequest DEF SwitchRight, Changes
<1>20. StatesRight(u)' /\ RequestsRight(u)'
  BY <1>1, <1>6, <1>8, <1>12, <1>18, <1>19, StatesStay
<1> QED
  BY <1>14, <1>15, <1>17, <1>20 DEF Keeps

\* What persist writes.
LEMMA PersistWrites ==
    ASSUME AccountsInv, NEW p \in Procs, proc[p] # Idle, proc[p].pc = "exec", NEW u \in Ids, u = proc[p].u,
           Persist(p)
    PROVE  /\ records' \in [Ids -> States \cup {"none"}] /\ records'[u] = proc[p].buf /\ proc[p].buf \in States
           /\ hashes' \in [Ids -> SUBSET (1..MaxKeys)] /\ hashes[u] \subseteq hashes'[u]
           /\ Minting(p, u) => proc[p].hash \in hashes'[u]
           /\ \A v \in Ids : v # u => records'[v] = records[v] /\ hashes'[v] = hashes[v]
<1>1. /\ proc[p] \in Active /\ Stage(proc[p]) /\ Busy(p, u) /\ minted[u] \in Nat /\ minted[u] <= MaxKeys /\ KeyRight(p, u)
      /\ records \in [Ids -> States \cup {"none"}] /\ hashes \in [Ids -> SUBSET (1..MaxKeys)]
  BY BusyRight, UsersAssumption DEF AccountsInv, Typed, Hash, Always, KeysRight
<1>2. WithKey(p) <=> Minting(p, u)
  BY <1>1 DEF Minting, WithKey
<1>3. PICK buf \in States : buf = proc[p].buf
  BY <1>1 DEF Active
<1>4. PICK set \in SUBSET (1..MaxKeys) : set = IF WithKey(p) THEN hashes[u] \cup {proc[p].hash} ELSE hashes[u]
  <2>1. WithKey(p) => proc[p].hash \in 1..MaxKeys
    BY <1>1, <1>2, UsersAssumption DEF KeyRight
  <2> QED
    BY <1>1, <2>1
<1>5. records' = [records EXCEPT ![u] = buf] /\ hashes' = [hashes EXCEPT ![u] = set]
  BY <1>3, <1>4 DEF Persist
<1> QED
  BY <1>1, <1>2, <1>3, <1>4, <1>5

LEMMA ExecStep ==
    ASSUME AccountsInv, NEW p \in Procs, NEW u \in Ids, u = proc[p].u, Exec(p)
    PROVE  Keeps(p, u)
<1>1. /\ Typed /\ Always(u) /\ StatesRight(u) /\ RequestsRight(u)
      /\ proc[p] # Idle /\ proc[p].pc = "exec" /\ proc[p] \in Active /\ Stage(proc[p])
      /\ Busy(p, u) /\ minted[u] # 0 /\ minted[u] \in Nat /\ KeyRight(p, u) /\ SwitchRight(p, u)
      /\ proc \in [Procs -> Active \cup {Idle}]
  BY BusyRight, UsersAssumption DEF Exec, Idle, AccountsInv, Typed, ProcTyped, Hash, Always, KeysRight, StatesRight
<1>2. proc[p].op \in {"create", "disable", "enable", "rotate"}
  BY <1>1 DEF Stage, Active
<1>3. PICK o \in Objects : o = proc[p].o
  BY <1>1 DEF Stage, Active
<1>4. /\ Persist(p)
      /\ UNCHANGED <<heap, byHash, byID, minted, access, latest, crowded, barred, due>>
      /\ proc' = [proc EXCEPT ![p].pc = "mirror"]
  BY DEF Exec, Enter, mirror, history, answers, requests
<1>5. PICK r \in Active :
          /\ r = [proc[p] EXCEPT !.pc = "mirror"]
          /\ r.pc = "mirror" /\ r.op = proc[p].op /\ r.u = u /\ r.o = o /\ r.k = proc[p].k /\ r.hash = proc[p].hash
  <2>1. PICK a \in Active : a = proc[p]
    BY <1>1
  <2>2. PICK b \in Active : b = [a EXCEPT !.pc = "mirror"]
    BY <2>1 DEF Active
  <2>3. b.pc = "mirror" /\ b.op = a.op /\ b.u = a.u /\ b.o = a.o /\ b.k = a.k /\ b.hash = a.hash
    BY <2>1, <2>2 DEF Active
  <2> QED
    BY <1>3, <2>1, <2>2, <2>3
<1>6. o # Nil
  BY UsersAssumption
<1>7. Stage(r)
  BY <1>2, <1>5, <1>6 DEF Stage
<1>8. Becomes(p, r)
  BY <1>1, <1>4, <1>5 DEF Becomes
<1>9. /\ ProcTyped'
      /\ proc'[p] = r /\ r # Idle /\ Busy(p, u)'
      /\ \A q \in Procs : q # p => proc'[q] = proc[q]
  <2>1. proc[p] # Idle /\ r.u = u /\ r.op = proc[p].op
    BY <1>1, <1>5
  <2> QED
    BY <1>4, <1>7, <1>8, <2>1, GoesOn
<1>10. /\ records' \in [Ids -> States \cup {"none"}] /\ records'[u] = proc[p].buf /\ proc[p].buf \in States /\ records'[u] # "none"
       /\ hashes' \in [Ids -> SUBSET (1..MaxKeys)] /\ hashes[u] \subseteq hashes'[u]
       /\ Minting(p, u) => proc[p].hash \in hashes'[u]
       /\ \A v \in Ids : v # u => records'[v] = records[v] /\ hashes'[v] = hashes[v]
  BY <1>1, <1>4, PersistWrites DEF States
<1>11. Typed'
  BY <1>1, <1>4, <1>9, <1>10 DEF Typed
<1>12. Only(p, u)
  BY <1>4, <1>5, <1>9, <1>10 DEF Only
<1>13. \A q \in Procs : (Busy(q, u)' <=> Busy(q, u)) /\ (Minting(q, u)' <=> Minting(q, u)) /\ (Minting(q, u) => proc'[q].k = proc[q].k)
  BY <1>1, <1>2, <1>5, <1>9 DEF Busy, Minting
<1>14. Always(u)'
  <2>1. Fresh(u)' /\ Recorded(u)'
    BY <1>1, <1>4, <1>10 DEF Fresh, Recorded
  <2>2. KeyRight(p, u)'
    <3>1. Minting(p, u) /\ proc[p].k = minted[u] => proc[p].k \in hashes'[u]
      BY <1>1, <1>10 DEF KeyRight
    <3> QED
      BY <1>1, <1>4, <1>5, <1>9, <1>10, <1>13, <3>1 DEF KeyRight
  <2>3. ASSUME NEW q \in Procs, q # p PROVE KeyRight(q, u)'
    <3>1. KeyRight(q, u) /\ proc'[q] = proc[q]
      BY <1>1, <1>9, <2>3 DEF Always, KeysRight
    <3> QED
      BY <1>4, <1>10, <1>13, <3>1 DEF KeyRight
  <2>4. KeysRight(u)'
    BY <1>1, <1>4, <1>13, <2>2, <2>3 DEF Always, KeysRight
  <2>5. LatestRight(u)'
    <3>1. LatestRight(u)
      BY <1>1 DEF Always
    <3>2. \A q \in Procs : Busy(q, u) => proc'[q].op = proc[q].op
      BY <1>5, <1>9
    <3> QED
      BY <1>4, <1>10, <1>13, <3>1, <3>2 DEF LatestRight
  <2> QED
    BY <2>1, <2>4, <2>5 DEF Always
<1>15. \A s \in States : Says(u, s) =>
          /\ byID'[u] # Nil => heap'[u][byID'[u]].state = s
          /\ heap'[u][proc'[p].o].state = s /\ proc'[p].pc # "exec"
  <2>1. Writes(p, u)
    BY <1>1 DEF Writes
  <2>2. heap' = heap /\ byID'[u] = byID[u] /\ proc'[p].o = o /\ proc[p].o = o /\ proc'[p].pc = "mirror"
    BY <1>3, <1>4, <1>5, <1>9
  <2>3. \A s \in States : Says(u, s) => (byID[u] # Nil => heap[u][byID[u]].state = s) /\ heap[u][o].state = s
    BY <2>1, <2>2 DEF Says
  <2> QED
    BY <2>2, <2>3
<1>16. Changes(p, u)
  BY <1>1, <1>2 DEF Changes
<1>17. SwitchRight(p, u)'
  BY <1>1, <1>3, <1>4, <1>5, <1>9, <1>10, <1>16 DEF SwitchRight
<1>18. BarredRight(p, u)' /\ DueRight(p, u)'
  BY <1>2, <1>5, <1>9, NoRequest
<1>19. /\ Busy(p, u)' /\ proc'[p].op \in {"create", "enable"} => access'[u] # "off"
       /\ Busy(p, u)' /\ proc'[p].op = "disable" => access'[u] # "on"
  BY <1>1, <1>4, <1>5, <1>9 DEF StatesRight, OffRight, OnRight
<1>20. StatesRight(u)' /\ RequestsRight(u)'
  BY <1>1, <1>4, <1>9, <1>10, <1>15, <1>16, <1>17, <1>18, <1>19, StatesStay
<1> QED
  BY <1>11, <1>12, <1>14, <1>20 DEF Keeps

\* A transaction that failed, or whose answer is lost.
LEMMA ExecFailsStep ==
    ASSUME AccountsInv, NEW p \in Procs, NEW u \in Ids, u = proc[p].u, ExecFails(p)
    PROVE  Keeps(p, u)
<1>1. /\ Typed /\ Always(u) /\ StatesRight(u) /\ RequestsRight(u)
      /\ proc[p] # Idle /\ proc[p].pc = "exec" /\ proc[p] \in Active /\ Stage(proc[p])
      /\ Busy(p, u) /\ minted[u] # 0 /\ minted[u] \in Nat
      /\ proc \in [Procs -> Active \cup {Idle}]
      /\ records \in [Ids -> States \cup {"none"}] /\ hashes \in [Ids -> SUBSET (1..MaxKeys)]
  BY BusyRight, UsersAssumption DEF ExecFails, Idle, AccountsInv, Typed, ProcTyped, Hash
<1>2. Changes(p, u) /\ p \notin due
  BY <1>1 DEF Stage, Active, Changes, Typed, ProcTyped
<1>3. /\ Persist(p) \/ UNCHANGED <<records, hashes>>
      /\ Ends(p, u) /\ proc' = [proc EXCEPT ![p] = Idle]
      /\ UNCHANGED <<heap, byHash, byID, minted, access, latest, barred, due>>
  BY DEF ExecFails, Leave, redis, mirror, answers, requests
<1>4. /\ records' \in [Ids -> States \cup {"none"}] /\ records'[u] \in {records[u], proc[p].buf}
      /\ records'[u] = records[u] \/ records'[u] # "none"
      /\ hashes' \in [Ids -> SUBSET (1..MaxKeys)] /\ hashes[u] \subseteq hashes'[u]
      /\ hashes'[u] = hashes[u] \/ records'[u] # "none"
      /\ \A v \in Ids : v # u => records'[v] = records[v] /\ hashes'[v] = hashes[v]
  <2>1. CASE Persist(p)
    BY <1>1, <2>1, PersistWrites DEF States
  <2>2. CASE UNCHANGED <<records, hashes>>
    BY <1>1, <2>2
  <2> QED
    BY <1>3, <2>1, <2>2
<1>5. /\ proc'[p] = Idle /\ ~Busy(p, u)' /\ ~Minting(p, u)' /\ ~Changes(p, u)' /\ ~Writes(p, u)'
      /\ \A q \in Procs : q # p => proc'[q] = proc[q]
  BY <1>1, <1>3 DEF Busy, Minting, Changes, Writes
<1>6. /\ crowded' \in SUBSET Ids
      /\ \A v \in Ids : v # u => (v \in crowded' <=> v \in crowded)
  BY <1>1, <1>3 DEF Ends, Typed
<1>7. Typed'
  <2>1. ProcTyped'
    BY <1>1, <1>2, <1>3, <1>5 DEF Typed, ProcTyped
  <2> QED
    BY <1>1, <1>3, <1>4, <1>6, <2>1 DEF Typed
<1>8. Only(p, u)
  BY <1>3, <1>4, <1>5, <1>6 DEF Only
<1>9. Always(u)'
  <2>1. \A x \in Objects : heap'[u][x].hash <= minted[u]
    BY <1>1, <1>3 DEF Always, KeysRight
  <2> QED
    BY <1>1, <1>3, <1>4, <1>5, <2>1, AlwaysStays
<1>10. StatesRight(u)' /\ RequestsRight(u)'
  <2>1. \A s \in States : Says(u, s) => (byID'[u] # Nil => heap'[u][byID'[u]].state = s)
    BY <1>3 DEF Says
  <2>2. SwitchRight(p, u)' /\ BarredRight(p, u)' /\ DueRight(p, u)'
    BY <1>5 DEF SwitchRight, BarredRight, DueRight
  <2> QED
    BY <1>1, <1>2, <1>3, <1>4, <1>5, <2>1, <2>2, StatesStay
<1> QED
  BY <1>7, <1>8, <1>9, <1>10 DEF Keeps

LEMMA MirrorStep ==
    ASSUME AccountsInv, NEW p \in Procs, NEW u \in Ids, u = proc[p].u, Mirror(p)
    PROVE  Keeps(p, u)
<1>1. /\ Typed /\ Always(u) /\ StatesRight(u) /\ RequestsRight(u)
      /\ proc[p] # Idle /\ proc[p].pc = "mirror" /\ proc[p] \in Active /\ Stage(proc[p])
      /\ Busy(p, u) /\ minted[u] # 0 /\ minted[u] \in Nat /\ KeyRight(p, u) /\ SwitchRight(p, u)
      /\ proc \in [Procs -> Active \cup {Idle}] /\ heap \in [Ids -> [Objects -> Object]]
      /\ byHash \in [Ids -> SUBSET Hash] /\ byID \in [Ids -> Objects \cup {Nil}]
      /\ access \in [Ids -> Access] /\ latest \in [Ids -> Hash] /\ latest[u] \in Nat
  BY BusyRight DEF Mirror, Idle, AccountsInv, Typed, ProcTyped, Hash, Always, KeysRight, StatesRight
<1>2. /\ proc[p].op \in {"create", "disable", "enable", "rotate"} /\ (WithKey(p) <=> Minting(p, u))
      /\ Changes(p, u) /\ Writes(p, u) /\ p \notin due
  BY <1>1 DEF Stage, Active, Minting, WithKey, Changes, Writes, Typed, ProcTyped
<1>3. PICK o \in Objects : o = proc[p].o
  BY <1>1 DEF Stage, Active
<1>4. /\ UNCHANGED <<records, hashes, heap, minted, barred, due>>
      /\ byHash' = [byHash EXCEPT ![u] = byHash[u] \cup {heap[u][o].hash}]
      /\ byID' = [byID EXCEPT ![u] = o]
      /\ proc' = [proc EXCEPT ![p] = Idle]
      /\ Answered(p)
  BY <1>3 DEF Mirror, Leave, redis, requests
<1> DEFINE rotating == \E q \in Changing(u) \ {p} : proc[q].op = "rotate"
           quiet == u \notin crowded /\ Carrying(u) = {}
<1>5. PICK a \in Access : a = Said(p, u) /\ access' = [access EXCEPT ![u] = a]
  <2>1. access' = [access EXCEPT ![u] = Said(p, u)]
    BY <1>4 DEF Answered
  <2>2. access[u] \in Access
    BY <1>1
  <2>3. Said(p, u) \in Access
    BY <1>2, <2>2 DEF Said, Access
  <2> QED
    BY <2>1, <2>3
<1>6. PICK l \in Hash :
          /\ l = IF WithKey(p) /\ proc[p].k = minted[u] /\ ~rotating THEN proc[p].k ELSE latest[u]
          /\ latest' = [latest EXCEPT ![u] = l]
  <2>1. latest' = [latest EXCEPT ![u] = IF WithKey(p) /\ proc[p].k = minted[u] /\ ~rotating THEN proc[p].k ELSE latest[u]]
    BY <1>4 DEF Answered
  <2> HIDE DEF rotating
  <2>2. latest[u] \in Hash /\ proc[p].k \in Hash
    BY <1>1 DEF Active
  <2> QED
    BY <2>1, <2>2
<1>7. Ends(p, u) /\ crowded' \in SUBSET Ids /\ \A v \in Ids : v # u => (v \in crowded' <=> v \in crowded)
  BY <1>1, <1>4 DEF Answered, Ends, Typed
<1>8. /\ proc'[p] = Idle /\ ~Busy(p, u)' /\ ~Minting(p, u)' /\ ~Changes(p, u)' /\ ~Writes(p, u)'
      /\ \A q \in Procs : q # p => proc'[q] = proc[q]
  BY <1>1, <1>4 DEF Busy, Minting, Changes, Writes
<1>9. /\ access'[u] = a /\ latest'[u] = l /\ byID'[u] = o
      /\ \A v \in Ids : v # u => access'[v] = access[v] /\ latest'[v] = latest[v] /\ byID'[v] = byID[v]
  BY <1>1, <1>4, <1>5, <1>6
<1>10. ProcTyped'
  BY <1>1, <1>2, <1>4, <1>8 DEF Typed, ProcTyped
<1>11. Typed'
  <2>1. heap[u][o].hash \in Hash
    BY <1>1 DEF Object
  <2>2. byHash' \in [Ids -> SUBSET Hash] /\ byID' \in [Ids -> Objects \cup {Nil}]
    BY <1>1, <1>4, <2>1
  <2>3. access' \in [Ids -> Access] /\ latest' \in [Ids -> Hash]
    BY <1>1, <1>5, <1>6
  <2> QED
    BY <1>1, <1>4, <1>7, <1>10, <2>2, <2>3 DEF Typed
<1>12. Only(p, u)
  BY <1>4, <1>7, <1>8, <1>9 DEF Only
<1>13. /\ \A q \in Procs : Busy(q, u)' => Busy(q, u) /\ q # p /\ proc'[q] = proc[q]
       /\ \A q \in Procs : Minting(q, u)' => Minting(q, u) /\ q # p /\ proc'[q] = proc[q]
       /\ \A q \in Procs : Changes(q, u)' => Changes(q, u) /\ q # p /\ proc'[q] = proc[q]
       /\ \A q \in Procs : Writes(q, u)' => Writes(q, u) /\ q # p /\ proc'[q] = proc[q]
  BY <1>8 DEF Busy, Minting, Changes, Writes
<1>14. Always(u)'
  <2>1. \A x \in Objects : heap[u][x].hash <= minted[u]
    BY <1>1 DEF Always, KeysRight
  <2>2. LatestRight(u)'
    <3>1. CASE WithKey(p) /\ proc[p].k = minted[u] /\ ~rotating
      <4>1. l = proc[p].k /\ l \in hashes[u] /\ l <= minted[u]
        BY <1>1, <1>2, <1>6, <3>1 DEF KeyRight
      <4>2. \A q \in Procs : Busy(q, u)' => proc'[q].op # "rotate"
        BY <1>13, <3>1 DEF Busy, Changing, Of
      <4>3. \A q \in Procs : Minting(q, u)' => proc'[q].k # l
        BY <1>1, <1>2, <1>13, <3>1, <4>1 DEF Always, KeysRight
      <4> QED
        BY <1>4, <1>9, <4>1, <4>2, <4>3 DEF LatestRight
    <3>2. CASE ~(WithKey(p) /\ proc[p].k = minted[u] /\ ~rotating)
      <4>1. l = latest[u]
        BY <1>6, <3>2
      <4> QED
        BY <1>1, <1>4, <1>9, <1>13, <4>1 DEF Always, LatestRight
    <3> QED
      BY <3>1, <3>2
  <2>3. minted'[u] = minted[u] /\ hashes'[u] = hashes[u] /\ records'[u] = records[u] /\ heap' = heap
    BY <1>4
  <2> QED
    BY <1>1, <1>8, <2>1, <2>2, <2>3, AlwaysStays
\* What is certain stays so.
<1>15. /\ access[u] = "off" => a = "off"
       /\ access[u] = "on" => a = "on"
       /\ latest[u] # 0 => l = latest[u]
  <2>1. access[u] = "off" => proc[p].op \in {"disable", "rotate"}
    BY <1>1, <1>2 DEF StatesRight, OffRight
  <2>2. access[u] = "on" => proc[p].op \in {"create", "enable", "rotate"}
    BY <1>1, <1>2 DEF StatesRight, OnRight
  <2>3. ASSUME latest[u] # 0, WithKey(p), proc[p].k = minted[u] PROVE FALSE
    <3>1. proc[p].op = "create" /\ proc[p].k = 1 /\ Minting(p, u)
      BY <1>1, <1>2, <2>3 DEF Always, LatestRight, KeyRight, WithKey
    <3>2. latest[u] <= minted[u] /\ proc[p].k # latest[u]
      BY <1>1, <2>3, <3>1 DEF Always, LatestRight
    <3>3. latest[u] \in Nat /\ latest[u] <= 1 /\ latest[u] # 1
      BY <1>1, <2>3, <3>1, <3>2
    <3> QED
      BY <2>3, <3>3
  <2> QED
    BY <1>5, <1>6, <2>1, <2>2, <2>3 DEF Said
<1>16. BarredRight(p, u)' /\ DueRight(p, u)' /\ SwitchRight(p, u)'
  BY <1>8 DEF BarredRight, DueRight, SwitchRight
<1>17. CASE a \in {access[u], "unsure", "told"}
  <2>1. \A s \in States : Says(u, s) => (byID'[u] # Nil => heap'[u][byID'[u]].state = s)
    BY <1>2, <1>3, <1>4, <1>9 DEF Says
  <2> QED
    <3>1. StatesRight(u)' /\ RequestsRight(u)'
      BY <1>1, <1>4, <1>7, <1>8, <1>9, <1>15, <1>16, <1>17, <2>1, StatesStay
    <3> QED
      BY <1>11, <1>12, <1>14, <3>1 DEF Keeps
\* Nothing overlapped.
<1>18. CASE a \notin {access[u], "unsure", "told"}
  <2>0. PICK state \in States : state = Target(proc[p].op)
    BY DEF Target, States
  <2>1. quiet /\ proc[p].op # "rotate" /\ a = Certain(state)
    BY <1>2, <1>5, <1>18, <2>0 DEF Said, Certain, Target
  <2>2. \A q \in Procs : q # p => ~Changes(q, u)
    BY <1>1, <1>2, <2>1 DEF StatesRight, CrowdRight
  <2>3. ASSUME NEW q \in Procs, q # p PROVE ~Writes(q, u)
    <3> SUFFICES ASSUME Writes(q, u) PROVE FALSE
      OBVIOUS
    <3>1. Busy(q, u) /\ proc[q] \in Active /\ Stage(proc[q])
      BY BusyRight DEF Writes, Busy
    <3>2. proc[q].op \in {"list", "lookup"}
      BY <2>2, <2>3, <3>1 DEF Changes, Active
    <3>3. proc[q].pc \in {"merge", "fill"}
      BY <3>1, <3>2 DEF Writes, Stage
    <3> QED
      BY <2>1, <3>1, <3>3 DEF Carrying, Of, Busy
  <2>4. records[u] = state /\ heap[u][o].state = state
    BY <1>1, <1>2, <1>3, <2>0, <2>1 DEF SwitchRight
  <2>5. Says(u, state)'
    BY <1>4, <1>9, <1>13, <2>3, <2>4 DEF Says
  <2>6. \A q \in Procs : Busy(q, u)' => proc'[q].op \notin {"create", "enable", "disable"}
    BY <1>13, <2>2 DEF Changes
  <2>7. OffRight(u)' /\ OnRight(u)'
    BY <1>9, <2>1, <2>5, <2>6 DEF OffRight, OnRight, Certain, States
  <2>8. CrowdRight(u)' /\ \A q \in Procs : SwitchRight(q, u)'
    BY <1>13, <2>2 DEF CrowdRight, SwitchRight
  <2>9. RequestsRight(u)'
    BY <1>1, <1>4, <1>8, <1>9, <1>15, <1>16, RequestsStay
  <2> QED
    BY <1>11, <1>12, <1>14, <2>7, <2>8, <2>9 DEF Keeps, StatesRight
<1> QED
  BY <1>17, <1>18

LEMMA CreateStep ==
    ASSUME AccountsInv, NEW p \in Procs, NEW u \in Ids, NEW o \in Objects, Create(p, u, o)
    PROVE  Keeps(p, u)
<1>1. /\ Typed /\ Always(u) /\ Fresh(u) /\ proc[p] = Idle /\ p \notin due
      /\ minted[u] = 0 /\ 0 \in Hash /\ 1 \in Hash /\ 1 # 0
      /\ proc \in [Procs -> Active \cup {Idle}] /\ heap \in [Ids -> [Objects -> Object]]
      /\ minted \in [Ids -> Hash] /\ byID[u] = Nil
      /\ UNCHANGED <<records, hashes, byHash, byID, access, latest, barred, due>>
  BY UsersAssumption DEF Create, Free, AccountsInv, Typed, ProcTyped, Hash, Always, Fresh, redis, mirror, answers, requests
<1>2. /\ records[u] = "none" /\ latest[u] = 0 /\ access[u] = "unsure"
      /\ \A q \in Procs : ~Busy(q, u)
  BY <1>1 DEF Fresh
<1>3. PICK object \in Object : object.hash = 1 /\ object.state = "enabled" /\ object = [hash |-> 1, state |-> "enabled"]
  BY <1>1 DEF Object, States
<1>4. /\ minted' = [minted EXCEPT ![u] = 1]
      /\ o \in Unused(u) /\ New(u, o, object)
      /\ proc' = [proc EXCEPT ![p] = [At("exec", "create", u, 1) EXCEPT !.o = o, !.hash = 1]]
      /\ crowded' \in SUBSET Ids /\ \A v \in Ids : v # u => (v \in crowded' <=> v \in crowded)
  BY <1>1, <1>3 DEF Create, New, Begins, Typed
<1>5. PICK r \in Active :
          /\ r = [At("exec", "create", u, 1) EXCEPT !.o = o, !.hash = 1]
          /\ r.pc = "exec" /\ r.op = "create" /\ r.u = u /\ r.k = 1 /\ r.o = o /\ r.hash = 1 /\ r.buf = "enabled"
  <2>1. PICK a \in Active : a = At("exec", "create", u, 1)
    BY <1>1, AtActive
  <2>2. a.pc = "exec" /\ a.op = "create" /\ a.u = u /\ a.k = 1 /\ a.buf = "enabled"
    BY <2>1 DEF At
  <2>3. PICK b \in Active : b = [a EXCEPT !.o = o, !.hash = 1]
    BY <1>1 DEF Active
  <2>4. b.pc = a.pc /\ b.op = a.op /\ b.u = a.u /\ b.k = a.k /\ b.buf = a.buf /\ b.o = o /\ b.hash = 1
    BY <1>1, <2>3 DEF Active
  <2> QED
    BY <2>1, <2>2, <2>3, <2>4
<1>6. Stage(r) /\ r # Idle /\ o # Nil
  BY <1>5, UsersAssumption DEF Stage, Idle, Active
<1>7. /\ proc'[p] = r /\ Busy(p, u)' /\ Minting(p, u)'
      /\ \A q \in Procs : q # p => proc'[q] = proc[q]
  BY <1>1, <1>4, <1>5, <1>6 DEF Busy, Minting
<1>8. ProcTyped'
  BY <1>1, <1>4, <1>5, <1>6, <1>7 DEF Typed, ProcTyped
<1>9. heap' \in [Ids -> [Objects -> Object]]
  BY <1>4, NewObject
<1>10. /\ \A v \in Ids : v # u => heap'[v] = heap[v]
       /\ heap'[u][o] = object
  BY <1>4, NewObject
<1>11. \A x \in Objects : heap'[u][x] = heap[u][x] \/ heap'[u][x] = object
  BY <1>4, NewObject
<1>12. minted' \in [Ids -> Hash] /\ minted'[u] = 1 /\ \A v \in Ids : v # u => minted'[v] = minted[v]
  BY <1>1, <1>4
<1>13. Typed'
  BY <1>1, <1>4, <1>8, <1>9, <1>12 DEF Typed
<1>14. Only(p, u)
  BY <1>1, <1>4, <1>5, <1>7, <1>10, <1>12 DEF Only
<1>15. \A q \in Procs : Busy(q, u)' <=> q = p
  BY <1>2, <1>7 DEF Busy
<1>16. Always(u)'
  <2>1. Fresh(u)' /\ LatestRight(u)'
    BY <1>1, <1>2, <1>12 DEF Fresh, LatestRight
  <2>2. Recorded(u)'
    BY <1>1, <1>5, <1>7, <1>15 DEF Always, Recorded
  <2>3. \A x \in Objects : heap'[u][x].hash <= 1
    <3>1. \A x \in Objects : heap[u][x] \in Object
      BY <1>1
    <3>2. \A x \in Objects : heap[u][x].hash <= 0 /\ heap[u][x].hash \in Nat
      BY <1>1, <3>1 DEF Always, KeysRight, Object, Hash
    <3> QED
      BY <1>3, <1>11, <3>2
  <2>4. \A q \in Procs : Minting(q, u)' => q = p
    BY <1>15 DEF Minting
  <2>5. KeyRight(p, u)'
    BY <1>5, <1>7, <1>12 DEF KeyRight
  <2>6. \A q \in Procs : KeyRight(q, u)'
    BY <2>4, <2>5 DEF KeyRight
  <2>7. KeysRight(u)'
    BY <1>12, <2>3, <2>4, <2>6 DEF KeysRight
  <2> QED
    BY <2>1, <2>2, <2>7 DEF Always
<1>17. StatesRight(u)' /\ RequestsRight(u)'
  <2>1. OffRight(u)' /\ OnRight(u)'
    BY <1>1, <1>2 DEF OffRight, OnRight
  <2>2. CrowdRight(u)'
    BY <1>15 DEF CrowdRight, Changes
  <2>3. SwitchRight(p, u)'
    BY <1>3, <1>5, <1>7, <1>10 DEF SwitchRight, Target
  <2>4. \A q \in Procs : SwitchRight(q, u)'
    BY <1>15, <2>3 DEF SwitchRight, Changes
  <2>5. \A q \in Procs : BarredRight(q, u)' /\ DueRight(q, u)'
    BY <1>5, <1>7, <1>15 DEF BarredRight, DueRight
  <2> QED
    BY <2>1, <2>2, <2>4, <2>5 DEF StatesRight, RequestsRight
<1> QED
  BY <1>13, <1>14, <1>16, <1>17 DEF Keeps

\* Whatever a restart ends, what Redis has goes on.
LEMMA RestartStep ==
    ASSUME AccountsInv, Restart
    PROVE  AccountsInv'
<1>1. /\ byHash' = [u \in Ids |-> {}] /\ byID' = [u \in Ids |-> Nil] /\ proc' = [p \in Procs |-> Idle]
      /\ heap' = [u \in Ids |-> [o \in Objects |-> [hash |-> 0, state |-> "enabled"]]]
      /\ crowded' = {} /\ barred' = {} /\ due' = {}
      /\ UNCHANGED <<records, hashes, minted, access, latest>>
  BY DEF Restart, redis, answers
<1>2. 0 \in Hash /\ [hash |-> 0, state |-> "enabled"] \in Object
  BY UsersAssumption DEF Hash, Object, States
<1>3. Typed'
  <2>1. heap' \in [Ids -> [Objects -> Object]]
    BY <1>1, <1>2
  <2>2. ProcTyped'
    BY <1>1 DEF ProcTyped
  <2>3. byHash' \in [Ids -> SUBSET Hash] /\ byID' \in [Ids -> Objects \cup {Nil}]
    BY <1>1
  <2> QED
    BY <1>1, <2>1, <2>2, <2>3 DEF AccountsInv, Typed
<1>4. \A p \in Procs, u \in Ids : ~Busy(p, u)'
  BY <1>1 DEF Busy
<1>5. \A p \in Procs, u \in Ids : ~Minting(p, u)' /\ ~Changes(p, u)' /\ ~Writes(p, u)'
  BY <1>4 DEF Minting, Changes, Writes
<1>6. ASSUME NEW u \in Ids PROVE Always(u)' /\ StatesRight(u)' /\ RequestsRight(u)'
  <2>1. Always(u) /\ StatesRight(u) /\ byID'[u] = Nil /\ \A o \in Objects : heap'[u][o].hash = 0
    BY <1>1 DEF AccountsInv
  <2>2. minted[u] \in Nat
    BY DEF AccountsInv, Typed, Hash
  <2>3. Fresh(u)' /\ Recorded(u)'
    BY <1>1, <1>4, <2>1 DEF Always, Fresh, Recorded
  <2>4. KeysRight(u)'
    BY <1>1, <1>5, <2>1, <2>2 DEF KeysRight, KeyRight
  <2>5. LatestRight(u)'
    BY <1>1, <1>4, <1>5, <2>1 DEF Always, LatestRight
  <2>6. OffRight(u)' /\ OnRight(u)'
    BY <1>1, <1>4, <1>5, <2>1 DEF StatesRight, OffRight, OnRight, Says
  <2>7. CrowdRight(u)' /\ \A p \in Procs : SwitchRight(p, u)' /\ BarredRight(p, u)' /\ DueRight(p, u)'
    BY <1>4, <1>5 DEF CrowdRight, SwitchRight, BarredRight, DueRight
  <2> QED
    BY <2>3, <2>4, <2>5, <2>6, <2>7 DEF Always, StatesRight, RequestsRight
<1> QED
  BY <1>3, <1>6 DEF AccountsInv

\* Nothing changes.
LEMMA StutterStep ==
    ASSUME AccountsInv, UNCHANGED vars
    PROVE  AccountsInv'
<1>1. /\ records' = records /\ hashes' = hashes /\ heap' = heap /\ byHash' = byHash /\ byID' = byID /\ proc' = proc
      /\ minted' = minted /\ access' = access /\ crowded' = crowded /\ barred' = barred /\ due' = due /\ latest' = latest
  BY DEF vars
<1>2. Typed'
  BY <1>1 DEF AccountsInv, Typed, ProcTyped
<1>3. ASSUME NEW u \in Ids PROVE Always(u)' /\ StatesRight(u)' /\ RequestsRight(u)'
  <2>1. Always(u)'
    BY <1>1 DEF AccountsInv, Always, Fresh, Recorded, KeysRight, KeyRight, LatestRight, Minting, Busy
  <2>2. CrowdRight(u)' /\ OffRight(u)' /\ OnRight(u)'
    BY <1>1 DEF AccountsInv, StatesRight, CrowdRight, OffRight, OnRight, Says, Writes, Changes, Busy
  <2>3. \A p \in Procs : SwitchRight(p, u)'
    BY <1>1 DEF AccountsInv, StatesRight, SwitchRight, Changes, Busy
  <2>4. RequestsRight(u)'
    BY <1>1 DEF AccountsInv, RequestsRight, BarredRight, DueRight, Busy
  <2> QED
    BY <2>1, <2>2, <2>3, <2>4 DEF StatesRight
<1> QED
  BY <1>2, <1>3 DEF AccountsInv

\* Every step of the specification.
LEMMA UsersStep ==
    ASSUME AccountsInv, [Next]_vars
    PROVE  AccountsInv'
<1>1. CASE UNCHANGED vars
  BY <1>1, StutterStep
<1>2. CASE Restart
  BY <1>2, RestartStep
<1>3. ASSUME NEW p \in Procs, NEW u \in Ids, Keeps(p, u) PROVE AccountsInv'
  BY <1>3, KeepsAll
<1>4. ASSUME NEW p \in Procs, NEW u \in Ids,
             \/ \E o \in Objects : Create(p, u, o)
             \/ Disable(p, u) \/ Enable(p, u) \/ Rotate(p, u) \/ List(p, u)
             \/ \E k \in 1..MaxKeys : Lookup(p, u, k)
      PROVE  Keeps(p, u)
  BY <1>4, CreateStep, ChangeStep, ListStep, LookupStep
<1>5. ASSUME NEW p \in Procs,
             \/ Switch(p) \/ Mint(p) \/ Del(p) \/ Exec(p) \/ ExecFails(p) \/ Mirror(p) \/ Merge(p)
             \/ Ask(p) \/ Unreachable(p) \/ Load(p) \/ Fill(p) \/ Check(p) \/ Done(p)
      PROVE  \E u \in Ids : Keeps(p, u)
  <2>1. proc[p] # Idle
    <3>1. Switch(p) \/ Mint(p) \/ Del(p) \/ Exec(p) => proc[p].pc \in {"change", "del", "exec"}
      BY DEF Switch, Mint, Del, Exec
    <3>2. ExecFails(p) \/ Mirror(p) \/ Merge(p) => proc[p].pc \in {"exec", "mirror", "merge"}
      BY DEF ExecFails, Mirror, Merge
    <3>3. Ask(p) \/ Unreachable(p) \/ Load(p) => proc[p].pc \in {"ask", "load"}
      BY DEF Ask, Unreachable, Load
    <3>4. Fill(p) \/ Check(p) \/ Done(p) => proc[p].pc \in {"fill", "check", "answered"}
      BY DEF Fill, Check, Done
    <3> QED
      BY <1>5, <3>1, <3>2, <3>3, <3>4 DEF Idle
  <2>2. PICK u \in Ids : u = proc[p].u
    BY <2>1, BusyRight
  <2> QED
    BY <1>5, <2>2, SwitchStep, MintStep, DelStep, ExecStep, ExecFailsStep, DoneStep, MirrorStep, AskStep,
       UnreachableStep, LoadStep, FillStep, CheckStep
<1> QED
  BY <1>1, <1>2, <1>3, <1>4, <1>5 DEF Next

LEMMA UsersInit == Init => AccountsInv
<1> SUFFICES ASSUME Init PROVE AccountsInv
  OBVIOUS
<1>1. 0 \in Hash /\ [hash |-> 0, state |-> "enabled"] \in Object
  BY UsersAssumption DEF Hash, Object, States
<1>2. Typed
  <2>1. heap \in [Ids -> [Objects -> Object]]
    BY <1>1 DEF Init
  <2> QED
    BY <1>1, <2>1 DEF Init, Typed, ProcTyped, Access
<1>3. ASSUME NEW u \in Ids PROVE Always(u) /\ StatesRight(u) /\ RequestsRight(u)
  <2>1. \A p \in Procs : ~Busy(p, u)
    BY DEF Init, Busy
  <2>2. \A o \in Objects : heap[u][o].hash = 0
    BY DEF Init
  <2>3. Fresh(u) /\ Recorded(u) /\ LatestRight(u)
    BY <2>1 DEF Init, Fresh, Recorded, LatestRight, Minting
  <2>4. KeysRight(u)
    BY <2>1, <2>2 DEF Init, KeysRight, KeyRight, Minting
  <2>5. StatesRight(u) /\ RequestsRight(u)
    BY <2>1 DEF Init, StatesRight, CrowdRight, OffRight, OnRight, SwitchRight, Changes, RequestsRight, BarredRight, DueRight
  <2> QED
    BY <2>3, <2>4, <2>5 DEF Always
<1> QED
  BY <1>2, <1>3 DEF AccountsInv

LEMMA UsersInvariant == Spec => []AccountsInv
  BY UsersInit, UsersStep, PTL DEF Spec

\* Types, and that a hash in Redis always leads to a record (the transaction of
\* persist writes both), whatever overlaps and whatever fails.
THEOREM AccountTypes == Spec => []TypeOK
<1>1. AccountsInv => TypeOK
  BY DEF AccountsInv, Typed, TypeOK, Always, Recorded
<1> QED
  BY <1>1, UsersInvariant, PTL

\* A user whom Disable switched off, with no other change of the user open meanwhile
\* and no record read before on its way to the mirror, is refused until an Enable
\* begins: whatever lookups, listings, rotations, failed updates and restarts come
\* between or overlap one another, for any number of them.
THEOREM DisabledAreRefused == Spec => []DisabledRefused
<1>1. AccountsInv => DisabledRefused
  <2> SUFFICES ASSUME AccountsInv, NEW p \in Answers \cap barred, proc[p].sure, proc[p].answer = "accepted" PROVE FALSE
    BY DEF DisabledRefused
  <2>1. p \in Procs /\ proc[p] # Idle /\ proc[p].pc = "answered"
    BY DEF Answers, Idle
  <2>2. proc[p].u \in Ids /\ Busy(p, proc[p].u) /\ proc[p].op = "lookup"
    BY <2>1, BusyRight DEF Stage, Active
  <2>3. BarredRight(p, proc[p].u)
    BY <2>1, <2>2 DEF AccountsInv, RequestsRight
  <2> QED
    BY <2>1, <2>2, <2>3 DEF BarredRight
<1> QED
  BY <1>1, UsersInvariant, PTL

\* The key that Create or RotateKey returned last is not refused while the user is
\* certainly enabled, until a Disable or a Rotate begins: through restarts, failed
\* updates and listings, and whatever overlapped before.
THEOREM CurrentKeysWork == Spec => []CurrentKeyWorks
<1>1. AccountsInv => CurrentKeyWorks
  <2> SUFFICES ASSUME AccountsInv, NEW p \in Answers \cap due, proc[p].answer = "refused" PROVE FALSE
    BY DEF CurrentKeyWorks
  <2>1. p \in Procs /\ proc[p] # Idle /\ proc[p].pc = "answered"
    BY DEF Answers, Idle
  <2>2. proc[p].u \in Ids /\ Busy(p, proc[p].u) /\ proc[p].op = "lookup"
    BY <2>1, BusyRight DEF Stage, Active
  <2>3. DueRight(p, proc[p].u)
    BY <2>1, <2>2 DEF AccountsInv, RequestsRight
  <2> QED
    BY <2>1, <2>2, <2>3 DEF DueRight
<1> QED
  BY <1>1, UsersInvariant, PTL

-----------------------------------------------------------------------------
(* The pools of provider keys: types, the positions of the keys, the        *)
(* duplicate check and the pools of the boot.                               *)

\* A key's index is its position, counted from zero.
Positions(pool) == \A i \in DOMAIN pool : pool[i].index = i - 1

\* No key at a position after n is also at an earlier one.
OnceAfter(pool, n) ==
    \A i, j \in DOMAIN pool : i < j /\ pool[i].key = pool[j].key => j <= n

\* The pools of the boot are there, and no call is about to replace one.
BootPools ==
    /\ \A p \in Known : Registered(System, p)
    /\ \A c \in Callers :
          call[c].pc = "register" => ~(call[c].t = System /\ call[c].p \in Known)

\* The lists of keys that may become a pool of t and p.
Given(t, p) ==
    IF t = System /\ p \in Known THEN {Env[p]}
    ELSE IF t = System THEN Seq(Keys) ELSE {<<k>> : k \in Keys}

\* What a step may make of the pools of t and p: the n-th is as it was, has a
\* key more, or is new.
Kept(t, p, n) ==
    /\ n \in DOMAIN gens[t][p]
    /\ gens'[t][p][n] = gens[t][p][n]
Grown(t, p, n) ==
    /\ n \in DOMAIN gens[t][p]
    /\ \E k \in Keys : ~Has(gens[t][p][n], k) /\ gens'[t][p][n] = With(gens[t][p][n], k)
NewPool(t, p, n) == \E keys \in Given(t, p) \cap Seq(Keys) : gens'[t][p][n] = Listed(keys)

\* A list becomes a pool with the list's keys, each at its position.
LEMMA ListedIsPool ==
    ASSUME NEW keys \in Seq(Keys)
    PROVE  /\ Listed(keys) \in Pool
           /\ Positions(Listed(keys))
           /\ DOMAIN Listed(keys) = DOMAIN keys
           /\ \A i \in DOMAIN keys : Listed(keys)[i].key = keys[i]
<1>1. /\ DOMAIN keys = 1..Len(keys)
      /\ Len(keys) \in Nat
      /\ \A i \in DOMAIN keys : keys[i] \in Keys
  OBVIOUS
<1>2. Listed(keys) = [i \in 1..Len(keys) |-> [key |-> keys[i], index |-> i - 1]]
  BY <1>1 DEF Listed
<1>3. \A i \in 1..Len(keys) : [key |-> keys[i], index |-> i - 1] \in KeyInfo
  BY <1>1 DEF KeyInfo
<1>4. Listed(keys) \in [1..Len(keys) -> KeyInfo]
  BY <1>2, <1>3
<1>5. Listed(keys) \in Pool
  BY <1>1, <1>4 DEF Pool
<1>6. Positions(Listed(keys))
  BY <1>1, <1>2 DEF Positions
<1> QED
  BY <1>1, <1>2, <1>5, <1>6

\* A key more: the pool stays a pool, positions stay right, the keys that were
\* there stay, and no duplicate appears.
LEMMA WithIsPool ==
    ASSUME NEW pool \in Pool, NEW k \in Keys
    PROVE  /\ With(pool, k) \in Pool
           /\ Positions(pool) => Positions(With(pool, k))
           /\ Has(With(pool, k), k)
           /\ \A x \in Keys : Has(pool, x) => Has(With(pool, k), x)
           /\ \A n \in Nat : ~Has(pool, k) /\ OnceAfter(pool, n) => OnceAfter(With(pool, k), n)
<1> DEFINE new == [key |-> k, index |-> Len(pool)]
<1>1. new \in KeyInfo /\ pool \in Seq(KeyInfo)
  BY DEF KeyInfo, Pool
<1>2. /\ Append(pool, new) \in Seq(KeyInfo)
      /\ Len(Append(pool, new)) = Len(pool) + 1
      /\ \A i \in 1..Len(pool) : Append(pool, new)[i] = pool[i]
      /\ Append(pool, new)[Len(pool) + 1] = new
  BY <1>1
<1>3. With(pool, k) = Append(pool, new)
  BY DEF With
<1>4. DOMAIN pool = 1..Len(pool) /\ DOMAIN With(pool, k) = 1..(Len(pool) + 1) /\ Len(pool) \in Nat
  BY <1>1, <1>2, <1>3
<1>5. new.key = k /\ new.index = Len(pool)
  OBVIOUS
<1> HIDE DEF new
<1>6. With(pool, k) \in Pool
  BY <1>2, <1>3 DEF Pool
<1>7. Positions(pool) => Positions(With(pool, k))
  BY <1>2, <1>3, <1>4, <1>5 DEF Positions
<1>8. Has(With(pool, k), k)
  BY <1>2, <1>3, <1>4, <1>5 DEF Has
<1>9. \A x \in Keys : Has(pool, x) => Has(With(pool, k), x)
  BY <1>2, <1>3, <1>4 DEF Has
<1>10. \A n \in Nat : ~Has(pool, k) /\ OnceAfter(pool, n) => OnceAfter(With(pool, k), n)
  BY <1>2, <1>3, <1>4, <1>5 DEF Has, OnceAfter
<1> QED BY <1>6, <1>7, <1>8, <1>9, <1>10

\* A call goes on to another step.
LEMMA AddingChanged ==
    ASSUME NEW a \in Adding, NEW x \in {"read", "register", "append"}, NEW m \in Nat
    PROVE  [a EXCEPT !.pc = x, !.n = m] \in Adding
BY DEF Adding

\* A pool more for t and p.
LEMMA NewPoolEffect ==
    ASSUME PoolsTypeOK, NEW t \in Tenants, NEW p \in Providers,
           NEW keys \in Given(t, p) \cap Seq(Keys),
           gens' = [gens EXCEPT ![t][p] = Append(@, Listed(keys))]
    PROVE  /\ gens' \in [Tenants -> [Providers -> Seq(Pool)]]
           /\ \A x \in Tenants, y \in Providers :
                 /\ <<x, y>> # <<t, p>> => gens'[x][y] = gens[x][y]
                 /\ DOMAIN gens[x][y] \subseteq DOMAIN gens'[x][y]
                 /\ \A n \in DOMAIN gens'[x][y] : Kept(x, y, n) \/ NewPool(x, y, n)
<1> DEFINE old == gens[t][p]
           new == Append(old, Listed(keys))
<1>1. gens \in [Tenants -> [Providers -> Seq(Pool)]] /\ old \in Seq(Pool)
  BY DEF PoolsTypeOK
<1>2. Listed(keys) \in Pool
  BY ListedIsPool
<1>3. /\ new \in Seq(Pool)
      /\ DOMAIN old = 1..Len(old) /\ Len(old) \in Nat
      /\ DOMAIN new = 1..(Len(old) + 1)
      /\ \A n \in 1..Len(old) : new[n] = old[n]
      /\ new[Len(old) + 1] = Listed(keys)
  BY <1>1, <1>2
<1>4. /\ gens'[t][p] = new
      /\ \A x \in Tenants, y \in Providers : <<x, y>> # <<t, p>> => gens'[x][y] = gens[x][y]
  BY <1>1
<1> HIDE DEF new
<1>5. gens' = [gens EXCEPT ![t] = [gens[t] EXCEPT ![p] = new]]
  BY <1>1 DEF new
<1>6. gens' \in [Tenants -> [Providers -> Seq(Pool)]]
  BY <1>1, <1>3, <1>5
<1>7. ASSUME NEW n \in DOMAIN new PROVE Kept(t, p, n) \/ NewPool(t, p, n)
  BY <1>3, <1>4 DEF Kept, NewPool
<1>8. ASSUME NEW x \in Tenants, NEW y \in Providers, <<x, y>> # <<t, p>>, NEW n \in DOMAIN gens'[x][y]
      PROVE  Kept(x, y, n)
  BY <1>4, <1>8 DEF Kept
<1>9. ASSUME NEW x \in Tenants, NEW y \in Providers
      PROVE  DOMAIN gens[x][y] \subseteq DOMAIN gens'[x][y]
  BY <1>3, <1>4
<1> QED
  BY <1>4, <1>6, <1>7, <1>8, <1>9

\* A key more in the m-th pool of t and p.
LEMMA NewKeyEffect ==
    ASSUME PoolsTypeOK, NEW t \in Tenants, NEW p \in Providers, NEW k \in Keys,
           NEW m \in DOMAIN gens[t][p],
           ~Has(gens[t][p][m], k),
           gens' = [gens EXCEPT ![t][p][m] = With(@, k)]
    PROVE  /\ gens' \in [Tenants -> [Providers -> Seq(Pool)]]
           /\ \A x \in Tenants, y \in Providers :
                 /\ DOMAIN gens[x][y] = DOMAIN gens'[x][y]
                 /\ \A n \in DOMAIN gens'[x][y] : Kept(x, y, n) \/ Grown(x, y, n)
<1> DEFINE old == gens[t][p]
           new == [old EXCEPT ![m] = With(@, k)]
<1>1. gens \in [Tenants -> [Providers -> Seq(Pool)]] /\ old \in Seq(Pool)
  BY DEF PoolsTypeOK
<1>2. old[m] \in Pool /\ With(old[m], k) \in Pool
  BY <1>1, WithIsPool
<1>3. /\ new \in Seq(Pool)
      /\ DOMAIN new = DOMAIN old
      /\ \A n \in DOMAIN old : n # m => new[n] = old[n]
      /\ new[m] = With(old[m], k)
  BY <1>1, <1>2
<1>4. gens' = [gens EXCEPT ![t] = [gens[t] EXCEPT ![p] = new]]
  BY <1>1
<1> HIDE DEF new
<1>5. /\ gens'[t][p] = new
      /\ \A x \in Tenants, y \in Providers : <<x, y>> # <<t, p>> => gens'[x][y] = gens[x][y]
  BY <1>1, <1>4
<1>6. gens' \in [Tenants -> [Providers -> Seq(Pool)]]
  BY <1>1, <1>3, <1>4
<1>7. ASSUME NEW n \in DOMAIN new PROVE Kept(t, p, n) \/ Grown(t, p, n)
  BY <1>3, <1>5 DEF Kept, Grown
<1>8. ASSUME NEW x \in Tenants, NEW y \in Providers, <<x, y>> # <<t, p>>, NEW n \in DOMAIN gens'[x][y]
      PROVE  Kept(x, y, n)
  BY <1>5, <1>8 DEF Kept
<1>9. ASSUME NEW x \in Tenants, NEW y \in Providers
      PROVE  DOMAIN gens[x][y] = DOMAIN gens'[x][y]
  BY <1>3, <1>5
<1> QED
  BY <1>5, <1>6, <1>7, <1>8, <1>9

\* The start of the process.
LEMMA BootedPools ==
    /\ Booted \in [Tenants -> [Providers -> Seq(Pool)]]
    /\ \A t \in Tenants, p \in Providers : \A n \in DOMAIN Booted[t][p] :
          \E keys \in Given(t, p) \cap Seq(Keys) : Booted[t][p][n] = Listed(keys)
    /\ \A p \in Known : Booted[System][p] # <<>>
<1> USE KeyPoolsAssumption
<1>1. ASSUME NEW p \in Known PROVE Env[p] \in Seq(Keys) /\ Listed(Env[p]) \in Pool
  BY ListedIsPool
<1>2. ASSUME NEW t \in Tenants, NEW p \in Providers
      PROVE  /\ Booted[t][p] \in Seq(Pool)
             /\ \A n \in DOMAIN Booted[t][p] :
                   \E keys \in Given(t, p) \cap Seq(Keys) : Booted[t][p][n] = Listed(keys)
  <2>1. CASE t = System /\ p \in Known
    <3>1. Booted[t][p] = <<Listed(Env[p])>>
      BY <2>1 DEF Booted
    <3>2. DOMAIN Booted[t][p] = {1} /\ Booted[t][p][1] = Listed(Env[p])
      BY <3>1
    <3> QED BY <1>1, <2>1, <3>1, <3>2 DEF Given
  <2>2. CASE ~(t = System /\ p \in Known)
    <3>1. Booted[t][p] = <<>>
      BY <2>2 DEF Booted
    <3> QED BY <3>1
  <2> QED BY <2>1, <2>2
<1>3. \A p \in Known : Booted[System][p] # <<>>
  BY DEF Booted
<1>4. Booted \in [Tenants -> [Providers -> Seq(Pool)]]
  <2>1. Booted = [t \in Tenants |-> [p \in Providers |-> Booted[t][p]]]
    BY Zenon DEF Booted
  <2> HIDE DEF Booted
  <2> QED BY <1>2, <2>1
<1> QED BY <1>2, <1>3, <1>4

PoolsInv == PoolsTypeOK /\ BootPools

\* What every step does to the pools, and that it keeps the types and the boot
\* pools.
LEMMA PoolsStep ==
    ASSUME PoolsInv, [PoolsNext]_pools
    PROVE  /\ PoolsInv'
           /\ \A t \in Tenants, p \in Providers : \A n \in DOMAIN gens'[t][p] :
                 Kept(t, p, n) \/ Grown(t, p, n) \/ NewPool(t, p, n)
           /\ \/ Reboot
              \/ \A p \in Known :
                    /\ DOMAIN gens'[System][p] = DOMAIN gens[System][p]
                    /\ \A n \in DOMAIN gens[System][p] : Kept(System, p, n) \/ Grown(System, p, n)
<1> USE KeyPoolsAssumption
<1> DEFINE Pools == \A t \in Tenants, p \in Providers : \A n \in DOMAIN gens'[t][p] :
                        Kept(t, p, n) \/ Grown(t, p, n) \/ NewPool(t, p, n)
           Boot == \A p \in Known :
                      /\ DOMAIN gens'[System][p] = DOMAIN gens[System][p]
                      /\ \A n \in DOMAIN gens[System][p] : Kept(System, p, n) \/ Grown(System, p, n)
<1>a. PoolsTypeOK /\ BootPools
  BY DEF PoolsInv
<1>1. ASSUME Reboot PROVE PoolsInv' /\ Pools
  <2>1. Pools
    BY <1>1, BootedPools DEF Reboot, NewPool
  <2>2. PoolsTypeOK'
    BY <1>1, <1>a, BootedPools DEF Reboot, PoolsTypeOK, NoCall
  <2>3. BootPools'
    BY <1>1, BootedPools DEF Reboot, BootPools, Registered, NoCall
  <2> QED BY <2>1, <2>2, <2>3 DEF PoolsInv
<1>same. ASSUME gens' = gens PROVE Pools /\ Boot
  BY <1>same DEF Kept
<1>2. ASSUME NEW p \in Providers, ReloadPool(p) PROVE PoolsInv' /\ Pools /\ Boot
  <2>1. p \notin Known /\ todo[p] \in Given(System, p) \cap Seq(Keys)
    BY <1>2, <1>a DEF ReloadPool, BootPools, PoolsTypeOK, Given
  <2>2. gens' = [gens EXCEPT ![System][p] = Append(@, Listed(todo[p]))]
    BY <1>2 DEF ReloadPool
  <2>3. /\ gens' \in [Tenants -> [Providers -> Seq(Pool)]]
        /\ \A x \in Tenants, y \in Providers :
                 /\ <<x, y>> # <<System, p>> => gens'[x][y] = gens[x][y]
                 /\ DOMAIN gens[x][y] \subseteq DOMAIN gens'[x][y]
                 /\ \A n \in DOMAIN gens'[x][y] : Kept(x, y, n) \/ NewPool(x, y, n)
    BY <2>1, <2>2, <1>a, NewPoolEffect
  <2>4. PoolsTypeOK'
    BY <1>2, <1>a, <2>3 DEF ReloadPool, PoolsTypeOK, Adding
  <2>5. BootPools'
    BY <1>2, <1>a, <2>1, <2>3 DEF ReloadPool, BootPools, Registered
  <2>6. Boot
    BY <2>1, <2>3 DEF Kept
  <2> QED BY <2>3, <2>4, <2>5, <2>6 DEF PoolsInv
<1>3. ASSUME NEW p \in Providers, ReloadKey(p) PROVE PoolsInv' /\ Pools /\ Boot
  <2> DEFINE k == Head(todo[p])
             m == Len(gens[System][p])
  <2>1. /\ k \in Keys /\ Tail(todo[p]) \in Seq(Keys)
        /\ m \in DOMAIN gens[System][p]
    BY <1>3, <1>a DEF ReloadKey, Registered, PoolsTypeOK
  <2>2. CASE Holds(System, p, k)
    <3>1. gens' = gens
      BY <1>3, <2>2 DEF ReloadKey
    <3>2. PoolsTypeOK'
      BY <1>3, <1>a, <2>1, <3>1 DEF ReloadKey, PoolsTypeOK
    <3>3. BootPools'
      BY <1>3, <1>a, <3>1 DEF ReloadKey, BootPools, Registered
    <3> QED BY <1>same, <3>1, <3>2, <3>3 DEF PoolsInv
  <2>3. CASE ~Holds(System, p, k)
    <3>1. ~Has(gens[System][p][m], k)
      BY <1>3, <2>3 DEF ReloadKey, Holds, Current
    <3>2. gens' = [gens EXCEPT ![System][p][m] = With(@, k)]
      BY <1>3, <2>3 DEF ReloadKey
    <3>3. /\ gens' \in [Tenants -> [Providers -> Seq(Pool)]]
          /\ \A x \in Tenants, y \in Providers :
                 /\ DOMAIN gens[x][y] = DOMAIN gens'[x][y]
                 /\ \A n \in DOMAIN gens'[x][y] : Kept(x, y, n) \/ Grown(x, y, n)
      <4> HIDE DEF k, m
      <4> QED BY <2>1, <3>1, <3>2, <1>a, NewKeyEffect
    <3>4. PoolsTypeOK'
      BY <1>3, <1>a, <2>1, <3>3 DEF ReloadKey, PoolsTypeOK, Adding
    <3>5. BootPools'
      <4>1. \A y \in Known : gens[System][y] # <<>> => gens'[System][y] # <<>>
        BY <1>a, <3>3 DEF PoolsTypeOK
      <4> QED BY <1>3, <1>a, <4>1 DEF ReloadKey, BootPools, Registered
    <3>6. Pools /\ Boot
      BY <3>3
    <3> QED BY <3>4, <3>5, <3>6 DEF PoolsInv
  <2> QED BY <2>2, <2>3
<1>4. ASSUME NEW c \in Callers, NEW t \in Tenants, NEW p \in Providers, NEW k \in Keys, AddKey(c, t, p, k)
      PROVE  PoolsInv' /\ Pools /\ Boot
  <2> DEFINE r == [pc |-> IF \E q \in Providers : Registered(t, q) THEN "read" ELSE "register",
                   t |-> t, p |-> p, k |-> k, n |-> 0]
  <2>1. r \in Adding /\ r.pc # "append"
    BY DEF Adding
  <2>2. r.pc = "register" => ~(r.t = System /\ r.p \in Known)
    BY <1>a DEF BootPools
  <2>3. /\ gens' = gens /\ todo' = todo
        /\ call' = [call EXCEPT ![c] = r]
    BY <1>4 DEF AddKey
  <2> HIDE DEF r
  <2>4. PoolsTypeOK'
    BY <1>a, <2>1, <2>3 DEF PoolsTypeOK
  <2>5. BootPools'
    BY <1>a, <2>2, <2>3 DEF BootPools, PoolsTypeOK, Registered
  <2> QED BY <1>same, <2>3, <2>4, <2>5 DEF PoolsInv
<1>5. ASSUME NEW c \in Callers, Read(c) PROVE PoolsInv' /\ Pools /\ Boot
  <2> DEFINE r == [call[c] EXCEPT
                     !.pc = IF Registered(call[c].t, call[c].p) THEN "append" ELSE "register",
                     !.n = Len(gens[call[c].t][call[c].p])]
  <2>1. call[c] \in Adding
    BY <1>5, <1>a DEF Read, PoolsTypeOK, NoCall
  <2>2. gens[call[c].t][call[c].p] \in Seq(Pool)
    BY <2>1, <1>a DEF PoolsTypeOK, Adding
  <2>3. /\ r \in Adding
        /\ r.t = call[c].t /\ r.p = call[c].p
        /\ r.pc = "append" => r.n \in DOMAIN gens[r.t][r.p]
        /\ r.pc = "register" => ~Registered(r.t, r.p)
    <3>1. CASE Registered(call[c].t, call[c].p)
      <4>1. r = [call[c] EXCEPT !.pc = "append", !.n = Len(gens[call[c].t][call[c].p])]
        BY <3>1
      <4>2. Len(gens[call[c].t][call[c].p]) \in DOMAIN gens[call[c].t][call[c].p]
        BY <2>2, <3>1 DEF Registered
      <4>3. /\ r.pc = "append" /\ r.t = call[c].t /\ r.p = call[c].p
            /\ r.n = Len(gens[call[c].t][call[c].p])
        BY <2>1, <4>1 DEF Adding
      <4>4. r \in Adding
        <5>1. Len(gens[call[c].t][call[c].p]) \in Nat
          BY <2>2
        <5> QED BY <2>1, <4>1, <5>1, AddingChanged
      <4> HIDE DEF r
      <4> QED BY <4>2, <4>3, <4>4
    <3>2. CASE ~Registered(call[c].t, call[c].p)
      <4>1. r = [call[c] EXCEPT !.pc = "register", !.n = Len(gens[call[c].t][call[c].p])]
        BY <3>2
      <4>3. r.pc = "register" /\ r.t = call[c].t /\ r.p = call[c].p
        BY <2>1, <4>1 DEF Adding
      <4>4. r \in Adding
        <5>1. Len(gens[call[c].t][call[c].p]) \in Nat
          BY <2>2
        <5> QED BY <2>1, <4>1, <5>1, AddingChanged
      <4> HIDE DEF r
      <4> QED BY <3>2, <4>3, <4>4
    <3> QED BY <3>1, <3>2
  <2>4. /\ gens' = gens /\ todo' = todo
        /\ call' = [call EXCEPT ![c] = r]
    BY <1>5 DEF Read
  <2> HIDE DEF r
  <2>5. PoolsTypeOK'
    BY <1>a, <2>3, <2>4 DEF PoolsTypeOK
  <2>6. BootPools'
    BY <1>a, <2>3, <2>4 DEF BootPools, PoolsTypeOK, Registered
  <2> QED BY <1>same, <2>4, <2>5, <2>6 DEF PoolsInv
<1>6. ASSUME NEW c \in Callers, Accept(c), call[c] \in Adding PROVE todo' = todo /\ call' = [call EXCEPT ![c] = NoCall]
  BY <1>6, <1>a DEF Accept, PoolsTypeOK, Adding
<1>7. ASSUME NEW c \in Callers, Register(c) PROVE PoolsInv' /\ Pools /\ Boot
  <2> DEFINE t == call[c].t
             p == call[c].p
             keys == <<call[c].k>>
  <2>1. call[c] \in Adding
    BY <1>7, <1>a DEF Register, PoolsTypeOK, NoCall
  <2>2. /\ t \in Tenants /\ p \in Providers
        /\ ~(t = System /\ p \in Known)
        /\ keys \in Given(t, p) \cap Seq(Keys)
    <3>1. t \in Tenants /\ p \in Providers /\ call[c].k \in Keys
      BY <2>1 DEF Adding
    <3>2. ~(t = System /\ p \in Known)
      BY <1>7, <1>a DEF Register, BootPools
    <3>3. keys \in Seq(Keys)
      BY <3>1
    <3>4. keys \in {<<k>> : k \in Keys}
      BY <3>1
    <3> QED BY <3>1, <3>2, <3>3, <3>4 DEF Given
  <2>3. gens' = [gens EXCEPT ![t][p] = Append(@, Listed(keys))]
    BY <1>7 DEF Register
  <2>4. todo' = todo /\ call' = [call EXCEPT ![c] = NoCall]
    BY <1>6, <1>7, <2>1 DEF Register
  <2> HIDE DEF t, p, keys
  <2>5. /\ gens' \in [Tenants -> [Providers -> Seq(Pool)]]
        /\ \A x \in Tenants, y \in Providers :
                 /\ <<x, y>> # <<t, p>> => gens'[x][y] = gens[x][y]
                 /\ DOMAIN gens[x][y] \subseteq DOMAIN gens'[x][y]
                 /\ \A n \in DOMAIN gens'[x][y] : Kept(x, y, n) \/ NewPool(x, y, n)
    BY <2>2, <2>3, <1>a, NewPoolEffect
  <2>6. PoolsTypeOK'
    BY <1>a, <2>4, <2>5 DEF PoolsTypeOK, Adding, NoCall
  <2>7. BootPools'
    BY <1>a, <2>2, <2>4, <2>5 DEF BootPools, PoolsTypeOK, Registered, NoCall
  <2>8. Boot
    BY <2>2, <2>5 DEF Kept
  <2> QED BY <2>5, <2>6, <2>7, <2>8 DEF PoolsInv
<1>8. ASSUME NEW c \in Callers, AppendKey(c) PROVE PoolsInv' /\ Pools /\ Boot
  <2> DEFINE t == call[c].t
             p == call[c].p
             m == call[c].n
             k == call[c].k
  <2>1. call[c] \in Adding
    BY <1>8, <1>a DEF AppendKey, PoolsTypeOK, NoCall
  <2>2. /\ t \in Tenants /\ p \in Providers /\ k \in Keys /\ m \in DOMAIN gens[t][p]
        /\ ~Has(gens[t][p][m], k)
        /\ gens' = [gens EXCEPT ![t][p][m] = With(@, k)]
    BY <1>8, <1>a, <2>1 DEF AppendKey, PoolsTypeOK, Adding
  <2>3. todo' = todo /\ call' = [call EXCEPT ![c] = NoCall]
    BY <1>6, <1>8, <2>1 DEF AppendKey
  <2> HIDE DEF t, p, m, k
  <2>4. /\ gens' \in [Tenants -> [Providers -> Seq(Pool)]]
        /\ \A x \in Tenants, y \in Providers :
                 /\ DOMAIN gens[x][y] = DOMAIN gens'[x][y]
                 /\ \A n \in DOMAIN gens'[x][y] : Kept(x, y, n) \/ Grown(x, y, n)
    BY <2>2, <1>a, NewKeyEffect
  <2>5. PoolsTypeOK'
    BY <1>a, <2>3, <2>4 DEF PoolsTypeOK, Adding, NoCall
  <2>6. BootPools'
    <3>1. \A y \in Known : gens[System][y] # <<>> => gens'[System][y] # <<>>
      BY <1>a, <2>4 DEF PoolsTypeOK
    <3> QED BY <1>a, <2>3, <3>1 DEF BootPools, PoolsTypeOK, Registered, NoCall
  <2> QED BY <2>4, <2>5, <2>6 DEF PoolsInv
<1>9. ASSUME NEW c \in Callers, Duplicate(c) PROVE PoolsInv' /\ Pools /\ Boot
  <2>1. gens' = gens /\ todo' = todo /\ call' = [call EXCEPT ![c] = NoCall]
    BY <1>9 DEF Duplicate
  <2>2. PoolsTypeOK' /\ BootPools'
    BY <1>a, <2>1 DEF PoolsTypeOK, BootPools, Registered, NoCall
  <2> QED BY <1>same, <2>1, <2>2 DEF PoolsInv
<1>10. ASSUME UNCHANGED pools PROVE PoolsInv' /\ Pools /\ Boot
  <2>1. PoolsInv'
    BY <1>a, <1>10 DEF PoolsInv, PoolsTypeOK, BootPools, Registered, pools
  <2> QED BY <1>same, <1>10, <2>1 DEF pools
<1> HIDE DEF Pools, Boot
<1>11. PoolsInv' /\ Pools /\ (Reboot \/ Boot)
  BY <1>1, <1>2, <1>3, <1>4, <1>5, <1>7, <1>8, <1>9, <1>10 DEF PoolsNext
<1> QED BY <1>11 DEF Pools, Boot

LEMMA PoolsInvariant ==
    PoolsSpec => []PoolsInv
<1>1. PoolsInit => PoolsInv
  BY BootedPools, KeyPoolsAssumption DEF PoolsInit, PoolsInv, PoolsTypeOK, BootPools, Registered, NoCall
<1>2. PoolsInv /\ [PoolsNext]_pools => PoolsInv'
  BY PoolsStep
<1> QED BY <1>1, <1>2, PTL DEF PoolsSpec

\* Types, and that no call holds a pool that was never registered, for any
\* number of tenants, providers, keys and calls.
THEOREM PoolTypes ==
    PoolsSpec => []PoolsTypeOK
<1>1. PoolsInv => PoolsTypeOK
  BY DEF PoolsInv
<1>9. PoolsSpec => []PoolsInv
  BY PoolsInvariant
<1> QED BY <1>1, <1>9, PTL

\* The pools with an index that is a position.
Placed ==
    \A t \in Tenants, p \in Providers : \A n \in DOMAIN gens[t][p] : Positions(gens[t][p][n])

\* No two keys of a pool share their counters in Redis.
THEOREM CountersOwned ==
    PoolsSpec => []OwnCounters
<1>1. PoolsInit => Placed
  BY BootedPools, ListedIsPool DEF PoolsInit, Placed
<1>2. PoolsInv /\ Placed /\ [PoolsNext]_pools => Placed'
  <2> SUFFICES ASSUME PoolsInv, Placed, [PoolsNext]_pools,
                      NEW t \in Tenants, NEW p \in Providers, NEW n \in DOMAIN gens'[t][p]
               PROVE  Positions(gens'[t][p][n])
    BY DEF Placed
  <2>1. Kept(t, p, n) \/ Grown(t, p, n) \/ NewPool(t, p, n)
    BY PoolsStep
  <2>2. CASE Kept(t, p, n)
    BY <2>2 DEF Kept, Placed
  <2>3. CASE Grown(t, p, n)
    <3>1. n \in DOMAIN gens[t][p] /\ gens[t][p][n] \in Pool
      BY <2>3 DEF Grown, PoolsInv, PoolsTypeOK
    <3> QED BY <2>3, <3>1, WithIsPool DEF Grown, Placed
  <2>4. CASE NewPool(t, p, n)
    BY <2>4, ListedIsPool DEF NewPool
  <2> QED BY <2>1, <2>2, <2>3, <2>4
<1>3. PoolsInv /\ Placed => OwnCounters
  <2> SUFFICES ASSUME PoolsInv, Placed, NEW t \in Tenants, NEW p \in Providers,
                      NEW n \in DOMAIN gens[t][p],
                      NEW i \in DOMAIN gens[t][p][n], NEW j \in DOMAIN gens[t][p][n],
                      gens[t][p][n][i].index = gens[t][p][n][j].index
               PROVE  i = j
    BY DEF OwnCounters
  <2>1. gens[t][p][n] \in Pool
    BY DEF PoolsInv, PoolsTypeOK
  <2>2. i \in Nat /\ j \in Nat
    BY <2>1 DEF Pool
  <2>3. gens[t][p][n][i].index = i - 1 /\ gens[t][p][n][j].index = j - 1
    BY DEF Placed, Positions
  <2>4. i - 1 = j - 1
    BY <2>3
  <2> QED BY <2>2, <2>4
<1>9. PoolsSpec => []PoolsInv
  BY PoolsInvariant
<1> QED BY <1>1, <1>2, <1>3, <1>9, PTL DEF PoolsSpec

\* AddKey and PersistReload put no key into a pool that has it.
THEOREM OnceAdded ==
    PoolsSpec => []AddedOnce
<1> DEFINE Bound(t, p) == IF t = System /\ p \in Known THEN Len(Env[p]) ELSE 0
           Unknown(t, p) == t = System /\ p \notin Known
           Once == \A t \in Tenants, p \in Providers : \A n \in DOMAIN gens[t][p] :
                      Unknown(t, p) \/ OnceAfter(gens[t][p][n], Bound(t, p))
<1>0. ASSUME NEW t \in Tenants, NEW p \in Providers, ~Unknown(t, p),
             NEW keys \in Given(t, p) \cap Seq(Keys)
      PROVE  OnceAfter(Listed(keys), Bound(t, p))
  <2>1. DOMAIN Listed(keys) = 1..Len(keys) /\ Len(keys) \in Nat
    BY ListedIsPool
  <2>2. CASE t = System /\ p \in Known
    <3>1. Bound(t, p) = Len(keys)
      BY <2>2 DEF Given
    <3> QED BY <2>1, <3>1 DEF OnceAfter
  <2>3. CASE t # System
    <3>1. PICK k \in Keys : keys = <<k>>
      BY <2>3 DEF Given
    <3>2. Len(keys) = 1
      BY <3>1
    <3> QED BY <2>1, <3>2 DEF OnceAfter
  <2> QED BY <1>0, <2>2, <2>3
<1>1. PoolsInit => Once
  BY BootedPools, <1>0 DEF PoolsInit
<1>2. PoolsInv /\ Once /\ [PoolsNext]_pools => Once'
  <2> SUFFICES ASSUME PoolsInv, Once, [PoolsNext]_pools,
                      NEW t \in Tenants, NEW p \in Providers, NEW n \in DOMAIN gens'[t][p], ~Unknown(t, p)
               PROVE  OnceAfter(gens'[t][p][n], Bound(t, p))
    OBVIOUS
  <2>0. Bound(t, p) \in Nat
    BY KeyPoolsAssumption
  <2>1. Kept(t, p, n) \/ Grown(t, p, n) \/ NewPool(t, p, n)
    BY PoolsStep
  <2> HIDE DEF Bound
  <2>2. CASE Kept(t, p, n)
    BY <2>2 DEF Kept
  <2>3. CASE Grown(t, p, n)
    <3>1. n \in DOMAIN gens[t][p] /\ gens[t][p][n] \in Pool
      BY <2>3 DEF Grown, PoolsInv, PoolsTypeOK
    <3> QED BY <2>0, <2>3, <3>1, WithIsPool DEF Grown
  <2>4. CASE NewPool(t, p, n)
    BY <2>4, <1>0 DEF NewPool
  <2> QED BY <2>1, <2>2, <2>3, <2>4
<1>3. PoolsInv /\ Once => AddedOnce
  <2> SUFFICES ASSUME PoolsInv, Once, NEW t \in Tenants, NEW p \in Providers,
                      NEW n \in DOMAIN gens[t][p],
                      NEW i \in DOMAIN gens[t][p][n], NEW j \in DOMAIN gens[t][p][n],
                      i < j, gens[t][p][n][i].key = gens[t][p][n][j].key
               PROVE  t = System /\ (p \notin Known \/ j <= Len(Env[p]))
    BY DEF AddedOnce
  <2>1. gens[t][p][n] \in Pool
    BY DEF PoolsInv, PoolsTypeOK
  <2>2. i \in 1..Len(gens[t][p][n]) /\ j \in 1..Len(gens[t][p][n])
    BY <2>1 DEF Pool
  <2>3. Unknown(t, p) \/ j <= Bound(t, p)
    BY DEF OnceAfter
  <2> QED BY <2>2, <2>3
<1>9. PoolsSpec => []PoolsInv
  BY PoolsInvariant
<1> QED BY <1>1, <1>2, <1>3, <1>9, PTL DEF PoolsSpec

\* No call of AddKey takes a key out of a pool of the boot.
THEOREM SystemKeysKept ==
    PoolsSpec => SystemKeysStay
<1> DEFINE Stay == Reboot \/ \A p \in Known, k \in Keys :
                      Holds(System, p, k) => Holds(System, p, k)'
<1>1. PoolsInv /\ [PoolsNext]_pools => [Stay]_(pools)
  <2> SUFFICES ASSUME PoolsInv, [PoolsNext]_pools, ~Reboot,
                      NEW p \in Known, NEW k \in Keys, Holds(System, p, k)
               PROVE  Holds(System, p, k)'
    OBVIOUS
  <2> DEFINE m == Len(gens[System][p])
  <2>1. System \in Tenants /\ p \in Providers
    BY KeyPoolsAssumption
  <2>2. /\ gens[System][p] \in Seq(Pool) /\ gens'[System][p] \in Seq(Pool)
        /\ DOMAIN gens'[System][p] = DOMAIN gens[System][p]
        /\ \A n \in DOMAIN gens[System][p] : Kept(System, p, n) \/ Grown(System, p, n)
    BY <2>1, PoolsStep DEF PoolsInv, PoolsTypeOK
  <2>3. /\ Len(gens'[System][p]) = m
        /\ m \in DOMAIN gens[System][p]
        /\ gens[System][p][m] \in Pool
        /\ gens'[System][p] # <<>>
        /\ Has(gens[System][p][m], k)
    BY <2>2 DEF Holds, Registered, Current
  <2>4. Has(gens'[System][p][m], k)
    <3>1. CASE Kept(System, p, m)
      BY <2>3, <3>1 DEF Kept
    <3>2. CASE Grown(System, p, m)
      BY <2>3, <3>2, WithIsPool DEF Grown
    <3> QED BY <2>2, <2>3, <3>1, <3>2
  <2> QED BY <2>3, <2>4 DEF Holds, Registered, Current
<1>9. PoolsSpec => []PoolsInv
  BY PoolsInvariant
<1> QED BY <1>1, <1>9, PTL DEF PoolsSpec, SystemKeysStay
=============================================================================
