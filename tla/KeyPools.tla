------------------------------ MODULE KeyPools ------------------------------
(***************************************************************************)
(* The pools of keymanager.Manager: what RegisterPool, AddKey and the boot *)
(* of cmd/gateway make of the map pools[tenant][provider].  AddKey reads   *)
(* the map under a read lock, gives the lock up, and registers or appends  *)
(* later, so calls of several requests interleave between those steps.     *)
(***************************************************************************)
EXTENDS Integers, Sequences

CONSTANTS
    Tenants, Providers, Keys,
    Callers,     \* requests that add a key
    System,      \* the tenant of the keys from the environment
    Known,       \* config.ProviderNames
    Env,         \* Settings.KeysFor
    Persisted    \* what gw:provider_keys:system:* may hold, keys per provider

ASSUME KeyPoolsAssumption ==
    /\ System \in Tenants
    /\ Known \subseteq Providers
    /\ Env \in [Known -> Seq(Keys)]
    /\ Persisted \subseteq [Providers -> Seq(Keys)]

VARIABLES
    gens,      \* the pools registered for a tenant and a provider, oldest
               \* first; the map holds the last, callers may hold any
    todo,      \* what PersistReload has not merged yet
    call       \* the call of AddKey each caller is in

pools == <<gens, todo, call>>

KeyInfo == [key : Keys, index : Nat]
Pool == Seq(KeyInfo)
NoCall == [pc |-> "idle"]
Adding == [pc : {"read", "register", "append"}, t : Tenants, p : Providers, k : Keys, n : Nat]

\* Types; a call that will append holds a pool that was registered.
PoolsTypeOK ==
    /\ gens \in [Tenants -> [Providers -> Seq(Pool)]]
    /\ todo \in [Providers -> Seq(Keys)]
    /\ call \in [Callers -> {NoCall} \cup Adding]
    /\ \A c \in Callers :
          call[c].pc = "append" => call[c].n \in DOMAIN gens[call[c].t][call[c].p]

-----------------------------------------------------------------------------
\* Mutant of Listed: positions counted from one.
ListedFromOne(keys) == [i \in DOMAIN keys |-> [key |-> keys[i], index |-> i]]

\* The pool RegisterPool makes of a list of keys.
Listed(keys) == [i \in DOMAIN keys |-> [key |-> keys[i], index |-> i - 1]]

\* The duplicate check of AddKey.
Has(pool, k) == \E i \in DOMAIN pool : pool[i].key = k

With(pool, k) == Append(pool, [key |-> k, index |-> Len(pool)])

Registered(t, p) == gens[t][p] # <<>>
Current(t, p) == gens[t][p][Len(gens[t][p])]
Holds(t, p, k) == Registered(t, p) /\ Has(Current(t, p), k)

\* The process starts: a system pool for every known provider, no user pools.
Booted ==
    [t \in Tenants |-> [p \in Providers |->
        IF t = System /\ p \in Known THEN <<Listed(Env[p])>> ELSE <<>>]]

PoolsInit ==
    /\ gens = Booted
    /\ todo \in Persisted
    /\ call = [c \in Callers |-> NoCall]

Reboot ==
    /\ gens' = Booted
    /\ todo' \in Persisted
    /\ call' = [c \in Callers |-> NoCall]

Serving == \A p \in Providers : todo[p] = <<>>

\* PersistReload meets a provider without a pool: its whole list is registered.
ReloadPool(p) ==
    /\ todo[p] # <<>>
    /\ ~Registered(System, p)
    /\ gens' = [gens EXCEPT ![System][p] = Append(@, Listed(todo[p]))]
    /\ todo' = [todo EXCEPT ![p] = <<>>]
    /\ UNCHANGED call

\* PersistReload merges one key into a pool.
ReloadKey(p) ==
    /\ todo[p] # <<>>
    /\ Registered(System, p)
    /\ gens' = IF Holds(System, p, Head(todo[p])) THEN gens
               ELSE [gens EXCEPT ![System][p][Len(gens[System][p])] = With(@, Head(todo[p]))]
    /\ todo' = [todo EXCEPT ![p] = Tail(@)]
    /\ UNCHANGED call

-----------------------------------------------------------------------------
\* AddKey looks the tenant up; its map of pools appears with its first pool.
AddKey(c, t, p, k) ==
    /\ call[c].pc = "idle"
    /\ Serving
    /\ call' = [call EXCEPT ![c] =
           [pc |-> IF \E q \in Providers : Registered(t, q) THEN "read" ELSE "register",
            t |-> t, p |-> p, k |-> k, n |-> 0]]
    /\ UNCHANGED <<gens, todo>>

\* Mutant of Read: only the pool that has the key already is used.
ReadFresh(c) ==
    /\ call[c].pc = "read"
    /\ LET t == call[c].t
           p == call[c].p
       IN  call' = [call EXCEPT
               ![c].pc = IF Holds(t, p, call[c].k) THEN "append" ELSE "register",
               ![c].n = Len(gens[t][p])]
    /\ UNCHANGED <<gens, todo>>

\* It takes the provider's pool out of the map, with no lock held.
Read(c) ==
    /\ call[c].pc = "read"
    /\ LET t == call[c].t
           p == call[c].p
       IN  call' = [call EXCEPT
               ![c].pc = IF Registered(t, p) THEN "append" ELSE "register",
               ![c].n = Len(gens[t][p])]
    /\ UNCHANGED <<gens, todo>>

\* AddKey answers true.
Accept(c) ==
    /\ call' = [call EXCEPT ![c] = NoCall]
    /\ UNCHANGED todo

\* There was no pool: a new one takes the place of whatever the map holds now.
Register(c) ==
    /\ call[c].pc = "register"
    /\ gens' = [gens EXCEPT ![call[c].t][call[c].p] = Append(@, Listed(<<call[c].k>>))]
    /\ Accept(c)

\* Mutant of AppendKey: nobody looks for the key.
AppendTwice(c) ==
    /\ call[c].pc = "append"
    /\ gens' = [gens EXCEPT ![call[c].t][call[c].p][call[c].n] = With(@, call[c].k)]
    /\ Accept(c)

\* The key is appended to the pool that was read, under that pool's lock.
AppendKey(c) ==
    /\ call[c].pc = "append"
    /\ ~Has(gens[call[c].t][call[c].p][call[c].n], call[c].k)
    /\ gens' = [gens EXCEPT ![call[c].t][call[c].p][call[c].n] = With(@, call[c].k)]
    /\ Accept(c)

\* AddKey answers false.
Duplicate(c) ==
    /\ call[c].pc = "append"
    /\ Has(gens[call[c].t][call[c].p][call[c].n], call[c].k)
    /\ call' = [call EXCEPT ![c] = NoCall]
    /\ UNCHANGED <<gens, todo>>

PoolsNext ==
    \/ Reboot
    \/ \E p \in Providers : ReloadPool(p) \/ ReloadKey(p)
    \/ \E c \in Callers :
          \/ \E t \in Tenants, p \in Providers, k \in Keys : AddKey(c, t, p, k)
          \/ Read(c) \/ Register(c) \/ AppendKey(c) \/ Duplicate(c)

PoolsSpec == PoolsInit /\ [][PoolsNext]_pools

-----------------------------------------------------------------------------
\* A key's counters in Redis are filed under its index: two keys of one pool
\* never share an index, whoever added them and in whatever order, so none is
\* charged for the other's requests.  (A pool that replaces another starts again
\* at index 0, on the counters of the keys it replaced.)
OwnCounters ==
    \A t \in Tenants, p \in Providers :
        \A n \in DOMAIN gens[t][p] :
            \A i, j \in DOMAIN gens[t][p][n] :
                gens[t][p][n][i].index = gens[t][p][n][j].index => i = j

\* AddKey never puts a key into a pool that has it (which would double its
\* budget), however calls overlap.  Only the lists that are registered whole may
\* repeat a key: the environment's, and the one PersistReload registers for a
\* provider the environment does not know, whose system pool is exempt.  Two calls
\* that find no pool both register one and both answer true: their keys are then
\* in two pools, of which the later replaces the earlier.
AddedOnce ==
    \A t \in Tenants, p \in Providers :
        \A n \in DOMAIN gens[t][p] :
            \A i, j \in DOMAIN gens[t][p][n] :
                i < j /\ gens[t][p][n][i].key = gens[t][p][n][j].key =>
                    t = System /\ (p \notin Known \/ j <= Len(Env[p]))

\* A key in a pool of the boot is served until the process ends: no call of
\* AddKey, however it interleaves with others, takes one away.
SystemKeysStay ==
    [][Reboot \/ \A p \in Known, k \in Keys :
          Holds(System, p, k) => Holds(System, p, k)']_pools

\* manager.go:162, "AddKey appends a key": the key it accepts is in the pool then,
\* next to the ones that were there.  It fails for two calls at once.
AddedKeysStay ==
    [][\A c \in Callers : Register(c) \/ AppendKey(c) =>
          \A t \in Tenants, p \in Providers, k \in Keys :
              Holds(t, p, k) \/ call[c] = [call[c] EXCEPT !.t = t, !.p = p, !.k = k]
                  => Holds(t, p, k)']_pools
=============================================================================
