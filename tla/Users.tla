-------------------------------- MODULE Users --------------------------------
(***************************************************************************)
(* users.Store: account records and an index of key hashes in Redis, and a *)
(* mirror of both in memory.  A request looks its key up while the admin   *)
(* handlers create, list, disable, enable or rotate; each runs in steps    *)
(* between which the others run.  The mirror holds pointers to User        *)
(* objects that several operations share.  Keys are numbered per user in   *)
(* the order they are minted, and a hash stands for its key.               *)
(***************************************************************************)
EXTENDS Integers, FiniteSets

CONSTANTS
    Ids,       \* users
    Procs,     \* requests and admin handlers
    Objects,   \* addresses of User objects
    Nil,       \* no object
    MaxKeys    \* keys minted per user

ASSUME UsersAssumption ==
    /\ Nil \notin Objects
    /\ MaxKeys \in Nat

VARIABLES
    records,   \* Redis: gw:users:{id}; what it says of Disabled
    hashes,    \* Redis: gw:users:by_hash
    heap,      \* the User objects
    byHash,    \* Store.byHash
    byID,      \* Store.byID
    proc,      \* the operation each process is in
    minted,    \* how many keys a user was given
    access,    \* history: what the last answer of Create, Enable or Disable says
               \* of the user, until one that says otherwise begins
    crowded,   \* history: users of whom two changes are or were open at once,
               \* until none is open
    barred,    \* history: requests that came after Disable was answered and
               \* before an Enable began
    due,       \* history: requests that came with the key returned last, before
               \* a Disable or Rotate began
    latest     \* history: the key Create or Rotate returned last when no Rotate
               \* was in progress, until one begins; else 0

vars == <<records, hashes, heap, byHash, byID, proc, minted,
          access, crowded, barred, due, latest>>

Hash == 0..MaxKeys     \* 0: the object was read from Redis, without its KeyHash
States == {"enabled", "disabled"}   \* of a user, which is Disabled or not
Object == [hash : Hash, state : States]
Idle == [pc |-> "idle"]
At(pc, op, u, k) ==
    [pc |-> pc, op |-> op, u |-> u, k |-> k, o |-> Nil, buf |-> "enabled", hash |-> 0,
     answer |-> "none", sure |-> FALSE, old |-> FALSE]

\* "on" and "off" are certain.  "told": Disable was answered while a record read
\* before was on its way to the mirror.  "unsure": no answer, or changes that
\* overlapped.
Access == {"on", "off", "told", "unsure"}

\* Types; a hash in Redis always leads to a record.
TypeOK ==
    /\ records \in [Ids -> States \cup {"none"}]
    /\ hashes \in [Ids -> SUBSET (1..MaxKeys)]
    /\ heap \in [Ids -> [Objects -> Object]]
    /\ byHash \in [Ids -> SUBSET Hash]
    /\ byID \in [Ids -> Objects \cup {Nil}]
    /\ minted \in [Ids -> Hash]
    /\ access \in [Ids -> Access]
    /\ crowded \in SUBSET Ids
    /\ barred \in SUBSET Procs
    /\ due \in SUBSET Procs
    /\ latest \in [Ids -> Hash]
    /\ \A u \in Ids : hashes[u] # {} => records[u] # "none"

Init ==
    /\ records = [u \in Ids |-> "none"]
    /\ hashes = [u \in Ids |-> {}]
    /\ heap = [u \in Ids |-> [o \in Objects |-> [hash |-> 0, state |-> "enabled"]]]
    /\ byHash = [u \in Ids |-> {}]
    /\ byID = [u \in Ids |-> Nil]
    /\ proc = [p \in Procs |-> Idle]
    /\ minted = [u \in Ids |-> 0]
    /\ access = [u \in Ids |-> "unsure"]
    /\ crowded = {}
    /\ barred = {}
    /\ due = {}
    /\ latest = [u \in Ids |-> 0]

-----------------------------------------------------------------------------
redis == <<records, hashes>>
mirror == <<byHash, byID>>
requests == <<barred, due>>
answers == <<access, latest>>
history == <<answers, crowded, requests>>

\* p is idle: it may call any operation, whatever the others are doing.
Free(p) == proc[p] = Idle
Enter(p, pc) == proc' = [proc EXCEPT ![p].pc = pc]
Leave(p) == proc' = [proc EXCEPT ![p] = Idle]

\* Who is busy with u, who is changing u, and who holds a record of u that he read
\* before and will put into the mirror.
Of(u) == {p \in Procs : proc[p] # Idle /\ proc[p].u = u}
Changing(u) == {p \in Of(u) : proc[p].op \in {"create", "disable", "enable", "rotate"}}
Carrying(u) == {p \in Of(u) : proc[p].pc \in {"merge", "fill"}}

\* History: p begins to change u, or its change of u is over.
Begins(u) == crowded' = IF Changing(u) = {} THEN crowded ELSE crowded \cup {u}
Ends(p, u) == crowded' = IF Changing(u) \subseteq {p} THEN crowded \ {u} ELSE crowded

\* A new User object for u, at an address nobody holds.
Unused(u) == {o \in Objects : o # byID[u] /\ \A p \in Procs :
                proc[p] # Idle /\ proc[p].u = u => proc[p].o # o}
New(u, o, object) ==
    /\ o \in Unused(u)
    /\ heap' = [heap EXCEPT ![u][o] = object]

\* What json.Unmarshal makes of a record: KeyHash is not in it.
Loaded(u) == [hash |-> 0, state |-> records[u]]

-----------------------------------------------------------------------------
\* Create mints the first key and goes on to persist.
Create(p, u, o) ==
    /\ Free(p)
    /\ minted[u] = 0 /\ MaxKeys > 0
    /\ minted' = [minted EXCEPT ![u] = 1]
    /\ New(u, o, [hash |-> 1, state |-> "enabled"])
    /\ proc' = [proc EXCEPT ![p] = [At("exec", "create", u, 1) EXCEPT !.o = o, !.hash = 1]]
    /\ Begins(u)
    /\ UNCHANGED <<redis, mirror, answers, requests>>

\* Disable, Enable and RotateKey get the user: the mirror's object,
GetShared(p, u, op) ==
    /\ Free(p)
    /\ byID[u] # Nil
    /\ proc' = [proc EXCEPT ![p] = [At("change", op, u, 0) EXCEPT !.o = byID[u]]]
    /\ UNCHANGED <<redis, mirror, heap, minted>>

\* or, when the mirror has none, one of their own that is read from Redis.
GetCopy(p, u, op) ==
    /\ Free(p)
    /\ byID[u] = Nil /\ records[u] # "none"
    /\ \E o \in Objects :
          /\ New(u, o, Loaded(u))
          /\ proc' = [proc EXCEPT ![p] = [At("change", op, u, 0) EXCEPT !.o = o]]
    /\ UNCHANGED <<redis, mirror, minted>>

Get(p, u, op) == GetShared(p, u, op) \/ GetCopy(p, u, op)

Disable(p, u) ==
    /\ Get(p, u, "disable")
    /\ access' = [access EXCEPT ![u] = IF @ = "on" THEN "unsure" ELSE @]
    /\ due' = due \ Of(u)
    /\ Begins(u)
    /\ UNCHANGED <<barred, latest>>

Enable(p, u) ==
    /\ Get(p, u, "enable")
    /\ access' = [access EXCEPT ![u] = IF @ \in {"off", "told"} THEN "unsure" ELSE @]
    /\ barred' = barred \ Of(u)
    /\ Begins(u)
    /\ UNCHANGED <<due, latest>>

Rotate(p, u) ==
    /\ minted[u] < MaxKeys
    /\ Get(p, u, "rotate")
    /\ latest' = [latest EXCEPT ![u] = 0]
    /\ due' = due \ Of(u)
    /\ Begins(u)
    /\ UNCHANGED <<access, barred>>

\* Disable and Enable change the object, and persist marshals it.
Switch(p) ==
    /\ proc[p].pc = "change" /\ proc[p].op \in {"disable", "enable"}
    /\ LET state == IF proc[p].op = "disable" THEN "disabled" ELSE "enabled"
       IN  /\ heap' = [heap EXCEPT ![proc[p].u][proc[p].o].state = state]
           /\ proc' = [proc EXCEPT ![p].pc = "exec", ![p].buf = state]
    /\ UNCHANGED <<redis, mirror, minted, history>>

\* RotateKey puts a new key into the object.
Mint(p) ==
    /\ proc[p].pc = "change" /\ proc[p].op = "rotate"
    /\ LET u == proc[p].u
           k == minted[u] + 1
       IN  /\ k <= MaxKeys
           /\ minted' = [minted EXCEPT ![u] = k]
           /\ heap' = [heap EXCEPT ![u][proc[p].o].hash = k]
           /\ proc' = [proc EXCEPT ![p].pc = "del", ![p].k = k, ![p].hash = heap[u][proc[p].o].hash]
    /\ UNCHANGED <<redis, mirror, history>>

\* It deletes the old hash, the one the object had, without looking whether Redis
\* did so, and persist marshals.
Del(p) ==
    /\ proc[p].pc = "del"
    /\ LET u == proc[p].u
           object == heap[u][proc[p].o]
       IN  /\ hashes' \in {hashes, [hashes EXCEPT ![u] = @ \ {proc[p].hash}]}
           /\ proc' = [proc EXCEPT ![p].pc = "exec", ![p].buf = object.state, ![p].hash = object.hash]
    /\ UNCHANGED <<records, mirror, heap, minted, history>>

WithKey(p) == proc[p].op \in {"create", "rotate"}

\* Mutant of Persist: a change of a record leaves the hashes to be written again.
PersistDrops(p) ==
    LET u == proc[p].u
    IN  /\ records' = [records EXCEPT ![u] = proc[p].buf]
        /\ hashes' = [hashes EXCEPT ![u] = IF WithKey(p) THEN @ \cup {proc[p].hash} ELSE {}]

\* Mutant of Persist: the record of a new user is left to the next change.
PersistHash(p) ==
    LET u == proc[p].u
    IN  /\ records' = [records EXCEPT ![u] = IF WithKey(p) THEN @ ELSE proc[p].buf]
        /\ hashes' = [hashes EXCEPT ![u] = IF WithKey(p) THEN @ \cup {proc[p].hash} ELSE @]

\* The transaction of persist.
Persist(p) ==
    LET u == proc[p].u
    IN  /\ records' = [records EXCEPT ![u] = proc[p].buf]
        /\ hashes' = [hashes EXCEPT ![u] = IF WithKey(p) THEN @ \cup {proc[p].hash} ELSE @]

Exec(p) ==
    /\ proc[p].pc = "exec"
    /\ Persist(p)
    /\ Enter(p, "mirror")
    /\ UNCHANGED <<mirror, heap, minted, history>>

\* It fails, or Redis ran it and the answer is lost: the operation fails either
\* way, and the object stays changed.
ExecFails(p) ==
    /\ proc[p].pc = "exec"
    /\ Persist(p) \/ UNCHANGED redis
    /\ Ends(p, proc[p].u)
    /\ Leave(p)
    /\ UNCHANGED <<mirror, heap, minted, answers, requests>>

\* What the caller of an operation that succeeded may count on.
Said(p, u) ==
    LET quiet == u \notin crowded /\ Carrying(u) = {}
    IN  CASE proc[p].op = "rotate" -> access[u]
          [] proc[p].op = "disable" ->
                IF quiet \/ access[u] = "off" THEN "off"
                ELSE IF u \in crowded THEN "unsure" ELSE "told"
          [] OTHER -> IF quiet \/ access[u] = "on" THEN "on" ELSE "unsure"

Answered(p) ==
    LET u == proc[p].u
        rotating == \E q \in Changing(u) \ {p} : proc[q].op = "rotate"
    IN  /\ access' = [access EXCEPT ![u] = Said(p, u)]
        /\ latest' = [latest EXCEPT ![u] =
               IF WithKey(p) /\ proc[p].k = minted[u] /\ ~rotating THEN proc[p].k ELSE @]
        /\ Ends(p, u)

\* persist updates the mirror and the operation is answered.
Mirror(p) ==
    /\ proc[p].pc = "mirror"
    /\ LET u == proc[p].u
       IN  /\ byHash' = [byHash EXCEPT ![u] = @ \cup {heap[u][proc[p].o].hash}]
           /\ byID' = [byID EXCEPT ![u] = proc[p].o]
    /\ Answered(p)
    /\ Leave(p)
    /\ UNCHANGED <<redis, heap, minted, requests>>

-----------------------------------------------------------------------------
\* List reads a record,
List(p, u) ==
    /\ Free(p)
    /\ records[u] # "none"
    /\ \E o \in Objects :
          /\ New(u, o, Loaded(u))
          /\ proc' = [proc EXCEPT ![p] = [At("merge", "list", u, 0) EXCEPT !.o = o]]
    /\ UNCHANGED <<redis, mirror, minted, history>>

\* and later puts what it read into the mirror.
Merge(p) ==
    /\ proc[p].pc = "merge"
    /\ byHash' = [byHash EXCEPT ![proc[p].u] = @ \cup {0}]
    /\ byID' = [byID EXCEPT ![proc[p].u] = proc[p].o]
    /\ Leave(p)
    /\ UNCHANGED <<redis, heap, minted, history>>

-----------------------------------------------------------------------------
\* The key is the user's and the user may use it.
Works(u, k) == k = latest[u] /\ access[u] = "on"

\* A request presents a key; Lookup reads the mirror.
Lookup(p, u, k) ==
    /\ Free(p)
    /\ k \in 1..minted[u]
    /\ proc' = [proc EXCEPT ![p] =
           [At(IF k \in byHash[u] /\ byID[u] # Nil THEN "check" ELSE "ask", "lookup", u, k)
               EXCEPT !.o = IF k \in byHash[u] THEN byID[u] ELSE Nil,
                      !.sure = access[u] = "off", !.old = k < latest[u]]]
    /\ barred' = IF access[u] \in {"off", "told"} THEN barred \cup {p} ELSE barred
    /\ due' = IF Works(u, k) THEN due \cup {p} ELSE due
    /\ UNCHANGED <<redis, mirror, heap, minted, answers, crowded>>

Refuse(p) == proc' = [proc EXCEPT ![p].pc = "answered", ![p].answer = "refused"]

\* The mirror missed: Redis knows the hash, and the mirror may know the user.
Ask(p) ==
    /\ proc[p].pc = "ask"
    /\ LET u == proc[p].u
       IN  IF proc[p].k \notin hashes[u] THEN Refuse(p)
           ELSE IF byID[u] # Nil
           THEN proc' = [proc EXCEPT ![p].pc = "check", ![p].o = byID[u]]
           ELSE Enter(p, "load")
    /\ UNCHANGED <<redis, mirror, heap, minted, history>>

\* Redis does not answer Lookup, which refuses the key.
Unreachable(p) ==
    /\ proc[p].pc \in {"ask", "load"}
    /\ proc' = [proc EXCEPT ![p].pc = "answered", ![p].answer = "unreachable"]
    /\ UNCHANGED <<redis, mirror, heap, minted, history>>

\* The record is loaded into a new object,
Load(p) ==
    /\ proc[p].pc = "load"
    /\ \E o \in Objects :
          /\ New(proc[p].u, o, Loaded(proc[p].u))
          /\ proc' = [proc EXCEPT ![p].pc = "fill", ![p].o = o]
    /\ UNCHANGED <<redis, mirror, minted, history>>

\* which goes into the mirror.
Fill(p) ==
    /\ proc[p].pc = "fill"
    /\ byHash' = [byHash EXCEPT ![proc[p].u] = @ \cup {proc[p].k}]
    /\ byID' = [byID EXCEPT ![proc[p].u] = proc[p].o]
    /\ Enter(p, "check")
    /\ UNCHANGED <<redis, heap, minted, history>>

\* Mutant of Check: Disabled is not looked at.
CheckFound(p) ==
    /\ proc[p].pc = "check"
    /\ proc' = [proc EXCEPT ![p].pc = "answered", ![p].answer = "accepted"]
    /\ UNCHANGED <<redis, mirror, heap, minted, history>>

\* authMiddleware looks at the object that was found.
Check(p) ==
    /\ proc[p].pc = "check"
    /\ IF heap[proc[p].u][proc[p].o].state = "disabled" THEN Refuse(p)
       ELSE proc' = [proc EXCEPT ![p].pc = "answered", ![p].answer = "accepted"]
    /\ UNCHANGED <<redis, mirror, heap, minted, history>>

Done(p) ==
    /\ proc[p].pc = "answered"
    /\ Leave(p)
    /\ barred' = barred \ {p}
    /\ due' = due \ {p}
    /\ UNCHANGED <<redis, mirror, heap, minted, answers, crowded>>

\* The gateway is started again.
Restart ==
    /\ byHash' = [u \in Ids |-> {}]
    /\ byID' = [u \in Ids |-> Nil]
    /\ heap' = [u \in Ids |-> [o \in Objects |-> [hash |-> 0, state |-> "enabled"]]]
    /\ proc' = [p \in Procs |-> Idle]
    /\ crowded' = {}
    /\ barred' = {}
    /\ due' = {}
    /\ UNCHANGED <<redis, minted, answers>>

Next ==
    \/ Restart
    \/ \E p \in Procs :
          \/ \E u \in Ids :
                \/ \E o \in Objects : Create(p, u, o)
                \/ Disable(p, u) \/ Enable(p, u) \/ Rotate(p, u) \/ List(p, u)
                \/ \E k \in 1..MaxKeys : Lookup(p, u, k)
          \/ Switch(p) \/ Mint(p) \/ Del(p) \/ Exec(p) \/ ExecFails(p) \/ Mirror(p)
          \/ Merge(p)
          \/ Ask(p) \/ Unreachable(p) \/ Load(p) \/ Fill(p) \/ Check(p) \/ Done(p)

Spec == Init /\ [][Next]_vars

-----------------------------------------------------------------------------
Answers == {p \in Procs : proc[p].pc = "answered"}

\* A user whom Disable switched off, with no other change of the user open
\* meanwhile and no record read before on its way to the mirror, is refused from
\* the answer until an Enable begins: through lookups, listings and rotations at
\* any moment, failed updates and restarts.
DisabledRefused ==
    \A p \in Answers \cap barred : proc[p].sure => proc[p].answer # "accepted"

\* docs/USERS.md:61, of a disabled user: "Anything at all stops until re-enabled".
\* It fails when a listing or a lookup puts back a record it read before.
DisabledStopped == \A p \in Answers \cap barred : proc[p].answer # "accepted"

\* docs/USERS.md:52: "Old key stops working immediately", and users.go:204, "the old
\* one is rejected from then on".  It fails, as byHash keeps the old hash.
RotatedRefused == \A p \in Answers : proc[p].old => proc[p].answer # "accepted"

\* The key that Create or Rotate returned last is not refused while the user is
\* certainly enabled, until a Disable or Rotate begins: through restarts, failed
\* updates and listings, whatever overlapped before.
CurrentKeyWorks == \A p \in Answers \cap due : proc[p].answer # "refused"
=============================================================================
