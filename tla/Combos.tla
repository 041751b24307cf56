------------------------------- MODULE Combos -------------------------------
(***************************************************************************)
(* combos.Store: Save, Get, List and Delete over Redis with a read-through *)
(* mirror.  The mirror has a lock, Redis has its transactions, and nothing *)
(* holds an operation's steps together.  A combo is the number of the Save *)
(* that made it.  The record and the index of a name change in one         *)
(* transaction, so the index is the names that have a record.              *)
(***************************************************************************)
EXTENDS Integers

CONSTANTS
    Procs,     \* requests that are served at the same time
    Names,     \* names of combos
    Bare,      \* each name without one prefix "combo:", if it has it
    MaxSaves   \* bound: calls of Save

None == 0
Versions == 1..MaxSaves
Values == Versions \cup {None}

VARIABLES
    local,    \* Store.local
    redis,    \* gw:combo:{name}
    saves,    \* calls of Save so far
    op,       \* the operation each request is in
    may,      \* history: what a name may stand for: what the last Save or Delete
              \* that had the name to itself left, and what others began to write since
    stale     \* history: what Redis has, if its last answer to a write was an error

vars == <<local, redis, saves, op, may, stale>>

\* asked is the name as the caller gave it; may is what each name may have stood
\* for while a Get or a List ran.
NoOp == [at |-> "idle", kind |-> "get", asked |-> CHOOSE n \in Names : TRUE, n |-> CHOOSE n \in Names : TRUE,
         v |-> None, left |-> {}, shown |-> [n \in Names |-> None], lost |-> FALSE, alone |-> TRUE,
         may |-> [n \in Names |-> {}]]
Operation ==
    [at : {"idle", "mirror", "redis", "get", "fetch", "fill", "list", "read", "done"},
     kind : {"save", "get", "list", "delete"}, asked : Names, n : Names, v : Values,
     left : SUBSET Names, shown : [Names -> Values],
     lost : BOOLEAN, alone : BOOLEAN, may : [Names -> SUBSET Values]]

\* Types; what Get puts into the mirror is a combo.
TypeOK ==
    /\ local \in [Names -> Values]
    /\ redis \in [Names -> Values]
    /\ saves \in 0..MaxSaves
    /\ op \in [Procs -> Operation]
    /\ may \in [Names -> SUBSET Values]
    /\ stale \in [Names -> SUBSET Values]
    /\ \A p \in Procs : op[p].at = "fill" => op[p].v # None

Init ==
    /\ local = [n \in Names |-> None]
    /\ redis = [n \in Names |-> None]
    /\ saves = 0
    /\ op = [p \in Procs |-> NoOp]
    /\ may = [n \in Names |-> {None}]
    /\ stale = [n \in Names |-> {}]

-----------------------------------------------------------------------------
stores == <<local, redis, saves>>
history == <<may, stale>>

At(p, at) == op[p].at = at
Goto(p, at) == op' = [op EXCEPT ![p].at = at]

IsChange(kind) == kind \in {"save", "delete"}
Runs(q) == op[q].at \notin {"idle", "done"}

\* An operation on n that reads or writes the mirror.
Busy(q, n) == Runs(q) /\ op[q].kind # "list" /\ op[q].n = n

\* q while somebody else begins an operation of a kind on n: a change of n that q
\* is in has the name no longer to itself.
Joined(q, kind, n) ==
    [op[q] EXCEPT !.alone = @ /\ ~(kind # "list" /\ IsChange(op[q].kind) /\ Busy(q, n))]

\* A question that runs while n may come to stand for one more value.
Heard(o, n, S) ==
    IF o.at \notin {"idle", "done"} /\ ~IsChange(o.kind) THEN [o EXCEPT !.may[n] = @ \cup S] ELSE o

\* p asks for n, or for all combos: it may see what Redis still has.
Ask(p, kind, asked, n) ==
    LET seen == [m \in Names |-> IF kind = "list" THEN may[m] \cup stale[m] ELSE may[m]]
        mine == [NoOp EXCEPT !.at = kind, !.kind = kind, !.asked = asked, !.n = n, !.may = seen]
    IN  /\ At(p, "idle")
        /\ op' = [q \in Procs |-> IF q = p THEN mine ELSE Joined(q, kind, n)]
        /\ UNCHANGED <<stores, history>>

\* p begins to change n to v.
Change(p, kind, at, asked, n, v) ==
    LET mine == [NoOp EXCEPT !.at = at, !.kind = kind, !.asked = asked, !.n = n, !.v = v,
                             !.alone = \A q \in Procs : ~Busy(q, n)]
    IN  /\ At(p, "idle")
        /\ op' = [q \in Procs |-> IF q = p THEN mine ELSE Heard(Joined(q, kind, n), n, {v})]
        /\ may' = [may EXCEPT ![n] = @ \cup {v}]
        /\ UNCHANGED stale

\* A change is answered; alone with its name, it settles what the name stands for.
Changed(p, S) ==
    /\ may' = [may EXCEPT ![op[p].n] = IF op[p].alone THEN S ELSE @]
    /\ op' = [op EXCEPT ![p] = [NoOp EXCEPT !.at = "done", !.kind = op[p].kind]]

\* A transaction that writes v for n: done, failed, or done and the answer lost.
Write(n, v) ==
    /\ \/ redis' = [redis EXCEPT ![n] = v] /\ stale' = [stale EXCEPT ![n] = {}]
       \/ redis' = [redis EXCEPT ![n] = v] /\ stale' = [stale EXCEPT ![n] = {v}]
       \/ redis' = redis /\ stale' = [stale EXCEPT ![n] = {redis[n]}]

\* A valid combo is saved under the name it came with: first in the mirror,
Save(p, n) ==
    /\ saves < MaxSaves
    /\ saves' = saves + 1
    /\ Change(p, "save", "mirror", n, n, saves + 1)
    /\ UNCHANGED <<local, redis>>

SaveMirror(p) ==
    /\ At(p, "mirror") /\ op[p].kind = "save"
    /\ local' = [local EXCEPT ![op[p].n] = op[p].v]
    /\ Goto(p, "redis")
    /\ UNCHANGED <<redis, saves, history>>

\* then in Redis, whose error does not matter to the answer.
SaveRedis(p) ==
    /\ At(p, "redis") /\ op[p].kind = "save"
    /\ Write(op[p].n, op[p].v)
    /\ Changed(p, {op[p].v})
    /\ UNCHANGED <<local, saves>>

\* Get takes the prefix off the name it is asked for. It looks into the mirror,
Get(p, name) == Ask(p, "get", name, Bare[name])

Lookup(p) ==
    /\ At(p, "get")
    /\ IF local[op[p].n] # None
       THEN op' = [op EXCEPT ![p].at = "done", ![p].v = local[op[p].n]]
       ELSE Goto(p, "fetch")
    /\ UNCHANGED <<stores, history>>

\* then into Redis,
Fetch(p) ==
    /\ At(p, "fetch")
    /\ op' = [op EXCEPT ![p].at = IF redis[op[p].n] = None THEN "done" ELSE "fill",
                        ![p].v = redis[op[p].n]]
    /\ UNCHANGED <<stores, history>>

\* which may not answer,
FetchNothing(p) ==
    /\ At(p, "fetch")
    /\ op' = [op EXCEPT ![p].at = "done", ![p].lost = TRUE]
    /\ UNCHANGED <<stores, history>>

\* and leaves what it found in the mirror.
Fill(p) ==
    /\ At(p, "fill")
    /\ local' = [local EXCEPT ![op[p].n] = op[p].v]
    /\ Goto(p, "done")
    /\ UNCHANGED <<redis, saves, history>>

\* List reads the index; without it, it shows what the mirror has.
List(p) == Ask(p, "list", NoOp.asked, NoOp.n)

ListIndex(p) ==
    /\ At(p, "list")
    /\ \/ op' = [op EXCEPT ![p].at = "read", ![p].left = {n \in Names : redis[n] # None}]
       \/ op' = [op EXCEPT ![p].at = "done", ![p].shown = local, ![p].lost = TRUE]
    /\ UNCHANGED <<stores, history>>

\* Then it reads the records one by one, and passes over those it does not get.
ListRead(p, n) ==
    /\ At(p, "read") /\ n \in op[p].left
    /\ \/ op' = [op EXCEPT ![p].left = @ \ {n}, ![p].shown = [@ EXCEPT ![n] = redis[n]]]
       \/ op' = [op EXCEPT ![p].left = @ \ {n}, ![p].lost = TRUE]
    /\ UNCHANGED <<stores, history>>

ListDone(p) ==
    /\ At(p, "read") /\ op[p].left = {}
    /\ Goto(p, "done")
    /\ UNCHANGED <<stores, history>>

\* Mutant of DeleteRedis: the record is left.
DeleteRedisNot(p) ==
    /\ At(p, "redis") /\ op[p].kind = "delete"
    /\ LET n == op[p].n
       IN  /\ Write(n, redis[n])
           /\ may' = [may EXCEPT ![n] = @ \cup stale'[n]]
           /\ op' = [q \in Procs |-> IF q = p THEN [op[q] EXCEPT !.at = "mirror"]
                                     ELSE Heard(op[q], n, stale'[n])]
    /\ UNCHANGED <<local, saves>>

\* Delete takes the prefix off as well. It begins with Redis, whose error it does
\* not look at,
Delete(p, name) == Change(p, "delete", "redis", name, Bare[name], None) /\ UNCHANGED stores

DeleteRedis(p) ==
    /\ At(p, "redis") /\ op[p].kind = "delete"
    /\ LET n == op[p].n
       IN  /\ Write(n, None)
           /\ may' = [may EXCEPT ![n] = @ \cup stale'[n]]
           /\ op' = [q \in Procs |-> IF q = p THEN [op[q] EXCEPT !.at = "mirror"]
                                     ELSE Heard(op[q], n, stale'[n])]
    /\ UNCHANGED <<local, saves>>

\* Mutant of DeleteMirror: a combo read from Redis stays in the mirror.
DeleteMirrorNot(p) ==
    /\ At(p, "mirror") /\ op[p].kind = "delete"
    /\ Changed(p, {None} \cup stale[op[p].n])
    /\ UNCHANGED <<stores, stale>>

\* and ends with the mirror.
DeleteMirror(p) ==
    /\ At(p, "mirror") /\ op[p].kind = "delete"
    /\ local' = [local EXCEPT ![op[p].n] = None]
    /\ Changed(p, {None} \cup stale[op[p].n])
    /\ UNCHANGED <<redis, saves, stale>>

\* The answer is taken.
Return(p) ==
    /\ At(p, "done")
    /\ op' = [op EXCEPT ![p] = NoOp]
    /\ UNCHANGED <<stores, history>>

\* A new process has an empty mirror, and knows what Redis knows.
Restart ==
    /\ local' = [n \in Names |-> None]
    /\ op' = [p \in Procs |-> NoOp]
    /\ may' = [n \in Names |-> may[n] \cup stale[n]]
    /\ UNCHANGED <<redis, saves, stale>>

\* Any operation begins.
Call(p) ==
    \/ \E n \in Names : Save(p, n) \/ Get(p, n) \/ Delete(p, n)
    \/ List(p)

\* An operation's next step.
Step(p) ==
    \/ SaveMirror(p) \/ SaveRedis(p)
    \/ Lookup(p) \/ Fetch(p) \/ FetchNothing(p) \/ Fill(p)
    \/ ListIndex(p) \/ (\E n \in Names : ListRead(p, n)) \/ ListDone(p)
    \/ DeleteRedis(p) \/ DeleteMirror(p)

Next == Restart \/ \E p \in Procs : Call(p) \/ Step(p) \/ Return(p)

Spec == Init /\ [][Next]_vars

-----------------------------------------------------------------------------
Answered(p, kind) == At(p, "done") /\ op[p].kind = kind /\ ~op[p].lost

\* What Get answers for a name, with the prefix or without, is what the last Save
\* or Delete left that ran while nothing else used the name, or what a change begun
\* since was to leave; so a combo is served as it was saved, and is found as long
\* as no Delete of it has begun.  A write Redis answered with an error is a change
\* whose end is open: after a failed Delete, or a restart after a failed Save, the
\* combo may be what Redis has.  A Get that Redis did not answer says nothing.
ServedAsSaved == \A p \in Procs : Answered(p, "get") => op[p].v \in op[p].may[op[p].n]

\* A listing shows for every name such a combo, or what Redis kept of a failed
\* write, whatever runs while it reads the records one by one.
ListAgrees == \A p \in Procs : Answered(p, "list") => \A n \in Names : op[p].shown[n] \in op[p].may[n]

\* docs/API.md:321, of GET /api/combos/{name}: "Accepts the bare name or
\* `combo:<name>`", and :305, of POST: "Create or replace a combo".  A combo that
\* was saved is found under the name it was saved under.
FoundByItsName ==
    \A p \in Procs : Answered(p, "get") /\ None \notin op[p].may[op[p].asked] => op[p].v # None

\* combos.go:43: "Store keeps combos in Redis ("gw:combo:*") with a local
\* read-through mirror", and :158: "Delete removes a combo".  While nothing is being
\* done with a name and its last write did not fail, the mirror has no combo that
\* Redis has no more.
DeletedIsGone ==
    \A n \in Names : stale[n] = {} /\ redis[n] = None /\ (\A q \in Procs : ~Busy(q, n)) => local[n] = None
=============================================================================
