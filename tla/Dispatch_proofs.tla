--------------------------- MODULE Dispatch_proofs ---------------------------
(***************************************************************************)
(* Proofs about Dispatch: what a handler does for whom, how many requests  *)
(* the limiter lets pass and whom it refuses, that the combo store serves  *)
(* what was saved, for any number of requests, sources and names, and that *)
(* the composition keeps what its parts promise.                           *)
(***************************************************************************)
EXTENDS Dispatch, FiniteSetTheorems, WellFoundedInduction, TLAPS

-----------------------------------------------------------------------------
\* The store's inductive invariant.

Changing(o) == o.at \in {"mirror", "redis"}
Asking(o) == o.at \notin {"idle", "done"} /\ ~C!IsChange(o.kind)

\* Mirror and Redis have what the name may stand for; Redis alone also what a failed
\* write left, but not while the mirror sends questions there.
NameInv(n) ==
    /\ local[n] # C!None => local[n] \in may[n]
    /\ local[n] = C!None => redis[n] \in may[n]
    /\ redis[n] \in may[n] \cup stale[n]

\* Which steps are whose.
KindRight(o) ==
    /\ o.at \in {"mirror", "redis"} => o.kind \in {"save", "delete"} /\ (o.kind = "save" <=> o.v # C!None)
    /\ o.at \in {"get", "fetch", "fill"} => o.kind = "get"
    /\ o.at \in {"list", "read"} => o.kind = "list"

\* The name may stand for what is being written; a change that is alone has done
\* one half.
ChangeInv(p) ==
    LET n == op[p].n
    IN  Changing(op[p]) =>
            /\ op[p].v \in may[n]
            /\ op[p].kind = "delete" /\ op[p].at = "mirror" => redis[n] \in may[n]
            /\ op[p].alone =>
                  /\ \A q \in Procs \ {p} : ~C!Busy(q, n)
                  /\ op[p].kind = "save" /\ op[p].at = "redis" => local[n] = op[p].v
                  /\ op[p].kind = "delete" /\ op[p].at = "mirror" => redis[n] \in {C!None} \cup stale[n]

\* What Get has read or goes on to read, the name may stand for.
GetInv(p) ==
    LET n == op[p].n
    IN  /\ op[p].at \in {"get", "fetch", "fill"} => may[n] \subseteq op[p].may[n]
        /\ op[p].at = "fetch" => redis[n] \in may[n]
        /\ op[p].at = "fill" => op[p].v \in may[n]
        /\ op[p].at = "done" /\ op[p].kind = "get" /\ ~op[p].lost => op[p].v \in op[p].may[n]

\* What List has read, or may read yet, it may show.
ListInv(p) ==
    /\ op[p].at \in {"list", "read"} =>
          /\ \A m \in Names : redis[m] \in op[p].may[m]
          /\ \A q \in Procs : Changing(op[q]) => op[q].v \in op[p].may[op[q].n]
    /\ op[p].at = "list" => op[p].shown = C!NoOp.shown
    /\ op[p].at \in {"read", "done"} /\ op[p].kind = "list" /\ ~op[p].lost =>
          \A m \in Names : m \in op[p].left \/ op[p].shown[m] \in op[p].may[m]
    /\ op[p].at = "done" /\ op[p].kind = "list" => op[p].lost \/ op[p].left = {}

OpInv(p) == KindRight(op[p]) /\ ChangeInv(p) /\ GetInv(p) /\ ListInv(p)

StoreInv ==
    /\ C!TypeOK
    /\ \A n \in Names : NameInv(n)
    /\ \A p \in Procs : OpInv(p)

LEMMA Distinct == C!None \notin C!Versions /\ C!None \in C!Values /\ C!Versions \subseteq C!Values
  BY DispatchAssumption DEF C!Versions, C!None, C!Values

LEMMA NoOpType == C!NoOp \in C!Operation
  BY DispatchAssumption DEF C!NoOp, C!Operation, C!None, C!Values

\* Another operation than the one that takes a step: it may hear of more values and
\* lose its name to itself.
Grew(q, n, S) ==
    /\ op'[q].at = op[q].at /\ op'[q].kind = op[q].kind /\ op'[q].n = op[q].n /\ op'[q].v = op[q].v
    /\ op'[q].left = op[q].left /\ op'[q].shown = op[q].shown /\ op'[q].lost = op[q].lost
    /\ op'[q].alone => op[q].alone
    /\ \A m \in Names : op[q].may[m] \subseteq op'[q].may[m]
    /\ Asking(op[q]) => S \subseteq op'[q].may[n]
    /\ ~Asking(op[q]) => op'[q].may = op[q].may

\* What a step of p on the name n does, as the others see it: p writes to Redis what
\* it has announced, and the name comes to stand for no more than S besides, or p has
\* it to itself.
Effect(p, n, S) ==
    /\ n \in Names
    /\ \A m \in Names \ {n} : local'[m] = local[m] /\ redis'[m] = redis[m] /\ may'[m] = may[m] /\ stale'[m] = stale[m]
    /\ \/ may[n] \subseteq may'[n] /\ may'[n] \subseteq may[n] \cup S
       \/ \A q \in Procs \ {p} : ~C!Busy(q, n)
    /\ redis'[n] = redis[n] \/ (Changing(op[p]) /\ op[p].n = n /\ redis'[n] = op[p].v)
    /\ (local'[n] = local[n] /\ redis'[n] = redis[n] /\ stale'[n] = stale[n]) \/ C!Busy(p, n)
    /\ \A q \in Procs \ {p} : Grew(q, n, S)
    /\ Changing(op'[p]) => /\ op'[p].n = n
                           /\ (Changing(op[p]) /\ op[p].n = n /\ op'[p].v = op[p].v) \/ op'[p].v \in S
    /\ \A q \in Procs \ {p} : Changing(op[q]) /\ C!Busy(p, op[q].n)' => C!Busy(p, op[q].n) \/ ~op'[q].alone

\* A step keeps what holds of the other operations.
LEMMA Others ==
    ASSUME StoreInv, NEW p \in Procs, NEW n, NEW S, Effect(p, n, S), NEW q \in Procs \ {p}
    PROVE  OpInv(q)'
<1> DEFINE m == op[q].n
<1>1. OpInv(q) /\ op[q] \in C!Operation /\ OpInv(p) /\ m \in Names /\ n \in Names
  BY DEF StoreInv, C!TypeOK, Effect, C!Operation
<1>2. Grew(q, n, S)
  BY DEF Effect
<1>3. C!Busy(q, m) => may[m] \subseteq may'[m]
  BY <1>1 DEF Effect
<1>4. C!Busy(q, m) /\ redis[m] \in may[m] => redis'[m] \in may'[m]
  <2>1. CASE m # n
    BY <1>1, <2>1 DEF Effect
  <2>2. CASE m = n
    <3>1. redis'[n] = redis[n] \/ redis'[n] \in may[n]
      BY <1>1 DEF Effect, OpInv, ChangeInv
    <3> QED
      BY <1>3, <2>2, <3>1
  <2> QED
    BY <2>1, <2>2
<1>5. KindRight(op[q])'
  BY <1>1, <1>2 DEF OpInv, KindRight, Grew
<1>6. ChangeInv(q)'
  <2>1. SUFFICES ASSUME Changing(op[q])
                 PROVE  /\ op[q].v \in may'[m]
                        /\ op[q].kind = "delete" /\ op[q].at = "mirror" => redis'[m] \in may'[m]
                        /\ op'[q].alone =>
                              /\ \A r \in Procs \ {q} : ~C!Busy(r, m)'
                              /\ op[q].kind = "save" /\ op[q].at = "redis" => local'[m] = op[q].v
                              /\ op[q].kind = "delete" /\ op[q].at = "mirror" => redis'[m] \in {C!None} \cup stale'[m]
    BY <1>2 DEF ChangeInv, Grew, Changing
  <2>2. C!Busy(q, m)
    BY <1>1, <2>1 DEF OpInv, KindRight, Changing, C!Busy, C!Runs
  <2>3. op[q].v \in may[m] /\ (op[q].kind = "delete" /\ op[q].at = "mirror" => redis[m] \in may[m])
    BY <1>1, <2>1 DEF OpInv, ChangeInv
  <2>4. ASSUME op'[q].alone
        PROVE  /\ \A r \in Procs \ {q} : ~C!Busy(r, m)'
               /\ op[q].kind = "save" /\ op[q].at = "redis" => local'[m] = op[q].v
               /\ op[q].kind = "delete" /\ op[q].at = "mirror" => redis'[m] \in {C!None} \cup stale'[m]
    <3>1. /\ \A r \in Procs \ {q} : ~C!Busy(r, m)
          /\ op[q].kind = "save" /\ op[q].at = "redis" => local[m] = op[q].v
          /\ op[q].kind = "delete" /\ op[q].at = "mirror" => redis[m] \in {C!None} \cup stale[m]
      BY <1>1, <1>2, <2>1, <2>4 DEF OpInv, ChangeInv, Grew
    <3>2. ~C!Busy(p, m)'
      BY <2>1, <2>4, <3>1 DEF Effect
    <3>3. ASSUME NEW r \in Procs \ {p, q} PROVE ~C!Busy(r, m)'
      <4>1. ~C!Busy(r, m) /\ Grew(r, n, S)
        BY <3>1 DEF Effect
      <4>2. op'[q].n = op[q].n
        BY <1>2 DEF Grew
      <4> QED
        BY <4>1, <4>2 DEF Grew, C!Busy, C!Runs
    <3>4. local'[m] = local[m] /\ redis'[m] = redis[m] /\ stale'[m] = stale[m]
      <4>1. CASE m # n
        BY <1>1, <4>1 DEF Effect
      <4>2. CASE m = n
        BY <3>1, <4>2 DEF Effect
      <4> QED
        BY <4>1, <4>2
    <3> QED
      BY <3>1, <3>2, <3>3, <3>4
  <2> QED
    BY <1>3, <1>4, <2>2, <2>3, <2>4
<1>7. GetInv(q)'
  <2>1. CASE op[q].at \in {"get", "fetch", "fill"}
    <3>1. C!Busy(q, m) /\ Asking(op[q])
      BY <1>1, <2>1 DEF OpInv, KindRight, C!Busy, C!Runs, Asking, C!IsChange
    <3>2. may'[m] \subseteq op'[q].may[m]
      <4>1. may[m] \subseteq op[q].may[m] /\ op[q].may[m] \subseteq op'[q].may[m]
        BY <1>1, <1>2, <2>1 DEF OpInv, GetInv, Grew
      <4>2. m = n => S \subseteq op'[q].may[m]
        BY <1>2, <3>1 DEF Grew
      <4>3. may'[m] \subseteq may[m] \/ (m = n /\ may'[m] \subseteq may[m] \cup S)
        BY <1>1, <3>1 DEF Effect
      <4> QED
        BY <4>1, <4>2, <4>3
    <3> QED
      BY <1>1, <1>2, <1>3, <1>4, <2>1, <3>1, <3>2 DEF OpInv, GetInv, Grew
  <2>2. CASE op[q].at \notin {"get", "fetch", "fill"}
    <3>1. op[q].at = "done" => op'[q].may = op[q].may
      BY <1>2 DEF Grew, Asking
    <3> QED
      BY <1>1, <1>2, <2>2, <3>1 DEF OpInv, GetInv, Grew
  <2> QED
    BY <2>1, <2>2
<1>8. ListInv(q)'
  <2>1. CASE op[q].at \in {"list", "read"}
    <3>1. Asking(op[q]) /\ op[q].kind = "list"
      BY <1>1, <2>1 DEF OpInv, KindRight, Asking, C!IsChange
    <3>2. /\ \A k \in Names : redis[k] \in op[q].may[k]
          /\ \A r \in Procs : Changing(op[r]) => op[r].v \in op[q].may[op[r].n]
          /\ \A k \in Names : op[q].may[k] \subseteq op'[q].may[k]
          /\ S \subseteq op'[q].may[n]
      BY <1>1, <1>2, <2>1, <3>1 DEF OpInv, ListInv, Grew
    <3>3. ASSUME NEW k \in Names PROVE redis'[k] \in op'[q].may[k]
      BY <1>1, <3>2 DEF Effect
    <3>4. ASSUME NEW r \in Procs, Changing(op'[r]) PROVE op'[r].v \in op'[q].may[op'[r].n]
      <4>1. CASE r = p
        BY <1>1, <3>2, <3>4, <4>1 DEF Effect
      <4>2. CASE r = q
        BY <1>2, <2>1, <3>4, <4>2 DEF Grew, Changing
      <4>3. CASE r \notin {p, q}
        <5>1. Grew(r, n, S) /\ op[r].n \in Names
          BY <4>3 DEF Effect, StoreInv, C!TypeOK, C!Operation
        <5>2. op'[r].v = op[r].v /\ op'[r].n = op[r].n /\ Changing(op[r])
          BY <3>4, <5>1 DEF Grew, Changing
        <5> QED
          BY <3>2, <5>1, <5>2
      <4> QED
        BY <4>1, <4>2, <4>3
    <3> QED
      BY <1>1, <1>2, <2>1, <3>2, <3>3, <3>4 DEF OpInv, ListInv, Grew
  <2>2. CASE op[q].at \notin {"list", "read"}
    <3>1. op[q].at = "done" => op'[q].may = op[q].may
      BY <1>2 DEF Grew, Asking
    <3> QED
      BY <1>1, <1>2, <2>2, <3>1 DEF OpInv, ListInv, Grew
  <2> QED
    BY <2>1, <2>2
<1> QED
  BY <1>5, <1>6, <1>7, <1>8 DEF OpInv

\* So a step has to show what holds of its own name and operation.
LEMMA Assemble ==
    ASSUME StoreInv, NEW p \in Procs, NEW n, NEW S, Effect(p, n, S), C!TypeOK', NameInv(n)', OpInv(p)'
    PROVE  StoreInv'
<1>1. ASSUME NEW m \in Names PROVE NameInv(m)'
  <2>1. CASE m # n
    BY <2>1 DEF Effect, StoreInv, NameInv
  <2> QED
    BY <2>1
<1> QED
  BY <1>1, Others DEF StoreInv

\* A step that changes one operation and no store.
LEMMA Quiet ==
    ASSUME StoreInv, NEW p \in Procs, NEW r \in C!Operation,
           op' = [op EXCEPT ![p] = r], UNCHANGED <<local, redis, saves, may, stale>>,
           r.n = op[p].n \/ r.at = "idle",
           op[p].at \in {"idle", "done"} \/ op[p].kind = "list" => r.at \in {"idle", "done"} \/ r.kind = "list",
           ~Changing(r), r.at = "fill" => r.v # C!None,
           OpInv(p)'
    PROVE  StoreInv'
<1>1. op' \in [Procs -> C!Operation] /\ op'[p] = r /\ \A q \in Procs \ {p} : op'[q] = op[q]
  BY DEF StoreInv, C!TypeOK
<1>2. C!TypeOK'
  BY <1>1 DEF StoreInv, C!TypeOK
<1>3. PICK n \in Names : n = op[p].n
  BY DEF StoreInv, C!TypeOK, C!Operation
<1>4. NameInv(n)'
  BY DEF StoreInv, NameInv
<1>5. Effect(p, n, {})
  <2>1. \A q \in Procs \ {p} : Grew(q, n, {})
    BY <1>1 DEF Grew
  <2>2. ~Changing(op'[p])
    BY <1>1
  <2>3. \A q \in Procs \ {p} : op'[q].n = op[q].n
    BY <1>1
  <2>4. \A m \in Names : C!Busy(p, m)' => C!Busy(p, m)
    BY <1>1 DEF C!Busy, C!Runs
  <2>5. \A q \in Procs \ {p} : op[q].n \in Names
    BY DEF StoreInv, C!TypeOK, C!Operation
  <2>6. ASSUME NEW q \in Procs \ {p}, C!Busy(p, op[q].n)' PROVE C!Busy(p, op[q].n)
    BY <1>1, <2>3, <2>6 DEF C!Busy, C!Runs
  <2> QED
    BY <1>3, <2>1, <2>2, <2>6 DEF Effect
<1> QED
  BY <1>2, <1>4, <1>5, Assemble

LEMMA StoreLookup == ASSUME StoreInv, NEW p \in Procs, C!Lookup(p) PROVE StoreInv'
<1>1. op[p] \in C!Operation /\ op[p].n \in Names /\ op[p].kind = "get" /\ op[p].at = "get"
  BY DEF StoreInv, C!TypeOK, C!Operation, OpInv, KindRight, C!Lookup, C!At
<1>2. may[op[p].n] \subseteq op[p].may[op[p].n] /\ NameInv(op[p].n)
  BY <1>1 DEF StoreInv, OpInv, GetInv
<1>3. CASE local[op[p].n] # C!None
  <2> DEFINE r == [op[p] EXCEPT !.at = "done", !.v = local[op[p].n]]
  <2>1. op' = [op EXCEPT ![p] = r] /\ UNCHANGED <<local, redis, saves, may, stale>>
    BY <1>3 DEF C!Lookup, C!stores, C!history, StoreInv, C!TypeOK
  <2>2. r \in C!Operation /\ r.at = "done" /\ r.n = op[p].n /\ r.v = local[op[p].n] /\ r.kind = "get"
        /\ r.may = op[p].may
    BY <1>1 DEF C!Operation, StoreInv, C!TypeOK
  <2>3. op'[p] = r
    BY <2>1 DEF StoreInv, C!TypeOK
  <2> HIDE DEF r
  <2>4. OpInv(p)'
    BY <1>2, <1>3, <2>1, <2>2, <2>3 DEF OpInv, KindRight, ChangeInv, GetInv, ListInv, NameInv, Changing
  <2> QED
    BY <2>1, <2>2, <2>4, Quiet DEF Changing
<1>4. CASE local[op[p].n] = C!None
  <2> DEFINE r == [op[p] EXCEPT !.at = "fetch"]
  <2>1. op' = [op EXCEPT ![p] = r] /\ UNCHANGED <<local, redis, saves, may, stale>>
    BY <1>4 DEF C!Lookup, C!Goto, C!stores, C!history, StoreInv, C!TypeOK
  <2>2. r \in C!Operation /\ r.at = "fetch" /\ r.n = op[p].n /\ r.kind = "get" /\ r.may = op[p].may
    BY <1>1 DEF C!Operation
  <2>3. op'[p] = r
    BY <2>1 DEF StoreInv, C!TypeOK
  <2> HIDE DEF r
  <2>4. OpInv(p)'
    BY <1>2, <1>4, <2>1, <2>2, <2>3 DEF OpInv, KindRight, ChangeInv, GetInv, ListInv, NameInv, Changing
  <2> QED
    BY <1>1, <2>1, <2>2, <2>4, Quiet DEF Changing
<1> QED
  BY <1>3, <1>4

LEMMA StoreFetch == ASSUME StoreInv, NEW p \in Procs, C!Fetch(p) \/ C!FetchNothing(p) PROVE StoreInv'
<1>1. op[p] \in C!Operation /\ op[p].n \in Names /\ op[p].kind = "get" /\ op[p].at = "fetch"
  BY DEF StoreInv, C!TypeOK, C!Operation, OpInv, KindRight, C!Fetch, C!FetchNothing, C!At
<1>2. may[op[p].n] \subseteq op[p].may[op[p].n] /\ redis[op[p].n] \in may[op[p].n]
  BY <1>1 DEF StoreInv, OpInv, GetInv
<1>3. CASE C!Fetch(p)
  <2> DEFINE to == IF redis[op[p].n] = C!None THEN "done" ELSE "fill"
  <2> DEFINE r == [op[p] EXCEPT !.at = to, !.v = redis[op[p].n]]
  <2>1. op' = [op EXCEPT ![p] = r] /\ UNCHANGED <<local, redis, saves, may, stale>>
    BY <1>3 DEF C!Fetch, C!stores, C!history, StoreInv, C!TypeOK
  <2>2. r \in C!Operation /\ r.at = to /\ r.n = op[p].n /\ r.v = redis[op[p].n] /\ r.kind = "get"
        /\ r.may = op[p].may
    BY <1>1 DEF C!Operation, StoreInv, C!TypeOK
  <2>3. op'[p] = r
    BY <2>1 DEF StoreInv, C!TypeOK
  <2> HIDE DEF r
  <2>4. OpInv(p)'
    BY <1>2, <2>1, <2>2, <2>3 DEF OpInv, KindRight, ChangeInv, GetInv, ListInv, Changing
  <2> QED
    BY <1>1, <2>1, <2>2, <2>4, Quiet DEF Changing
<1>4. CASE C!FetchNothing(p)
  <2> DEFINE r == [op[p] EXCEPT !.at = "done", !.lost = TRUE]
  <2>1. op' = [op EXCEPT ![p] = r] /\ UNCHANGED <<local, redis, saves, may, stale>>
    BY <1>4 DEF C!FetchNothing, C!stores, C!history, StoreInv, C!TypeOK
  <2>2. r \in C!Operation /\ r.at = "done" /\ r.n = op[p].n /\ r.lost = TRUE /\ r.kind = "get"
    BY <1>1 DEF C!Operation
  <2>3. op'[p] = r
    BY <2>1 DEF StoreInv, C!TypeOK
  <2> HIDE DEF r
  <2>4. OpInv(p)'
    BY <2>1, <2>2, <2>3 DEF OpInv, KindRight, ChangeInv, GetInv, ListInv, Changing
  <2> QED
    BY <1>1, <2>1, <2>2, <2>4, Quiet DEF Changing
<1> QED
  BY <1>3, <1>4

LEMMA StoreList == ASSUME StoreInv, NEW p \in Procs, C!ListIndex(p) PROVE StoreInv'
<1>1. op[p] \in C!Operation /\ op[p].kind = "list" /\ op[p].at = "list"
  BY DEF StoreInv, C!TypeOK, OpInv, KindRight, C!ListIndex, C!At
<1>2. CASE op' = [op EXCEPT ![p].at = "read", ![p].left = {n \in Names : redis[n] # C!None}]
  <2>0. PICK L \in SUBSET Names : L = {n \in Names : redis[n] # C!None}
    OBVIOUS
  <2> DEFINE r == [op[p] EXCEPT !.at = "read", !.left = L]
  <2>1. op' = [op EXCEPT ![p] = r] /\ UNCHANGED <<local, redis, saves, may, stale>>
    BY <1>2, <2>0 DEF C!ListIndex, C!stores, C!history, StoreInv, C!TypeOK
  <2>2. r \in C!Operation /\ r.at = "read" /\ r.n = op[p].n /\ r.kind = "list" /\ r.shown = op[p].shown
        /\ r.may = op[p].may /\ r.left = L
    BY <1>1 DEF C!Operation
  <2>3. op'[p] = r /\ \A q \in Procs \ {p} : op'[q] = op[q]
    BY <2>1 DEF StoreInv, C!TypeOK
  <2> HIDE DEF r
  <2>4. /\ \A n \in Names : op[p].shown[n] = C!None
        /\ \A n \in Names : redis[n] \in op[p].may[n]
        /\ \A q \in Procs : Changing(op[q]) => op[q].v \in op[p].may[op[q].n]
    BY <1>1 DEF StoreInv, OpInv, ListInv, C!NoOp
  <2>5. \A n \in Names : n \in r.left \/ r.shown[n] \in r.may[n]
    BY <2>0, <2>2, <2>4
  <2>6. \A q \in Procs : Changing(op'[q]) => op'[q].v \in r.may[op'[q].n]
    BY <2>2, <2>3, <2>4 DEF Changing
  <2>7. OpInv(p)'
    BY <2>1, <2>2, <2>3, <2>4, <2>5, <2>6 DEF OpInv, KindRight, ChangeInv, GetInv, ListInv, Changing
  <2> QED
    BY <2>1, <2>2, <2>7, Quiet DEF Changing
<1>3. CASE op' = [op EXCEPT ![p].at = "done", ![p].shown = local, ![p].lost = TRUE]
  <2> DEFINE r == [op[p] EXCEPT !.at = "done", !.shown = local, !.lost = TRUE]
  <2>1. op' = [op EXCEPT ![p] = r] /\ UNCHANGED <<local, redis, saves, may, stale>>
    BY <1>3 DEF C!ListIndex, C!stores, C!history, StoreInv, C!TypeOK
  <2>2. r \in C!Operation /\ r.at = "done" /\ r.n = op[p].n /\ r.kind = "list" /\ r.lost = TRUE
    BY <1>1 DEF C!Operation, StoreInv, C!TypeOK
  <2>3. op'[p] = r
    BY <2>1 DEF StoreInv, C!TypeOK
  <2> HIDE DEF r
  <2>4. OpInv(p)'
    BY <2>1, <2>2, <2>3 DEF OpInv, KindRight, ChangeInv, GetInv, ListInv, Changing
  <2> QED
    BY <2>1, <2>2, <2>4, Quiet DEF Changing
<1> QED
  BY <1>2, <1>3 DEF C!ListIndex

LEMMA StoreListRead == ASSUME StoreInv, NEW p \in Procs, NEW n \in Names, C!ListRead(p, n) PROVE StoreInv'
<1>1. op[p] \in C!Operation /\ op[p].kind = "list" /\ op[p].at = "read" /\ n \in op[p].left
  BY DEF StoreInv, C!TypeOK, OpInv, KindRight, C!ListRead, C!At
<1>2. /\ \A m \in Names : redis[m] \in op[p].may[m]
      /\ \A q \in Procs : Changing(op[q]) => op[q].v \in op[p].may[op[q].n]
      /\ ~op[p].lost => \A m \in Names : m \in op[p].left \/ op[p].shown[m] \in op[p].may[m]
  BY <1>1 DEF StoreInv, OpInv, ListInv
<1>3. CASE op' = [op EXCEPT ![p].left = @ \ {n}, ![p].shown = [@ EXCEPT ![n] = redis[n]]]
  <2> DEFINE r == [op[p] EXCEPT !.left = @ \ {n}, !.shown = [@ EXCEPT ![n] = redis[n]]]
  <2>1. op' = [op EXCEPT ![p] = r] /\ UNCHANGED <<local, redis, saves, may, stale>>
    BY <1>3 DEF C!ListRead, C!stores, C!history, StoreInv, C!TypeOK
  <2>2. r \in C!Operation /\ r.at = "read" /\ r.n = op[p].n /\ r.kind = "list" /\ r.lost = op[p].lost
        /\ r.may = op[p].may /\ r.left = op[p].left \ {n} /\ r.shown = [op[p].shown EXCEPT ![n] = redis[n]]
    BY <1>1 DEF C!Operation, StoreInv, C!TypeOK
  <2>3. op'[p] = r /\ \A q \in Procs \ {p} : op'[q] = op[q]
    BY <2>1 DEF StoreInv, C!TypeOK
  <2>4. op[p].shown \in [Names -> C!Values]
    BY <1>1 DEF C!Operation
  <2> HIDE DEF r
  <2>5. ~r.lost => \A m \in Names : m \in r.left \/ r.shown[m] \in r.may[m]
    BY <1>2, <2>2, <2>4
  <2>6. \A q \in Procs : Changing(op'[q]) => op'[q].v \in r.may[op'[q].n]
    BY <1>2, <2>2, <2>3 DEF Changing
  <2>7. OpInv(p)'
    BY <1>2, <2>1, <2>2, <2>3, <2>5, <2>6 DEF OpInv, KindRight, ChangeInv, GetInv, ListInv, Changing
  <2> QED
    BY <2>1, <2>2, <2>7, Quiet DEF Changing
<1>4. CASE op' = [op EXCEPT ![p].left = @ \ {n}, ![p].lost = TRUE]
  <2> DEFINE r == [op[p] EXCEPT !.left = @ \ {n}, !.lost = TRUE]
  <2>1. op' = [op EXCEPT ![p] = r] /\ UNCHANGED <<local, redis, saves, may, stale>>
    BY <1>4 DEF C!ListRead, C!stores, C!history, StoreInv, C!TypeOK
  <2>2. r \in C!Operation /\ r.at = "read" /\ r.n = op[p].n /\ r.kind = "list" /\ r.lost = TRUE /\ r.may = op[p].may
    BY <1>1 DEF C!Operation
  <2>3. op'[p] = r /\ \A q \in Procs \ {p} : op'[q] = op[q]
    BY <2>1 DEF StoreInv, C!TypeOK
  <2> HIDE DEF r
  <2>4. \A q \in Procs : Changing(op'[q]) => op'[q].v \in r.may[op'[q].n]
    BY <1>2, <2>2, <2>3 DEF Changing
  <2>5. OpInv(p)'
    BY <1>2, <2>1, <2>2, <2>3, <2>4 DEF OpInv, KindRight, ChangeInv, GetInv, ListInv, Changing
  <2> QED
    BY <2>1, <2>2, <2>5, Quiet DEF Changing
<1> QED
  BY <1>3, <1>4 DEF C!ListRead

LEMMA StoreListDone == ASSUME StoreInv, NEW p \in Procs, C!ListDone(p) PROVE StoreInv'
<1>1. op[p] \in C!Operation /\ op[p].kind = "list" /\ op[p].at = "read" /\ op[p].left = {}
  BY DEF StoreInv, C!TypeOK, OpInv, KindRight, C!ListDone, C!At
<1>2. ~op[p].lost => \A m \in Names : op[p].shown[m] \in op[p].may[m]
  BY <1>1 DEF StoreInv, OpInv, ListInv
<1> DEFINE r == [op[p] EXCEPT !.at = "done"]
<1>3. op' = [op EXCEPT ![p] = r] /\ UNCHANGED <<local, redis, saves, may, stale>>
  BY DEF C!ListDone, C!Goto, C!stores, C!history, StoreInv, C!TypeOK
<1>4. r \in C!Operation /\ r.at = "done" /\ r.n = op[p].n /\ r.kind = "list" /\ r.lost = op[p].lost
      /\ r.may = op[p].may /\ r.left = {} /\ r.shown = op[p].shown
  BY <1>1 DEF C!Operation
<1>5. op'[p] = r
  BY <1>3 DEF StoreInv, C!TypeOK
<1> HIDE DEF r
<1>6. OpInv(p)'
  BY <1>2, <1>3, <1>4, <1>5 DEF OpInv, KindRight, ChangeInv, GetInv, ListInv, Changing
<1> QED
  BY <1>3, <1>4, <1>6, Quiet DEF Changing

LEMMA StoreReturn == ASSUME StoreInv, NEW p \in Procs, C!Return(p) PROVE StoreInv'
<1>1. op' = [op EXCEPT ![p] = C!NoOp] /\ UNCHANGED <<local, redis, saves, may, stale>>
  BY DEF C!Return, C!stores, C!history
<1>2. C!NoOp \in C!Operation /\ C!NoOp.at = "idle"
  BY NoOpType DEF C!NoOp
<1>3. op'[p] = C!NoOp
  BY <1>1 DEF StoreInv, C!TypeOK
<1>4. OpInv(p)'
  BY <1>2, <1>3 DEF OpInv, KindRight, ChangeInv, GetInv, ListInv, Changing
<1> QED
  BY <1>1, <1>2, <1>4, Quiet DEF Changing

\* Another operation while one begins, and while a value is heard of.
LEMMA JoinedType ==
    ASSUME StoreInv, NEW q \in Procs, NEW n \in Names, NEW kind
    PROVE  /\ C!Joined(q, kind, n) \in C!Operation
           /\ C!Joined(q, kind, n) = [op[q] EXCEPT !.alone = C!Joined(q, kind, n).alone]
           /\ C!Joined(q, kind, n).alone => op[q].alone
           /\ C!Joined(q, kind, n).alone /\ C!IsChange(op[q].kind) /\ C!Busy(q, n) => kind = "list"
<1> DEFINE lone == op[q].alone /\ ~(kind # "list" /\ C!IsChange(op[q].kind) /\ C!Busy(q, n))
<1>1. op[q] \in C!Operation
  BY DEF StoreInv, C!TypeOK
<1>2. lone \in BOOLEAN
  BY <1>1 DEF C!Operation
<1>3. C!Joined(q, kind, n) = [op[q] EXCEPT !.alone = lone]
  BY DEF C!Joined
<1> HIDE DEF lone
<1>4. [op[q] EXCEPT !.alone = lone].alone = lone
  BY <1>1 DEF C!Operation
<1>5. [op[q] EXCEPT !.alone = lone] \in C!Operation
  BY <1>1, <1>2 DEF C!Operation
<1> QED
  BY <1>3, <1>4, <1>5 DEF lone

LEMMA HeardType ==
    ASSUME NEW o \in C!Operation, NEW n \in Names, NEW S \in SUBSET C!Values
    PROVE  LET h == C!Heard(o, n, S)
           IN  /\ h \in C!Operation
               /\ h.at = o.at /\ h.kind = o.kind /\ h.n = o.n /\ h.v = o.v /\ h.left = o.left
               /\ h.shown = o.shown /\ h.lost = o.lost /\ h.alone = o.alone
               /\ \A m \in Names : o.may[m] \subseteq h.may[m]
               /\ Asking(o) => S \subseteq h.may[n]
               /\ ~Asking(o) => h.may = o.may
<1>1. CASE ~Asking(o)
  BY <1>1 DEF C!Heard, Asking
<1>2. CASE Asking(o)
  <2> DEFINE grown == [o.may EXCEPT ![n] = o.may[n] \cup S]
  <2>1. o.may \in [Names -> SUBSET C!Values]
    BY DEF C!Operation
  <2>2. grown \in [Names -> SUBSET C!Values] /\ (\A m \in Names : o.may[m] \subseteq grown[m]) /\ S \subseteq grown[n]
    BY <2>1
  <2>3. C!Heard(o, n, S) = [o EXCEPT !.may = grown]
    BY <1>2, <2>1 DEF C!Heard, Asking, C!Operation
  <2> HIDE DEF grown
  <2>4. [o EXCEPT !.may = grown] \in C!Operation
    BY <2>2 DEF C!Operation
  <2>5. LET h == [o EXCEPT !.may = grown]
        IN  h.at = o.at /\ h.kind = o.kind /\ h.n = o.n /\ h.v = o.v /\ h.left = o.left
            /\ h.shown = o.shown /\ h.lost = o.lost /\ h.alone = o.alone /\ h.may = grown
    BY DEF C!Operation
  <2> QED
    BY <1>2, <2>2, <2>3, <2>4, <2>5
<1> QED
  BY <1>1, <1>2

\* A question begins.
LEMMA StoreAsk ==
    ASSUME StoreInv, NEW p \in Procs, C!List(p) \/ \E n \in Names : C!Get(p, n)
    PROVE  StoreInv'
<1>1. PICK name \in Names, n \in Names, kind \in {"get", "list"} : C!Ask(p, kind, name, n)
  <2>1. CASE C!List(p)
    BY <2>1, NoOpType DEF C!List, C!Operation
  <2>2. CASE \E n \in Names : C!Get(p, n)
    <3>1. PICK name \in Names : C!Get(p, name)
      BY <2>2
    <3> QED
      BY <3>1, DispatchAssumption DEF C!Get
  <2> QED
    BY <2>1, <2>2
<1> DEFINE seen == [m \in Names |-> IF kind = "list" THEN may[m] \cup stale[m] ELSE may[m]]
<1> DEFINE mine == [C!NoOp EXCEPT !.at = kind, !.kind = kind, !.asked = name, !.n = n, !.may = seen]
<1>2. /\ op[p].at = "idle" /\ UNCHANGED <<local, redis, saves, may, stale>>
      /\ op' = [q \in Procs |-> IF q = p THEN mine ELSE C!Joined(q, kind, n)]
  <2>1. op[p].at = "idle" /\ UNCHANGED <<local, redis, saves, may, stale>>
    <3>1. C!At(p, "idle") /\ UNCHANGED <<C!stores, C!history>>
      BY <1>1, Zenon DEF C!Ask
    <3> QED
      BY <3>1 DEF C!At, C!stores, C!history
  <2>2. op' = [q \in Procs |-> IF q = p THEN mine ELSE C!Joined(q, kind, n)]
    BY <1>1, Zenon DEF C!Ask
  <2> QED
    BY <2>1, <2>2, Zenon
<1>3. seen \in [Names -> SUBSET C!Values] /\ \A m \in Names : may[m] \subseteq seen[m]
  BY DEF StoreInv, C!TypeOK
<1>4. kind = "list" => \A m \in Names : may[m] \cup stale[m] \subseteq seen[m]
  OBVIOUS
<1> HIDE DEF seen
<1>5. mine \in C!Operation /\ mine.at = kind /\ mine.kind = kind /\ mine.n = n /\ mine.may = seen
      /\ mine.shown = C!NoOp.shown
  BY <1>3, NoOpType DEF C!Operation
<1> HIDE DEF mine
<1>6. op' \in [Procs -> C!Operation] /\ op'[p] = mine /\ \A q \in Procs \ {p} : op'[q] = C!Joined(q, kind, n)
  BY <1>2, <1>5, JoinedType
<1>7. C!TypeOK'
  <2>1. \A q \in Procs \ {p} : op'[q].at = op[q].at /\ op'[q].v = op[q].v
    <3>1. ASSUME NEW q \in Procs \ {p} PROVE op'[q].at = op[q].at /\ op'[q].v = op[q].v
      BY <1>6, JoinedType DEF StoreInv, C!TypeOK, C!Operation
    <3> QED
      BY <3>1
  <2> QED
    BY <1>2, <1>5, <1>6, <2>1 DEF StoreInv, C!TypeOK
<1>8. ASSUME NEW q \in Procs \ {p}
      PROVE  Grew(q, n, {}) /\ (op'[q].alone /\ Changing(op[q]) /\ op[q].n = n => kind = "list")
  <2>1. op[q] \in C!Operation /\ KindRight(op[q])
    BY DEF StoreInv, C!TypeOK, OpInv
  <2> DEFINE j == C!Joined(q, kind, n)
  <2>2. j = [op[q] EXCEPT !.alone = j.alone] /\ (j.alone => op[q].alone)
        /\ (j.alone /\ C!IsChange(op[q].kind) /\ C!Busy(q, n) => kind = "list")
    BY JoinedType
  <2>3. op'[q] = j
    BY <1>6
  <2> HIDE DEF j
  <2>4. j.at = op[q].at /\ j.kind = op[q].kind /\ j.n = op[q].n /\ j.v = op[q].v /\ j.left = op[q].left
        /\ j.shown = op[q].shown /\ j.lost = op[q].lost /\ j.may = op[q].may
    BY <2>1, <2>2 DEF C!Operation
  <2>5. Grew(q, n, {})
    BY <2>2, <2>3, <2>4 DEF Grew
  <2>6. Changing(op[q]) /\ op[q].n = n => C!IsChange(op[q].kind) /\ C!Busy(q, n)
    BY <2>1 DEF Changing, KindRight, C!IsChange, C!Busy, C!Runs
  <2> QED
    BY <2>2, <2>3, <2>5, <2>6
<1>9. Effect(p, n, {})
  <2>1. ~Changing(op'[p])
    BY <1>5, <1>6 DEF Changing
  <2>2. ASSUME NEW q \in Procs \ {p}, Changing(op[q]), C!Busy(p, op[q].n)' PROVE ~op'[q].alone
    <3>1. kind # "list" /\ op'[q].n = n
      BY <1>5, <1>6, <2>2 DEF C!Busy
    <3>2. op[q].n = n
      BY <1>8, <3>1 DEF Grew
    <3> QED
      BY <1>8, <2>2, <3>1, <3>2
  <2> QED
    BY <1>2, <1>8, <2>1, <2>2 DEF Effect
<1>10. NameInv(n)'
  BY <1>2 DEF StoreInv, NameInv
<1>11. OpInv(p)'
  <2>1. kind = "list" => \A m \in Names : redis[m] \in seen[m]
    BY <1>4 DEF StoreInv, NameInv
  <2>2. ASSUME kind = "list", NEW q \in Procs, Changing(op'[q]) PROVE op'[q].v \in seen[op'[q].n]
    <3>1. q # p
      BY <1>5, <1>6, <2>2 DEF Changing
    <3>2. op'[q].v = op[q].v /\ op'[q].n = op[q].n /\ Changing(op[q])
      BY <1>8, <2>2, <3>1 DEF Grew, Changing
    <3>3. op[q].v \in may[op[q].n] /\ op[q].n \in Names
      BY <3>2 DEF StoreInv, OpInv, ChangeInv, C!TypeOK, C!Operation
    <3> QED
      BY <1>3, <3>2, <3>3
  <2> QED
    BY <1>2, <1>3, <1>5, <1>6, <2>1, <2>2 DEF OpInv, KindRight, ChangeInv, GetInv, ListInv, Changing
<1> QED
  BY <1>7, <1>9, <1>10, <1>11, Assemble

\* A change begins.
LEMMA StoreChange ==
    ASSUME StoreInv, NEW p \in Procs, NEW name \in Names, C!Save(p, name) \/ C!Delete(p, name)
    PROVE  StoreInv'
<1>1. PICK kind \in {"save", "delete"}, at \in {"mirror", "redis"}, n \in Names, v \in C!Values :
         /\ C!Change(p, kind, at, name, n, v)
         /\ UNCHANGED <<local, redis>> /\ saves' \in 0..MaxSaves
         /\ kind = "save" => at = "mirror" /\ v # C!None
         /\ kind = "delete" => at = "redis" /\ v = C!None
  <2>1. CASE C!Save(p, name)
    <3>1. saves + 1 \in C!Values /\ saves + 1 \in 0..MaxSaves /\ saves + 1 # C!None
      BY <2>1, DispatchAssumption DEF C!Save, StoreInv, C!TypeOK, C!Versions, C!Values, C!None
    <3> QED
      BY <2>1, <3>1 DEF C!Save
  <2>2. CASE C!Delete(p, name)
    <3>1. Bare[name] \in Names
      BY DispatchAssumption
    <3> QED
      BY <2>2, <3>1, Distinct DEF C!Delete, C!stores, StoreInv, C!TypeOK
  <2> QED
    BY <2>1, <2>2
<1> DEFINE lone == \A q \in Procs : ~C!Busy(q, n)
<1> DEFINE mine == [C!NoOp EXCEPT !.at = at, !.kind = kind, !.asked = name, !.n = n, !.v = v, !.alone = lone]
<1>2. /\ op[p].at = "idle" /\ may' = [may EXCEPT ![n] = may[n] \cup {v}] /\ stale' = stale
      /\ op' = [q \in Procs |-> IF q = p THEN mine ELSE C!Heard(C!Joined(q, kind, n), n, {v})]
  <2>1. op[p].at = "idle" /\ may' = [may EXCEPT ![n] = may[n] \cup {v}] /\ stale' = stale
    BY <1>1, Zenon DEF C!Change, C!At
  <2>2. op' = [q \in Procs |-> IF q = p THEN mine ELSE C!Heard(C!Joined(q, kind, n), n, {v})]
    BY <1>1, Zenon DEF C!Change
  <2> QED
    BY <2>1, <2>2, Zenon
<1>3. mine \in C!Operation /\ mine.at = at /\ mine.kind = kind /\ mine.n = n /\ mine.v = v /\ mine.alone = lone
  <2>1. lone \in BOOLEAN
    OBVIOUS
  <2> HIDE DEF lone
  <2> QED
    BY <2>1, NoOpType DEF C!Operation
<1> HIDE DEF mine
<1>4. ASSUME NEW q \in Procs \ {p}
      PROVE  /\ C!Heard(C!Joined(q, kind, n), n, {v}) \in C!Operation
             /\ Grew(q, n, {v})
             /\ Changing(op[q]) /\ op[q].n = n => ~op'[q].alone
  <2>1. op[q] \in C!Operation /\ KindRight(op[q])
    BY DEF StoreInv, C!TypeOK, OpInv
  <2> DEFINE j == C!Joined(q, kind, n)
  <2>2. j \in C!Operation /\ j = [op[q] EXCEPT !.alone = j.alone] /\ (j.alone => op[q].alone)
        /\ (j.alone /\ C!IsChange(op[q].kind) /\ C!Busy(q, n) => kind = "list")
    BY JoinedType
  <2> DEFINE h == C!Heard(j, n, {v})
  <2>3. op'[q] = h
    BY <1>2
  <2> HIDE DEF j
  <2>4. j.at = op[q].at /\ j.kind = op[q].kind /\ j.n = op[q].n /\ j.v = op[q].v /\ j.left = op[q].left
        /\ j.shown = op[q].shown /\ j.lost = op[q].lost /\ j.may = op[q].may
    BY <2>1, <2>2 DEF C!Operation
  <2>5. /\ h \in C!Operation
        /\ h.at = j.at /\ h.kind = j.kind /\ h.n = j.n /\ h.v = j.v /\ h.left = j.left
        /\ h.shown = j.shown /\ h.lost = j.lost /\ h.alone = j.alone
        /\ \A m \in Names : j.may[m] \subseteq h.may[m]
        /\ Asking(j) => {v} \subseteq h.may[n]
        /\ ~Asking(j) => h.may = j.may
    BY <2>2, HeardType
  <2> HIDE DEF h
  <2>6. Grew(q, n, {v})
    BY <2>2, <2>3, <2>4, <2>5 DEF Grew, Asking
  <2>7. Changing(op[q]) /\ op[q].n = n => C!IsChange(op[q].kind) /\ C!Busy(q, n)
    BY <2>1 DEF Changing, KindRight, C!IsChange, C!Busy, C!Runs
  <2> QED
    BY <2>2, <2>3, <2>5, <2>6, <2>7 DEF h, j
<1>5. op' \in [Procs -> C!Operation] /\ op'[p] = mine
  BY <1>2, <1>3, <1>4
<1>6. may' \in [Names -> SUBSET C!Values] /\ may'[n] = may[n] \cup {v} /\ \A m \in Names \ {n} : may'[m] = may[m]
  BY <1>2 DEF StoreInv, C!TypeOK
<1>7. C!TypeOK'
  <2>1. \A q \in Procs : op'[q].at = "fill" => op'[q].v # C!None
    BY <1>3, <1>4, <1>5 DEF StoreInv, C!TypeOK, Grew
  <2> QED
    BY <1>1, <1>2, <1>5, <1>6, <2>1 DEF StoreInv, C!TypeOK
<1>8. Effect(p, n, {v})
  <2>1. ASSUME NEW q \in Procs \ {p}, Changing(op[q]), C!Busy(p, op[q].n)' PROVE ~op'[q].alone
    <3>1. op'[q].n = n
      BY <1>3, <1>5, <2>1 DEF C!Busy
    <3>2. op[q].n = n
      BY <1>4, <3>1 DEF Grew
    <3> QED
      BY <1>4, <2>1, <3>2
  <2> QED
    BY <1>1, <1>2, <1>3, <1>4, <1>5, <1>6, <2>1 DEF Effect
<1>9. NameInv(n)'
  BY <1>1, <1>2, <1>6 DEF StoreInv, NameInv
<1>10. OpInv(p)'
  <2>1. ASSUME lone, NEW q \in Procs \ {p} PROVE ~C!Busy(q, n)'
    BY <1>4, <2>1 DEF Grew, C!Busy, C!Runs
  <2>2. ASSUME lone, NEW q \in Procs \ {p} PROVE ~C!Busy(q, op[p].n)'
    BY <1>3, <1>5, <2>1, <2>2 DEF C!Busy
  <2>3. ChangeInv(p)'
    BY <1>1, <1>3, <1>5, <1>6, <2>2 DEF ChangeInv, Changing
  <2>4. KindRight(op[p])' /\ GetInv(p)' /\ ListInv(p)'
    BY <1>1, <1>3, <1>5 DEF KindRight, GetInv, ListInv, C!None
  <2> QED
    BY <2>3, <2>4 DEF OpInv
<1> QED
  BY <1>7, <1>8, <1>9, <1>10, Assemble

LEMMA StoreSaveMirror == ASSUME StoreInv, NEW p \in Procs, C!SaveMirror(p) PROVE StoreInv'
<1>1. op[p] \in C!Operation /\ op[p].at = "mirror" /\ op[p].kind = "save" /\ OpInv(p)
  BY DEF C!SaveMirror, C!At, StoreInv, C!TypeOK
<1>2. PICK n \in Names : n = op[p].n
  BY <1>1 DEF C!Operation
<1> DEFINE r == [op[p] EXCEPT !.at = "redis"]
<1>3. op' = [op EXCEPT ![p] = r] /\ local' = [local EXCEPT ![n] = op[p].v] /\ UNCHANGED <<redis, saves, may, stale>>
  BY <1>2 DEF C!SaveMirror, C!Goto, C!history, StoreInv, C!TypeOK
<1>4. r \in C!Operation /\ r.at = "redis" /\ r.kind = "save" /\ r.n = n /\ r.v = op[p].v /\ r.alone = op[p].alone
  BY <1>1, <1>2 DEF C!Operation
<1>5. op[p].v \in may[n] /\ op[p].v # C!None /\ op[p].v \in C!Values
      /\ (op[p].alone => \A q \in Procs \ {p} : ~C!Busy(q, n))
  BY <1>1, <1>2 DEF OpInv, KindRight, ChangeInv, Changing, C!Operation
<1>6. op' \in [Procs -> C!Operation] /\ op'[p] = r /\ \A q \in Procs \ {p} : op'[q] = op[q]
  BY <1>3, <1>4 DEF StoreInv, C!TypeOK
<1> HIDE DEF r
<1>7. local' \in [Names -> C!Values] /\ local'[n] = op[p].v /\ \A m \in Names \ {n} : local'[m] = local[m]
  BY <1>3, <1>5 DEF StoreInv, C!TypeOK
<1>8. C!TypeOK'
  BY <1>3, <1>4, <1>6, <1>7 DEF StoreInv, C!TypeOK
<1>9. NameInv(n)'
  BY <1>3, <1>5, <1>7 DEF StoreInv, NameInv
<1>10. C!Busy(p, n) /\ Changing(op[p])
  BY <1>1, <1>2 DEF C!Busy, C!Runs, Changing
<1>11. Effect(p, n, {})
  <2>1. ASSUME NEW q \in Procs \ {p}, C!Busy(p, op[q].n)' PROVE C!Busy(p, op[q].n)
    BY <1>1, <1>2, <1>4, <1>6, <2>1 DEF C!Busy, C!Runs
  <2>2. \A q \in Procs \ {p} : Grew(q, n, {})
    BY <1>6 DEF Grew
  <2> QED
    BY <1>2, <1>3, <1>4, <1>6, <1>7, <1>10, <2>1, <2>2 DEF Effect
<1>12. OpInv(p)'
  <2>1. ASSUME op[p].alone, NEW q \in Procs \ {p} PROVE ~C!Busy(q, op[p].n)'
    BY <1>4, <1>5, <1>6, <2>1 DEF C!Busy, C!Runs
  <2>2. ChangeInv(p)'
    BY <1>3, <1>4, <1>5, <1>6, <1>7, <2>1 DEF ChangeInv
  <2>3. KindRight(op[p])'
    BY <1>4, <1>5, <1>6 DEF KindRight, C!None
  <2>4. GetInv(p)'
    BY <1>4, <1>5, <1>6 DEF GetInv
  <2>5. ListInv(p)'
    BY <1>4, <1>5, <1>6 DEF ListInv
  <2> QED
    BY <2>2, <2>3, <2>4, <2>5 DEF OpInv
<1> QED
  BY <1>8, <1>9, <1>11, <1>12, Assemble

\* What a transaction does to a name, and to no other.
LEMMA Written ==
    ASSUME StoreInv, NEW n \in Names, NEW v \in C!Values, C!Write(n, v)
    PROVE  /\ redis' \in [Names -> C!Values] /\ stale' \in [Names -> SUBSET C!Values]
           /\ \A m \in Names \ {n} : redis'[m] = redis[m] /\ stale'[m] = stale[m]
           /\ redis'[n] = redis[n] \/ redis'[n] = v
           /\ redis'[n] \in {v} \cup stale'[n]
           /\ stale'[n] \subseteq {redis'[n]}
<1>1. redis \in [Names -> C!Values] /\ stale \in [Names -> SUBSET C!Values] /\ redis[n] \in C!Values
  BY DEF StoreInv, C!TypeOK
<1> QED
  BY <1>1 DEF C!Write

LEMMA StoreDeleteRedis == ASSUME StoreInv, NEW p \in Procs, C!DeleteRedis(p) PROVE StoreInv'
<1>1. op[p] \in C!Operation /\ op[p].at = "redis" /\ op[p].kind = "delete" /\ OpInv(p)
  BY DEF C!DeleteRedis, C!At, StoreInv, C!TypeOK
<1>2. PICK n \in Names : n = op[p].n
  BY <1>1 DEF C!Operation
<1> DEFINE r == [op[p] EXCEPT !.at = "mirror"]
<1>3. C!Write(n, C!None)
  BY <1>2 DEF C!DeleteRedis
<1>4. /\ redis' \in [Names -> C!Values] /\ stale' \in [Names -> SUBSET C!Values]
      /\ \A m \in Names \ {n} : redis'[m] = redis[m] /\ stale'[m] = stale[m]
      /\ redis'[n] = redis[n] \/ redis'[n] = C!None
      /\ redis'[n] \in {C!None} \cup stale'[n]
      /\ stale'[n] \subseteq {redis'[n]}
  BY <1>3, Distinct, Written
<1>5. PICK S : S = stale'[n]
  OBVIOUS
<1>6. /\ op' = [q \in Procs |-> IF q = p THEN r ELSE C!Heard(op[q], n, S)]
      /\ may' = [may EXCEPT ![n] = may[n] \cup S] /\ UNCHANGED <<local, saves>>
  BY <1>2, <1>5 DEF C!DeleteRedis
<1>7. r \in C!Operation /\ r.at = "mirror" /\ r.kind = "delete" /\ r.n = n /\ r.v = op[p].v /\ r.alone = op[p].alone
  BY <1>1, <1>2 DEF C!Operation
<1>8. op[p].v \in may[n] /\ op[p].v = C!None /\ (op[p].alone => \A q \in Procs \ {p} : ~C!Busy(q, n))
  BY <1>1, <1>2 DEF OpInv, KindRight, ChangeInv, Changing
<1> HIDE DEF r
<1>9. S \in SUBSET C!Values
  BY <1>4, <1>5
<1>10. ASSUME NEW q \in Procs \ {p} PROVE op'[q] \in C!Operation /\ Grew(q, n, S)
  <2>1. op[q] \in C!Operation /\ op'[q] = C!Heard(op[q], n, S)
    BY <1>6 DEF StoreInv, C!TypeOK
  <2> QED
    BY <1>9, <2>1, HeardType DEF Grew
<1>11. op' \in [Procs -> C!Operation] /\ op'[p] = r
  <2>1. op'[p] = r /\ \A q \in Procs : op'[q] \in C!Operation
    BY <1>6, <1>7, <1>10
  <2> QED
    BY <1>6, <2>1
<1>12. may' \in [Names -> SUBSET C!Values] /\ may'[n] = may[n] \cup S /\ \A m \in Names \ {n} : may'[m] = may[m]
  BY <1>6, <1>9 DEF StoreInv, C!TypeOK
<1>13. C!TypeOK'
  BY <1>4, <1>6, <1>7, <1>10, <1>11, <1>12 DEF StoreInv, C!TypeOK, Grew
<1>14. redis'[n] \in may'[n]
  BY <1>4, <1>5, <1>8, <1>12
<1>15. NameInv(n)'
  BY <1>6, <1>12, <1>14 DEF StoreInv, NameInv
<1>16. C!Busy(p, n) /\ Changing(op[p])
  BY <1>1, <1>2 DEF C!Busy, C!Runs, Changing
<1>17. Effect(p, n, S)
  <2>1. ASSUME NEW q \in Procs \ {p}, C!Busy(p, op[q].n)' PROVE C!Busy(p, op[q].n)
    BY <1>1, <1>2, <1>7, <1>10, <1>11, <2>1 DEF C!Busy, C!Runs, Grew
  <2> QED
    BY <1>2, <1>4, <1>6, <1>7, <1>8, <1>10, <1>11, <1>12, <1>16, <2>1 DEF Effect
<1>18. OpInv(p)'
  <2>1. ASSUME op[p].alone, NEW q \in Procs \ {p} PROVE ~C!Busy(q, op[p].n)'
    BY <1>7, <1>8, <1>10, <1>11, <2>1 DEF C!Busy, C!Runs, Grew
  <2>2. ChangeInv(p)'
    BY <1>4, <1>7, <1>8, <1>11, <1>12, <1>14, <2>1 DEF ChangeInv
  <2> QED
    BY <1>7, <1>8, <1>11, <2>2 DEF OpInv, KindRight, GetInv, ListInv
<1> QED
  BY <1>13, <1>15, <1>17, <1>18, Assemble

LEMMA StoreFill == ASSUME StoreInv, NEW p \in Procs, C!Fill(p) PROVE StoreInv'
<1>1. op[p] \in C!Operation /\ op[p].at = "fill" /\ op[p].kind = "get" /\ OpInv(p) /\ op[p].v # C!None
  BY DEF C!Fill, C!At, StoreInv, C!TypeOK, OpInv, KindRight
<1>2. PICK n \in Names : n = op[p].n
  BY <1>1 DEF C!Operation
<1> DEFINE r == [op[p] EXCEPT !.at = "done"]
<1>3. op' = [op EXCEPT ![p] = r] /\ local' = [local EXCEPT ![n] = op[p].v] /\ UNCHANGED <<redis, saves, may, stale>>
  BY <1>2 DEF C!Fill, C!Goto, C!history, StoreInv, C!TypeOK
<1>4. r \in C!Operation /\ r.at = "done" /\ r.kind = "get" /\ r.n = n /\ r.v = op[p].v /\ r.may = op[p].may
  BY <1>1, <1>2 DEF C!Operation
<1>5. op[p].v \in may[n] /\ may[n] \subseteq op[p].may[n] /\ op[p].v \in C!Values
  BY <1>1, <1>2 DEF OpInv, GetInv, C!Operation
<1>6. op' \in [Procs -> C!Operation] /\ op'[p] = r /\ \A q \in Procs \ {p} : op'[q] = op[q]
  BY <1>3, <1>4 DEF StoreInv, C!TypeOK
<1> HIDE DEF r
<1>7. local' \in [Names -> C!Values] /\ local'[n] = op[p].v /\ \A m \in Names \ {n} : local'[m] = local[m]
  BY <1>3, <1>5 DEF StoreInv, C!TypeOK
<1>8. C!TypeOK'
  BY <1>3, <1>4, <1>6, <1>7 DEF StoreInv, C!TypeOK
<1>9. NameInv(n)'
  BY <1>1, <1>3, <1>5, <1>7 DEF StoreInv, NameInv
<1>10. Effect(p, n, {})
  <2>1. ASSUME NEW q \in Procs \ {p}, C!Busy(p, op[q].n)' PROVE FALSE
    BY <1>4, <1>6, <2>1 DEF C!Busy, C!Runs
  <2>2. \A q \in Procs \ {p} : Grew(q, n, {})
    BY <1>6 DEF Grew
  <2>3. C!Busy(p, n) /\ ~Changing(op'[p])
    BY <1>1, <1>2, <1>4, <1>6 DEF C!Busy, C!Runs, Changing
  <2> QED
    BY <1>3, <1>7, <2>1, <2>2, <2>3 DEF Effect
<1>11. OpInv(p)'
  BY <1>4, <1>5, <1>6 DEF OpInv, KindRight, ChangeInv, GetInv, ListInv, Changing
<1> QED
  BY <1>8, <1>9, <1>10, <1>11, Assemble

\* A change is answered.
LEMMA StoreAnswered ==
    ASSUME StoreInv, NEW p \in Procs, C!SaveRedis(p) \/ C!DeleteMirror(p)
    PROVE  StoreInv'
<1>1. op[p] \in C!Operation /\ Changing(op[p]) /\ op[p].kind \in {"save", "delete"} /\ OpInv(p)
  BY DEF C!SaveRedis, C!DeleteMirror, C!At, StoreInv, C!TypeOK, Changing
<1>2. PICK n \in Names, v \in C!Values : n = op[p].n /\ v = op[p].v
  BY <1>1 DEF C!Operation
<1>3. v \in may[n] /\ (op[p].alone => \A q \in Procs \ {p} : ~C!Busy(q, n)) /\ C!Busy(p, n)
  BY <1>1, <1>2 DEF OpInv, ChangeInv, C!Busy, C!Runs, Changing
<1>4. PICK T \in SUBSET C!Values :
         /\ C!Changed(p, T) /\ saves' = saves
         /\ local' \in [Names -> C!Values] /\ redis' \in [Names -> C!Values] /\ stale' \in [Names -> SUBSET C!Values]
         /\ \A m \in Names \ {n} : local'[m] = local[m] /\ redis'[m] = redis[m] /\ stale'[m] = stale[m]
         /\ redis'[n] = redis[n] \/ redis'[n] = v
         /\ redis'[n] \in may[n] \cup stale'[n]
         /\ local'[n] # C!None => local'[n] \in may[n]
         /\ local'[n] = C!None => redis'[n] \in may[n]
         /\ op[p].alone => /\ local'[n] # C!None => local'[n] \in T
                           /\ local'[n] = C!None => redis'[n] \in T
                           /\ redis'[n] \in T \cup stale'[n]
  <2>1. CASE C!SaveRedis(p)
    <3>1. op[p].kind = "save" /\ op[p].at = "redis" /\ v # C!None
      BY <1>1, <1>2, <2>1 DEF C!SaveRedis, C!At, OpInv, KindRight
    <3>2. op[p].alone => local[n] = v
      BY <1>1, <1>2, <3>1 DEF OpInv, ChangeInv
    <3>3. C!Write(n, v) /\ C!Changed(p, {v}) /\ UNCHANGED <<local, saves>>
      BY <1>2, <2>1 DEF C!SaveRedis
    <3>4. /\ redis' \in [Names -> C!Values] /\ stale' \in [Names -> SUBSET C!Values]
          /\ \A m \in Names \ {n} : redis'[m] = redis[m] /\ stale'[m] = stale[m]
          /\ redis'[n] = redis[n] \/ redis'[n] = v
          /\ redis'[n] \in {v} \cup stale'[n]
      BY <3>3, Written
    <3>5. NameInv(n) /\ local \in [Names -> C!Values]
      BY DEF StoreInv, C!TypeOK
    <3>6. {v} \in SUBSET C!Values
      OBVIOUS
    <3> QED
      BY <1>3, <3>1, <3>2, <3>3, <3>4, <3>5, <3>6 DEF NameInv
  <2>2. CASE C!DeleteMirror(p)
    <3>1. op[p].kind = "delete" /\ op[p].at = "mirror"
      BY <2>2 DEF C!DeleteMirror, C!At
    <3>2. redis[n] \in may[n] /\ (op[p].alone => redis[n] \in {C!None} \cup stale[n])
      BY <1>1, <1>2, <3>1 DEF OpInv, ChangeInv, Changing
    <3>3. local' = [local EXCEPT ![n] = C!None] /\ UNCHANGED <<redis, saves, stale>> /\ C!Changed(p, {C!None} \cup stale[n])
      BY <1>2, <2>2 DEF C!DeleteMirror
    <3>4. local \in [Names -> C!Values] /\ redis \in [Names -> C!Values] /\ stale \in [Names -> SUBSET C!Values]
      BY DEF StoreInv, C!TypeOK
    <3>5. {C!None} \cup stale[n] \in SUBSET C!Values
      BY <3>4, Distinct
    <3>6. local' \in [Names -> C!Values] /\ local'[n] = C!None /\ \A m \in Names \ {n} : local'[m] = local[m]
      BY <3>3, <3>4, Distinct
    <3> QED
      BY <3>2, <3>3, <3>4, <3>5, <3>6
  <2> QED
    BY <2>1, <2>2
<1> DEFINE r == [C!NoOp EXCEPT !.at = "done", !.kind = op[p].kind]
<1>5. r \in C!Operation /\ r.at = "done" /\ r.kind = op[p].kind
  BY <1>1, NoOpType DEF C!Operation
<1>6. op' = [op EXCEPT ![p] = r] /\ may' = [may EXCEPT ![n] = IF op[p].alone THEN T ELSE may[n]]
  BY <1>2, <1>4 DEF C!Changed
<1>7. op' \in [Procs -> C!Operation] /\ op'[p] = r /\ \A q \in Procs \ {p} : op'[q] = op[q]
  BY <1>5, <1>6 DEF StoreInv, C!TypeOK
<1> HIDE DEF r
<1>8. may' \in [Names -> SUBSET C!Values] /\ may'[n] = (IF op[p].alone THEN T ELSE may[n])
      /\ \A m \in Names \ {n} : may'[m] = may[m]
  BY <1>6 DEF StoreInv, C!TypeOK
<1>9. C!TypeOK'
  BY <1>4, <1>5, <1>7, <1>8 DEF StoreInv, C!TypeOK
<1>10. NameInv(n)'
  BY <1>4, <1>8 DEF NameInv
<1>11. Effect(p, n, {})
  <2>1. ASSUME NEW q \in Procs \ {p}, C!Busy(p, op[q].n)' PROVE FALSE
    BY <1>5, <1>7, <2>1 DEF C!Busy, C!Runs
  <2>2. \A q \in Procs \ {p} : Grew(q, n, {})
    BY <1>7 DEF Grew
  <2>3. ~Changing(op'[p])
    BY <1>5, <1>7 DEF Changing
  <2>4. may'[n] = may[n] \/ \A q \in Procs \ {p} : ~C!Busy(q, n)
    BY <1>3, <1>8
  <2>5. redis'[n] = redis[n] \/ (Changing(op[p]) /\ op[p].n = n /\ redis'[n] = op[p].v)
    BY <1>1, <1>2, <1>4
  <2>6. \A m \in Names \ {n} : local'[m] = local[m] /\ redis'[m] = redis[m] /\ may'[m] = may[m] /\ stale'[m] = stale[m]
    BY <1>4, <1>8
  <2> QED
    BY <1>3, <2>1, <2>2, <2>3, <2>4, <2>5, <2>6 DEF Effect
<1>12. OpInv(p)'
  BY <1>1, <1>5, <1>7 DEF OpInv, KindRight, ChangeInv, GetInv, ListInv, Changing
<1> QED
  BY <1>9, <1>10, <1>11, <1>12, Assemble

LEMMA StoreRestart == ASSUME StoreInv, C!Restart PROVE StoreInv'
<1>1. C!NoOp \in C!Operation /\ C!NoOp.at = "idle"
  BY NoOpType DEF C!NoOp
<1>2. op' = [p \in Procs |-> C!NoOp] /\ local' = [n \in Names |-> C!None]
      /\ may' = [n \in Names |-> may[n] \cup stale[n]] /\ UNCHANGED <<redis, saves, stale>>
  BY DEF C!Restart
<1>3. op' \in [Procs -> C!Operation] /\ \A p \in Procs : op'[p] = C!NoOp
  BY <1>1, <1>2
<1>4. C!TypeOK'
  BY <1>1, <1>2, <1>3, Distinct DEF StoreInv, C!TypeOK
<1>5. ASSUME NEW n \in Names PROVE NameInv(n)'
  BY <1>2 DEF StoreInv, NameInv
<1>6. ASSUME NEW p \in Procs PROVE OpInv(p)'
  BY <1>1, <1>3 DEF OpInv, KindRight, ChangeInv, GetInv, ListInv, Changing
<1> QED
  BY <1>4, <1>5, <1>6 DEF StoreInv

\* The operations of the store preserve its invariant.
LEMMA StoreStep == ASSUME StoreInv, [C!Next]_store PROVE StoreInv'
<1>1. CASE UNCHANGED store
  <2>1. UNCHANGED <<local, redis, saves, op, may, stale>>
    BY <1>1 DEF store
  <2> QED
    BY <2>1 DEF StoreInv, C!TypeOK, NameInv, OpInv, KindRight, ChangeInv, GetInv, ListInv, C!Busy, C!Runs, Changing
<1>2. CASE C!Restart
  BY <1>2, StoreRestart
<1>3. ASSUME NEW p \in Procs, C!Call(p) PROVE StoreInv'
  BY <1>3, StoreAsk, StoreChange DEF C!Call
<1>4. ASSUME NEW p \in Procs, C!Step(p) PROVE StoreInv'
  BY <1>4, StoreSaveMirror, StoreAnswered, StoreLookup, StoreFetch, StoreFill, StoreList, StoreListRead,
     StoreListDone, StoreDeleteRedis DEF C!Step
<1>5. ASSUME NEW p \in Procs, C!Return(p) PROVE StoreInv'
  BY <1>5, StoreReturn
<1> QED
  BY <1>1, <1>2, <1>3, <1>4, <1>5 DEF C!Next, store, C!vars

LEMMA StoreStart == ASSUME C!Init PROVE StoreInv
<1>1. C!NoOp \in C!Operation /\ C!NoOp.at = "idle"
  BY NoOpType DEF C!NoOp
<1>2. /\ local = [n \in Names |-> C!None] /\ redis = [n \in Names |-> C!None] /\ saves = 0
      /\ op = [p \in Procs |-> C!NoOp] /\ may = [n \in Names |-> {C!None}] /\ stale = [n \in Names |-> {}]
  BY DEF C!Init
<1>3. C!TypeOK
  BY <1>1, <1>2, Distinct, DispatchAssumption DEF C!TypeOK
<1>4. ASSUME NEW n \in Names PROVE NameInv(n)
  BY <1>2 DEF NameInv
<1>5. ASSUME NEW p \in Procs PROVE OpInv(p)
  BY <1>1, <1>2 DEF OpInv, KindRight, ChangeInv, GetInv, ListInv, Changing
<1> QED
  BY <1>3, <1>4, <1>5 DEF StoreInv

\* StoreInv holds in every state of the store.
LEMMA StoreInvariant == StoreSpec => []StoreInv
<1>1. StoreInv /\ [C!Next]_store => StoreInv'
  BY StoreStep
<1> QED
  BY StoreStart, <1>1, PTL DEF StoreSpec, C!Spec, C!vars, store

\* What Get answers for a name is what the last Save or Delete left that had the
\* name to itself, or what a change begun since was to leave, whatever overlaps,
\* fails or restarts, for any number of requests and names (combos.Get).
THEOREM Served == StoreSpec => []ServedAsSaved
<1>1. StoreInv => ServedAsSaved
  BY DEF StoreInv, OpInv, GetInv, ServedAsSaved, C!ServedAsSaved, C!Answered, C!At
<1> QED
  BY StoreInvariant, <1>1, PTL

\* A listing shows such a combo for every name, or what Redis kept of a failed
\* write (combos.List).
THEOREM Listed == StoreSpec => []ListAgrees
<1>1. StoreInv => ListAgrees
  BY DEF StoreInv, OpInv, ListInv, ListAgrees, C!ListAgrees, C!Answered, C!At
<1> QED
  BY StoreInvariant, <1>1, PTL

-----------------------------------------------------------------------------
\* What a request has been found to be, wherever it is.
RequestRight(r) ==
    /\ r \in Request
    /\ r.pc \in {"limit", "compare", "lookup"} => authOn /\ r.path # "public" /\ r.key # "absent"
    /\ r.pc = "lookup" => r.key = "user"
    /\ r.pc = "store" => r.path = "combos"
    /\ r.tenant = "system" => r.key = "master" \/ ~authOn
    /\ r.tenant = "user" => r.key = "user"
    /\ r.pc \in {"handle", "store"} /\ r.tenant = "absent" => r.path = "public"
    /\ r.pc # "answered" => r.answer = "none"
    /\ r.pc = "answered" /\ r.answer = "done" =>
          /\ r.tenant = "absent" => r.path = "public"
          /\ r.path = "me" => r.tenant = "user"

AccessInv ==
    /\ authOn \in BOOLEAN
    /\ bucket \in [Sources -> Bucket]
    /\ passed \in [Sources -> [0..Window -> Nat]]
    /\ req \in [Procs -> Request]
    /\ \A p \in Procs : RequestRight(req[p])

LEMMA NoRequestRight == RequestRight(NoRequest)
  BY AccessAssumption DEF RequestRight, NoRequest, Request, Paths, Keys

\* A step of one request keeps the others' rights.
LEMMA OneRequest ==
    ASSUME AccessInv, NEW p \in Procs, NEW r, RequestRight(r), req' = [req EXCEPT ![p] = r],
           authOn' = authOn, bucket' \in [Sources -> Bucket], passed' \in [Sources -> [0..Window -> Nat]]
    PROVE  AccessInv'
<1>1. r \in Request
  BY DEF RequestRight
<1>2. req' \in [Procs -> Request] /\ req'[p] = r /\ \A q \in Procs \ {p} : req'[q] = req[q]
  BY <1>1 DEF AccessInv
<1>3. ASSUME NEW q \in Procs PROVE RequestRight(req[q])'
  <2>1. CASE q = p
    BY <1>2, <2>1 DEF RequestRight
  <2>2. CASE q # p
    BY <1>2, <2>2 DEF AccessInv, RequestRight
  <2> QED
    BY <2>1, <2>2
<1> QED
  BY <1>2, <1>3 DEF AccessInv

LEMMA Arrival ==
    ASSUME AccessInv, NEW p \in Procs, NEW s \in Sources, NEW a \in Asked, Arrive(p, a[1], a[2], s)
    PROVE  AccessInv'
<1>1. a[1] \in Paths /\ a[2] \in Keys
  BY AccessAssumption
<1> DEFINE base == [NoRequest EXCEPT !.path = a[1], !.key = a[2], !.src = s]
<1> DEFINE r == IF a[1] = "public" THEN [base EXCEPT !.pc = "handle"]
                ELSE IF ~authOn THEN [base EXCEPT !.pc = "handle", !.tenant = "system"]
                ELSE IF a[2] = "absent" THEN [base EXCEPT !.pc = "answered", !.answer = "unauthorized"]
                ELSE [base EXCEPT !.pc = "limit"]
<1>2. req' = [req EXCEPT ![p] = r] /\ UNCHANGED <<authOn, bucket, passed>>
  BY DEF Arrive
<1>3. RequestRight(r)
  BY <1>1 DEF RequestRight, NoRequest, Request, AccessInv
<1> HIDE DEF r
<1> QED
  BY <1>2, <1>3, OneRequest DEF AccessInv

LEMMA OneMore ==
    ASSUME NEW D, NEW d \in D, NEW f \in [D -> Nat]
    PROVE  [f EXCEPT ![d] = f[d] + 1] \in [D -> Nat]
  OBVIOUS

\* Allow counts up to the limit.
LEMMA Limited == ASSUME AccessInv, NEW p \in Procs, Allow(p) PROVE AccessInv'
<1> DEFINE s == req[p].src
<1> DEFINE b == Live(bucket[s])
<1>1. RequestRight(req[p]) /\ req[p].pc = "limit" /\ s \in Sources
  BY DEF AccessInv, Allow, At, Request
<1>2. b \in Bucket /\ bucket[s] \in Bucket
  BY <1>1, AccessAssumption DEF AccessInv, Live, Bucket
<1>3. CASE b.count >= MaxAttempts
  <2>1. req' = [req EXCEPT ![p] = [req[p] EXCEPT !.pc = "answered", !.answer = "too many"]]
        /\ bucket' = [bucket EXCEPT ![s] = b] /\ UNCHANGED <<authOn, passed>>
    BY <1>3 DEF Allow, Answer, AccessInv
  <2>2. RequestRight([req[p] EXCEPT !.pc = "answered", !.answer = "too many"])
    BY <1>1 DEF RequestRight, Request
  <2> HIDE DEF b
  <2>3. bucket' \in [Sources -> Bucket]
    BY <1>1, <1>2, <2>1 DEF AccessInv
  <2> QED
    BY <2>1, <2>2, <2>3, OneRequest DEF AccessInv
<1>4. CASE ~(b.count >= MaxAttempts)
  <2>1. req' = [req EXCEPT ![p] = [req[p] EXCEPT !.pc = "compare"]]
        /\ bucket' = [bucket EXCEPT ![s] = [b EXCEPT !.count = b.count + 1]]
        /\ passed' = [passed EXCEPT ![s] = [passed[s] EXCEPT ![0] = passed[s][0] + 1]] /\ authOn' = authOn
    BY <1>1, <1>4 DEF Allow, AccessInv
  <2>2. RequestRight([req[p] EXCEPT !.pc = "compare"])
    BY <1>1 DEF RequestRight, Request
  <2>3. [b EXCEPT !.count = b.count + 1] \in Bucket
    BY <1>2, <1>4, AccessAssumption DEF Bucket
  <2>4. [passed[s] EXCEPT ![0] = passed[s][0] + 1] \in [0..Window -> Nat]
    <3>1. passed[s] \in [0..Window -> Nat] /\ 0 \in 0..Window
      BY <1>1, AccessAssumption DEF AccessInv
    <3> HIDE DEF s
    <3> QED
      BY <3>1, OneMore
  <2>5. bucket' \in [Sources -> Bucket] /\ passed' \in [Sources -> [0..Window -> Nat]]
    BY <1>1, <2>1, <2>3, <2>4 DEF AccessInv
  <2> QED
    BY <2>1, <2>2, <2>5, OneRequest DEF AccessInv
<1> QED
  BY <1>3, <1>4

LEMMA MasterKey == ASSUME AccessInv, NEW p \in Procs, Master(p) PROVE AccessInv'
<1>1. RequestRight(req[p]) /\ req[p].pc = "compare" /\ req[p].key = "master" /\ req[p].src \in Sources
  BY DEF AccessInv, Master, At, Request
<1>2. req' = [req EXCEPT ![p] = [req[p] EXCEPT !.pc = "handle", !.tenant = "system"]] /\ authOn' = authOn
  BY DEF Master, Handler, AccessInv
<1>3. RequestRight([req[p] EXCEPT !.pc = "handle", !.tenant = "system"])
  BY <1>1 DEF RequestRight, Request
<1>4. NoBucket \in Bucket
  BY AccessAssumption DEF NoBucket, Bucket
<1>5. bucket' \in [Sources -> Bucket] /\ passed' \in [Sources -> [0..Window -> Nat]]
  BY <1>1, <1>4 DEF Master, Cleared, AccessInv
<1> QED
  BY <1>2, <1>3, <1>5, OneRequest

\* The steps that change the request alone.
LEMMA OtherSteps ==
    ASSUME AccessInv, NEW p \in Procs,
           NotMaster(p) \/ UserKey(p) \/ Handle(p) \/ ToStore(p) \/ Reject(p) \/ FromStore(p) \/ Leave(p)
    PROVE  AccessInv'
<1>1. RequestRight(req[p]) /\ req[p] \in Request
  BY DEF AccessInv
<1>2. UNCHANGED <<authOn, bucket, passed>>
  BY DEF NotMaster, UserKey, Handle, ToStore, Reject, FromStore, Leave
<1>3. PICK r : RequestRight(r) /\ req' = [req EXCEPT ![p] = r]
  <2>1. CASE NotMaster(p)
    <3>1. CASE req[p].key = "user"
      <4>1. RequestRight([req[p] EXCEPT !.pc = "lookup"]) /\ req' = [req EXCEPT ![p] = [req[p] EXCEPT !.pc = "lookup"]]
        BY <1>1, <2>1, <3>1 DEF NotMaster, At, RequestRight, Request, AccessInv
      <4> QED
        BY <4>1
    <3>2. CASE req[p].key # "user"
      <4> DEFINE r == [req[p] EXCEPT !.pc = "answered", !.answer = "unauthorized"]
      <4>1. RequestRight(r) /\ req' = [req EXCEPT ![p] = r]
        BY <1>1, <2>1, <3>2 DEF NotMaster, Answer, At, RequestRight, Request, AccessInv
      <4> QED
        BY <4>1
    <3> QED
      BY <3>1, <3>2
  <2>2. CASE UserKey(p)
    <3>1. CASE Handler(p, "user")
      <4> DEFINE r == [req[p] EXCEPT !.pc = "handle", !.tenant = "user"]
      <4>1. RequestRight(r) /\ req' = [req EXCEPT ![p] = r]
        BY <1>1, <2>2, <3>1 DEF UserKey, Handler, At, RequestRight, Request, AccessInv
      <4> QED
        BY <4>1
    <3>2. CASE Answer(p, "unauthorized")
      <4> DEFINE r == [req[p] EXCEPT !.pc = "answered", !.answer = "unauthorized"]
      <4>1. RequestRight(r) /\ req' = [req EXCEPT ![p] = r]
        BY <1>1, <2>2, <3>2 DEF UserKey, Answer, At, RequestRight, Request, AccessInv
      <4> QED
        BY <4>1
    <3> QED
      BY <2>2, <3>1, <3>2 DEF UserKey
  <2>3. CASE Handle(p)
    <3> DEFINE r(answer) == [req[p] EXCEPT !.pc = "answered", !.answer = answer]
    <3>1. RequestRight(r("forbidden"))
      BY <1>1 DEF RequestRight, Request
    <3>2. ASSUME req[p].pc = "handle", req[p].path = "me" => req[p].tenant = "user" PROVE RequestRight(r("done"))
      BY <1>1, <3>2 DEF RequestRight, Request
    <3>3. req[p].pc = "handle"
          /\ \/ req' = [req EXCEPT ![p] = r("forbidden")]
             \/ req' = [req EXCEPT ![p] = r("done")] /\ (req[p].path = "me" => req[p].tenant = "user")
      BY <2>3 DEF Handle, Answer, At, AccessInv
    <3> HIDE DEF r
    <3> QED
      BY <3>1, <3>2, <3>3
  <2>4. CASE ToStore(p)
    <3> DEFINE r == [req[p] EXCEPT !.pc = "store"]
    <3>1. RequestRight(r) /\ req' = [req EXCEPT ![p] = r]
      BY <1>1, <2>4 DEF ToStore, At, RequestRight, Request, AccessInv
    <3> QED
      BY <3>1
  <2>5. CASE Reject(p)
    <3> DEFINE r == [req[p] EXCEPT !.pc = "answered", !.answer = "invalid"]
    <3>1. RequestRight(r) /\ req' = [req EXCEPT ![p] = r]
      BY <1>1, <2>5 DEF Reject, Answer, At, RequestRight, Request, AccessInv
    <3> QED
      BY <3>1
  <2>6. CASE FromStore(p)
    <3> DEFINE r == [req[p] EXCEPT !.pc = "answered", !.answer = "done"]
    <3>1. RequestRight(r) /\ req' = [req EXCEPT ![p] = r]
      BY <1>1, <2>6 DEF FromStore, Answer, At, RequestRight, Request, AccessInv
    <3> QED
      BY <3>1
  <2>7. CASE Leave(p)
    BY <2>7, NoRequestRight DEF Leave
  <2> QED
    BY <2>1, <2>2, <2>3, <2>4, <2>5, <2>6, <2>7
<1> QED
  BY <1>2, <1>3, OneRequest DEF AccessInv

LEMMA AllAge == ASSUME AccessInv, Tick PROVE AccessInv'
<1>1. UNCHANGED <<authOn, req>>
  BY DEF Tick
<1>2. bucket' \in [Sources -> Bucket]
  <2>1. ASSUME NEW s \in Sources
        PROVE  [bucket[s] EXCEPT !.age = IF bucket[s].age > Window THEN bucket[s].age ELSE bucket[s].age + 1] \in Bucket
    <3>1. bucket[s] \in Bucket
      BY DEF AccessInv
    <3> QED
      BY <3>1, AccessAssumption DEF Bucket
  <2> QED
    BY <2>1 DEF Tick
<1>3. passed' \in [Sources -> [0..Window -> Nat]]
  <2>1. ASSUME NEW s \in Sources PROVE [a \in 0..Window |-> IF a = 0 THEN 0 ELSE passed[s][a - 1]] \in [0..Window -> Nat]
    BY AccessAssumption DEF AccessInv
  <2> QED
    BY <2>1 DEF Tick
<1> QED
  BY <1>1, <1>2, <1>3 DEF AccessInv, RequestRight

LEMMA NewProcess ==
    ASSUME authOn \in BOOLEAN, bucket = [s \in Sources |-> NoBucket], req = [p \in Procs |-> NoRequest],
           passed = [s \in Sources |-> [a \in 0..Window |-> 0]]
    PROVE  AccessInv
<1>1. NoBucket \in Bucket /\ NoRequest \in Request
  BY AccessAssumption, NoRequestRight DEF NoBucket, Bucket, RequestRight
<1> QED
  BY <1>1, NoRequestRight DEF AccessInv

LEMMA AccessStep == ASSUME AccessInv, [Next]_vars PROVE AccessInv'
<1>1. CASE UNCHANGED vars
  BY <1>1 DEF vars, AccessInv, RequestRight
<1>2. CASE Restart
  <2>1. /\ authOn' \in BOOLEAN /\ bucket' = [s \in Sources |-> NoBucket] /\ req' = [p \in Procs |-> NoRequest]
        /\ passed' = [s \in Sources |-> [a \in 0..Window |-> 0]] /\ authOn' = authOn
    BY <1>2 DEF Restart, AccessInv
  <2>2. NoBucket \in Bucket /\ NoRequest \in Request
    BY AccessAssumption, NoRequestRight DEF NoBucket, Bucket, RequestRight
  <2> QED
    BY <2>1, <2>2, NoRequestRight DEF AccessInv, RequestRight
<1> QED
  BY <1>1, <1>2, AllAge, Arrival, Limited, MasterKey, OtherSteps DEF Next, Step

LEMMA AccessInvariant == Spec => []AccessInv
<1>1. Init => AccessInv
  BY NewProcess DEF Init
<1>2. AccessInv /\ [Next]_vars => AccessInv'
  BY AccessStep
<1> QED
  BY <1>1, <1>2, PTL DEF Spec

\* The requests, the limiter's buckets and the history have their types, and only
\* requests with a key get past the limiter (authMiddleware).
THEOREM AccessTypes == Spec => []TypeOK
<1>1. AccessInv => TypeOK
  BY DEF AccessInv, TypeOK, RequestRight
<1> QED
  BY AccessInvariant, <1>1, PTL

\* A handler acts as the system for the master key, on a public path or in a gateway
\* without a key, and /me answers users alone (authMiddleware, requestTenant).
THEOREM RightTenant == Spec => []TenantRight
<1>1. AccessInv => TenantRight
  BY DEF AccessInv, RequestRight, TenantRight, At, IsMaster, ActsFor
<1> QED
  BY AccessInvariant, <1>1, PTL

-----------------------------------------------------------------------------
(* Induction.  The functions are defined by recursion over numbers; a set  *)
(* of numbers stands for the predicate that is to be proved of all.        *)

\* A set of natural numbers that is not empty has a least one.
LEMMA NatLeast ==
    ASSUME NEW S, S \subseteq Nat, S # {}
    PROVE  \E n \in S : \A m \in S : n <= m
<1> DEFINE R == OpToRel(<, Nat)
<1>1. IsWellFoundedOn(R, Nat)
    BY NatLessThanWellFounded
<1>2. PICK n \in S : \A m \in S : ~(<<m, n>> \in R)
  <2> HIDE DEF R
  <2> QED
    BY <1>1, WFMin
<1>3. \A m \in S : <<m, n>> \in R <=> m < n
    BY DEF OpToRel
<1> HIDE DEF R
<1>4. \A m \in S : ~(m < n)
    BY <1>2, <1>3
<1> QED
    BY <1>4

\* A set that has 0, and with n also n + 1, has every natural number.
LEMMA Induction ==
    ASSUME NEW S, 0 \in S, \A n \in Nat : n \in S => n + 1 \in S
    PROVE  \A n \in Nat : n \in S
<1> DEFINE T == Nat \ S
<1> SUFFICES ASSUME T # {} PROVE FALSE
    OBVIOUS
<1>1. PICK n \in T : \A m \in T : n <= m
  <2> T \subseteq Nat
    OBVIOUS
  <2> HIDE DEF T
  <2> QED
    BY NatLeast
<1>2. n # 0
    OBVIOUS
<1>3. n - 1 \in Nat /\ n - 1 \notin T
    BY <1>1, <1>2
<1> QED
    BY <1>3

\* The same up to a number.
LEMMA InductionUpTo ==
    ASSUME NEW N \in Nat, NEW S, 0 \in S, \A n \in 0..N - 1 : n \in S => n + 1 \in S
    PROVE  \A n \in 0..N : n \in S
<1> DEFINE T == {n \in Nat : n <= N => n \in S}
<1>1. 0 \in T
    OBVIOUS
<1>2. \A n \in Nat : n \in T => n + 1 \in T
    OBVIOUS
<1>3. \A n \in Nat : n \in T
  <2> HIDE DEF T
  <2> QED
    BY <1>1, <1>2, Induction
<1> QED
    BY <1>3

-----------------------------------------------------------------------------
(* What Passed adds up.  FoldFunction takes the ages in an order of its    *)
(* own; sums that grow age by age are easier to reason about.              *)

\* P[n] is what passed at ages below n.
SumsOf(P, f) ==
    /\ P \in [0..Window + 1 -> Nat] /\ P[0] = 0
    /\ \A a \in 0..Window : P[a + 1] = P[a] + f[a]

\* g[s] is what passed at the ages in s, which may be added in any order.
AnyOrder(g, f, n) ==
    /\ g \in [SUBSET (0..n - 1) -> Nat] /\ g[{}] = 0
    /\ \A s \in SUBSET (0..n - 1) : \A a \in s : g[s] = f[a] + g[s \ {a}]

\* Such sums exist, and those of all ages agree with P.
LEMMA OrderIsFree ==
    ASSUME NEW f \in [0..Window -> Nat], NEW P, SumsOf(P, f)
    PROVE  \E g : AnyOrder(g, f, Window + 1) /\ g[0..Window] = P[Window + 1]
<1> Window \in Nat
  BY AccessAssumption
<1> DEFINE S == {n \in 0..Window + 1 : \E g : AnyOrder(g, f, n) /\ g[0..n - 1] = P[n]}
<1>1. 0 \in S
  <2> DEFINE g == [s \in SUBSET (0..0 - 1) |-> 0]
  <2>1. 0..0 - 1 = {}
    OBVIOUS
  <2>2. AnyOrder(g, f, 0) /\ g[0..0 - 1] = 0
    BY <2>1 DEF AnyOrder
  <2> HIDE DEF g
  <2>3. P[0] = 0
    BY DEF SumsOf
  <2> QED
    BY <2>2, <2>3
<1>2. \A n \in 0..(Window + 1) - 1 : n \in S => n + 1 \in S
  <2> SUFFICES ASSUME NEW n \in 0..Window, n \in S PROVE n + 1 \in S
    OBVIOUS
  <2>1. PICK g : AnyOrder(g, f, n) /\ g[0..n - 1] = P[n]
    OBVIOUS
  <2>2. f[n] \in Nat /\ n \in Nat
    OBVIOUS
  <2> DEFINE extra(s) == IF n \in s THEN f[n] ELSE 0
  <2> DEFINE h == [s \in SUBSET (0..n) |-> g[s \ {n}] + extra(s)]
  <2>3. ASSUME NEW s \in SUBSET (0..n) PROVE s \ {n} \in SUBSET (0..n - 1) /\ h[s] = g[s \ {n}] + extra(s)
    OBVIOUS
  <2>4. \A s \in SUBSET (0..n) : g[s \ {n}] \in Nat
    BY <2>1, <2>3 DEF AnyOrder
  <2>5. h \in [SUBSET (0..n) -> Nat]
    <3>1. ASSUME NEW s \in SUBSET (0..n) PROVE g[s \ {n}] + extra(s) \in Nat
      <4>1. extra(s) \in Nat /\ g[s \ {n}] \in Nat
        BY <2>2, <2>4
      <4> HIDE DEF extra
      <4> QED
        BY <4>1
    <3> HIDE DEF extra
    <3> QED
      BY <3>1
  <2> HIDE DEF h
  <2>6. h[{}] = 0
    <3>1. {} \in SUBSET (0..n) /\ {} \ {n} = {} /\ n \notin {}
      OBVIOUS
    <3>2. h[{}] = g[{}] + 0
      BY <2>3, <3>1
    <3> QED
      BY <2>1, <3>2 DEF AnyOrder
  <2>7. ASSUME NEW s \in SUBSET (0..n), NEW a \in s PROVE h[s] = f[a] + h[s \ {a}]
    <3>1. s \ {a} \in SUBSET (0..n)
      OBVIOUS
    <3>2. CASE a = n
      <4>1. (s \ {a}) \ {n} = s \ {n} /\ n \notin s \ {a}
        BY <3>2
      <4>2. h[s] = g[s \ {n}] + f[n]
        BY <2>3, <3>2
      <4>3. h[s \ {a}] = g[s \ {n}] + 0
        BY <2>3, <3>1, <4>1
      <4>4. g[s \ {n}] \in Nat /\ f[a] = f[n]
        BY <2>4, <3>2
      <4> QED
        BY <2>2, <4>2, <4>3, <4>4
    <3>3. CASE a # n
      <4>1. (s \ {a}) \ {n} = (s \ {n}) \ {a} /\ a \in s \ {n}
        BY <3>3
      <4>2. g[s \ {n}] = f[a] + g[(s \ {n}) \ {a}]
        <5>1. s \ {n} \in SUBSET (0..n - 1) /\ a \in s \ {n}
          BY <2>3, <4>1
        <5> QED
          BY <2>1, <5>1 DEF AnyOrder
      <4>3. h[s \ {a}] = g[(s \ {n}) \ {a}] + extra(s \ {a}) /\ extra(s \ {a}) = extra(s)
        BY <2>3, <3>1, <3>3, <4>1
      <4>4. h[s] = g[s \ {n}] + extra(s)
        BY <2>3
      <4>5. f[a] \in Nat /\ g[(s \ {n}) \ {a}] \in Nat /\ extra(s) \in Nat
        <5>1. f[a] \in Nat
          OBVIOUS
        <5>2. g[(s \ {a}) \ {n}] \in Nat
          BY <2>4, <3>1
        <5> QED
          BY <2>2, <4>1, <5>1, <5>2
      <4> HIDE DEF extra
      <4> QED
        BY <4>2, <4>3, <4>4, <4>5
    <3> QED
      BY <3>2, <3>3
  <2>8. h[0..n] = P[n + 1]
    <3>1. (0..n) \ {n} = 0..n - 1 /\ n \in 0..n
      OBVIOUS
    <3>2. h[0..n] = g[0..n - 1] + f[n]
      BY <2>3, <3>1
    <3>3. P[n + 1] = P[n] + f[n]
      BY DEF SumsOf
    <3> QED
      BY <2>1, <3>2, <3>3
  <2>9. (n + 1) - 1 = n
    OBVIOUS
  <2>10. AnyOrder(h, f, n + 1) /\ h[0..(n + 1) - 1] = P[n + 1]
    BY <2>5, <2>6, <2>7, <2>8, <2>9 DEF AnyOrder
  <2> QED
    BY <2>10
<1>3. \A n \in 0..Window + 1 : n \in S
  <2>1. Window + 1 \in Nat
    OBVIOUS
  <2> HIDE DEF S
  <2> QED
    BY <1>1, <1>2, <2>1, InductionUpTo
<1>4. Window + 1 \in 0..Window + 1 /\ (Window + 1) - 1 = Window
  OBVIOUS
<1>5. PICK g : AnyOrder(g, f, Window + 1) /\ g[0..(Window + 1) - 1] = P[Window + 1]
  BY <1>3, <1>4
<1> QED
  BY <1>4, <1>5

\* The fold is the sum of all ages.
LEMMA FoldIsSum ==
    ASSUME NEW f \in [0..Window -> Nat], NEW P, SumsOf(P, f)
    PROVE  FoldFunction(+, 0, f) = P[Window + 1]
<1> Window \in Nat
  BY AccessAssumption
<1> DEFINE D == 0..Window
<1> DEFINE Add(h, s) == IF s = {} THEN 0 ELSE f[CHOOSE x \in s : TRUE] + h[s \ {CHOOSE x \in s : TRUE}]
<1> DEFINE iter == CHOOSE h : h = [s \in SUBSET D |-> Add(h, s)]
<1>1. FoldFunction(+, 0, f) = iter[D]
  BY DEF FoldFunction, FoldFunctionOnSet, MapThenFoldSet
<1>2. PICK g : AnyOrder(g, f, Window + 1) /\ g[D] = P[Window + 1]
  BY OrderIsFree
<1>3. (Window + 1) - 1 = Window
  OBVIOUS
<1>4. /\ g \in [SUBSET D -> Nat] /\ g[{}] = 0
      /\ \A s \in SUBSET D : \A a \in s : g[s] = f[a] + g[s \ {a}]
  BY <1>2, <1>3 DEF AnyOrder
<1>5. g = [s \in SUBSET D |-> Add(g, s)]
  <2>1. ASSUME NEW s \in SUBSET D PROVE g[s] = Add(g, s)
    <3>1. CASE s = {}
      BY <1>4, <3>1
    <3>2. CASE s # {}
      <4>1. (CHOOSE x \in s : TRUE) \in s
        BY <3>2
      <4> QED
        BY <1>4, <3>2, <4>1
    <3> QED
      BY <3>1, <3>2
  <2> HIDE DEF Add
  <2> QED
    BY <1>4, <2>1
<1>6. iter = [s \in SUBSET D |-> Add(iter, s)]
  <2> HIDE DEF Add
  <2> QED
    BY <1>5
<1>7. \A s \in SUBSET D : iter[s] = Add(iter, s)
  <2> HIDE DEF Add, iter
  <2> QED
    BY <1>6
<1> HIDE DEF iter
<1> DEFINE Bad == {s \in SUBSET D : iter[s] # g[s]}
<1>8. Bad = {}
  <2> SUFFICES ASSUME Bad # {} PROVE FALSE
    OBVIOUS
  <2>1. \A s \in SUBSET D : IsFiniteSet(s) /\ Cardinality(s) \in Nat
    <3>1. IsFiniteSet(D)
      BY FS_Interval
    <3> HIDE DEF D
    <3> QED
      BY <3>1, FS_Subset, FS_CardinalityType
  <2> DEFINE Sizes == {Cardinality(s) : s \in Bad}
  <2>2. PICK k \in Sizes : \A m \in Sizes : k <= m
    <3>1. Sizes \subseteq Nat /\ Sizes # {}
      BY <2>1
    <3> HIDE DEF Sizes
    <3> QED
      BY <3>1, NatLeast
  <2>3. PICK s \in Bad : k = Cardinality(s)
    OBVIOUS
  <2>4. s # {}
    BY <1>4, <1>7
  <2> DEFINE a == CHOOSE x \in s : TRUE
  <2>5. a \in s
    BY <2>4
  <2> HIDE DEF a
  <2>6. Cardinality(s \ {a}) = Cardinality(s) - 1
    <3>1. IsFiniteSet(s)
      BY <2>1
    <3> QED
      BY <2>5, <3>1, FS_RemoveElement
  <2>7. s \ {a} \notin Bad
    <3> SUFFICES ASSUME s \ {a} \in Bad PROVE FALSE
      OBVIOUS
    <3>1. Cardinality(s) <= Cardinality(s) - 1
      BY <2>2, <2>3, <2>6
    <3>2. Cardinality(s) \in Nat
      BY <2>1
    <3> QED
      BY <3>1, <3>2
  <2>8. iter[s \ {a}] = g[s \ {a}]
    BY <2>7
  <2>9. iter[s] = f[a] + iter[s \ {a}]
    BY <1>7, <2>4 DEF a
  <2> QED
    BY <1>4, <2>5, <2>8, <2>9
<1>9. iter[D] = g[D]
  BY <1>8
<1> QED
  BY <1>1, <1>2, <1>9

\* What the bucket of a source says of the requests that passed.  While its window
\* runs, all it counted are of the window's age or younger, one of them exactly that
\* old; what passed before is of the window before, at most one less than the limit.
Counted(b, f) ==
    \E P : /\ SumsOf(P, f)
           /\ b.age > Window => P[Window + 1] <= MaxAttempts - 1
           /\ b.age <= Window =>
                 /\ P[b.age] <= b.count - 1 /\ b.count <= P[b.age + 1]
                 /\ P[Window + 1] <= b.count + MaxAttempts - 1

LimiterInv == AccessInv /\ \A s \in Sources : Counted(bucket[s], passed[s])

LEMMA NothingCounted == Counted(NoBucket, [a \in 0..Window |-> 0])
<1> DEFINE P == [n \in 0..Window + 1 |-> 0]
<1>1. SumsOf(P, [a \in 0..Window |-> 0])
  BY AccessAssumption DEF SumsOf
<1>2. P[Window + 1] = 0
  BY AccessAssumption
<1> HIDE DEF P
<1>3. NoBucket.age = Window + 1
  BY DEF NoBucket
<1> QED
  BY <1>1, <1>2, <1>3, AccessAssumption DEF Counted

\* One more passes: in the window that runs, or as the first of a new one.
LEMMA PassCounted ==
    ASSUME NEW b \in Bucket, NEW f \in [0..Window -> Nat], Counted(b, f), Live(b).count < MaxAttempts
    PROVE  Counted([Live(b) EXCEPT !.count = Live(b).count + 1], [f EXCEPT ![0] = f[0] + 1])
<1> Window \in Nat /\ MaxAttempts \in Nat \ {0}
  BY AccessAssumption
<1> DEFINE c == [Live(b) EXCEPT !.count = Live(b).count + 1]
<1> DEFINE h == [f EXCEPT ![0] = f[0] + 1]
<1>0. PICK A \in 0..Window + 1, N \in 0..MaxAttempts : b.age = A /\ b.count = N
  BY DEF Bucket
<1>1. PICK P : /\ SumsOf(P, f)
               /\ A > Window => P[Window + 1] <= MaxAttempts - 1
               /\ A <= Window => P[A] <= N - 1 /\ N <= P[A + 1] /\ P[Window + 1] <= N + MaxAttempts - 1
  BY <1>0 DEF Counted
<1> DEFINE Q == [n \in 0..Window + 1 |-> IF n = 0 THEN 0 ELSE P[n] + 1]
<1>2. P \in [0..Window + 1 -> Nat] /\ P[0] = 0 /\ \A a \in 0..Window : P[a + 1] = P[a] + f[a]
  BY <1>1 DEF SumsOf
<1>3. Q[0] = 0 /\ \A n \in 1..Window + 1 : Q[n] = P[n] + 1
  OBVIOUS
<1>4. h \in [0..Window -> Nat] /\ h[0] = f[0] + 1 /\ \A a \in 1..Window : h[a] = f[a]
  OBVIOUS
<1>5. Q \in [0..Window + 1 -> Nat]
  <2>1. \A n \in 0..Window + 1 : P[n] + 1 \in Nat
    BY <1>2
  <2> QED
    BY <2>1
<1> HIDE DEF Q, h
<1>6. SumsOf(Q, h)
  <2>1. ASSUME NEW a \in 0..Window PROVE Q[a + 1] = Q[a] + h[a]
    <3>1. P[a] \in Nat /\ f[a] \in Nat /\ P[a + 1] = P[a] + f[a] /\ Q[a + 1] = P[a + 1] + 1
      BY <1>2, <1>3
    <3>2. CASE a = 0
      BY <1>2, <1>3, <1>4, <3>1, <3>2
    <3>3. CASE a \in 1..Window
      <4>1. Q[a] = P[a] + 1 /\ h[a] = f[a]
        BY <1>3, <1>4, <3>3
      <4> QED
        BY <3>1, <4>1
    <3> QED
      BY <3>2, <3>3
  <2> QED
    BY <1>3, <1>5, <2>1 DEF SumsOf
<1>8. \E a \in 0..Window, n \in Nat :
          /\ c.age = a /\ c.count = n
          /\ Q[a] <= n - 1 /\ n <= Q[a + 1] /\ Q[Window + 1] <= n + MaxAttempts - 1
  <2>1. Q[Window + 1] = P[Window + 1] + 1 /\ P[Window + 1] \in Nat
    BY <1>2, <1>3
  <2>2. CASE A > Window
    <3>1. c.age = 0 /\ c.count = 1
      BY <1>0, <2>2 DEF Live
    <3>2. Q[1] = P[1] + 1 /\ P[1] \in Nat
      BY <1>2, <1>3
    <3> HIDE DEF c
    <3>3. 0 \in 0..Window /\ 1 \in Nat /\ Q[0] <= 1 - 1 /\ 1 <= Q[0 + 1] /\ Q[Window + 1] <= 1 + MaxAttempts - 1
      BY <1>1, <1>3, <2>1, <2>2, <3>2
    <3> QED
      BY <3>1, <3>3
  <2>3. CASE A <= Window
    <3>1. c.age = A /\ c.count = N + 1 /\ A \in 0..Window /\ N + 1 \in Nat
      BY <1>0, <2>3 DEF Live, Bucket
    <3> HIDE DEF c
    <3>2. P[A] \in Nat /\ P[A + 1] \in Nat /\ Q[A + 1] = P[A + 1] + 1
      BY <1>2, <1>3, <3>1
    <3>3. Q[A] <= N
      <4>1. CASE A = 0
        BY <1>1, <1>2, <1>3, <2>3, <4>1
      <4>2. CASE A \in 1..Window
        <5>1. Q[A] = P[A] + 1
          BY <1>3, <4>2
        <5> QED
          BY <1>1, <2>3, <3>2, <5>1
      <4> QED
        BY <3>1, <4>1, <4>2
    <3>4. Q[A] <= (N + 1) - 1 /\ N + 1 <= Q[A + 1] /\ Q[Window + 1] <= (N + 1) + MaxAttempts - 1
      <4>1. P[A] <= N - 1 /\ N <= P[A + 1] /\ P[Window + 1] <= N + MaxAttempts - 1
        BY <1>1, <2>3
      <4>2. N + 1 <= Q[A + 1]
        BY <3>2, <4>1
      <4>3. Q[Window + 1] <= (N + 1) + MaxAttempts - 1
        <5> DEFINE top == P[Window + 1]
        <5>1. top \in Nat /\ top <= N + MaxAttempts - 1 /\ Q[Window + 1] = top + 1
          BY <2>1, <4>1
        <5> HIDE DEF top
        <5> QED
          BY <5>1
      <4>4. Q[A] <= (N + 1) - 1
        <5>1. Q[A] \in Nat
          BY <1>5, <3>1
        <5> QED
          BY <3>3, <5>1
      <4> QED
        BY <4>2, <4>3, <4>4
    <3> QED
      BY <3>1, <3>4
  <2> QED
    BY <2>2, <2>3
<1> HIDE DEF c
<1>9. Counted(c, h)
  <2>1. ~(c.age > Window)
    BY <1>8
  <2> QED
    BY <1>6, <1>8, <2>1 DEF Counted
<1> QED
  BY <1>9 DEF c, h

\* Everything gets a tick older, and what is older than a window is forgotten.
LEMMA AgeCounted ==
    ASSUME NEW b \in Bucket, NEW f \in [0..Window -> Nat], Counted(b, f)
    PROVE  Counted([b EXCEPT !.age = IF b.age > Window THEN b.age ELSE b.age + 1],
                   [a \in 0..Window |-> IF a = 0 THEN 0 ELSE f[a - 1]])
<1> Window \in Nat /\ MaxAttempts \in Nat \ {0}
  BY AccessAssumption
<1> DEFINE c == [b EXCEPT !.age = IF b.age > Window THEN b.age ELSE b.age + 1]
<1> DEFINE h == [a \in 0..Window |-> IF a = 0 THEN 0 ELSE f[a - 1]]
<1>0. PICK A \in 0..Window + 1, N \in 0..MaxAttempts : b.age = A /\ b.count = N
  BY DEF Bucket
<1>1. PICK P : /\ SumsOf(P, f)
               /\ A > Window => P[Window + 1] <= MaxAttempts - 1
               /\ A <= Window => P[A] <= N - 1 /\ N <= P[A + 1] /\ P[Window + 1] <= N + MaxAttempts - 1
  BY <1>0 DEF Counted
<1> DEFINE Q == [n \in 0..Window + 1 |-> IF n = 0 THEN 0 ELSE P[n - 1]]
<1>2. P \in [0..Window + 1 -> Nat] /\ P[0] = 0 /\ \A a \in 0..Window : P[a + 1] = P[a] + f[a]
  BY <1>1 DEF SumsOf
<1>3. Q[0] = 0 /\ \A n \in 0..Window : Q[n + 1] = P[n]
  OBVIOUS
<1>4. h[0] = 0 /\ \A a \in 1..Window : h[a] = f[a - 1]
  OBVIOUS
<1>5. Q \in [0..Window + 1 -> Nat]
  <2>1. \A n \in 1..Window + 1 : P[n - 1] \in Nat
    BY <1>2
  <2> QED
    BY <2>1
<1> HIDE DEF Q, h
<1>6. SumsOf(Q, h)
  <2>1. ASSUME NEW a \in 0..Window PROVE Q[a + 1] = Q[a] + h[a]
    <3>1. Q[a + 1] = P[a]
      BY <1>3
    <3>2. CASE a = 0
      BY <1>2, <1>3, <1>4, <3>1, <3>2
    <3>3. CASE a \in 1..Window
      <4>1. a - 1 \in 0..Window /\ (a - 1) + 1 = a
        BY <3>3
      <4>2. Q[a] = P[a - 1] /\ P[a] = P[a - 1] + f[a - 1] /\ h[a] = f[a - 1]
        BY <1>2, <1>3, <1>4, <3>3, <4>1
      <4> QED
        BY <3>1, <4>2
    <3> QED
      BY <3>2, <3>3
  <2> QED
    BY <1>3, <1>5, <2>1 DEF SumsOf
<1>8. Q[Window + 1] = P[Window] /\ P[Window] \in Nat /\ P[Window + 1] \in Nat /\ P[Window] <= P[Window + 1]
  <2>1. P[Window] \in Nat /\ f[Window] \in Nat /\ P[Window + 1] = P[Window] + f[Window]
    BY <1>2
  <2> QED
    BY <1>3, <2>1
<1>9. CASE A > Window
  <2>1. c.age = A
    BY <1>0, <1>9 DEF Bucket
  <2> HIDE DEF c
  <2>2. c.age > Window /\ ~(c.age <= Window) /\ Q[Window + 1] <= MaxAttempts - 1
    BY <1>1, <1>8, <1>9, <2>1
  <2>3. Counted(c, h)
    BY <1>6, <2>2 DEF Counted
  <2> QED
    BY <2>3 DEF c, h
<1>10. CASE A <= Window
  <2>1. c.age = A + 1 /\ c.count = N
    BY <1>0, <1>10 DEF Bucket
  <2> HIDE DEF c
  <2>2. Q[A + 1] = P[A] /\ P[A] \in Nat
    BY <1>2, <1>3, <1>10
  <2>3. CASE A = Window
    <3>1. c.age > Window /\ ~(c.age <= Window) /\ Q[Window + 1] <= MaxAttempts - 1
      BY <1>1, <1>8, <1>10, <2>1, <2>2, <2>3
    <3>2. Counted(c, h)
      BY <1>6, <3>1 DEF Counted
    <3> QED
      BY <3>2 DEF c, h
  <2>4. CASE A < Window
    <3>1. Q[(A + 1) + 1] = P[A + 1]
      BY <1>3, <2>4
    <3>2. Q[A + 1] <= N - 1 /\ N <= Q[(A + 1) + 1] /\ Q[Window + 1] <= N + MaxAttempts - 1
      BY <1>1, <1>8, <1>10, <2>2, <3>1
    <3>3. c.age <= Window /\ ~(c.age > Window)
      BY <2>1, <2>4
    <3>4. Counted(c, h)
      BY <1>6, <2>1, <3>2, <3>3 DEF Counted
    <3> QED
      BY <3>4 DEF c, h
  <2> QED
    BY <1>10, <2>3, <2>4
<1> QED
  BY <1>9, <1>10

\* A bucket that refuses is full and its window is running.
LEMMA FullBucket ==
    ASSUME NEW b \in Bucket, Live(b).count >= MaxAttempts
    PROVE  Live(b) = b /\ b.count >= MaxAttempts /\ b.age <= Window
<1>1. CASE b.age > Window
  BY <1>1, AccessAssumption DEF Live
<1>2. CASE ~(b.age > Window)
  BY <1>2, AccessAssumption DEF Live, Bucket
<1> QED
  BY <1>1, <1>2

LEMMA LimiterStep == ASSUME LimiterInv, [Next]_vars PROVE LimiterInv'
<1>1. AccessInv /\ AccessInv'
  BY AccessStep DEF LimiterInv
<1>2. ASSUME NEW s \in Sources PROVE bucket[s] \in Bucket /\ passed[s] \in [0..Window -> Nat] /\ Counted(bucket[s], passed[s])
  BY DEF LimiterInv, AccessInv
<1>3. DOMAIN bucket = Sources /\ DOMAIN passed = Sources
  BY <1>1 DEF AccessInv
<1> SUFFICES ASSUME NEW s \in Sources PROVE Counted(bucket'[s], passed'[s])
  <2>1. ASSUME \A s \in Sources : Counted(bucket'[s], passed'[s]) PROVE LimiterInv'
    BY <1>1, <2>1 DEF LimiterInv, Counted, SumsOf
  <2> QED
    BY <2>1
<1>4. CASE UNCHANGED <<bucket, passed>>
  BY <1>2, <1>4
<1>5. CASE Tick
  <2>1. /\ bucket'[s] = [bucket[s] EXCEPT !.age = IF bucket[s].age > Window THEN bucket[s].age ELSE bucket[s].age + 1]
        /\ passed'[s] = [a \in 0..Window |-> IF a = 0 THEN 0 ELSE passed[s][a - 1]]
    BY <1>5 DEF Tick
  <2> QED
    BY <1>2, <2>1, AgeCounted
<1>6. CASE Restart
  BY <1>6, NothingCounted DEF Restart
<1>7. ASSUME NEW p \in Procs, Master(p) PROVE Counted(bucket'[s], passed'[s])
  <2>1. CASE s = req[p].src
    BY <1>3, <1>7, <2>1, NothingCounted DEF Master, Cleared
  <2>2. CASE s # req[p].src
    BY <1>2, <1>3, <1>7, <2>2 DEF Master, Cleared
  <2> QED
    BY <2>1, <2>2
<1>8. ASSUME NEW p \in Procs, Allow(p) PROVE Counted(bucket'[s], passed'[s])
  <2> DEFINE b == Live(bucket[req[p].src])
  <2>1. CASE s # req[p].src
    BY <1>2, <1>3, <1>8, <2>1 DEF Allow
  <2>2. CASE s = req[p].src /\ b.count >= MaxAttempts
    <3>1. bucket'[s] = Live(bucket[s]) /\ passed'[s] = passed[s]
      BY <1>3, <1>8, <2>2 DEF Allow
    <3>2. Live(bucket[s]) = bucket[s]
      BY <1>2, <2>2, FullBucket
    <3> QED
      BY <1>2, <3>1, <3>2
  <2>3. CASE s = req[p].src /\ ~(b.count >= MaxAttempts)
    <3>1. /\ bucket'[s] = [Live(bucket[s]) EXCEPT !.count = Live(bucket[s]).count + 1]
          /\ passed'[s] = [passed[s] EXCEPT ![0] = passed[s][0] + 1]
      BY <1>3, <1>8, <2>3 DEF Allow
    <3>2. Live(bucket[s]).count < MaxAttempts
      BY <1>2, <2>3, AccessAssumption DEF Live, Bucket
    <3> QED
      BY <1>2, <3>1, <3>2, PassCounted
  <2> QED
    BY <2>1, <2>2, <2>3
<1>9. ASSUME NEW p \in Procs, NEW a \in Asked, NEW t \in Sources, Arrive(p, a[1], a[2], t) PROVE UNCHANGED <<bucket, passed>>
  BY <1>9 DEF Arrive
<1>10. ASSUME NEW p \in Procs, NotMaster(p) \/ UserKey(p) \/ Handle(p) \/ ToStore(p) \/ Reject(p) \/ FromStore(p) \/ Leave(p)
       PROVE  UNCHANGED <<bucket, passed>>
  BY <1>10 DEF NotMaster, UserKey, Handle, ToStore, Reject, FromStore, Leave
<1> QED
  BY <1>4, <1>5, <1>6, <1>7, <1>8, <1>9, <1>10 DEF Next, Step, vars

LEMMA LimiterInvariant == Spec => []LimiterInv
<1>1. Init => LimiterInv
  <2> SUFFICES ASSUME Init PROVE LimiterInv
    OBVIOUS
  <2>1. AccessInv
    BY NewProcess DEF Init
  <2>2. \A s \in Sources : Counted(bucket[s], passed[s])
    BY NothingCounted DEF Init
  <2> QED
    BY <2>1, <2>2 DEF LimiterInv
<1>2. LimiterInv /\ [Next]_vars => LimiterInv'
  BY LimiterStep
<1> QED
  BY <1>1, <1>2, PTL DEF Spec

\* What Passed says in a state the limiter can be in.
LEMMA PassedIsBounded ==
    ASSUME LimiterInv, NEW s \in Sources
    PROVE  /\ Passed(s) \in Nat /\ Passed(s) <= 2 * MaxAttempts - 1
           /\ Shut(s) => Passed(s) >= MaxAttempts
<1> Window \in Nat /\ MaxAttempts \in Nat \ {0}
  BY AccessAssumption
<1>1. bucket[s] \in Bucket /\ passed[s] \in [0..Window -> Nat] /\ Counted(bucket[s], passed[s])
  BY DEF LimiterInv, AccessInv
<1>2. PICK A \in 0..Window + 1, N \in 0..MaxAttempts : bucket[s].age = A /\ bucket[s].count = N
  BY <1>1 DEF Bucket
<1>3. PICK P : /\ SumsOf(P, passed[s])
               /\ A > Window => P[Window + 1] <= MaxAttempts - 1
               /\ A <= Window => P[A] <= N - 1 /\ N <= P[A + 1] /\ P[Window + 1] <= N + MaxAttempts - 1
  BY <1>1, <1>2 DEF Counted
<1>4. Passed(s) = P[Window + 1]
  BY <1>1, <1>3, FoldIsSum DEF Passed
<1>5. P \in [0..Window + 1 -> Nat] /\ \A a \in 0..Window : P[a] <= P[a + 1]
  <2>1. P \in [0..Window + 1 -> Nat]
    BY <1>3 DEF SumsOf
  <2>2. ASSUME NEW a \in 0..Window PROVE P[a] <= P[a + 1]
    <3>1. P[a] \in Nat /\ passed[s][a] \in Nat /\ P[a + 1] = P[a] + passed[s][a]
      BY <1>1, <1>3, <2>1 DEF SumsOf
    <3> QED
      BY <3>1
  <2> QED
    BY <2>1, <2>2
<1>6. \A n \in 0..Window + 1 : P[(Window + 1) - n] <= P[Window + 1]
  <2> DEFINE S == {n \in 0..Window + 1 : P[(Window + 1) - n] <= P[Window + 1]}
  <2>1. 0 \in S
    BY <1>5
  <2>2. \A n \in 0..(Window + 1) - 1 : n \in S => n + 1 \in S
    <3> SUFFICES ASSUME NEW n \in 0..Window, n \in S PROVE n + 1 \in S
      OBVIOUS
    <3> DEFINE a == (Window + 1) - (n + 1)
    <3>1. a \in 0..Window /\ a + 1 = (Window + 1) - n
      OBVIOUS
    <3>2. P[a] \in Nat /\ P[a + 1] \in Nat /\ P[Window + 1] \in Nat /\ P[a] <= P[a + 1] /\ P[a + 1] <= P[Window + 1]
      BY <1>5, <3>1
    <3>3. P[a] <= P[Window + 1]
      BY <3>2
    <3> QED
      BY <3>3
  <2>3. Window + 1 \in Nat
    OBVIOUS
  <2> HIDE DEF S
  <2>4. \A n \in 0..Window + 1 : n \in S
    BY <2>1, <2>2, <2>3, InductionUpTo
  <2> QED
    BY <2>4 DEF S
<1>7. P[Window + 1] \in Nat
  BY <1>5
<1>8. P[Window + 1] <= 2 * MaxAttempts - 1
  BY <1>3, <1>7
<1>9. Shut(s) => P[Window + 1] >= MaxAttempts
  <2> SUFFICES ASSUME N >= MaxAttempts, A <= Window PROVE P[Window + 1] >= MaxAttempts
    BY <1>2 DEF Shut
  <2>1. Window - A \in 0..Window + 1 /\ (Window + 1) - (Window - A) = A + 1 /\ A + 1 \in 0..Window + 1
    OBVIOUS
  <2>2. P[A + 1] <= P[Window + 1] /\ P[A + 1] \in Nat
    BY <1>5, <1>6, <2>1
  <2> QED
    BY <1>3, <1>7, <2>2
<1> QED
  BY <1>4, <1>7, <1>8, <1>9

\* Of the attempts of a source since its last Reset, no more than twice the limit
\* less one pass in any span as long as a window, for any limit, window and number
\* of requests (AuthLimiter.Allow).
THEOREM BurstsBounded == Spec => []BurstBound
<1>1. LimiterInv => BurstBound
  BY PassedIsBounded DEF BurstBound
<1> QED
  BY LimiterInvariant, <1>1, PTL

\* Nobody is told "too many auth attempts" before as many of the source's attempts
\* as the limit, successful or not, have passed since the window began and since it
\* last showed the master key (AuthLimiter.Allow).
THEOREM RefusedIsFull == Spec => RefusedWhenFull
<1> DEFINE Earned == \A p \in Procs : ~At(p, "answered") /\ req'[p].answer = "too many" => Passed(req[p].src) >= MaxAttempts
<1>1. ASSUME LimiterInv, [Next]_vars PROVE Earned
  <2> SUFFICES ASSUME NEW p \in Procs, ~At(p, "answered"), req'[p].answer = "too many"
               PROVE  Passed(req[p].src) >= MaxAttempts
    OBVIOUS
  <2>1. AccessInv /\ RequestRight(req[p]) /\ req[p] \in Request /\ DOMAIN req = Procs
    BY <1>1 DEF LimiterInv, AccessInv
  <2>2. req[p].answer = "none" /\ NoRequest.answer = "none"
    BY <2>1 DEF RequestRight, At, NoRequest
  <2>3. Shut(req[p].src) /\ req[p].src \in Sources
    <3>1. req'[p] # req[p]
      BY <2>2
    <3>2. ASSUME NEW q \in Procs, Allow(q) PROVE Shut(req[p].src) /\ req[p].src \in Sources
      <4>1. p = q
        BY <3>1, <3>2, <2>1 DEF Allow, Answer
      <4> DEFINE b == Live(bucket[req[p].src])
      <4>2. b.count >= MaxAttempts
        <5>1. CASE ~(b.count >= MaxAttempts)
          <6>1. req' = [req EXCEPT ![p].pc = "compare"]
            BY <3>2, <4>1, <5>1 DEF Allow
          <6>2. req'[p] = [req[p] EXCEPT !.pc = "compare"]
            BY <2>1, <6>1
          <6> QED
            BY <2>1, <2>2, <6>2 DEF Request
        <5> QED
          BY <5>1
      <4>3. req[p].src \in Sources /\ bucket[req[p].src] \in Bucket
        BY <2>1 DEF Request, AccessInv
      <4> QED
        BY <4>2, <4>3, FullBucket DEF Shut
    <3>3. ASSUME NEW q \in Procs, Master(q) \/ NotMaster(q) \/ UserKey(q) \/ Handle(q) \/ ToStore(q) \/ Reject(q) \/ FromStore(q) \/ Leave(q)
          PROVE  req'[p].answer # "too many"
      <4>1. CASE Master(q) \/ ToStore(q) \/ Leave(q)
        <5>1. CASE p # q
          BY <2>1, <2>2, <4>1, <5>1 DEF Master, ToStore, Leave, Handler
        <5>2. CASE p = q
          <6>1. CASE Master(q)
            <7>1. req'[p] = [req[p] EXCEPT !.pc = "handle", !.tenant = "system"]
              BY <2>1, <5>2, <6>1 DEF Master, Handler
            <7> QED
              BY <2>1, <2>2, <7>1 DEF Request
          <6>2. CASE ToStore(q)
            <7>1. req'[p] = [req[p] EXCEPT !.pc = "store"]
              BY <2>1, <5>2, <6>2 DEF ToStore
            <7> QED
              BY <2>1, <2>2, <7>1 DEF Request
          <6>3. CASE Leave(q)
            BY <2>1, <2>2, <5>2, <6>3 DEF Leave
          <6> QED
            BY <4>1, <6>1, <6>2, <6>3
        <5> QED
          BY <5>1, <5>2
      <4>2. CASE NotMaster(q)
        <5>1. CASE p # q
          BY <2>1, <2>2, <4>2, <5>1 DEF NotMaster, Answer
        <5>2. CASE p = q
          <6>1. req'[p] = [req[p] EXCEPT !.pc = "lookup"] \/ req'[p] = [req[p] EXCEPT !.pc = "answered", !.answer = "unauthorized"]
            BY <2>1, <4>2, <5>2 DEF NotMaster, Answer
          <6> QED
            BY <2>1, <2>2, <6>1 DEF Request
        <5> QED
          BY <5>1, <5>2
      <4>3. CASE UserKey(q)
        <5>1. CASE p # q
          BY <2>1, <2>2, <4>3, <5>1 DEF UserKey, Answer, Handler
        <5>2. CASE p = q
          <6>1. \/ req'[p] = [req[p] EXCEPT !.pc = "handle", !.tenant = "user"]
                \/ req'[p] = [req[p] EXCEPT !.pc = "answered", !.answer = "unauthorized"]
            BY <2>1, <4>3, <5>2 DEF UserKey, Answer, Handler
          <6> QED
            BY <2>1, <2>2, <6>1 DEF Request
        <5> QED
          BY <5>1, <5>2
      <4>4. CASE Handle(q)
        BY <2>1, <2>2, <4>4 DEF Handle, Answer, Request
      <4>5. CASE Reject(q) \/ FromStore(q)
        BY <2>1, <2>2, <4>5 DEF Reject, FromStore, Answer, Request
      <4> QED
        BY <3>3, <4>1, <4>2, <4>3, <4>4, <4>5
    <3>4. ASSUME NEW q \in Procs, NEW a \in Asked, NEW t \in Sources, Arrive(q, a[1], a[2], t) PROVE req'[p].answer # "too many"
      BY <2>1, <2>2, <3>4 DEF Arrive, NoRequest
    <3>5. ~UNCHANGED vars /\ ~Tick
      BY <3>1 DEF vars, Tick
    <3>6. ~Restart
      BY <2>2 DEF Restart
    <3> QED
      BY <1>1, <3>2, <3>3, <3>4, <3>5, <3>6 DEF Next, Step
  <2> QED
    BY <1>1, <2>3, PassedIsBounded
<1>2. LimiterInv /\ [Next]_vars => [Earned]_vars
  <2> HIDE DEF Earned
  <2> QED
    BY <1>1
<1>3. Spec => [][Earned]_vars
  <2> HIDE DEF Earned
  <2> QED
    BY LimiterInvariant, <1>2, PTL DEF Spec
<1> QED
  BY <1>3 DEF RefusedWhenFull

-----------------------------------------------------------------------------
\* The composition is a composition: seen from either side, a run of the combo
\* endpoints is a run of the middleware and of the store, so each keeps in it what
\* it promises alone (handlers_admin.go, combos.go).
THEOREM PartsKept == DispatchSpec => Spec /\ StoreSpec
<1>1. DispatchInit => Init /\ C!Init
  BY DEF DispatchInit
<1>2. [DispatchNext]_all => [Next]_vars
  BY DEF DispatchNext, DispatchStep, Call, Return, Next, all, vars
<1>3. [DispatchNext]_all => [C!Next]_(C!vars)
  BY DEF DispatchNext, DispatchStep, Call, Return, C!Next, all, store, C!vars
<1> QED
  BY <1>1, <1>2, <1>3, PTL DEF DispatchSpec, Spec, StoreSpec, C!Spec

\* Behind the middleware, with its requests and restarts, the combo endpoints answer
\* what the store's changes account for, act as the system for the master alone, let
\* no more attempts pass than two windows allow, and refuse a source only when its
\* window is full.
THEOREM DispatchRight ==
    DispatchSpec => [](ServedAsSaved /\ ListAgrees /\ TenantRight /\ BurstBound) /\ RefusedWhenFull
  BY PartsKept, Served, Listed, RightTenant, BurstsBounded, RefusedIsFull, PTL
=============================================================================
