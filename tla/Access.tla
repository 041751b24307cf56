------------------------------- MODULE Access -------------------------------
(***************************************************************************)
(* authMiddleware and security.AuthLimiter: what a request passes before   *)
(* its handler runs, and the check of the tenant the handlers begin with.  *)
(* Allow and Reset each hold the limiter's mutex; other requests of the    *)
(* same source run between them.  Whether a user key is accepted is the    *)
(* matter of Users, and here a choice.                                     *)
(***************************************************************************)
EXTENDS Integers, Functions

CONSTANTS
    Procs,        \* requests that are served at the same time
    Sources,      \* what the limiter tells apart: the first entry of X-Forwarded-For,
                  \* what RealIP read from another header of a proxy, or without
                  \* any RemoteAddr, host and port: one connection
    MaxAttempts,  \* NewAuthLimiter's max,
    Window,       \* and its window, in ticks
    Asked         \* the paths and keys that requests come with

Keys == {"absent", "master", "user", "unknown"}
Paths == {"public", "admin", "me", "combos"}

ASSUME AccessAssumption ==
    /\ MaxAttempts \in Nat \ {0} /\ Window \in Nat
    /\ Sources # {} /\ Asked \subseteq Paths \X Keys

VARIABLES
    authOn,    \* Settings.AuthEnabled
    bucket,    \* AuthLimiter.buckets; windowAt is kept as an age in ticks
    req,       \* the request each process serves
    passed     \* history: of the requests Allow let pass since the source's
               \* last Reset, how many at each age up to Window

vars == <<authOn, bucket, req, passed>>

NoBucket == [count |-> 0, age |-> Window + 1]
Bucket == [count : 0..MaxAttempts, age : 0..(Window + 1)]
NoRequest == [pc |-> "idle", path |-> "public", key |-> "absent", src |-> CHOOSE s \in Sources : TRUE,
              tenant |-> "absent", answer |-> "none"]
Request == [pc : {"idle", "limit", "compare", "lookup", "handle", "store", "answered"},
            path : Paths, key : Keys, src : Sources, tenant : {"absent", "system", "user"},
            answer : {"none", "unauthorized", "too many", "forbidden", "invalid", "done"}]

\* Types; nobody is past the limiter without a key.
TypeOK ==
    /\ authOn \in BOOLEAN
    /\ bucket \in [Sources -> Bucket]
    /\ req \in [Procs -> Request]
    /\ passed \in [Sources -> [0..Window -> Nat]]
    /\ \A p \in Procs : req[p].pc \in {"limit", "compare", "lookup"} =>
          authOn /\ req[p].path # "public" /\ req[p].key # "absent"

Init ==
    /\ authOn \in BOOLEAN
    /\ bucket = [s \in Sources |-> NoBucket]
    /\ req = [p \in Procs |-> NoRequest]
    /\ passed = [s \in Sources |-> [a \in 0..Window |-> 0]]

-----------------------------------------------------------------------------
At(p, pc) == req[p].pc = pc
Answer(p, answer) == req' = [req EXCEPT ![p].pc = "answered", ![p].answer = answer]
Handler(p, tenant) == req' = [req EXCEPT ![p].pc = "handle", ![p].tenant = tenant]

\* A request comes in: public paths and a gateway without a key are not checked.
Arrive(p, path, key, s) ==
    /\ At(p, "idle")
    /\ LET r == [NoRequest EXCEPT !.path = path, !.key = key, !.src = s]
       IN  req' = [req EXCEPT ![p] =
               IF path = "public" THEN [r EXCEPT !.pc = "handle"]
               ELSE IF ~authOn THEN [r EXCEPT !.pc = "handle", !.tenant = "system"]
               ELSE IF key = "absent" THEN [r EXCEPT !.pc = "answered", !.answer = "unauthorized"]
               ELSE [r EXCEPT !.pc = "limit"]]
    /\ UNCHANGED <<authOn, bucket, passed>>

\* Mutant of Live: the window ends a tick early.
LiveShort(b) == IF b.age >= Window THEN [count |-> 0, age |-> 0] ELSE b

\* The bucket Allow works on: a new one when there is none or its window is over.
Live(b) == IF b.age > Window THEN [count |-> 0, age |-> 0] ELSE b

\* Mutant of Allow: a refused request starts the window again.
AllowExtends(p) ==
    /\ At(p, "limit")
    /\ LET s == req[p].src
           b == Live(bucket[s])
       IN  IF b.count >= MaxAttempts
           THEN /\ Answer(p, "too many") /\ bucket' = [bucket EXCEPT ![s] = [b EXCEPT !.age = 0]]
                /\ UNCHANGED passed
           ELSE /\ bucket' = [bucket EXCEPT ![s] = [b EXCEPT !.count = @ + 1]]
                /\ passed' = [passed EXCEPT ![s][0] = @ + 1]
                /\ req' = [req EXCEPT ![p].pc = "compare"]
    /\ UNCHANGED authOn

\* AuthLimiter.Allow.
Allow(p) ==
    /\ At(p, "limit")
    /\ LET s == req[p].src
           b == Live(bucket[s])
       IN  IF b.count >= MaxAttempts
           THEN /\ Answer(p, "too many") /\ bucket' = [bucket EXCEPT ![s] = b]
                /\ UNCHANGED passed
           ELSE /\ bucket' = [bucket EXCEPT ![s] = [b EXCEPT !.count = @ + 1]]
                /\ passed' = [passed EXCEPT ![s][0] = @ + 1]
                /\ req' = [req EXCEPT ![p].pc = "compare"]
    /\ UNCHANGED authOn

Cleared(s) == passed' = [passed EXCEPT ![s] = [a \in 0..Window |-> 0]]

\* Mutant of Master: the limiter is left as it is.
MasterKeeps(p) ==
    /\ At(p, "compare") /\ req[p].key = "master"
    /\ Cleared(req[p].src)
    /\ Handler(p, "system")
    /\ UNCHANGED <<authOn, bucket>>

\* The master key resets the limiter for its source.
Master(p) ==
    /\ At(p, "compare") /\ req[p].key = "master"
    /\ bucket' = [bucket EXCEPT ![req[p].src] = NoBucket]
    /\ Cleared(req[p].src)
    /\ Handler(p, "system")
    /\ UNCHANGED authOn

\* Another key goes to Lookup when it looks like a user's, and is refused if not.
NotMaster(p) ==
    /\ At(p, "compare") /\ req[p].key # "master"
    /\ IF req[p].key = "user" THEN req' = [req EXCEPT ![p].pc = "lookup"]
       ELSE Answer(p, "unauthorized")
    /\ UNCHANGED <<authOn, bucket, passed>>

\* Mutant of UserKey: the user is put into the context, the tenant is not.
UserKeyNoTenant(p) ==
    /\ At(p, "lookup")
    /\ Handler(p, "absent") \/ Answer(p, "unauthorized")
    /\ UNCHANGED <<authOn, bucket, passed>>

\* Lookup knows the key of an enabled user, or does not.
UserKey(p) ==
    /\ At(p, "lookup")
    /\ Handler(p, "user") \/ Answer(p, "unauthorized")
    /\ UNCHANGED <<authOn, bucket, passed>>

\* requestTenant: a request without a tenant acts for the system.
ActsFor(p) == IF req[p].tenant = "absent" THEN "system" ELSE req[p].tenant
IsMaster(p) == ActsFor(p) = "system"

\* The handlers of users' accounts ask for the master key, those of /me for a
\* user; what they then do is in Users and KeyPools.
Handle(p) ==
    /\ At(p, "handle") /\ req[p].path # "combos"
    /\ IF \/ req[p].path = "admin" /\ ~IsMaster(p)
          \/ req[p].path = "me" /\ req[p].tenant # "user"
       THEN Answer(p, "forbidden") ELSE Answer(p, "done")
    /\ UNCHANGED <<authOn, bucket, passed>>

\* The combo handlers go on to the store,
ToStore(p) ==
    /\ At(p, "handle") /\ req[p].path = "combos"
    /\ req' = [req EXCEPT ![p].pc = "store"]
    /\ UNCHANGED <<authOn, bucket, passed>>

\* or turn the request down: no store, a body they cannot use.
Reject(p) ==
    /\ At(p, "handle") /\ req[p].path = "combos"
    /\ Answer(p, "invalid")
    /\ UNCHANGED <<authOn, bucket, passed>>

FromStore(p) ==
    /\ At(p, "store")
    /\ Answer(p, "done")
    /\ UNCHANGED <<authOn, bucket, passed>>

Leave(p) ==
    /\ At(p, "answered")
    /\ req' = [req EXCEPT ![p] = NoRequest]
    /\ UNCHANGED <<authOn, bucket, passed>>

Tick ==
    /\ bucket' = [s \in Sources |-> [bucket[s] EXCEPT !.age = IF @ > Window THEN @ ELSE @ + 1]]
    /\ passed' = [s \in Sources |-> [a \in 0..Window |-> IF a = 0 THEN 0 ELSE passed[s][a - 1]]]
    /\ UNCHANGED <<authOn, req>>

Restart ==
    /\ bucket' = [s \in Sources |-> NoBucket]
    /\ req' = [p \in Procs |-> NoRequest]
    /\ passed' = [s \in Sources |-> [a \in 0..Window |-> 0]]
    /\ UNCHANGED authOn

\* One request's next step before its handler and after it.
Step(p) == Allow(p) \/ Master(p) \/ NotMaster(p) \/ UserKey(p) \/ Handle(p)

Next ==
    \/ Tick \/ Restart
    \/ \E p \in Procs :
          \/ \E r \in Asked, s \in Sources : Arrive(p, r[1], r[2], s)
          \/ Step(p) \/ ToStore(p) \/ Reject(p) \/ FromStore(p) \/ Leave(p)

Spec == Init /\ [][Next]_vars

-----------------------------------------------------------------------------
Passed(s) == FoldFunction(+, 0, passed[s])

\* security.go:39-41: "allowing max attempts per window".  Windows are fixed, so
\* the end of one and the start of the next may fall into the same span of time;
\* still, of the attempts of a source since its last Reset, no more than twice the
\* limit less one pass in any span as long as a window.
BurstBound == \A s \in Sources : Passed(s) <= 2 * MaxAttempts - 1

\* A source is told "too many auth attempts" only when as many of its attempts as
\* the limit, successful or not, have passed since its last Reset and since its
\* window began.
RefusedWhenFull ==
    [][\A p \in Procs : ~At(p, "answered") /\ req'[p].answer = "too many"
            => Passed(req[p].src) >= MaxAttempts]_vars

\* security.go:49-50: "Failures count toward the cap; successful calls reset the
\* bucket", and :67: "call upon any successful auth".  A request that gets past the
\* check of its key leaves its source with no attempts counted.
SuccessResets ==
    [][\A p \in Procs : req[p].pc \in {"compare", "lookup"} /\ req'[p].pc = "handle"
            => bucket'[req[p].src].count = 0]_vars

\* What a handler does as the system, it does for the master key, for a public
\* path or for a gateway without a key; and /me answers users alone.
TenantRight ==
    \A p \in Procs : At(p, "answered") /\ req[p].answer = "done" =>
        /\ IsMaster(p) => req[p].key = "master" \/ req[p].path = "public" \/ ~authOn
        /\ req[p].path = "me" => req[p].key = "user"

\* A source that is shut out is let in again, however often it asks meanwhile.
Shut(s) == bucket[s].count >= MaxAttempts /\ bucket[s].age <= Window
LetInAgain == \A s \in Sources : Shut(s) ~> ~Shut(s)
=============================================================================
