--------------------------------- MODULE Chat ---------------------------------
(***************************************************************************)
(* A chat request through runDirect: the cache, the project's memory, the  *)
(* key, the call with its retry or the stream, and what is counted, cached *)
(* and remembered of it; the combo route is in Racing.  A provider is its  *)
(* kind, an answer the request it was made for, the upstream frames whose  *)
(* text it has, and whether the client was sent [DONE] after it.  A request *)
(* is gone once its client has left or the 180 seconds of                  *)
(* middleware.Timeout are over.                                            *)
(***************************************************************************)
EXTENDS Streams, FiniteSets

CONSTANTS
    Shapes,     \* Shapes[r]: what request r may ask for
    Default,    \* the project of requests that name none
    Targets,    \* providers with their models
    NoTarget, Threshold, OpenFor, MaxFailures   \* see Breaker

Shape == [question : STRING, project : STRING \cup {Default}, target : Targets,
          stream : BOOLEAN, cache : BOOLEAN, memory : BOOLEAN]

ASSUME ChatAssumption ==
    /\ Targets \subseteq Kinds \X STRING
    /\ Shapes \in [Requests -> SUBSET Shape]
    /\ Threshold \in Nat \ {0} /\ OpenFor \in Nat \ {0}
    /\ MaxFailures \in Nat /\ Threshold <= MaxFailures
    /\ NoTarget \notin Targets /\ "none" \notin Requests

VARIABLES
    pc, shape,  \* how far runDirect is with each request; what it asks for
    tries,      \* chatWithRetry's calls so far
    answer,     \* the answer the client gets
    cache,      \* Redis, by cache key
    states,     \* Breaker.states
    target,     \* where a request is out
    saving,     \* the goroutine that stores the conversation runs
    memory,     \* what Qdrant holds: who asked, in which project, the answer
    recorded    \* how often metrics.Record ran for a request

chat == <<pc, shape, tries, answer, cache, states, target, saving, memory, recorded>>
vars == <<stream, gone, chat>>

B == INSTANCE Breaker WITH Callers <- Requests, Consulted <- FALSE,
                           probe <- [r \in Requests |-> FALSE]

MaxTries == 2
NoAnswer == [from |-> "none", texts |-> {}, done |-> FALSE]
Unasked == [question |-> "", project |-> "", target |-> NoTarget,
            stream |-> FALSE, cache |-> FALSE, memory |-> FALSE]
Answer == [from : Requests \cup {"none"}, texts : SUBSET Nat, done : BOOLEAN]

\* Mutant of Key: the project is left out.
KeyAnyProject(s) == <<s.question, Default, s.target[2]>>

Key(s) == <<s.question, s.project, s.target[2]>>
Keys == {Key(s) : s \in UNION {Shapes[r] : r \in Requests}}

TypeOK ==
    /\ StreamTypeOK
    /\ pc \in [Requests -> {"new", "cache", "enrich", "auth", "call", "stream",
                            "fill", "answer", "answered", "refused"}]
    /\ \A r \in Requests : shape[r] \in Shapes[r] \cup {Unasked}
    /\ tries \in [Requests -> 0..MaxTries]
    /\ answer \in [Requests -> Answer] /\ cache \in [Keys -> Answer]
    /\ B!TypeOK
    /\ saving \in [Requests -> BOOLEAN] /\ recorded \in [Requests -> 0..1]
    /\ memory \subseteq [of : Requests, project : STRING, texts : SUBSET Nat]
    /\ \A r \in Requests :
          /\ target[r] # NoTarget <=> pc[r] \in {"call", "stream"}
          /\ kind[r] # "none" => shape[r].stream /\ kind[r] = shape[r].target[1]

Init ==
    /\ StreamInit
    /\ pc = [r \in Requests |-> "new"] /\ shape = [r \in Requests |-> Unasked]
    /\ tries = [r \in Requests |-> 0]
    /\ answer = [r \in Requests |-> NoAnswer] /\ cache = [k \in Keys |-> NoAnswer]
    /\ states = [t \in Targets |-> B!Fresh] /\ target = [r \in Requests |-> NoTarget]
    /\ saving = [r \in Requests |-> FALSE] /\ recorded = [r \in Requests |-> 0]
    /\ memory = {}

Goto(r, from, to) == pc[r] = from /\ pc' = [pc EXCEPT ![r] = to]

-----------------------------------------------------------------------------
AfterCache(s) == IF s.memory /\ s.project # Default THEN "enrich" ELSE "auth"

\* The request is decoded and is not for a combo.
Arrive(r) ==
    /\ pc[r] = "new"
    /\ \E s \in Shapes[r] :
          /\ shape' = [shape EXCEPT ![r] = s]
          /\ Goto(r, "new", IF s.cache /\ ~s.stream THEN "cache" ELSE AfterCache(s))
    /\ UNCHANGED <<tries, answer, cache, states, target, saving, memory, recorded, stream, gone>>

\* Cache.Get finds an answer and the client gets it.
Hit(r) ==
    /\ Goto(r, "cache", "answered")
    /\ cache[Key(shape[r])] # NoAnswer
    /\ answer' = [answer EXCEPT ![r] = cache[Key(shape[r])]]
    /\ UNCHANGED <<shape, tries, cache, states, target, saving, memory, recorded, stream, gone>>

\* Nothing is there, or Redis does not answer.
Miss(r) ==
    /\ Goto(r, "cache", AfterCache(shape[r]))
    /\ UNCHANGED <<shape, tries, answer, cache, states, target, saving, memory, recorded, stream, gone>>

\* EnrichContext adds what it finds to the messages; any failure leaves them.
Enrich(r) ==
    /\ Goto(r, "enrich", "auth")
    /\ UNCHANGED <<shape, tries, answer, cache, states, target, saving, memory, recorded, stream, gone>>

\* resolveAuth has a key, and the request goes out to its target.
Authorized(r) ==
    /\ Goto(r, "auth", "call")
    /\ B!Send(r, shape[r].target)
    /\ UNCHANGED <<shape, tries, answer, cache, saving, memory, recorded, stream, gone>>

Unauthorized(r) ==
    /\ Goto(r, "auth", "refused")
    /\ UNCHANGED <<shape, tries, answer, cache, states, target, saving, memory, recorded, stream, gone>>

\* What Chat may make of the body of an answer.  An openai body is a single
\* document; kiro's of a broken one has no text; antigravity takes a broken
\* body for one that ended.
KiroTexts(b) ==
    IF b.broken THEN {} ELSE {i \in 1..Len(b.frames) : b.frames[i] \in {"text", "finish"}}

AntigravityTexts(b) ==
    {i \in 1..Len(b.frames) :
        IsText(b.frames[i]) /\ \A j \in 1..i - 1 : ~Ends("antigravity", b.frames[j])}

Answers(k) ==
    CASE k = "openai" -> {{1}}
      [] k = "kiro" -> {KiroTexts(b) : b \in Bodies["kiro"]}
      [] k = "antigravity" -> {AntigravityTexts(b) : b \in Bodies["antigravity"]}

Plain(r) == pc[r] = "call" /\ ~shape[r].stream

\* metrics.Record; each of its calls says that the request succeeded.
Counted(r) == recorded' = [recorded EXCEPT ![r] = @ + 1]

\* Chat returns an answer, the breaker and the metrics are told.
Succeed(r) ==
    /\ Plain(r)
    /\ Goto(r, "call", IF shape[r].cache THEN "fill" ELSE "answer")
    /\ \E a \in Answers(shape[r].target[1]) :
          answer' = [answer EXCEPT ![r] = [from |-> r, texts |-> a, done |-> FALSE]]
    /\ B!Success(r)
    /\ Counted(r)
    /\ UNCHANGED <<shape, tries, cache, saving, memory, stream, gone>>

\* Mutant of TryAgain: one try too many.
TryOnceMore(r) ==
    /\ Plain(r)
    /\ tries[r] < MaxTries
    /\ tries' = [tries EXCEPT ![r] = @ + 1]
    /\ UNCHANGED <<pc, shape, answer, cache, states, target, saving, memory, recorded, stream, gone>>

\* A transient error is tried again.
TryAgain(r) ==
    /\ Plain(r)
    /\ tries[r] + 1 < MaxTries
    /\ tries' = [tries EXCEPT ![r] = @ + 1]
    /\ UNCHANGED <<pc, shape, answer, cache, states, target, saving, memory, recorded, stream, gone>>

\* Mutant of Fail: the breaker is told once for each try.
FailEachTry(r) ==
    /\ Plain(r)
    /\ Goto(r, "call", "refused")
    /\ tries' = [tries EXCEPT ![r] = @ + 1]
    /\ target' = [target EXCEPT ![r] = NoTarget]
    /\ states' = [states EXCEPT ![target[r]] = IF tries[r] = 1 THEN B!Failed(B!Failed(@)) ELSE B!Failed(@)]
    /\ UNCHANGED <<shape, answer, cache, saving, memory, recorded, stream, gone>>

\* A permanent error, or the last try failed.
Fail(r) ==
    /\ Plain(r)
    /\ Goto(r, "call", "refused")
    /\ tries' = [tries EXCEPT ![r] = @ + 1]
    /\ B!Failure(r)
    /\ UNCHANGED <<shape, answer, cache, saving, memory, recorded, stream, gone>>

\* Cache.Set stores the answer or fails.
Fill(r) ==
    /\ Goto(r, "fill", "answer")
    /\ \/ cache' = [cache EXCEPT ![Key(shape[r])] = answer[r]]
       \/ UNCHANGED cache
    /\ UNCHANGED <<shape, tries, answer, states, target, saving, memory, recorded, stream, gone>>

\* The goroutine is started and the answer written.
Reply(r) ==
    /\ Goto(r, "answer", "answered")
    /\ saving' = [saving EXCEPT ![r] = shape[r].memory /\ shape[r].project # Default]
    /\ UNCHANGED <<shape, tries, answer, cache, states, target, memory, recorded, stream, gone>>

-----------------------------------------------------------------------------
\* streamChat: the upstream takes the request or refuses it.
StreamStarts(r) ==
    /\ Goto(r, "call", "stream")
    /\ shape[r].stream
    /\ \E b \in Bodies[shape[r].target[1]] : Open(r, shape[r].target[1], b)
    /\ UNCHANGED <<shape, tries, answer, cache, states, target, saving, memory, recorded, gone>>

StreamFails(r) ==
    /\ Goto(r, "call", "refused")
    /\ shape[r].stream
    /\ B!Abandon(r)
    /\ UNCHANGED <<shape, tries, answer, cache, saving, memory, recorded, stream, gone>>

\* Mutant of Over: the handler stops at what it has when the stream's loop ends.
OverEarly(r) == over[r]

\* The channel is closed and empty.
Over(r) == Drained(r)

\* streamChat's end, whatever ended the stream: [DONE] is written, the metrics
\* and the breaker are told of a success and the goroutine is started.
StreamDone(r) ==
    /\ Goto(r, "stream", "answered")
    /\ Over(r)
    /\ answer' = [answer EXCEPT ![r] =
                     [from |-> r, texts |-> {out[r][i].at : i \in 1..taken[r]} \ {0}, done |-> TRUE]]
    /\ Counted(r)
    /\ saving' = [saving EXCEPT ![r] = shape[r].project # Default]
    /\ B!Success(r)
    /\ UNCHANGED <<shape, tries, cache, memory, stream, gone>>

-----------------------------------------------------------------------------
\* StoreConversation stores nothing of an empty answer.
Remember(r) ==
    /\ saving[r] /\ answer[r].texts # {}
    /\ memory' = memory \cup {[of |-> r, project |-> shape[r].project, texts |-> answer[r].texts]}
    /\ saving' = [saving EXCEPT ![r] = FALSE]
    /\ UNCHANGED <<pc, shape, tries, answer, cache, states, target, recorded, stream, gone>>

\* Too short a conversation, no embedding, an error or the 5 seconds.
Forget(r) ==
    /\ saving[r]
    /\ saving' = [saving EXCEPT ![r] = FALSE]
    /\ UNCHANGED <<pc, shape, tries, answer, cache, states, target, memory, recorded, stream, gone>>

\* The cache's TTL is over.
Expire ==
    /\ \E k \in Keys : cache[k] # NoAnswer /\ cache' = [cache EXCEPT ![k] = NoAnswer]
    /\ UNCHANGED <<pc, shape, tries, answer, states, target, saving, memory, recorded, stream, gone>>

Tick ==
    /\ B!Tick
    /\ UNCHANGED <<pc, shape, tries, answer, cache, saving, memory, recorded, stream, gone>>

Serve(r) ==
    \/ Hit(r) \/ Miss(r) \/ Enrich(r) \/ Authorized(r) \/ Unauthorized(r)
    \/ Succeed(r) \/ TryAgain(r) \/ Fail(r) \/ Fill(r) \/ Reply(r)
    \/ StreamStarts(r) \/ StreamFails(r) \/ StreamDone(r)

Next ==
    \/ \E r \in Requests :
          \/ Arrive(r) \/ Serve(r) \/ Remember(r) \/ Forget(r)
          \/ (Produce(r) \/ (pc[r] = "stream" /\ Take(r))) /\ UNCHANGED chat
          \/ pc[r] \notin {"new", "answered", "refused"} /\ Leave(r) /\ UNCHANGED chat
    \/ Expire \/ Tick

Spec == Init /\ [][Next]_vars

\* Calls of Redis, Qdrant, the embedding server and the providers return: each
\* has a timeout of its own or the request's context, which ends after 180
\* seconds.  Goroutines run, and a write to a client does not block for ever
\* (WriteTimeout).
FairSpec ==
    /\ Spec
    /\ \A r \in Requests :
          /\ WF_vars(Serve(r))
          /\ WF_vars(Produce(r) /\ UNCHANGED chat)
          /\ WF_vars(pc[r] = "stream" /\ Take(r) /\ UNCHANGED chat)

-----------------------------------------------------------------------------
\* Whoever answers a request, the answer was given to a request with the same
\* question, project and model, and it is the whole of what that one got.
HitsMatch ==
    \A r, q \in Requests :
        answer[r].from = q =>
            /\ shape[q].question = shape[r].question
            /\ shape[q].project = shape[r].project
            /\ shape[q].target[2] = shape[r].target[2]
            /\ answer[r].texts = answer[q].texts

\* What a project remembers of a request is what its client was sent, and a
\* request that was refused or answered from the cache leaves nothing.
RemembersSent ==
    \A m \in memory :
        /\ m.project = shape[m.of].project /\ m.project # Default
        /\ pc[m.of] = "answered" /\ answer[m.of].from = m.of /\ answer[m.of].texts = m.texts
        /\ shape[m.of].stream => m.texts = SentTexts(m.of)

\* docs/API.md, "POST /v1/chat/completions": a stream ends with "data: [DONE]"
\* as the one it is compatible with does, and streamLoop's comment speaks of a
\* stream that goes on "until [DONE]".  So a client that stays and reads it has
\* the whole of an answer that the upstream finished.  It does not hold:
\* streamChat writes [DONE] whatever ended the channel.
DoneMeansWhole ==
    \A r \in Requests :
        pc[r] = "answered" /\ answer[r].done /\ ~gone[r] => Whole(r)

\* docs/API.md, "GET /api/metrics": "request/error counters", and Record's
\* comment: "registers one upstream call outcome".  So a request that its
\* provider failed is counted.  It does not hold: runDirect returns before it.
FailuresCounted ==
    \A r \in Requests : pc[r] = "refused" /\ tries[r] > 0 => recorded[r] = 1

\* README.md, "Circuit Breaker": "skipping unhealthy targets automatically".  So
\* no request goes to a target whose circuit is open.  It does not hold: nobody
\* asks Available.
OpenSkipped ==
    [][\A r \in Requests :
          pc[r] = "auth" /\ pc'[r] = "call" => B!Allows(shape[r].target)]_vars

\* Every request reports to the breaker at most once, and in the way Breaker
\* allows: what is proved of Breaker holds of the pipeline.
BreakerSpec == B!Spec

\* Every request is answered or refused, and no goroutine that reads a stream stays
\* behind, even when the client has left.
RequestsEnd ==
    \A r \in Requests :
        /\ pc[r] # "new" ~> pc[r] \in {"answered", "refused"}
        /\ kind[r] # "none" ~> shut[r]
=============================================================================
