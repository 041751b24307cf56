-------------------------------- MODULE Memory --------------------------------
(***************************************************************************)
(* memory.Service over Qdrant, and its callers: a conversation or an entry *)
(* that is stored, the indexer's Run, a deletion, and EnrichContext.  A    *)
(* point is known by the call that made it and by its number in the call;  *)
(* in the indexer it is a chunk.  Vectors and scores are left out: a       *)
(* search finds any of the points it may find.                             *)
(***************************************************************************)
EXTENDS Chunks, Prompts, FiniteSets

CONSTANTS
    Calls,
    Projects,
    Names,          \* collections
    CollectionName, \* [Projects -> Names]; other projects may share a name
    Jobs,           \* Jobs[c]: what call c may do, see Job
    Batch,          \* points in a batch of Run
    Texts           \* texts a file may have

\* A file is the lengths of its lines and whether it is indexed: of a known
\* kind, readable, small enough and not blank.
File == [lines : Texts, indexed : BOOLEAN]
Ops == {"entry", "conversation", "index", "delete", "enrich"}
Job == [op : Ops, project : Projects, tree : Seq(File), msgs : Seq(Messages)]

ASSUME MemoryAssumption ==
    /\ CollectionName \in [Projects -> Names]
    /\ Batch \in Nat \ {0}
    /\ \A c \in Calls : \A j \in Jobs[c] :
          j \in Job /\ (j.op = "enrich" => LastUser(j.msgs) # 0)
    /\ Texts \subseteq Seq(Nat) \ {<<>>}
    /\ "context" \in Words

VARIABLES
    pc, job,
    total,      \* the points a call has to make
    at, kept,   \* those it made, and stored
    exists,     \* Qdrant's collections
    points,     \* and what they hold
    sent,       \* the conversation after EnrichContext
    found,      \* history: the points whose text it carries
    dropped     \* history: the collection was deleted while the call was open, or later

vars == <<pc, job, total, at, kept, exists, points, sent, found, dropped>>

NoJob == [op |-> "none", project |-> "", tree |-> <<>>, msgs |-> <<>>]

In(c) == CollectionName[job[c].project]

\* The chunks of a tree: those of every file that is indexed.
ChunksOf(file) == IF file.indexed THEN Len(ChunkText(file.lines)) ELSE 0
Chunked(tree) ==
    LET upTo[n \in 0..Len(tree)] == IF n = 0 THEN 0 ELSE upTo[n - 1] + ChunksOf(tree[n])
    IN  upTo[Len(tree)]

TypeOK ==
    /\ pc \in [Calls -> {"idle", "get", "put", "embed", "upsert", "walk", "drop", "list", "search", "done", "failed"}]
    /\ job \in [Calls -> Job \cup {NoJob}]
    /\ sent \in [Calls -> Seq(Messages)]
    /\ {total, at, kept} \subseteq [Calls -> Nat]
    /\ exists \subseteq Names
    /\ points \subseteq [by : Calls, n : Nat \ {0}, in : exists]
    /\ found \in [Calls -> SUBSET [by : Calls, n : Nat \ {0}, in : Names]]
    /\ dropped \in [Calls -> BOOLEAN]
    /\ \A c \in Calls :
          /\ kept[c] <= at[c] /\ at[c] <= total[c]
          /\ at[c] - kept[c] <= Batch

Init ==
    /\ pc = [c \in Calls |-> "idle"] /\ job = [c \in Calls |-> NoJob]
    /\ total = [c \in Calls |-> 0] /\ at = [c \in Calls |-> 0] /\ kept = [c \in Calls |-> 0]
    /\ exists = {} /\ points = {}
    /\ sent = [c \in Calls |-> <<>>] /\ found = [c \in Calls |-> {}]
    /\ dropped = [c \in Calls |-> FALSE]

Goto(c, from, to) == pc[c] = from /\ pc' = [pc EXCEPT ![c] = to]
Quiet == UNCHANGED <<job, total, at, kept, exists, points, sent, found, dropped>>

-----------------------------------------------------------------------------
\* Where each operation begins.
First(op) ==
    CASE op \in {"entry", "index"} -> "get"
      [] op = "conversation" -> "embed"
      [] op = "delete" -> "drop"
      [] op = "enrich" -> "list"

Start(c) ==
    /\ pc[c] = "idle"
    /\ \E j \in Jobs[c] :
          /\ job' = [job EXCEPT ![c] = j]
          /\ Goto(c, "idle", First(j.op))
          /\ at' = [at EXCEPT ![c] = IF j.op \in {"entry", "conversation"} THEN 1 ELSE 0]
          /\ total' = [total EXCEPT ![c] = IF j.op = "index" THEN Chunked(j.tree) ELSE at'[c]]
          /\ sent' = [sent EXCEPT ![c] = j.msgs]
    /\ UNCHANGED <<kept, exists, points, found, dropped>>

\* A call of Qdrant fails, or the embedding server does in a batch; what was
\* made so far stays.
Fail(c) ==
    /\ pc[c] \in {"get", "put", "drop"} \/ (pc[c] = "embed" /\ job[c].op = "index")
    /\ pc' = [pc EXCEPT ![c] = "failed"]
    /\ Quiet

\* What follows EnsureCollection.
AfterEnsure(c) ==
    CASE job[c].op = "conversation" -> "upsert"
      [] job[c].op = "entry" -> "embed"
      [] job[c].op = "index" -> IF at[c] = kept[c] THEN "walk" ELSE "embed"

EnsureGet(c) ==
    /\ Goto(c, "get", IF In(c) \in exists THEN AfterEnsure(c) ELSE "put")
    /\ Quiet

\* The collection is created; the second of two creations is an error.
EnsurePut(c) ==
    /\ pc[c] = "put"
    /\ Goto(c, "put", IF In(c) \in exists THEN "failed" ELSE AfterEnsure(c))
    /\ exists' = exists \cup {In(c)}
    /\ UNCHANGED <<job, total, at, kept, points, sent, found, dropped>>

Embed(c) ==
    /\ Goto(c, "embed", CASE job[c].op = "conversation" -> "get"
                          [] job[c].op = "enrich" -> "search"
                          [] OTHER -> "upsert")
    /\ Quiet

\* No vector: nothing is stored, nothing is added, and that is no error.
EmbedNothing(c) ==
    /\ job[c].op # "index"
    /\ Goto(c, "embed", "done")
    /\ Quiet

Made(c) == {[by |-> c, n |-> n, in |-> In(c)] : n \in kept[c] + 1..at[c]}

\* Mutant of Upsert: the points that were stored are not forgotten.
UpsertAgain(c) ==
    /\ Goto(c, "upsert", IF job[c].op = "index" THEN "walk" ELSE "done")
    /\ In(c) \in exists
    /\ points' = points \cup Made(c)
    /\ UNCHANGED <<job, total, at, kept, exists, sent, found, dropped>>

Upsert(c) ==
    /\ Goto(c, "upsert", IF job[c].op = "index" THEN "walk" ELSE "done")
    /\ In(c) \in exists
    /\ points' = points \cup Made(c)
    /\ kept' = [kept EXCEPT ![c] = at[c]]
    /\ UNCHANGED <<job, total, at, exists, sent, found, dropped>>

\* Mutant of UpsertFails: the batch that failed is counted.
UpsertFailsCounted(c) ==
    /\ Goto(c, "upsert", "failed")
    /\ kept' = [kept EXCEPT ![c] = at[c]]
    /\ UNCHANGED <<job, total, at, exists, points, sent, found, dropped>>

\* The collection is gone, Qdrant refuses the batch, or its answer is lost.
UpsertFails(c) ==
    /\ Goto(c, "upsert", "failed")
    /\ \/ UNCHANGED points
       \/ In(c) \in exists /\ points' = points \cup Made(c)
    /\ UNCHANGED <<job, total, at, kept, exists, sent, found, dropped>>

-----------------------------------------------------------------------------
\* Mutant of Walk: the last batch, which is not full, is left.
WalkNoFlush(c) ==
    /\ \/ /\ at[c] < total[c]
          /\ at' = [at EXCEPT ![c] = @ + 1]
          /\ Goto(c, "walk", IF at[c] + 1 - kept[c] >= Batch THEN "get" ELSE "walk")
       \/ /\ at[c] = total[c]
          /\ Goto(c, "walk", "done")
          /\ UNCHANGED at
    /\ UNCHANGED <<job, total, kept, exists, points, sent, found, dropped>>

\* Run adds the next chunk to the batch and flushes it when it is full, and
\* once more when there are no more files.
Walk(c) ==
    /\ \/ /\ at[c] < total[c]
          /\ at' = [at EXCEPT ![c] = @ + 1]
          /\ Goto(c, "walk", IF at[c] + 1 - kept[c] >= Batch THEN "get" ELSE "walk")
       \/ /\ at[c] = total[c]
          /\ Goto(c, "walk", IF at[c] = kept[c] THEN "done" ELSE "get")
          /\ UNCHANGED at
    /\ UNCHANGED <<job, total, kept, exists, points, sent, found, dropped>>

\* DeleteCollection; Qdrant answers, or has dropped it and the answer is lost.
Drop(c) ==
    /\ Goto(c, "drop", "done") \/ Goto(c, "drop", "failed")
    /\ exists' = exists \ {In(c)}
    /\ points' = {p \in points : p.in # In(c)}
    /\ dropped' = [d \in Calls |-> dropped[d] \/ (pc[d] # "idle" /\ In(d) = In(c))]
    /\ UNCHANGED <<job, total, at, kept, sent, found>>

-----------------------------------------------------------------------------
\* EnrichContext: without a collection the messages stay as they are.
List(c) ==
    /\ \/ Goto(c, "list", "embed") /\ In(c) \in exists
       \/ Goto(c, "list", "done")
    /\ Quiet

Contexts(c) == {p \in points : p.in = In(c)}

\* The search fails, finds nothing that is near enough, or finds memories.
Search(c) ==
    /\ Goto(c, "search", "done")
    /\ \E some \in SUBSET Contexts(c) :
          /\ found' = [found EXCEPT ![c] = some]
          /\ sent' = [sent EXCEPT ![c] = IF some = {} THEN @ ELSE WithContext(@, {"context"})]
    /\ UNCHANGED <<job, total, at, kept, exists, points, dropped>>

Advance(c) ==
    \/ Fail(c) \/ EnsureGet(c) \/ EnsurePut(c)
    \/ EmbedNothing(c) \/ Upsert(c) \/ UpsertFails(c) \/ Walk(c) \/ Drop(c) \/ List(c) \/ Search(c)

Next == \E c \in Calls : Start(c) \/ Advance(c) \/ Embed(c)

Spec == Init /\ [][Next]_vars

\* Qdrant's client has a timeout of 10 seconds.  The embedding server is called
\* with none but the context's, and Run's has none.
FairSpec ==
    /\ Spec
    /\ \A c \in Calls :
          /\ WF_vars(pc[c] # "embed" /\ Advance(c))
          /\ WF_vars(job[c].op # "index" /\ (Embed(c) \/ EmbedNothing(c)))

-----------------------------------------------------------------------------
Stored(c) == {p.n : p \in {q \in points : q.by = c}}

\* What a call has stored is what it counts, chunk by chunk from the first: a
\* batch that failed is there as a whole or not at all, and nothing after it.
BatchesKept ==
    \A c \in Calls : ~dropped[c] =>
        \/ Stored(c) = 1..kept[c]
        \/ pc[c] = "failed" /\ Stored(c) = 1..at[c]

\* A Run that succeeds has stored every chunk of every file it indexed.
IndexComplete ==
    \A c \in Calls :
        pc[c] = "done" /\ job[c].op = "index" /\ ~dropped[c] =>
            Stored(c) = 1..total[c]

\* The chunks of any text cover it.  No call makes a difference, so the initial
\* state is where it is asked.
ChunksCover == Init => \A lines \in Texts : CoverText(lines, ChunkText(lines))

\* What the upstreams get of a conversation.  messagesToGeminiContents keeps every
\* turn in order, behind every system message, with what memory found in one.
GeminiKeeps(c) ==
    LET contents == GeminiContents(sent[c])
    IN  /\ Turns(contents) = Turns(job[c].msgs)
        /\ \A i, j \in 1..Len(contents) : i < j /\ IsSystem(contents[j]) => IsSystem(contents[i])
        /\ found[c] # {} => \E i \in 1..Len(contents) : "context" \in contents[i].texts

\* buildKiroRequest keeps the question, and pairs messages from the first one on:
\* a dialogue's earlier turns all arrive when the system messages before them are
\* even in number, and none does when they are odd, memory's own being counted.
KiroKeeps(c) ==
    /\ LastUser(sent[c]) # 0 =>
          sent[c][LastUser(sent[c])] = job[c].msgs[LastUser(job[c].msgs)]
    /\ \A k \in 0..Len(job[c].msgs) : Dialogue(job[c].msgs, k) =>
          LET before == k + Len(sent[c]) - Len(job[c].msgs)
          IN  DOMAIN KiroHistory(sent[c]) =
                  IF before % 2 = 1 THEN {} ELSE {i \in before + 1..Len(sent[c]) - 1 : i % 2 = 1}

TurnsArrive == \A c \in Calls : GeminiKeeps(c) /\ KiroKeeps(c)

\* docs/MEMORY_SYSTEM.md: the context is injected "as a system message in the
\* conversation", and the example shows it in "What the LLM receives".  So what
\* memory found reaches every upstream.  It does not hold: kiro's requests have no
\* system messages.
MemoryArrives == \A c \in Calls : found[c] # {} => "context" \in SentToKiro(sent[c])

\* messagesToGeminiContents' comment: "system hoisted to systemInstruction".  So
\* the contents of a request are turns.  It does not hold: system messages are
\* put at their front, and buildEnvelope has no systemInstruction.
SystemHoisted ==
    \A c \in Calls :
        LET contents == GeminiContents(sent[c])
        IN  pc[c] = "done" => \A i \in 1..Len(contents) : ~IsSystem(contents[i])

\* Every call returns; only a Run may wait for the embedding server for ever.
CallsReturn ==
    \A c \in Calls :
        pc[c] # "idle" ~> (pc[c] \in {"done", "failed"} \/ [](pc[c] = "embed" /\ job[c].op = "index"))
=============================================================================
