------------------------------- MODULE Streams -------------------------------
(***************************************************************************)
(* ChatStream of the three kinds of provider client: a goroutine reads the *)
(* body of the upstream answer and sends chunks through a buffered channel *)
(* to the request's handler, which drains it.                              *)
(*                                                                         *)
(* A body is a sequence of frames and the way it ends.  "text" carries     *)
(* text, "finish" text and a finish reason, "done" is [DONE], "noise" does *)
(* not parse, and "cut" is a last frame that lacks its end: a newline, or, *)
(* for kiro, a part of the payload.  A chunk names the frame its text came *)
(* from, 0 when it has none; chunkString's pieces of the whole text are    *)
(* named the same way.                                                     *)
(***************************************************************************)
EXTENDS Integers, Sequences

CONSTANTS
    Requests,   \* one stream each
    Cap,        \* what the channel holds
    Bodies      \* Bodies[k]: the bodies that a provider of kind k may send

Frames == {"text", "finish", "done", "noise", "cut"}
Kinds == {"openai", "antigravity", "kiro"}
Body == [frames : Seq(Frames), broken : BOOLEAN]

ASSUME StreamAssumption ==
    /\ Cap \in Nat \ {0}
    /\ Bodies \in [Kinds -> SUBSET Body]
    /\ \A k \in Kinds : \A b \in Bodies[k] : \A i \in 1..Len(b.frames) :
          b.frames[i] \in {"cut", "done"} => i = Len(b.frames)

VARIABLES
    kind, body,     \* the provider's kind ("none": not started), what it sends
    read,           \* frames read
    out,            \* chunks made so far
    put, taken,     \* how many of them were sent, and received
    over, shut,     \* the goroutine's loop is over; the channel is closed
    gone            \* the client has left, its context is done

stream == <<kind, body, read, out, put, taken, over, shut>>

NoBody == [frames |-> <<>>, broken |-> FALSE]
Chunk == [at : Nat, stop : BOOLEAN]

StreamTypeOK ==
    /\ kind \in [Requests -> Kinds \cup {"none"}]
    /\ body \in [Requests -> Body]
    /\ read \in [Requests -> Nat] /\ put \in [Requests -> Nat] /\ taken \in [Requests -> Nat]
    /\ out \in [Requests -> Seq(Chunk)]
    /\ over \in [Requests -> BOOLEAN] /\ shut \in [Requests -> BOOLEAN]
    /\ gone \in [Requests -> BOOLEAN]
    /\ \A r \in Requests :
          /\ read[r] <= Len(body[r].frames)
          /\ taken[r] <= put[r] /\ put[r] <= Len(out[r]) /\ put[r] - taken[r] <= Cap
          /\ kind[r] # "none" => body[r] \in Bodies[kind[r]]

StreamInit ==
    /\ kind = [r \in Requests |-> "none"]
    /\ body = [r \in Requests |-> NoBody]
    /\ read = [r \in Requests |-> 0]
    /\ out = [r \in Requests |-> <<>>]
    /\ put = [r \in Requests |-> 0] /\ taken = [r \in Requests |-> 0]
    /\ over = [r \in Requests |-> FALSE] /\ shut = [r \in Requests |-> FALSE]
    /\ gone = [r \in Requests |-> FALSE]

-----------------------------------------------------------------------------
\* ChatStream returns a channel: the upstream has accepted the request.
Open(r, k, b) ==
    /\ kind[r] = "none"
    /\ kind' = [kind EXCEPT ![r] = k]
    /\ body' = [body EXCEPT ![r] = b]
    /\ UNCHANGED <<read, out, put, taken, over, shut>>

\* The goroutine reads on: kiro's before it sends anything, the others' when
\* what they made is sent.
Reading(r, kinds) ==
    /\ kind[r] \in kinds /\ ~over[r]
    /\ kind[r] = "kiro" \/ put[r] = Len(out[r])

Text(i) == [at |-> i, stop |-> FALSE]
Stop == [at |-> 0, stop |-> TRUE]
Lines == {"openai", "antigravity"}
IsText(f) == f \in {"text", "finish", "cut"}

\* A frame that the read error cut short is dropped by streamLoop and sent by
\* antigravity; kiro drops every cut frame.
Dropped(k, f, broken) ==
    \/ f = "noise"
    \/ f = "cut" /\ (k = "kiro" \/ (k = "openai" /\ broken))

\* The chunks made of frame i.
Made(k, f, i, broken) ==
    CASE Dropped(k, f, broken) -> <<>>
      [] f = "done" -> <<Stop>>
      [] f = "finish" /\ k = "openai" -> <<[at |-> i, stop |-> TRUE]>>
      [] OTHER -> <<Text(i)>>

\* [DONE] ends a loop, a finish reason only antigravity's.
Ends(k, f) == f = "done" \/ (f = "finish" /\ k = "antigravity")

\* streamLoop looks at the context before it reads.
ReadFrame(r) ==
    /\ Reading(r, Kinds)
    /\ read[r] < Len(body[r].frames)
    /\ kind[r] = "openai" => ~gone[r]
    /\ LET i == read[r] + 1
           f == body[r].frames[i]
       IN  /\ read' = [read EXCEPT ![r] = i]
           /\ out' = [out EXCEPT ![r] = @ \o Made(kind[r], f, i, body[r].broken)]
           /\ over' = [over EXCEPT ![r] = Ends(kind[r], f)]
    /\ UNCHANGED <<kind, body, put, taken, shut, gone>>

\* Mutant of ReadEnd: a body that ends is taken for an answer that ends.
ReadEndStop(r) ==
    /\ Reading(r, Lines)
    /\ read[r] = Len(body[r].frames) \/ gone[r]
    /\ over' = [over EXCEPT ![r] = TRUE]
    /\ out' = [out EXCEPT ![r] = Append(@, Stop)]
    /\ UNCHANGED <<kind, body, read, put, taken, shut, gone>>

\* The end of the body, an error or the client's leaving: no chunk tells which.
ReadEnd(r) ==
    /\ Reading(r, Lines)
    /\ read[r] = Len(body[r].frames) \/ gone[r]
    /\ over' = [over EXCEPT ![r] = TRUE]
    /\ UNCHANGED <<kind, body, read, out, put, taken, shut, gone>>

\* decodeKiroEventStream has the whole body, or, after an error, no text at
\* all; a stop chunk follows in both cases.
Decoded(r) ==
    /\ Reading(r, {"kiro"})
    /\ \/ /\ read[r] = Len(body[r].frames) /\ ~body[r].broken
          /\ out' = [out EXCEPT ![r] = (IF @ = <<>> THEN <<Text(0)>> ELSE @) \o <<Stop>>]
       \/ /\ body[r].broken \/ gone[r]
          /\ out' = [out EXCEPT ![r] = <<Text(0), Stop>>]
    /\ over' = [over EXCEPT ![r] = TRUE]
    /\ UNCHANGED <<kind, body, read, put, taken, shut, gone>>

\* Mutant of Send: a chunk that finds the channel full is thrown away.
SendLossy(r) ==
    /\ put[r] < Len(out[r])
    /\ kind[r] = "kiro" => over[r]
    /\ IF put[r] - taken[r] < Cap
       THEN put' = [put EXCEPT ![r] = @ + 1] /\ UNCHANGED out
       ELSE /\ out' = [out EXCEPT ![r] = SubSeq(@, 1, put[r]) \o SubSeq(@, put[r] + 2, Len(@))]
            /\ UNCHANGED put
    /\ UNCHANGED <<kind, body, read, taken, over, shut, gone>>

\* A send waits for room in the channel.
Send(r) ==
    /\ put[r] < Len(out[r]) /\ put[r] - taken[r] < Cap
    /\ kind[r] = "kiro" => over[r]
    /\ put' = [put EXCEPT ![r] = @ + 1]
    /\ UNCHANGED <<kind, body, read, out, taken, over, shut, gone>>

\* kiro's select: the client has left and the rest is dropped.
Drop(r) ==
    /\ kind[r] = "kiro" /\ over[r] /\ gone[r]
    /\ put[r] < Len(out[r]) /\ ~out[r][put[r] + 1].stop
    /\ out' = [out EXCEPT ![r] = SubSeq(@, 1, put[r])]
    /\ UNCHANGED <<kind, body, read, put, taken, over, shut, gone>>

\* Mutant of Close: a loop that a client ended leaves its channel open.
CloseUnlessGone(r) ==
    /\ over[r] /\ ~shut[r] /\ put[r] = Len(out[r]) /\ ~gone[r]
    /\ shut' = [shut EXCEPT ![r] = TRUE]
    /\ UNCHANGED <<kind, body, read, out, put, taken, over, gone>>

Close(r) ==
    /\ over[r] /\ ~shut[r] /\ put[r] = Len(out[r])
    /\ shut' = [shut EXCEPT ![r] = TRUE]
    /\ UNCHANGED <<kind, body, read, out, put, taken, over, gone>>

\* The handler receives a chunk, adds it to the answer and writes it out; a
\* client that has left does not keep it from that.
Take(r) ==
    /\ taken[r] < put[r]
    /\ taken' = [taken EXCEPT ![r] = @ + 1]
    /\ UNCHANGED <<kind, body, read, out, put, over, shut, gone>>

Leave(r) ==
    /\ ~gone[r]
    /\ gone' = [gone EXCEPT ![r] = TRUE]
    /\ UNCHANGED stream

Produce(r) == ReadFrame(r) \/ ReadEnd(r) \/ Decoded(r) \/ Send(r) \/ Drop(r) \/ Close(r)

\* The handler's loop ends.
Drained(r) == shut[r] /\ taken[r] = put[r]

StreamNext ==
    \E r \in Requests :
        \/ \E k \in Kinds : \E b \in Bodies[k] : Open(r, k, b) /\ UNCHANGED gone
        \/ Produce(r) \/ Take(r) \/ Leave(r)

StreamSpec == StreamInit /\ [][StreamNext]_<<stream, gone>>

-----------------------------------------------------------------------------
\* The frames whose text an answer consists of.
TextsTo(r, n) == {i \in 1..n : IsText(body[r].frames[i])}
SentTexts(r) == {out[r][i].at : i \in 1..put[r]} \ {0}

\* What the client gets is the upstream's text in order and without a gap: it
\* may lack an end, never anything before something it has.
InOrder ==
    \A r \in Requests :
        /\ \A i, j \in 1..put[r] :
              i < j /\ out[r][i].at # 0 /\ out[r][j].at # 0 => out[r][i].at < out[r][j].at
        /\ \A m \in SentTexts(r) : TextsTo(r, m) \subseteq SentTexts(r)

\* Frame n ends the upstream's answer.
IsEnd(r, n) == body[r].frames[n] \in {"finish", "done"}

\* The upstream finished its answer and the client was sent all its text.  kiro's
\* answers have no last frame: they end with their body.
Whole(r) ==
    LET n == Len(body[r].frames)
    IN  IF kind[r] = "kiro"
        THEN /\ ~body[r].broken /\ \A i \in 1..n : body[r].frames[i] # "cut"
             /\ TextsTo(r, n) \subseteq SentTexts(r)
        ELSE \E i \in 1..n : IsEnd(r, i) /\ TextsTo(r, i) \subseteq SentTexts(r)

\* From an OpenAI-compatible provider a client that stays can tell a whole answer
\* from one that broke off, though [DONE] follows both: a finish reason comes only
\* with the whole answer, and no stream that the upstream finished ends without.
\* Antigravity's streams seldom have one, and kiro's always.
FinishTells ==
    \A r \in Requests :
        kind[r] = "openai" =>
            /\ (\E i \in 1..put[r] : out[r][i].stop) => Whole(r)
            /\ Drained(r) /\ ~gone[r] /\ (\E n \in 1..Len(body[r].frames) : IsEnd(r, n)) =>
                   \E i \in 1..put[r] : out[r][i].stop
=============================================================================
