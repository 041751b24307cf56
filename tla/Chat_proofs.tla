----------------------------- MODULE Chat_proofs -----------------------------
(***************************************************************************)
(* Proofs about Chat and Streams, for any requests, targets and bodies and *)
(* a channel of any capacity: what a stream delivers, what is cached,      *)
(* counted and remembered, and that the pipeline reports to the breaker in *)
(* the way Breaker allows.                                                 *)
(***************************************************************************)
EXTENDS Chat, SequenceTheorems, TLAPS

-----------------------------------------------------------------------------
\* Streams.  Frame n of r's body.
Frame(r, n) == body[r].frames[n]

\* Of the first i chunks one has the text of frame n.
Has(r, n, i) == \E j \in 1..i : out[r][j].at = n

Types ==
    /\ kind \in [Requests -> Kinds \cup {"none"}]
    /\ body \in [Requests -> Body]
    /\ read \in [Requests -> Nat] /\ put \in [Requests -> Nat] /\ taken \in [Requests -> Nat]
    /\ out \in [Requests -> Seq(Chunk)]
    /\ over \in [Requests -> BOOLEAN] /\ shut \in [Requests -> BOOLEAN]
    /\ gone \in [Requests -> BOOLEAN]

\* How far each side of the channel is.
Flow(r) ==
    /\ read[r] <= Len(body[r].frames)
    /\ taken[r] <= put[r] /\ put[r] <= Len(out[r]) /\ put[r] - taken[r] <= Cap
    /\ kind[r] # "none" => body[r] \in Bodies[kind[r]]
    /\ kind[r] = "none" => out[r] = <<>> /\ read[r] = 0 /\ ~over[r]
    /\ kind[r] = "kiro" /\ ~over[r] => put[r] = 0
    /\ shut[r] => over[r] /\ put[r] = Len(out[r])

\* Chunks are in the order of their frames,
Ordered(r) ==
    /\ \A i \in 1..Len(out[r]) : out[r][i].at <= read[r]
    /\ \A i, j \in 1..Len(out[r]) :
          i < j /\ out[r][i].at # 0 /\ out[r][j].at # 0 => out[r][i].at < out[r][j].at

\* nothing is missing before a chunk, and nothing at all while the reader reads,
Gapless(r) ==
    /\ \A i \in 1..Len(out[r]) : out[r][i].at # 0 =>
          \A n \in 1..out[r][i].at : IsText(Frame(r, n)) => Has(r, n, i)
    /\ ~over[r] => \A n \in 1..read[r] : Frame(r, n) \in {"text", "finish"} => Has(r, n, Len(out[r]))

\* and a chunk that says stop comes when all is there.
StopRight(r) ==
    kind[r] \in Lines => \A i \in 1..Len(out[r]) : out[r][i].stop =>
        \E n \in 1..read[r] :
            /\ Frame(r, n) \in {"finish", "done"}
            /\ \A k \in 1..n : IsText(Frame(r, k)) => Has(r, k, i)

StreamRight(r) == Flow(r) /\ Ordered(r) /\ Gapless(r) /\ StopRight(r)

StreamInv == Types /\ \A r \in Requests : StreamRight(r)

\* One chunk more.
LEMMA OneChunkMore ==
    ASSUME NEW s \in Seq(Chunk), NEW c \in Chunk
    PROVE  /\ s \o <<c>> \in Seq(Chunk) /\ Len(s \o <<c>>) = Len(s) + 1
           /\ \A i \in 1..Len(s) : (s \o <<c>>)[i] = s[i]
           /\ (s \o <<c>>)[Len(s) + 1] = c
<1>1. <<c>> \in Seq(Chunk) /\ Len(<<c>>) = 1 /\ <<c>>[1] = c
  OBVIOUS
<1> QED
  BY <1>1, ConcatProperties

\* The step of one stream leaves the others.
LEMMA OneStream ==
    ASSUME StreamInv, NEW r \in Requests, Types', StreamRight(r)',
           \A q \in Requests \ {r} :
              /\ kind'[q] = kind[q] /\ body'[q] = body[q] /\ read'[q] = read[q] /\ out'[q] = out[q]
              /\ put'[q] = put[q] /\ taken'[q] = taken[q] /\ over'[q] = over[q] /\ shut'[q] = shut[q]
    PROVE  StreamInv'
<1>1. ASSUME NEW q \in Requests \ {r} PROVE StreamRight(q)'
  <2>1. StreamRight(q)
    BY DEF StreamInv
  <2>2. Flow(q)'
    BY <2>1 DEF StreamRight, Flow
  <2>3. Ordered(q)'
    BY <2>1 DEF StreamRight, Ordered
  <2>4. Gapless(q)'
    BY <2>1 DEF StreamRight, Gapless, Has, Frame
  <2>5. StopRight(q)'
    <3>1. kind'[q] = kind[q] /\ out'[q] = out[q] /\ read'[q] = read[q] /\ StopRight(q)
      BY <2>1 DEF StreamRight
    <3>2. \A n, i : (Has(q, n, i)' <=> Has(q, n, i)) /\ Frame(q, n)' = Frame(q, n)
      BY DEF Has, Frame
    <3> QED
      BY <3>1, <3>2 DEF StopRight
  <2> QED
    BY <2>2, <2>3, <2>4, <2>5 DEF StreamRight
<1> QED
  BY <1>1 DEF StreamInv

LEMMA Opened ==
    ASSUME StreamInv, NEW r \in Requests, NEW k \in Kinds, NEW b \in Bodies[k], Open(r, k, b), UNCHANGED gone
    PROVE  StreamInv'
<1>1. b \in Body /\ Len(b.frames) \in Nat
  BY StreamAssumption DEF Body
<1>2. Types'
  BY <1>1 DEF Open, StreamInv, Types
<1>3. StreamRight(r) /\ kind[r] = "none" /\ Len(out[r]) = 0 /\ read[r] = 0
  BY DEF StreamInv, StreamRight, Flow, Open
<1>4. kind'[r] = k /\ body'[r] = b /\ UNCHANGED <<read, out, put, taken, over, shut>>
  BY DEF Open, StreamInv, Types
<1>5. Flow(r)'
  BY <1>1, <1>2, <1>3, <1>4 DEF StreamRight, Flow, Types, StreamInv
<1>6. Ordered(r)' /\ Gapless(r)' /\ StopRight(r)'
  BY <1>3, <1>4 DEF Ordered, Gapless, StopRight
<1>7. \A q \in Requests \ {r} : kind'[q] = kind[q] /\ body'[q] = body[q]
  BY DEF Open, StreamInv, Types
<1> QED
  BY <1>2, <1>4, <1>5, <1>6, <1>7, OneStream DEF StreamRight

\* A frame is read; what is made of it is nothing or one chunk.
LEMMA FrameRead == ASSUME StreamInv, NEW r \in Requests, ReadFrame(r) PROVE StreamInv'
<1>1. StreamRight(r) /\ kind[r] \in Kinds /\ ~over[r] /\ read[r] \in Nat /\ read[r] < Len(body[r].frames)
      /\ out[r] \in Seq(Chunk) /\ body[r].frames \in Seq(Frames) /\ body[r] \in Bodies[kind[r]]
  BY DEF StreamInv, StreamRight, Flow, Types, ReadFrame, Reading, Body, Kinds
<1>5. PICK i \in Nat : i = read[r] + 1
  BY <1>1
<1>4. PICK f \in Frames : f = Frame(r, i)
  BY <1>1, <1>5 DEF Frame
<1>2. /\ read' = [read EXCEPT ![r] = i]
      /\ out' = [out EXCEPT ![r] = out[r] \o Made(kind[r], f, i, body[r].broken)]
      /\ over' = [over EXCEPT ![r] = Ends(kind[r], f)]
      /\ UNCHANGED <<kind, body, put, taken, shut, gone>>
  BY <1>4, <1>5 DEF ReadFrame, Frame
<1>3. \A n \in 1..i - 1 : Frame(r, n) \in Frames \ {"cut", "done"}
  BY <1>1, <1>5, StreamAssumption DEF Frame
<1>6. read'[r] = i /\ out'[r] = out[r] \o Made(kind[r], f, i, body[r].broken) /\ over'[r] = Ends(kind[r], f)
  BY <1>2 DEF StreamInv, Types
<1>13. \/ out'[r] = out[r] /\ Dropped(kind[r], f, body[r].broken)
       \/ \E c \in Chunk :
            /\ out'[r] = out[r] \o <<c>> /\ ~Dropped(kind[r], f, body[r].broken)
            /\ c.at = (IF f = "done" THEN 0 ELSE i)
            /\ c.stop => f \in {"done", "finish"}
  <2>1. Text(i) \in Chunk /\ Stop \in Chunk /\ [at |-> i, stop |-> TRUE] \in Chunk
    BY DEF Text, Stop, Chunk
  <2>2. CASE Dropped(kind[r], f, body[r].broken)
    <3>1. Made(kind[r], f, i, body[r].broken) = <<>>
      BY <2>2 DEF Made, Dropped
    <3>2. out[r] \o <<>> = out[r]
      BY <1>1, ConcatEmptySeq
    <3> QED
      BY <1>6, <2>2, <3>1, <3>2
  <2>3. CASE ~Dropped(kind[r], f, body[r].broken) /\ f = "done"
    <3>1. Made(kind[r], f, i, body[r].broken) = <<Stop>> /\ Stop.at = 0
      BY <2>3 DEF Made, Stop
    <3> QED
      BY <1>6, <2>1, <2>3, <3>1
  <2>4. CASE ~Dropped(kind[r], f, body[r].broken) /\ f = "finish" /\ kind[r] = "openai"
    <3>1. Made(kind[r], f, i, body[r].broken) = <<[at |-> i, stop |-> TRUE]>>
      BY <2>4 DEF Made
    <3> QED
      BY <1>6, <2>1, <2>4, <3>1
  <2>5. CASE ~Dropped(kind[r], f, body[r].broken) /\ f # "done" /\ ~(f = "finish" /\ kind[r] = "openai")
    <3>1. Made(kind[r], f, i, body[r].broken) = <<Text(i)>> /\ Text(i).at = i /\ ~Text(i).stop
      BY <2>5 DEF Made, Text
    <3> QED
      BY <1>6, <2>1, <2>5, <3>1
  <2> QED
    BY <2>2, <2>3, <2>4, <2>5
<1>7. Len(out[r]) \in Nat /\ out'[r] \in Seq(Chunk) /\ Len(out[r]) <= Len(out'[r])
      /\ \A j \in 1..Len(out[r]) : out'[r][j] = out[r][j]
  <2>1. CASE out'[r] = out[r]
    BY <1>1, <2>1
  <2>2. ASSUME NEW c \in Chunk, out'[r] = out[r] \o <<c>> PROVE <1>7!:
    BY <1>1, <2>2, OneChunkMore
  <2> QED
    BY <1>13, <2>1, <2>2
<1>8. Types'
  BY <1>2, <1>5, <1>6, <1>7 DEF StreamInv, Types, Ends
<1>9. Flow(r)'
  <2>1. Flow(r) /\ put[r] \in Nat
    BY <1>1 DEF StreamRight, StreamInv, Types
  <2> QED
    BY <1>1, <1>2, <1>5, <1>6, <1>7, <2>1 DEF Flow, Kinds
<1>10. ASSUME NEW n \in 1..read[r], Frame(r, n) \in {"text", "finish"} PROVE Has(r, n, Len(out[r]))
  BY <1>1, <1>10 DEF StreamRight, Gapless
<1>14. \A n \in Nat : Frame(r, n)' = Frame(r, n)
  BY <1>2 DEF Frame
<1>15. \A j \in 1..Len(out[r]) : out[r][j].at <= read[r] /\ out[r][j].at \in Nat
  <2>1. \A j \in 1..Len(out[r]) : out[r][j] \in Chunk
    BY <1>1
  <2> QED
    BY <1>1, <2>1 DEF StreamRight, Ordered, Chunk
<1>11. CASE out'[r] = out[r] /\ Dropped(kind[r], f, body[r].broken)
  <2>2. Ordered(r)'
    <3>1. Ordered(r)
      BY <1>1 DEF StreamRight
    <3>2. \A j \in 1..Len(out[r]) : out[r][j].at <= i
      BY <1>1, <1>5, <1>15
    <3> QED
      BY <1>6, <1>11, <3>1, <3>2 DEF Ordered
  <2>3. Gapless(r)'
    <3>1. f \notin {"text", "finish"}
      BY <1>11 DEF Dropped
    <3>2. Gapless(r) /\ \A n \in Nat, j \in Nat : Has(r, n, j)' <=> Has(r, n, j)
      BY <1>1, <1>11 DEF StreamRight, Has
    <3>3. ASSUME NEW n \in 1..i, Frame(r, n) \in {"text", "finish"} PROVE Has(r, n, Len(out[r]))
      <4>1. n \in 1..read[r]
        BY <1>1, <1>4, <1>5, <3>1, <3>3
      <4> QED
        BY <1>10, <3>3, <4>1
    <3> QED
      BY <1>2, <1>6, <1>7, <1>11, <1>14, <1>15, <3>2, <3>3 DEF Gapless, Has, Frame
  <2>4. StopRight(r)'
    <3>1. StopRight(r)
      BY <1>1 DEF StreamRight
    <3>2. \A n \in 1..read[r] : n \in 1..i
      BY <1>1, <1>5
    <3> QED
      BY <1>2, <1>6, <1>11, <3>1, <3>2 DEF StopRight, Has, Frame
  <2> QED
    BY <1>2, <1>8, <1>9, <2>2, <2>3, <2>4, OneStream DEF StreamRight, StreamInv, Types
<1>12. ASSUME NEW c \in Chunk, out'[r] = out[r] \o <<c>>, ~Dropped(kind[r], f, body[r].broken),
             c.at = (IF f = "done" THEN 0 ELSE i), c.stop => f \in {"done", "finish"}
      PROVE  StreamInv'
  <2>0. PICK l \in Nat : l = Len(out[r]) + 1
    BY <1>7
  <2>1. Len(out'[r]) = l /\ out'[r][l] = c
    BY <1>1, <1>7, <1>12, <2>0, OneChunkMore
  <2>2. \A j \in 1..l : j = l \/ (j \in 1..Len(out[r]) /\ out'[r][j] = out[r][j])
    BY <1>7, <2>0
  <2>3. \A n, j \in Nat : j <= Len(out[r]) /\ Has(r, n, j) => Has(r, n, j)'
    BY <1>7 DEF Has
  <2>4. \A n \in 1..i : IsText(Frame(r, n)) => Has(r, n, l)'
    <3> TAKE n \in 1..i
    <3> HAVE IsText(Frame(r, n))
    <3>1. CASE n = i
      BY <1>4, <1>5, <1>12, <2>0, <2>1, <3>1 DEF Has, IsText
    <3>2. CASE n # i
      <4>1. n \in 1..read[r] /\ Frame(r, n) \in {"text", "finish"}
        BY <1>1, <1>3, <1>5, <3>2 DEF IsText
      <4>2. PICK j \in 1..Len(out[r]) : out[r][j].at = n
        BY <1>10, <4>1 DEF Has
      <4> QED
        BY <1>7, <2>0, <4>2 DEF Has
    <3> QED
      BY <3>1, <3>2
  <2>6. Ordered(r)'
    <3>1. Ordered(r)
      BY <1>1 DEF StreamRight
    <3>2. c.at \in Nat /\ (c.at = 0 \/ c.at = i)
      BY <1>12
    <3>3. ASSUME NEW j \in 1..l PROVE out'[r][j].at <= i
      <4>1. CASE j = l
        BY <2>1, <3>2, <4>1
      <4>2. CASE j # l
        <5>1. out'[r][j] = out[r][j] /\ out[r][j].at <= read[r] /\ out[r][j].at \in Nat
          BY <1>15, <2>2, <3>3, <4>2
        <5> QED
          BY <1>1, <1>5, <5>1
      <4> QED
        BY <4>1, <4>2
    <3>4. ASSUME NEW j \in 1..l, NEW k \in 1..l, j < k, out'[r][j].at # 0, out'[r][k].at # 0
          PROVE  out'[r][j].at < out'[r][k].at
      <4>1. j \in 1..Len(out[r]) /\ out'[r][j] = out[r][j]
        BY <1>7, <2>0, <2>2, <3>4
      <4>2. CASE k = l
        BY <1>1, <1>5, <1>15, <2>1, <3>2, <3>4, <4>1, <4>2
      <4>3. CASE k # l
        BY <2>2, <3>1, <3>4, <4>1, <4>3 DEF Ordered
      <4> QED
        BY <4>2, <4>3
    <3> QED
      BY <1>6, <2>1, <3>3, <3>4 DEF Ordered
  <2>7. Gapless(r)'
    <3>1. ASSUME NEW j \in 1..l, out'[r][j].at # 0, NEW n \in 1..out'[r][j].at, IsText(Frame(r, n))
          PROVE  Has(r, n, j)'
      <4>1. CASE j = l
        <5>1. n \in 1..i
          BY <1>12, <2>1, <3>1, <4>1
        <5> QED
          BY <2>4, <3>1, <4>1, <5>1
      <4>2. CASE j # l
        <5>1. j \in 1..Len(out[r]) /\ out'[r][j] = out[r][j]
          BY <2>2, <4>2
        <5>2. Has(r, n, j)
          BY <1>1, <3>1, <5>1 DEF StreamRight, Gapless
        <5>3. n \in Nat /\ j \in Nat /\ j <= Len(out[r])
          BY <1>7, <1>15, <5>1, <3>1
        <5> QED
          BY <2>3, <5>2, <5>3
      <4> QED
        BY <4>1, <4>2
    <3>2. ASSUME NEW n \in 1..i, Frame(r, n) \in {"text", "finish"} PROVE Has(r, n, l)'
      BY <2>4, <3>2 DEF IsText
    <3> QED
      BY <1>2, <1>6, <2>1, <3>1, <3>2 DEF Gapless, Frame
  <2>8. StopRight(r)'
    <3>1. ASSUME kind[r] \in Lines, NEW j \in 1..l, out'[r][j].stop
          PROVE  \E n \in 1..i : /\ Frame(r, n) \in {"finish", "done"}
                                  /\ \A k \in 1..n : IsText(Frame(r, k)) => Has(r, k, j)'
      <4>1. CASE j = l
        <5>1. f \in {"finish", "done"}
          BY <1>12, <2>1, <3>1, <4>1
        <5>2. i \in 1..i
          BY <1>1, <1>5
        <5> QED
          BY <1>4, <2>4, <4>1, <5>1, <5>2
      <4>2. CASE j # l
        <5>1. j \in 1..Len(out[r]) /\ out'[r][j] = out[r][j]
          BY <2>2, <4>2
        <5>2. PICK n \in 1..read[r] : /\ Frame(r, n) \in {"finish", "done"}
                                      /\ \A k \in 1..n : IsText(Frame(r, k)) => Has(r, k, j)
          BY <1>1, <3>1, <5>1 DEF StreamRight, StopRight
        <5>3. n \in 1..i /\ n \in Nat /\ j \in Nat /\ j <= Len(out[r])
          BY <1>1, <1>5, <1>7, <5>1
        <5> QED
          BY <2>3, <5>2, <5>3
      <4> QED
        BY <4>1, <4>2
    <3> QED
      BY <1>2, <1>6, <2>1, <3>1 DEF StopRight, Frame
  <2> QED
    BY <1>2, <1>8, <1>9, <2>6, <2>7, <2>8, OneStream DEF StreamRight, StreamInv, Types
<1> QED
  BY <1>11, <1>12, <1>13

\* A step that makes no chunk leaves to show that the channel is right.
LEMMA NoChunk ==
    ASSUME StreamInv, NEW r \in Requests, Types', Flow(r)', over[r] => over'[r],
           UNCHANGED <<kind, body, read, out>>,
           \A q \in Requests \ {r} :
              put'[q] = put[q] /\ taken'[q] = taken[q] /\ over'[q] = over[q] /\ shut'[q] = shut[q]
    PROVE  StreamInv'
<1>1. StreamRight(r) /\ kind'[r] = kind[r] /\ out'[r] = out[r] /\ read'[r] = read[r]
  BY DEF StreamInv
<1>2. \A n, i : (Has(r, n, i)' <=> Has(r, n, i)) /\ Frame(r, n)' = Frame(r, n)
  BY DEF Has, Frame
<1>3. over'[r] \in BOOLEAN /\ over[r] \in BOOLEAN
  BY DEF StreamInv, Types
<1>4. Ordered(r)'
  BY <1>1 DEF StreamRight, Ordered
<1>5. Gapless(r)'
  BY <1>1, <1>2, <1>3 DEF StreamRight, Gapless
<1>6. StopRight(r)'
  BY <1>1, <1>2 DEF StreamRight, StopRight
<1> QED
  BY <1>4, <1>5, <1>6, OneStream DEF StreamRight

LEMMA ChannelMoves ==
    ASSUME StreamInv, NEW r \in Requests, ReadEnd(r) \/ Send(r) \/ Close(r) \/ Take(r) \/ Leave(r)
    PROVE  StreamInv'
<1>1. Flow(r) /\ kind \in [Requests -> Kinds \cup {"none"}] /\ out[r] \in Seq(Chunk) /\ Len(out[r]) \in Nat
      /\ put[r] \in Nat /\ taken[r] \in Nat /\ Cap \in Nat
  BY StreamAssumption DEF StreamInv, StreamRight, Types
<1>2. CASE ReadEnd(r)
  <2>1. Types' /\ over'[r] = TRUE /\ kind[r] # "none" /\ kind[r] # "kiro"
    BY <1>2 DEF ReadEnd, Reading, Lines, StreamInv, Types
  <2>2. Flow(r)'
    BY <1>1, <1>2, <2>1 DEF ReadEnd, Flow
  <2> QED
    BY <1>2, <2>1, <2>2, NoChunk DEF ReadEnd, StreamInv, Types
<1>3. CASE Send(r)
  <2>1. Types' /\ put'[r] = put[r] + 1
    BY <1>1, <1>3 DEF Send, StreamInv, Types
  <2>2. Flow(r)'
    BY <1>1, <1>3, <2>1 DEF Send, Flow
  <2> QED
    BY <1>3, <2>1, <2>2, NoChunk DEF Send, StreamInv, Types
<1>4. CASE Close(r)
  <2>1. Types' /\ shut'[r] = TRUE
    BY <1>4 DEF Close, StreamInv, Types
  <2>2. Flow(r)'
    BY <1>1, <1>4, <2>1 DEF Close, Flow
  <2> QED
    BY <1>4, <2>1, <2>2, NoChunk DEF Close, StreamInv, Types
<1>5. CASE Take(r)
  <2>1. Types' /\ taken'[r] = taken[r] + 1
    BY <1>1, <1>5 DEF Take, StreamInv, Types
  <2>2. Flow(r)'
    BY <1>1, <1>5, <2>1 DEF Take, Flow
  <2> QED
    BY <1>5, <2>1, <2>2, NoChunk DEF Take, StreamInv, Types
<1>6. CASE Leave(r)
  <2>1. Types'
    BY <1>6 DEF Leave, stream, StreamInv, Types
  <2>2. Flow(r)'
    BY <1>1, <1>6 DEF Leave, stream, Flow
  <2> QED
    BY <1>6, <2>1, <2>2, NoChunk DEF Leave, stream, StreamInv
<1> QED
  BY <1>2, <1>3, <1>4, <1>5, <1>6

\* The end of kiro's body, and the chunks that its client drops.
LEMMA KiroEnds == ASSUME StreamInv, NEW r \in Requests, Decoded(r) \/ Drop(r) PROVE StreamInv'
<1>1. StreamRight(r) /\ Flow(r) /\ kind[r] = "kiro" /\ kind[r] # "none" /\ kind[r] \notin Lines
      /\ out[r] \in Seq(Chunk) /\ Len(out[r]) \in Nat /\ put[r] \in Nat /\ taken[r] \in Nat /\ Cap \in Nat
  BY StreamAssumption DEF StreamInv, StreamRight, Types, Decoded, Drop, Reading, Lines
<1>2. UNCHANGED <<kind, body, read, put, taken, shut, gone>>
  BY DEF Decoded, Drop
<1>3. \A n : Frame(r, n)' = Frame(r, n)
  BY <1>2 DEF Frame
\* Either way the chunks are some of the old ones and others that carry no text.
<1>4. SUFFICES ASSUME out'[r] \in Seq(Chunk), put[r] <= Len(out'[r]), over'[r] = TRUE,
                      shut[r] => put[r] = Len(out'[r]), Types',
                      \A i \in 1..Len(out'[r]) :
                         out'[r][i].at = 0 \/ (i \in 1..Len(out[r]) /\ \A j \in 1..i : out'[r][j] = out[r][j]),
                      \A q \in Requests \ {r} : out'[q] = out[q] /\ over'[q] = over[q]
               PROVE  StreamInv'
  <2>1. CASE Decoded(r)
    <3>1. out'[r] \in {<<Text(0), Stop>>, out[r] \o <<Stop>>, <<Text(0)>> \o <<Stop>>}
      BY <2>1 DEF Decoded, StreamInv, Types
    <3>2. Text(0) \in Chunk /\ Text(0).at = 0 /\ Stop \in Chunk /\ Stop.at = 0
      BY DEF Text, Stop, Chunk
    <3>3. put[r] = 0 /\ ~shut[r]
      BY <1>1, <2>1 DEF Decoded, Reading, Flow
    <3>4. out'[r] \in Seq(Chunk)
          /\ \A i \in 1..Len(out'[r]) :
               out'[r][i].at = 0 \/ (i \in 1..Len(out[r]) /\ \A j \in 1..i : out'[r][j] = out[r][j])
      <4>1. CASE out'[r] = out[r] \o <<Stop>>
        <5>1. /\ out'[r] \in Seq(Chunk) /\ Len(out'[r]) = Len(out[r]) + 1
              /\ \A i \in 1..Len(out[r]) : out'[r][i] = out[r][i]
              /\ out'[r][Len(out[r]) + 1] = Stop
          BY <1>1, <3>2, <4>1, OneChunkMore
        <5>2. \A i \in 1..Len(out'[r]) : i = Len(out[r]) + 1 \/ i \in 1..Len(out[r])
          BY <1>1, <5>1
        <5> QED
          BY <1>1, <3>2, <5>1, <5>2
      <4>2. CASE out'[r] = <<Text(0), Stop>> \/ out'[r] = <<Text(0)>> \o <<Stop>>
        <5>1. out'[r] = <<Text(0), Stop>>
          BY <4>2
        <5> QED
          BY <3>2, <5>1
      <4> QED
        BY <3>1, <4>1, <4>2
    <3>5. over' = [over EXCEPT ![r] = TRUE] /\ over'[r] = TRUE
          /\ \A q \in Requests \ {r} : out'[q] = out[q] /\ over'[q] = over[q]
      BY <2>1 DEF Decoded, StreamInv, Types
    <3>6. out' \in [Requests -> Seq(Chunk)]
      <4>1. \E o : out' = [out EXCEPT ![r] = o]
        BY <2>1 DEF Decoded
      <4> QED
        BY <3>4, <4>1 DEF StreamInv, Types
    <3>7. Types'
      BY <1>2, <3>5, <3>6 DEF StreamInv, Types
    <3>8. put[r] <= Len(out'[r])
      BY <3>3, <3>4
    <3> QED
      BY <1>4, <3>3, <3>4, <3>5, <3>7, <3>8
  <2>2. CASE Drop(r)
    <3>1. out' = [out EXCEPT ![r] = SubSeq(out[r], 1, put[r])] /\ over' = over /\ over[r] /\ put[r] < Len(out[r])
      BY <2>2 DEF Drop
    <3>2. /\ SubSeq(out[r], 1, put[r]) \in Seq(Chunk) /\ Len(SubSeq(out[r], 1, put[r])) = put[r]
          /\ \A i \in 1..put[r] : SubSeq(out[r], 1, put[r])[i] = out[r][i]
      BY <1>1, <3>1, SubSeqProperties
    <3>3. out'[r] = SubSeq(out[r], 1, put[r]) /\ Types'
      BY <1>2, <3>1, <3>2 DEF StreamInv, Types
    <3>4. \A i \in 1..put[r] : i \in 1..Len(out[r]) /\ \A j \in 1..i : j \in 1..put[r]
      BY <1>1, <3>1
    <3>5. \A q \in Requests \ {r} : out'[q] = out[q] /\ over'[q] = over[q]
      BY <3>1 DEF StreamInv, Types
    <3>6. over'[r] = TRUE
      BY <3>1 DEF StreamInv, Types
    <3>7. out'[r] \in Seq(Chunk) /\ Len(out'[r]) = put[r] /\ \A i \in 1..put[r] : out'[r][i] = out[r][i]
      BY <3>2, <3>3
    <3>8. \A i \in 1..Len(out'[r]) : i \in 1..Len(out[r]) /\ \A j \in 1..i : out'[r][j] = out[r][j]
      BY <3>4, <3>7
    <3>9. put[r] <= Len(out'[r])
      BY <1>1, <3>7
    <3> QED
      BY <1>4, <3>3, <3>5, <3>6, <3>7, <3>8, <3>9
  <2> QED
    BY <2>1, <2>2
<1>5. Flow(r)'
  BY <1>1, <1>2, <1>4 DEF Flow
<1>6. Ordered(r)'
  <2>1. read[r] \in Nat /\ Ordered(r) /\ Len(out'[r]) \in Nat
    BY <1>1, <1>4 DEF StreamInv, Types, StreamRight
  <2>2. \A i \in 1..Len(out'[r]) : out'[r][i].at <= read[r]
    BY <1>4, <2>1 DEF Ordered
  <2>3. ASSUME NEW i \in 1..Len(out'[r]), NEW j \in 1..Len(out'[r]), i < j, out'[r][i].at # 0, out'[r][j].at # 0
        PROVE  out'[r][i].at < out'[r][j].at
    <3>1. j \in 1..Len(out[r]) /\ i \in 1..j /\ i \in 1..Len(out[r]) /\ j \in 1..j
      BY <1>1, <1>4, <2>1, <2>3
    <3>2. out'[r][j] = out[r][j] /\ out'[r][i] = out[r][i]
      BY <1>4, <2>3, <3>1
    <3> QED
      BY <2>1, <2>3, <3>1, <3>2 DEF Ordered
  <2> QED
    BY <1>2, <2>2, <2>3 DEF Ordered
<1>7. Gapless(r)'
  <2>1. ASSUME NEW i \in 1..Len(out'[r]), out'[r][i].at # 0, NEW n \in 1..out'[r][i].at, IsText(Frame(r, n))
        PROVE  Has(r, n, i)'
    <3>1. i \in 1..Len(out[r]) /\ out'[r][i] = out[r][i] /\ \A j \in 1..i : out'[r][j] = out[r][j]
      <4>1. i \in 1..i
        BY <1>4
      <4> QED
        BY <1>4, <2>1, <4>1
    <3>2. Has(r, n, i)
      BY <1>1, <2>1, <3>1 DEF StreamRight, Gapless
    <3> QED
      BY <3>1, <3>2 DEF Has
  <2> QED
    BY <1>3, <1>4, <2>1 DEF Gapless
<1>8. StopRight(r)'
  BY <1>1, <1>2 DEF StopRight
<1> QED
  BY <1>2, <1>4, <1>5, <1>6, <1>7, <1>8, OneStream DEF StreamRight

LEMMA StreamStep == ASSUME StreamInv, [StreamNext]_<<stream, gone>> PROVE StreamInv'
<1>1. ASSUME UNCHANGED <<stream, gone>> PROVE StreamInv'
  BY <1>1 DEF StreamInv, Types, StreamRight, Flow, Ordered, Gapless, StopRight, Has, Frame, stream
<1> QED
  BY <1>1, Opened, FrameRead, ChannelMoves, KiroEnds DEF StreamNext, Produce

LEMMA StreamInitially == StreamInit => StreamInv
<1> SUFFICES ASSUME StreamInit PROVE StreamInv
  OBVIOUS
<1>1. NoBody \in Body /\ Len(NoBody.frames) = 0
  BY DEF NoBody, Body
<1>2. Types
  BY <1>1 DEF StreamInit, Types
<1>3. ASSUME NEW r \in Requests PROVE StreamRight(r)
  <2>1. out[r] = <<>> /\ read[r] = 0 /\ put[r] = 0 /\ taken[r] = 0 /\ kind[r] = "none" /\ ~over[r] /\ ~shut[r]
        /\ body[r] = NoBody /\ Cap \in Nat
    BY StreamAssumption DEF StreamInit
  <2> QED
    BY <1>1, <2>1 DEF StreamRight, Flow, Ordered, Gapless, StopRight, Lines
<1> QED
  BY <1>2, <1>3 DEF StreamInv

LEMMA StreamInvariant == StreamSpec => []StreamInv
  BY StreamInitially, StreamStep, PTL DEF StreamSpec

LEMMA DeliveredInOrder == StreamInv => InOrder
<1> SUFFICES ASSUME StreamInv, NEW r \in Requests
             PROVE  /\ \A i, j \in 1..put[r] :
                          i < j /\ out[r][i].at # 0 /\ out[r][j].at # 0 => out[r][i].at < out[r][j].at
                    /\ \A m \in SentTexts(r) : TextsTo(r, m) \subseteq SentTexts(r)
  BY DEF InOrder
<1>1. Ordered(r) /\ Gapless(r) /\ put[r] <= Len(out[r]) /\ put[r] \in Nat /\ Len(out[r]) \in Nat
  BY DEF StreamInv, StreamRight, Flow, Types
<1>2. \A i \in 1..put[r] : i \in 1..Len(out[r]) /\ 1..i \subseteq 1..put[r]
  BY <1>1
<1>3. \A i, j \in 1..put[r] :
          i < j /\ out[r][i].at # 0 /\ out[r][j].at # 0 => out[r][i].at < out[r][j].at
  BY <1>1, <1>2 DEF Ordered
<1>4. ASSUME NEW m \in SentTexts(r), NEW n \in TextsTo(r, m) PROVE n \in SentTexts(r)
  <2>1. PICK i \in 1..put[r] : out[r][i].at = m /\ m # 0
    BY <1>4 DEF SentTexts
  <2>2. Has(r, n, i) /\ n # 0
    BY <1>1, <1>2, <1>4, <2>1 DEF Gapless, TextsTo, Frame
  <2>3. PICK j \in 1..i : out[r][j].at = n
    BY <2>2 DEF Has
  <2> QED
    BY <1>2, <2>1, <2>2, <2>3 DEF SentTexts
<1> QED
  BY <1>3, <1>4

\* A stop chunk of an OpenAI-compatible provider's stream is of a whole answer.
LEMMA DeliveredWhole ==
    ASSUME StreamInv, NEW r \in Requests, kind[r] = "openai", NEW i \in 1..put[r], out[r][i].stop
    PROVE  Whole(r)
<1>1. StopRight(r) /\ put[r] <= Len(out[r]) /\ put[r] \in Nat /\ Len(out[r]) \in Nat
      /\ read[r] \in Nat /\ read[r] <= Len(body[r].frames) /\ Len(body[r].frames) \in Nat
  BY DEF StreamInv, StreamRight, Flow, Types, Body
<1>2. i \in 1..Len(out[r]) /\ 1..i \subseteq 1..put[r]
  BY <1>1
<1>3. PICK n \in 1..read[r] : /\ Frame(r, n) \in {"finish", "done"}
                              /\ \A k \in 1..n : IsText(Frame(r, k)) => Has(r, k, i)
  BY <1>1, <1>2 DEF StopRight, Lines
<1>4. ASSUME NEW k \in TextsTo(r, n) PROVE k \in SentTexts(r)
  <2>1. Has(r, k, i) /\ k # 0
    BY <1>3, <1>4 DEF TextsTo, Frame
  <2>2. PICK j \in 1..i : out[r][j].at = k
    BY <2>1 DEF Has
  <2> QED
    BY <1>2, <2>1, <2>2 DEF SentTexts
<1> QED
  BY <1>1, <1>3, <1>4 DEF Frame, Whole, IsEnd

\* What the reader of an OpenAI-compatible stream has made of the frames that end
\* an answer; only its client's leaving makes it stop before the body does.
Told(r) ==
    kind[r] = "openai" =>
        /\ over[r] /\ ~gone[r] => read[r] = Len(body[r].frames)
        /\ \A n \in 1..read[r] : IsEnd(r, n) => \E i \in 1..Len(out[r]) : out[r][i].stop

ToldInv == \A r \in Requests : Told(r)

\* The reader reads frame i of r's body.
LEMMA FrameTold ==
    ASSUME StreamInv, NEW r \in Requests, Told(r), ReadFrame(r), kind[r] = "openai"
    PROVE  Told(r)'
<1>1. read[r] \in Nat /\ read[r] < Len(body[r].frames) /\ Len(body[r].frames) \in Nat
      /\ out[r] \in Seq(Chunk) /\ body[r].frames \in Seq(Frames) /\ body[r] \in Bodies[kind[r]]
      /\ kind[r] \in Kinds /\ ~over[r]
  BY DEF StreamInv, Types, ReadFrame, Reading, Body, Kinds, StreamRight, Flow
<1>2. PICK i \in 1..Len(body[r].frames) : i = read[r] + 1
  BY <1>1
<1>3. PICK f \in Frames : f = body[r].frames[i]
  BY <1>1, <1>2
<1>4. PICK m : m = Made(kind[r], f, i, body[r].broken)
  OBVIOUS
<1>5. read'[r] = i /\ out'[r] = out[r] \o m /\ over'[r] = Ends(kind[r], f) /\ UNCHANGED <<kind, body, gone>>
  BY <1>2, <1>3, <1>4 DEF ReadFrame, StreamInv, Types
<1>6. f = "done" => i = Len(body[r].frames)
  BY <1>1, <1>3, StreamAssumption
<1>7. m \in Seq(Chunk)
  <2>1. i \in Nat
    BY <1>1, <1>2
  <2>2. m \in {<<>>, <<Stop>>, <<[at |-> i, stop |-> TRUE]>>, <<Text(i)>>}
    BY <1>4 DEF Made
  <2>3. Stop \in Chunk /\ [at |-> i, stop |-> TRUE] \in Chunk /\ Text(i) \in Chunk
    BY <2>1 DEF Stop, Text, Chunk
  <2>4. <<>> \in Seq(Chunk) /\ \A x \in Chunk : <<x>> \in Seq(Chunk)
    OBVIOUS
  <2> QED
    BY <2>2, <2>3, <2>4
<1>8. f \in {"finish", "done"} => Len(m) = 1 /\ m[1].stop
  BY <1>4, <1>3 DEF Made, Dropped, Stop
<1>9. /\ Len(out[r] \o m) = Len(out[r]) + Len(m)
      /\ \A j \in 1..Len(out[r]) : (out[r] \o m)[j] = out[r][j]
      /\ \A j \in Len(out[r]) + 1..Len(out[r]) + Len(m) : (out[r] \o m)[j] = m[j - Len(out[r])]
      /\ Len(out[r]) \in Nat /\ Len(m) \in Nat
  BY <1>1, <1>7, ConcatProperties
<1>10. \A n \in 1..i : IsEnd(r, n)' => \E j \in 1..Len(out[r] \o m) : (out[r] \o m)[j].stop
  <2>1. ASSUME NEW n \in 1..i, IsEnd(r, n)' PROVE \E j \in 1..Len(out[r] \o m) : (out[r] \o m)[j].stop
    <3>1. CASE n = i
      <4>1. Len(m) = 1 /\ m[1].stop
        BY <1>3, <1>5, <1>8, <2>1, <3>1 DEF IsEnd
      <4>2. (out[r] \o m)[Len(out[r]) + 1] = m[1]
        BY <1>9, <4>1
      <4> QED
        BY <1>9, <4>1, <4>2
    <3>2. CASE n # i
      <4>1. n \in 1..read[r] /\ IsEnd(r, n)
        BY <1>1, <1>2, <1>5, <2>1, <3>2 DEF IsEnd
      <4>2. PICK j \in 1..Len(out[r]) : out[r][j].stop
        BY <4>1 DEF Told
      <4> QED
        BY <1>9, <4>2
    <3> QED
      BY <3>1, <3>2
  <2> QED
    BY <2>1
<1>11. over'[r] => f = "done"
  BY <1>5 DEF Ends
<1> QED
  BY <1>5, <1>6, <1>10, <1>11 DEF Told

LEMMA ToldStep == ASSUME StreamInv, ToldInv, [StreamNext]_<<stream, gone>> PROVE ToldInv'
<1> SUFFICES ASSUME NEW r \in Requests, kind'[r] = "openai" PROVE Told(r)'
  BY DEF ToldInv, Told
<1>1. Told(r)
  BY DEF ToldInv
<1>2. ASSUME kind'[r] = kind[r], body'[r] = body[r], read'[r] = read[r], out'[r] = out[r],
             over'[r] = over[r], gone[r] => gone'[r]
      PROVE  Told(r)'
  BY <1>1, <1>2 DEF Told, IsEnd
<1>3. CASE UNCHANGED <<stream, gone>>
  BY <1>2, <1>3 DEF stream
<1>4. ASSUME NEW q \in Requests, NEW k \in Kinds, NEW b \in Bodies[k], Open(q, k, b), UNCHANGED gone PROVE Told(r)'
  <2>1. CASE q = r
    <3>1. read[r] = 0 /\ ~over[r] /\ UNCHANGED <<read, over>>
      BY <1>4, <2>1 DEF Open, StreamInv, StreamRight, Flow
    <3> QED
      BY <3>1 DEF Told
  <2>2. CASE q # r
    BY <1>2, <1>4, <2>2 DEF Open, StreamInv, Types
  <2> QED
    BY <2>1, <2>2
<1>5. ASSUME NEW q \in Requests, ReadFrame(q) PROVE Told(r)'
  <2>1. CASE q = r
    BY <1>1, <1>5, <2>1, FrameTold DEF ReadFrame
  <2>2. CASE q # r
    BY <1>2, <1>5, <2>2 DEF ReadFrame, StreamInv, Types
  <2> QED
    BY <2>1, <2>2
<1>6. ASSUME NEW q \in Requests, ReadEnd(q) PROVE Told(r)'
  <2>1. CASE q = r
    <3>1. (read[r] = Len(body[r].frames) \/ gone[r]) /\ UNCHANGED <<kind, body, read, out, gone>>
      BY <1>6, <2>1 DEF ReadEnd
    <3> QED
      BY <1>1, <3>1 DEF Told, IsEnd
  <2>2. CASE q # r
    BY <1>2, <1>6, <2>2 DEF ReadEnd, StreamInv, Types
  <2> QED
    BY <2>1, <2>2
<1>7. ASSUME NEW q \in Requests, Decoded(q) \/ Drop(q) PROVE Told(r)'
  <2>1. q # r
    BY <1>7 DEF Decoded, Drop, Reading
  <2> QED
    BY <1>2, <1>7, <2>1 DEF Decoded, Drop, StreamInv, Types
<1>8. ASSUME NEW q \in Requests, Send(q) \/ Close(q) \/ Take(q) \/ Leave(q) PROVE Told(r)'
  BY <1>2, <1>8 DEF Send, Close, Take, Leave, stream, StreamInv, Types
<1> QED
  BY <1>3, <1>4, <1>5, <1>6, <1>7, <1>8 DEF StreamNext, Produce

LEMMA ToldInvariant == StreamSpec => []ToldInv
<1>1. StreamInit => ToldInv
  BY DEF StreamInit, ToldInv, Told
<1> QED
  BY <1>1, ToldStep, StreamInvariant, PTL DEF StreamSpec

LEMMA DeliveredTold == StreamInv /\ ToldInv => FinishTells
<1> SUFFICES ASSUME StreamInv, ToldInv, NEW r \in Requests, kind[r] = "openai", Drained(r), ~gone[r],
                    NEW n \in 1..Len(body[r].frames), IsEnd(r, n)
             PROVE  \E i \in 1..put[r] : out[r][i].stop
  BY DeliveredWhole DEF FinishTells
<1>1. over[r] /\ put[r] = Len(out[r])
  BY DEF StreamInv, StreamRight, Flow, Drained
<1> QED
  BY <1>1 DEF ToldInv, Told

-----------------------------------------------------------------------------

Places == {"new", "cache", "enrich", "auth", "call", "stream", "fill", "answer", "answered", "refused"}

\* A request that has arrived asks for what it may ask for.
ShapeInv ==
    /\ pc \in [Requests -> Places]
    /\ shape \in [Requests -> Shape \cup {Unasked}]
    /\ \A r \in Requests : pc[r] # "new" => shape[r] \in Shape \cap Shapes[r]

LEMMA Moved ==
    ASSUME ShapeInv, NEW r \in Requests, pc[r] # "new", NEW to \in Places,
           pc' = [pc EXCEPT ![r] = to], shape' = shape
    PROVE  ShapeInv'
  BY DEF ShapeInv

LEMMA ShapeStep == ASSUME ShapeInv, [Next]_vars PROVE ShapeInv'
<1>1. ASSUME NEW r \in Requests PROVE AfterCache(shape[r]) \in Places
  BY DEF AfterCache, Places
<1>2. ASSUME UNCHANGED <<pc, shape>> PROVE ShapeInv'
  BY <1>2 DEF ShapeInv
<1>3. ASSUME NEW r \in Requests, Arrive(r) PROVE ShapeInv'
  <2>1. PICK s \in Shapes[r] :
          /\ shape' = [shape EXCEPT ![r] = s]
          /\ pc' = [pc EXCEPT ![r] = IF s.cache /\ ~s.stream THEN "cache" ELSE AfterCache(s)]
    BY <1>3 DEF Arrive, Goto
  <2>2. s \in Shape
    BY ChatAssumption
  <2>3. (IF s.cache /\ ~s.stream THEN "cache" ELSE AfterCache(s)) \in Places
    BY DEF AfterCache, Places
  <2> QED
    BY <2>1, <2>2, <2>3 DEF ShapeInv
<1>4. ASSUME NEW r \in Requests, Serve(r) PROVE ShapeInv'
  <2>1. CASE TryAgain(r)
    BY <2>1, <1>2 DEF TryAgain
  <2>2. CASE Hit(r)
    BY <2>2, Moved DEF Hit, Goto, Places
  <2>3. CASE Miss(r)
    BY <1>1, <2>3, Moved DEF Miss, Goto
  <2>4. CASE Succeed(r)
    <3>1. (IF shape[r].cache THEN "fill" ELSE "answer") \in Places
      BY DEF Places
    <3> QED
      BY <2>4, <3>1, Moved DEF Succeed, Goto
  <2>5. CASE Enrich(r) \/ Authorized(r) \/ Unauthorized(r) \/ Fail(r) \/ Fill(r) \/ Reply(r)
    BY <2>5, Moved DEF Enrich, Authorized, Unauthorized, Fail, Fill, Reply, Goto, Places
  <2>6. CASE StreamStarts(r) \/ StreamFails(r) \/ StreamDone(r)
    BY <2>6, Moved DEF StreamStarts, StreamFails, StreamDone, Goto, Places
  <2> QED
    BY <1>4, <2>1, <2>2, <2>3, <2>4, <2>5, <2>6 DEF Serve
<1>5. ASSUME NEW r \in Requests, Remember(r) \/ Forget(r) PROVE ShapeInv'
  BY <1>2, <1>5 DEF Remember, Forget
<1>6. ASSUME UNCHANGED chat \/ Expire \/ Tick \/ UNCHANGED vars PROVE ShapeInv'
  BY <1>2, <1>6 DEF chat, vars, Expire, Tick
<1> QED
  BY <1>3, <1>4, <1>5, <1>6 DEF Next

LEMMA ShapeInvariant == Spec => []ShapeInv
<1>1. Init => ShapeInv
  BY DEF Init, ShapeInv, Places
<1> QED
  BY <1>1, ShapeStep, PTL DEF Spec

\* Every step of the pipeline is a step of the streams or leaves them alone.
LEMMA PipelineStreams == ASSUME ShapeInv, [Next]_vars PROVE [StreamNext]_<<stream, gone>>
<1>1. ASSUME UNCHANGED <<stream, gone>> PROVE [StreamNext]_<<stream, gone>>
  BY <1>1
<1>2. ASSUME NEW r \in Requests, Serve(r) PROVE [StreamNext]_<<stream, gone>>
  <2>1. CASE StreamStarts(r)
    <3>1. shape[r].target[1] \in Kinds
      BY <2>1, ChatAssumption DEF StreamStarts, Goto, ShapeInv, Shape
    <3> QED
      BY <2>1, <3>1 DEF StreamStarts, StreamNext
  <2>2. CASE Hit(r) \/ Miss(r) \/ Enrich(r) \/ Authorized(r) \/ Unauthorized(r) \/ Succeed(r) \/ TryAgain(r)
    BY <1>1, <2>2 DEF Hit, Miss, Enrich, Authorized, Unauthorized, Succeed, TryAgain
  <2>3. CASE Fail(r) \/ Fill(r) \/ Reply(r) \/ StreamFails(r) \/ StreamDone(r)
    BY <1>1, <2>3 DEF Fail, Fill, Reply, StreamFails, StreamDone
  <2> QED
    BY <1>2, <2>1, <2>2, <2>3 DEF Serve
<1>3. ASSUME NEW r \in Requests, Arrive(r) \/ Remember(r) \/ Forget(r) PROVE UNCHANGED <<stream, gone>>
  BY <1>3 DEF Arrive, Remember, Forget
<1>4. ASSUME NEW r \in Requests, Produce(r) \/ Take(r) \/ Leave(r) PROVE StreamNext
  BY <1>4 DEF StreamNext
<1>5. ASSUME Expire \/ Tick \/ UNCHANGED vars PROVE UNCHANGED <<stream, gone>>
  BY <1>5 DEF Expire, Tick, vars
<1> QED
  BY <1>1, <1>2, <1>3, <1>4, <1>5 DEF Next

\* The streams of the pipeline are those of Streams: runDirect and streamChat drain
\* the channels of ChatStream and do nothing else to them.
THEOREM StreamsKept == Spec => StreamSpec
<1>1. Init => StreamInit
  BY DEF Init
<1> QED
  BY <1>1, PipelineStreams, ShapeInvariant, PTL DEF Spec, StreamSpec

\* Whatever body an upstream sends and however it ends, the client gets its text in
\* order and without a gap (streamLoop, the Antigravity and Kiro ChatStream).
THEOREM TextInOrder == Spec => []InOrder
  BY StreamsKept, StreamInvariant, DeliveredInOrder, PTL

\* A client of an OpenAI-compatible provider's stream that stays to the end has a
\* finish reason exactly when the upstream finished, and then the whole text.
THEOREM FinishIsRight == Spec => []FinishTells
  BY StreamsKept, StreamInvariant, ToldInvariant, DeliveredTold, PTL

\* Every step of the pipeline is a step of the breaker or none of its business.
LEMMA BreakerStep == ASSUME ShapeInv, [Next]_vars PROVE [B!Next]_(B!vars)
<1>1. ASSUME UNCHANGED <<states, target>> PROVE UNCHANGED B!vars
  BY <1>1 DEF B!vars
<1>2. ASSUME NEW r \in Requests, Serve(r) PROVE [B!Next]_(B!vars)
  <2>1. CASE Hit(r) \/ Miss(r) \/ Enrich(r) \/ Unauthorized(r) \/ TryAgain(r) \/ Fill(r) \/ Reply(r) \/ StreamStarts(r)
    BY <1>1, <2>1 DEF Hit, Miss, Enrich, Unauthorized, TryAgain, Fill, Reply, StreamStarts
  <2>2. CASE Authorized(r)
    <3>1. shape[r].target \in Targets
      BY <2>2 DEF Authorized, Goto, ShapeInv, Shape
    <3> QED
      BY <2>2, <3>1 DEF Authorized, B!Next
  <2>3. CASE Succeed(r) \/ StreamDone(r)
    BY <2>3 DEF Succeed, StreamDone, B!Next
  <2>4. CASE Fail(r)
    BY <2>4 DEF Fail, B!Next
  <2>5. CASE StreamFails(r)
    BY <2>5 DEF StreamFails, B!Next
  <2> QED
    BY <1>2, <2>1, <2>2, <2>3, <2>4, <2>5 DEF Serve
<1>3. ASSUME NEW r \in Requests, Arrive(r) \/ Remember(r) \/ Forget(r) PROVE UNCHANGED B!vars
  BY <1>1, <1>3 DEF Arrive, Remember, Forget
<1>4. ASSUME UNCHANGED chat \/ Expire \/ UNCHANGED vars PROVE UNCHANGED B!vars
  BY <1>1, <1>4 DEF chat, vars, Expire
<1>5. ASSUME Tick PROVE B!Next
  BY <1>5 DEF Tick, B!Next
<1> QED
  BY <1>2, <1>3, <1>4, <1>5 DEF Next

\* The pipeline implements Breaker: it reports every request it has sent to its
\* target once, as a success or a failure, or not at all when its target refused a
\* stream, and leaves the circuits alone otherwise (runDirect, streamChat).
THEOREM ReportsRight == Spec => BreakerSpec
<1>1. Init => B!Init
  BY DEF Init, B!Init
<1>2. ShapeInv /\ [Next]_vars => [B!Next]_(B!vars)
  BY BreakerStep
<1> QED
  BY <1>1, <1>2, ShapeInvariant, PTL DEF Spec, BreakerSpec, B!Spec

-----------------------------------------------------------------------------
\* Answers.  Whose request has an answer of its own.
Own(r) == pc[r] \in {"fill", "answer", "answered"} /\ answer[r].from = r

\* What is known of a request at each place.
PlaceRight(r) ==
    /\ pc[r] \in Places \ {"fill", "answer", "answered"} =>
          answer[r] = NoAnswer /\ recorded[r] = 0 /\ ~saving[r]
    /\ pc[r] \in {"fill", "answer"} => Own(r) /\ recorded[r] = 1 /\ ~saving[r]
    /\ pc[r] = "answered" => recorded[r] = (IF answer[r].from = r THEN 1 ELSE 0)
    /\ pc[r] \in {"cache", "fill", "answer"} => ~shape[r].stream
    /\ saving[r] => pc[r] = "answered" /\ Own(r) /\ shape[r].project # Default

\* An answer comes from a request that asked the same and got the same.
FromRight(r) ==
    answer[r] # NoAnswer => \E q \in Requests :
        /\ Own(q) /\ answer[r] = answer[q] /\ Key(shape[r]) = Key(shape[q])

CacheRight ==
    \A k \in Keys : cache[k] # NoAnswer => \E q \in Requests :
        Own(q) /\ cache[k] = answer[q] /\ k = Key(shape[q])

\* A stream that is answered was drained.
StreamedRight(r) ==
    shape[r].stream /\ pc[r] = "answered" => shut[r] /\ answer[r].texts = SentTexts(r)

MemoryRight ==
    \A m \in memory :
        /\ m.of \in Requests /\ pc[m.of] = "answered" /\ Own(m.of)
        /\ m.project = shape[m.of].project /\ m.project # Default
        /\ m.texts = answer[m.of].texts

AnswerTypes ==
    /\ answer \in [Requests -> [from : Requests \cup {"none"}, texts : SUBSET Nat, done : BOOLEAN]]
    /\ cache \in [Keys -> [from : Requests \cup {"none"}, texts : SUBSET Nat, done : BOOLEAN]]
    /\ recorded \in [Requests -> Nat]
    /\ saving \in [Requests -> BOOLEAN]

RequestsRight == \A r \in Requests : PlaceRight(r) /\ FromRight(r) /\ StreamedRight(r)

AnswerInv == AnswerTypes /\ RequestsRight /\ CacheRight /\ MemoryRight

\* What is known all along of one request.
PipelineInv == ShapeInv /\ StreamInv /\ AnswerInv

LEMMA NoAnswerTyped == NoAnswer \in [from : Requests \cup {"none"}, texts : SUBSET Nat, done : BOOLEAN] /\ NoAnswer.from \notin Requests
  BY ChatAssumption DEF NoAnswer

\* A closed channel has given all it will give.
LEMMA ClosedStays ==
    ASSUME StreamInv, [StreamNext]_<<stream, gone>>, NEW r \in Requests, shut[r]
    PROVE  shut'[r] /\ SentTexts(r)' = SentTexts(r)
<1>1. over[r] /\ put[r] = Len(out[r]) /\ kind[r] # "none" /\ put[r] \in Nat
  BY DEF StreamInv, StreamRight, Flow, Types
<1>2. shut'[r] /\ out'[r] = out[r] /\ put'[r] = put[r]
  <2>1. CASE UNCHANGED <<stream, gone>>
    BY <2>1 DEF stream
  <2>2. ASSUME NEW q \in Requests, NEW k \in Kinds, NEW b \in Bodies[k], Open(q, k, b) PROVE <1>2!:
    BY <2>2 DEF Open
  <2>3. ASSUME NEW q \in Requests, ReadFrame(q) \/ ReadEnd(q) \/ Decoded(q) PROVE <1>2!:
    BY <1>1, <2>3 DEF ReadFrame, ReadEnd, Decoded, Reading, StreamInv, Types
  <2>4. ASSUME NEW q \in Requests, Send(q) \/ Drop(q) PROVE <1>2!:
    <3>1. q # r
      BY <1>1, <2>4 DEF Send, Drop
    <3> QED
      BY <2>4, <3>1 DEF Send, Drop, StreamInv, Types
  <2>5. ASSUME NEW q \in Requests, Close(q) \/ Take(q) \/ Leave(q) PROVE <1>2!:
    BY <2>5 DEF Close, Take, Leave, stream, StreamInv, Types
  <2> QED
    BY <2>1, <2>2, <2>3, <2>4, <2>5 DEF StreamNext, Produce
<1> QED
  BY <1>2 DEF SentTexts

LEMMA AnswersMatch == AnswerInv => HitsMatch
<1> SUFFICES ASSUME AnswerInv, NEW r \in Requests, NEW q \in Requests, answer[r].from = q
             PROVE  /\ shape[q].question = shape[r].question
                    /\ shape[q].project = shape[r].project
                    /\ shape[q].target[2] = shape[r].target[2]
                    /\ answer[r].texts = answer[q].texts
  BY DEF HitsMatch
<1>1. answer[r] # NoAnswer
  BY NoAnswerTyped
<1>2. PICK o \in Requests : Own(o) /\ answer[r] = answer[o] /\ Key(shape[r]) = Key(shape[o])
  BY <1>1 DEF AnswerInv, RequestsRight, FromRight
<1>3. o = q
  BY <1>2 DEF Own
<1> QED
  BY <1>2, <1>3 DEF Key

LEMMA MemoriesMatch == AnswerInv => RemembersSent
<1> SUFFICES ASSUME AnswerInv, NEW m \in memory
             PROVE  /\ m.project = shape[m.of].project /\ m.project # Default
                    /\ pc[m.of] = "answered" /\ answer[m.of].from = m.of /\ answer[m.of].texts = m.texts
                    /\ shape[m.of].stream => m.texts = SentTexts(m.of)
  BY DEF RemembersSent
<1>1. m.of \in Requests /\ pc[m.of] = "answered" /\ Own(m.of) /\ m.texts = answer[m.of].texts
      /\ m.project = shape[m.of].project /\ m.project # Default
  BY DEF AnswerInv, MemoryRight
<1>2. answer[m.of] \in [from : Requests \cup {"none"}, texts : SUBSET Nat, done : BOOLEAN] /\ answer[m.of].from = m.of
  BY <1>1 DEF AnswerInv, AnswerTypes, Own
<1>3. answer[m.of].from = m.of /\ answer[m.of].texts = m.texts
  BY <1>1, <1>2
<1>4. shape[m.of].stream => m.texts = SentTexts(m.of)
  BY <1>1 DEF AnswerInv, RequestsRight, StreamedRight
<1> QED
  BY <1>1, <1>3, <1>4

LEMMA AnswersStart == Init => AnswerInv
<1> SUFFICES ASSUME Init PROVE AnswerInv
  OBVIOUS
<1>1. AnswerTypes /\ CacheRight /\ MemoryRight
  BY NoAnswerTyped DEF Init, AnswerTypes, CacheRight, MemoryRight
<1>2. ASSUME NEW r \in Requests PROVE PlaceRight(r) /\ FromRight(r) /\ StreamedRight(r)
  BY <1>2 DEF Init, PlaceRight, FromRight, StreamedRight, Places
<1> QED
  BY <1>1, <1>2 DEF AnswerInv, RequestsRight

\* What a step of r leaves alone: the other requests, and an answer that r has.
OthersStay(r) == \A q \in Requests \ {r} :
    /\ pc'[q] = pc[q] /\ shape'[q] = shape[q] /\ answer'[q] = answer[q]
    /\ recorded'[q] = recorded[q] /\ saving'[q] = saving[q]

OwnStays(r) == Own(r) =>
    /\ Own(r)' /\ answer'[r] = answer[r] /\ shape'[r] = shape[r]
    /\ pc[r] = "answered" => pc'[r] = "answered"

LEMMA OneAnswer ==
    ASSUME PipelineInv, [StreamNext]_<<stream, gone>>, NEW r \in Requests, OthersStay(r), OwnStays(r),
           PlaceRight(r)', FromRight(r)', StreamedRight(r)'
    PROVE  RequestsRight' /\ (cache' = cache => CacheRight') /\ (memory' = memory => MemoryRight')
<1>1. AnswerInv /\ StreamInv
  BY DEF PipelineInv
<1>2. ASSUME NEW q \in Requests, Own(q)
      PROVE  /\ Own(q)' /\ answer'[q] = answer[q] /\ shape'[q] = shape[q] /\ Key(shape[q])' = Key(shape[q])
             /\ pc[q] = "answered" => pc'[q] = "answered"
  <2>1. CASE q = r
    BY <1>2, <2>1 DEF OwnStays
  <2>2. CASE q # r
    <3>1. pc'[q] = pc[q] /\ shape'[q] = shape[q] /\ answer'[q] = answer[q]
      BY <2>2 DEF OthersStay
    <3> QED
      BY <1>2, <3>1 DEF Own
  <2>3. shape'[q] = shape[q] => Key(shape[q])' = Key(shape[q])
    BY DEF Key
  <2> QED
    BY <2>1, <2>2, <2>3
<1>3. ASSUME NEW q \in Requests \ {r} PROVE PlaceRight(q)' /\ FromRight(q)' /\ StreamedRight(q)'
  <2>1. PlaceRight(q) /\ FromRight(q) /\ StreamedRight(q)
    BY <1>1 DEF AnswerInv, RequestsRight
  <2>2. /\ pc'[q] = pc[q] /\ shape'[q] = shape[q] /\ answer'[q] = answer[q]
        /\ recorded'[q] = recorded[q] /\ saving'[q] = saving[q]
    BY DEF OthersStay
  <2>3. PlaceRight(q)'
    BY <2>1, <2>2 DEF PlaceRight, Own, NoAnswer
  <2>4. FromRight(q)'
    <3>1. SUFFICES ASSUME answer'[q] # NoAnswer
                   PROVE  \E o \in Requests : Own(o)' /\ answer'[q] = answer'[o] /\ Key(shape'[q]) = Key(shape'[o])
      BY DEF FromRight, NoAnswer, Key
    <3>2. PICK o \in Requests : Own(o) /\ answer[q] = answer[o] /\ Key(shape[q]) = Key(shape[o])
      BY <2>1, <2>2, <3>1 DEF FromRight
    <3> QED
      BY <1>2, <2>2, <3>2
  <2>5. StreamedRight(q)'
    BY <1>1, <2>1, <2>2, ClosedStays DEF StreamedRight
  <2> QED
    BY <2>3, <2>4, <2>5
<1>4. RequestsRight'
  BY <1>3 DEF RequestsRight
<1>5. ASSUME cache' = cache PROVE CacheRight'
  <2>1. SUFFICES ASSUME NEW k \in Keys, cache[k] # NoAnswer
                 PROVE  \E q \in Requests : Own(q)' /\ cache[k] = answer'[q] /\ k = Key(shape[q])'
    BY <1>5 DEF CacheRight, NoAnswer, Keys
  <2>2. PICK q \in Requests : Own(q) /\ cache[k] = answer[q] /\ k = Key(shape[q])
    BY <1>1, <2>1 DEF AnswerInv, CacheRight
  <2> QED
    BY <1>2, <2>2
<1>6. ASSUME memory' = memory PROVE MemoryRight'
  BY <1>1, <1>2, <1>6 DEF AnswerInv, MemoryRight
<1> QED
  BY <1>4, <1>5, <1>6

\* A request goes on without an answer.
LEMMA GoesOn ==
    ASSUME PipelineInv, [StreamNext]_<<stream, gone>>, NEW r \in Requests,
           NEW to \in Places \ {"cache", "fill", "answer", "answered"},
           pc[r] \in Places \ {"fill", "answer", "answered"}, pc' = [pc EXCEPT ![r] = to],
           UNCHANGED <<shape, answer, cache, saving, memory, recorded>>
    PROVE  AnswerInv'
<1>1. AnswerInv /\ PlaceRight(r) /\ pc'[r] = to
  BY DEF PipelineInv, AnswerInv, RequestsRight, ShapeInv
<1>2. OthersStay(r)
  BY DEF OthersStay, PipelineInv, ShapeInv
<1>3. OwnStays(r)
  BY DEF OwnStays, Own
<1>4. PlaceRight(r)' /\ FromRight(r)' /\ StreamedRight(r)'
  BY <1>1 DEF PlaceRight, FromRight, StreamedRight, NoAnswer
<1>5. AnswerTypes'
  BY <1>1 DEF AnswerInv, AnswerTypes, Keys
<1> QED
  BY <1>2, <1>3, <1>4, <1>5, OneAnswer DEF AnswerInv

LEMMA Arrives ==
    ASSUME PipelineInv, [StreamNext]_<<stream, gone>>, NEW r \in Requests, Arrive(r) PROVE AnswerInv'
<1>1. PICK a \in Shapes[r] :
          /\ shape' = [shape EXCEPT ![r] = a]
          /\ pc[r] = "new"
          /\ pc' = [pc EXCEPT ![r] = IF a.cache /\ ~a.stream THEN "cache" ELSE AfterCache(a)]
  BY DEF Arrive, Goto
<1>2. AnswerInv /\ PlaceRight(r) /\ shape'[r] = a /\ UNCHANGED <<answer, cache, saving, memory, recorded>>
      /\ \/ pc'[r] = "cache" /\ ~a.stream
         \/ pc'[r] \in {"enrich", "auth"}
  BY <1>1 DEF PipelineInv, AnswerInv, RequestsRight, ShapeInv, Arrive, AfterCache
<1>3. OthersStay(r)
  BY <1>1, <1>2 DEF OthersStay, PipelineInv, ShapeInv
<1>4. OwnStays(r)
  BY <1>1 DEF OwnStays, Own
<1>5. answer[r] = NoAnswer /\ recorded[r] = 0 /\ ~saving[r]
  BY <1>1, <1>2 DEF PlaceRight, Places
<1>6. PlaceRight(r)' /\ FromRight(r)' /\ StreamedRight(r)'
  BY <1>2, <1>5 DEF PlaceRight, FromRight, StreamedRight, NoAnswer
<1>7. AnswerTypes'
  BY <1>2 DEF AnswerInv, AnswerTypes, Keys
<1> QED
  BY <1>2, <1>3, <1>4, <1>6, <1>7, OneAnswer DEF AnswerInv

LEMMA Hits ==
    ASSUME PipelineInv, [StreamNext]_<<stream, gone>>, NEW r \in Requests, Hit(r) PROVE AnswerInv'
<1> DEFINE k == Key(shape[r])
<1>1. AnswerInv /\ PlaceRight(r) /\ pc[r] = "cache" /\ pc' = [pc EXCEPT ![r] = "answered"] /\ pc'[r] = "answered"
      /\ cache[k] # NoAnswer /\ answer' = [answer EXCEPT ![r] = cache[k]] /\ answer'[r] = cache[k]
      /\ UNCHANGED <<shape, cache, saving, memory, recorded>>
  BY DEF PipelineInv, AnswerInv, AnswerTypes, RequestsRight, ShapeInv, Hit, Goto
<1>2. k \in Keys
  BY <1>1 DEF PipelineInv, ShapeInv, Keys
<1>3. PICK q \in Requests : Own(q) /\ cache[k] = answer[q] /\ k = Key(shape[q])
  BY <1>1, <1>2 DEF AnswerInv, CacheRight
<1>4. q # r /\ answer[q].from = q
  BY <1>1, <1>3 DEF Own
<1>5. OthersStay(r)
  BY <1>1 DEF OthersStay, PipelineInv, ShapeInv, AnswerInv, AnswerTypes
<1>6. OwnStays(r)
  BY <1>1 DEF OwnStays, Own
<1>7. recorded[r] = 0 /\ ~saving[r] /\ ~shape[r].stream
  BY <1>1 DEF PlaceRight, Places
<1>8. PlaceRight(r)' /\ StreamedRight(r)'
  BY <1>1, <1>3, <1>4, <1>7 DEF PlaceRight, StreamedRight
<1>9. FromRight(r)'
  <2>1. pc'[q] = pc[q] /\ answer'[q] = answer[q] /\ Own(q)'
    BY <1>3, <1>4, <1>5 DEF OthersStay, Own
  <2>2. Key(shape[r])' = Key(shape[q])'
    BY <1>1, <1>3 DEF Key
  <2> QED
    BY <1>1, <1>3, <2>1, <2>2 DEF FromRight
<1>10. AnswerTypes'
  BY <1>1, <1>2 DEF AnswerInv, AnswerTypes, Keys
<1> QED
  BY <1>1, <1>5, <1>6, <1>8, <1>9, <1>10, OneAnswer DEF AnswerInv

\* The texts of an answer name frames.
LEMMA TextsTyped == ASSUME NEW k \in Kinds, NEW a \in Answers(k) PROVE a \in SUBSET Nat
<1>1. ASSUME NEW b \in Body PROVE KiroTexts(b) \in SUBSET Nat /\ AntigravityTexts(b) \in SUBSET Nat
  <2>1. Len(b.frames) \in Nat
    BY DEF Body
  <2> QED
    BY <2>1 DEF KiroTexts, AntigravityTexts
<1>2. CASE k = "openai"
  BY <1>2 DEF Answers
<1>3. CASE k = "kiro"
  <2>1. PICK b \in Bodies["kiro"] : a = KiroTexts(b)
    BY <1>3 DEF Answers
  <2>2. b \in Body
    BY StreamAssumption DEF Kinds
  <2> QED
    BY <1>1, <2>1, <2>2
<1>4. CASE k = "antigravity"
  <2>1. PICK b \in Bodies["antigravity"] : a = AntigravityTexts(b)
    BY <1>4 DEF Answers
  <2>2. b \in Body
    BY StreamAssumption DEF Kinds
  <2> QED
    BY <1>1, <2>1, <2>2
<1> QED
  BY <1>2, <1>3, <1>4 DEF Kinds

\* A request gets an answer of its own and is counted.
LEMMA GetsOwn ==
    ASSUME PipelineInv, [StreamNext]_<<stream, gone>>, NEW r \in Requests,
           NEW to \in {"fill", "answer", "answered"}, NEW a \in SUBSET Nat, NEW d \in BOOLEAN,
           pc[r] \in {"call", "stream"}, pc' = [pc EXCEPT ![r] = to], Counted(r),
           answer' = [answer EXCEPT ![r] = [from |-> r, texts |-> a, done |-> d]],
           saving' \in [Requests -> BOOLEAN], \A q \in Requests \ {r} : saving'[q] = saving[q],
           saving'[r] => to = "answered" /\ shape[r].project # Default,
           to # "answered" => ~shape[r].stream,
           to = "answered" => shut[r] /\ a = SentTexts(r),
           UNCHANGED <<shape, cache, memory>>
    PROVE  AnswerInv'
<1>1. AnswerInv /\ PlaceRight(r) /\ pc'[r] = to /\ answer'[r] = [from |-> r, texts |-> a, done |-> d]
  BY DEF PipelineInv, AnswerInv, AnswerTypes, RequestsRight, ShapeInv
<1>2. recorded' = [recorded EXCEPT ![r] = 1] /\ recorded'[r] = 1
  <2>1. recorded[r] = 0
    BY <1>1 DEF PlaceRight, Places
  <2>2. recorded' = [recorded EXCEPT ![r] = recorded[r] + 1]
    BY DEF Counted
  <2> QED
    BY <1>1, <2>1, <2>2 DEF AnswerInv, AnswerTypes
<1>3. OthersStay(r)
  BY <1>2 DEF OthersStay, PipelineInv, ShapeInv, AnswerInv, AnswerTypes
<1>4. OwnStays(r)
  BY DEF OwnStays, Own
<1>5. Own(r)' /\ answer'[r].texts = a /\ answer'[r].from = r
  BY <1>1 DEF Own
<1>6. PlaceRight(r)'
  BY <1>1, <1>2, <1>5 DEF PlaceRight, Places
<1>7. FromRight(r)' /\ StreamedRight(r)'
  <2>1. to = "answered" => shut'[r] /\ a = SentTexts(r)'
    BY ClosedStays DEF PipelineInv
  <2> QED
    BY <1>1, <1>5, <2>1 DEF FromRight, StreamedRight
<1>8. AnswerTypes'
  <2>1. [from |-> r, texts |-> a, done |-> d] \in [from : Requests \cup {"none"}, texts : SUBSET Nat, done : BOOLEAN]
    OBVIOUS
  <2> QED
    BY <1>1, <1>2, <2>1 DEF AnswerInv, AnswerTypes, Keys
<1> QED
  BY <1>3, <1>4, <1>6, <1>7, <1>8, OneAnswer DEF AnswerInv

LEMMA Succeeds ==
    ASSUME PipelineInv, [StreamNext]_<<stream, gone>>, NEW r \in Requests, Succeed(r) PROVE AnswerInv'
<1>1. shape[r] \in Shape /\ shape[r].target[1] \in Kinds /\ ~shape[r].stream
  BY ChatAssumption DEF PipelineInv, ShapeInv, Succeed, Plain, Shape
<1>2. PICK a \in Answers(shape[r].target[1]) : answer' = [answer EXCEPT ![r] = [from |-> r, texts |-> a, done |-> FALSE]]
  BY DEF Succeed
<1>3. a \in SUBSET Nat
  BY <1>1, TextsTyped
<1>4. PICK to \in {"fill", "answer"} : pc' = [pc EXCEPT ![r] = to]
  BY DEF Succeed, Goto
<1>5. saving' = saving /\ saving \in [Requests -> BOOLEAN] /\ ~saving[r]
  BY DEF Succeed, Plain, PipelineInv, AnswerInv, AnswerTypes, RequestsRight, PlaceRight, Places
<1>6. pc[r] = "call" /\ Counted(r) /\ UNCHANGED <<shape, cache, memory>>
  BY DEF Succeed, Plain
<1> QED
  BY <1>1, <1>2, <1>3, <1>4, <1>5, <1>6, GetsOwn

LEMMA StreamAnswers ==
    ASSUME PipelineInv, [StreamNext]_<<stream, gone>>, NEW r \in Requests, StreamDone(r) PROVE AnswerInv'
<1>1. pc[r] = "stream" /\ pc' = [pc EXCEPT ![r] = "answered"] /\ Counted(r) /\ UNCHANGED <<shape, cache, memory>>
      /\ shut[r] /\ taken[r] = put[r]
      /\ answer' = [answer EXCEPT ![r] = [from |-> r, texts |-> {out[r][i].at : i \in 1..taken[r]} \ {0}, done |-> TRUE]]
      /\ saving' = [saving EXCEPT ![r] = shape[r].project # Default]
  BY DEF StreamDone, Goto, Over, Drained
<1>3. PICK a : a = SentTexts(r)
  OBVIOUS
<1>4. a = {out[r][i].at : i \in 1..taken[r]} \ {0}
  BY <1>1, <1>3 DEF SentTexts
<1>5. a \in SUBSET Nat
  <2>1. out[r] \in Seq(Chunk) /\ put[r] <= Len(out[r]) /\ put[r] \in Nat
    BY DEF PipelineInv, StreamInv, StreamRight, Flow, Types
  <2>2. \A i \in 1..put[r] : out[r][i] \in Chunk
    BY <2>1
  <2> QED
    BY <1>1, <1>4, <2>2 DEF Chunk
<1>7. answer' = [answer EXCEPT ![r] = [from |-> r, texts |-> a, done |-> TRUE]]
  BY <1>1, <1>4
<1>2. pc[r] \in {"call", "stream"} /\ Counted(r) /\ UNCHANGED <<shape, cache, memory>>
      /\ pc' = [pc EXCEPT ![r] = "answered"] /\ shut[r] /\ a = SentTexts(r)
  BY <1>1, <1>3
<1>6. /\ saving' \in [Requests -> BOOLEAN]
      /\ \A q \in Requests \ {r} : saving'[q] = saving[q]
      /\ saving'[r] => shape[r].project # Default
  <2>1. (shape[r].project # Default) \in BOOLEAN
    OBVIOUS
  <2> QED
    BY <1>1, <2>1 DEF PipelineInv, AnswerInv, AnswerTypes
<1> QED
  BY <1>2, <1>5, <1>6, <1>7, GetsOwn

LEMMA Fills ==
    ASSUME PipelineInv, [StreamNext]_<<stream, gone>>, NEW r \in Requests, Fill(r) PROVE AnswerInv'
<1>1. AnswerInv /\ PlaceRight(r) /\ FromRight(r) /\ pc[r] = "fill" /\ pc' = [pc EXCEPT ![r] = "answer"]
      /\ pc'[r] = "answer" /\ UNCHANGED <<shape, answer, saving, memory, recorded>>
  BY DEF PipelineInv, AnswerInv, RequestsRight, ShapeInv, Fill, Goto
<1>2. OthersStay(r) /\ OwnStays(r)
  BY <1>1 DEF OthersStay, OwnStays, Own, PipelineInv, ShapeInv
<1>3. Own(r) /\ Own(r)'
  BY <1>1 DEF PlaceRight, Own
<1>4. PlaceRight(r)' /\ StreamedRight(r)'
  BY <1>1, <1>3 DEF PlaceRight, StreamedRight
<1>5. FromRight(r)'
  BY <1>1, <1>3 DEF FromRight
<1>6. RequestsRight' /\ MemoryRight' /\ (cache' = cache => CacheRight')
  BY <1>1, <1>2, <1>4, <1>5, OneAnswer
<1>7. AnswerTypes'
  BY <1>1 DEF Fill, AnswerInv, AnswerTypes, Keys
<1>8. ASSUME cache' = [cache EXCEPT ![Key(shape[r])] = answer[r]] PROVE CacheRight'
  <2>1. SUFFICES ASSUME NEW k \in Keys, cache'[k] # NoAnswer
                 PROVE  \E q \in Requests : Own(q)' /\ cache'[k] = answer[q] /\ k = Key(shape[q])
    BY <1>1 DEF CacheRight, NoAnswer, Keys, Key
  <2>2. CASE k = Key(shape[r])
    BY <1>1, <1>3, <1>8, <2>2 DEF AnswerInv, AnswerTypes
  <2>3. CASE k # Key(shape[r])
    <3>1. PICK q \in Requests : Own(q) /\ cache[k] = answer[q] /\ k = Key(shape[q])
      BY <1>1, <1>8, <2>1, <2>3 DEF AnswerInv, AnswerTypes, CacheRight
    <3>2. Own(q)'
      BY <1>1, <3>1 DEF Own, PipelineInv, ShapeInv
    <3>3. cache'[k] = cache[k]
      BY <1>1, <1>8, <2>3 DEF AnswerInv, AnswerTypes
    <3> QED
      BY <3>1, <3>2, <3>3
  <2> QED
    BY <2>2, <2>3
<1> QED
  BY <1>6, <1>7, <1>8 DEF AnswerInv, Fill

LEMMA Replies ==
    ASSUME PipelineInv, [StreamNext]_<<stream, gone>>, NEW r \in Requests, Reply(r) PROVE AnswerInv'
<1>1. AnswerInv /\ PlaceRight(r) /\ FromRight(r) /\ pc[r] = "answer" /\ pc' = [pc EXCEPT ![r] = "answered"]
      /\ pc'[r] = "answered" /\ UNCHANGED <<shape, answer, cache, memory, recorded>>
      /\ shape[r] \in Shape
  BY DEF PipelineInv, AnswerInv, RequestsRight, ShapeInv, Reply, Goto
<1>2. PICK b \in BOOLEAN : b = (shape[r].memory /\ shape[r].project # Default)
  BY <1>1 DEF Shape
<1>3. saving' = [saving EXCEPT ![r] = b] /\ saving'[r] = b
  BY <1>1, <1>2 DEF Reply, AnswerInv, AnswerTypes
<1>4. OthersStay(r) /\ OwnStays(r)
  BY <1>1, <1>3 DEF OthersStay, OwnStays, Own, PipelineInv, ShapeInv, AnswerInv, AnswerTypes
<1>5. Own(r) /\ Own(r)' /\ recorded[r] = 1 /\ ~shape[r].stream
  BY <1>1 DEF PlaceRight, Own
<1>6. PlaceRight(r)' /\ StreamedRight(r)'
  BY <1>1, <1>2, <1>3, <1>5 DEF PlaceRight, StreamedRight, Own
<1>7. FromRight(r)'
  BY <1>1, <1>5 DEF FromRight
<1>8. AnswerTypes'
  BY <1>1, <1>3 DEF AnswerInv, AnswerTypes, Keys
<1> QED
  BY <1>1, <1>4, <1>6, <1>7, <1>8, OneAnswer DEF AnswerInv

\* The goroutine of an answered request stores what it was sent, or nothing.
LEMMA Saves ==
    ASSUME PipelineInv, [StreamNext]_<<stream, gone>>, NEW r \in Requests, Remember(r) \/ Forget(r) PROVE AnswerInv'
<1>1. AnswerInv /\ PlaceRight(r) /\ FromRight(r) /\ StreamedRight(r) /\ saving[r]
      /\ saving' = [saving EXCEPT ![r] = FALSE] /\ saving'[r] = FALSE
      /\ UNCHANGED <<pc, shape, answer, cache, recorded>>
  BY DEF PipelineInv, AnswerInv, AnswerTypes, RequestsRight, Remember, Forget
<1>2. OthersStay(r) /\ OwnStays(r)
  BY <1>1 DEF OthersStay, OwnStays, Own, AnswerInv, AnswerTypes
<1>3. pc[r] = "answered" /\ Own(r) /\ Own(r)' /\ shape[r].project # Default
  BY <1>1 DEF PlaceRight, Own
<1>4. PlaceRight(r)'
  BY <1>1, <1>3 DEF PlaceRight
<1>5. FromRight(r)'
  BY <1>1, <1>3 DEF FromRight
<1>6. StreamedRight(r)'
  BY <1>1, <1>3, ClosedStays DEF StreamedRight, PipelineInv
<1>7. RequestsRight' /\ CacheRight' /\ (memory' = memory => MemoryRight')
  BY <1>1, <1>2, <1>4, <1>5, <1>6, OneAnswer
<1>8. ASSUME memory' = memory \cup {[of |-> r, project |-> shape[r].project, texts |-> answer[r].texts]}
      PROVE  MemoryRight'
  <2>1. ASSUME NEW m \in memory'
        PROVE  /\ m.of \in Requests /\ pc'[m.of] = "answered" /\ Own(m.of)'
               /\ m.project = shape'[m.of].project /\ m.project # Default
               /\ m.texts = answer'[m.of].texts
    <3>1. CASE m \in memory
      BY <1>1, <3>1 DEF AnswerInv, MemoryRight, Own
    <3>2. CASE m = [of |-> r, project |-> shape[r].project, texts |-> answer[r].texts]
      BY <1>1, <1>3, <3>2
    <3> QED
      BY <1>8, <2>1, <3>1, <3>2
  <2> QED
    BY <2>1 DEF MemoryRight
<1>9. AnswerTypes'
  BY <1>1 DEF AnswerInv, AnswerTypes, Keys
<1> QED
  BY <1>7, <1>8, <1>9 DEF AnswerInv, Remember, Forget

\* Steps that are no request's leave what is known of each.
LEMMA NobodysStep ==
    ASSUME PipelineInv, [StreamNext]_<<stream, gone>>, cache' = cache \/ Expire,
           UNCHANGED <<pc, shape, answer, saving, memory, recorded>>
    PROVE  AnswerInv'
<1>1. AnswerInv /\ StreamInv
  BY DEF PipelineInv
<1>2. \A q \in Requests : (Own(q)' <=> Own(q)) /\ Key(shape[q])' = Key(shape[q])
  BY DEF Own, Key
<1>3. AnswerTypes'
  <2>1. cache' = cache \/ \E k \in Keys : cache' = [cache EXCEPT ![k] = NoAnswer]
    BY DEF Expire
  <2>2. cache' \in [Keys -> [from : Requests \cup {"none"}, texts : SUBSET Nat, done : BOOLEAN]]
    BY <1>1, <2>1, NoAnswerTyped DEF AnswerInv, AnswerTypes
  <2>3. Keys' = Keys
    BY DEF Keys, Key
  <2> QED
    BY <1>1, <2>2, <2>3 DEF AnswerInv, AnswerTypes
<1>4. ASSUME NEW r \in Requests PROVE PlaceRight(r)' /\ FromRight(r)' /\ StreamedRight(r)'
  <2>1. PlaceRight(r) /\ FromRight(r) /\ StreamedRight(r)
    BY <1>1 DEF AnswerInv, RequestsRight
  <2>2. PlaceRight(r)'
    BY <2>1 DEF PlaceRight, Own, NoAnswer
  <2>3. FromRight(r)'
    BY <2>1 DEF FromRight, Own, NoAnswer, Key
  <2>4. StreamedRight(r)'
    BY <1>1, <2>1, ClosedStays DEF StreamedRight
  <2> QED
    BY <2>2, <2>3, <2>4
<1>5. CacheRight'
  <2>1. \A k \in Keys : cache'[k] = cache[k] \/ cache'[k] = NoAnswer
    BY <1>1 DEF Expire, AnswerInv, AnswerTypes
  <2> QED
    BY <1>1, <1>2, <2>1 DEF AnswerInv, CacheRight, NoAnswer, Keys, Key, Own
<1>6. MemoryRight'
  BY <1>1 DEF AnswerInv, MemoryRight, Own
<1> QED
  BY <1>3, <1>4, <1>5, <1>6 DEF AnswerInv, RequestsRight

LEMMA AnswerStep == ASSUME PipelineInv, [Next]_vars PROVE AnswerInv'
<1>1. [StreamNext]_<<stream, gone>>
  BY PipelineStreams DEF PipelineInv
<1>2. ASSUME UNCHANGED chat \/ Expire \/ Tick \/ UNCHANGED vars PROVE AnswerInv'
  BY <1>1, <1>2, NobodysStep DEF chat, vars, Expire, Tick
<1>3. ASSUME NEW r \in Requests, Serve(r) PROVE AnswerInv'
  <2>1. CASE TryAgain(r)
    BY <1>1, <2>1, NobodysStep DEF TryAgain
  <2>2. CASE Miss(r)
    <3>1. PICK to \in {"enrich", "auth"} : pc' = [pc EXCEPT ![r] = to]
      BY <2>2 DEF Miss, Goto, AfterCache
    <3> QED
      BY <1>1, <2>2, <3>1, GoesOn DEF Miss, Goto, Places
  <2>3. CASE Enrich(r) \/ Authorized(r) \/ Unauthorized(r) \/ Fail(r) \/ StreamStarts(r) \/ StreamFails(r)
    <3>1. PICK to \in {"auth", "call", "refused", "stream"} : pc' = [pc EXCEPT ![r] = to]
      BY <2>3 DEF Enrich, Authorized, Unauthorized, Fail, StreamStarts, StreamFails, Goto
    <3>2. pc[r] \in {"enrich", "auth", "call"} /\ UNCHANGED <<shape, answer, cache, saving, memory, recorded>>
      BY <2>3 DEF Enrich, Authorized, Unauthorized, Fail, StreamStarts, StreamFails, Goto
    <3> QED
      BY <1>1, <3>1, <3>2, GoesOn DEF Places
  <2> QED
    BY <1>1, <1>3, <2>1, <2>2, <2>3, Hits, Succeeds, StreamAnswers, Fills, Replies DEF Serve
<1>4. ASSUME NEW r \in Requests, Arrive(r) \/ Remember(r) \/ Forget(r) PROVE AnswerInv'
  BY <1>1, <1>4, Arrives, Saves
<1> QED
  BY <1>2, <1>3, <1>4 DEF Next

LEMMA PipelineInvariant == Spec => []PipelineInv
<1>1. Init => PipelineInv
  BY AnswersStart, StreamInitially DEF Init, PipelineInv, ShapeInv, Places
<1>2. ASSUME PipelineInv, [Next]_vars PROVE PipelineInv'
  BY <1>2, AnswerStep, ShapeStep, PipelineStreams, StreamStep DEF PipelineInv
<1> QED
  BY <1>1, <1>2, PTL DEF Spec

\* Whoever is answered, from the cache or not, gets the whole of what some request
\* with the same question, project and model got from its provider (Cache.Get, Set).
THEOREM RightAnswer == Spec => []HitsMatch
  BY PipelineInvariant, AnswersMatch, PTL DEF PipelineInv

\* A project remembers of a request what its client was sent, and nothing of a request
\* that was refused or answered from the cache (the goroutines of StoreConversation).
THEOREM RightMemory == Spec => []RemembersSent
  BY PipelineInvariant, MemoriesMatch, PTL DEF PipelineInv

-----------------------------------------------------------------------------
\* What is proved of Breaker.
P == INSTANCE Breaker_proofs WITH Callers <- Requests, Consulted <- FALSE,
                                  probe <- [r \in Requests |-> FALSE]

LEMMA SameBreaker == P!Spec <=> B!Spec
<1>1. P!Init <=> B!Init
  BY DEF P!Init, B!Init, P!Fresh, B!Fresh
<1>2. P!Next <=> B!Next
  BY DEF P!Next, B!Next, P!Ask, P!Send, P!Begin, P!Allows, P!Expired, P!End, P!Abandon, P!Success, P!Failure, P!Failed,
         P!Count, P!Fresh, P!Tick, B!Ask, B!Send, B!Begin, B!Allows, B!Expired, B!End, B!Abandon, B!Success, B!Failure,
         B!Failed, B!Count, B!Fresh, B!Tick
<1>3. [P!Next]_(P!vars) <=> [B!Next]_(B!vars)
  BY <1>2 DEF P!vars, B!vars
<1> QED
  BY <1>1, <1>3, PTL DEF P!Spec, B!Spec

\* While the window of an open circuit lasts the pipeline's reports change nothing of
\* it but by a success.
THEOREM CircuitHolds == Spec => P!OpenHolds
<1>1. P!BreakerAssumption
  BY ChatAssumption DEF P!BreakerAssumption
<1>2. P!Spec => P!OpenHolds
  BY <1>1, P!WindowHolds
<1> QED
  BY <1>2, SameBreaker, ReportsRight DEF BreakerSpec

-----------------------------------------------------------------------------
\* Types.  A request is out while it is called or streams, and only a stream has a
\* channel.
FlightRight(r) ==
    /\ shape[r] \in Shapes[r] \cup {Unasked}
    /\ pc[r] # "refused" => tries[r] < MaxTries
    /\ target[r] # NoTarget <=> pc[r] \in {"call", "stream"}
    /\ kind[r] # "none" =>
          pc[r] \in {"stream", "answered"} /\ shape[r].stream /\ kind[r] = shape[r].target[1]

FlightInv ==
    /\ tries \in [Requests -> 0..MaxTries]
    /\ target \in [Requests -> Targets \cup {NoTarget}]
    /\ memory \subseteq [of : Requests, project : STRING \cup {Default}, texts : SUBSET Nat]
    /\ \A r \in Requests : FlightRight(r)

LEMMA OneFlight ==
    ASSUME FlightInv, NEW r \in Requests, tries' \in [Requests -> 0..MaxTries],
           target' \in [Requests -> Targets \cup {NoTarget}],
           memory' \subseteq [of : Requests, project : STRING \cup {Default}, texts : SUBSET Nat],
           \A q \in Requests \ {r} :
              /\ pc'[q] = pc[q] /\ shape'[q] = shape[q] /\ tries'[q] = tries[q]
              /\ target'[q] = target[q] /\ kind'[q] = kind[q],
           FlightRight(r)'
    PROVE  FlightInv'
<1>1. ASSUME NEW q \in Requests \ {r} PROVE FlightRight(q)'
  <2>1. FlightRight(q)
    BY DEF FlightInv
  <2> QED
    BY <2>1 DEF FlightRight, Unasked, MaxTries
<1> QED
  BY <1>1 DEF FlightInv, MaxTries

\* The channel's kind changes when it is opened.
LEMMA SameKind == ASSUME NEW r \in Requests, Produce(r) \/ Take(r) \/ Leave(r) PROVE kind' = kind
  BY DEF Produce, ReadFrame, ReadEnd, Decoded, Send, Drop, Close, Take, Leave, stream

LEMMA FlightStep == ASSUME PipelineInv, FlightInv, [Next]_vars PROVE FlightInv'
<1> USE DEF MaxTries
<1>1. ASSUME UNCHANGED <<pc, shape, tries, target, kind, memory>> PROVE FlightInv'
  BY <1>1 DEF FlightInv, FlightRight, Unasked
<1>2. ASSUME UNCHANGED chat \/ Expire \/ Tick \/ UNCHANGED vars, kind' = kind PROVE FlightInv'
  <2>1. UNCHANGED <<pc, shape, tries, target, memory>>
    BY <1>2 DEF chat, vars, Expire, Tick, B!Tick
  <2> QED
    BY <1>1, <1>2, <2>1
<1>3. ASSUME NEW r \in Requests, Arrive(r) PROVE FlightInv'
  <2>1. PICK a \in Shapes[r] : shape' = [shape EXCEPT ![r] = a]
    BY <1>3 DEF Arrive
  <2>2. pc[r] = "new" /\ UNCHANGED <<tries, target, kind, memory>>
        /\ \E to \in {"cache", "enrich", "auth"} : pc' = [pc EXCEPT ![r] = to]
    BY <1>3 DEF Arrive, Goto, AfterCache, stream
  <2>3. FlightRight(r)
    BY DEF FlightInv
  <2>4. FlightRight(r)'
    BY <2>1, <2>2, <2>3 DEF FlightRight, PipelineInv, ShapeInv
  <2>5. \A q \in Requests \ {r} : pc'[q] = pc[q] /\ shape'[q] = shape[q]
    BY <2>1, <2>2 DEF PipelineInv, ShapeInv
  <2> QED
    BY <2>2, <2>4, <2>5, OneFlight DEF FlightInv
<1>4. ASSUME NEW r \in Requests, Serve(r) PROVE FlightInv'
  <2>1. FlightRight(r) /\ shape' = shape /\ memory' = memory
    BY <1>4 DEF FlightInv, Serve, Hit, Miss, Enrich, Authorized, Unauthorized, Succeed, TryAgain, Fail, Fill, Reply,
                StreamStarts, StreamFails, StreamDone
  <2>2. CASE TryAgain(r)
    <3>1. pc[r] = "call" /\ tries' = [tries EXCEPT ![r] = @ + 1] /\ tries[r] + 1 < 2 /\ UNCHANGED <<pc, target, kind>>
      BY <2>2 DEF TryAgain, Plain, stream
    <3>2. tries' \in [Requests -> 0..2] /\ FlightRight(r)'
      BY <2>1, <3>1 DEF FlightInv, FlightRight
    <3> QED
      BY <2>1, <3>1, <3>2, OneFlight DEF FlightInv
  <2>3. CASE Hit(r) \/ Miss(r) \/ Enrich(r) \/ Unauthorized(r) \/ Fill(r) \/ Reply(r)
    <3>1. UNCHANGED <<tries, target, kind>>
      BY <2>3 DEF Hit, Miss, Enrich, Unauthorized, Fill, Reply, stream
    <3>2. pc[r] \in {"cache", "enrich", "auth", "fill", "answer"}
          /\ \E to \in Places \ {"call", "stream"} : pc' = [pc EXCEPT ![r] = to]
      BY <2>3 DEF Hit, Miss, Enrich, Unauthorized, Fill, Reply, Goto, AfterCache, Places
    <3>3. FlightRight(r)'
      BY <2>1, <3>1, <3>2 DEF FlightRight, PipelineInv, ShapeInv
    <3>4. \A q \in Requests \ {r} : pc'[q] = pc[q]
      BY <3>2 DEF PipelineInv, ShapeInv
    <3> QED
      BY <2>1, <3>1, <3>3, <3>4, OneFlight DEF FlightInv
  <2>4. CASE Authorized(r)
    <3>1. pc[r] = "auth" /\ pc' = [pc EXCEPT ![r] = "call"] /\ target' = [target EXCEPT ![r] = shape[r].target]
          /\ UNCHANGED <<tries, kind>>
      BY <2>4 DEF Authorized, Goto, B!Send, B!Begin, stream
    <3>2. shape[r].target \in Targets /\ shape[r].target # NoTarget
      BY <3>1, ChatAssumption DEF PipelineInv, ShapeInv, Shape
    <3>3. FlightRight(r)'
      BY <2>1, <3>1, <3>2 DEF FlightRight, FlightInv, PipelineInv, ShapeInv
    <3>4. target' \in [Requests -> Targets \cup {NoTarget}] /\ \A q \in Requests \ {r} : pc'[q] = pc[q] /\ target'[q] = target[q]
      BY <3>1, <3>2 DEF FlightInv, PipelineInv, ShapeInv
    <3> QED
      BY <2>1, <3>1, <3>3, <3>4, OneFlight DEF FlightInv
  <2>5. CASE StreamStarts(r)
    <3>1. pc[r] = "call" /\ pc' = [pc EXCEPT ![r] = "stream"] /\ kind' = [kind EXCEPT ![r] = shape[r].target[1]]
          /\ shape[r].stream /\ UNCHANGED <<tries, target>>
      BY <2>5 DEF StreamStarts, Goto, Open
    <3>2. kind \in [Requests -> Kinds \cup {"none"}]
      BY DEF PipelineInv, StreamInv, Types
    <3>3. FlightRight(r)'
      BY <2>1, <3>1, <3>2 DEF FlightRight, PipelineInv, ShapeInv
    <3>4. \A q \in Requests \ {r} : pc'[q] = pc[q] /\ kind'[q] = kind[q]
      BY <3>1, <3>2 DEF PipelineInv, ShapeInv
    <3> QED
      BY <2>1, <3>1, <3>3, <3>4, OneFlight DEF FlightInv
  <2>6. CASE Succeed(r) \/ Fail(r) \/ StreamFails(r) \/ StreamDone(r)
    <3>1. target' = [target EXCEPT ![r] = NoTarget] /\ kind' = kind /\ pc[r] \in {"call", "stream"}
      BY <2>6 DEF Succeed, Fail, StreamFails, StreamDone, B!Success, B!Failure, B!Abandon, B!End, Goto, stream
    <3>2. \/ tries' = tries
          \/ tries' = [tries EXCEPT ![r] = @ + 1] /\ pc' = [pc EXCEPT ![r] = "refused"]
      BY <2>6 DEF Succeed, Fail, StreamFails, StreamDone, Goto
    <3>3. \/ pc[r] = "call" /\ \E to \in {"fill", "answer", "refused"} : pc' = [pc EXCEPT ![r] = to]
          \/ pc' = [pc EXCEPT ![r] = "answered"]
      BY <2>6 DEF Succeed, Fail, StreamFails, StreamDone, Goto
    <3>4. tries[r] \in 0..1
      BY <2>1, <3>1 DEF FlightRight, FlightInv
    <3>5. tries' \in [Requests -> 0..2] /\ tries'[r] \in 0..2
      BY <3>2, <3>4 DEF FlightInv
    <3>6. target'[r] = NoTarget /\ target' \in [Requests -> Targets \cup {NoTarget}]
      BY <3>1 DEF FlightInv
    <3>7. pc'[r] \in {"fill", "answer", "refused", "answered"} /\ (pc'[r] = "refused" \/ tries' = tries)
          /\ (pc[r] = "stream" => pc'[r] = "answered")
      BY <3>1, <3>2, <3>3 DEF PipelineInv, ShapeInv
    <3>8. FlightRight(r)'
      BY <2>1, <3>1, <3>4, <3>5, <3>6, <3>7 DEF FlightRight
    <3>9. \A q \in Requests \ {r} : pc'[q] = pc[q] /\ tries'[q] = tries[q] /\ target'[q] = target[q]
      BY <3>1, <3>2, <3>3 DEF FlightInv, PipelineInv, ShapeInv
    <3> QED
      BY <2>1, <3>1, <3>5, <3>6, <3>8, <3>9, OneFlight DEF FlightInv
  <2> QED
    BY <1>4, <2>2, <2>3, <2>4, <2>5, <2>6 DEF Serve
<1>5. ASSUME NEW r \in Requests, Remember(r) \/ Forget(r) PROVE FlightInv'
  <2>1. UNCHANGED <<pc, shape, tries, target, kind>> /\ FlightRight(r) /\ saving[r]
    BY <1>5 DEF Remember, Forget, stream, FlightInv
  <2>2. memory' = memory \/ memory' = memory \cup {[of |-> r, project |-> shape[r].project, texts |-> answer[r].texts]}
    BY <1>5 DEF Remember, Forget
  <2>3. pc[r] # "new" /\ shape[r] \in Shape
    BY <2>1 DEF PipelineInv, ShapeInv, AnswerInv, RequestsRight, PlaceRight
  <2>4. [of |-> r, project |-> shape[r].project, texts |-> answer[r].texts]
            \in [of : Requests, project : STRING \cup {Default}, texts : SUBSET Nat]
    BY <2>3 DEF Shape, PipelineInv, AnswerInv, AnswerTypes
  <2>5. memory' \subseteq [of : Requests, project : STRING \cup {Default}, texts : SUBSET Nat]
    BY <2>2, <2>4 DEF FlightInv
  <2>6. FlightRight(r)'
    BY <2>1 DEF FlightRight
  <2> QED
    BY <2>1, <2>5, <2>6, OneFlight DEF FlightInv
<1>6. ASSUME NEW r \in Requests, Produce(r) \/ Take(r) \/ Leave(r), UNCHANGED chat PROVE FlightInv'
  BY <1>2, <1>6, SameKind
<1>7. ASSUME Expire \/ Tick \/ UNCHANGED vars PROVE FlightInv'
  BY <1>2, <1>7 DEF Expire, Tick, vars, stream
<1> QED
  BY <1>3, <1>4, <1>5, <1>6, <1>7 DEF Next

LEMMA TypeConsequence == PipelineInv /\ FlightInv /\ P!TypeOK => TypeOK
<1> SUFFICES ASSUME PipelineInv, FlightInv, P!TypeOK PROVE TypeOK
  OBVIOUS
<1>1. StreamTypeOK
  <2>1. Types /\ \A r \in Requests : Flow(r)
    BY DEF PipelineInv, StreamInv, StreamRight
  <2> QED
    BY <2>1 DEF StreamTypeOK, Types, Flow
<1>2. B!TypeOK
  BY DEF P!TypeOK, B!TypeOK, P!Entry, B!Entry
<1>3. answer \in [Requests -> Answer] /\ cache \in [Keys -> Answer] /\ saving \in [Requests -> BOOLEAN]
  BY DEF PipelineInv, AnswerInv, AnswerTypes, Answer
<1>4. recorded \in [Requests -> 0..1]
  <2>1. ASSUME NEW r \in Requests PROVE recorded[r] \in 0..1
    <3>1. PlaceRight(r) /\ pc[r] \in Places
      BY DEF PipelineInv, AnswerInv, RequestsRight, ShapeInv
    <3> QED
      BY <3>1 DEF PlaceRight
  <2> QED
    BY <2>1 DEF PipelineInv, AnswerInv, AnswerTypes
<1>5. memory \subseteq [of : Requests, project : STRING, texts : SUBSET Nat]
  <2>1. ASSUME NEW m \in memory PROVE m \in [of : Requests, project : STRING, texts : SUBSET Nat]
    <3>1. m \in [of : Requests, project : STRING \cup {Default}, texts : SUBSET Nat] /\ m.project # Default
      BY DEF FlightInv, PipelineInv, AnswerInv, MemoryRight
    <3> QED
      BY <3>1
  <2> QED
    BY <2>1
<1>6. \A r \in Requests : FlightRight(r)
  BY DEF FlightInv
<1>7. pc \in [Requests -> Places]
  BY DEF PipelineInv, ShapeInv
<1> QED
  BY <1>1, <1>2, <1>3, <1>4, <1>5, <1>6, <1>7 DEF TypeOK, FlightRight, FlightInv, Places

\* Types: a request calls its target twice at most, a stream's channel is of its
\* provider's kind and never over its capacity, and every circuit is in a state that
\* Breaker allows.
THEOREM TypeCorrect == Spec => []TypeOK
<1>1. Init => FlightInv
  BY DEF Init, StreamInit, FlightInv, FlightRight, MaxTries
<1>2. P!BreakerAssumption
  BY ChatAssumption DEF P!BreakerAssumption
<1>3. P!Spec => []P!TypeOK
  BY <1>2, P!TypeCorrect
<1> QED
  BY <1>1, <1>3, FlightStep, PipelineInvariant, TypeConsequence, SameBreaker, ReportsRight, PTL DEF Spec, BreakerSpec
=============================================================================
