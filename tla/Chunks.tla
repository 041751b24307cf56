-------------------------------- MODULE Chunks --------------------------------
(***************************************************************************)
(* chunkText of the indexer: a text, given by the lengths of its lines, is *)
(* cut into chunks of whole lines, each of which begins with the tail of   *)
(* the one before.  A chunk is the pair of its first and last line.        *)
(***************************************************************************)
EXTENDS Integers, Sequences

CONSTANTS MaxChunk, Overlap

ASSUME ChunkAssumption == MaxChunk \in Nat \ {0} /\ Overlap \in Nat \ {0}

\* The first n lines, each with its newline.
UpTo(lines) ==
    LET upTo[n \in 0..Len(lines)] == IF n = 0 THEN 0 ELSE upTo[n - 1] + lines[n] + 1
    IN  upTo

\* Lines i to j.
Size(lines, i, j) == UpTo(lines)[j] - UpTo(lines)[i - 1]

\* Mutant of OverlappingTail: the chunk after the tail skips a line.
OverlappingTailShort(lines, i, j) ==
    (CHOOSE k \in i..j + 1 :
        /\ Size(lines, k, j) <= Overlap
        /\ \A m \in i..k - 1 : Size(lines, m, j) > Overlap) + 1

\* Where the longest tail of lines i to j that fits the overlap begins.
OverlappingTail(lines, i, j) ==
    CHOOSE k \in i..j + 1 :
        /\ Size(lines, k, j) <= Overlap
        /\ \A m \in i..k - 1 : Size(lines, m, j) > Overlap

\* push: cur, the chunk that is being filled, runs from first to line n - 1.
Push(lines, s, n) ==
    IF s.size + lines[n] + 1 > MaxChunk /\ s.first < n
    THEN LET tail == OverlappingTail(lines, s.first, n - 1)
         IN  [chunks |-> Append(s.chunks, <<s.first, n - 1>>), first |-> tail,
              size |-> Size(lines, tail, n - 1) + lines[n] + 1]
    ELSE [s EXCEPT !.size = @ + lines[n] + 1]

Filled(lines) ==
    LET filled[n \in 0..Len(lines)] ==
            IF n = 0 THEN [chunks |-> <<>>, first |-> 1, size |-> 0]
            ELSE Push(lines, filled[n - 1], n)
    IN  filled[Len(lines)]

\* What is in cur at the end is the last chunk.
ChunkText(lines) ==
    LET end == Filled(lines)
    IN  Append(end.chunks, <<end.first, Len(lines)>>)

\* The chunks cover the text from the first line to the last, in order and
\* without a gap; what two of them share fits the overlap, and a chunk is
\* larger than MaxChunk only by the tail it begins with or when it has but one
\* line of its own.
CoverText(lines, chunks) ==
    /\ chunks[1][1] = 1 /\ chunks[Len(chunks)][2] = Len(lines)
    /\ \A i \in 1..Len(chunks) - 1 :
          /\ chunks[i][2] < chunks[i + 1][2]
          /\ chunks[i + 1][1] \in chunks[i][1]..chunks[i][2] + 1
          /\ Size(lines, chunks[i + 1][1], chunks[i][2]) <= Overlap
    /\ \A i \in 1..Len(chunks) :
          LET own == IF i = 1 THEN 1 ELSE chunks[i - 1][2] + 1
          IN  Size(lines, chunks[i][1], chunks[i][2]) <= MaxChunk \/ own = chunks[i][2]
=============================================================================
