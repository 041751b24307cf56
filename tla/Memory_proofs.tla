---------------------------- MODULE Memory_proofs ----------------------------
(***************************************************************************)
(* Proofs about Memory and the functions it is built from: what is stored  *)
(* of a call, for any number of calls, projects and batches; that the      *)
(* chunks of any text cover it; and that the turns of any conversation are *)
(* kept on its way upstream.                                               *)
(***************************************************************************)
EXTENDS Memory, WellFoundedInduction, SequenceTheorems, TLAPS

-----------------------------------------------------------------------------
(* Induction.  The functions are defined by recursion over numbers; a set  *)
(* of numbers stands for the predicate that is to be proved of all.        *)

\* A set of natural numbers that is not empty has a least one.
LEMMA NatLeast ==
    ASSUME NEW S, S \subseteq Nat, S # {}
    PROVE  \E n \in S : \A m \in S : n <= m
<1> DEFINE R == OpToRel(<, Nat)
<1>1. IsWellFoundedOn(R, Nat)
    BY NatLessThanWellFounded
<1>2. PICK n \in S : \A m \in S : ~(<<m, n>> \in R)
  <2> HIDE DEF R
  <2> QED
    BY <1>1, WFMin
<1>3. \A m \in S : <<m, n>> \in R <=> m < n
    BY DEF OpToRel
<1> HIDE DEF R
<1>4. \A m \in S : ~(m < n)
    BY <1>2, <1>3
<1> QED
    BY <1>4

\* A set that has 0, and with n also n + 1, has every natural number.
LEMMA Induction ==
    ASSUME NEW S, 0 \in S, \A n \in Nat : n \in S => n + 1 \in S
    PROVE  \A n \in Nat : n \in S
<1> DEFINE T == Nat \ S
<1> SUFFICES ASSUME T # {} PROVE FALSE
    OBVIOUS
<1>1. PICK n \in T : \A m \in T : n <= m
  <2> T \subseteq Nat
    OBVIOUS
  <2> HIDE DEF T
  <2> QED
    BY NatLeast
<1>2. n # 0
    OBVIOUS
<1>3. n - 1 \in Nat /\ n - 1 \notin T
    BY <1>1, <1>2
<1> QED
    BY <1>3

\* The same up to a number.
LEMMA InductionUpTo ==
    ASSUME NEW N \in Nat, NEW S, 0 \in S, \A n \in 0..N - 1 : n \in S => n + 1 \in S
    PROVE  \A n \in 0..N : n \in S
<1> DEFINE T == {n \in Nat : n <= N => n \in S}
<1>1. 0 \in T
    OBVIOUS
<1>2. \A n \in Nat : n \in T => n + 1 \in T
    OBVIOUS
<1>3. \A n \in Nat : n \in T
  <2> HIDE DEF T
  <2> QED
    BY <1>1, <1>2, Induction
<1> QED
    BY <1>3

-----------------------------------------------------------------------------
(* Recursion. *)

\* From zero, by one step after the other.
Steps(N, T) == [1..N -> [T -> T]]
ComputedBy(f, N, T, zero, G) == f \in [0..N -> T] /\ f[0] = zero /\ \A k \in 1..N : f[k] = G[k][f[k - 1]]

\* A function that is defined by recursion on the numbers up to N exists.
LEMMA Recursion ==
    ASSUME NEW N \in Nat, NEW T, NEW zero \in T, NEW G \in Steps(N, T)
    PROVE  \E f : ComputedBy(f, N, T, zero, G)
<1> USE DEF Steps, ComputedBy
<1> DEFINE S == {m \in Nat : \E f \in [0..m -> T] : f[0] = zero /\ \A k \in 1..m : f[k] = G[k][f[k - 1]]}
<1>1. 0 \in S
  <2> DEFINE f == [k \in 0..0 |-> zero]
  <2>1. f \in [0..0 -> T] /\ f[0] = zero /\ \A k \in 1..0 : f[k] = G[k][f[k - 1]]
    OBVIOUS
  <2> HIDE DEF f
  <2> QED
    BY <2>1
<1>2. \A m \in 0..N - 1 : m \in S => m + 1 \in S
  <2> SUFFICES ASSUME NEW m \in 0..N - 1, m \in S PROVE m + 1 \in S
    OBVIOUS
  <2>1. PICK f \in [0..m -> T] : f[0] = zero /\ \A k \in 1..m : f[k] = G[k][f[k - 1]]
    OBVIOUS
  <2> DEFINE g == [k \in 0..m + 1 |-> IF k <= m THEN f[k] ELSE G[m + 1][f[m]]]
  <2>2. /\ \A k \in 0..m : g[k] = f[k]
        /\ g[m + 1] = G[m + 1][f[m]]
    OBVIOUS
  <2>3. g \in [0..m + 1 -> T]
    <3>1. f[m] \in T /\ G[m + 1] \in [T -> T]
      OBVIOUS
    <3>2. G[m + 1][f[m]] \in T
      BY <3>1
    <3> QED
      BY <3>2
  <2> HIDE DEF g
  <2>4. g[0] = zero
    BY <2>1, <2>2
  <2>5. ASSUME NEW k \in 1..m + 1 PROVE g[k] = G[k][g[k - 1]]
    <3>1. CASE k = m + 1
      BY <3>1, <2>2
    <3>2. CASE k \in 1..m
      <4>1. g[k] = f[k] /\ g[k - 1] = f[k - 1]
        BY <3>2, <2>2
      <4> QED
        BY <4>1, <3>2, <2>1
    <3> QED
      BY <3>1, <3>2
  <2>6. m + 1 \in Nat
    OBVIOUS
  <2> QED
    BY <2>3, <2>4, <2>5, <2>6
<1>3. \A m \in 0..N : m \in S
  <2> HIDE DEF S
  <2> QED
    BY <1>1, <1>2, InductionUpTo
<1> HIDE DEF S
<1>4. N \in S
  BY <1>3
<1> QED
  BY <1>4 DEF S

-----------------------------------------------------------------------------
(* Sizes. *)

\* What UpTo computes.
LEMMA UpToRight ==
    ASSUME NEW lines \in Seq(Nat)
    PROVE  /\ UpTo(lines) \in [0..Len(lines) -> Nat]
           /\ UpTo(lines)[0] = 0
           /\ \A n \in 1..Len(lines) : UpTo(lines)[n] = UpTo(lines)[n - 1] + lines[n] + 1
<1>0. Len(lines) \in Nat /\ 0 \in Nat
  OBVIOUS
<1> DEFINE G == [n \in 1..Len(lines) |-> [x \in Nat |-> x + lines[n] + 1]]
<1>1. G \in [1..Len(lines) -> [Nat -> Nat]] /\ \A n \in 1..Len(lines), x \in Nat : G[n][x] = x + lines[n] + 1
  OBVIOUS
<1> HIDE DEF G
<1>2. PICK f : f \in [0..Len(lines) -> Nat] /\ f[0] = 0 /\ \A n \in 1..Len(lines) : f[n] = G[n][f[n - 1]]
  <2>1. G \in Steps(Len(lines), Nat)
    BY <1>1 DEF Steps
  <2>2. \E f : ComputedBy(f, Len(lines), Nat, 0, G)
    BY <1>0, <2>1, Recursion
  <2> QED
    BY <2>2 DEF ComputedBy
<1>3. \A n \in 1..Len(lines) : f[n] = f[n - 1] + lines[n] + 1
  <2> TAKE n \in 1..Len(lines)
  <2>0. n - 1 \in 0..Len(lines)
    BY <1>0
  <2>1. f[n] = G[n][f[n - 1]] /\ f[n - 1] \in Nat
    BY <1>2, <2>0
  <2> QED
    BY <2>1, <1>1
<1>4. f = [n \in 0..Len(lines) |-> IF n = 0 THEN 0 ELSE f[n - 1] + lines[n] + 1]
  BY <1>2, <1>3
<1>5. \E g : g = [n \in 0..Len(lines) |-> IF n = 0 THEN 0 ELSE g[n - 1] + lines[n] + 1]
  BY <1>4
<1> DEFINE u == UpTo(lines)
<1>6. u = [n \in 0..Len(lines) |-> IF n = 0 THEN 0 ELSE u[n - 1] + lines[n] + 1]
  BY <1>5 DEF UpTo
<1> HIDE DEF u
<1>7. u[0] = 0 /\ \A n \in 1..Len(lines) : u[n] = u[n - 1] + lines[n] + 1
  <2>1. \A n \in 0..Len(lines) : u[n] = IF n = 0 THEN 0 ELSE u[n - 1] + lines[n] + 1
    BY <1>6
  <2> QED
    BY <1>0, <2>1
<1>8. \A n \in 0..Len(lines) : u[n] \in Nat
  <2> DEFINE S == {n \in 0..Len(lines) : u[n] \in Nat}
  <2>1. 0 \in S
    BY <1>7
  <2>2. \A n \in 0..Len(lines) - 1 : n \in S => n + 1 \in S
    <3> SUFFICES ASSUME NEW n \in 0..Len(lines) - 1, n \in S PROVE n + 1 \in S
      OBVIOUS
    <3>1. u[n + 1] = u[n] + lines[n + 1] + 1 /\ lines[n + 1] \in Nat
      BY <1>7
    <3> QED
      BY <3>1
  <2>3. \A n \in 0..Len(lines) : n \in S
    <3> HIDE DEF S
    <3> QED
      BY <1>0, <2>1, <2>2, InductionUpTo
  <2> QED
    BY <2>3
<1>9. u \in [0..Len(lines) -> Nat]
  BY <1>6, <1>8
<1> QED
  BY <1>7, <1>9 DEF u

\* A line more.
LEMMA SizeRight ==
    ASSUME NEW lines \in Seq(Nat), NEW i \in 1..Len(lines) + 1
    PROVE  /\ Size(lines, i, i - 1) = 0
           /\ \A j \in i - 1..Len(lines) : Size(lines, i, j) \in Int
           /\ \A j \in i..Len(lines) : Size(lines, i, j) = Size(lines, i, j - 1) + lines[j] + 1
<1> DEFINE u == UpTo(lines)
<1>1. Len(lines) \in Nat /\ \A j \in 1..Len(lines) : lines[j] \in Nat
  OBVIOUS
<1>2. /\ u \in [0..Len(lines) -> Nat]
      /\ \A n \in 1..Len(lines) : u[n] = u[n - 1] + lines[n] + 1
  BY UpToRight
<1> HIDE DEF u
<1>0. i - 1 \in 0..Len(lines) /\ \A n \in 0..Len(lines) : u[n] \in Int
  BY <1>1, <1>2
<1>3. u[i - 1] - u[i - 1] = 0 /\ \A j \in i - 1..Len(lines) : u[j] - u[i - 1] \in Int
  BY <1>0
<1>4. \A j \in i..Len(lines) : u[j] - u[i - 1] = (u[j - 1] - u[i - 1]) + lines[j] + 1
  <2> TAKE j \in i..Len(lines)
  <2>0. j - 1 \in 0..Len(lines) /\ j \in 1..Len(lines)
    BY <1>1
  <2>1. u[j] = u[j - 1] + lines[j] + 1 /\ u[j - 1] \in Int /\ u[i - 1] \in Int /\ lines[j] \in Int
    BY <1>0, <1>1, <1>2, <2>0
  <2> QED
    BY <2>1
<1> QED
  BY <1>3, <1>4 DEF u, Size

\* A tail that fits the overlap exists: the empty one does.
LEMMA TailRight ==
    ASSUME NEW lines \in Seq(Nat), NEW j \in 0..Len(lines), NEW i \in 1..j + 1
    PROVE  /\ OverlappingTail(lines, i, j) \in i..j + 1
           /\ Size(lines, OverlappingTail(lines, i, j), j) <= Overlap
<1> DEFINE S == {k \in i..j + 1 : Size(lines, k, j) <= Overlap}
<1>0. Len(lines) \in Nat
  OBVIOUS
<1>1. S \subseteq Nat /\ j + 1 \in S
  <2>1. Size(lines, j + 1, (j + 1) - 1) = 0
    BY <1>0, SizeRight
  <2>2. (j + 1) - 1 = j
    OBVIOUS
  <2> QED
    BY <2>1, <2>2, ChunkAssumption
<1>2. PICK k \in S : \A m \in S : k <= m
  <2>1. S # {}
    BY <1>1
  <2> HIDE DEF S
  <2> QED
    BY <1>1, <2>1, NatLeast
<1>3. \A m \in i..k - 1 : Size(lines, m, j) > Overlap
  <2> TAKE m \in i..k - 1
  <2>1. m \in i..j + 1 /\ m \in 1..Len(lines) + 1 /\ j \in m - 1..Len(lines) /\ ~(k <= m)
    BY <1>0, <1>2
  <2>2. m \notin S
    BY <1>2, <2>1
  <2>3. Size(lines, m, j) \in Int
    BY <2>1, SizeRight
  <2> QED
    BY <2>1, <2>2, <2>3, ChunkAssumption
<1>4. \E t \in i..j + 1 : Size(lines, t, j) <= Overlap /\ \A m \in i..t - 1 : Size(lines, m, j) > Overlap
  BY <1>2, <1>3
<1> QED
  BY <1>4 DEF OverlappingTail

-----------------------------------------------------------------------------
(* Chunks. *)

\* The chunk b follows the chunk a.
Joined(lines, a, b) ==
    a[2] < b[2] /\ b[1] \in a[1]..a[2] + 1 /\ Size(lines, b[1], a[2]) <= Overlap

\* The first line that chunk i has for itself.
OwnLine(chunks, i) == IF i = 1 THEN 1 ELSE chunks[i - 1][2] + 1

Fits(lines, chunks, i, chunk) ==
    Size(lines, chunk[1], chunk[2]) <= MaxChunk \/ OwnLine(chunks, i) = chunk[2]

\* As far as they go, the chunks are as CoverText has them ...
Covering(lines, chunks) ==
    /\ chunks # <<>> => chunks[1][1] = 1
    /\ \A i \in 1..Len(chunks) - 1 : Joined(lines, chunks[i], chunks[i + 1])
    /\ \A i \in 1..Len(chunks) : Fits(lines, chunks, i, chunks[i])

\* ... and a chunk may be the next one.
MayFollow(lines, chunks, chunk) ==
    /\ chunks = <<>> => chunk[1] = 1
    /\ chunks # <<>> => Joined(lines, chunks[Len(chunks)], chunk)
    /\ Fits(lines, chunks, Len(chunks) + 1, chunk)

LEMMA AppendCovers ==
    ASSUME NEW lines, NEW chunks \in Seq(Nat \X Nat), NEW chunk \in Nat \X Nat,
           Covering(lines, chunks), MayFollow(lines, chunks, chunk)
    PROVE  Covering(lines, Append(chunks, chunk))
<1> DEFINE more == Append(chunks, chunk)
<1>1. /\ Len(chunks) \in Nat /\ Len(more) = Len(chunks) + 1
      /\ more[Len(chunks) + 1] = chunk
      /\ \A i \in 1..Len(chunks) : more[i] = chunks[i]
  OBVIOUS
<1> HIDE DEF more
<1>2. more[1][1] = 1
  <2>1. CASE chunks = <<>>
    BY <2>1, <1>1 DEF MayFollow
  <2>2. CASE chunks # <<>>
    <3>1. 1 \in 1..Len(chunks)
      BY <2>2
    <3> QED
      BY <2>2, <3>1, <1>1 DEF Covering
  <2> QED
    BY <2>1, <2>2
<1>3. ASSUME NEW i \in 1..Len(more) - 1 PROVE Joined(lines, more[i], more[i + 1])
  <2>1. CASE i = Len(chunks)
    <3>1. chunks # <<>> /\ more[i] = chunks[Len(chunks)] /\ more[i + 1] = chunk
      BY <2>1, <1>1
    <3> QED
      BY <3>1 DEF MayFollow
  <2>2. CASE i \in 1..Len(chunks) - 1
    <3>1. more[i] = chunks[i] /\ more[i + 1] = chunks[i + 1]
      BY <2>2, <1>1
    <3> QED
      BY <3>1, <2>2 DEF Covering
  <2> QED
    BY <2>1, <2>2, <1>1
<1>4. ASSUME NEW i \in 1..Len(more) PROVE Fits(lines, more, i, more[i])
  <2>1. OwnLine(more, i) = OwnLine(chunks, i)
    <3>1. CASE i = 1
      BY <3>1 DEF OwnLine
    <3>2. CASE i # 1
      <4>0. i - 1 \in 1..Len(chunks)
        BY <3>2, <1>1
      <4>1. more[i - 1] = chunks[i - 1]
        BY <4>0, <1>1
      <4> QED
        BY <3>2, <4>1 DEF OwnLine
    <3> QED
      BY <3>1, <3>2
  <2>2. Fits(lines, chunks, i, more[i])
    <3>1. CASE i = Len(chunks) + 1
      BY <3>1, <1>1 DEF MayFollow
    <3>2. CASE i \in 1..Len(chunks)
      <4>1. more[i] = chunks[i]
        BY <3>2, <1>1
      <4> QED
        BY <4>1, <3>2 DEF Covering
    <3> QED
      BY <3>1, <3>2, <1>1
  <2> QED
    BY <2>1, <2>2 DEF Fits
<1>5. Covering(lines, more)
  BY <1>2, <1>3, <1>4 DEF Covering
<1> QED
  BY <1>5 DEF more

FillState == [chunks : Seq(Nat \X Nat), first : Nat, size : Int]

\* The state of push after n lines, at least one of them.
FillRight(lines, s, n) ==
    /\ s \in FillState
    /\ s.first \in 1..n /\ s.size = Size(lines, s.first, n)
    /\ Covering(lines, s.chunks) /\ MayFollow(lines, s.chunks, <<s.first, n>>)

Unfilled == [chunks |-> <<>>, first |-> 1, size |-> 0]

LEMMA PushFirst ==
    ASSUME NEW lines \in Seq(Nat), 1 <= Len(lines)
    PROVE  FillRight(lines, Push(lines, Unfilled, 1), 1)
<1>1. Push(lines, Unfilled, 1) = [chunks |-> <<>>, first |-> 1, size |-> 0 + lines[1] + 1]
  BY DEF Push, Unfilled
<1>2. 1 \in 1..Len(lines) /\ lines[1] \in Nat /\ Len(lines) \in Nat
  OBVIOUS
<1>3. Size(lines, 1, 1) = 0 + lines[1] + 1
  <2>1. Size(lines, 1, 1 - 1) = 0 /\ Size(lines, 1, 1) = Size(lines, 1, 1 - 1) + lines[1] + 1
    BY <1>2, SizeRight
  <2> QED
    BY <2>1
<1>4. Covering(lines, <<>>)
  BY DEF Covering
<1>5. MayFollow(lines, <<>>, <<1, 1>>)
  BY DEF MayFollow, Fits, OwnLine
<1> DEFINE s == [chunks |-> <<>>, first |-> 1, size |-> 0 + lines[1] + 1]
<1>6. s \in FillState
  BY <1>2 DEF FillState
<1>7. s.first = 1 /\ s.chunks = <<>> /\ s.size = Size(lines, 1, 1)
  BY <1>3
<1> HIDE DEF s
<1>8. FillRight(lines, s, 1)
  BY <1>4, <1>5, <1>6, <1>7 DEF FillRight
<1> QED
  BY <1>1, <1>8 DEF s

LEMMA PushRight ==
    ASSUME NEW lines \in Seq(Nat), NEW n \in 2..Len(lines), NEW s, FillRight(lines, s, n - 1)
    PROVE  FillRight(lines, Push(lines, s, n), n)
<1>1. /\ Len(lines) \in Nat /\ lines[n] \in Nat
      /\ s \in FillState /\ s.chunks \in Seq(Nat \X Nat) /\ s.first \in 1..n - 1 /\ s.size \in Int
      /\ s.size = Size(lines, s.first, n - 1)
      /\ Covering(lines, s.chunks) /\ MayFollow(lines, s.chunks, <<s.first, n - 1>>)
  BY DEF FillRight, FillState
<1>2. CASE s.size + lines[n] + 1 > MaxChunk /\ s.first < n
  <2> DEFINE tail == OverlappingTail(lines, s.first, n - 1)
             more == Append(s.chunks, <<s.first, n - 1>>)
  <2>1. tail \in s.first..n /\ Size(lines, tail, n - 1) <= Overlap
    <3>1. n - 1 \in 0..Len(lines) /\ s.first \in 1..(n - 1) + 1 /\ (n - 1) + 1 = n
      BY <1>1
    <3> QED
      BY <3>1, TailRight
  <2>2. Push(lines, s, n) = [chunks |-> more, first |-> tail, size |-> Size(lines, tail, n - 1) + lines[n] + 1]
    BY <1>2 DEF Push
  <2> HIDE DEF tail
  <2>3. Size(lines, tail, n) = Size(lines, tail, n - 1) + lines[n] + 1 /\ Size(lines, tail, n) \in Int
    <3>1. tail \in 1..Len(lines) + 1 /\ n \in tail..Len(lines) /\ n \in tail - 1..Len(lines)
      BY <1>1, <2>1
    <3> QED
      BY <3>1, SizeRight
  <2>4. Covering(lines, more) /\ more \in Seq(Nat \X Nat)
    <3>1. <<s.first, n - 1>> \in Nat \X Nat
      BY <1>1
    <3> QED
      BY <1>1, <3>1, AppendCovers
  <2>5. Len(more) = Len(s.chunks) + 1 /\ Len(s.chunks) \in Nat /\ more[Len(more)] = <<s.first, n - 1>> /\ more # <<>>
    <3>1. <<s.first, n - 1>> \in Nat \X Nat
      BY <1>1
    <3>2. Len(s.chunks) \in Nat /\ Len(more) = Len(s.chunks) + 1 /\ more[Len(s.chunks) + 1] = <<s.first, n - 1>>
      BY <1>1, <3>1
    <3> HIDE DEF more
    <3> QED
      BY <3>2
  <2> HIDE DEF more
  <2>6. MayFollow(lines, more, <<tail, n>>)
    <3>1. Joined(lines, more[Len(more)], <<tail, n>>)
      BY <2>1, <2>5, <1>1 DEF Joined
    <3>2. OwnLine(more, Len(more) + 1) = n
      <4>1. Len(more) + 1 # 1 /\ (Len(more) + 1) - 1 = Len(more)
        BY <2>5
      <4>2. more[(Len(more) + 1) - 1][2] + 1 = n
        BY <2>5, <4>1
      <4> QED
        BY <4>1, <4>2 DEF OwnLine
    <3> QED
      BY <2>5, <3>1, <3>2 DEF MayFollow, Fits
  <2> QED
    BY <1>1, <2>1, <2>2, <2>3, <2>4, <2>6 DEF FillRight, FillState
<1>3. CASE ~(s.size + lines[n] + 1 > MaxChunk /\ s.first < n)
  <2>1. Push(lines, s, n) = [chunks |-> s.chunks, first |-> s.first, size |-> s.size + lines[n] + 1]
    BY <1>3, <1>1 DEF Push, FillState
  <2>2. s.size + lines[n] + 1 <= MaxChunk
    <3>1. s.first < n
      BY <1>1
    <3>2. ~(s.size + lines[n] + 1 > MaxChunk)
      BY <1>3, <3>1
    <3>3. s.size + lines[n] + 1 \in Int /\ MaxChunk \in Int
      BY <1>1, ChunkAssumption
    <3> QED
      BY <3>2, <3>3
  <2>3. Size(lines, s.first, n) = s.size + lines[n] + 1
    <3>1. s.first \in 1..Len(lines) + 1 /\ n \in s.first..Len(lines)
      BY <1>1
    <3> QED
      BY <1>1, <3>1, SizeRight
  <2>4. MayFollow(lines, s.chunks, <<s.first, n>>)
    <3>1. s.chunks # <<>> => Joined(lines, s.chunks[Len(s.chunks)], <<s.first, n>>)
      <4> SUFFICES ASSUME s.chunks # <<>> PROVE Joined(lines, s.chunks[Len(s.chunks)], <<s.first, n>>)
        OBVIOUS
      <4>1. Joined(lines, s.chunks[Len(s.chunks)], <<s.first, n - 1>>)
        BY <1>1 DEF MayFollow
      <4>2. s.chunks[Len(s.chunks)] \in Nat \X Nat
        BY <1>1
      <4> QED
        BY <4>1, <4>2 DEF Joined
    <3> QED
      BY <3>1, <1>1, <2>2, <2>3 DEF MayFollow, Fits
  <2> QED
    BY <1>1, <2>1, <2>3, <2>4 DEF FillRight, FillState
<1> QED
  BY <1>2, <1>3

\* Whatever is filled step by step is right after each of them.
LEMMA FilledSoFar ==
    ASSUME NEW lines \in Seq(Nat), NEW f, f[0] = Unfilled,
           \A n \in 1..Len(lines) : Push(lines, f[n - 1], n) \in FillState => f[n] = Push(lines, f[n - 1], n)
    PROVE  \A n \in 1..Len(lines) : FillRight(lines, f[n], n) /\ f[n] = Push(lines, f[n - 1], n)
<1> DEFINE Right(n) == FillRight(lines, f[n], n) /\ f[n] = Push(lines, f[n - 1], n)
           S == {n \in 0..Len(lines) : n # 0 => Right(n)}
<1>0. Len(lines) \in Nat /\ 0 \in S
  OBVIOUS
<1>1. \A n \in 0..Len(lines) - 1 : n \in S => n + 1 \in S
  <2> SUFFICES ASSUME NEW n \in 0..Len(lines) - 1, n \in S PROVE n + 1 \in S
    OBVIOUS
  <2>1. n + 1 \in 1..Len(lines) /\ (n + 1) - 1 = n
    OBVIOUS
  <2>2. FillRight(lines, Push(lines, f[n], n + 1), n + 1)
    <3>1. CASE n = 0
      <4>1. 1 <= Len(lines) /\ n + 1 = 1 /\ f[n] = Unfilled
        BY <3>1
      <4>2. FillRight(lines, Push(lines, Unfilled, 1), 1)
        BY <4>1, PushFirst
      <4> QED
        BY <4>1, <4>2
    <3>2. CASE n # 0
      <4>1. FillRight(lines, f[n], (n + 1) - 1) /\ n + 1 \in 2..Len(lines)
        BY <3>2, <2>1
      <4> QED
        BY <4>1, PushRight
    <3> QED
      BY <3>1, <3>2
  <2>3. f[n + 1] = Push(lines, f[n], n + 1)
    <3>1. Push(lines, f[n], n + 1) \in FillState
      BY <2>2 DEF FillRight
    <3> QED
      BY <3>1, <2>1
  <2> QED
    BY <2>1, <2>2, <2>3
<1>2. \A n \in 0..Len(lines) : n \in S
  <2> HIDE DEF S
  <2> QED
    BY <1>0, <1>1, InductionUpTo
<1> QED
  BY <1>2

LEMMA FilledRight ==
    ASSUME NEW lines \in Seq(Nat), lines # <<>>
    PROVE  FillRight(lines, Filled(lines), Len(lines))
<1> DEFINE Step(n, s) == IF Push(lines, s, n) \in FillState THEN Push(lines, s, n) ELSE Unfilled
           G == [n \in 1..Len(lines) |-> [s \in FillState |-> Step(n, s)]]
<1>0. Len(lines) \in Nat /\ Len(lines) \in 1..Len(lines) /\ Unfilled \in FillState
  BY DEF Unfilled, FillState
<1>1. G \in Steps(Len(lines), FillState)
  BY <1>0 DEF Steps
<1>2. \A n \in 1..Len(lines), s \in FillState : Push(lines, s, n) \in FillState => G[n][s] = Push(lines, s, n)
  OBVIOUS
<1> HIDE DEF G
<1>3. PICK f : ComputedBy(f, Len(lines), FillState, Unfilled, G)
  BY <1>0, <1>1, Recursion
<1>4. f \in [0..Len(lines) -> FillState] /\ f[0] = Unfilled /\ \A n \in 1..Len(lines) : f[n] = G[n][f[n - 1]]
  BY <1>3 DEF ComputedBy
<1>5. \A n \in 1..Len(lines) : f[n] = Push(lines, f[n - 1], n)
  <2>1. \A n \in 1..Len(lines) : Push(lines, f[n - 1], n) \in FillState => f[n] = Push(lines, f[n - 1], n)
    <3> SUFFICES ASSUME NEW n \in 1..Len(lines), Push(lines, f[n - 1], n) \in FillState
                 PROVE  f[n] = Push(lines, f[n - 1], n)
      OBVIOUS
    <3>1. f[n - 1] \in FillState /\ f[n] = G[n][f[n - 1]]
      BY <1>0, <1>4
    <3> QED
      BY <1>2, <3>1
  <2> QED
    BY <1>4, <2>1, FilledSoFar
<1>6. f = [n \in 0..Len(lines) |-> IF n = 0 THEN Unfilled ELSE Push(lines, f[n - 1], n)]
  BY <1>0, <1>4, <1>5
<1> DEFINE u == CHOOSE g : g = [n \in 0..Len(lines) |-> IF n = 0 THEN Unfilled ELSE Push(lines, g[n - 1], n)]
<1>7. u = [n \in 0..Len(lines) |-> IF n = 0 THEN Unfilled ELSE Push(lines, u[n - 1], n)]
  BY <1>6
<1>8. Filled(lines) = u[Len(lines)]
  BY DEF Filled, Unfilled
<1> HIDE DEF u
<1>9. u[0] = Unfilled /\ \A n \in 1..Len(lines) : u[n] = Push(lines, u[n - 1], n)
  <2>1. \A n \in 0..Len(lines) : u[n] = IF n = 0 THEN Unfilled ELSE Push(lines, u[n - 1], n)
    BY <1>7
  <2> QED
    BY <1>0, <2>1
<1>10. \A n \in 1..Len(lines) : FillRight(lines, u[n], n)
  BY <1>9, FilledSoFar
<1> QED
  BY <1>0, <1>8, <1>10

\* chunkText covers the text.
LEMMA ChunksRight ==
    ASSUME NEW lines \in Seq(Nat), lines # <<>>
    PROVE  CoverText(lines, ChunkText(lines)) /\ Len(ChunkText(lines)) \in Nat \ {0}
<1> DEFINE end == Filled(lines)
           last == <<end.first, Len(lines)>>
           chunks == Append(end.chunks, last)
<1>1. /\ end \in FillState /\ end.chunks \in Seq(Nat \X Nat) /\ end.first \in 1..Len(lines) /\ Len(lines) \in Nat
      /\ Covering(lines, end.chunks) /\ MayFollow(lines, end.chunks, last)
  BY FilledRight DEF FillRight, FillState
<1>2. ChunkText(lines) = chunks
  BY DEF ChunkText
<1>3. last \in Nat \X Nat /\ last[2] = Len(lines)
  BY <1>1
<1> HIDE DEF end, last
<1>4. Covering(lines, chunks)
  BY <1>1, <1>3, AppendCovers
<1>5. Len(chunks) \in Nat \ {0} /\ chunks[Len(chunks)] = last /\ chunks # <<>>
  <2>1. Len(end.chunks) \in Nat /\ Len(chunks) = Len(end.chunks) + 1 /\ chunks[Len(end.chunks) + 1] = last
    BY <1>1, <1>3
  <2> HIDE DEF chunks
  <2> QED
    BY <2>1
<1> HIDE DEF chunks
<1>6. CoverText(lines, chunks)
  BY <1>3, <1>4, <1>5 DEF CoverText, Covering, Joined, Fits, OwnLine
<1> QED
  BY <1>2, <1>5, <1>6

-----------------------------------------------------------------------------
(* The inductive invariant. *)

\* Where a call can be with its operation.
ShapeRight(c) ==
    /\ pc[c] = "idle" => /\ job[c] = NoJob /\ sent[c] = <<>> /\ found[c] = {}
                         /\ total[c] = 0 /\ at[c] = 0 /\ kept[c] = 0
    /\ pc[c] # "idle" => job[c] \in Jobs[c]
    /\ pc[c] \in {"get", "put", "upsert"} => job[c].op \in {"conversation", "entry", "index"}
    /\ pc[c] = "embed" => job[c].op # "delete"
    /\ pc[c] = "walk" => job[c].op = "index" /\ at[c] - kept[c] < Batch
    /\ pc[c] = "drop" => job[c].op = "delete"
    /\ pc[c] \in {"list", "search"} => job[c].op = "enrich"

\* A point belongs to a call that has begun, and is in its collection.
PointsRight == \A p \in points : pc[p.by] # "idle" /\ p.in = In(p.by)

\* A Run that is done has stored all it had to.
DoneRight(c) == pc[c] = "done" /\ job[c].op = "index" => kept[c] = total[c]

\* A conversation goes on as it came, or with memory before it.
SentRight(c) ==
    \/ sent[c] = job[c].msgs /\ found[c] = {}
    \/ job[c].op = "enrich" /\ pc[c] = "done" /\ found[c] # {}
       /\ sent[c] = WithContext(job[c].msgs, {"context"})

\* BatchesKept, of one call.
Kept(c) ==
    ~dropped[c] =>
        \/ Stored(c) = 1..kept[c]
        \/ pc[c] = "failed" /\ Stored(c) = 1..at[c]

\* What the invariant says of one call.
Right(c) ==
    /\ kept[c] <= at[c] /\ at[c] <= total[c] /\ at[c] - kept[c] <= Batch
    /\ Kept(c) /\ ShapeRight(c) /\ DoneRight(c) /\ SentRight(c)

\* The types without what they say of one call.
Types ==
    /\ pc \in [Calls -> {"idle", "get", "put", "embed", "upsert", "walk", "drop", "list", "search", "done", "failed"}]
    /\ job \in [Calls -> Job \cup {NoJob}]
    /\ sent \in [Calls -> Seq(Messages)]
    /\ total \in [Calls -> Nat] /\ at \in [Calls -> Nat] /\ kept \in [Calls -> Nat]
    /\ exists \subseteq Names
    /\ points \subseteq [by : Calls, n : Nat \ {0}, in : exists]
    /\ found \in [Calls -> SUBSET [by : Calls, n : Nat \ {0}, in : Names]]
    /\ dropped \in [Calls -> BOOLEAN]

MemoryInv == Types /\ PointsRight /\ \A c \in Calls : Right(c)

LEMMA InvImplies == MemoryInv => TypeOK /\ BatchesKept
<1>1. MemoryInv => TypeOK
  BY DEF MemoryInv, Types, Right, TypeOK
<1>2. MemoryInv => BatchesKept
  BY DEF MemoryInv, Right, Kept, BatchesKept
<1> QED
  BY <1>1, <1>2

\* A call that a step does not move stays right.
LEMMA Bystander ==
    ASSUME NEW d, Right(d),
           pc'[d] = pc[d], job'[d] = job[d], sent'[d] = sent[d], found'[d] = found[d],
           total'[d] = total[d], at'[d] = at[d], kept'[d] = kept[d],
           dropped'[d] \/ (dropped'[d] = dropped[d] /\ Stored(d)' = Stored(d))
    PROVE  Right(d)'
<1>1. Kept(d)'
  BY DEF Right, Kept
<1>2. ShapeRight(d)' /\ DoneRight(d)' /\ SentRight(d)'
  BY DEF Right, ShapeRight, DoneRight, SentRight
<1> QED
  BY <1>1, <1>2 DEF Right

\* A call that only goes on to another state keeps its counts and its points.
LEMMA Moves ==
    ASSUME MemoryInv, NEW c \in Calls, pc[c] \notin {"idle", "done", "failed"},
           NEW to \in {"get", "put", "embed", "upsert", "walk", "drop", "list", "search", "done", "failed"},
           pc' = [pc EXCEPT ![c] = to], UNCHANGED <<job, total, at, kept, points, sent, found, dropped>>,
           exists \subseteq exists', exists' \subseteq Names,
           ShapeRight(c)', DoneRight(c)'
    PROVE  MemoryInv'
<1>0. Types /\ PointsRight /\ \A d \in Calls : Right(d)
  BY DEF MemoryInv
<1>1. Types'
  <2>1. pc' \in [Calls -> {"idle", "get", "put", "embed", "upsert", "walk", "drop", "list", "search", "done", "failed"}]
    BY <1>0 DEF Types
  <2>2. points' \subseteq [by : Calls, n : Nat \ {0}, in : exists']
    BY <1>0 DEF Types
  <2> QED
    BY <1>0, <2>1, <2>2 DEF Types
<1>2. \A d \in Calls : pc'[d] = IF d = c THEN to ELSE pc[d]
  BY <1>0 DEF Types
<1>3. PointsRight'
  <2>1. \A d : In(d)' = In(d)
    BY DEF In
  <2>2. \A p \in points : p.by \in Calls
    BY <1>0 DEF Types
  <2> QED
    BY <1>0, <1>2, <2>1, <2>2 DEF PointsRight
<1>4. ASSUME NEW d \in Calls PROVE Right(d)'
  <2>1. Stored(d)' = Stored(d)
    BY DEF Stored
  <2>2. CASE d = c
    <3>1. Right(c) /\ pc[c] # "failed" /\ pc[c] # "done"
      BY <1>0
    <3>2. Kept(c)'
      BY <2>1, <2>2, <3>1 DEF Right, Kept
    <3>3. SentRight(c)'
      BY <3>1 DEF Right, SentRight
    <3> QED
      BY <2>2, <3>1, <3>2, <3>3 DEF Right
  <2>3. CASE d # c
    <3>1. pc'[d] = pc[d]
      BY <1>2, <2>3
    <3> QED
      BY <1>0, <2>1, <3>1, Bystander
  <2> QED
    BY <2>2, <2>3
<1> QED
  BY <1>1, <1>3, <1>4 DEF MemoryInv

-----------------------------------------------------------------------------
(* The steps of the calls. *)

\* The number of chunks of a tree is a number.
LEMMA ChunkedNat ==
    ASSUME NEW tree \in Seq(File)
    PROVE  Chunked(tree) \in Nat
<1> DEFINE G == [n \in 1..Len(tree) |-> [x \in Nat |-> x + ChunksOf(tree[n])]]
<1>0. Len(tree) \in Nat /\ 0 \in Nat
  OBVIOUS
<1>1. \A n \in 1..Len(tree) : ChunksOf(tree[n]) \in Nat
  <2> TAKE n \in 1..Len(tree)
  <2>1. tree[n] \in File
    OBVIOUS
  <2>2. tree[n].lines \in Seq(Nat) /\ tree[n].lines # <<>>
    BY <2>1, MemoryAssumption DEF File
  <2>3. Len(ChunkText(tree[n].lines)) \in Nat
    BY <2>2, ChunksRight
  <2> QED
    BY <2>3 DEF ChunksOf
<1>2. G \in Steps(Len(tree), Nat) /\ \A n \in 1..Len(tree), x \in Nat : G[n][x] = x + ChunksOf(tree[n])
  BY <1>1 DEF Steps
<1> HIDE DEF G
<1>3. PICK f : ComputedBy(f, Len(tree), Nat, 0, G)
  BY <1>0, <1>2, Recursion
<1>4. f \in [0..Len(tree) -> Nat] /\ f[0] = 0 /\ \A n \in 1..Len(tree) : f[n] = G[n][f[n - 1]]
  BY <1>3 DEF ComputedBy
<1>5. \A n \in 1..Len(tree) : f[n] = f[n - 1] + ChunksOf(tree[n])
  <2> TAKE n \in 1..Len(tree)
  <2>1. f[n] = G[n][f[n - 1]] /\ f[n - 1] \in Nat
    BY <1>0, <1>4
  <2> QED
    BY <2>1, <1>2
<1>6. f = [n \in 0..Len(tree) |-> IF n = 0 THEN 0 ELSE f[n - 1] + ChunksOf(tree[n])]
  BY <1>0, <1>4, <1>5
<1> DEFINE u == CHOOSE g : g = [n \in 0..Len(tree) |-> IF n = 0 THEN 0 ELSE g[n - 1] + ChunksOf(tree[n])]
<1>7. u = [n \in 0..Len(tree) |-> IF n = 0 THEN 0 ELSE u[n - 1] + ChunksOf(tree[n])]
  BY <1>6
<1>8. Chunked(tree) = u[Len(tree)]
  BY DEF Chunked
<1> HIDE DEF u
<1>9. u[0] = 0 /\ \A n \in 1..Len(tree) : u[n] = u[n - 1] + ChunksOf(tree[n])
  <2>1. \A n \in 0..Len(tree) : u[n] = IF n = 0 THEN 0 ELSE u[n - 1] + ChunksOf(tree[n])
    BY <1>7
  <2> QED
    BY <1>0, <2>1
<1> DEFINE S == {n \in 0..Len(tree) : u[n] \in Nat}
<1>10. 0 \in S /\ \A n \in 0..Len(tree) - 1 : n \in S => n + 1 \in S
  <2>1. ASSUME NEW n \in 0..Len(tree) - 1, n \in S PROVE n + 1 \in S
    <3>1. u[n + 1] = u[n] + ChunksOf(tree[n + 1]) /\ ChunksOf(tree[n + 1]) \in Nat /\ u[n] \in Nat
      BY <1>0, <1>1, <1>9, <2>1
    <3> QED
      BY <3>1
  <2> QED
    BY <1>0, <1>9, <2>1
<1>11. \A n \in 0..Len(tree) : n \in S
  <2> HIDE DEF S
  <2> QED
    BY <1>0, <1>10, InductionUpTo
<1> QED
  BY <1>0, <1>8, <1>11

\* A call that has begun has one of its jobs.
LEMMA JobRight ==
    ASSUME MemoryInv, NEW c \in Calls, pc[c] # "idle"
    PROVE  /\ job[c] \in Job /\ In(c) \in Names
           /\ job[c].op = "enrich" => LastUser(job[c].msgs) # 0
<1>1. job[c] \in Jobs[c]
  BY DEF MemoryInv, Right, ShapeRight
<1>2. job[c] \in Job /\ (job[c].op = "enrich" => LastUser(job[c].msgs) # 0)
  BY <1>1, MemoryAssumption
<1>3. CollectionName[job[c].project] \in Names
  BY <1>2, MemoryAssumption DEF Job
<1> QED
  BY <1>2, <1>3 DEF In

\* Where the user's message is, there is a message.
LEMMA LastUserRight ==
    ASSUME NEW msgs \in Seq(Messages)
    PROVE  /\ LastUser(msgs) \in 0..Len(msgs)
           /\ LastUser(msgs) # 0 => msgs[LastUser(msgs)].role = "user"
           /\ \A j \in 1..Len(msgs) : msgs[j].role = "user" => j <= LastUser(msgs)
           /\ LastUser(msgs) = 0 => \A j \in 1..Len(msgs) : msgs[j].role # "user"
<1> DEFINE users == {i \in 1..Len(msgs) : msgs[i].role = "user"}
           T == {Len(msgs) - i : i \in users}
<1>0. Len(msgs) \in Nat
  OBVIOUS
<1>1. CASE users = {}
  BY <1>0, <1>1 DEF LastUser
<1>2. CASE users # {}
  <2>1. PICK n \in T : \A m \in T : n <= m
    <3>1. T \subseteq Nat /\ T # {}
      BY <1>0, <1>2
    <3> HIDE DEF T
    <3> QED
      BY <3>1, NatLeast
  <2>2. PICK k \in users : n = Len(msgs) - k
    BY <2>1
  <2>3. \A j \in users : j <= k
    <3> TAKE j \in users
    <3>1. Len(msgs) - j \in T
      OBVIOUS
    <3>2. n <= Len(msgs) - j
      BY <2>1, <3>1
    <3> QED
      BY <1>0, <2>2, <3>2
  <2> DEFINE l == CHOOSE i \in users : \A j \in users : j <= i
  <2>4. l \in users /\ \A j \in users : j <= l
    BY <2>2, <2>3
  <2>5. LastUser(msgs) = l
    BY <1>2 DEF LastUser
  <2> HIDE DEF l
  <2> QED
    BY <1>0, <2>4, <2>5
<1> QED
  BY <1>1, <1>2

\* The context comes before the conversation, in a system message.
LEMMA ContextRight ==
    ASSUME NEW msgs \in Seq(Messages), LastUser(msgs) # 0
    PROVE  \E first \in Messages :
              /\ WithContext(msgs, {"context"}) = <<first>> \o msgs
              /\ first.role = "system" /\ "context" \in first.texts
<1>1. Len(msgs) \in Nat /\ 1 \in 1..Len(msgs)
  BY LastUserRight
<1>2. msgs[1] \in Messages
  BY <1>1
<1>0. {"context"} \subseteq Words /\ msgs[1].texts \subseteq Words /\ "system" \in Roles
  BY <1>2, MemoryAssumption DEF Messages, Roles
<1>3. CASE msgs[1].role = "system"
  <2>1. Message("system", msgs[1].texts \cup {"context"}) \in Messages
    BY <1>0 DEF Message, Messages
  <2> QED
    BY <1>3, <2>1 DEF WithContext, Message
<1>4. CASE msgs[1].role # "system"
  <2>1. Message("system", {"context"}) \in Messages
    BY <1>0 DEF Message, Messages
  <2> QED
    BY <1>4, <2>1 DEF WithContext, Message
<1> QED
  BY <1>3, <1>4

LEMMA InitRight == Init => MemoryInv
<1> SUFFICES ASSUME Init PROVE MemoryInv
  OBVIOUS
<1>1. Types
  <2>1. sent \in [Calls -> Seq(Messages)]
    BY DEF Init
  <2> QED
    BY <2>1 DEF Init, Types
<1>2. PointsRight
  BY DEF Init, PointsRight
<1>3. ASSUME NEW c \in Calls PROVE Right(c)
  <2>1. Stored(c) = 1..0 /\ kept[c] = 0 /\ at[c] = 0 /\ total[c] = 0 /\ pc[c] = "idle"
    BY DEF Init, Stored
  <2>2. Kept(c)
    BY <2>1 DEF Kept
  <2>3. ShapeRight(c) /\ DoneRight(c) /\ SentRight(c)
    BY DEF Init, ShapeRight, DoneRight, SentRight, NoJob
  <2> QED
    BY <2>1, <2>2, <2>3, MemoryAssumption DEF Right
<1> QED
  BY <1>1, <1>2, <1>3 DEF MemoryInv

LEMMA StartStep ==
    ASSUME MemoryInv, NEW c \in Calls, Start(c)
    PROVE  MemoryInv'
<1>0. Types /\ PointsRight /\ \A d \in Calls : Right(d)
  BY DEF MemoryInv
<1>1. PICK j \in Jobs[c] :
          /\ job' = [job EXCEPT ![c] = j]
          /\ pc' = [pc EXCEPT ![c] = First(j.op)]
          /\ at' = [at EXCEPT ![c] = IF j.op \in {"entry", "conversation"} THEN 1 ELSE 0]
          /\ total' = [total EXCEPT ![c] = IF j.op = "index" THEN Chunked(j.tree) ELSE at'[c]]
          /\ sent' = [sent EXCEPT ![c] = j.msgs]
  BY DEF Start, Goto
<1>2. pc[c] = "idle" /\ UNCHANGED <<kept, exists, points, found, dropped>>
  BY DEF Start
<1>3. j \in Job /\ j.op \in Ops /\ j.msgs \in Seq(Messages) /\ j.tree \in Seq(File)
  BY MemoryAssumption DEF Job
<1>4. Chunked(j.tree) \in Nat
  BY <1>3, ChunkedNat
<1>5. /\ First(j.op) \in {"get", "embed", "drop", "list"}
      /\ First(j.op) = "get" => j.op \in {"entry", "index"}
      /\ First(j.op) = "embed" => j.op = "conversation"
      /\ First(j.op) = "drop" => j.op = "delete"
      /\ First(j.op) = "list" => j.op = "enrich"
  BY <1>3 DEF First, Ops
<1>6. /\ pc'[c] = First(j.op) /\ job'[c] = j /\ sent'[c] = j.msgs
      /\ at'[c] \in {0, 1} /\ total'[c] \in Nat /\ at'[c] <= total'[c]
      /\ kept'[c] = 0 /\ kept[c] = 0 /\ found'[c] = {} /\ Stored(c) = 1..0
  <2>1. kept[c] = 0 /\ found[c] = {}
    BY <1>0, <1>2 DEF Right, ShapeRight
  <2>2. \A p \in points : p.by # c
    BY <1>0, <1>2 DEF PointsRight
  <2>3. Stored(c) = 1..0
    BY <2>2 DEF Stored
  <2>4. at'[c] = IF j.op \in {"entry", "conversation"} THEN 1 ELSE 0
    BY <1>0, <1>1 DEF Types
  <2>5. total'[c] = IF j.op = "index" THEN Chunked(j.tree) ELSE at'[c]
    BY <1>0, <1>1 DEF Types
  <2>6. j.op = "index" => at'[c] = 0
    BY <2>4
  <2>7. pc'[c] = First(j.op) /\ job'[c] = j /\ sent'[c] = j.msgs
    BY <1>0, <1>1 DEF Types
  <2> QED
    BY <1>2, <1>4, <2>1, <2>3, <2>4, <2>5, <2>6, <2>7
<1>7. Types'
  <2>1. at' \in [Calls -> Nat] /\ total' \in [Calls -> Nat]
    BY <1>0, <1>1, <1>6 DEF Types
  <2>2. pc' \in [Calls -> {"idle", "get", "put", "embed", "upsert", "walk", "drop", "list", "search", "done", "failed"}]
    BY <1>0, <1>1, <1>5 DEF Types
  <2>3. job' \in [Calls -> Job \cup {NoJob}] /\ sent' \in [Calls -> Seq(Messages)]
    BY <1>0, <1>1, <1>3 DEF Types
  <2> QED
    BY <1>0, <1>2, <2>1, <2>2, <2>3 DEF Types
<1>8. PointsRight'
  <2>1. \A p \in points : p.by \in Calls /\ p.by # c
    BY <1>0, <1>2 DEF Types, PointsRight
  <2>2. \A d \in Calls : d # c => pc'[d] = pc[d] /\ job'[d] = job[d]
    BY <1>0, <1>1 DEF Types
  <2> QED
    BY <1>0, <1>2, <2>1, <2>2 DEF PointsRight, In
<1>9. ASSUME NEW d \in Calls PROVE Right(d)'
  <2>1. Stored(d)' = Stored(d)
    BY <1>2 DEF Stored
  <2>2. CASE d = c
    <3>1. Kept(c)'
      BY <2>1, <2>2, <1>6 DEF Kept
    <3>2. ShapeRight(c)' /\ DoneRight(c)'
      BY <1>3, <1>5, <1>6 DEF ShapeRight, DoneRight, Ops
    <3>3. SentRight(c)'
      BY <1>6 DEF SentRight
    <3>4. kept'[c] <= at'[c] /\ at'[c] - kept'[c] <= Batch
      BY <1>6, MemoryAssumption
    <3> QED
      BY <2>2, <3>1, <3>2, <3>3, <3>4, <1>6 DEF Right
  <2>3. CASE d # c
    <3>1. /\ pc'[d] = pc[d] /\ job'[d] = job[d] /\ sent'[d] = sent[d] /\ total'[d] = total[d] /\ at'[d] = at[d]
      BY <1>0, <1>1, <2>3 DEF Types
    <3> QED
      BY <1>0, <1>2, <2>1, <3>1, Bystander
  <2> QED
    BY <2>2, <2>3
<1> QED
  BY <1>7, <1>8, <1>9 DEF MemoryInv

\* AfterEnsure goes to where the operation goes on.
LEMMA AfterRight ==
    ASSUME MemoryInv, NEW c \in Calls, pc[c] \in {"get", "put"}
    PROVE  /\ AfterEnsure(c) \in {"upsert", "embed", "walk"}
           /\ AfterEnsure(c) = "walk" => job[c].op = "index" /\ at[c] = kept[c]
<1>1. job[c].op \in {"conversation", "entry", "index"}
  BY DEF MemoryInv, Right, ShapeRight
<1> QED
  BY <1>1 DEF AfterEnsure

LEMMA SimpleSteps ==
    ASSUME MemoryInv, NEW c \in Calls,
           Fail(c) \/ EnsureGet(c) \/ EnsurePut(c) \/ Embed(c) \/ EmbedNothing(c) \/ List(c)
    PROVE  MemoryInv'
<1>0. Types /\ Right(c)
  BY DEF MemoryInv
<1>1. pc[c] # "idle" => job[c] \in Jobs[c] /\ In(c) \in Names
  <2>1. pc[c] # "idle" => In(c) \in Names
    BY JobRight
  <2> QED
    BY <1>0, <2>1 DEF Right, ShapeRight
<1>2. kept[c] \in Nat /\ at[c] \in Nat /\ Batch \in Nat \ {0} /\ exists \subseteq Names
  BY <1>0, MemoryAssumption DEF Types
<1>3. \A to : pc' = [pc EXCEPT ![c] = to] => pc'[c] = to
  BY <1>0 DEF Types
<1>4. CASE Fail(c)
  <2>1. /\ pc[c] \in {"get", "put", "drop", "embed"} /\ pc' = [pc EXCEPT ![c] = "failed"]
        /\ UNCHANGED <<job, total, at, kept, exists, points, sent, found, dropped>>
    BY <1>4 DEF Fail, Quiet
  <2>2. ShapeRight(c)' /\ DoneRight(c)'
    BY <1>1, <1>3, <2>1 DEF ShapeRight, DoneRight
  <2> QED
    BY <1>2, <2>1, <2>2, Moves
<1>5. CASE EnsureGet(c)
  <2>1. PICK to \in {"upsert", "embed", "walk", "put"} :
            /\ pc[c] = "get" /\ pc' = [pc EXCEPT ![c] = to]
            /\ to = "walk" => job[c].op = "index" /\ at[c] = kept[c]
    BY <1>5, AfterRight DEF EnsureGet, Goto
  <2>2. UNCHANGED <<job, total, at, kept, exists, points, sent, found, dropped>>
    BY <1>5 DEF EnsureGet, Quiet
  <2>3. ShapeRight(c)' /\ DoneRight(c)'
    <3>1. job[c].op \in {"conversation", "entry", "index"}
      BY <1>0, <2>1 DEF Right, ShapeRight
    <3> QED
      BY <1>1, <1>2, <1>3, <2>1, <2>2, <3>1 DEF ShapeRight, DoneRight
  <2> QED
    BY <1>2, <2>1, <2>2, <2>3, Moves
<1>6. CASE EnsurePut(c)
  <2>1. PICK to \in {"upsert", "embed", "walk", "failed"} :
            /\ pc[c] = "put" /\ pc' = [pc EXCEPT ![c] = to]
            /\ to = "walk" => job[c].op = "index" /\ at[c] = kept[c]
    BY <1>6, AfterRight DEF EnsurePut, Goto
  <2>2. /\ UNCHANGED <<job, total, at, kept, points, sent, found, dropped>>
        /\ exists \subseteq exists' /\ exists' \subseteq Names
    BY <1>1, <1>2, <1>6, <2>1 DEF EnsurePut
  <2>3. ShapeRight(c)' /\ DoneRight(c)'
    <3>1. job[c].op \in {"conversation", "entry", "index"}
      BY <1>0, <2>1 DEF Right, ShapeRight
    <3> QED
      BY <1>1, <1>2, <1>3, <2>1, <2>2, <3>1 DEF ShapeRight, DoneRight
  <2> QED
    BY <2>1, <2>2, <2>3, Moves
<1>7. CASE Embed(c)
  <2>1. PICK to \in {"get", "search", "upsert"} :
            /\ pc[c] = "embed" /\ pc' = [pc EXCEPT ![c] = to]
            /\ to = "get" => job[c].op = "conversation"
            /\ to = "search" => job[c].op = "enrich"
            /\ to = "upsert" => job[c].op \notin {"conversation", "enrich"}
    BY <1>7 DEF Embed, Goto
  <2>2. UNCHANGED <<job, total, at, kept, exists, points, sent, found, dropped>>
    BY <1>7 DEF Embed, Quiet
  <2>3. job[c].op \in Ops /\ job[c].op # "delete"
    <3>1. job[c] \in Job
      BY <2>1, JobRight
    <3> QED
      BY <1>0, <2>1, <3>1 DEF Right, ShapeRight, Job
  <2>4. ShapeRight(c)' /\ DoneRight(c)'
    BY <1>1, <1>3, <2>1, <2>2, <2>3 DEF ShapeRight, DoneRight, Ops
  <2> QED
    BY <1>2, <2>1, <2>2, <2>4, Moves
<1>8. CASE EmbedNothing(c)
  <2>1. /\ pc[c] = "embed" /\ pc' = [pc EXCEPT ![c] = "done"] /\ job[c].op # "index"
        /\ UNCHANGED <<job, total, at, kept, exists, points, sent, found, dropped>>
    BY <1>8 DEF EmbedNothing, Goto, Quiet
  <2>2. ShapeRight(c)' /\ DoneRight(c)'
    BY <1>1, <1>3, <2>1 DEF ShapeRight, DoneRight
  <2> QED
    BY <1>2, <2>1, <2>2, Moves
<1>9. CASE List(c)
  <2>1. PICK to \in {"embed", "done"} : pc[c] = "list" /\ pc' = [pc EXCEPT ![c] = to]
    BY <1>9 DEF List, Goto
  <2>2. UNCHANGED <<job, total, at, kept, exists, points, sent, found, dropped>>
    BY <1>9 DEF List, Quiet
  <2>3. job[c].op = "enrich"
    BY <1>0, <2>1 DEF Right, ShapeRight
  <2>4. ShapeRight(c)' /\ DoneRight(c)'
    BY <1>1, <1>3, <2>1, <2>2, <2>3 DEF ShapeRight, DoneRight
  <2> QED
    BY <1>2, <2>1, <2>2, <2>4, Moves
<1> QED
  BY <1>4, <1>5, <1>6, <1>7, <1>8, <1>9

\* The points of a batch are those after the ones that are stored.
LEMMA MadeRight ==
    ASSUME MemoryInv, NEW c \in Calls, pc[c] # "idle", In(c) \in exists
    PROVE  /\ Made(c) \subseteq [by : Calls, n : Nat \ {0}, in : exists]
           /\ \A p \in Made(c) : p.by = c /\ p.in = In(c)
           /\ Stored(c) = 1..kept[c] => {p.n : p \in {q \in points \cup Made(c) : q.by = c}} = 1..at[c]
           /\ \A d : d # c => {p.n : p \in {q \in points \cup Made(c) : q.by = d}} = Stored(d)
<1>1. kept[c] \in Nat /\ at[c] \in Nat /\ kept[c] <= at[c]
  BY DEF MemoryInv, Types, Right
<1>2. Made(c) \subseteq [by : Calls, n : Nat \ {0}, in : exists] /\ \A p \in Made(c) : p.by = c /\ p.in = In(c)
  BY <1>1 DEF Made
<1>3. {p.n : p \in Made(c)} = kept[c] + 1..at[c]
  <2> DEFINE M == Made(c)
             D == kept[c] + 1..at[c]
  <2>1. \A p \in M : p.n \in D
    BY DEF Made
  <2>2. \A n \in D : \E p \in M : p.n = n
    <3> TAKE n \in D
    <3>1. [by |-> c, n |-> n, in |-> In(c)] \in M /\ [by |-> c, n |-> n, in |-> In(c)].n = n
      BY DEF Made
    <3> QED
      BY <3>1
  <2> HIDE DEF M, D
  <2>3. {p.n : p \in M} = D
    BY <2>1, <2>2
  <2> QED
    BY <2>3 DEF M, D
<1>4. {p.n : p \in {q \in points \cup Made(c) : q.by = c}} = Stored(c) \cup {p.n : p \in Made(c)}
  BY <1>2 DEF Stored
<1>5. 1..kept[c] \cup (kept[c] + 1..at[c]) = 1..at[c]
  BY <1>1
<1>6. \A d : d # c => {p.n : p \in {q \in points \cup Made(c) : q.by = d}} = Stored(d)
  BY <1>2 DEF Stored
<1> QED
  BY <1>2, <1>3, <1>4, <1>5, <1>6

\* A batch that arrives, whatever the call learns of it.
LEMMA BatchStep ==
    ASSUME MemoryInv, NEW c \in Calls, pc[c] = "upsert", NEW to \in {"walk", "done", "failed"},
           pc' = [pc EXCEPT ![c] = to], UNCHANGED <<job, total, at, exists, sent, found, dropped>>,
           \/ points' = points \cup Made(c) /\ In(c) \in exists
           \/ points' = points /\ kept' = kept,
           to # "failed" => /\ kept' = [kept EXCEPT ![c] = at[c]]
                            /\ In(c) \in exists /\ points' = points \cup Made(c)
                            /\ to = IF job[c].op = "index" THEN "walk" ELSE "done",
           to = "failed" => kept' = kept
    PROVE  MemoryInv'
<1>0. Types /\ PointsRight /\ \A d \in Calls : Right(d)
  BY DEF MemoryInv
<1>1. \A d \in Calls : pc'[d] = (IF d = c THEN to ELSE pc[d]) /\ (d # c => kept'[d] = kept[d])
  BY <1>0 DEF Types
<1>2. kept[c] \in Nat /\ at[c] \in Nat /\ total[c] \in Nat /\ Batch \in Nat \ {0}
  BY <1>0, MemoryAssumption DEF Types
<1>3. kept[c] <= at[c] /\ at[c] <= total[c] /\ at[c] - kept[c] <= Batch /\ job[c] \in Jobs[c]
  BY <1>0 DEF Right, ShapeRight
<1>4. /\ to # "failed" => kept'[c] = at[c]
      /\ to = "failed" => kept'[c] = kept[c]
  BY <1>0 DEF Types
<1>5. points' \subseteq points \cup Made(c) /\ points \subseteq points' /\ (points' # points => In(c) \in exists)
  OBVIOUS
<1>6. Types'
  <2>1. pc' \in [Calls -> {"idle", "get", "put", "embed", "upsert", "walk", "drop", "list", "search", "done", "failed"}]
    BY <1>0 DEF Types
  <2>2. kept' \in [Calls -> Nat]
    BY <1>0, <1>2 DEF Types
  <2>3. points' \subseteq [by : Calls, n : Nat \ {0}, in : exists]
    <3>1. CASE points' = points
      BY <1>0, <3>1 DEF Types
    <3>2. CASE points' = points \cup Made(c) /\ In(c) \in exists
      <4>1. Made(c) \subseteq [by : Calls, n : Nat \ {0}, in : exists]
        BY <3>2, MadeRight
      <4> QED
        BY <1>0, <3>2, <4>1 DEF Types
    <3> QED
      BY <3>1, <3>2
  <2> QED
    BY <1>0, <2>1, <2>2, <2>3 DEF Types
<1>7. PointsRight'
  <2>1. \A d : In(d)' = In(d)
    BY DEF In
  <2>2. \A p \in points : p.by \in Calls /\ pc[p.by] # "idle" /\ p.in = In(p.by)
    BY <1>0 DEF Types, PointsRight
  <2>3. \A p \in points' : p \in points \/ (p.by = c /\ p.in = In(c))
    BY <1>5, MadeRight
  <2> QED
    BY <1>1, <2>1, <2>2, <2>3 DEF PointsRight
<1>8. ASSUME NEW d \in Calls PROVE Right(d)'
  <2>1. CASE d # c
    <3>1. Stored(d)' = Stored(d)
      <4>1. CASE points' = points
        BY <4>1 DEF Stored
      <4>2. CASE points' = points \cup Made(c) /\ In(c) \in exists
        BY <2>1, <4>2, MadeRight DEF Stored
      <4> QED
        BY <4>1, <4>2
    <3>2. pc'[d] = pc[d] /\ kept'[d] = kept[d]
      BY <1>1, <2>1
    <3> QED
      BY <1>0, <3>1, <3>2, Bystander
  <2>2. CASE d = c
    <3>1. Kept(c)'
      <4>1. CASE dropped[c]
        BY <4>1 DEF Kept
      <4>2. CASE ~dropped[c]
        <5>1. Stored(c) = 1..kept[c]
          BY <1>0, <4>2 DEF Right, Kept
        <5>2. CASE points' = points \cup Made(c) /\ In(c) \in exists
          <6>1. Stored(c)' = 1..at[c]
            BY <5>1, <5>2, MadeRight DEF Stored
          <6>2. to = "failed" => pc'[c] = "failed"
            BY <1>1
          <6> QED
            BY <1>4, <6>1, <6>2 DEF Kept
        <5>3. CASE points' = points /\ to = "failed"
          <6>1. Stored(c)' = Stored(c)
            BY <5>3 DEF Stored
          <6> QED
            BY <1>4, <5>1, <5>3, <6>1 DEF Kept
        <5> QED
          BY <5>2, <5>3
      <4> QED
        BY <4>1, <4>2
    <3>2. ShapeRight(c)' /\ DoneRight(c)'
      BY <1>1, <1>2, <1>3, <1>4 DEF ShapeRight, DoneRight
    <3>3. SentRight(c)'
      BY <1>0 DEF Right, SentRight
    <3>4. kept'[c] <= at'[c] /\ at'[c] <= total'[c] /\ at'[c] - kept'[c] <= Batch
      BY <1>2, <1>3, <1>4
    <3> QED
      BY <2>2, <3>1, <3>2, <3>3, <3>4 DEF Right
  <2> QED
    BY <2>1, <2>2
<1> QED
  BY <1>6, <1>7, <1>8 DEF MemoryInv

LEMMA WalkStep ==
    ASSUME MemoryInv, NEW c \in Calls, Walk(c)
    PROVE  MemoryInv'
<1>0. Types /\ PointsRight /\ \A d \in Calls : Right(d)
  BY DEF MemoryInv
<1>1. /\ pc[c] = "walk" /\ job[c].op = "index" /\ job[c] \in Jobs[c] /\ at[c] - kept[c] < Batch
      /\ kept[c] <= at[c] /\ at[c] <= total[c]
  BY <1>0 DEF Walk, Goto, Right, ShapeRight
<1>2. kept[c] \in Nat /\ at[c] \in Nat /\ total[c] \in Nat /\ Batch \in Nat \ {0} /\ exists \subseteq Names
  BY <1>0, MemoryAssumption DEF Types
<1>3. CASE at[c] < total[c] /\ at' = [at EXCEPT ![c] = @ + 1]
  <2>1. PICK to \in {"get", "walk"} :
            /\ pc' = [pc EXCEPT ![c] = to]
            /\ to = "walk" => at[c] + 1 - kept[c] < Batch
    <3>1. at[c] + 1 - kept[c] >= Batch \/ at[c] + 1 - kept[c] < Batch
      BY <1>2
    <3>2. pc' = [pc EXCEPT ![c] = IF at[c] + 1 - kept[c] >= Batch THEN "get" ELSE "walk"]
      BY <1>2, <1>3 DEF Walk, Goto
    <3> QED
      BY <3>1, <3>2
  <2>2. UNCHANGED <<job, total, kept, exists, points, sent, found, dropped>>
    BY DEF Walk
  <2>3. \A d \in Calls : pc'[d] = (IF d = c THEN to ELSE pc[d]) /\ at'[d] = IF d = c THEN at[c] + 1 ELSE at[d]
    BY <1>0, <1>3, <2>1 DEF Types
  <2>4. Types'
    <3>1. at' \in [Calls -> Nat]
      BY <1>0, <1>2, <1>3 DEF Types
    <3>2. pc' \in [Calls -> {"idle", "get", "put", "embed", "upsert", "walk", "drop", "list", "search", "done", "failed"}]
      BY <1>0, <2>1 DEF Types
    <3> QED
      BY <1>0, <2>2, <3>1, <3>2 DEF Types
  <2>5. PointsRight'
    <3>1. \A d : In(d)' = In(d)
      BY <2>2 DEF In
    <3>2. \A p \in points : p.by \in Calls
      BY <1>0 DEF Types
    <3> QED
      BY <1>0, <2>2, <2>3, <3>1, <3>2 DEF PointsRight
  <2>6. ASSUME NEW d \in Calls PROVE Right(d)'
    <3>1. Stored(d)' = Stored(d)
      BY <2>2 DEF Stored
    <3>2. CASE d # c
      <4>1. pc'[d] = pc[d] /\ at'[d] = at[d]
        BY <2>3, <3>2
      <4> QED
        BY <1>0, <2>2, <3>1, <4>1, Bystander
    <3>3. CASE d = c
      <4>1. pc'[c] = to /\ at'[c] = at[c] + 1
        BY <2>3
      <4>2. kept'[c] <= at'[c] /\ at'[c] <= total'[c] /\ at'[c] - kept'[c] <= Batch
        BY <1>1, <1>2, <1>3, <2>2, <4>1
      <4>3. Kept(c)'
        <5>1. Kept(c)
          BY <1>0 DEF Right
        <5> QED
          BY <1>1, <2>2, <3>1, <3>3, <5>1 DEF Kept
      <4>4. ShapeRight(c)' /\ DoneRight(c)'
        <5>1. pc'[c] = "walk" => at'[c] - kept'[c] < Batch
          BY <1>2, <2>1, <2>2, <4>1
        <5>2. pc'[c] \in {"get", "walk"} /\ job'[c] = job[c]
          BY <2>1, <2>2, <4>1
        <5> QED
          BY <1>1, <5>1, <5>2 DEF ShapeRight, DoneRight
      <4>5. SentRight(c)'
        <5>1. SentRight(c) /\ pc[c] # "done"
          BY <1>0, <1>1 DEF Right
        <5> QED
          BY <2>2, <5>1 DEF SentRight
      <4> QED
        BY <3>3, <4>2, <4>3, <4>4, <4>5 DEF Right
    <3> QED
      BY <3>2, <3>3
  <2> QED
    BY <2>4, <2>5, <2>6 DEF MemoryInv
<1>4. CASE at[c] = total[c] /\ at' = at
  <2>1. PICK to \in {"done", "get"} :
            /\ pc' = [pc EXCEPT ![c] = to]
            /\ to = "done" => at[c] = kept[c]
    <3>1. pc' = [pc EXCEPT ![c] = IF at[c] = kept[c] THEN "done" ELSE "get"]
      BY <1>2, <1>4 DEF Walk, Goto
    <3> QED
      BY <3>1
  <2>2. UNCHANGED <<job, total, at, kept, exists, points, sent, found, dropped>>
    BY <1>4 DEF Walk
  <2>3. pc'[c] = to
    BY <1>0, <2>1 DEF Types
  <2>4. ShapeRight(c)' /\ DoneRight(c)'
    BY <1>1, <1>4, <2>1, <2>2, <2>3 DEF ShapeRight, DoneRight
  <2> QED
    BY <1>1, <1>2, <2>1, <2>2, <2>4, Moves
<1> QED
  BY <1>3, <1>4 DEF Walk

LEMMA DropStep ==
    ASSUME MemoryInv, NEW c \in Calls, Drop(c)
    PROVE  MemoryInv'
<1>0. Types /\ PointsRight /\ \A d \in Calls : Right(d)
  BY DEF MemoryInv
<1>1. PICK to \in {"done", "failed"} : pc[c] = "drop" /\ pc' = [pc EXCEPT ![c] = to]
  BY DEF Drop, Goto
<1>2. /\ exists' = exists \ {In(c)} /\ points' = {p \in points : p.in # In(c)}
      /\ dropped' = [d \in Calls |-> dropped[d] \/ (pc[d] # "idle" /\ In(d) = In(c))]
      /\ UNCHANGED <<job, total, at, kept, sent, found>>
  BY DEF Drop
<1>3. \A d \in Calls : pc'[d] = IF d = c THEN to ELSE pc[d]
  BY <1>0, <1>1 DEF Types
<1>4. Types'
  <2>1. pc' \in [Calls -> {"idle", "get", "put", "embed", "upsert", "walk", "drop", "list", "search", "done", "failed"}]
    BY <1>0, <1>1 DEF Types
  <2>2. exists' \subseteq Names
    BY <1>0, <1>2 DEF Types
  <2>3. points' \subseteq [by : Calls, n : Nat \ {0}, in : exists']
    <3>1. points \subseteq [by : Calls, n : Nat \ {0}, in : exists]
      BY <1>0 DEF Types
    <3> QED
      BY <1>2, <3>1
  <2>4. dropped' \in [Calls -> BOOLEAN]
    BY <1>2
  <2> QED
    BY <1>0, <1>2, <2>1, <2>2, <2>3, <2>4 DEF Types
<1>5. PointsRight'
  <2>1. \A d : In(d)' = In(d)
    BY <1>2 DEF In
  <2>2. \A p \in points : p.by \in Calls /\ pc[p.by] # "idle" /\ p.in = In(p.by)
    BY <1>0 DEF Types, PointsRight
  <2> QED
    BY <1>2, <1>3, <2>1, <2>2 DEF PointsRight
<1>6. ASSUME NEW d \in Calls PROVE dropped'[d] \/ (dropped'[d] = dropped[d] /\ Stored(d)' = Stored(d))
  <2>1. CASE dropped'[d]
    BY <2>1
  <2>2. CASE ~dropped'[d]
    <3>1. ~dropped[d] /\ (pc[d] = "idle" \/ In(d) # In(c))
      BY <1>2, <2>2
    <3>2. \A p \in points : p.by = d => p.in # In(c)
      BY <1>0, <3>1 DEF PointsRight
    <3>3. Stored(d)' = Stored(d)
      BY <1>2, <3>2 DEF Stored
    <3>4. dropped[d] \in BOOLEAN /\ dropped'[d] \in BOOLEAN
      BY <1>0, <1>4 DEF Types
    <3> QED
      BY <2>2, <3>1, <3>3, <3>4
  <2> QED
    BY <2>1, <2>2
<1>7. ASSUME NEW d \in Calls PROVE Right(d)'
  <2>1. CASE d # c
    <3>1. pc'[d] = pc[d]
      BY <1>3, <2>1
    <3> QED
      BY <1>0, <1>2, <1>6, <3>1, Bystander
  <2>2. CASE d = c
    <3>1. job[c].op = "delete" /\ job[c] \in Jobs[c]
      BY <1>0, <1>1 DEF Right, ShapeRight
    <3>2. Kept(c)'
      <4>1. dropped'[c]
        BY <1>1, <1>2
      <4> QED
        BY <4>1 DEF Kept
    <3>3. ShapeRight(c)' /\ DoneRight(c)'
      BY <1>2, <1>3, <3>1 DEF ShapeRight, DoneRight
    <3>4. SentRight(c)'
      <4>1. SentRight(c) /\ pc[c] # "done"
        BY <1>0, <1>1 DEF Right
      <4> QED
        BY <1>2, <4>1 DEF SentRight
    <3>5. kept'[c] <= at'[c] /\ at'[c] <= total'[c] /\ at'[c] - kept'[c] <= Batch
      BY <1>0, <1>2 DEF Right
    <3> QED
      BY <2>2, <3>2, <3>3, <3>4, <3>5 DEF Right
  <2> QED
    BY <2>1, <2>2
<1> QED
  BY <1>4, <1>5, <1>7 DEF MemoryInv

LEMMA SearchStep ==
    ASSUME MemoryInv, NEW c \in Calls, Search(c)
    PROVE  MemoryInv'
<1>0. Types /\ PointsRight /\ \A d \in Calls : Right(d)
  BY DEF MemoryInv
<1>1. /\ pc[c] = "search" /\ pc' = [pc EXCEPT ![c] = "done"]
      /\ UNCHANGED <<job, total, at, kept, exists, points, dropped>>
  BY DEF Search, Goto
<1>2. PICK some \in SUBSET Contexts(c) :
          /\ found' = [found EXCEPT ![c] = some]
          /\ sent' = [sent EXCEPT ![c] = IF some = {} THEN @ ELSE WithContext(@, {"context"})]
  BY DEF Search
<1>3. /\ job[c] \in Job /\ job[c] \in Jobs[c] /\ job[c].op = "enrich" /\ LastUser(job[c].msgs) # 0
      /\ job[c].msgs \in Seq(Messages) /\ sent[c] = job[c].msgs /\ found[c] = {}
  <2>1. ShapeRight(c) /\ SentRight(c)
    BY <1>0 DEF Right
  <2>2. job[c] \in Jobs[c] /\ job[c].op = "enrich" /\ sent[c] = job[c].msgs /\ found[c] = {}
    BY <1>1, <2>1 DEF ShapeRight, SentRight
  <2>3. job[c] \in Job /\ (job[c].op = "enrich" => LastUser(job[c].msgs) # 0)
    BY <1>1, JobRight
  <2> QED
    BY <2>2, <2>3 DEF Job
<1>4. WithContext(job[c].msgs, {"context"}) \in Seq(Messages)
  <2>1. PICK first \in Messages : WithContext(job[c].msgs, {"context"}) = <<first>> \o job[c].msgs
    BY <1>3, ContextRight
  <2>2. <<first>> \in Seq(Messages)
    OBVIOUS
  <2> QED
    BY <1>3, <2>1, <2>2, ConcatProperties
<1>5. \A d \in Calls : /\ pc'[d] = (IF d = c THEN "done" ELSE pc[d])
                       /\ d # c => sent'[d] = sent[d] /\ found'[d] = found[d]
  BY <1>0, <1>1, <1>2 DEF Types
<1>6. /\ found'[c] = some
      /\ sent'[c] = IF some = {} THEN job[c].msgs ELSE WithContext(job[c].msgs, {"context"})
  BY <1>0, <1>2, <1>3 DEF Types
<1>7. Types'
  <2>1. pc' \in [Calls -> {"idle", "get", "put", "embed", "upsert", "walk", "drop", "list", "search", "done", "failed"}]
    BY <1>0, <1>1 DEF Types
  <2>2. sent' \in [Calls -> Seq(Messages)]
    BY <1>0, <1>2, <1>3, <1>4 DEF Types
  <2>3. found' \in [Calls -> SUBSET [by : Calls, n : Nat \ {0}, in : Names]]
    <3>1. points \subseteq [by : Calls, n : Nat \ {0}, in : exists] /\ exists \subseteq Names
      BY <1>0 DEF Types
    <3>2. some \subseteq points
      BY DEF Contexts
    <3>3. some \subseteq [by : Calls, n : Nat \ {0}, in : Names]
      BY <3>1, <3>2
    <3> QED
      BY <1>0, <1>2, <3>3 DEF Types
  <2> QED
    BY <1>0, <1>1, <2>1, <2>2, <2>3 DEF Types
<1>8. PointsRight'
  <2>1. \A d : In(d)' = In(d)
    BY <1>1 DEF In
  <2>2. \A p \in points : p.by \in Calls
    BY <1>0 DEF Types
  <2> QED
    BY <1>0, <1>1, <1>5, <2>1, <2>2 DEF PointsRight
<1>9. ASSUME NEW d \in Calls PROVE Right(d)'
  <2>1. Stored(d)' = Stored(d)
    BY <1>1 DEF Stored
  <2>2. CASE d # c
    BY <1>0, <1>1, <1>5, <2>1, <2>2, Bystander
  <2>3. CASE d = c
    <3>1. Kept(c)'
      <4>1. Kept(c)
        BY <1>0 DEF Right
      <4> QED
        BY <1>1, <2>1, <2>3, <4>1 DEF Kept
    <3>2. ShapeRight(c)' /\ DoneRight(c)'
      BY <1>1, <1>3, <1>5 DEF ShapeRight, DoneRight
    <3>3. SentRight(c)'
      BY <1>1, <1>3, <1>5, <1>6 DEF SentRight
    <3>4. kept'[c] <= at'[c] /\ at'[c] <= total'[c] /\ at'[c] - kept'[c] <= Batch
      BY <1>0, <1>1 DEF Right
    <3> QED
      BY <2>3, <3>1, <3>2, <3>3, <3>4 DEF Right
  <2> QED
    BY <2>2, <2>3
<1> QED
  BY <1>7, <1>8, <1>9 DEF MemoryInv

LEMMA MemoryStep == MemoryInv /\ [Next]_vars => MemoryInv'
<1> SUFFICES ASSUME MemoryInv, [Next]_vars PROVE MemoryInv'
  OBVIOUS
<1>1. CASE UNCHANGED vars
  <2>1. Types' /\ PointsRight'
    BY <1>1 DEF MemoryInv, Types, PointsRight, In, vars
  <2>2. ASSUME NEW d \in Calls PROVE Right(d)'
    <3>1. Right(d) /\ Stored(d)' = Stored(d)
      BY <1>1 DEF MemoryInv, Stored, vars
    <3> QED
      BY <1>1, <3>1, Bystander DEF vars
  <2> QED
    BY <2>1, <2>2 DEF MemoryInv
<1>2. ASSUME NEW c \in Calls, Start(c) PROVE MemoryInv'
  BY <1>2, StartStep
<1>3. ASSUME NEW c \in Calls,
             Fail(c) \/ EnsureGet(c) \/ EnsurePut(c) \/ Embed(c) \/ EmbedNothing(c) \/ List(c)
      PROVE  MemoryInv'
  BY <1>3, SimpleSteps
<1>4. ASSUME NEW c \in Calls, Upsert(c) PROVE MemoryInv'
  <2>1. PICK to \in {"walk", "done"} :
            /\ pc[c] = "upsert" /\ pc' = [pc EXCEPT ![c] = to]
            /\ to = IF job[c].op = "index" THEN "walk" ELSE "done"
    BY <1>4 DEF Upsert, Goto
  <2>2. /\ In(c) \in exists /\ points' = points \cup Made(c) /\ kept' = [kept EXCEPT ![c] = at[c]]
        /\ UNCHANGED <<job, total, at, exists, sent, found, dropped>>
    BY <1>4 DEF Upsert
  <2> QED
    BY <2>1, <2>2, BatchStep
<1>5. ASSUME NEW c \in Calls, UpsertFails(c) PROVE MemoryInv'
  <2>1. /\ pc[c] = "upsert" /\ pc' = [pc EXCEPT ![c] = "failed"] /\ kept' = kept
        /\ UNCHANGED <<job, total, at, exists, sent, found, dropped>>
        /\ \/ points' = points
           \/ In(c) \in exists /\ points' = points \cup Made(c)
    BY <1>5 DEF UpsertFails, Goto
  <2> QED
    BY <2>1, BatchStep
<1>6. ASSUME NEW c \in Calls, Walk(c) \/ Drop(c) \/ Search(c) PROVE MemoryInv'
  BY <1>6, WalkStep, DropStep, SearchStep
<1> QED
  BY <1>1, <1>2, <1>3, <1>4, <1>5, <1>6 DEF Next, Advance

\* In every state.
LEMMA MemoryInvariant == Spec => []MemoryInv
<1> QED
  BY InitRight, MemoryStep, PTL DEF Spec

-----------------------------------------------------------------------------
(* Conversations. *)

\* What holds of no message, and with the messages so far of one more.
LEMMA MessageInduction ==
    ASSUME NEW P, <<>> \in P,
           \A s \in Seq(Messages), m \in Messages : s \in P => Append(s, m) \in P
    PROVE  \A s \in Seq(Messages) : s \in P
<1> DEFINE S == {n \in Nat : \A s \in Seq(Messages) : Len(s) = n => s \in P}
<1>1. 0 \in S
  OBVIOUS
<1>2. ASSUME NEW n \in Nat, n \in S PROVE n + 1 \in S
  <2>1. ASSUME NEW s \in Seq(Messages), Len(s) = n + 1 PROVE s \in P
    <3> DEFINE front == SubSeq(s, 1, n)
    <3>1. front \in Seq(Messages) /\ Len(front) = n /\ s[n + 1] \in Messages /\ s = Append(front, s[n + 1])
      BY <2>1
    <3> HIDE DEF front
    <3>2. front \in P
      BY <1>2, <3>1
    <3> QED
      BY <3>1, <3>2
  <2> QED
    BY <2>1
<1>3. \A n \in Nat : n \in S
  <2> HIDE DEF S
  <2> QED
    BY <1>1, <1>2, Induction
<1> QED
  BY <1>3

\* Both Turns and GeminiContents go through the messages with a step.
MessageSteps == [Seq(Messages) -> [Messages -> Seq(Messages)]]
Through(f, msgs, step) ==
    /\ f \in [0..Len(msgs) -> Seq(Messages)] /\ f[0] = <<>>
    /\ \A n \in 1..Len(msgs) : f[n] = step[f[n - 1]][msgs[n]]
Value(msgs, step) == (CHOOSE f : Through(f, msgs, step))[Len(msgs)]

LEMMA ThroughExists ==
    ASSUME NEW msgs \in Seq(Messages), NEW step \in MessageSteps
    PROVE  \E f : Through(f, msgs, step)
<1> DEFINE T == Seq(Messages)
           G == [n \in 1..Len(msgs) |-> [x \in T |-> step[x][msgs[n]]]]
<1>0. Len(msgs) \in Nat /\ <<>> \in T
  OBVIOUS
<1>1. G \in Steps(Len(msgs), T) /\ \A n \in 1..Len(msgs), x \in T : G[n][x] = step[x][msgs[n]]
  <2>1. \A n \in 1..Len(msgs), x \in T : step[x][msgs[n]] \in T
    <3> TAKE n \in 1..Len(msgs), x \in T
    <3>1. msgs[n] \in Messages /\ step[x] \in [Messages -> T]
      BY DEF MessageSteps
    <3> HIDE DEF T
    <3> QED
      BY <3>1
  <2> HIDE DEF T
  <2> QED
    BY <2>1 DEF Steps
<1> HIDE DEF G, T
<1>2. PICK f : ComputedBy(f, Len(msgs), T, <<>>, G)
  BY <1>0, <1>1, Recursion
<1>3. f \in [0..Len(msgs) -> T] /\ f[0] = <<>> /\ \A n \in 1..Len(msgs) : f[n] = G[n][f[n - 1]]
  BY <1>2 DEF ComputedBy
<1>4. \A n \in 1..Len(msgs) : f[n] = step[f[n - 1]][msgs[n]]
  <2> TAKE n \in 1..Len(msgs)
  <2>1. f[n] = G[n][f[n - 1]] /\ f[n - 1] \in T
    BY <1>0, <1>3
  <2> QED
    BY <1>1, <2>1
<1> QED
  BY <1>3, <1>4 DEF Through, T

\* Two functions that begin alike and go on alike are the same.
LEMMA SameSoFar ==
    ASSUME NEW N \in Nat, NEW f, NEW g, f[0] = g[0],
           \A n \in 1..N : f[n - 1] = g[n - 1] => f[n] = g[n]
    PROVE  f[N] = g[N]
<1> DEFINE S == {n \in 0..N : f[n] = g[n]}
<1>1. 0 \in S /\ \A n \in 0..N - 1 : n \in S => n + 1 \in S
  <2>1. ASSUME NEW n \in 0..N - 1, n \in S PROVE n + 1 \in S
    <3>1. n + 1 \in 1..N /\ (n + 1) - 1 = n
      OBVIOUS
    <3> QED
      BY <2>1, <3>1
  <2> QED
    BY <2>1
<1>2. \A n \in 0..N : n \in S
  <2> HIDE DEF S
  <2> QED
    BY <1>1, InductionUpTo
<1> QED
  BY <1>2

LEMMA ValueOf ==
    ASSUME NEW msgs \in Seq(Messages), NEW step, NEW f, Through(f, msgs, step)
    PROVE  Value(msgs, step) = f[Len(msgs)]
<1> DEFINE g == CHOOSE h : Through(h, msgs, step)
<1>1. Through(g, msgs, step)
  OBVIOUS
<1>2. Value(msgs, step) = g[Len(msgs)]
  BY DEF Value
<1> HIDE DEF g
<1>3. Len(msgs) \in Nat /\ f[0] = g[0] /\ \A n \in 1..Len(msgs) : f[n - 1] = g[n - 1] => f[n] = g[n]
  <2>1. /\ f[0] = <<>> /\ \A n \in 1..Len(msgs) : f[n] = step[f[n - 1]][msgs[n]]
        /\ g[0] = <<>> /\ \A n \in 1..Len(msgs) : g[n] = step[g[n - 1]][msgs[n]]
    BY <1>1 DEF Through
  <2>2. Len(msgs) \in Nat
    OBVIOUS
  <2> QED
    BY <2>1, <2>2
<1>4. f[Len(msgs)] = g[Len(msgs)]
  BY <1>3, SameSoFar
<1> QED
  BY <1>2, <1>4

LEMMA ValueRight ==
    ASSUME NEW step \in MessageSteps
    PROVE  /\ Value(<<>>, step) = <<>>
           /\ \A s \in Seq(Messages) : Value(s, step) \in Seq(Messages)
           /\ \A s \in Seq(Messages), m \in Messages : Value(Append(s, m), step) = step[Value(s, step)][m]
<1>1. Value(<<>>, step) = <<>>
  <2>1. <<>> \in Seq(Messages) /\ Len(<<>>) = 0
    OBVIOUS
  <2>2. PICK f : Through(f, <<>>, step)
    BY <2>1, ThroughExists
  <2>3. Value(<<>>, step) = f[Len(<<>>)]
    BY <2>1, <2>2, ValueOf
  <2>4. f[0] = <<>>
    BY <2>2 DEF Through
  <2> QED
    BY <2>1, <2>3, <2>4
<1>2. ASSUME NEW s \in Seq(Messages) PROVE Value(s, step) \in Seq(Messages)
  <2>1. PICK f : Through(f, s, step)
    BY ThroughExists
  <2>2. f \in [0..Len(s) -> Seq(Messages)] /\ Len(s) \in 0..Len(s)
    BY <2>1 DEF Through
  <2> QED
    BY <2>1, <2>2, ValueOf
<1>3. ASSUME NEW s \in Seq(Messages), NEW m \in Messages PROVE Value(Append(s, m), step) = step[Value(s, step)][m]
  <2> DEFINE more == Append(s, m)
  <2>1. /\ more \in Seq(Messages) /\ Len(s) \in Nat /\ Len(more) = Len(s) + 1
        /\ more[Len(s) + 1] = m /\ \A n \in 1..Len(s) : more[n] = s[n]
    OBVIOUS
  <2> HIDE DEF more
  <2>2. PICK f : Through(f, more, step)
    BY <2>1, ThroughExists
  <2>3. PICK g : Through(g, s, step)
    BY ThroughExists
  <2>4. Value(more, step) = f[Len(s) + 1] /\ Value(s, step) = g[Len(s)]
    BY <2>1, <2>2, <2>3, ValueOf
  <2>5. f[Len(s) + 1] = step[f[Len(s)]][m]
    <3>1. Len(s) + 1 \in 1..Len(more) /\ (Len(s) + 1) - 1 = Len(s)
      BY <2>1
    <3> QED
      BY <2>1, <2>2, <3>1 DEF Through
  <2>6. f[Len(s)] = g[Len(s)]
    <3>1. \A n \in 1..Len(s) : n \in 1..Len(more)
      BY <2>1
    <3>2. f[0] = g[0] /\ \A n \in 1..Len(s) : f[n - 1] = g[n - 1] => f[n] = g[n]
      BY <2>1, <2>2, <2>3, <3>1 DEF Through
    <3> QED
      BY <2>1, <3>2, SameSoFar
  <2> QED
    BY <2>4, <2>5, <2>6 DEF more
<1> QED
  BY <1>1, <1>2, <1>3

TurnStep == [x \in Seq(Messages) |-> [m \in Messages |-> IF IsTurn(m) THEN Append(x, m) ELSE x]]
SystemStep == [x \in Seq(Messages) |->
                  [m \in Messages |-> IF m.role = "system" THEN <<m>> \o x ELSE Append(x, m)]]

LEMMA StepsRight ==
    /\ TurnStep \in MessageSteps /\ SystemStep \in MessageSteps
    /\ \A x \in Seq(Messages), m \in Messages :
          /\ TurnStep[x][m] = IF IsTurn(m) THEN Append(x, m) ELSE x
          /\ SystemStep[x][m] = IF m.role = "system" THEN <<m>> \o x ELSE Append(x, m)
<1>1. ASSUME NEW x \in Seq(Messages), NEW m \in Messages
      PROVE  Append(x, m) \in Seq(Messages) /\ <<m>> \o x \in Seq(Messages)
  <2>1. <<m>> \in Seq(Messages)
    OBVIOUS
  <2> QED
    BY <2>1, ConcatProperties, AppendProperties
<1> DEFINE T == Seq(Messages)
<1>2. \A x \in T, m \in Messages : Append(x, m) \in T /\ <<m>> \o x \in T
  BY <1>1
<1>3. /\ TurnStep = [x \in T |-> [m \in Messages |-> IF IsTurn(m) THEN Append(x, m) ELSE x]]
      /\ SystemStep = [x \in T |-> [m \in Messages |-> IF m.role = "system" THEN <<m>> \o x ELSE Append(x, m)]]
  BY DEF TurnStep, SystemStep
<1>4. TurnStep \in [T -> [Messages -> T]] /\ SystemStep \in [T -> [Messages -> T]]
  <2> HIDE DEF T
  <2> QED
    BY <1>2, <1>3
<1> QED
  BY <1>3, <1>4 DEF MessageSteps

LEMMA TurnsValue ==
    ASSUME NEW msgs \in Seq(Messages)
    PROVE  Turns(msgs) = Value(msgs, TurnStep)
<1> DEFINE D == 0..Len(msgs)
           Go(x, n) == IF IsTurn(msgs[n]) THEN Append(x, msgs[n]) ELSE x
<1>0. Len(msgs) \in Nat /\ Len(msgs) \in D
  OBVIOUS
<1>1. PICK f : Through(f, msgs, TurnStep)
  BY ThroughExists, StepsRight
<1>2. f \in [D -> Seq(Messages)] /\ f[0] = <<>> /\ \A n \in 1..Len(msgs) : f[n] = TurnStep[f[n - 1]][msgs[n]]
  BY <1>1 DEF Through
<1>3. \A n \in 1..Len(msgs) : f[n] = Go(f[n - 1], n)
  <2> TAKE n \in 1..Len(msgs)
  <2>1. f[n - 1] \in Seq(Messages) /\ msgs[n] \in Messages
    BY <1>0, <1>2
  <2> QED
    BY <1>2, <2>1, StepsRight
<1> DEFINE Is(h) == h = [n \in D |-> IF n = 0 THEN <<>> ELSE IF IsTurn(msgs[n]) THEN Append(h[n - 1], msgs[n]) ELSE h[n - 1]]
<1>4. Is(f)
  <2>1. \A n \in D : f[n] = IF n = 0 THEN <<>> ELSE Go(f[n - 1], n)
    <3>1. \A n \in D : n = 0 \/ (n # 0 /\ n \in 1..Len(msgs))
      BY <1>0
    <3>2. f[0] = <<>>
      BY <1>2
    <3> HIDE DEF Go, D
    <3> QED
      BY <3>1, <3>2, <1>3
  <2>2. f = [n \in D |-> f[n]]
    BY <1>2
  <2> QED
    BY <2>1, <2>2
<1> DEFINE u == CHOOSE h : Is(h)
<1>5. Is(u)
  BY <1>4
<1>6. Turns(msgs) = u[Len(msgs)]
  BY DEF Turns
<1> HIDE DEF u
<1>7. u[0] = <<>> /\ \A n \in 1..Len(msgs) : u[n] = Go(u[n - 1], n)
  <2>1. \A n \in D : u[n] = IF n = 0 THEN <<>> ELSE Go(u[n - 1], n)
    BY <1>5
  <2>2. 0 \in D /\ \A n \in 1..Len(msgs) : n \in D /\ n # 0
    BY <1>0
  <2> HIDE DEF Go
  <2> QED
    BY <2>1, <2>2
<1>8. u[Len(msgs)] = f[Len(msgs)]
  <2>1. u[0] = f[0] /\ \A n \in 1..Len(msgs) : u[n - 1] = f[n - 1] => u[n] = f[n]
    BY <1>2, <1>3, <1>7
  <2> HIDE DEF Go
  <2> QED
    BY <1>0, <2>1, SameSoFar
<1> QED
  BY <1>1, <1>6, <1>8, ValueOf

LEMMA ContentsValue ==
    ASSUME NEW msgs \in Seq(Messages)
    PROVE  GeminiContents(msgs) = Value(msgs, SystemStep)
<1> DEFINE D == 0..Len(msgs)
           Go(x, n) == IF msgs[n].role = "system" THEN <<msgs[n]>> \o x ELSE Append(x, msgs[n])
<1>0. Len(msgs) \in Nat /\ Len(msgs) \in D
  OBVIOUS
<1>1. PICK f : Through(f, msgs, SystemStep)
  BY ThroughExists, StepsRight
<1>2. f \in [D -> Seq(Messages)] /\ f[0] = <<>> /\ \A n \in 1..Len(msgs) : f[n] = SystemStep[f[n - 1]][msgs[n]]
  BY <1>1 DEF Through
<1>3. \A n \in 1..Len(msgs) : f[n] = Go(f[n - 1], n)
  <2> TAKE n \in 1..Len(msgs)
  <2>1. f[n - 1] \in Seq(Messages) /\ msgs[n] \in Messages
    BY <1>0, <1>2
  <2> QED
    BY <1>2, <2>1, StepsRight
<1> DEFINE Is(h) == h = [n \in D |-> IF n = 0 THEN <<>> ELSE IF msgs[n].role = "system" THEN <<msgs[n]>> \o h[n - 1] ELSE Append(h[n - 1], msgs[n])]
<1>4. Is(f)
  <2>1. \A n \in D : f[n] = IF n = 0 THEN <<>> ELSE Go(f[n - 1], n)
    <3>1. \A n \in D : n = 0 \/ (n # 0 /\ n \in 1..Len(msgs))
      BY <1>0
    <3>2. f[0] = <<>>
      BY <1>2
    <3> HIDE DEF Go, D
    <3> QED
      BY <3>1, <3>2, <1>3
  <2>2. f = [n \in D |-> f[n]]
    BY <1>2
  <2> QED
    BY <2>1, <2>2
<1> DEFINE u == CHOOSE h : Is(h)
<1>5. Is(u)
  BY <1>4
<1>6. GeminiContents(msgs) = u[Len(msgs)]
  BY DEF GeminiContents
<1> HIDE DEF u
<1>7. u[0] = <<>> /\ \A n \in 1..Len(msgs) : u[n] = Go(u[n - 1], n)
  <2>1. \A n \in D : u[n] = IF n = 0 THEN <<>> ELSE Go(u[n - 1], n)
    BY <1>5
  <2>2. 0 \in D /\ \A n \in 1..Len(msgs) : n \in D /\ n # 0
    BY <1>0
  <2> HIDE DEF Go
  <2> QED
    BY <2>1, <2>2
<1>8. u[Len(msgs)] = f[Len(msgs)]
  <2>1. u[0] = f[0] /\ \A n \in 1..Len(msgs) : u[n - 1] = f[n - 1] => u[n] = f[n]
    BY <1>2, <1>3, <1>7
  <2> HIDE DEF Go
  <2> QED
    BY <1>0, <2>1, SameSoFar
<1> QED
  BY <1>1, <1>6, <1>8, ValueOf

\* The turns of a conversation, message by message ...
LEMMA TurnsRight ==
    /\ Turns(<<>>) = <<>>
    /\ \A s \in Seq(Messages) : Turns(s) \in Seq(Messages)
    /\ \A s \in Seq(Messages), m \in Messages :
          Turns(Append(s, m)) = IF m.role = "system" THEN Turns(s) ELSE Append(Turns(s), m)
<1>1. \A s \in Seq(Messages) : Turns(s) = Value(s, TurnStep) /\ Value(s, TurnStep) \in Seq(Messages)
  BY TurnsValue, ValueRight, StepsRight
<1>2. <<>> \in Seq(Messages) /\ Value(<<>>, TurnStep) = <<>>
  BY ValueRight, StepsRight
<1>3. ASSUME NEW s \in Seq(Messages), NEW m \in Messages
      PROVE  Turns(Append(s, m)) = IF m.role = "system" THEN Turns(s) ELSE Append(Turns(s), m)
  <2>1. Append(s, m) \in Seq(Messages)
    OBVIOUS
  <2>2. Value(Append(s, m), TurnStep) = TurnStep[Value(s, TurnStep)][m]
    BY ValueRight, StepsRight
  <2>3. Turns(Append(s, m)) = TurnStep[Turns(s)][m] /\ Turns(s) \in Seq(Messages)
    BY <1>1, <2>1, <2>2
  <2>4. Turns(Append(s, m)) = IF IsTurn(m) THEN Append(Turns(s), m) ELSE Turns(s)
    BY <2>3, StepsRight
  <2> QED
    BY <2>4 DEF IsTurn
<1> QED
  BY <1>1, <1>2, <1>3

\* ... and its contents.
LEMMA ContentsRight ==
    /\ GeminiContents(<<>>) = <<>>
    /\ \A s \in Seq(Messages) : GeminiContents(s) \in Seq(Messages)
    /\ \A s \in Seq(Messages), m \in Messages :
          GeminiContents(Append(s, m)) =
              IF m.role = "system" THEN <<m>> \o GeminiContents(s) ELSE Append(GeminiContents(s), m)
<1>1. \A s \in Seq(Messages) : GeminiContents(s) = Value(s, SystemStep) /\ Value(s, SystemStep) \in Seq(Messages)
  BY ContentsValue, ValueRight, StepsRight
<1>2. <<>> \in Seq(Messages) /\ Value(<<>>, SystemStep) = <<>>
  BY ValueRight, StepsRight
<1>3. ASSUME NEW s \in Seq(Messages), NEW m \in Messages
      PROVE  GeminiContents(Append(s, m)) =
                 IF m.role = "system" THEN <<m>> \o GeminiContents(s) ELSE Append(GeminiContents(s), m)
  <2>1. Append(s, m) \in Seq(Messages)
    OBVIOUS
  <2>2. Value(Append(s, m), SystemStep) = SystemStep[Value(s, SystemStep)][m]
    BY ValueRight, StepsRight
  <2>3. GeminiContents(Append(s, m)) = SystemStep[GeminiContents(s)][m] /\ GeminiContents(s) \in Seq(Messages)
    BY <1>1, <2>1, <2>2
  <2> QED
    BY <2>3, StepsRight
<1> QED
  BY <1>1, <1>2, <1>3

\* A system message in front makes no difference to the turns.
LEMMA SystemBefore ==
    ASSUME NEW first \in Messages, first.role = "system"
    PROVE  \A s \in Seq(Messages) : Turns(<<first>> \o s) = Turns(s)
<1> DEFINE P == {s \in Seq(Messages) : Turns(<<first>> \o s) = Turns(s)}
<1>1. <<>> \in P
  <2>1. <<first>> \o <<>> = Append(<<>>, first) /\ <<>> \in Seq(Messages)
    OBVIOUS
  <2>2. Turns(Append(<<>>, first)) = Turns(<<>>)
    BY <2>1, TurnsRight
  <2> QED
    BY <2>1, <2>2
<1>2. ASSUME NEW s \in Seq(Messages), NEW m \in Messages, s \in P PROVE Append(s, m) \in P
  <2>1. <<first>> \in Seq(Messages)
    OBVIOUS
  <2>2. <<first>> \o s \in Seq(Messages) /\ Append(s, m) \in Seq(Messages)
    BY <2>1, ConcatProperties
  <2>3. <<first>> \o Append(s, m) = Append(<<first>> \o s, m)
    OBVIOUS
  <2>4. Turns(Append(<<first>> \o s, m)) = IF m.role = "system" THEN Turns(<<first>> \o s) ELSE Append(Turns(<<first>> \o s), m)
    BY <2>2, TurnsRight
  <2>5. Turns(<<first>> \o s) = Turns(s)
    BY <1>2
  <2>6. Turns(Append(s, m)) = IF m.role = "system" THEN Turns(s) ELSE Append(Turns(s), m)
    BY TurnsRight
  <2> QED
    BY <2>2, <2>3, <2>4, <2>5, <2>6
<1>3. \A s \in Seq(Messages) : s \in P
  <2> HIDE DEF P
  <2> QED
    BY <1>1, <1>2, MessageInduction
<1> QED
  BY <1>3

\* The contents have the turns of the conversation.
LEMMA ContentsTurns == \A s \in Seq(Messages) : Turns(GeminiContents(s)) = Turns(s)
<1> DEFINE P == {s \in Seq(Messages) : Turns(GeminiContents(s)) = Turns(s)}
<1>1. <<>> \in P
  BY ContentsRight
<1>2. ASSUME NEW s \in Seq(Messages), NEW m \in Messages, s \in P PROVE Append(s, m) \in P
  <2>1. Append(s, m) \in Seq(Messages) /\ GeminiContents(s) \in Seq(Messages) /\ Turns(GeminiContents(s)) = Turns(s)
    BY <1>2, ContentsRight
  <2>2. Turns(Append(s, m)) = IF m.role = "system" THEN Turns(s) ELSE Append(Turns(s), m)
    BY TurnsRight
  <2>3. CASE m.role = "system"
    <3>1. GeminiContents(Append(s, m)) = <<m>> \o GeminiContents(s)
      BY <2>3, ContentsRight
    <3>2. Turns(<<m>> \o GeminiContents(s)) = Turns(GeminiContents(s))
      BY <2>1, <2>3, SystemBefore
    <3> QED
      BY <2>1, <2>2, <2>3, <3>1, <3>2
  <2>4. CASE m.role # "system"
    <3>1. GeminiContents(Append(s, m)) = Append(GeminiContents(s), m)
      BY <2>4, ContentsRight
    <3>2. Turns(Append(GeminiContents(s), m)) = Append(Turns(GeminiContents(s)), m)
      BY <2>1, <2>4, TurnsRight
    <3> QED
      BY <2>1, <2>2, <2>4, <3>1, <3>2
  <2> QED
    BY <2>3, <2>4
<1>3. \A s \in Seq(Messages) : s \in P
  <2> HIDE DEF P
  <2> QED
    BY <1>1, <1>2, MessageInduction
<1> QED
  BY <1>3

\* In them nothing is before a system message but system messages ...
SystemsFirst(s) == \A i, j \in 1..Len(s) : i < j /\ IsSystem(s[j]) => IsSystem(s[i])

\* ... and every message of the conversation is there.
Has(s, m) == \E i \in 1..Len(s) : s[i] = m

LEMMA ContentsOrder ==
    \A s \in Seq(Messages) :
        /\ SystemsFirst(GeminiContents(s))
        /\ \A i \in 1..Len(s) : Has(GeminiContents(s), s[i])
<1> DEFINE Good(s) == /\ SystemsFirst(GeminiContents(s))
                      /\ \A i \in 1..Len(s) : Has(GeminiContents(s), s[i])
           P == {s \in Seq(Messages) : Good(s)}
<1>1. <<>> \in P
  BY ContentsRight DEF SystemsFirst
<1>2. ASSUME NEW s \in Seq(Messages), NEW m \in Messages, s \in P PROVE Append(s, m) \in P
  <2> DEFINE c == GeminiContents(s)
             d == GeminiContents(Append(s, m))
  <2>1. /\ Append(s, m) \in Seq(Messages) /\ c \in Seq(Messages) /\ Len(c) \in Nat
        /\ SystemsFirst(c) /\ \A i \in 1..Len(s) : Has(c, s[i])
    BY <1>2, ContentsRight
  <2>2. d = IF m.role = "system" THEN <<m>> \o c ELSE Append(c, m)
    BY ContentsRight
  <2> HIDE DEF c, d
  <2>3. SystemsFirst(d) /\ Has(d, m) /\ \A x : Has(c, x) => Has(d, x)
    <3>1. CASE m.role = "system"
      <4>1. Len(d) = Len(c) + 1 /\ d[1] = m /\ \A i \in 1..Len(c) : d[i + 1] = c[i]
        BY <2>1, <2>2, <3>1
      <4>2. \A i \in 1..Len(d) : i = 1 \/ (i - 1 \in 1..Len(c) /\ d[i] = c[i - 1])
        BY <2>1, <4>1
      <4>3. SystemsFirst(d)
        <5> SUFFICES ASSUME NEW i \in 1..Len(d), NEW j \in 1..Len(d), i < j, IsSystem(d[j]) PROVE IsSystem(d[i])
          BY DEF SystemsFirst
        <5>1. CASE i = 1
          BY <3>1, <4>1, <5>1 DEF IsSystem
        <5>2. CASE i # 1
          <6>1. i - 1 \in 1..Len(c) /\ d[i] = c[i - 1] /\ j - 1 \in 1..Len(c) /\ d[j] = c[j - 1] /\ i - 1 < j - 1
            BY <2>1, <4>1, <4>2, <5>2
          <6> QED
            BY <2>1, <6>1 DEF SystemsFirst
        <5> QED
          BY <5>1, <5>2
      <4>4. Has(d, m)
        BY <2>1, <4>1 DEF Has
      <4>5. ASSUME NEW x, Has(c, x) PROVE Has(d, x)
        <5>1. PICK i \in 1..Len(c) : c[i] = x
          BY <4>5 DEF Has
        <5>2. i + 1 \in 1..Len(d) /\ d[i + 1] = x
          BY <2>1, <4>1, <5>1
        <5> QED
          BY <5>2 DEF Has
      <4> QED
        BY <4>3, <4>4, <4>5
    <3>2. CASE m.role # "system"
      <4>1. Len(d) = Len(c) + 1 /\ d[Len(c) + 1] = m /\ \A i \in 1..Len(c) : d[i] = c[i]
        BY <2>1, <2>2, <3>2
      <4>2. SystemsFirst(d)
        <5> SUFFICES ASSUME NEW i \in 1..Len(d), NEW j \in 1..Len(d), i < j, IsSystem(d[j]) PROVE IsSystem(d[i])
          BY DEF SystemsFirst
        <5>1. j # Len(c) + 1
          BY <3>2, <4>1 DEF IsSystem
        <5>2. j \in 1..Len(c) /\ i \in 1..Len(c) /\ d[i] = c[i] /\ d[j] = c[j]
          BY <2>1, <4>1, <5>1
        <5> QED
          BY <2>1, <5>2 DEF SystemsFirst
      <4>3. Has(d, m)
        BY <2>1, <4>1 DEF Has
      <4>4. ASSUME NEW x, Has(c, x) PROVE Has(d, x)
        <5>1. PICK i \in 1..Len(c) : c[i] = x
          BY <4>4 DEF Has
        <5>2. i \in 1..Len(d) /\ d[i] = x
          BY <2>1, <4>1, <5>1
        <5> QED
          BY <5>2 DEF Has
      <4> QED
        BY <4>2, <4>3, <4>4
    <3> QED
      BY <3>1, <3>2
  <2>4. ASSUME NEW i \in 1..Len(Append(s, m)) PROVE Has(d, Append(s, m)[i])
    <3>1. Append(s, m)[i] = m \/ (i \in 1..Len(s) /\ Append(s, m)[i] = s[i])
      OBVIOUS
    <3> QED
      BY <2>1, <2>3, <3>1
  <2> QED
    BY <2>1, <2>3, <2>4 DEF d
<1>3. \A s \in Seq(Messages) : s \in P
  <2> HIDE DEF P
  <2> QED
    BY <1>1, <1>2, MessageInduction
<1> QED
  BY <1>3

\* The user's last message stays the last, one place further.
LEMMA LastUserAfter ==
    ASSUME NEW msgs \in Seq(Messages), NEW first \in Messages, first.role = "system"
    PROVE  LET more == <<first>> \o msgs
           IN  LastUser(more) # 0 => more[LastUser(more)] = msgs[LastUser(msgs)]
<1> DEFINE more == <<first>> \o msgs
           l == LastUser(more)
           k == LastUser(msgs)
<1>1. more \in Seq(Messages)
  <2>1. <<first>> \in Seq(Messages)
    OBVIOUS
  <2> QED
    BY <2>1, ConcatProperties
<1>2. Len(msgs) \in Nat /\ Len(more) = Len(msgs) + 1 /\ more[1] = first /\ \A i \in 1..Len(msgs) : more[i + 1] = msgs[i]
  OBVIOUS
<1> HIDE DEF more
<1> SUFFICES ASSUME l # 0 PROVE more[l] = msgs[k]
  BY DEF more
<1>3. /\ l \in 1..Len(more) /\ more[l].role = "user"
      /\ \A j \in 1..Len(more) : more[j].role = "user" => j <= l
  BY <1>1, <1>2, LastUserRight
<1>4. /\ k \in 0..Len(msgs) /\ (k # 0 => msgs[k].role = "user")
      /\ \A j \in 1..Len(msgs) : msgs[j].role = "user" => j <= k
      /\ k = 0 => \A j \in 1..Len(msgs) : msgs[j].role # "user"
  BY LastUserRight
<1> HIDE DEF l, k
<1>5. l # 1 /\ l - 1 \in 1..Len(msgs) /\ more[l] = msgs[l - 1]
  <2>1. l # 1
    BY <1>2, <1>3
  <2>2. l - 1 \in 1..Len(msgs) /\ (l - 1) + 1 = l
    BY <1>2, <1>3, <2>1
  <2> QED
    BY <1>2, <2>1, <2>2
<1>6. l - 1 <= k /\ k \in 1..Len(msgs)
  BY <1>2, <1>3, <1>4, <1>5
<1>7. k + 1 <= l
  <2>1. k + 1 \in 1..Len(more) /\ more[k + 1] = msgs[k] /\ msgs[k].role = "user"
    BY <1>2, <1>4, <1>6
  <2> QED
    BY <1>3, <2>1
<1>8. l - 1 = k
  BY <1>2, <1>3, <1>6, <1>7
<1> QED
  BY <1>5, <1>8

\* kiro's history of a dialogue behind k system messages: all of it or nothing.
LEMMA DialogueHistory ==
    ASSUME NEW msgs \in Seq(Messages), NEW k \in 0..Len(msgs), Dialogue(msgs, k)
    PROVE  DOMAIN KiroHistory(msgs) = IF k % 2 = 1 THEN {} ELSE {i \in k + 1..Len(msgs) - 1 : i % 2 = 1}
<1>1. /\ Len(msgs) \in Nat /\ k \in Nat /\ k <= Len(msgs) /\ (Len(msgs) - k) % 2 = 1
      /\ \A i \in 1..Len(msgs) :
            msgs[i].role = IF i <= k THEN "system" ELSE IF (i - k) % 2 = 1 THEN "user" ELSE "assistant"
  BY DEF Dialogue
<1>2. LastUser(msgs) = Len(msgs) /\ k < Len(msgs)
  <2>1. k # Len(msgs)
    BY <1>1
  <2>2. Len(msgs) \in 1..Len(msgs) /\ msgs[Len(msgs)].role = "user"
    BY <1>1, <2>1
  <2> QED
    BY <1>1, <2>1, <2>2, LastUserRight
<1> DEFINE pair(i) == i % 2 = 1 /\ msgs[i].role = "user" /\ msgs[i + 1].role = "assistant"
<1>3. DOMAIN KiroHistory(msgs) = {i \in 1..Len(msgs) - 2 : pair(i)}
  BY <1>2 DEF KiroHistory
<1>4. ASSUME NEW i \in 1..Len(msgs) - 2, pair(i)
      PROVE  k % 2 = 0 /\ i \in k + 1..Len(msgs) - 1 /\ i % 2 = 1
  <2>1. i \in 1..Len(msgs) /\ i > k /\ (i - k) % 2 = 1 /\ i % 2 = 1
    BY <1>1, <1>4
  <2>2. i \in Nat /\ i \in k + 1..Len(msgs) - 1
    BY <1>1, <2>1
  <2>3. k % 2 = 0
    <3>1. PICK a \in Int : a = i - k
      BY <1>1, <2>2
    <3>2. a % 2 = 1 /\ k = i - a
      BY <1>1, <2>1, <2>2, <3>1
    <3> QED
      BY <2>1, <2>2, <3>2
  <2> QED
    BY <2>1, <2>2, <2>3
<1>5. ASSUME k % 2 # 1, NEW i \in k + 1..Len(msgs) - 1, i % 2 = 1
      PROVE  i \in 1..Len(msgs) - 2 /\ pair(i)
  <2>1. (i - k) % 2 = 1 /\ (i + 1 - k) % 2 # 1
    BY <1>1, <1>5
  <2>2. i # Len(msgs) - 1
    BY <1>1, <1>5, <2>1
  <2>3. i \in 1..Len(msgs) /\ i + 1 \in 1..Len(msgs) /\ i \in 1..Len(msgs) - 2 /\ ~(i <= k) /\ ~(i + 1 <= k)
    BY <1>1, <1>5, <2>2
  <2> QED
    BY <1>1, <1>5, <2>1, <2>3
<1> HIDE DEF pair
<1>6. CASE k % 2 = 1
  BY <1>3, <1>4, <1>6
<1>7. CASE k % 2 # 1
  <2>1. {i \in 1..Len(msgs) - 2 : pair(i)} = {i \in k + 1..Len(msgs) - 1 : i % 2 = 1}
    BY <1>4, <1>5, <1>7
  <2> QED
    BY <1>3, <1>7, <2>1
<1> QED
  BY <1>6, <1>7

\* A system message before a dialogue is one more of those before it.
LEMMA DialogueAfter ==
    ASSUME NEW msgs \in Seq(Messages), NEW first \in Messages, first.role = "system",
           NEW k \in 0..Len(msgs), Dialogue(msgs, k)
    PROVE  /\ <<first>> \o msgs \in Seq(Messages) /\ Len(<<first>> \o msgs) = Len(msgs) + 1
           /\ Dialogue(<<first>> \o msgs, k + 1)
<1> DEFINE more == <<first>> \o msgs
<1>1. more \in Seq(Messages) /\ Len(more) = Len(msgs) + 1 /\ Len(msgs) \in Nat
  OBVIOUS
<1>2. more[1] = first /\ \A i \in 2..Len(more) : more[i] = msgs[i - 1]
  OBVIOUS
<1> HIDE DEF more
<1>3. ASSUME NEW i \in 1..Len(more)
      PROVE  more[i].role = IF i <= k + 1 THEN "system" ELSE IF (i - (k + 1)) % 2 = 1 THEN "user" ELSE "assistant"
  <2>1. CASE i = 1
    BY <1>1, <1>2, <2>1
  <2>2. CASE i # 1
    <3>1. i - 1 \in 1..Len(msgs) /\ more[i] = msgs[i - 1]
      BY <1>1, <1>2, <2>2
    <3>2. (i - 1) - k = i - (k + 1) /\ (i - 1 <= k <=> i <= k + 1)
      BY <1>1
    <3> QED
      BY <3>1, <3>2 DEF Dialogue
  <2> QED
    BY <2>1, <2>2
<1>4. (Len(more) - (k + 1)) % 2 = 1
  <2>1. Len(more) - (k + 1) = Len(msgs) - k
    BY <1>1
  <2> QED
    BY <2>1 DEF Dialogue
<1>5. Dialogue(more, k + 1)
  BY <1>3, <1>4 DEF Dialogue
<1> QED
  BY <1>1, <1>5 DEF more

-----------------------------------------------------------------------------
(* What follows. *)

\* Every variable has its type: a call has never stored more points than it
\* made, never made more than it has chunks, and never holds back more than a
\* batch of them.
THEOREM TypeCorrect == Spec => []TypeOK
<1> QED
  BY InvImplies, MemoryInvariant, PTL

\* Upsert, UpsertBatch: whatever fails, is lost or comes between, what is in
\* memory of a call is what it counts, from the first point without a gap.
THEOREM BatchesAreKept == Spec => []BatchesKept
<1> QED
  BY InvImplies, MemoryInvariant, PTL

\* The indexer's Run: when it says it is done, every chunk of every file it
\* indexed is in memory.
THEOREM RunsAreComplete == Spec => []IndexComplete
<1>1. MemoryInv => IndexComplete
  <2> SUFFICES ASSUME MemoryInv, NEW c \in Calls, pc[c] = "done", job[c].op = "index", ~dropped[c]
               PROVE  Stored(c) = 1..total[c]
    BY DEF IndexComplete
  <2>1. Kept(c) /\ DoneRight(c)
    BY DEF MemoryInv, Right
  <2> QED
    BY <2>1 DEF Kept, DoneRight
<1> QED
  BY <1>1, MemoryInvariant, PTL

\* EnrichContext, messagesToGeminiContents, buildKiroRequest: of any conversation
\* a Gemini-shaped request has every turn, in order; kiro's has the question, and
\* of the turns of a dialogue before it all or none, as the number of system
\* messages in front is even or odd.
THEOREM TurnsThatArrive == Spec => []TurnsArrive
<1>1. MemoryInv => TurnsArrive
  <2> SUFFICES ASSUME MemoryInv, NEW c \in Calls PROVE GeminiKeeps(c) /\ KiroKeeps(c)
    BY DEF TurnsArrive
  <2> DEFINE msgs == job[c].msgs
             contents == GeminiContents(sent[c])
  <2>1. SentRight(c) /\ sent[c] \in Seq(Messages)
    BY DEF MemoryInv, Right, Types
  <2>2. msgs \in Seq(Messages) /\ (pc[c] # "idle" /\ job[c].op = "enrich" => LastUser(msgs) # 0)
    <3>1. CASE pc[c] = "idle"
      <4>1. job[c] = NoJob
        BY <3>1 DEF MemoryInv, Right, ShapeRight
      <4>2. msgs = <<>>
        <5>1. NoJob.msgs = <<>>
          BY DEF NoJob
        <5> QED
          BY <4>1, <5>1
      <4>3. <<>> \in Seq(Messages)
        OBVIOUS
      <4> HIDE DEF msgs
      <4> QED
        BY <3>1, <4>2, <4>3
    <3>2. CASE pc[c] # "idle"
      BY <3>2, JobRight DEF Job
    <3> QED
      BY <3>1, <3>2
  <2>3. SystemsFirst(contents) /\ Turns(contents) = Turns(sent[c])
    BY <2>1, ContentsOrder, ContentsTurns
  <2>4. CASE sent[c] = msgs /\ found[c] = {}
    <3>1. GeminiKeeps(c)
      BY <2>3, <2>4 DEF GeminiKeeps, SystemsFirst
    <3>2. ASSUME NEW k \in 0..Len(msgs), Dialogue(msgs, k)
          PROVE  DOMAIN KiroHistory(sent[c]) =
                     IF (k + Len(sent[c]) - Len(msgs)) % 2 = 1 THEN {}
                     ELSE {i \in (k + Len(sent[c]) - Len(msgs)) + 1..Len(sent[c]) - 1 : i % 2 = 1}
      <4>1. k + Len(sent[c]) - Len(msgs) = k
        BY <2>2, <2>4
      <4> QED
        BY <2>2, <2>4, <3>2, <4>1, DialogueHistory
    <3>3. KiroKeeps(c)
      BY <2>4, <3>2 DEF KiroKeeps
    <3> QED
      BY <3>1, <3>3
  <2>5. CASE job[c].op = "enrich" /\ pc[c] = "done" /\ found[c] # {} /\ sent[c] = WithContext(msgs, {"context"})
    <3>1. PICK first \in Messages :
              sent[c] = <<first>> \o msgs /\ first.role = "system" /\ "context" \in first.texts
      BY <2>2, <2>5, ContextRight
    <3>2. Turns(contents) = Turns(msgs)
      BY <2>2, <2>3, <3>1, SystemBefore
    <3>3. \E i \in 1..Len(contents) : "context" \in contents[i].texts
      <4>1. 1 \in 1..Len(sent[c]) /\ sent[c][1] = first
        BY <2>2, <3>1
      <4>2. Has(contents, first)
        BY <2>1, <4>1, ContentsOrder
      <4> QED
        BY <3>1, <4>2 DEF Has
    <3>4. GeminiKeeps(c)
      BY <2>3, <3>2, <3>3 DEF GeminiKeeps, SystemsFirst
    <3>5. LastUser(sent[c]) # 0 => sent[c][LastUser(sent[c])] = msgs[LastUser(msgs)]
      BY <2>2, <3>1, LastUserAfter
    <3>6. ASSUME NEW k \in 0..Len(msgs), Dialogue(msgs, k)
          PROVE  DOMAIN KiroHistory(sent[c]) =
                     IF (k + Len(sent[c]) - Len(msgs)) % 2 = 1 THEN {}
                     ELSE {i \in (k + Len(sent[c]) - Len(msgs)) + 1..Len(sent[c]) - 1 : i % 2 = 1}
      <4>1. /\ sent[c] \in Seq(Messages) /\ Len(sent[c]) = Len(msgs) + 1
            /\ Dialogue(sent[c], k + 1)
        BY <2>2, <3>1, <3>6, DialogueAfter
      <4>2. k + Len(sent[c]) - Len(msgs) = k + 1 /\ k + 1 \in 0..Len(sent[c])
        BY <2>2, <4>1
      <4> QED
        BY <4>1, <4>2, DialogueHistory
    <3>7. KiroKeeps(c)
      BY <3>5, <3>6 DEF KiroKeeps
    <3> QED
      BY <3>4, <3>7
  <2> QED
    BY <2>1, <2>4, <2>5 DEF SentRight
<1> QED
  BY <1>1, MemoryInvariant, PTL

\* chunkText: for any size of chunk and of overlap, the chunks of any text
\* cover it, in order and without a gap.
THEOREM ChunksCoverTexts == Spec => []ChunksCover
<1>1. ChunksCover
  <2>1. ASSUME NEW lines \in Texts PROVE CoverText(lines, ChunkText(lines))
    <3>1. lines \in Seq(Nat) /\ lines # <<>>
      BY MemoryAssumption
    <3> QED
      BY <3>1, ChunksRight
  <2> QED
    BY <2>1 DEF ChunksCover
<1> QED
  BY <1>1, PTL
=============================================================================
