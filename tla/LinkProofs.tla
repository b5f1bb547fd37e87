----------------------------- MODULE LinkProofs -----------------------------
(* Proofs about Link, for every list of commands, capacity and number of     *)
(* failures: its types, that damage is confined, and that it implements      *)
(* Channel.                                                                  *)
(*                                                                           *)
(* All that is on its way to uart4_rx is one stream of cells: what it has    *)
(* collected, the wire, and the socket. Its first b cells have been written  *)
(* to the UART, and that is where the bridge inserts and the failures cut.   *)
(* The invariant speaks of the stream alone, so that each action need only   *)
(* be shown to drop, cut off, insert or append cells.                        *)
EXTENDS Link, LoopProofs, FiniteSetTheorems

-----------------------------------------------------------------------------
(* Frames and their cells *)

IsCommand(c) == c[1] > 0

\* Frame f is in stream S, behind its first p cells.
Whole(S, p, f) ==
  /\ p + BodyLen(f) < Len(S)
  /\ \A q \in p + 1 .. p + BodyLen(f) : S[q] = <<f, q - p>>
  /\ S[p + BodyLen(f) + 1] = <<f, 0>>

\* A decoder that has dealt with p cells of S starts with a new frame, or will
\* if nothing more is written before the rest of S.
Begins(S, b, p) == p \in {0, b} \/ IsZero(S[p])

\* Frame f is in stream S and will be decoded.
Stands(S, b, p, f) ==
  /\ p \in 0 .. Len(S) /\ f \in Frames
  /\ BodyLen(f) <= CmdBufCap /\ Begins(S, b, p) /\ Whole(S, p, f)

\* The zero bytes of S that close something else than a frame.
Strays(S, b) ==
  {z \in 2 .. Len(S) : /\ IsZero(S[z]) /\ ~IsZero(S[z - 1])
                       /\ ~Stands(S, b, z - 1 - BodyLen(S[z][1]), S[z][1])}

\* The frames of the handshake are no commands, and every frame has a body.
LEMMA FrameTypes ==
  /\ DOMAIN Lengths = 1 .. Len(Lengths) /\ Len(Lengths) \in Nat
  /\ Frames \subseteq Int
  /\ Hello \in Frames /\ HelloAck \in Frames
  /\ \A f \in Frames : BodyLen(f) \in Nat /\ BodyLen(f) >= 1
  /\ \A f \in Frames : f > 0 <=> f \in DOMAIN Lengths
  /\ \A f \in Frames : f \in {Hello, HelloAck} => BodyLen(f) = 1
<1>1. /\ DOMAIN Lengths = 1 .. Len(Lengths) /\ Len(Lengths) \in Nat
      /\ \A i \in 1 .. Len(Lengths) : Lengths[i] \in Nat \ {0}
  BY LinkAssumption, LenProperties, ElementOfSeq
<1> QED
  BY <1>1 DEF Frames, BodyLen, Hello, HelloAck

\* Those of the handshake fit cmd_buf.
LEMMA HandshakeFits ==
  /\ CmdBufCap \in Nat
  /\ Hello \in Frames /\ BodyLen(Hello) = 1 /\ BodyLen(Hello) <= CmdBufCap
  /\ HelloAck \in Frames /\ BodyLen(HelloAck) = 1 /\ BodyLen(HelloAck) <= CmdBufCap
<1>1. CmdBufCap \in Nat \ {0}
  BY LinkAssumption
<1>2. BodyLen(Hello) = 1 /\ BodyLen(HelloAck) = 1
  BY DEF BodyLen, Hello, HelloAck
<1> QED
  BY <1>1, <1>2, FrameTypes

\* A cell is a number and a place in the frame of that number.
LEMMA CellTypes ==
  ASSUME NEW c \in Cells
  PROVE  /\ c = <<c[1], c[2]>>
         /\ c[1] \in Frames /\ c[2] \in 0 .. BodyLen(c[1])
         /\ c[1] \in Int /\ c[2] \in Nat
<1>1. PICK f \in Frames : c \in {<<f, i>> : i \in 0..BodyLen(f)}
  BY DEF Cells
<1>2. PICK i \in 0..BodyLen(f) : c = <<f, i>>
  BY <1>1
<1>3. c[1] = f /\ c[2] = i
  BY <1>2
<1> QED
  BY <1>2, <1>3, FrameTypes

\* Every byte of a frame is a cell.
LEMMA CellsOf ==
  ASSUME NEW f \in Frames, NEW i \in 0..BodyLen(f)
  PROVE  <<f, i>> \in Cells
BY DEF Cells

\* A frame as a sequence.
LEMMA FrameCells ==
  ASSUME NEW f \in Frames
  PROVE  /\ Body(f) \in Seq(Cells) /\ Len(Body(f)) = BodyLen(f)
         /\ \A i \in 1..BodyLen(f) : Body(f)[i] = <<f, i>>
         /\ Frame(f) \in Seq(Cells) /\ Len(Frame(f)) = BodyLen(f) + 1
         /\ \A i \in 1..BodyLen(f) : Frame(f)[i] = <<f, i>>
         /\ Frame(f)[BodyLen(f) + 1] = <<f, 0>>
<1>1. BodyLen(f) \in Nat
  BY FrameTypes
<1>2. Body(f) \in [1..BodyLen(f) -> Cells]
  BY <1>1, CellsOf DEF Body
<1>3. Body(f) \in Seq(Cells)
  BY <1>1, <1>2, SeqDef
<1>4. Len(Body(f)) = BodyLen(f) /\ \A i \in 1..BodyLen(f) : Body(f)[i] = <<f, i>>
  BY <1>1, <1>3, LenProperties DEF Body
<1>5. <<f, 0>> \in Cells
  BY <1>1, CellsOf
<1> QED
  BY <1>1, <1>3, <1>4, <1>5, AppendProperties DEF Frame

-----------------------------------------------------------------------------
(* What becomes of a frame and of the zeros when the stream is dropped from, *)
(* cut off, appended to, or when the bridge inserts a frame in it.           *)

\* S without its first n cells; T is cut off after n; T goes on after S.
Drops(S, T, n) == Len(T) = Len(S) - n /\ \A z \in 1 .. Len(T) : T[z] = S[z + n]
Keeps(S, T, n) == n <= Len(T) /\ \A z \in 1 .. n : T[z] = S[z]

\* Behind the first b cells of S, T has a frame of the handshake.
Inserts(S, T, b) ==
  /\ Len(T) = Len(S) + 2
  /\ \A z \in 1 .. b : T[z] = S[z]
  /\ T[b + 1] = <<HelloAck, 1>> /\ T[b + 2] = <<HelloAck, 0>>
  /\ \A z \in b + 1 .. Len(S) : T[z + 2] = S[z]

\* A frame behind the first n cells still stands when they are gone.
LEMMA StandsDropped ==
  ASSUME NEW S \in Seq(Cells), NEW T \in Seq(Cells), NEW b \in Nat, NEW n \in 0 .. b,
         Drops(S, T, n), NEW p \in Nat, p >= n, NEW f, Stands(S, b, p, f)
  PROVE  Stands(T, b - n, p - n, f)
<1>1. Len(S) \in Nat /\ Len(T) \in Nat /\ BodyLen(f) \in Nat
  BY LenProperties, FrameTypes DEF Stands
<1>2. \A z \in 1 .. Len(S) : z > n => T[z - n] = S[z]
  <2> SUFFICES ASSUME NEW z \in 1 .. Len(S), z > n PROVE T[z - n] = S[z]
    OBVIOUS
  <2>1. z - n \in 1 .. Len(T) /\ z - n + n = z
    BY <1>1 DEF Drops
  <2> QED
    BY <2>1 DEF Drops
<1>3. Begins(T, b - n, p - n)
  <2>1. CASE p = n \/ p = b
    BY <2>1 DEF Begins
  <2>2. CASE p > n /\ IsZero(S[p])
    BY <1>1, <1>2, <2>2 DEF Begins, Stands
  <2> QED
    BY <2>1, <2>2 DEF Stands, Begins
<1>4. Whole(T, p - n, f)
  <2>1. p + BodyLen(f) < Len(S) /\ p - n + BodyLen(f) < Len(T)
    BY <1>1 DEF Stands, Whole, Drops
  <2>2. ASSUME NEW q \in p - n + 1 .. p - n + BodyLen(f)
        PROVE  T[q] = <<f, q - (p - n)>>
    <3>1. q \in 1 .. Len(T) /\ q + n \in p + 1 .. p + BodyLen(f) /\ q + n - p = q - (p - n)
      BY <1>1, <2>1
    <3> QED
      BY <3>1 DEF Stands, Whole, Drops
  <2>3. T[p - n + BodyLen(f) + 1] = <<f, 0>>
    <3>1. p - n + BodyLen(f) + 1 \in 1 .. Len(T)
           /\ p - n + BodyLen(f) + 1 + n = p + BodyLen(f) + 1
      BY <1>1, <2>1
    <3> QED
      BY <3>1 DEF Stands, Whole, Drops
  <2> QED
    BY <2>1, <2>2, <2>3 DEF Whole
<1> QED
  BY <1>1, <1>3, <1>4 DEF Stands, Drops

\* A frame that ends within the first n cells stands in any stream with these.
LEMMA StandsKept ==
  ASSUME NEW S \in Seq(Cells), NEW T \in Seq(Cells), NEW b \in Nat, NEW d \in Nat,
         NEW n \in 0 .. Len(S), Keeps(S, T, n),
         NEW p \in Nat, NEW f, Stands(S, b, p, f), p + BodyLen(f) < n,
         p = b => d = b \/ b = 0 \/ IsZero(S[b])
  PROVE  Stands(T, d, p, f)
<1>1. Len(S) \in Nat /\ Len(T) \in Nat /\ BodyLen(f) \in Nat /\ BodyLen(f) >= 1
  BY LenProperties, FrameTypes DEF Stands
<1>2. Begins(T, d, p)
  BY <1>1 DEF Stands, Begins, Keeps
<1>3. Whole(T, p, f)
  <2>1. p + BodyLen(f) < Len(T)
    BY <1>1 DEF Keeps
  <2>2. ASSUME NEW q \in p + 1 .. p + BodyLen(f)
        PROVE  T[q] = <<f, q - p>>
    <3>1. q \in 1 .. n
      BY <1>1
    <3> QED
      BY <3>1 DEF Stands, Whole, Keeps
  <2>3. T[p + BodyLen(f) + 1] = <<f, 0>>
    <3>1. p + BodyLen(f) + 1 \in 1 .. n
      BY <1>1
    <3> QED
      BY <3>1 DEF Stands, Whole, Keeps
  <2> QED
    BY <2>1, <2>2, <2>3 DEF Whole
<1> QED
  BY <1>1, <1>2, <1>3 DEF Stands, Keeps

\* A frame that ends before the place of insertion still stands.
LEMMA StandsBefore ==
  ASSUME NEW S \in Seq(Cells), NEW T \in Seq(Cells), NEW b \in 0 .. Len(S), Inserts(S, T, b),
         NEW p \in Nat, NEW f, Stands(S, b, p, f), p + BodyLen(f) < b
  PROVE  Stands(T, b + 2, p, f)
<1>1. Len(S) \in Nat /\ Len(T) \in Nat /\ BodyLen(f) \in Nat /\ BodyLen(f) >= 1
  BY LenProperties, FrameTypes DEF Stands
<1>2. Keeps(S, T, b)
  BY <1>1 DEF Inserts, Keeps
<1> QED
  BY <1>1, <1>2, StandsKept

\* So does one that begins behind it, two cells on.
LEMMA StandsBehind ==
  ASSUME NEW S \in Seq(Cells), NEW T \in Seq(Cells), NEW b \in 0 .. Len(S), Inserts(S, T, b),
         NEW p \in Nat, NEW f, Stands(S, b, p, f), p >= b
  PROVE  Stands(T, b + 2, p + 2, f)
<1>1. Len(S) \in Nat /\ Len(T) \in Nat /\ BodyLen(f) \in Nat
  BY LenProperties, FrameTypes DEF Stands
<1>2. \A z \in 1 .. Len(S) : z > b => T[z + 2] = S[z]
  BY <1>1 DEF Inserts
<1>3. Begins(T, b + 2, p + 2)
  BY <1>1, <1>2 DEF Stands, Begins
<1>4. Whole(T, p + 2, f)
  <2>1. p + BodyLen(f) < Len(S) /\ p + 2 + BodyLen(f) < Len(T)
    BY <1>1 DEF Stands, Whole, Inserts
  <2>2. ASSUME NEW q \in p + 2 + 1 .. p + 2 + BodyLen(f)
        PROVE  T[q] = <<f, q - (p + 2)>>
    <3>1. q - 2 \in b + 1 .. Len(S) /\ q - 2 \in p + 1 .. p + BodyLen(f)
           /\ q - 2 - p = q - (p + 2) /\ q - 2 + 2 = q
      BY <1>1, <2>1
    <3> QED
      BY <3>1 DEF Stands, Whole, Inserts
  <2>3. T[p + 2 + BodyLen(f) + 1] = <<f, 0>>
    <3>1. p + BodyLen(f) + 1 \in b + 1 .. Len(S)
           /\ p + 2 + BodyLen(f) + 1 = p + BodyLen(f) + 1 + 2
      BY <1>1, <2>1
    <3> QED
      BY <3>1 DEF Stands, Whole, Inserts
  <2> QED
    BY <2>1, <2>2, <2>3 DEF Whole
<1> QED
  BY <1>1, <1>3, <1>4 DEF Stands, Inserts

-----------------------------------------------------------------------------
(* Counting the zeros that close no frame.                                   *)

\* All of A but what is in E has a place of its own in B.
LEMMA Recount ==
  ASSUME NEW A, NEW B, IsFiniteSet(B), NEW E, IsFiniteSet(E), NEW h,
         \A z \in A \ E : h[z] \in B,
         \A y, z \in A \ E : h[y] = h[z] => y = z
  PROVE  Cardinality(A) \in Nat /\ Cardinality(A) <= Cardinality(B) + Cardinality(E)
<1> DEFINE g == [z \in A \ E |-> h[z]]
<1>1. g \in Injection(A \ E, B)
  BY DEF Injection, IsInjective
<1>2. IsFiniteSet(A \ E) /\ Cardinality(A \ E) <= Cardinality(B)
  <2> HIDE DEF g
  <2> QED
    BY <1>1, FS_Injection
<1>3. /\ IsFiniteSet((A \ E) \cup E)
      /\ Cardinality((A \ E) \cup E)
           = Cardinality(A \ E) + Cardinality(E) - Cardinality((A \ E) \cap E)
  BY <1>2, FS_Union
<1>4. A \in SUBSET ((A \ E) \cup E) /\ (A \ E) \cap E = {}
  OBVIOUS
<1>5. IsFiniteSet(A) /\ Cardinality(A) <= Cardinality((A \ E) \cup E)
  BY <1>3, <1>4, FS_Subset
<1>6. /\ Cardinality(A) \in Nat /\ Cardinality(E) \in Nat
      /\ Cardinality(A \ E) \in Nat /\ Cardinality(B) \in Nat
  BY <1>2, <1>5, FS_CardinalityType
<1>7. Cardinality((A \ E) \cap E) = 0
  BY <1>4, FS_EmptySet
<1> QED
  BY <1>2, <1>3, <1>5, <1>6, <1>7

\* The case of sets that grow by a few elements.
LEMMA Regrown ==
  ASSUME NEW A, NEW B, IsFiniteSet(B), NEW E, IsFiniteSet(E), A \subseteq B \cup E
  PROVE  Cardinality(A) \in Nat /\ Cardinality(A) <= Cardinality(B) + Cardinality(E)
<1> DEFINE h == [z \in A |-> z]
<1>1. \A z \in A : h[z] = z
  OBVIOUS
<1> HIDE DEF h
<1>2. \A z \in A \ E : h[z] \in B
  BY <1>1
<1>3. \A y, z \in A \ E : h[y] = h[z] => y = z
  BY <1>1
<1> QED
  BY <1>2, <1>3, Recount

\* One or two elements, or those that agree on everything.
LEMMA Few ==
  /\ IsFiniteSet({}) /\ Cardinality({}) = 0
  /\ \A x : IsFiniteSet({x}) /\ Cardinality({x}) = 1
  /\ \A x, y : IsFiniteSet({x, y}) /\ Cardinality({x, y}) <= 2 /\ Cardinality({x, y}) \in Nat
<1>1. ASSUME NEW x, NEW y
      PROVE  IsFiniteSet({x, y}) /\ Cardinality({x, y}) <= 2 /\ Cardinality({x, y}) \in Nat
  <2>1. IsFiniteSet({x}) /\ Cardinality({x}) = 1
    BY FS_Singleton
  <2>2. {x, y} = {x} \cup {y}
    OBVIOUS
  <2> QED
    BY <2>1, <2>2, FS_AddElement
<1> QED
  BY <1>1, FS_EmptySet, FS_Singleton

\* There are finitely many zeros to count.
LEMMA StraysFinite ==
  ASSUME NEW S \in Seq(Cells), NEW b
  PROVE  IsFiniteSet(Strays(S, b)) /\ Cardinality(Strays(S, b)) \in Nat
<1>1. Len(S) \in Nat /\ Strays(S, b) \in SUBSET (2 .. Len(S))
  BY LenProperties DEF Strays
<1>2. IsFiniteSet(2 .. Len(S))
  BY <1>1, FS_Interval
<1> QED
  BY <1>1, <1>2, FS_Subset, FS_CardinalityType

\* A stray zero of what is left of S was one in S, unless its frame was cut.
LEMMA StraysDropped ==
  ASSUME NEW S \in Seq(Cells), NEW T \in Seq(Cells), NEW b \in Nat, NEW n \in 0 .. b,
         Drops(S, T, n), NEW z \in Strays(T, b - n)
  PROVE  \/ z + n \in Strays(S, b)
         \/ \E p \in 0 .. n - 1, f \in Frames : Stands(S, b, p, f) /\ z + n = p + BodyLen(f) + 1
<1> DEFINE y == z + n
           f == S[y][1]
           p == y - 1 - BodyLen(f)
<1>1. /\ z \in 2 .. Len(T) /\ Len(S) \in Nat /\ Len(T) \in Nat /\ Len(T) = Len(S) - n
      /\ IsZero(T[z]) /\ ~IsZero(T[z - 1])
      /\ ~Stands(T, b - n, z - 1 - BodyLen(T[z][1]), T[z][1])
  BY LenProperties DEF Strays, Drops
<1>2. T[z] = S[y] /\ T[z - 1] = S[y - 1] /\ y \in 2 .. Len(S) /\ y = z + n
  <2>1. z \in Int /\ n \in Int /\ z - 1 + n = y - 1
    BY <1>1
  <2>2. z - 1 \in 1 .. Len(T) /\ z \in 1 .. Len(T) /\ y \in 2 .. Len(S)
    BY <1>1, <2>1
  <2>3. T[z] = S[y]
    BY <2>2 DEF Drops
  <2> QED
    BY <2>1, <2>2, <2>3 DEF Drops
<1>3. S[y] \in Cells
  <2>1. y \in 1 .. Len(S)
    BY <1>2
  <2> QED
    BY <2>1, ElementOfSeq
<1>4. f \in Frames /\ BodyLen(f) \in Nat
  BY <1>3, CellTypes, FrameTypes
<1> HIDE DEF y
<1>5. CASE ~Stands(S, b, p, f)
  BY <1>1, <1>2, <1>5 DEF Strays
<1>6. CASE Stands(S, b, p, f) /\ p >= n
  <2>1. p \in Nat /\ p - n = z - 1 - BodyLen(f)
    <3>1. y \in Int /\ z \in Int /\ n \in Nat /\ y = z + n /\ p >= n
      BY <1>1, <1>2, <1>6
    <3> HIDE DEF y, f
    <3> QED
      BY <1>4, <3>1
  <2> HIDE DEF p
  <2>2. Stands(T, b - n, p - n, f)
    BY <1>6, <2>1, StandsDropped
  <2> QED
    BY <1>1, <1>2, <2>1, <2>2
<1>7. CASE Stands(S, b, p, f) /\ p < n
  <2>1. p \in 0 .. n - 1 /\ z + n = p + BodyLen(f) + 1
    BY <1>1, <1>2, <1>4, <1>7, SMTT(30) DEF Stands
  <2> HIDE DEF p, f
  <2> QED
    BY <1>4, <1>7, <2>1
<1>8. p \in Int
  BY <1>2, <1>4
<1> QED
  BY <1>5, <1>6, <1>7, <1>8

\* A stray zero in a part of T that S has too was one in S.
LEMMA StraysKept ==
  ASSUME NEW S \in Seq(Cells), NEW T \in Seq(Cells), NEW b \in Nat, NEW d \in Nat,
         NEW n \in 0 .. Len(S), Keeps(S, T, n),
         NEW z \in Strays(T, d), z <= n,
         \A f \in Frames : Stands(S, b, b, f) /\ z = b + BodyLen(f) + 1
                             => d = b \/ b = 0 \/ IsZero(S[b])
  PROVE  z \in Strays(S, b)
<1> DEFINE f == S[z][1]
           p == z - 1 - BodyLen(f)
<1>1. z \in 2 .. Len(T) /\ Len(S) \in Nat /\ Len(T) \in Nat /\ z \in 2 .. Len(S)
  BY LenProperties DEF Strays
<1>2. T[z] = S[z] /\ T[z - 1] = S[z - 1]
  BY <1>1 DEF Keeps
<1>3. f \in Frames /\ BodyLen(f) \in Nat
  <2>1. S[z] \in Cells
    BY <1>1, ElementOfSeq
  <2> QED
    BY <2>1, CellTypes, FrameTypes
<1>4. ~Stands(T, d, p, f)
  BY <1>2 DEF Strays
<1>5. ASSUME Stands(S, b, p, f) PROVE FALSE
  <2>1. p \in Nat /\ z = p + BodyLen(f) + 1 /\ p + BodyLen(f) < n
    BY <1>1, <1>3, <1>5 DEF Stands
  <2> HIDE DEF p, f
  <2>2. p = b => d = b \/ b = 0 \/ IsZero(S[b])
    BY <1>3, <1>5, <2>1
  <2> QED
    BY <1>4, <1>5, <2>1, <2>2, StandsKept
<1> QED
  BY <1>1, <1>2, <1>5 DEF Strays

\* At most one frame lies across a place in the stream.
LEMMA OneAcross ==
  ASSUME NEW S \in Seq(Cells), NEW b \in Nat, NEW n \in Nat,
         NEW p \in 0 .. n - 1, NEW f \in Frames, Stands(S, b, p, f), p + BodyLen(f) >= n,
         NEW q \in 0 .. n - 1, NEW g \in Frames, Stands(S, b, q, g), q + BodyLen(g) >= n
  PROVE  p + BodyLen(f) + 1 = q + BodyLen(g) + 1
<1>1. BodyLen(f) \in Nat /\ BodyLen(g) \in Nat
  BY FrameTypes
<1>2. ASSUME NEW i \in 0 .. n - 1, NEW d \in Frames, Stands(S, b, i, d), BodyLen(d) \in Nat,
             NEW j \in 0 .. n - 1, NEW e \in Frames, Stands(S, b, j, e), BodyLen(e) \in Nat,
             i + BodyLen(d) >= n, i + BodyLen(d) < j + BodyLen(e)
      PROVE  FALSE
  <2> DEFINE z == i + BodyLen(d) + 1
  <2>1. z \in j + 1 .. j + BodyLen(e) /\ z - j # 0
    BY <1>2, SMTT(30)
  <2>2. S[z] = <<d, 0>>
    BY <1>2 DEF Stands, Whole
  <2> HIDE DEF z
  <2>3. S[z] = <<e, z - j>>
    BY <1>2, <2>1 DEF Stands, Whole
  <2> QED
    BY <2>1, <2>2, <2>3
<1>3. ~(p + BodyLen(f) < q + BodyLen(g)) /\ ~(q + BodyLen(g) < p + BodyLen(f))
  BY <1>1, <1>2
<1> QED
  BY <1>1, <1>3

\* When no body is cut, dropping cells makes no strays, and a stray that is
\* the last one dropped is gone.
LEMMA DroppedCleanly ==
  ASSUME NEW S \in Seq(Cells), NEW T \in Seq(Cells), NEW b \in Nat, NEW n \in 0 .. b,
         Drops(S, T, n),
         \A p \in 0 .. n - 1, f \in Frames : Stands(S, b, p, f) => p + BodyLen(f) <= n
  PROVE  /\ Cardinality(Strays(T, b - n)) <= Cardinality(Strays(S, b))
         /\ n \in Strays(S, b) =>
              Cardinality(Strays(T, b - n)) <= Cardinality(Strays(S, b)) - 1
<1> DEFINE A == Strays(T, b - n)
           B == Strays(S, b)
           h == [z \in A |-> z + n]
<1>1. A \subseteq Nat /\ \A z \in A : z >= 2
  BY LenProperties DEF Strays
<1>2. \A z \in A : z + n \in B
  <2> SUFFICES ASSUME NEW z \in A PROVE z + n \in B
    OBVIOUS
  <2>1. ASSUME NEW p \in 0 .. n - 1, NEW f \in Frames, Stands(S, b, p, f),
               z + n = p + BodyLen(f) + 1
        PROVE  FALSE
    <3>1. p + BodyLen(f) <= n /\ BodyLen(f) \in Nat /\ z \in Nat
      BY <1>1, <2>1, FrameTypes
    <3> QED
      BY <1>1, <2>1, <3>1
  <2> QED
    BY <2>1, StraysDropped
<1>3. IsFiniteSet(B) /\ IsFiniteSet(A) /\ Cardinality(A) \in Nat /\ Cardinality(B) \in Nat
  BY StraysFinite
<1> HIDE DEF A, B
<1>4. \A z \in A : h[z] = z + n /\ z + n # n
  BY <1>1
<1>5. \A y, z \in A : h[y] = h[z] => y = z
  BY <1>1, <1>4
<1> HIDE DEF h
<1>6. Cardinality(A) <= Cardinality(B)
  <2>1. \A z \in A \ {} : h[z] \in B
    BY <1>2, <1>4
  <2>2. \A y, z \in A \ {} : h[y] = h[z] => y = z
    BY <1>5
  <2>3. Cardinality(A) <= Cardinality(B) + Cardinality({})
    BY <1>3, <2>1, <2>2, Few, Recount
  <2> QED
    BY <1>3, <2>3, Few
<1>7. ASSUME n \in B PROVE Cardinality(A) <= Cardinality(B) - 1
  <2>1. \A z \in A \ {} : h[z] \in B \ {n}
    BY <1>2, <1>4
  <2>2. \A y, z \in A \ {} : h[y] = h[z] => y = z
    BY <1>5
  <2>3. IsFiniteSet(B \ {n}) /\ Cardinality(B \ {n}) = Cardinality(B) - 1
    BY <1>3, <1>7, FS_RemoveElement
  <2>4. Cardinality(A) <= Cardinality(B \ {n}) + Cardinality({})
    BY <2>1, <2>2, <2>3, Few, Recount
  <2> QED
    BY <1>3, <2>3, <2>4, Few
<1> QED
  BY <1>6, <1>7 DEF A, B

\* Otherwise one stray may come.
LEMMA DroppedCount ==
  ASSUME NEW S \in Seq(Cells), NEW T \in Seq(Cells), NEW b \in Nat, NEW n \in 0 .. b,
         Drops(S, T, n)
  PROVE  Cardinality(Strays(T, b - n)) <= Cardinality(Strays(S, b)) + 1
<1> DEFINE A == Strays(T, b - n)
           B == Strays(S, b)
           h == [z \in A |-> z + n]
<1>1. A \subseteq Nat /\ \A z \in A : z >= 2
  BY LenProperties DEF Strays
<1>2. IsFiniteSet(B) /\ IsFiniteSet(A) /\ Cardinality(A) \in Nat /\ Cardinality(B) \in Nat
  BY StraysFinite
<1>3. CASE \A p \in 0 .. n - 1, f \in Frames : Stands(S, b, p, f) => p + BodyLen(f) <= n
  <2>1. Cardinality(A) <= Cardinality(B)
    BY <1>3, DroppedCleanly
  <2> QED
    BY <1>2, <2>1
<1>4. CASE \E p \in 0 .. n - 1, f \in Frames : Stands(S, b, p, f) /\ ~(p + BodyLen(f) <= n)
  <2>1. PICK p \in 0 .. n - 1, f \in Frames : Stands(S, b, p, f) /\ ~(p + BodyLen(f) <= n)
    BY <1>4
  <2>2. BodyLen(f) \in Nat /\ p + BodyLen(f) >= n
    BY <2>1, FrameTypes
  <2> DEFINE e == p + BodyLen(f) + 1 - n
  <2>3. \A z \in A \ {e} : z + n \in B
    <3> SUFFICES ASSUME NEW z \in A, z # e PROVE z + n \in B
      OBVIOUS
    <3>1. ASSUME NEW q \in 0 .. n - 1, NEW g \in Frames, Stands(S, b, q, g),
                 z + n = q + BodyLen(g) + 1
          PROVE  FALSE
      <4>1. z \in Nat /\ z >= 2
        BY <1>1
      <4>4. BodyLen(g) \in Nat
        BY FrameTypes
      <4>2. q + BodyLen(g) >= n
        BY <3>1, <4>1, <4>4
      <4>3. p + BodyLen(f) + 1 = q + BodyLen(g) + 1
        BY <2>1, <2>2, <3>1, <4>2, OneAcross
      <4>5. z + n = p + BodyLen(f) + 1
        BY <3>1, <4>3
      <4>6. n \in Nat /\ p \in Nat
        OBVIOUS
      <4>7. z = p + BodyLen(f) + 1 - n
        BY <2>2, <4>1, <4>5, <4>6, SMTT(30)
      <4> QED
        BY <4>7
    <3> QED
      BY <3>1, StraysDropped
  <2> HIDE DEF A, B, e
  <2>4. \A z \in A : h[z] = z + n
    BY <1>1
  <2>5. \A y, z \in A \ {e} : h[y] = h[z] => y = z
    BY <1>1, <2>4
  <2> HIDE DEF h
  <2>6. \A z \in A \ {e} : h[z] \in B
    BY <2>3, <2>4
  <2>7. Cardinality(A) <= Cardinality(B) + Cardinality({e})
    BY <1>2, <2>5, <2>6, Few, Recount
  <2> QED
    BY <1>2, <2>7, Few DEF A, B
<1> QED
  BY <1>3, <1>4

-----------------------------------------------------------------------------
(* The invariant of the stream.                                              *)

\* The order of the cells of commands: by number, then by place, zero last.
Before(c, d) ==
  c[1] < d[1] \/ (c[1] = d[1] /\ ~IsZero(c) /\ (IsZero(d) \/ c[2] < d[2]))

\* The cells of commands in S are in order, so that none is there twice.
Ordered(S) ==
  \A p, q \in 1 .. Len(S) :
     p < q /\ IsCommand(S[p]) /\ IsCommand(S[q]) => Before(S[p], S[q])

\* They are of commands that have been sent, and what the socket holds is such.
Known(S, b, F) ==
  /\ \A p \in 1 .. Len(S) : IsCommand(S[p]) => S[p][1] \in 1 .. Len(F)
  /\ \A p \in b + 1 .. Len(S) : IsCommand(S[p])

\* A command with a part of its body in S has not arrived, nor has any later
\* one, and none has arrived twice.
Pending(S, F) ==
  /\ \A t \in 1 .. Len(F) : F[t] # "twice"
  /\ \A p \in 1 .. Len(S) : IsCommand(S[p]) /\ ~IsZero(S[p]) =>
       /\ F[S[p][1]] \in {"sent", "struck"}
       /\ \A t \in 1 .. Len(F) : F[t] \in {"queued", "refused"} => t < S[p][1]

\* A command that no disturbance has struck stands in S, or has arrived.
Intact(S, b, F) ==
  \A f \in 1 .. Len(F) : F[f] = "sent" => \E p \in 0 .. Len(S) : Stands(S, b, p, f)

\* What has been written ends with a frame, or within the command c.
Half(S, b, c) ==
  b > 0 => IF c = 0 THEN IsZero(S[b]) ELSE S[b][1] = c /\ ~IsZero(S[b])

StreamInv(S, b, F, k, c) ==
  /\ Ordered(S) /\ Known(S, b, F) /\ Pending(S, F) /\ Intact(S, b, F) /\ Half(S, b, c)
  /\ Cardinality(Strays(S, b)) <= k

\* A stream whose commands' cells come from S, in their order in S.
LEMMA Picked ==
  ASSUME NEW S \in Seq(Cells), NEW T \in Seq(Cells), NEW F, NEW h,
         \A z \in 1 .. Len(T) : IsCommand(T[z]) =>
             h[z] \in 1 .. Len(S) /\ T[z] = S[h[z]],
         \A y, z \in 1 .. Len(T) :
             y < z /\ IsCommand(T[y]) /\ IsCommand(T[z]) => h[y] < h[z]
  PROVE  /\ Ordered(S) => Ordered(T)
         /\ Pending(S, F) => Pending(T, F)
         /\ \A b : Known(S, b, F) =>
              \A p \in 1 .. Len(T) : IsCommand(T[p]) => T[p][1] \in 1 .. Len(F)
<1>1. ASSUME Ordered(S) PROVE Ordered(T)
  <2> SUFFICES ASSUME NEW y \in 1 .. Len(T), NEW z \in 1 .. Len(T),
                      y < z, IsCommand(T[y]), IsCommand(T[z])
               PROVE  Before(T[y], T[z])
    BY DEF Ordered
  <2>1. /\ h[y] \in 1 .. Len(S) /\ T[y] = S[h[y]]
        /\ h[z] \in 1 .. Len(S) /\ T[z] = S[h[z]] /\ h[y] < h[z]
    OBVIOUS
  <2> QED
    BY <1>1, <2>1 DEF Ordered
<1>2. ASSUME Pending(S, F) PROVE Pending(T, F)
  BY <1>2 DEF Pending
<1>3. ASSUME NEW b, Known(S, b, F), NEW p \in 1 .. Len(T), IsCommand(T[p])
      PROVE  T[p][1] \in 1 .. Len(F)
  BY <1>3 DEF Known
<1> QED
  BY <1>1, <1>2, <1>3

\* Order, numbers and fates agree with the stream that is left.
LEMMA DroppedParts ==
  ASSUME NEW S \in Seq(Cells), NEW T \in Seq(Cells), NEW F, NEW c, NEW b \in 0 .. Len(S),
         NEW n \in 0 .. b, Drops(S, T, n),
         Ordered(S), Known(S, b, F), Pending(S, F), Half(S, b, c)
  PROVE  Ordered(T) /\ Known(T, b - n, F) /\ Pending(T, F) /\ Half(T, b - n, c)
<1> DEFINE h == [z \in 1 .. Len(T) |-> z + n]
<1>1. Len(S) \in Nat /\ Len(T) \in Nat /\ Len(T) = Len(S) - n
  BY LenProperties DEF Drops
<1>2. \A z \in 1 .. Len(T) : h[z] = z + n /\ h[z] \in 1 .. Len(S) /\ T[z] = S[h[z]]
  BY <1>1 DEF Drops
<1>3. \A y, z \in 1 .. Len(T) : y < z => h[y] < h[z]
  BY <1>1, <1>2
<1> HIDE DEF h
<1>4. Ordered(T) /\ Pending(T, F)
      /\ \A p \in 1 .. Len(T) : IsCommand(T[p]) => T[p][1] \in 1 .. Len(F)
  BY <1>2, <1>3, Picked, ZenonT(30)
<1>5. ASSUME NEW p \in b - n + 1 .. Len(T) PROVE IsCommand(T[p])
  <2>1. p \in 1 .. Len(T) /\ p + n \in b + 1 .. Len(S)
    BY <1>1
  <2>2. T[p] = S[p + n]
    BY <1>2, <2>1
  <2> QED
    BY <2>1, <2>2 DEF Known
<1>6. Half(T, b - n, c)
  <2> SUFFICES ASSUME b - n > 0 PROVE T[b - n] = S[b]
    BY <1>1 DEF Half
  <2>1. b - n \in 1 .. Len(T) /\ b - n + n = b
    BY <1>1
  <2> QED
    BY <2>1 DEF Drops
<1> QED
  BY <1>4, <1>5, <1>6 DEF Known

\* The same of a stream that begins as S does and goes on without commands.
LEMMA KeptParts ==
  ASSUME NEW S \in Seq(Cells), NEW T \in Seq(Cells), NEW F, NEW b, NEW n \in 0 .. Len(S),
         Keeps(S, T, n), \A z \in n + 1 .. Len(T) : ~IsCommand(T[z]),
         Ordered(S), Known(S, b, F), Pending(S, F)
  PROVE  /\ Ordered(T) /\ Pending(T, F)
         /\ \A p \in 1 .. Len(T) : IsCommand(T[p]) => T[p][1] \in 1 .. Len(F)
<1> DEFINE h == [z \in 1 .. Len(T) |-> z]
<1>1. Len(S) \in Nat /\ Len(T) \in Nat
  BY LenProperties
<1>2. \A z \in 1 .. Len(T) :
        h[z] = z /\ (IsCommand(T[z]) => h[z] \in 1 .. Len(S) /\ T[z] = S[h[z]])
  BY <1>1 DEF Keeps
<1>3. \A y, z \in 1 .. Len(T) : y < z => h[y] < h[z]
  BY <1>1, <1>2
<1> HIDE DEF h
<1> QED
  BY <1>2, <1>3, Picked

\* The same of a stream into which the bridge writes a frame of its own.
LEMMA InsertedParts ==
  ASSUME NEW S \in Seq(Cells), NEW T \in Seq(Cells), NEW F, NEW b \in 0 .. Len(S),
         Inserts(S, T, b), Ordered(S), Known(S, b, F), Pending(S, F)
  PROVE  Ordered(T) /\ Known(T, b + 2, F) /\ Pending(T, F) /\ Half(T, b + 2, 0)
<1> DEFINE h == [z \in 1 .. Len(T) |-> IF z <= b THEN z ELSE z - 2]
<1>1. Len(S) \in Nat /\ Len(T) \in Nat /\ Len(T) = Len(S) + 2
  BY LenProperties DEF Inserts
<1>2. ~IsCommand(T[b + 1]) /\ ~IsCommand(T[b + 2]) /\ IsZero(T[b + 2])
  BY DEF Inserts, IsCommand, IsZero, HelloAck
<1>3. \A z \in b + 3 .. Len(T) : T[z] = S[z - 2]
  <2> SUFFICES ASSUME NEW z \in b + 3 .. Len(T) PROVE T[z] = S[z - 2]
    OBVIOUS
  <2>1. z - 2 \in b + 1 .. Len(S) /\ z - 2 + 2 = z
    BY <1>1
  <2> QED
    BY <2>1 DEF Inserts
<1>4. \A z \in 1 .. Len(T) : IsCommand(T[z]) =>
        /\ h[z] \in 1 .. Len(S) /\ T[z] = S[h[z]]
        /\ z <= b \/ z >= b + 3
        /\ h[z] = IF z <= b THEN z ELSE z - 2
  <2> SUFFICES ASSUME NEW z \in 1 .. Len(T), IsCommand(T[z])
               PROVE  /\ h[z] \in 1 .. Len(S) /\ T[z] = S[h[z]]
                      /\ z <= b \/ z >= b + 3
                      /\ h[z] = IF z <= b THEN z ELSE z - 2
    OBVIOUS
  <2>1. CASE z <= b
    BY <1>1, <2>1 DEF Inserts
  <2>2. CASE z > b
    <3>1. z # b + 1 /\ z # b + 2
      BY <1>2
    <3>2. z \in b + 3 .. Len(T) /\ h[z] = z - 2 /\ z - 2 \in 1 .. Len(S)
      BY <1>1, <2>2, <3>1
    <3> QED
      BY <1>1, <1>3, <3>2
  <2> QED
    BY <2>1, <2>2
<1>5. \A y, z \in 1 .. Len(T) :
        y < z /\ IsCommand(T[y]) /\ IsCommand(T[z]) => h[y] < h[z]
  <2> HIDE DEF h
  <2> QED
    BY <1>1, <1>4
<1> HIDE DEF h
<1>6. Ordered(T) /\ Pending(T, F)
      /\ \A p \in 1 .. Len(T) : IsCommand(T[p]) => T[p][1] \in 1 .. Len(F)
  BY <1>4, <1>5, Picked
<1>7. \A p \in b + 3 .. Len(T) : IsCommand(T[p])
  BY <1>1, <1>3 DEF Known
<1> QED
  BY <1>2, <1>6, <1>7 DEF Known, Half

-----------------------------------------------------------------------------
(* What disturbances do to the fates, and to the invariant of the stream.    *)

\* The fates G are the fates F after a disturbance of the commands in X.
Struck(F, G, X) ==
  /\ Len(G) = Len(F)
  /\ \A t \in 1 .. Len(F) : G[t] = IF t \in X /\ F[t] = "sent" THEN "struck" ELSE F[t]

\* What is on its way agrees with the fates after a disturbance.
LEMMA StruckParts ==
  ASSUME NEW S, NEW b, NEW F, NEW G, NEW X, Struck(F, G, X), Known(S, b, F), Pending(S, F)
  PROVE  Known(S, b, G) /\ Pending(S, G)
<1>1. Known(S, b, G)
  BY DEF Struck, Known
<1>2. \A t \in 1 .. Len(F) : /\ G[t] = F[t] \/ (F[t] = "sent" /\ G[t] = "struck")
                             /\ G[t] \in {"queued", "refused", "twice"} => G[t] = F[t]
  BY DEF Struck
<1>3. \A p \in 1 .. Len(S) : IsCommand(S[p]) => S[p][1] \in 1 .. Len(F)
  BY DEF Known
<1>4. ASSUME NEW p \in 1 .. Len(S), IsCommand(S[p]), ~IsZero(S[p])
      PROVE  /\ G[S[p][1]] \in {"sent", "struck"}
             /\ \A t \in 1 .. Len(G) : G[t] \in {"queued", "refused"} => t < S[p][1]
  <2>1. /\ F[S[p][1]] \in {"sent", "struck"} /\ S[p][1] \in 1 .. Len(F)
        /\ \A t \in 1 .. Len(F) : F[t] \in {"queued", "refused"} => t < S[p][1]
    BY <1>3, <1>4 DEF Pending
  <2>2. G[S[p][1]] \in {"sent", "struck"}
    BY <1>2, <2>1
  <2>3. \A t \in 1 .. Len(F) : G[t] \in {"queued", "refused"} => t < S[p][1]
    BY <1>2, <2>1
  <2> QED
    BY <2>2, <2>3 DEF Struck
<1>5. \A t \in 1 .. Len(G) : G[t] # "twice"
  BY <1>2 DEF Pending, Struck
<1> QED
  BY <1>1, <1>4, <1>5 DEF Pending

\* Whoever is still on its way must have been before, and not been struck.
LEMMA StillSent ==
  ASSUME NEW S \in Seq(Cells), NEW b, NEW F, NEW G, NEW X, Struck(F, G, X), Intact(S, b, F),
         NEW f \in 1 .. Len(G), G[f] = "sent"
  PROVE  f \notin X /\ \E p \in 0 .. Len(S) : Stands(S, b, p, f)
BY DEF Struck, Intact

\* The commands of stretch i .. j of stream S.
Among(S, i, j) == {S[z][1] : z \in i .. j} \cap DOMAIN Lengths

\* A frame that stands in a stretch is among its commands, if it is one.
LEMMA FrameAmong ==
  ASSUME NEW S \in Seq(Cells), NEW b, NEW p \in Nat, NEW f, Stands(S, b, p, f),
         NEW i \in Int, NEW j \in Int
  PROVE  f > 0 => /\ p + 1 \in i .. j => f \in Among(S, i, j)
                  /\ p + BodyLen(f) + 1 \in i .. j => f \in Among(S, i, j)
<1>1. f \in Frames /\ BodyLen(f) \in Nat /\ BodyLen(f) >= 1
  BY FrameTypes DEF Stands
<1>2. S[p + 1] = <<f, 1>>
  <2>1. p + 1 \in p + 1 .. p + BodyLen(f) /\ p + 1 - p = 1
    BY <1>1
  <2> QED
    BY <2>1 DEF Stands, Whole
<1>3. S[p + BodyLen(f) + 1] = <<f, 0>>
  BY DEF Stands, Whole
<1>4. S[p + 1][1] = f /\ S[p + BodyLen(f) + 1][1] = f
  BY <1>2, <1>3
<1>5. f > 0 => f \in DOMAIN Lengths
  BY <1>1, FrameTypes
<1> QED
  BY <1>4, <1>5 DEF Among

\* The first n cells are gone, in a restart of the STM32.
LEMMA DropInv ==
  ASSUME NEW S \in Seq(Cells), NEW T \in Seq(Cells), NEW b \in 0 .. Len(S), NEW n \in 0 .. b,
         NEW F, NEW G, NEW X, NEW k \in Nat, NEW m \in Nat, NEW c,
         StreamInv(S, b, F, k, c), Drops(S, T, n), Struck(F, G, X),
         Among(S, 1, n) \subseteq X, m = IF X = {} THEN k ELSE k + 1
  PROVE  StreamInv(T, b - n, G, m, c)
<1>1. Ordered(S) /\ Known(S, b, G) /\ Pending(S, G) /\ Half(S, b, c)
  BY StruckParts DEF StreamInv
<1>2. Ordered(T) /\ Known(T, b - n, G) /\ Pending(T, G) /\ Half(T, b - n, c)
  BY <1>1, DroppedParts
<1>3. b \in Nat /\ Len(S) \in Nat
  BY LenProperties
<1>4. Intact(T, b - n, G)
  <2> SUFFICES ASSUME NEW f \in 1 .. Len(G), G[f] = "sent"
               PROVE  \E p \in 0 .. Len(T) : Stands(T, b - n, p, f)
    BY DEF Intact
  <2>1. PICK p \in 0 .. Len(S) : Stands(S, b, p, f)
    BY StillSent DEF StreamInv
  <2>2. f \notin X /\ f > 0
    BY StillSent DEF StreamInv
  <2>3. p >= n
    <3>1. p + 1 \notin 1 .. n
      BY <2>1, <2>2, FrameAmong
    <3> QED
      BY <1>3, <3>1
  <2>4. Stands(T, b - n, p - n, f)
    BY <1>3, <2>1, <2>3, StandsDropped
  <2> QED
    BY <2>4 DEF Stands
<1>5. Cardinality(Strays(T, b - n)) <= m
  <2>1. Cardinality(Strays(S, b)) \in Nat /\ Cardinality(Strays(T, b - n)) \in Nat
    BY StraysFinite
  <2>2. CASE X = {}
    <3>1. ASSUME NEW p \in 0 .. n - 1, NEW f \in Frames, Stands(S, b, p, f)
          PROVE  p + BodyLen(f) <= n
      <4>1. ~(f > 0)
        <5>1. p + 1 \in 1 .. n /\ p \in Nat
          BY <1>3
        <5>2. 1 \in Int /\ n \in Int
          OBVIOUS
        <5> QED
          BY <2>2, <3>1, <5>1, <5>2, FrameAmong
      <4>2. BodyLen(f) = 1
        BY <4>1 DEF BodyLen
      <4> QED
        BY <1>3, <4>2
    <3>2. Cardinality(Strays(T, b - n)) <= Cardinality(Strays(S, b))
      BY <1>3, <3>1, DroppedCleanly
    <3> QED
      BY <2>1, <2>2, <3>2 DEF StreamInv
  <2>3. CASE X # {}
    <3>1. Cardinality(Strays(T, b - n)) <= Cardinality(Strays(S, b)) + 1
      BY <1>3, DroppedCount
    <3> QED
      BY <2>1, <2>3, <3>1 DEF StreamInv
  <2> QED
    BY <2>2, <2>3
<1> QED
  BY <1>2, <1>4, <1>5 DEF StreamInv

\* What begins before the first zero of S, or after it at the earliest.
LEMMA OnlyFirst ==
  ASSUME NEW S \in Seq(Cells), NEW b \in 0 .. Len(S), NEW n \in 1 .. b,
         \A i \in 1 .. n - 1 : ~IsZero(S[i]),
         NEW p \in 0 .. n - 1, NEW f, Stands(S, b, p, f)
  PROVE  /\ p = 0 /\ BodyLen(f) + 1 >= n
         /\ IsZero(S[n]) => BodyLen(f) + 1 = n
<1>1. f \in Frames /\ BodyLen(f) \in Nat /\ BodyLen(f) >= 1 /\ Len(S) \in Nat
  BY FrameTypes, LenProperties DEF Stands
<1>2. p = 0
  BY <1>1 DEF Stands, Begins
<1>3. BodyLen(f) + 1 \in 1 .. Len(S) /\ IsZero(S[BodyLen(f) + 1])
  BY <1>1, <1>2 DEF Stands, Whole, IsZero
<1>4. ~(BodyLen(f) + 1 < n)
  BY <1>1, <1>3
<1>5. ASSUME IsZero(S[n]), BodyLen(f) + 1 > n PROVE FALSE
  <2>1. n \in p + 1 .. p + BodyLen(f) /\ n - p = n /\ n # 0
    BY <1>1, <1>2, <1>5
  <2>2. S[n] = <<f, n>>
    BY <2>1 DEF Stands, Whole
  <2> QED
    BY <1>5, <2>1, <2>2 DEF IsZero
<1> QED
  BY <1>1, <1>2, <1>4, <1>5

\* The first n cells, up to a zero or one more than a command may have, are
\* collected, and no command that stood in them is still on its way after it.
LEMMA CollectInv ==
  ASSUME NEW S \in Seq(Cells), NEW T \in Seq(Cells), NEW b \in 0 .. Len(S), NEW n \in 1 .. b,
         NEW F, NEW k \in Nat, NEW m \in Int, NEW c,
         StreamInv(S, b, F, k, c), Drops(S, T, n),
         \A i \in 1 .. n - 1 : ~IsZero(S[i]),
         IsZero(S[n]) \/ n = CmdBufCap + 1,
         \A f \in 1 .. Len(F) : Stands(S, b, 0, f) /\ IsZero(S[n]) => F[f] # "sent",
         m = k \/ (m = k - 1 /\ n \in Strays(S, b))
  PROVE  StreamInv(T, b - n, F, m, c) /\ m \in Nat
<1>1. b \in Nat /\ n \in Nat /\ n \in 0 .. b /\ Len(S) \in Nat /\ CmdBufCap \in Nat
  BY LenProperties, LinkAssumption
<1>2. Ordered(T) /\ Known(T, b - n, F) /\ Pending(T, F) /\ Half(T, b - n, c)
  BY <1>1, DroppedParts DEF StreamInv
<1>3. ASSUME NEW p \in 0 .. n - 1, NEW f \in Frames, Stands(S, b, p, f)
      PROVE  p = 0 /\ IsZero(S[n]) /\ p + BodyLen(f) + 1 = n
  <2>1. BodyLen(f) \in Nat /\ BodyLen(f) <= CmdBufCap
    BY <1>3, FrameTypes DEF Stands
  <2>2. p = 0 /\ BodyLen(f) + 1 >= n /\ (IsZero(S[n]) => BodyLen(f) + 1 = n)
    BY <1>3, OnlyFirst
  <2>3. CASE ~IsZero(S[n])
    <3>1. p + BodyLen(f) + 1 = n
      BY <1>1, <2>1, <2>2, <2>3
    <3>2. S[n] = <<f, 0>>
      BY <1>3, <3>1 DEF Stands, Whole
    <3> QED
      BY <2>3, <3>2 DEF IsZero
  <2> QED
    BY <1>1, <2>1, <2>2, <2>3
<1>4. Intact(T, b - n, F)
  <2> SUFFICES ASSUME NEW f \in 1 .. Len(F), F[f] = "sent"
               PROVE  \E p \in 0 .. Len(T) : Stands(T, b - n, p, f)
    BY DEF Intact
  <2>1. PICK p \in 0 .. Len(S) : Stands(S, b, p, f)
    BY DEF StreamInv, Intact
  <2>2. p >= n
    <3>1. ASSUME p < n PROVE FALSE
      <4>1. p \in 0 .. n - 1 /\ f \in Frames
        BY <1>1, <2>1, <3>1 DEF Stands
      <4>2. p = 0 /\ IsZero(S[n])
        BY <1>3, <2>1, <4>1
      <4> QED
        BY <2>1, <4>2
    <3> QED
      BY <1>1, <3>1
  <2>3. Stands(T, b - n, p - n, f)
    BY <1>1, <2>1, <2>2, StandsDropped
  <2> QED
    BY <2>3 DEF Stands
<1>5. Cardinality(Strays(T, b - n)) <= m /\ m \in Nat
  <2>1. Cardinality(Strays(S, b)) \in Nat /\ Cardinality(Strays(T, b - n)) \in Nat
    BY StraysFinite
  <2>2. Cardinality(Strays(S, b)) <= k
    BY DEF StreamInv
  <2>3. \A p \in 0 .. n - 1, f \in Frames : Stands(S, b, p, f) => p + BodyLen(f) <= n
    <3> SUFFICES ASSUME NEW p \in 0 .. n - 1, NEW f \in Frames, Stands(S, b, p, f)
                 PROVE  p + BodyLen(f) <= n
      OBVIOUS
    <3>1. BodyLen(f) \in Nat /\ p + BodyLen(f) + 1 = n
      BY <1>3, FrameTypes
    <3> QED
      BY <1>1, <3>1
  <2>4. /\ Cardinality(Strays(T, b - n)) <= Cardinality(Strays(S, b))
        /\ n \in Strays(S, b) =>
             Cardinality(Strays(T, b - n)) <= Cardinality(Strays(S, b)) - 1
    BY <1>1, <2>3, DroppedCleanly
  <2> QED
    BY <2>1, <2>2, <2>4
<1> QED
  BY <1>2, <1>4, <1>5 DEF StreamInv

\* The socket goes, with all that has not been written.
LEMMA CutInv ==
  ASSUME NEW S \in Seq(Cells), NEW T \in Seq(Cells), NEW b \in 0 .. Len(S),
         NEW F, NEW G, NEW X, NEW k \in Nat, NEW c,
         StreamInv(S, b, F, k, c), Keeps(S, T, b), Len(T) = b, Struck(F, G, X),
         Among(S, b + 1, Len(S)) \subseteq X
  PROVE  StreamInv(T, b, G, k, c)
<1>1. Ordered(S) /\ Known(S, b, G) /\ Pending(S, G) /\ Half(S, b, c)
  BY StruckParts DEF StreamInv
<1>2. b \in Nat /\ Len(S) \in Nat /\ b \in Int /\ b + 1 \in Int /\ Len(S) \in Int
  BY LenProperties
<1>3. /\ Ordered(T) /\ Pending(T, G)
      /\ \A p \in 1 .. Len(T) : IsCommand(T[p]) => T[p][1] \in 1 .. Len(G)
  <2>1. \A z \in b + 1 .. Len(T) : ~IsCommand(T[z])
    BY <1>2
  <2> QED
    BY <1>1, <2>1, KeptParts
<1>4. Known(T, b, G)
  BY <1>2, <1>3 DEF Known
<1>5. Half(T, b, c)
  BY <1>1, <1>2 DEF Half, Keeps
<1>6. Intact(T, b, G)
  <2> SUFFICES ASSUME NEW f \in 1 .. Len(G), G[f] = "sent"
               PROVE  \E p \in 0 .. Len(T) : Stands(T, b, p, f)
    BY DEF Intact
  <2>1. PICK p \in 0 .. Len(S) : Stands(S, b, p, f)
    BY StillSent DEF StreamInv
  <2>2. f \notin X /\ f > 0
    BY StillSent DEF StreamInv
  <2>3. BodyLen(f) \in Nat /\ p + BodyLen(f) < Len(S) /\ p \in Nat
    BY <1>2, <2>1, FrameTypes DEF Stands, Whole
  <2>4. p + BodyLen(f) < b
    <3>1. p + BodyLen(f) + 1 \notin b + 1 .. Len(S)
      BY <1>2, <2>1, <2>2, <2>3, FrameAmong
    <3> QED
      BY <1>2, <2>3, <3>1
  <2>5. Stands(T, b, p, f)
    BY <1>2, <2>1, <2>3, <2>4, StandsKept
  <2> QED
    BY <2>5 DEF Stands
<1>7. Cardinality(Strays(T, b)) <= k
  <2>1. IsFiniteSet(Strays(S, b)) /\ Cardinality(Strays(S, b)) <= k
        /\ Cardinality(Strays(S, b)) \in Nat
    BY StraysFinite DEF StreamInv
  <2>2. \A z \in Strays(T, b) : z <= b
    BY <1>2 DEF Strays
  <2>3. Strays(T, b) \subseteq Strays(S, b) \cup {}
    BY <1>2, <2>2, StraysKept
  <2>4. Cardinality(Strays(T, b)) <= Cardinality(Strays(S, b)) + 0
        /\ Cardinality(Strays(T, b)) \in Nat
    BY <2>1, <2>3, Regrown, Few
  <2> QED
    BY <2>1, <2>4
<1> QED
  BY <1>3, <1>4, <1>5, <1>6, <1>7 DEF StreamInv

\* The ESP32 restarts after n of the written cells, and announces itself.
LEMMA RestartInv ==
  ASSUME NEW S \in Seq(Cells), NEW T \in Seq(Cells), NEW b \in 0 .. Len(S), NEW n \in 0 .. b,
         NEW F, NEW G, NEW X, NEW k \in Nat, NEW m \in Nat, NEW c,
         StreamInv(S, b, F, k, c), Struck(F, G, X),
         Keeps(S, T, n), Len(T) = n + 2, T[n + 1] = <<Hello, 1>>, T[n + 2] = <<Hello, 0>>,
         Among(S, n + 1, Len(S)) \subseteq X,
         m = k + 1 \/ (m = k /\ (n = 0 \/ IsZero(S[n])))
  PROVE  StreamInv(T, n + 2, G, m, 0)
<1>1. Ordered(S) /\ Known(S, b, G) /\ Pending(S, G)
  BY StruckParts DEF StreamInv
<1>2. b \in Nat /\ n \in Nat /\ Len(S) \in Nat /\ n \in 0 .. Len(S) /\ n + 2 \in Nat
  BY LenProperties
<1>3. ~IsCommand(T[n + 1]) /\ ~IsCommand(T[n + 2]) /\ IsZero(T[n + 2]) /\ ~IsZero(T[n + 1])
  BY DEF IsCommand, IsZero, Hello
<1>4. /\ Ordered(T) /\ Pending(T, G)
      /\ \A p \in 1 .. Len(T) : IsCommand(T[p]) => T[p][1] \in 1 .. Len(G)
  <2>1. \A z \in n + 1 .. Len(T) : z = n + 1 \/ z = n + 2
    BY <1>2
  <2>2. \A z \in n + 1 .. Len(T) : ~IsCommand(T[z])
    BY <1>3, <2>1
  <2> QED
    BY <1>1, <1>2, <2>2, KeptParts
<1>5. Known(T, n + 2, G) /\ Half(T, n + 2, 0)
  BY <1>2, <1>3, <1>4 DEF Known, Half
<1>6. Intact(T, n + 2, G)
  <2> SUFFICES ASSUME NEW f \in 1 .. Len(G), G[f] = "sent"
               PROVE  \E p \in 0 .. Len(T) : Stands(T, n + 2, p, f)
    BY DEF Intact
  <2>1. PICK p \in 0 .. Len(S) : Stands(S, b, p, f)
    BY StillSent DEF StreamInv
  <2>2. f \notin X /\ f > 0
    BY StillSent DEF StreamInv
  <2>3. BodyLen(f) \in Nat /\ p + BodyLen(f) < Len(S) /\ p \in Nat
    BY <1>2, <2>1, FrameTypes DEF Stands, Whole
  <2>4. p + BodyLen(f) < n
    <3>1. n + 1 \in Int /\ Len(S) \in Int
      BY <1>2
    <3>2. p + BodyLen(f) + 1 \notin n + 1 .. Len(S)
      BY <2>1, <2>2, <2>3, <3>1, FrameAmong
    <3> QED
      BY <1>2, <2>3, <3>2, SMTT(30)
  <2>5. p # b
    BY <1>2, <2>3, <2>4
  <2>6. Stands(T, n + 2, p, f)
    BY <1>2, <2>1, <2>3, <2>4, <2>5, StandsKept
  <2> QED
    BY <2>6 DEF Stands
<1>7. Cardinality(Strays(T, n + 2)) <= m
  <2>1. IsFiniteSet(Strays(S, b)) /\ Cardinality(Strays(S, b)) <= k
        /\ Cardinality(Strays(S, b)) \in Nat
    BY StraysFinite DEF StreamInv
  <2>2. ASSUME NEW z \in Strays(T, n + 2), z # n + 2
        PROVE  z \in Strays(S, b)
    <3>1. z <= n
      <4>1. z \in 2 .. n + 2 /\ IsZero(T[z])
        BY <2>2 DEF Strays
      <4>2. z # n + 1
        BY <1>3, <4>1
      <4> QED
        BY <1>2, <2>2, <4>1, <4>2
    <3>2. \A f \in Frames : ~(Stands(S, b, b, f) /\ z = b + BodyLen(f) + 1)
      BY <1>2, <3>1, FrameTypes, SMTT(30)
    <3> QED
      BY <1>2, <3>1, <3>2, StraysKept
  <2>3. CASE m = k + 1
    <3>1. Strays(T, n + 2) \subseteq Strays(S, b) \cup {n + 2}
      BY <2>2
    <3>2. Cardinality(Strays(T, n + 2)) <= Cardinality(Strays(S, b)) + 1
          /\ Cardinality(Strays(T, n + 2)) \in Nat
      BY <2>1, <3>1, Regrown, Few
    <3> QED
      BY <2>1, <2>3, <3>2
  <2>4. CASE m = k /\ (n = 0 \/ IsZero(S[n]))
    <3>1. Stands(T, n + 2, n, Hello)
      <4>1. Begins(T, n + 2, n)
        BY <1>2, <2>4 DEF Begins, Keeps
      <4>2. Hello \in Frames /\ BodyLen(Hello) = 1 /\ BodyLen(Hello) <= CmdBufCap
        BY HandshakeFits
      <4>3. Whole(T, n, Hello)
        <5>1. \A q \in n + 1 .. n + BodyLen(Hello) : q = n + 1 /\ q - n = 1
          BY <1>2, <4>2
        <5>2. n + BodyLen(Hello) < Len(T) /\ n + BodyLen(Hello) + 1 = n + 2
          BY <1>2, <4>2
        <5> QED
          BY <5>1, <5>2 DEF Whole
      <4> QED
        BY <1>2, <4>1, <4>2, <4>3 DEF Stands
    <3>2. n + 2 \notin Strays(T, n + 2)
      <4> DEFINE y == n + 2
      <4>1. T[y][1] = Hello /\ y - 1 - BodyLen(Hello) = n
        BY <1>2, HandshakeFits
      <4> HIDE DEF y
      <4>2. y \notin Strays(T, n + 2)
        BY <3>1, <4>1 DEF Strays
      <4> QED
        BY <4>2 DEF y
    <3>3. Strays(T, n + 2) \subseteq Strays(S, b) \cup {}
      BY <2>2, <3>2
    <3>4. Cardinality(Strays(T, n + 2)) <= Cardinality(Strays(S, b)) + 0
          /\ Cardinality(Strays(T, n + 2)) \in Nat
      BY <2>1, <3>3, Regrown, Few
    <3> QED
      BY <2>1, <2>4, <3>4
  <2> QED
    BY <2>3, <2>4
<1> QED
  BY <1>4, <1>5, <1>6, <1>7 DEF StreamInv

\* A stray of a stream the bridge has inserted a HelloAck in is one of the
\* stream before, or closes the HelloAck, or the frame that was in its place.
LEMMA StraysInserted ==
  ASSUME NEW S \in Seq(Cells), NEW T \in Seq(Cells), NEW b \in 0 .. Len(S), Inserts(S, T, b),
         NEW z \in Strays(T, b + 2)
  PROVE  \/ z = b + 2 /\ b > 0 /\ ~IsZero(S[b])
         \/ z <= b /\ z \in Strays(S, b)
         \/ z >= b + 3 /\ z - 2 \in Strays(S, b)
         \/ /\ z >= b + 3 /\ b > 0 /\ ~IsZero(S[b])
            /\ \E p \in 0 .. b - 1, f \in Frames : /\ Stands(S, b, p, f)
                                                   /\ z - 2 = p + BodyLen(f) + 1
                                                   /\ p + BodyLen(f) >= b
<1>1. b \in Nat /\ Len(S) \in Nat /\ Len(T) \in Nat /\ Len(T) = Len(S) + 2
  BY LenProperties DEF Inserts
<1>2. z \in 2 .. Len(T) /\ IsZero(T[z]) /\ ~IsZero(T[z - 1])
      /\ ~Stands(T, b + 2, z - 1 - BodyLen(T[z][1]), T[z][1])
  BY DEF Strays
<1>3. CASE z <= b
  <2>1. Keeps(S, T, b)
    BY <1>1 DEF Inserts, Keeps
  <2>2. \A f \in Frames : ~(Stands(S, b, b, f) /\ z = b + BodyLen(f) + 1)
    BY <1>1, <1>2, <1>3, FrameTypes, SMTT(30)
  <2>3. z \in Strays(S, b)
    BY <1>1, <1>3, <2>1, <2>2, StraysKept
  <2> QED
    BY <1>3, <2>3
<1>4. CASE z = b + 1
  BY <1>2, <1>4 DEF Inserts, IsZero
<1>5. CASE z = b + 2
  <2> SUFFICES ASSUME b = 0 \/ IsZero(S[b]) PROVE FALSE
    BY <1>1, <1>5
  <2>1. T[z] = <<HelloAck, 0>> /\ T[z][1] = HelloAck
    BY <1>5 DEF Inserts
  <2>2. z - 1 - BodyLen(HelloAck) = b
    BY <1>1, <1>5, HandshakeFits
  <2>3. Begins(T, b + 2, b)
    BY <1>1 DEF Begins, Inserts
  <2>4. Whole(T, b, HelloAck)
    <3>1. \A q \in b + 1 .. b + BodyLen(HelloAck) : q = b + 1 /\ q - b = 1
      BY <1>1, HandshakeFits
    <3>2. b + BodyLen(HelloAck) < Len(T) /\ b + BodyLen(HelloAck) + 1 = b + 2
      BY <1>1, HandshakeFits
    <3> QED
      BY <3>1, <3>2 DEF Whole, Inserts
  <2>5. Stands(T, b + 2, b, HelloAck)
    BY <1>1, <2>3, <2>4, HandshakeFits DEF Stands
  <2> QED
    BY <1>2, <2>1, <2>2, <2>5
<1>6. CASE z >= b + 3
  <2> DEFINE y == z - 2
             f == S[y][1]
             p == y - 1 - BodyLen(f)
  <2>1. y \in b + 1 .. Len(S) /\ y + 2 = z /\ y \in 1 .. Len(S)
    BY <1>1, <1>2, <1>6
  <2>2. T[z] = S[y]
    BY <2>1 DEF Inserts
  <2>3. y # b + 1
    <3>1. ASSUME y = b + 1 PROVE FALSE
      <4>1. z - 1 = b + 2
        BY <1>1, <1>2, <3>1
      <4>2. T[b + 2] = <<HelloAck, 0>>
        BY DEF Inserts
      <4> QED
        BY <1>2, <4>1, <4>2 DEF IsZero
    <3> QED
      BY <3>1
  <2>4. T[z - 1] = S[y - 1] /\ y \in 2 .. Len(S)
    <3>1. y - 1 \in b + 1 .. Len(S) /\ y - 1 + 2 = z - 1 /\ y \in 2 .. Len(S)
      BY <1>1, <2>1, <2>3
    <3> QED
      BY <3>1 DEF Inserts
  <2>5. f \in Frames /\ BodyLen(f) \in Nat /\ p \in Int
    <3>1. S[y] \in Cells
      BY <2>1, ElementOfSeq
    <3>2. f \in Frames /\ BodyLen(f) \in Nat
      BY <3>1, CellTypes, FrameTypes
    <3> QED
      BY <2>4, <3>2
  <2> HIDE DEF y
  <2>6. CASE ~Stands(S, b, p, f)
    <3>1. y \in Strays(S, b)
      BY <1>2, <2>2, <2>4, <2>6 DEF Strays
    <3> QED
      BY <1>6, <3>1 DEF y
  <2>7. CASE Stands(S, b, p, f) /\ p >= b
    <3>1. p + 2 = z - 1 - BodyLen(f) /\ p \in Nat
      BY <1>1, <1>2, <2>1, <2>5, <2>7
    <3> HIDE DEF p
    <3>2. Stands(T, b + 2, p + 2, f)
      BY <2>7, <3>1, StandsBehind
    <3> QED
      BY <1>2, <2>2, <3>1, <3>2
  <2>8. CASE Stands(S, b, p, f) /\ p < b
    <3>1. p \in 0 .. b - 1 /\ y = p + BodyLen(f) + 1 /\ p + BodyLen(f) >= b /\ b > 0
      BY <1>1, <2>1, <2>3, <2>5, <2>8 DEF Stands
    <3> HIDE DEF p, f
    <3>2. b \in p + 1 .. p + BodyLen(f) /\ b - p # 0
      BY <1>1, <2>5, <3>1
    <3>3. S[b] = <<f, b - p>>
      BY <2>8, <3>2 DEF Stands, Whole
    <3>4. ~IsZero(S[b])
      BY <3>2, <3>3 DEF IsZero
    <3> QED
      BY <1>6, <2>5, <2>8, <3>1, <3>4 DEF y
  <2> QED
    BY <1>1, <2>5, <2>6, <2>7, <2>8
<1> QED
  BY <1>1, <1>2, <1>3, <1>4, <1>5, <1>6

\* The bridge answers a Hello between two writes of the client's stream.
LEMMA InsertInv ==
  ASSUME NEW S \in Seq(Cells), NEW T \in Seq(Cells), NEW b \in 0 .. Len(S), Inserts(S, T, b),
         NEW F, NEW G, NEW X, NEW k \in Nat, NEW m \in Nat, NEW c,
         StreamInv(S, b, F, k, c), Struck(F, G, X),
         c # 0 => c \in X,
         m = IF c = 0 THEN k ELSE k + 2
  PROVE  StreamInv(T, b + 2, G, m, 0)
<1>1. Ordered(S) /\ Known(S, b, G) /\ Pending(S, G)
  BY StruckParts DEF StreamInv
<1>2. Ordered(T) /\ Known(T, b + 2, G) /\ Pending(T, G) /\ Half(T, b + 2, 0)
  BY <1>1, InsertedParts
<1>3. b \in Nat /\ Len(S) \in Nat /\ Len(T) \in Nat
  BY LenProperties
<1>4. b > 0 /\ ~IsZero(S[b]) => c # 0 /\ S[b][1] = c
  BY DEF StreamInv, Half
<1>5. Intact(T, b + 2, G)
  <2> SUFFICES ASSUME NEW f \in 1 .. Len(G), G[f] = "sent"
               PROVE  \E p \in 0 .. Len(T) : Stands(T, b + 2, p, f)
    BY DEF Intact
  <2>1. PICK p \in 0 .. Len(S) : Stands(S, b, p, f)
    BY StillSent DEF StreamInv
  <2>2. f \notin X
    BY StillSent DEF StreamInv
  <2>3. BodyLen(f) \in Nat /\ p \in Nat
    BY <1>3, <2>1, FrameTypes DEF Stands
  <2>4. CASE p >= b
    <3>1. Stands(T, b + 2, p + 2, f)
      BY <2>1, <2>3, <2>4, StandsBehind
    <3> QED
      BY <3>1 DEF Stands
  <2>5. CASE p + BodyLen(f) < b
    <3>1. Stands(T, b + 2, p, f)
      BY <2>1, <2>3, <2>5, StandsBefore
    <3> QED
      BY <3>1 DEF Stands
  <2>6. CASE p < b /\ p + BodyLen(f) >= b
    <3>1. b \in p + 1 .. p + BodyLen(f) /\ b - p # 0 /\ b > 0
      BY <1>3, <2>3, <2>6
    <3>2. S[b] = <<f, b - p>>
      BY <2>1, <3>1 DEF Stands, Whole
    <3>3. ~IsZero(S[b]) /\ S[b][1] = f
      BY <3>1, <3>2 DEF IsZero
    <3> QED
      BY <1>4, <2>2, <3>1, <3>3
  <2> QED
    BY <1>3, <2>3, <2>4, <2>5, <2>6
<1>6. Cardinality(Strays(T, b + 2)) <= m
  <2> DEFINE A == Strays(T, b + 2)
             B == Strays(S, b)
             h == [z \in A |-> IF z <= b THEN z ELSE z - 2]
             Crossing(z) == \E p \in 0 .. b - 1, f \in Frames : /\ Stands(S, b, p, f)
                                                               /\ z - 2 = p + BodyLen(f) + 1
                                                               /\ p + BodyLen(f) >= b
  <2>1. IsFiniteSet(B) /\ Cardinality(B) <= k /\ Cardinality(B) \in Nat /\ Cardinality(A) \in Nat
    BY StraysFinite DEF StreamInv
  <2>2. A \subseteq Nat
    BY <1>3 DEF Strays
  <2>3. \A z \in A : h[z] = IF z <= b THEN z ELSE z - 2
    OBVIOUS
  <2>4. \A z \in A : \/ z = b + 2 /\ c # 0
                     \/ z <= b /\ z \in B
                     \/ z >= b + 3 /\ z - 2 \in B
                     \/ z >= b + 3 /\ c # 0 /\ Crossing(z)
    BY <1>4, StraysInserted
  <2>5. \A y, z \in A : Crossing(y) /\ Crossing(z) => y = z
    <3> SUFFICES ASSUME NEW y \in A, NEW z \in A, Crossing(y), Crossing(z) PROVE y = z
      OBVIOUS
    <3>1. PICK p \in 0 .. b - 1, f \in Frames :
            Stands(S, b, p, f) /\ y - 2 = p + BodyLen(f) + 1 /\ p + BodyLen(f) >= b
      OBVIOUS
    <3>2. PICK q \in 0 .. b - 1, g \in Frames :
            Stands(S, b, q, g) /\ z - 2 = q + BodyLen(g) + 1 /\ q + BodyLen(g) >= b
      OBVIOUS
    <3>3. y - 2 = z - 2
      BY <1>3, <3>1, <3>2, OneAcross
    <3> QED
      BY <2>2, <3>3
  <2> HIDE DEF A, B, h, Crossing
  <2>6. ASSUME NEW E, \A z \in A \ E : z # b + 2 /\ ~(c # 0 /\ Crossing(z))
        PROVE  /\ \A z \in A \ E : h[z] \in B
               /\ \A y, z \in A \ E : h[y] = h[z] => y = z
    <3>1. \A z \in A \ E : \/ z <= b /\ z \in B /\ h[z] = z
                           \/ z >= b + 3 /\ z - 2 \in B /\ h[z] = z - 2
      BY <1>3, <2>2, <2>3, <2>4, <2>6
    <3> QED
      BY <1>3, <2>2, <3>1
  <2>7. CASE c = 0
    <3>1. \A z \in A \ {} : z # b + 2 /\ ~(c # 0 /\ Crossing(z))
      BY <1>3, <2>2, <2>4, <2>7
    <3>2. Cardinality(A) <= Cardinality(B) + Cardinality({})
      BY <2>1, <2>6, <3>1, Few, Recount
    <3> QED
      BY <2>1, <2>7, <3>2, Few DEF A
  <2>8. CASE c # 0
    <3>1. \E e : \A z \in A : Crossing(z) => z = e
      BY <2>5
    <3>2. PICK e : \A z \in A : Crossing(z) => z = e
      BY <3>1
    <3>3. \A z \in A \ {b + 2, e} : z # b + 2 /\ ~(c # 0 /\ Crossing(z))
      BY <3>2
    <3>4. Cardinality(A) <= Cardinality(B) + Cardinality({b + 2, e})
      BY <2>1, <2>6, <3>3, Few, Recount
    <3>5. Cardinality({b + 2, e}) \in Nat /\ Cardinality({b + 2, e}) <= 2
      BY Few
    <3> QED
      BY <2>1, <2>8, <3>4, <3>5 DEF A
  <2> QED
    BY <2>7, <2>8
<1> QED
  BY <1>2, <1>5, <1>6 DEF StreamInv

\* The bridge writes what it has read from the socket, up to the d-th cell.
LEMMA WriteInv ==
  ASSUME NEW S \in Seq(Cells), NEW b \in 0 .. Len(S), NEW d \in b + 1 .. Len(S),
         NEW F, NEW G, NEW X, NEW k \in Nat, NEW m \in Nat, NEW c,
         StreamInv(S, b, F, k, c), Struck(F, G, X),
         c # 0 /\ S[b + 1][1] # c => S[b + 1][1] \in X,
         m = IF c # 0 /\ S[b + 1][1] # c THEN k + 2 ELSE k
  PROVE  StreamInv(S, d, G, m, IF IsZero(S[d]) THEN 0 ELSE S[d][1])
<1>1. Ordered(S) /\ Known(S, b, G) /\ Pending(S, G)
  BY StruckParts DEF StreamInv
<1>2. b \in Nat /\ d \in Nat /\ Len(S) \in Nat /\ b + 1 \in 1 .. Len(S)
  BY LenProperties
<1>3. IsCommand(S[b + 1]) /\ S[b + 1] \in Cells
  BY <1>1, <1>2, ElementOfSeq DEF Known
<1>4. Known(S, d, G)
  BY <1>1, <1>2 DEF Known
<1>5. Half(S, d, IF IsZero(S[d]) THEN 0 ELSE S[d][1])
  <2>1. d \in 1 .. Len(S) /\ d \in b + 1 .. Len(S)
    BY <1>2
  <2>2. S[d][1] > 0
    BY <1>1, <2>1 DEF Known, IsCommand
  <2>3. S[d][1] \in Int
    BY <2>1, ElementOfSeq, CellTypes
  <2>4. S[d][1] # 0
    BY <2>2, <2>3
  <2> QED
    BY <2>4 DEF Half
<1>6. Keeps(S, S, Len(S))
  BY <1>2 DEF Keeps
<1>7. ASSUME NEW f, Stands(S, b, b, f), ~(b = 0 \/ IsZero(S[b]))
      PROVE  c # 0 /\ S[b + 1][1] # c /\ S[b + 1][1] = f
  <2>1. f \in Frames /\ BodyLen(f) \in Nat /\ BodyLen(f) >= 1
    BY <1>7, FrameTypes DEF Stands
  <2>2. S[b + 1] = <<f, 1>>
    <3>1. b + 1 \in b + 1 .. b + BodyLen(f) /\ b + 1 - b = 1
      BY <1>2, <2>1
    <3> QED
      BY <1>7, <3>1 DEF Stands, Whole
  <2>3. S[b + 1][1] = f /\ S[b + 1][2] = 1
    BY <2>2
  <2>4. c # 0 /\ S[b][1] = c
    BY <1>2, <1>7 DEF StreamInv, Half
  <2>5. ASSUME f = c PROVE FALSE
    <3>1. b \in 1 .. Len(S) /\ b < b + 1 /\ IsCommand(S[b])
      BY <1>2, <1>3, <1>7, <2>3, <2>4, <2>5 DEF IsCommand
    <3>2. Before(S[b], S[b + 1])
      BY <1>1, <1>2, <1>3, <3>1 DEF Ordered
    <3>3. S[b][2] \in Nat /\ S[b][2] # 0
      <4>1. S[b] \in Cells
        BY <3>1, ElementOfSeq
      <4> QED
        BY <1>7, <4>1, CellTypes DEF IsZero
    <3>4. ~(S[b][1] < S[b + 1][1])
      BY <2>1, <2>3, <2>4, <2>5, FrameTypes
    <3> QED
      BY <2>3, <3>2, <3>3, <3>4 DEF Before, IsZero
  <2> QED
    BY <2>3, <2>4, <2>5
<1>8. Intact(S, d, G)
  <2> SUFFICES ASSUME NEW f \in 1 .. Len(G), G[f] = "sent"
               PROVE  \E p \in 0 .. Len(S) : Stands(S, d, p, f)
    BY DEF Intact
  <2>1. PICK p \in 0 .. Len(S) : Stands(S, b, p, f)
    BY StillSent DEF StreamInv
  <2>2. f \notin X
    BY StillSent DEF StreamInv
  <2>3. p \in Nat /\ p + BodyLen(f) < Len(S) /\ Len(S) \in 0 .. Len(S)
    BY <1>2, <2>1 DEF Stands, Whole
  <2>4. p = b => b = 0 \/ IsZero(S[b])
    BY <1>7, <2>1, <2>2
  <2>5. Stands(S, d, p, f)
    BY <1>2, <1>6, <2>1, <2>3, <2>4, StandsKept
  <2> QED
    BY <2>5
<1>9. Cardinality(Strays(S, d)) <= m
  <2> DEFINE E == IF c # 0 /\ S[b + 1][1] # c THEN {b + BodyLen(S[b + 1][1]) + 1} ELSE {}
  <2>1. IsFiniteSet(Strays(S, b)) /\ Cardinality(Strays(S, b)) <= k
        /\ Cardinality(Strays(S, b)) \in Nat
    BY StraysFinite DEF StreamInv
  <2>2. Strays(S, d) \subseteq Strays(S, b) \cup E
    <3> SUFFICES ASSUME NEW z \in Strays(S, d), z \notin E PROVE z \in Strays(S, b)
      OBVIOUS
    <3>1. z <= Len(S) /\ Len(S) \in 0 .. Len(S)
      BY <1>2 DEF Strays
    <3>2. \A f \in Frames : Stands(S, b, b, f) /\ z = b + BodyLen(f) + 1
                              => d = b \/ b = 0 \/ IsZero(S[b])
      BY <1>7
    <3> QED
      BY <1>2, <1>6, <3>1, <3>2, StraysKept
  <2>3. IsFiniteSet(E) /\ Cardinality(E) \in Nat
        /\ Cardinality(E) <= IF c # 0 /\ S[b + 1][1] # c THEN 2 ELSE 0
    <3>1. CASE c # 0 /\ S[b + 1][1] # c
      <4>1. IsFiniteSet(E) /\ Cardinality(E) = 1
        BY <3>1, Few
      <4> HIDE DEF E
      <4> QED
        BY <3>1, <4>1
    <3>2. CASE ~(c # 0 /\ S[b + 1][1] # c)
      <4>1. IsFiniteSet(E) /\ Cardinality(E) = 0
        BY <3>2, Few
      <4> HIDE DEF E
      <4> QED
        BY <3>2, <4>1
    <3> QED
      BY <3>1, <3>2
  <2> HIDE DEF E
  <2>4. Cardinality(Strays(S, d)) <= Cardinality(Strays(S, b)) + Cardinality(E)
        /\ Cardinality(Strays(S, d)) \in Nat
    BY <2>1, <2>2, <2>3, Regrown
  <2> QED
    BY <2>1, <2>3, <2>4
<1> QED
  BY <1>1, <1>4, <1>5, <1>8, <1>9 DEF StreamInv

\* A client sends cells of its next command, s.
Sends(S, T, s) ==
  /\ Keeps(S, T, Len(S))
  /\ \A z \in Len(S) + 1 .. Len(T) : T[z][1] = s
  /\ \A y, z \in Len(S) + 1 .. Len(T) : y < z => Before(T[y], T[z])

\* Order, numbers and fates agree with the stream when more is sent.
LEMMA SentParts ==
  ASSUME NEW S \in Seq(Cells), NEW T \in Seq(Cells), NEW b \in 0 .. Len(S), NEW c,
         NEW F, Len(F) \in Nat, NEW G, NEW s, Sends(S, T, s),
         s = Len(F) + 1, Len(G) = s, \A t \in 1 .. Len(F) : G[t] = F[t],
         G[s] \in {"sent", "struck"},
         Ordered(S), Known(S, b, F), Pending(S, F), Half(S, b, c)
  PROVE  Ordered(T) /\ Known(T, b, G) /\ Pending(T, G) /\ Half(T, b, c)
<1>1. /\ b \in Nat /\ Len(S) \in Nat /\ Len(T) \in Nat /\ Len(F) \in Nat /\ s \in Nat
      /\ Len(S) <= Len(T)
  BY LenProperties DEF Sends, Keeps
<1>2. \A z \in 1 .. Len(S) : z \in 1 .. Len(T) /\ T[z] = S[z]
  BY <1>1 DEF Sends, Keeps
<1>3. \A z \in 1 .. Len(T) : z \in 1 .. Len(S) \/ z \in Len(S) + 1 .. Len(T)
  BY <1>1
<1>4. \A z \in Len(S) + 1 .. Len(T) : T[z][1] = s /\ IsCommand(T[z])
  BY <1>1 DEF Sends, IsCommand
<1>5. \A z \in 1 .. Len(S) : IsCommand(S[z]) => S[z][1] \in 1 .. Len(F) /\ S[z][1] < s
  BY <1>1 DEF Known
<1>6. Ordered(T)
  <2> SUFFICES ASSUME NEW y \in 1 .. Len(T), NEW z \in 1 .. Len(T),
                      y < z, IsCommand(T[y]), IsCommand(T[z])
               PROVE  Before(T[y], T[z])
    BY DEF Ordered
  <2>1. CASE z \in 1 .. Len(S)
    <3>1. y \in 1 .. Len(S)
      BY <1>1, <2>1
    <3> QED
      BY <1>2, <2>1, <3>1 DEF Ordered
  <2>2. CASE y \in 1 .. Len(S) /\ z \in Len(S) + 1 .. Len(T)
    BY <1>2, <1>4, <1>5, <2>2 DEF Before
  <2>3. CASE y \in Len(S) + 1 .. Len(T) /\ z \in Len(S) + 1 .. Len(T)
    BY <2>3 DEF Sends
  <2> QED
    BY <1>1, <1>3, <2>1, <2>2, <2>3
<1>7. Known(T, b, G)
  <2>1. ASSUME NEW z \in 1 .. Len(T), IsCommand(T[z]) PROVE T[z][1] \in 1 .. Len(G)
    <3>1. CASE z \in 1 .. Len(S)
      BY <1>1, <1>2, <1>5, <2>1, <3>1
    <3>2. CASE z \in Len(S) + 1 .. Len(T)
      BY <1>1, <1>4, <3>2
    <3> QED
      BY <1>3, <3>1, <3>2
  <2>2. ASSUME NEW z \in b + 1 .. Len(T) PROVE IsCommand(T[z])
    <3>1. CASE z \in 1 .. Len(S)
      BY <1>1, <1>2, <3>1 DEF Known
    <3>2. CASE z \in Len(S) + 1 .. Len(T)
      BY <1>4, <3>2
    <3> QED
      BY <1>1, <1>3, <3>1, <3>2
  <2> QED
    BY <2>1, <2>2 DEF Known
<1>8. Pending(T, G)
  <2>1. \A t \in 1 .. Len(G) : t \in 1 .. Len(F) \/ t = s
    BY <1>1
  <2>2. \A t \in 1 .. Len(G) : G[t] # "twice"
    BY <2>1 DEF Pending
  <2>3. ASSUME NEW z \in 1 .. Len(T), IsCommand(T[z]), ~IsZero(T[z])
        PROVE  /\ G[T[z][1]] \in {"sent", "struck"}
               /\ \A t \in 1 .. Len(G) : G[t] \in {"queued", "refused"} => t < T[z][1]
    <3>1. CASE z \in 1 .. Len(S)
      <4>1. T[z] = S[z] /\ S[z][1] \in 1 .. Len(F)
        BY <1>2, <1>5, <2>3, <3>1
      <4>2. F[S[z][1]] \in {"sent", "struck"}
            /\ \A t \in 1 .. Len(F) : F[t] \in {"queued", "refused"} => t < S[z][1]
        BY <2>3, <3>1, <4>1 DEF Pending
      <4> QED
        BY <2>1, <4>1, <4>2
    <3>2. CASE z \in Len(S) + 1 .. Len(T)
      <4>1. T[z][1] = s
        BY <1>4, <3>2
      <4>2. \A t \in 1 .. Len(F) : t < s
        BY <1>1
      <4> QED
        BY <2>1, <4>1, <4>2
    <3> QED
      BY <1>3, <3>1, <3>2
  <2> QED
    BY <2>2, <2>3 DEF Pending
<1>9. Half(T, b, c)
  BY <1>1, <1>2 DEF Half
<1> QED
  BY <1>6, <1>7, <1>8, <1>9

\* n cells of the body of command s, and the rest of T.
Bodied(S, T, s, n) ==
  /\ Keeps(S, T, Len(S)) /\ Len(S) + n <= Len(T)
  /\ \A z \in Len(S) + 1 .. Len(S) + n : T[z] = <<s, z - Len(S)>>

\* The cells of one command come in their order, and the zero comes last.
LEMMA SentBefore ==
  ASSUME NEW S \in Seq(Cells), NEW T \in Seq(Cells), NEW s \in Nat, NEW n \in Nat,
         Bodied(S, T, s, n),
         \/ Len(T) = Len(S) + n
         \/ Len(T) = Len(S) + n + 1 /\ T[Len(S) + n + 1] = <<s, 0>>
  PROVE  /\ Sends(S, T, s)
         /\ \A z \in Len(S) + 1 .. Len(S) + n : ~IsZero(T[z])
<1>1. Len(S) \in Nat /\ Len(T) \in Nat
  BY LenProperties
<1>2. \A z \in Len(S) + 1 .. Len(S) + n :
        T[z][1] = s /\ T[z][2] = z - Len(S) /\ ~IsZero(T[z])
  <2> SUFFICES ASSUME NEW z \in Len(S) + 1 .. Len(S) + n
               PROVE  T[z][1] = s /\ T[z][2] = z - Len(S) /\ ~IsZero(T[z])
    OBVIOUS
  <2>1. T[z] = <<s, z - Len(S)>> /\ z - Len(S) # 0
    BY <1>1 DEF Bodied
  <2> QED
    BY <2>1 DEF IsZero
<1>3. \A z \in Len(S) + 1 .. Len(T) :
        z \in Len(S) + 1 .. Len(S) + n \/ (z = Len(T) /\ T[z][1] = s /\ IsZero(T[z]))
  <2>1. CASE Len(T) = Len(S) + n
    BY <1>1, <2>1
  <2>2. CASE Len(T) = Len(S) + n + 1 /\ T[Len(S) + n + 1] = <<s, 0>>
    <3>1. T[Len(T)][1] = s /\ IsZero(T[Len(T)])
      BY <2>2 DEF IsZero
    <3>2. \A z \in Len(S) + 1 .. Len(T) : z \in Len(S) + 1 .. Len(S) + n \/ z = Len(T)
      <4>1. Len(T) = Len(S) + n + 1
        BY <2>2
      <4> QED
        BY <1>1, <4>1, SMTT(30)
    <3> QED
      BY <3>1, <3>2
  <2> QED
    BY <2>1, <2>2
<1>4. \A y, z \in Len(S) + 1 .. Len(T) : y < z => Before(T[y], T[z])
  <2> SUFFICES ASSUME NEW y \in Len(S) + 1 .. Len(T), NEW z \in Len(S) + 1 .. Len(T), y < z
               PROVE  Before(T[y], T[z])
    OBVIOUS
  <2>1. y \in Len(S) + 1 .. Len(S) + n
    BY <1>1, <1>3
  <2>2. T[y][1] = s /\ T[y][2] = y - Len(S) /\ ~IsZero(T[y])
    BY <1>2, <2>1
  <2>3. CASE z \in Len(S) + 1 .. Len(S) + n
    <3>1. T[z][1] = s /\ T[z][2] = z - Len(S)
      BY <1>2, <2>3
    <3> QED
      BY <1>1, <2>2, <3>1 DEF Before
  <2>4. CASE T[z][1] = s /\ IsZero(T[z])
    BY <2>2, <2>4 DEF Before
  <2> QED
    BY <1>3, <2>3, <2>4
<1> QED
  BY <1>2, <1>3, <1>4 DEF Sends, Bodied

\* A command that stands in S stands in what follows on S.
LEMMA StandsOn ==
  ASSUME NEW S \in Seq(Cells), NEW T \in Seq(Cells), NEW b \in 0 .. Len(S),
         Keeps(S, T, Len(S)), NEW p \in 0 .. Len(S), NEW f, Stands(S, b, p, f)
  PROVE  Stands(T, b, p, f)
<1>1. Len(S) \in Nat /\ b \in Nat /\ p \in Nat /\ Len(S) \in 0 .. Len(S)
  BY LenProperties
<1>2. p + BodyLen(f) < Len(S)
  BY DEF Stands, Whole
<1> QED
  BY <1>1, <1>2, StandsKept

\* The strays of what follows on S were strays of S, or are new.
LEMMA StraysOn ==
  ASSUME NEW S \in Seq(Cells), NEW T \in Seq(Cells), NEW b \in 0 .. Len(S),
         Keeps(S, T, Len(S)), NEW z \in Strays(T, b), z <= Len(S)
  PROVE  z \in Strays(S, b)
<1>1. Len(S) \in Nat /\ b \in Nat /\ Len(S) \in 0 .. Len(S)
  BY LenProperties
<1> QED
  BY <1>1, StraysKept

\* A client leaves within its next command.
LEMMA LeaveInv ==
  ASSUME NEW S \in Seq(Cells), NEW T \in Seq(Cells), NEW b \in 0 .. Len(S),
         NEW F, Len(F) \in Nat, NEW G, NEW k \in Nat, NEW c,
         StreamInv(S, b, F, k, c), NEW s, s = Len(F) + 1,
         NEW n \in Nat, Bodied(S, T, s, n), Len(T) = Len(S) + n,
         Len(G) = s, \A t \in 1 .. Len(F) : G[t] = F[t], G[s] = "struck"
  PROVE  StreamInv(T, b, G, k, c)
<1>1. Len(S) \in Nat /\ Len(T) \in Nat /\ Len(F) \in Nat /\ s \in Nat
  BY LenProperties
<1>2. Keeps(S, T, Len(S))
  BY DEF Bodied
<1>3. Sends(S, T, s) /\ \A z \in Len(S) + 1 .. Len(T) : ~IsZero(T[z])
  BY <1>1, SentBefore
<1>4. Ordered(T) /\ Known(T, b, G) /\ Pending(T, G) /\ Half(T, b, c)
  BY <1>3, SentParts DEF StreamInv
<1>5. Intact(T, b, G)
  <2> SUFFICES ASSUME NEW f \in 1 .. Len(G), G[f] = "sent"
               PROVE  \E p \in 0 .. Len(T) : Stands(T, b, p, f)
    BY DEF Intact
  <2>1. f \in 1 .. Len(F) /\ F[f] = "sent"
    <3>1. f # s
      OBVIOUS
    <3> QED
      BY <1>1, <3>1
  <2>2. PICK p \in 0 .. Len(S) : Stands(S, b, p, f)
    BY <2>1 DEF StreamInv, Intact
  <2>3. Stands(T, b, p, f)
    BY <1>2, <2>2, StandsOn
  <2> QED
    BY <2>3 DEF Stands
<1>6. Cardinality(Strays(T, b)) <= k
  <2>1. IsFiniteSet(Strays(S, b)) /\ Cardinality(Strays(S, b)) <= k
        /\ Cardinality(Strays(S, b)) \in Nat
    BY StraysFinite DEF StreamInv
  <2>2. ASSUME NEW z \in Strays(T, b) PROVE z \in Strays(S, b)
    <3>1. z \in 2 .. Len(T) /\ IsZero(T[z])
      BY DEF Strays
    <3>2. z <= Len(S)
      BY <1>1, <1>3, <3>1
    <3> QED
      BY <1>2, <3>2, StraysOn
  <2>3. Strays(T, b) \subseteq Strays(S, b) \cup {}
    BY <2>2
  <2>4. Cardinality(Strays(T, b)) <= Cardinality(Strays(S, b)) + 0
        /\ Cardinality(Strays(T, b)) \in Nat
    BY <2>1, <2>3, Regrown, Few
  <2> QED
    BY <2>1, <2>4
<1> QED
  BY <1>4, <1>5, <1>6 DEF StreamInv

\* A client sends its next command.
LEMMA SendInv ==
  ASSUME NEW S \in Seq(Cells), NEW T \in Seq(Cells), NEW b \in 0 .. Len(S),
         NEW F, Len(F) \in Nat, NEW G, NEW k \in Nat, NEW m \in Nat, NEW c,
         StreamInv(S, b, F, k, c), NEW s \in Frames, s = Len(F) + 1,
         Bodied(S, T, s, BodyLen(s)), Len(T) = Len(S) + BodyLen(s) + 1, T[Len(T)] = <<s, 0>>,
         Len(S) = b \/ IsZero(S[Len(S)]),
         Len(G) = s, \A t \in 1 .. Len(F) : G[t] = F[t],
         \/ BodyLen(s) <= CmdBufCap /\ G[s] = "sent" /\ m = k
         \/ G[s] = "struck" /\ m = k + 1
  PROVE  StreamInv(T, b, G, m, c)
<1>1. /\ Len(S) \in Nat /\ Len(T) \in Nat /\ Len(F) \in Nat /\ s \in Nat /\ b \in Nat
      /\ BodyLen(s) \in Nat
  BY LenProperties, FrameTypes
<1>2. Keeps(S, T, Len(S))
  BY DEF Bodied
<1>3. Sends(S, T, s) /\ \A z \in Len(S) + 1 .. Len(S) + BodyLen(s) : ~IsZero(T[z])
  BY <1>1, SentBefore
<1>4. Ordered(T) /\ Known(T, b, G) /\ Pending(T, G) /\ Half(T, b, c)
  BY <1>3, SentParts DEF StreamInv
<1>5. BodyLen(s) <= CmdBufCap => Stands(T, b, Len(S), s)
  <2>1. Begins(T, b, Len(S))
    <3>1. CASE Len(S) \in {0, b}
      BY <3>1 DEF Begins
    <3>2. CASE Len(S) # 0 /\ IsZero(S[Len(S)])
      <4>1. Len(S) \in 1 .. Len(S)
        BY <1>1, <3>2
      <4> QED
        BY <1>2, <3>2, <4>1 DEF Begins, Keeps
    <3> QED
      BY <3>1, <3>2
  <2>2. Whole(T, Len(S), s)
    BY <1>1, SMTT(30) DEF Whole, Bodied
  <2> QED
    BY <1>1, <2>1, <2>2 DEF Stands
<1>6. Intact(T, b, G)
  <2> SUFFICES ASSUME NEW f \in 1 .. Len(G), G[f] = "sent"
               PROVE  \E p \in 0 .. Len(T) : Stands(T, b, p, f)
    BY DEF Intact
  <2>1. CASE f = s
    BY <1>5, <2>1 DEF Stands
  <2>2. CASE f # s
    <3>1. f \in 1 .. Len(F) /\ F[f] = "sent"
      BY <1>1, <2>2, SMTT(30)
    <3>2. PICK p \in 0 .. Len(S) : Stands(S, b, p, f)
      BY <3>1 DEF StreamInv, Intact
    <3>3. Stands(T, b, p, f)
      BY <1>2, <3>2, StandsOn
    <3> QED
      BY <3>3 DEF Stands
  <2> QED
    BY <2>1, <2>2
<1>7. Cardinality(Strays(T, b)) <= m
  <2>1. IsFiniteSet(Strays(S, b)) /\ Cardinality(Strays(S, b)) <= k
        /\ Cardinality(Strays(S, b)) \in Nat
    BY StraysFinite DEF StreamInv
  <2>2. ASSUME NEW z \in Strays(T, b), z # Len(T) PROVE z \in Strays(S, b)
    <3>1. z \in 2 .. Len(T) /\ IsZero(T[z])
      BY DEF Strays
    <3>2. z <= Len(S)
      <4>1. z \notin Len(S) + 1 .. Len(S) + BodyLen(s)
        BY <1>3, <3>1
      <4> QED
        BY <1>1, <2>2, <3>1, <4>1, SMTT(30)
    <3> QED
      BY <1>2, <3>2, StraysOn
  <2>3. CASE m = k + 1
    <3>1. Strays(T, b) \subseteq Strays(S, b) \cup {Len(T)}
      BY <2>2
    <3>2. Cardinality(Strays(T, b)) <= Cardinality(Strays(S, b)) + 1
          /\ Cardinality(Strays(T, b)) \in Nat
      BY <2>1, <3>1, Regrown, Few, ZenonT(30)
    <3> QED
      BY <2>1, <2>3, <3>2
  <2>4. CASE BodyLen(s) <= CmdBufCap /\ m = k
    <3>1. Len(T) \notin Strays(T, b)
      <4>1. T[Len(T)][1] = s
        OBVIOUS
      <4>2. Len(T) - 1 - BodyLen(s) = Len(S)
        BY <1>1, SMTT(30)
      <4> QED
        BY <1>5, <2>4, <4>1, <4>2 DEF Strays
    <3>2. Strays(T, b) \subseteq Strays(S, b) \cup {}
      BY <2>2, <3>1
    <3>3. Cardinality(Strays(T, b)) <= Cardinality(Strays(S, b)) + 0
          /\ Cardinality(Strays(T, b)) \in Nat
      BY <2>1, <3>2, Regrown, Few
    <3> QED
      BY <2>1, <2>4, <3>3
  <2> QED
    BY <2>3, <2>4
<1> QED
  BY <1>4, <1>6, <1>7 DEF StreamInv

-----------------------------------------------------------------------------
(* From the buffers and wires to the stream.                                 *)

\* The two parts of a sequence, element by element.
LEMMA Sliced ==
  ASSUME NEW D, NEW s \in Seq(D), NEW n \in 0 .. Len(s)
  PROVE  /\ SubSeq(s, 1, n) \in Seq(D) /\ Len(SubSeq(s, 1, n)) = n
         /\ \A i \in 1 .. n : SubSeq(s, 1, n)[i] = s[i]
         /\ SubSeq(s, n + 1, Len(s)) \in Seq(D)
         /\ Len(SubSeq(s, n + 1, Len(s))) = Len(s) - n
         /\ \A i \in 1 .. Len(s) - n : SubSeq(s, n + 1, Len(s))[i] = s[n + i]
<1>1. Len(s) \in Nat /\ n \in Nat /\ \A i \in 1 .. Len(s) : s[i] \in D
  BY LenProperties, ElementOfSeq
<1>2. /\ SubSeq(s, 1, n) \in Seq(D) /\ Len(SubSeq(s, 1, n)) = n
      /\ \A i \in 1 .. n : SubSeq(s, 1, n)[i] = s[i]
  <2>1. \A i \in 1 .. n : s[i] \in D
    BY <1>1
  <2>2. /\ SubSeq(s, 1, n) \in Seq(D)
        /\ Len(SubSeq(s, 1, n)) = IF 1 <= n THEN n - 1 + 1 ELSE 0
        /\ \A i \in 1 .. n - 1 + 1 : SubSeq(s, 1, n)[i] = s[1 + i - 1]
    BY <1>1, <2>1, SubSeqProperties
  <2>3. \A i \in 1 .. n : i \in 1 .. n - 1 + 1 /\ 1 + i - 1 = i
    BY <1>1
  <2> QED
    BY <1>1, <2>2, <2>3
<1>3. /\ SubSeq(s, n + 1, Len(s)) \in Seq(D)
      /\ Len(SubSeq(s, n + 1, Len(s))) = Len(s) - n
      /\ \A i \in 1 .. Len(s) - n : SubSeq(s, n + 1, Len(s))[i] = s[n + i]
  <2>1. \A i \in n + 1 .. Len(s) : s[i] \in D
    BY <1>1
  <2>2. n + 1 \in Int /\ Len(s) \in Int
    BY <1>1
  <2>3. /\ SubSeq(s, n + 1, Len(s)) \in Seq(D)
        /\ Len(SubSeq(s, n + 1, Len(s)))
             = IF n + 1 <= Len(s) THEN Len(s) - (n + 1) + 1 ELSE 0
        /\ \A i \in 1 .. Len(s) - (n + 1) + 1 :
             SubSeq(s, n + 1, Len(s))[i] = s[(n + 1) + i - 1]
    BY <2>1, <2>2, SubSeqProperties
  <2>4. \A i \in 1 .. Len(s) - n : i \in 1 .. Len(s) - (n + 1) + 1 /\ (n + 1) + i - 1 = n + i
    BY <1>1
  <2> QED
    BY <1>1, <2>3, <2>4
<1> QED
  BY <1>2, <1>3

\* Three sequences in a row, element by element.
LEMMA Joined ==
  ASSUME NEW D, NEW u \in Seq(D), NEW v \in Seq(D), NEW w \in Seq(D)
  PROVE  /\ u \o v \o w \in Seq(D)
         /\ Len(u) \in Nat /\ Len(v) \in Nat /\ Len(w) \in Nat
         /\ Len(u \o v \o w) = Len(u) + Len(v) + Len(w)
         /\ \A z \in 1 .. Len(u) : (u \o v \o w)[z] = u[z]
         /\ \A z \in Len(u) + 1 .. Len(u) + Len(v) : (u \o v \o w)[z] = v[z - Len(u)]
         /\ \A z \in Len(u) + Len(v) + 1 .. Len(u) + Len(v) + Len(w) :
              (u \o v \o w)[z] = w[z - (Len(u) + Len(v))]
<1>1. Len(u) \in Nat /\ Len(v) \in Nat /\ Len(w) \in Nat
  BY LenProperties
<1>2. /\ u \o v \in Seq(D) /\ Len(u \o v) = Len(u) + Len(v)
      /\ \A i \in 1 .. Len(u) + Len(v) :
           (u \o v)[i] = IF i <= Len(u) THEN u[i] ELSE v[i - Len(u)]
  BY ConcatProperties
<1>3. /\ (u \o v) \o w \in Seq(D) /\ Len((u \o v) \o w) = Len(u \o v) + Len(w)
      /\ \A i \in 1 .. Len(u \o v) + Len(w) :
           ((u \o v) \o w)[i] = IF i <= Len(u \o v) THEN (u \o v)[i] ELSE w[i - Len(u \o v)]
  BY <1>2, ConcatProperties
<1> QED
  BY <1>1, <1>2, <1>3

\* The cells that have been written and not been decoded.
Written == Len(cmd_buf) + Len(e2s)

LinkInv ==
  /\ LinkTypeOK
  /\ \A i \in 1 .. Len(cmd_buf) : ~IsZero(cmd_buf[i])
  /\ conn \in {"none", "rst"} => c2e = <<>>
  /\ conn = "up" => c2e = <<>> \/ IsZero(c2e[Len(c2e)])
  /\ StreamInv(Stream, Written, fate, credit, cut)

\* Of a stream of well-formed parts.
LEMMA StreamTypes ==
  ASSUME cmd_buf \in Seq(Cells), e2s \in Seq(Cells), c2e \in Seq(Cells)
  PROVE  /\ Stream \in Seq(Cells)
         /\ Len(cmd_buf) \in Nat /\ Len(e2s) \in Nat /\ Len(c2e) \in Nat
         /\ Written \in Nat /\ Written = Len(cmd_buf) + Len(e2s)
         /\ Len(Stream) = Written + Len(c2e) /\ Written \in 0 .. Len(Stream)
         /\ \A z \in 1 .. Len(cmd_buf) : Stream[z] = cmd_buf[z]
         /\ \A z \in Len(cmd_buf) + 1 .. Written : Stream[z] = e2s[z - Len(cmd_buf)]
         /\ \A z \in Written + 1 .. Len(Stream) : Stream[z] = c2e[z - Written]
<1>1. /\ Stream \in Seq(Cells)
      /\ Len(cmd_buf) \in Nat /\ Len(e2s) \in Nat /\ Len(c2e) \in Nat
      /\ Len(Stream) = Len(cmd_buf) + Len(e2s) + Len(c2e)
      /\ \A z \in 1 .. Len(cmd_buf) : Stream[z] = cmd_buf[z]
      /\ \A z \in Len(cmd_buf) + 1 .. Len(cmd_buf) + Len(e2s) :
           Stream[z] = e2s[z - Len(cmd_buf)]
      /\ \A z \in Len(cmd_buf) + Len(e2s) + 1 .. Len(cmd_buf) + Len(e2s) + Len(c2e) :
           Stream[z] = c2e[z - (Len(cmd_buf) + Len(e2s))]
  BY Joined DEF Stream
<1> QED
  BY <1>1 DEF Written

\* The same after a step.
LEMMA NextStreamTypes ==
  ASSUME cmd_buf' \in Seq(Cells), e2s' \in Seq(Cells), c2e' \in Seq(Cells)
  PROVE  /\ Stream' \in Seq(Cells)
         /\ Len(cmd_buf') \in Nat /\ Len(e2s') \in Nat /\ Len(c2e') \in Nat
         /\ Written' \in Nat /\ Written' = Len(cmd_buf') + Len(e2s')
         /\ Len(Stream') = Written' + Len(c2e') /\ Written' \in 0 .. Len(Stream')
         /\ \A z \in 1 .. Len(cmd_buf') : Stream'[z] = cmd_buf'[z]
         /\ \A z \in Len(cmd_buf') + 1 .. Written' : Stream'[z] = e2s'[z - Len(cmd_buf')]
         /\ \A z \in Written' + 1 .. Len(Stream') : Stream'[z] = c2e'[z - Written']
<1>1. /\ Stream' \in Seq(Cells)
      /\ Len(cmd_buf') \in Nat /\ Len(e2s') \in Nat /\ Len(c2e') \in Nat
      /\ Len(Stream') = Len(cmd_buf') + Len(e2s') + Len(c2e')
      /\ \A z \in 1 .. Len(cmd_buf') : Stream'[z] = cmd_buf'[z]
      /\ \A z \in Len(cmd_buf') + 1 .. Len(cmd_buf') + Len(e2s') :
           Stream'[z] = e2s'[z - Len(cmd_buf')]
      /\ \A z \in Len(cmd_buf') + Len(e2s') + 1 .. Len(cmd_buf') + Len(e2s') + Len(c2e') :
           Stream'[z] = c2e'[z - (Len(cmd_buf') + Len(e2s'))]
  BY Joined DEF Stream
<1> QED
  BY <1>1 DEF Written

\* Two streams of the same length with the same cells are the same.
LEMMA SameStream ==
  ASSUME NEW S \in Seq(Cells), NEW T \in Seq(Cells), Keeps(S, T, Len(S)), Len(T) = Len(S)
  PROVE  T = S
BY SeqEqual DEF Keeps

\* The promise holds of a disturbance.
LEMMA StrikeStep ==
  ASSUME fate \in Seq({"sent", "struck", "queued", "refused", "twice"}), credit \in Nat,
         NEW X, NEW n \in 0 .. 2, Strike(X, n)
  PROVE  /\ Struck(fate, fate', X) /\ Len(fate') = Len(fate) /\ DOMAIN fate' = DOMAIN fate
         /\ fate' \in Seq({"sent", "struck", "queued", "refused", "twice"})
         /\ credit' = credit + n /\ credit' \in Nat
         /\ Promised!CNext
<1> DEFINE Fs == {"sent", "struck", "queued", "refused", "twice"}
<1>1. Len(fate) \in Nat /\ DOMAIN fate = 1 .. Len(fate) /\ \A s \in 1 .. Len(fate) : fate[s] \in Fs
  BY LenProperties, ElementOfSeq
<1>2. fate' = [s \in 1 .. Len(fate) |->
                 IF s \in X /\ fate[s] = "sent" THEN "struck" ELSE fate[s]]
  BY <1>1 DEF Strike
<1>3. fate' \in [1 .. Len(fate) -> Fs]
  BY <1>1, <1>2
<1>4. fate' \in Seq(Fs)
  BY <1>1, <1>3, SeqDef
<1>5. DOMAIN fate' = 1 .. Len(fate')  /\ Len(fate') \in Nat
  BY <1>4, LenProperties
<1>6. Len(fate') = Len(fate)
  BY <1>1, <1>3, <1>5
<1>7. Struck(fate, fate', X)
  BY <1>2, <1>6 DEF Struck
<1>8. credit' = credit + n /\ credit' \in credit .. credit + 2
  BY DEF Strike
<1>9. Promised!Disturb
  <2> DEFINE Y == X \cap Promised!With({"sent"})
  <2>1. fate' = [s \in DOMAIN fate |-> IF s \in Y THEN "struck" ELSE fate[s]]
    BY <1>1, <1>2 DEF Promised!With
  <2>2. Y \in SUBSET Promised!With({"sent"})
    OBVIOUS
  <2> HIDE DEF Y
  <2> QED
    BY <1>8, <2>1, <2>2 DEF Promised!Disturb
<1> QED
  BY <1>1, <1>4, <1>5, <1>6, <1>7, <1>8, <1>9 DEF Promised!CNext

-----------------------------------------------------------------------------
(* The invariant, action by action.                                          *)

\* What LinkTypeOK says of the parts of the state no stream is made of.
BoardsOK ==
  /\ cmd_in \in Queue
  /\ booting \in BOOLEAN /\ attempts \in 0..BootRetries
  /\ fifo \in Seq({Hello, ForClient, Mangled}) /\ Len(fifo) <= FifoCap
  /\ conn \in {"none", "up", "fin", "rst"}
  /\ faults \in 0..MaxFaults

\* What popping and pushing leave of the queue.
LEMMA QueueTypes ==
  ASSUME NEW q \in Queue
  PROVE  /\ <<>> \in Queue
         /\ q # <<>> => /\ Tail(q) \in Queue
                        /\ Head(q) \in {Hello, HelloAck, AnyCommand, EmergencyStop}
         /\ \A e \in {Hello, HelloAck, AnyCommand, EmergencyStop} :
              Len(q) < QueueCap => Append(q, e) \in Queue
<1> DEFINE D == {Hello, HelloAck, AnyCommand, EmergencyStop}
<1>1. q \in Seq(D) /\ Len(q) <= QueueCap /\ Len(q) \in Nat
  BY LenProperties DEF Queue
<1>2. QueueCap \in Nat
  BY LinkAssumption
<1>3. <<>> \in Queue
  <2>1. <<>> \in Seq(D) /\ Len(<<>>) = 0
    BY EmptySeq
  <2> QED
    BY <1>2, <2>1 DEF Queue
<1>4. ASSUME q # <<>> PROVE Tail(q) \in Queue /\ Head(q) \in D
  <2>1. Head(q) \in D /\ Tail(q) \in Seq(D) /\ Len(Tail(q)) = Len(q) - 1
    BY <1>1, <1>4, HeadTailProperties
  <2> QED
    BY <1>1, <1>2, <2>1 DEF Queue
<1>5. ASSUME NEW e \in D, Len(q) < QueueCap PROVE Append(q, e) \in Queue
  <2>1. Append(q, e) \in Seq(D) /\ Len(Append(q, e)) = Len(q) + 1
    BY <1>1, AppendProperties
  <2> QED
    BY <1>1, <1>2, <1>5, <2>1 DEF Queue
<1> QED
  BY <1>3, <1>4, <1>5

\* What a transmission leaves of the FIFO.
LEMMA TransmitTypes ==
  ASSUME fifo \in Seq({Hello, ForClient, Mangled}), Len(fifo) <= FifoCap,
         NEW f \in {Hello, ForClient, Mangled}, Transmit(f)
  PROVE  fifo' \in Seq({Hello, ForClient, Mangled}) /\ Len(fifo') <= FifoCap
<1> DEFINE D == {Hello, ForClient, Mangled}
<1>1. FifoCap \in Nat /\ Len(fifo) \in Nat
  BY LinkAssumption, LenProperties
<1>2. \A e \in D : Append(fifo, e) \in Seq(D) /\ Len(Append(fifo, e)) = Len(fifo) + 1
  BY AppendProperties
<1>3. <<>> \in Seq(D) /\ Len(<<>>) = 0
  BY EmptySeq
<1>4. CASE Len(fifo) < FifoCap
  <2>1. fifo' = Append(fifo, f) \/ fifo' = Append(fifo, Mangled)
    BY <1>4 DEF Transmit
  <2> QED
    BY <1>1, <1>2, <1>4, <2>1
<1>5. CASE ~(Len(fifo) < FifoCap)
  <2>1. fifo' = fifo \/ fifo' = <<>>
    BY <1>5 DEF Transmit
  <2>2. CASE fifo' = fifo
    BY <2>2
  <2>3. CASE fifo' = <<>>
    <3>1. Len(<<>>) <= FifoCap
      BY <1>1, <1>3
    <3> QED
      BY <1>3, <2>3, <3>1, Zenon
  <2> QED
    BY <2>1, <2>2, <2>3
<1> QED
  BY <1>4, <1>5

\* Steps that touch neither the buffers nor the wires of the stream.
LEMMA Aside ==
  ASSUME LinkInv, UNCHANGED <<cmd_buf, e2s, c2e, faults, ghosts>>, BoardsOK',
         conn' = conn \/ (conn = "none" /\ conn' = "up")
  PROVE  LinkInv' /\ [Promised!CNext]_<<fate, credit>>
<1>1. UNCHANGED <<cmd_buf, e2s, c2e, faults, fate, credit, cut>>
  BY DEF ghosts
<1>2. Stream' = Stream /\ Written' = Written
  BY <1>1 DEF Stream, Written
<1>3. StreamInv(Stream', Written', fate', credit', cut')
  BY <1>1, <1>2 DEF LinkInv
<1>4. LinkTypeOK'
  BY <1>1 DEF LinkInv, LinkTypeOK, BoardsOK
<1> QED
  BY <1>1, <1>3, <1>4 DEF LinkInv

\* What BOOT keeps of the queue is again one.
LEMMA KeptQueue ==
  ASSUME NEW q \in Queue, NEW drained
  PROVE  Kept(q, drained) \in Queue
<1> DEFINE D == {Hello, HelloAck, AnyCommand, EmergencyStop}
<1>1. q \in Seq(D) /\ Len(q) <= QueueCap /\ Len(q) \in Nat
  BY LenProperties DEF Queue
<1>2. Kept(q, drained) \in Seq(D) /\ Len(Kept(q, drained)) <= Len(q)
  BY <1>1, KeptType
<1>3. Len(Kept(q, drained)) \in Nat /\ QueueCap \in Nat
  BY <1>2, LenProperties, LinkAssumption
<1> QED
  BY <1>1, <1>2, <1>3 DEF Queue

\* An iteration of state_manager.
LEMMA IterateInv ==
  ASSUME LinkInv, Iterate
  PROVE  LinkInv' /\ [Promised!CNext]_<<fate, credit>>
<1>1. BoardsOK
  BY DEF LinkInv, LinkTypeOK, BoardsOK
<1> DEFINE popped == IF cmd_in = <<>> THEN Nothing ELSE Head(cmd_in)
           rest   == IF cmd_in = <<>> THEN <<>> ELSE Tail(cmd_in)
           acked  == Contains(rest, HelloAck)
<1>2. rest \in Queue
  BY <1>1, QueueTypes DEF BoardsOK
<1>3. Kept(rest, {HelloAck}) \in Queue
  BY <1>2, KeptQueue
<1>4. UNCHANGED <<cmd_buf, e2s, c2e, conn, faults, ghosts>>
  BY DEF Iterate
<1>5. \/ /\ Transmit(ForClient) /\ cmd_in' = rest
         /\ UNCHANGED <<booting, attempts>>
      \/ /\ Transmit(Hello) /\ cmd_in' = Kept(rest, {HelloAck})
         /\ booting' = ~(acked \/ attempts >= BootRetries)
         /\ attempts' = IF booting' THEN attempts + 1 ELSE 0
      \/ /\ cmd_in' = rest /\ booting' = FALSE
         /\ UNCHANGED <<attempts, fifo>>
  BY DEF Iterate
<1> HIDE DEF popped, rest, acked
<1>6. BootRetries \in Nat
  BY LinkAssumption
<1>7. BoardsOK'
  <2>1. CASE Transmit(ForClient) /\ cmd_in' = rest /\ UNCHANGED <<booting, attempts>>
    <3>1. fifo' \in Seq({Hello, ForClient, Mangled}) /\ Len(fifo') <= FifoCap
      BY <1>1, <2>1, TransmitTypes DEF BoardsOK
    <3> QED
      BY <1>1, <1>2, <1>4, <2>1, <3>1 DEF BoardsOK
  <2>2. CASE /\ Transmit(Hello) /\ cmd_in' = Kept(rest, {HelloAck})
             /\ booting' = ~(acked \/ attempts >= BootRetries)
             /\ attempts' = IF booting' THEN attempts + 1 ELSE 0
    <3>1. fifo' \in Seq({Hello, ForClient, Mangled}) /\ Len(fifo') <= FifoCap
      BY <1>1, <2>2, TransmitTypes DEF BoardsOK
    <3>2. booting' \in BOOLEAN
      BY <2>2
    <3>3. booting' => ~(attempts >= BootRetries)
      BY <2>2
    <3>4. attempts' \in 0..BootRetries
      BY <1>1, <1>6, <2>2, <3>3 DEF BoardsOK
    <3> QED
      BY <1>1, <1>4, <1>3, <2>2, <3>1, <3>2, <3>4 DEF BoardsOK
  <2>3. CASE cmd_in' = rest /\ booting' = FALSE /\ UNCHANGED <<attempts, fifo>>
    BY <1>1, <1>2, <1>4, <2>3 DEF BoardsOK
  <2> QED
    BY <1>5, <2>1, <2>2, <2>3
<1> QED
  BY <1>4, <1>7, Aside

\* A frame of telemetry.
LEMMA TelemetryInv ==
  ASSUME LinkInv, TelemetryTask
  PROVE  LinkInv' /\ [Promised!CNext]_<<fate, credit>>
<1>1. BoardsOK
  BY DEF LinkInv, LinkTypeOK, BoardsOK
<1>2. UNCHANGED <<stm, e2s, c2e, conn, faults, ghosts>> /\ Transmit(ForClient)
  BY DEF TelemetryTask
<1>3. fifo' \in Seq({Hello, ForClient, Mangled}) /\ Len(fifo') <= FifoCap
  BY <1>1, <1>2, TransmitTypes DEF BoardsOK
<1>4. BoardsOK' /\ UNCHANGED <<cmd_buf, e2s, c2e, faults, ghosts>> /\ conn' = conn
  BY <1>1, <1>2, <1>3 DEF BoardsOK, stm
<1> QED
  BY <1>4, Aside

\* A client connects.
LEMMA ConnectInv ==
  ASSUME LinkInv, Connect
  PROVE  LinkInv' /\ [Promised!CNext]_<<fate, credit>>
<1>1. BoardsOK
  BY DEF LinkInv, LinkTypeOK, BoardsOK
<1>2. /\ BoardsOK' /\ UNCHANGED <<cmd_buf, e2s, c2e, faults, ghosts>>
      /\ conn = "none" /\ conn' = "up"
  BY <1>1 DEF Connect, BoardsOK, stm
<1> QED
  BY <1>2, Aside

\* What uart4_rx has collected is gone, with the byte it was dealing with.
LEMMA CollectedDrops ==
  ASSUME cmd_buf \in Seq(Cells), e2s \in Seq(Cells), c2e \in Seq(Cells),
         e2s # <<>>, e2s' = Tail(e2s), cmd_buf' = <<>>, c2e' = c2e
  PROVE  /\ Drops(Stream, Stream', Len(cmd_buf) + 1)
         /\ Written' = Written - (Len(cmd_buf) + 1)
         /\ Len(cmd_buf) + 1 \in 1 .. Written
         /\ Stream[Len(cmd_buf) + 1] = Head(e2s)
         /\ cmd_buf' \in Seq(Cells) /\ e2s' \in Seq(Cells) /\ c2e' \in Seq(Cells)
         /\ Len(cmd_buf') = 0 /\ Len(e2s') = Len(e2s) - 1 /\ Stream' \in Seq(Cells)
<1> DEFINE n == Len(cmd_buf) + 1
<1>1. /\ Head(e2s) = e2s[1] /\ Tail(e2s) \in Seq(Cells) /\ Len(Tail(e2s)) = Len(e2s) - 1
      /\ \A i \in 1 .. Len(Tail(e2s)) : Tail(e2s)[i] = e2s[i + 1]
      /\ Len(e2s) \in Nat \ {0}
  BY HeadTailProperties, EmptySeq
<1>2. cmd_buf' \in Seq(Cells) /\ Len(cmd_buf') = 0
  BY EmptySeq
<1>3. e2s' \in Seq(Cells) /\ Len(e2s') = Len(e2s) - 1 /\ c2e' \in Seq(Cells)
  BY <1>1
<1>4. /\ Len(cmd_buf) \in Nat /\ Written = Len(cmd_buf) + Len(e2s) /\ Len(c2e) \in Nat
      /\ Len(Stream) = Written + Len(c2e)
      /\ \A z \in Len(cmd_buf) + 1 .. Written : Stream[z] = e2s[z - Len(cmd_buf)]
      /\ \A z \in Written + 1 .. Len(Stream) : Stream[z] = c2e[z - Written]
  BY StreamTypes
<1>5. /\ Stream' \in Seq(Cells)
      /\ Written' = Len(cmd_buf') + Len(e2s')
      /\ Len(Stream') = Written' + Len(c2e')
      /\ \A z \in Len(cmd_buf') + 1 .. Written' : Stream'[z] = e2s'[z - Len(cmd_buf')]
      /\ \A z \in Written' + 1 .. Len(Stream') : Stream'[z] = c2e'[z - Written']
  BY <1>2, <1>3, NextStreamTypes
<1>6. Written' = Written - n /\ n \in 1 .. Written
  BY <1>1, <1>2, <1>3, <1>4, <1>5
<1>7. Len(Stream') = Len(Stream) - n
  BY <1>4, <1>5, <1>6
<1>8. Stream[n] = Head(e2s)
  <2>1. n \in Len(cmd_buf) + 1 .. Written /\ n - Len(cmd_buf) = 1
    BY <1>4, <1>6
  <2> QED
    BY <1>1, <1>4, <2>1
<1>9. ASSUME NEW z \in 1 .. Len(Stream') PROVE Stream'[z] = Stream[z + n]
  <2>1. CASE z <= Written'
    <3>1. z \in Len(cmd_buf') + 1 .. Written' /\ z - Len(cmd_buf') = z
          /\ z \in 1 .. Len(Tail(e2s))
      BY <1>1, <1>2, <1>3, <1>4, <1>5, <1>6, <2>1
    <3>2. Stream'[z] = e2s[z + 1]
      BY <1>1, <1>5, <3>1, SMTT(30)
    <3>3. z + n \in Len(cmd_buf) + 1 .. Written /\ z + n - Len(cmd_buf) = z + 1
      BY <1>1, <1>4, <1>6, <2>1
    <3> QED
      BY <1>4, <3>2, <3>3
  <2>2. CASE z > Written'
    <3>1. /\ z \in Written' + 1 .. Len(Stream') /\ z + n \in Written + 1 .. Len(Stream)
          /\ z + n - Written = z - Written'
      BY <1>1, <1>2, <1>3, <1>4, <1>5, <1>6, <1>7, <2>2, SMTT(30)
    <3> QED
      BY <1>4, <1>5, <3>1
  <2> QED
    BY <1>1, <1>2, <1>3, <1>4, <1>5, <2>1, <2>2
<1> QED
  BY <1>2, <1>3, <1>5, <1>6, <1>7, <1>8, <1>9 DEF Drops

\* Prefixes, element by element.
LEMMA PrefixCells ==
  ASSUME NEW D, NEW s \in Seq(D), NEW t \in Seq(D)
  PROVE  IsPrefix(s, t) <=> Len(s) <= Len(t) /\ \A i \in 1 .. Len(s) : t[i] = s[i]
<1>1. Len(s) \in Nat /\ Len(t) \in Nat /\ Len(s) \in 0 .. Len(s)
  BY LenProperties
<1>2. /\ SubSeq(s, 1, Len(s)) \in Seq(D) /\ Len(SubSeq(s, 1, Len(s))) = Len(s)
      /\ \A i \in 1 .. Len(s) : SubSeq(s, 1, Len(s))[i] = s[i]
  BY <1>1, Sliced
<1>3. ASSUME Len(s) <= Len(t)
      PROVE  /\ SubSeq(t, 1, Len(s)) \in Seq(D) /\ Len(SubSeq(t, 1, Len(s))) = Len(s)
             /\ \A i \in 1 .. Len(s) : SubSeq(t, 1, Len(s))[i] = t[i]
  BY <1>1, <1>3, Sliced
<1>4. ASSUME IsPrefix(s, t)
      PROVE  Len(s) <= Len(t) /\ \A i \in 1 .. Len(s) : t[i] = s[i]
  <2>1. Len(s) <= Len(t) /\ SubSeq(s, 1, Len(s)) = SubSeq(t, 1, Len(s))
    BY <1>4 DEF IsPrefix
  <2> QED
    BY <1>2, <1>3, <2>1
<1>5. ASSUME Len(s) <= Len(t), \A i \in 1 .. Len(s) : t[i] = s[i]
      PROVE  IsPrefix(s, t)
  <2>1. SubSeq(s, 1, Len(s)) = SubSeq(t, 1, Len(s))
    BY <1>2, <1>3, <1>5, SeqEqual
  <2> QED
    BY <1>5, <2>1 DEF IsPrefix
<1> QED
  BY <1>4, <1>5

\* The body of frame f is at the front of a buffer.
Leads(f, buf) == BodyLen(f) <= Len(buf) /\ \A i \in 1 .. BodyLen(f) : buf[i] = <<f, i>>

\* What a buffer can be decoded as.
LEMMA Decoded ==
  ASSUME NEW buf \in Seq(Cells), NEW d \in Decode(buf)
  PROVE  /\ d = Nothing \/ (d = Junk /\ \A f \in Frames : ~Leads(f, buf))
              \/ (d \in Frames /\ Leads(d, buf))
         /\ \A f \in Frames : Leads(f, buf) /\ BodyLen(f) = Len(buf) => d = f
<1> DEFINE whole == {f \in Frames : IsPrefix(Body(f), buf)}
<1>1. \A f \in Frames : f \in whole <=> Leads(f, buf)
  <2> SUFFICES ASSUME NEW f \in Frames PROVE IsPrefix(Body(f), buf) <=> Leads(f, buf)
    OBVIOUS
  <2>1. /\ Body(f) \in Seq(Cells) /\ Len(Body(f)) = BodyLen(f)
        /\ \A i \in 1..BodyLen(f) : Body(f)[i] = <<f, i>>
    BY FrameCells
  <2>2. IsPrefix(Body(f), buf) <=>
          Len(Body(f)) <= Len(buf) /\ \A i \in 1 .. Len(Body(f)) : buf[i] = Body(f)[i]
    BY <2>1, PrefixCells
  <2> QED
    BY <2>1, <2>2 DEF Leads
<1>2. d \in whole \/ d = Nothing \/ (d = Junk /\ whole = {})
  <2>1. d \in IF \E f \in whole : buf = Body(f) THEN whole
             ELSE IF whole # {} THEN whole \cup {Nothing} ELSE {Nothing, Junk}
    BY Zenon DEF Decode
  <2> HIDE DEF whole
  <2> QED
    BY <2>1
<1>3. \A f \in whole : f \in Frames
  OBVIOUS
<1>4. ASSUME NEW f \in Frames, Leads(f, buf), BodyLen(f) = Len(buf) PROVE d = f
  <2>1. buf = Body(f)
    <3>1. /\ Body(f) \in Seq(Cells) /\ Len(Body(f)) = BodyLen(f)
          /\ \A i \in 1..BodyLen(f) : Body(f)[i] = <<f, i>>
      BY FrameCells
    <3> QED
      BY <1>4, <3>1, SeqEqual DEF Leads
  <2>2. f \in whole
    BY <1>1, <1>4
  <2>3. d \in whole
    BY <2>1, <2>2 DEF Decode
  <2>4. Leads(d, buf) /\ BodyLen(d) >= 1 /\ BodyLen(f) >= 1 /\ BodyLen(d) \in Nat
        /\ BodyLen(f) \in Nat
    BY <1>1, <1>4, <2>3, FrameTypes
  <2>5. buf[1] = <<d, 1>> /\ buf[1] = <<f, 1>>
    BY <1>4, <2>4 DEF Leads
  <2>6. buf[1][1] = d /\ buf[1][1] = f
    <3>1. <<d, 1>>[1] = d /\ <<f, 1>>[1] = f
      OBVIOUS
    <3> QED
      BY <2>5, <3>1
  <2> QED
    BY <2>6
<1> QED
  BY <1>1, <1>2, <1>3, <1>4

\* Command d arrives, when only later ones have bodies in the stream.
LEMMA ArriveInv ==
  ASSUME NEW S, NEW b, NEW F, NEW G, NEW k, NEW c, StreamInv(S, b, F, k, c),
         NEW d \in 1 .. Len(F), G[d] \in {"queued", "refused"},
         Len(G) = Len(F), \A t \in 1 .. Len(F) : t # d => G[t] = F[t],
         \A p \in 1 .. Len(S) : IsCommand(S[p]) /\ ~IsZero(S[p]) => d < S[p][1] /\ S[p][1] # d
  PROVE  StreamInv(S, b, G, k, c)
<1>1. Known(S, b, G)
  BY DEF StreamInv, Known
<1>2. Intact(S, b, G)
  BY DEF StreamInv, Intact
<1>3. Pending(S, G)
  <2>1. \A t \in 1 .. Len(G) : G[t] # "twice"
    BY DEF StreamInv, Pending
  <2>2. ASSUME NEW p \in 1 .. Len(S), IsCommand(S[p]), ~IsZero(S[p])
        PROVE  /\ G[S[p][1]] \in {"sent", "struck"}
               /\ \A t \in 1 .. Len(G) : G[t] \in {"queued", "refused"} => t < S[p][1]
    <3>1. /\ S[p][1] \in 1 .. Len(F) /\ F[S[p][1]] \in {"sent", "struck"}
          /\ \A t \in 1 .. Len(F) : F[t] \in {"queued", "refused"} => t < S[p][1]
          /\ d < S[p][1] /\ S[p][1] # d
      BY <2>2 DEF StreamInv, Known, Pending
    <3> QED
      BY <3>1
  <2> QED
    BY <2>1, <2>2 DEF Pending
<1> QED
  BY <1>1, <1>2, <1>3 DEF StreamInv

\* A disturbance alone.
LEMMA StruckInv ==
  ASSUME NEW S, NEW b, NEW F, NEW G, NEW X, NEW k, NEW c,
         StreamInv(S, b, F, k, c), Struck(F, G, X)
  PROVE  StreamInv(S, b, G, k, c)
<1>1. Known(S, b, G) /\ Pending(S, G)
  BY StruckParts DEF StreamInv
<1>2. Intact(S, b, G)
  BY DEF StreamInv, Intact, Struck
<1> QED
  BY <1>1, <1>2 DEF StreamInv

\* What LinkInv says, for the steps that follow.
LEMMA LinkFacts ==
  ASSUME LinkInv
  PROVE  /\ BoardsOK
         /\ cmd_buf \in Seq(Cells) /\ Len(cmd_buf) <= CmdBufCap
         /\ e2s \in Seq(Cells) /\ Len(e2s) <= WireCap + 2 * faults
         /\ c2e \in Seq(Cells) /\ Len(c2e) <= TcpCap
         /\ fate \in Seq({"sent", "struck", "queued", "refused", "twice"})
         /\ Len(fate) \in Nat /\ DOMAIN fate = 1 .. Len(fate)
         /\ credit \in Nat /\ cut \in {0} \cup 1 .. Len(fate) /\ cut \in Nat
         /\ faults \in Nat
         /\ \A i \in 1 .. Len(cmd_buf) : ~IsZero(cmd_buf[i])
         /\ StreamInv(Stream, Written, fate, credit, cut)
<1>1. /\ fate \in Seq({"sent", "struck", "queued", "refused", "twice"})
      /\ Len(fate) \in Nat /\ DOMAIN fate = 1 .. Len(fate)
  BY LenProperties DEF LinkInv, LinkTypeOK
<1>2. BoardsOK
  BY DEF LinkInv, LinkTypeOK, BoardsOK
<1> QED
  BY <1>1, <1>2 DEF LinkInv, LinkTypeOK

\* A byte that is not zero.
LEMMA StoreInv ==
  ASSUME LinkInv, UartRx, ~IsZero(Head(e2s))
  PROVE  LinkInv' /\ UNCHANGED <<fate, credit>>
<1>0. /\ cmd_buf \in Seq(Cells) /\ Len(cmd_buf) <= CmdBufCap
      /\ e2s \in Seq(Cells) /\ Len(e2s) <= WireCap + 2 * faults
      /\ c2e \in Seq(Cells) /\ credit \in Nat /\ faults \in Nat
      /\ \A i \in 1 .. Len(cmd_buf) : ~IsZero(cmd_buf[i])
      /\ StreamInv(Stream, Written, fate, credit, cut)
  BY LinkFacts
<1>1. /\ e2s # <<>> /\ e2s' = Tail(e2s) /\ Store(Head(e2s))
      /\ UNCHANGED <<cmd_in, fate, credit, booting, attempts, fifo, c2e, conn, faults, cut>>
  BY DEF UartRx
<1>2. /\ Head(e2s) = e2s[1] /\ Head(e2s) \in Cells /\ Tail(e2s) \in Seq(Cells)
      /\ Len(Tail(e2s)) = Len(e2s) - 1
      /\ \A i \in 1 .. Len(Tail(e2s)) : Tail(e2s)[i] = e2s[i + 1]
      /\ Len(e2s) \in Nat \ {0} /\ Len(cmd_buf) \in Nat
  BY <1>0, <1>1, HeadTailProperties, EmptySeq, LenProperties
<1>3. WireCap \in Nat /\ CmdBufCap \in Nat
  BY LinkAssumption
<1>4. CASE Len(cmd_buf) < CmdBufCap
  <2>1. cmd_buf' = Append(cmd_buf, Head(e2s))
    BY <1>1, <1>4 DEF Store
  <2>2. /\ cmd_buf' \in Seq(Cells) /\ Len(cmd_buf') = Len(cmd_buf) + 1
        /\ \A i \in 1 .. Len(cmd_buf) : cmd_buf'[i] = cmd_buf[i]
        /\ cmd_buf'[Len(cmd_buf) + 1] = Head(e2s)
    BY <1>0, <1>2, <2>1, AppendProperties
  <2>3. e2s' \in Seq(Cells) /\ c2e' \in Seq(Cells) /\ c2e' = c2e
        /\ Len(e2s') = Len(e2s) - 1
    BY <1>0, <1>1, <1>2
  <2>4. /\ Written = Len(cmd_buf) + Len(e2s)
        /\ Len(Stream) = Written + Len(c2e) /\ Stream \in Seq(Cells) /\ Len(c2e) \in Nat
        /\ \A z \in 1 .. Len(cmd_buf) : Stream[z] = cmd_buf[z]
        /\ \A z \in Len(cmd_buf) + 1 .. Written : Stream[z] = e2s[z - Len(cmd_buf)]
        /\ \A z \in Written + 1 .. Len(Stream) : Stream[z] = c2e[z - Written]
    BY <1>0, StreamTypes
  <2>5. /\ Stream' \in Seq(Cells) /\ Written' = Len(cmd_buf') + Len(e2s')
        /\ Len(Stream') = Written' + Len(c2e')
        /\ \A z \in 1 .. Len(cmd_buf') : Stream'[z] = cmd_buf'[z]
        /\ \A z \in Len(cmd_buf') + 1 .. Written' : Stream'[z] = e2s'[z - Len(cmd_buf')]
        /\ \A z \in Written' + 1 .. Len(Stream') : Stream'[z] = c2e'[z - Written']
    BY <2>2, <2>3, NextStreamTypes
  <2>6. Written' = Written /\ Len(Stream') = Len(Stream)
    BY <1>2, <2>2, <2>3, <2>4, <2>5
  <2>7. ASSUME NEW z \in 1 .. Len(Stream) PROVE Stream'[z] = Stream[z]
    <3>1. CASE z <= Len(cmd_buf)
      BY <1>2, <2>2, <2>4, <2>5, <3>1
    <3>2. CASE z = Len(cmd_buf) + 1
      <4>1. /\ z \in 1 .. Len(cmd_buf') /\ z \in Len(cmd_buf) + 1 .. Written
            /\ z - Len(cmd_buf) = 1
        BY <1>2, <2>2, <2>4, <3>2
      <4> QED
        BY <1>2, <2>2, <2>4, <2>5, <3>2, <4>1, ZenonT(30)
    <3>3. CASE z > Len(cmd_buf) + 1 /\ z <= Written
      <4>1. /\ z \in Len(cmd_buf') + 1 .. Written' /\ z \in Len(cmd_buf) + 1 .. Written
            /\ z - Len(cmd_buf') \in 1 .. Len(Tail(e2s))
            /\ z - Len(cmd_buf') + 1 = z - Len(cmd_buf)
        BY <1>2, <2>2, <2>4, <2>6, <3>3
      <4>2. Stream'[z] = Tail(e2s)[z - Len(cmd_buf')]
        BY <1>1, <2>5, <4>1
      <4>3. Tail(e2s)[z - Len(cmd_buf')] = e2s[z - Len(cmd_buf') + 1]
        BY <1>2, <4>1
      <4> QED
        BY <2>4, <4>1, <4>2, <4>3
    <3>4. CASE z > Written
      <4>1. z \in Written' + 1 .. Len(Stream') /\ z \in Written + 1 .. Len(Stream)
        BY <1>2, <2>4, <2>6, <3>4
      <4> QED
        BY <2>3, <2>4, <2>5, <2>6, <4>1, ZenonT(30)
    <3> QED
      BY <1>2, <2>4, <3>1, <3>2, <3>3, <3>4
  <2>8. Stream' = Stream
    <3>1. Keeps(Stream, Stream', Len(Stream)) /\ Len(Stream) \in Nat
      BY <2>4, <2>6, <2>7 DEF Keeps
    <3> QED
      BY <2>4, <2>5, <2>6, <3>1, SameStream
  <2>9. \A i \in 1 .. Len(cmd_buf') : ~IsZero(cmd_buf'[i])
    <3>1. \A i \in 1 .. Len(cmd_buf') : i \in 1 .. Len(cmd_buf) \/ i = Len(cmd_buf) + 1
      BY <1>2, <2>2
    <3> QED
      BY <1>0, <2>2, <3>1
  <2>10. LinkTypeOK'
    <3>1. Len(e2s') <= WireCap + 2 * faults' /\ Len(cmd_buf') <= CmdBufCap
      BY <1>0, <1>1, <1>2, <1>3, <1>4, <2>2, <2>3
    <3> QED
      BY <1>1, <2>2, <2>3, <3>1 DEF LinkInv, LinkTypeOK
  <2> QED
    BY <1>0, <1>1, <2>6, <2>8, <2>9, <2>10 DEF LinkInv
<1>5. CASE ~(Len(cmd_buf) < CmdBufCap)
  <2>1. cmd_buf' = <<>> /\ Len(cmd_buf) = CmdBufCap
    BY <1>0, <1>1, <1>2, <1>3, <1>5 DEF Store
  <2> DEFINE n == Len(cmd_buf) + 1
  <2>2. /\ Drops(Stream, Stream', n) /\ Written' = Written - n /\ n \in 1 .. Written
        /\ Stream[n] = Head(e2s)
        /\ cmd_buf' \in Seq(Cells) /\ e2s' \in Seq(Cells) /\ c2e' \in Seq(Cells)
        /\ Len(cmd_buf') = 0 /\ Len(e2s') = Len(e2s) - 1 /\ Stream' \in Seq(Cells)
    BY <1>0, <1>1, <2>1, CollectedDrops
  <2>3. /\ Stream \in Seq(Cells) /\ Written \in 0 .. Len(Stream)
        /\ \A z \in 1 .. Len(cmd_buf) : Stream[z] = cmd_buf[z]
    BY <1>0, StreamTypes
  <2>4. \A i \in 1 .. n - 1 : ~IsZero(Stream[i])
    BY <1>0, <1>2, <2>3
  <2>5. n = CmdBufCap + 1 /\ ~IsZero(Stream[n])
    BY <2>1, <2>2
  <2> HIDE DEF n
  <2>6. StreamInv(Stream', Written - n, fate, credit, cut)
    <3>1. \A f \in 1 .. Len(fate) : Stands(Stream, Written, 0, f) /\ IsZero(Stream[n])
                                     => fate[f] # "sent"
      BY <2>5
    <3>2. IsZero(Stream[n]) \/ n = CmdBufCap + 1
      BY <2>5
    <3>3. Drops(Stream, Stream', n) /\ n \in 1 .. Written /\ Stream' \in Seq(Cells)
      BY <2>2
    <3>4. StreamInv(Stream, Written, fate, credit, cut) /\ credit \in Nat /\ credit \in Int
      BY <1>0
    <3> QED
      BY <2>3, <2>4, <3>1, <3>2, <3>3, <3>4, CollectInv
  <2>7. StreamInv(Stream', Written', fate', credit', cut')
    BY <1>1, <2>2, <2>6
  <2>8. LinkTypeOK'
    <3>1. Len(e2s') <= WireCap + 2 * faults' /\ Len(cmd_buf') <= CmdBufCap
      BY <1>0, <1>1, <1>2, <1>3, <2>2
    <3> QED
      BY <1>1, <2>2, <3>1 DEF LinkInv, LinkTypeOK
  <2> QED
    <3>1. \A i \in 1 .. Len(cmd_buf') : ~IsZero(cmd_buf'[i])
      BY <2>2
    <3> QED
      BY <1>1, <2>7, <2>8, <3>1 DEF LinkInv
<1> QED
  BY <1>1, <1>4, <1>5

\* A zero byte after n - 1 others: a frame that is decoded whole is all of them.
LEMMA Collected ==
  ASSUME LinkInv, Len(cmd_buf) + 1 <= Written, IsZero(Stream[Len(cmd_buf) + 1]),
         NEW p \in 0 .. Len(cmd_buf), NEW f, Stands(Stream, Written, p, f)
  PROVE  p = 0 /\ f \in Frames /\ BodyLen(f) = Len(cmd_buf) /\ Leads(f, cmd_buf)
<1> DEFINE n == Len(cmd_buf) + 1
<1>0. /\ cmd_buf \in Seq(Cells) /\ e2s \in Seq(Cells) /\ c2e \in Seq(Cells)
      /\ \A i \in 1 .. Len(cmd_buf) : ~IsZero(cmd_buf[i])
  BY LinkFacts
<1>1. /\ Stream \in Seq(Cells) /\ Written \in 0 .. Len(Stream) /\ Len(cmd_buf) \in Nat
      /\ Written \in Nat /\ \A z \in 1 .. Len(cmd_buf) : Stream[z] = cmd_buf[z]
  BY <1>0, StreamTypes
<1>2. n \in 1 .. Written /\ p \in 0 .. n - 1 /\ IsZero(Stream[n])
  BY <1>1
<1>3. \A i \in 1 .. n - 1 : ~IsZero(Stream[i])
  BY <1>0, <1>1
<1>4. p = 0 /\ BodyLen(f) + 1 = n
  <2> HIDE DEF n
  <2> QED
    BY <1>1, <1>2, <1>3, OnlyFirst
<1>5. f \in Frames /\ BodyLen(f) \in Nat /\ BodyLen(f) = Len(cmd_buf)
  BY <1>1, <1>4, FrameTypes DEF Stands
<1>6. ASSUME NEW i \in 1 .. BodyLen(f) PROVE cmd_buf[i] = <<f, i>>
  <2>1. i \in p + 1 .. p + BodyLen(f) /\ i - p = i /\ i \in 1 .. Len(cmd_buf)
    BY <1>4, <1>5
  <2>2. Stream[i] = <<f, i>>
    BY <2>1 DEF Stands, Whole
  <2> QED
    BY <1>1, <2>1, <2>2
<1> QED
  BY <1>1, <1>4, <1>5, <1>6 DEF Leads

\* What is left when uart4_rx has collected its n cells and dealt with them.
LEMMA CollectedInv ==
  ASSUME LinkInv, UartRx, IsZero(Head(e2s)),
         StreamInv(Stream', Written', fate', credit', cut), credit' \in Nat, cmd_in' \in Queue,
         fate' \in Seq({"sent", "struck", "queued", "refused", "twice"}),
         Len(fate') = Len(fate)
  PROVE  LinkInv'
<1>0. /\ cmd_buf \in Seq(Cells) /\ e2s \in Seq(Cells) /\ c2e \in Seq(Cells)
      /\ Len(e2s) <= WireCap + 2 * faults /\ faults \in Nat
  BY LinkFacts
<1>1. /\ e2s # <<>> /\ e2s' = Tail(e2s) /\ cmd_buf' = <<>>
      /\ UNCHANGED <<booting, attempts, fifo, c2e, conn, faults, cut>>
  BY DEF UartRx, EndFrame
<1>2. /\ cmd_buf' \in Seq(Cells) /\ e2s' \in Seq(Cells) /\ c2e' \in Seq(Cells)
      /\ Len(cmd_buf') = 0 /\ Len(e2s') = Len(e2s) - 1
  BY <1>0, <1>1, CollectedDrops
<1>3. WireCap \in Nat /\ CmdBufCap \in Nat /\ Len(e2s) \in Nat
  BY <1>0, LinkAssumption, LenProperties
<1>4. Len(e2s') <= WireCap + 2 * faults' /\ Len(cmd_buf') <= CmdBufCap
  BY <1>0, <1>1, <1>2, <1>3
<1>5. DOMAIN fate' = DOMAIN fate
  <2>1. DOMAIN fate' = 1 .. Len(fate') /\ DOMAIN fate = 1 .. Len(fate)
    BY LinkFacts, LenProperties
  <2> QED
    BY <2>1
<1>6. LinkTypeOK'
  BY <1>1, <1>2, <1>4, <1>5 DEF LinkInv, LinkTypeOK
<1>7. \A i \in 1 .. Len(cmd_buf') : ~IsZero(cmd_buf'[i])
  BY <1>2
<1> QED
  BY <1>1, <1>6, <1>7 DEF LinkInv

\* What a decoding does to the queue and to the fates.
LEMMA Accepted ==
  ASSUME LinkInv, NEW d \in Frames \cup {Nothing, Junk}, Accept(d)
  PROVE  /\ cmd_in' \in Queue
         /\ credit' = IF d = Junk THEN credit - 1 ELSE credit
         /\ d \notin 1 .. Len(fate) => fate' = fate
         /\ d \in 1 .. Len(fate) =>
              \E e \in {"queued", "refused", "twice"} :
                 /\ fate' = [fate EXCEPT ![d] = e]
                 /\ fate[d] \in {"sent", "struck"} => e \in {"queued", "refused"}
<1>1. cmd_in \in Queue /\ DOMAIN fate = 1 .. Len(fate)
  BY LinkFacts DEF BoardsOK
<1>2. Entry(d) \in {Hello, HelloAck, AnyCommand, EmergencyStop}
  BY DEF Entry, Hello, HelloAck
<1>3. cmd_in' \in Queue
  BY <1>1, <1>2, QueueTypes DEF Accept
<1>4. credit' = IF d = Junk THEN credit - 1 ELSE credit
  BY DEF Accept
<1>5. ASSUME d \in 1 .. Len(fate)
      PROVE  \E e \in {"queued", "refused", "twice"} :
                 /\ fate' = [fate EXCEPT ![d] = e]
                 /\ fate[d] \in {"sent", "struck"} => e \in {"queued", "refused"}
  <2> DEFINE e == IF fate[d] \in {"queued", "refused", "twice"} THEN "twice"
                  ELSE IF Len(cmd_in) < QueueCap THEN "queued" ELSE "refused"
  <2>1. fate' = [fate EXCEPT ![d] = e]
    BY <1>1, <1>5 DEF Accept
  <2>2. fate[d] \in {"sent", "struck"} => e \in {"queued", "refused"}
    OBVIOUS
  <2>3. e \in {"queued", "refused", "twice"}
    OBVIOUS
  <2> HIDE DEF e
  <2> QED
    BY <2>1, <2>2, <2>3
<1>6. d \notin 1 .. Len(fate) => fate' = fate
  BY <1>1 DEF Accept
<1> QED
  BY <1>3, <1>4, <1>5, <1>6

\* A zero byte that closes nothing, or what is decoded as a frame that is no
\* command of a client: an empty one, one of the handshake, or one made up.
LEMMA OtherInv ==
  ASSUME LinkInv, UartRx, IsZero(Head(e2s)), fate' = fate, cmd_in' \in Queue,
         \A f \in 1 .. Len(fate) : ~Stands(Stream, Written, 0, f),
         \/ credit' = credit
         \/ /\ credit' = credit - 1 /\ cmd_buf # <<>>
            /\ \A f \in Frames : ~Leads(f, cmd_buf)
  PROVE  LinkInv' /\ [Promised!CNext]_<<fate, credit>>
<1> DEFINE n == Len(cmd_buf) + 1
<1>0. /\ cmd_buf \in Seq(Cells) /\ e2s \in Seq(Cells) /\ c2e \in Seq(Cells) /\ credit \in Nat
      /\ \A i \in 1 .. Len(cmd_buf) : ~IsZero(cmd_buf[i])
      /\ StreamInv(Stream, Written, fate, credit, cut)
      /\ fate \in Seq({"sent", "struck", "queued", "refused", "twice"})
  BY LinkFacts
<1>1. /\ e2s # <<>> /\ e2s' = Tail(e2s) /\ cmd_buf' = <<>> /\ c2e' = c2e /\ cut' = cut
  BY DEF UartRx, EndFrame
<1>2. /\ Drops(Stream, Stream', n) /\ Written' = Written - n /\ n \in 1 .. Written
      /\ Stream[n] = Head(e2s) /\ Stream' \in Seq(Cells)
  BY <1>0, <1>1, CollectedDrops
<1>3. /\ Stream \in Seq(Cells) /\ Written \in 0 .. Len(Stream) /\ Len(cmd_buf) \in Nat
      /\ Written \in Nat /\ \A z \in 1 .. Len(cmd_buf) : Stream[z] = cmd_buf[z]
      /\ Len(Stream) \in Nat
  BY <1>0, StreamTypes, LenProperties
<1>4. (\A i \in 1 .. n - 1 : ~IsZero(Stream[i])) /\ IsZero(Stream[n])
  BY <1>0, <1>2, <1>3
<1>5. ASSUME credit' = credit - 1, cmd_buf # <<>>, \A f \in Frames : ~Leads(f, cmd_buf)
      PROVE  n \in Strays(Stream, Written)
  <2>1. Len(cmd_buf) >= 1
    BY <1>0, <1>3, <1>5, EmptySeq
  <2>2. n \in 2 .. Len(Stream) /\ n - 1 \in 1 .. Len(cmd_buf) /\ IsZero(Stream[n])
    BY <1>2, <1>3, <1>4, <2>1
  <2>3. ~IsZero(Stream[n - 1])
    BY <1>4, <2>2
  <2> DEFINE f == Stream[n][1]
             p == n - 1 - BodyLen(f)
  <2>4. ~Stands(Stream, Written, p, f)
    <3>1. SUFFICES ASSUME Stands(Stream, Written, p, f) PROVE FALSE
      OBVIOUS
    <3>2. f \in Frames /\ BodyLen(f) \in Nat /\ p \in 0 .. Len(Stream)
      BY <3>1, FrameTypes DEF Stands
    <3>3. p \in 0 .. Len(cmd_buf) /\ Len(cmd_buf) + 1 <= Written
      BY <1>2, <1>3, <3>2
    <3>4. IsZero(Stream[Len(cmd_buf) + 1])
      BY <1>4
    <3> HIDE DEF p, f
    <3> QED
      BY <1>5, <3>1, <3>3, <3>4, Collected
  <2> HIDE DEF n
  <2> QED
    BY <2>2, <2>3, <2>4 DEF Strays
<1>6. StreamInv(Stream', Written - n, fate, credit', cut) /\ credit' \in Nat
  <2>1. /\ credit' \in Int
        /\ credit' = credit \/ (credit' = credit - 1 /\ n \in Strays(Stream, Written))
    BY <1>0, <1>5
  <2>2. \A f \in 1 .. Len(fate) : Stands(Stream, Written, 0, f) /\ IsZero(Stream[n])
                                   => fate[f] # "sent"
    OBVIOUS
  <2>3. IsZero(Stream[n]) \/ n = CmdBufCap + 1
    BY <1>4
  <2> HIDE DEF n
  <2> QED
    BY <1>0, <1>2, <1>3, <1>4, <2>1, <2>2, <2>3, CollectInv
<1>7. LinkInv'
  BY <1>0, <1>2, <1>6, CollectedInv
<1>8. [Promised!CNext]_<<fate, credit>>
  <2>1. CASE credit' = credit
    BY <2>1
  <2>2. CASE credit' = credit - 1
    <3>1. credit > 0
      BY <1>0, <1>6, <2>2
    <3> QED
      BY <2>2, <3>1 DEF Promised!CNext, Promised!Misread
  <2> QED
    BY <2>1, <2>2
<1> QED
  BY <1>7, <1>8

\* The zero byte that closes a command, or a body with more behind it.
LEMMA CommandInv ==
  ASSUME LinkInv, UartRx, IsZero(Head(e2s)), cmd_in' \in Queue, credit' = credit,
         NEW d \in 1 .. Len(fate), d \in Frames, Leads(d, cmd_buf),
         \A f \in 1 .. Len(fate) : Stands(Stream, Written, 0, f) => f = d,
         NEW e \in {"queued", "refused", "twice"}, fate' = [fate EXCEPT ![d] = e],
         fate[d] \in {"sent", "struck"} => e \in {"queued", "refused"}
  PROVE  LinkInv' /\ [Promised!CNext]_<<fate, credit>>
<1> DEFINE n == Len(cmd_buf) + 1
           Fs == {"sent", "struck", "queued", "refused", "twice"}
<1>0. /\ cmd_buf \in Seq(Cells) /\ e2s \in Seq(Cells) /\ c2e \in Seq(Cells) /\ credit \in Nat
      /\ \A i \in 1 .. Len(cmd_buf) : ~IsZero(cmd_buf[i])
      /\ StreamInv(Stream, Written, fate, credit, cut)
      /\ fate \in Seq(Fs) /\ Len(fate) \in Nat /\ DOMAIN fate = 1 .. Len(fate)
  BY LinkFacts
<1>1. /\ e2s # <<>> /\ e2s' = Tail(e2s) /\ cmd_buf' = <<>> /\ c2e' = c2e /\ cut' = cut
  BY DEF UartRx, EndFrame
<1>2. /\ Drops(Stream, Stream', n) /\ Written' = Written - n /\ n \in 1 .. Written
      /\ Stream[n] = Head(e2s) /\ Stream' \in Seq(Cells)
  BY <1>0, <1>1, CollectedDrops
<1>3. /\ Stream \in Seq(Cells) /\ Written \in 0 .. Len(Stream) /\ Len(cmd_buf) \in Nat
      /\ Written \in Nat /\ \A z \in 1 .. Len(cmd_buf) : Stream[z] = cmd_buf[z]
      /\ Len(Stream) \in Nat /\ Len(Stream') \in Nat
  BY <1>0, <1>2, StreamTypes, LenProperties
<1>4. (\A i \in 1 .. n - 1 : ~IsZero(Stream[i])) /\ IsZero(Stream[n])
  BY <1>0, <1>2, <1>3
<1>5. /\ BodyLen(d) \in 1 .. Len(cmd_buf) /\ BodyLen(d) \in Nat
      /\ \A i \in 1 .. BodyLen(d) : Stream[i] = <<d, i>>
  <2>1. BodyLen(d) \in Nat /\ BodyLen(d) >= 1 /\ BodyLen(d) <= Len(cmd_buf)
    BY FrameTypes DEF Leads
  <2> QED
    BY <1>3, <2>1 DEF Leads
<1>6. 1 \in 1 .. Len(Stream) /\ Stream[1] = <<d, 1>> /\ Stream[1][1] = d /\ ~IsZero(Stream[1])
      /\ IsCommand(Stream[1])
  <2>1. 1 \in 1 .. Len(Stream) /\ Stream[1] = <<d, 1>>
    BY <1>2, <1>3, <1>5
  <2>2. <<d, 1>>[1] = d /\ <<d, 1>>[2] = 1
    OBVIOUS
  <2> QED
    BY <1>0, <2>1, <2>2 DEF IsZero, IsCommand
<1>17. /\ Ordered(Stream)
       /\ \A q \in 1 .. Len(Stream) : 1 < q /\ IsCommand(Stream[q]) => Before(Stream[1], Stream[q])
  <2>1. Ordered(Stream)
    BY <1>0 DEF StreamInv
  <2> QED
    BY <1>6, <2>1 DEF Ordered
<1>7. fate[d] \in {"sent", "struck"}
      /\ \A t \in 1 .. Len(fate) : fate[t] \in {"queued", "refused"} => t < d
  BY <1>0, <1>6 DEF StreamInv, Pending
<1>8. e \in {"queued", "refused"}
  BY <1>7
<1> DEFINE G == [fate EXCEPT ![d] = "struck"]
<1>9. /\ G \in Seq(Fs) /\ Len(G) = Len(fate) /\ G[d] = "struck"
      /\ \A t \in 1 .. Len(fate) : t # d => G[t] = fate[t]
      /\ fate' \in Seq(Fs) /\ Len(fate') = Len(fate) /\ fate'[d] = e
      /\ \A t \in 1 .. Len(fate) : t # d => fate'[t] = fate[t]
  <2>1. fate \in [1 .. Len(fate) -> Fs]
    BY <1>0, LenProperties
  <2>2. G \in [1 .. Len(fate) -> Fs] /\ fate' \in [1 .. Len(fate) -> Fs]
    BY <2>1
  <2>3. G \in Seq(Fs) /\ fate' \in Seq(Fs)
    BY <1>0, <2>2, SeqDef
  <2>4. Len(G) = Len(fate) /\ Len(fate') = Len(fate)
    BY <1>0, <2>2, <2>3, LenProperties
  <2> QED
    BY <1>0, <2>3, <2>4
<1> HIDE DEF G
<1>10. StreamInv(Stream, Written, G, credit, cut)
  <2>1. Struck(fate, G, {d})
    BY <1>7, <1>9 DEF Struck
  <2> QED
    BY <1>0, <2>1, StruckInv
<1>11. StreamInv(Stream', Written - n, G, credit, cut)
  <2>1. \A f \in 1 .. Len(G) : Stands(Stream, Written, 0, f) /\ IsZero(Stream[n]) => G[f] # "sent"
    BY <1>9
  <2>2. IsZero(Stream[n]) \/ n = CmdBufCap + 1
    BY <1>4
  <2>3. credit \in Int
    BY <1>0
  <2> HIDE DEF n
  <2> QED
    BY <1>0, <1>2, <1>3, <1>4, <1>10, <2>1, <2>2, <2>3, CollectInv
<1>12. ASSUME NEW p \in 1 .. Len(Stream'), IsCommand(Stream'[p]), ~IsZero(Stream'[p])
       PROVE  d < Stream'[p][1] /\ Stream'[p][1] # d
  <2> DEFINE q == p + n
             c == Stream[q]
  <2>1. Stream'[p] = c /\ q \in 1 .. Len(Stream) /\ q > n
    BY <1>2, <1>3 DEF Drops
  <2>2. c \in Cells
    BY <1>3, <2>1, ElementOfSeq
  <2> HIDE DEF q
  <2>3. c = <<c[1], c[2]>> /\ c[1] \in Int /\ c[2] \in 0 .. BodyLen(c[1])
        /\ IsCommand(c) /\ c[2] # 0
    BY <1>12, <2>1, <2>2, CellTypes DEF IsZero
  <2>4. d < c[1] \/ d = c[1]
    <3>1. q > 1
      BY <1>2, <1>3, <2>1
    <3>2. Before(Stream[1], c)
      BY <1>17, <2>1, <2>3, <3>1
    <3> QED
      BY <1>6, <3>2 DEF Before
  <2>5. ASSUME c[1] = d PROVE FALSE
    <3> DEFINE j == c[2]
    <3>1. j \in 1 .. BodyLen(d) /\ j \in Int
      BY <1>5, <2>3, <2>5
    <3>2. j \in 1 .. Len(Stream) /\ j < q
      BY <1>2, <1>3, <1>5, <2>1, <3>1, SMTT(30)
    <3>3. Stream[j] = c
      BY <1>5, <2>3, <2>5, <3>1
    <3>4. Before(c, c)
      <4>1. IsCommand(Stream[j]) /\ IsCommand(Stream[q])
        BY <2>3, <3>3
      <4>2. Before(Stream[j], Stream[q])
        BY <1>17, <2>1, <3>2, <4>1 DEF Ordered
      <4> QED
        BY <3>3, <4>2
    <3> QED
      BY <2>3, <3>1, <3>4 DEF Before, IsZero
  <2> QED
    BY <2>1, <2>3, <2>4, <2>5
<1>13. StreamInv(Stream', Written - n, fate', credit, cut)
  <2>1. \A t \in 1 .. Len(G) : t # d => fate'[t] = G[t]
    BY <1>9
  <2>2. Len(fate') = Len(G) /\ fate'[d] \in {"queued", "refused"}
    BY <1>8, <1>9
  <2>3. \A p \in 1 .. Len(Stream') : IsCommand(Stream'[p]) /\ ~IsZero(Stream'[p])
                                        => d < Stream'[p][1] /\ Stream'[p][1] # d
    BY <1>12
  <2>4. StreamInv(Stream', Written', G, credit, cut)
    BY <1>2, <1>11
  <2>5. d \in 1 .. Len(G)
    BY <1>9
  <2>6. StreamInv(Stream', Written', fate', credit, cut)
    <3> DEFINE S == Stream'
               b == Written'
               H == fate'
    <3>1. /\ \A t \in 1 .. Len(G) : t # d => H[t] = G[t]
          /\ Len(H) = Len(G) /\ H[d] \in {"queued", "refused"}
          /\ \A p \in 1 .. Len(S) : IsCommand(S[p]) /\ ~IsZero(S[p]) =>
               d < S[p][1] /\ S[p][1] # d
          /\ StreamInv(S, b, G, credit, cut)
      BY <2>1, <2>2, <2>3, <2>4
    <3> HIDE DEF S, b, H, G
    <3>2. StreamInv(S, b, H, credit, cut)
      BY ONLY <2>5, <3>1, ArriveInv
    <3> QED
      BY <3>2 DEF S, b, H
  <2> QED
    BY <1>2, <2>6
<1>14. LinkInv'
  BY <1>0, <1>2, <1>9, <1>13, CollectedInv
<1>15. ASSUME NEW t \in 1 .. Len(fate), fate[t] = "sent" PROVE t >= d
  <2>1. PICK p \in 0 .. Len(Stream) : Stands(Stream, Written, p, t)
    BY <1>0, <1>15 DEF StreamInv, Intact
  <2>2. t \in Frames /\ BodyLen(t) \in Nat /\ BodyLen(t) >= 1
    BY <2>1, FrameTypes DEF Stands
  <2>3. p + 1 \in p + 1 .. p + BodyLen(t) /\ p + 1 - p = 1 /\ p + BodyLen(t) < Len(Stream)
    BY <2>1, <2>2 DEF Stands, Whole
  <2>4. Stream[p + 1] = <<t, 1>> /\ p + 1 \in 1 .. Len(Stream)
    <3>1. Stream[p + 1] = <<t, p + 1 - p>>
      BY <2>1, <2>3 DEF Stands, Whole
    <3> QED
      BY <1>3, <2>2, <2>3, <3>1, SMTT(30)
  <2>5. <<t, 1>>[1] = t /\ Stream[p + 1][1] = t /\ IsCommand(Stream[p + 1])
    BY <2>4 DEF IsCommand
  <2>6. CASE p = 0
    BY <1>6, <2>5, <2>6
  <2>7. CASE p # 0
    <3>1. p + 1 > 1
      BY <1>3, <2>7
    <3>2. Before(Stream[1], Stream[p + 1])
      BY <1>17, <2>4, <2>5, <3>1
    <3> QED
      BY <1>6, <2>5, <3>2 DEF Before
  <2> QED
    BY <2>6, <2>7
<1>16. Promised!Arrive
  <2>1. d \in Promised!With({"sent", "struck"})
    BY <1>0, <1>7 DEF Promised!With
  <2>2. \A t \in Promised!With({"sent"}) : t >= d
    BY <1>0, <1>15 DEF Promised!With
  <2>3. \A t \in Promised!With(Promised!Arrived) : t < d
    BY <1>0, <1>7 DEF Promised!With, Promised!Arrived
  <2>4. e \in Promised!Arrived
    BY <1>8 DEF Promised!Arrived
  <2> QED
    BY <2>1, <2>2, <2>3, <2>4 DEF Promised!Arrive
<1> QED
  BY <1>14, <1>16 DEF Promised!CNext

\* A zero byte.
LEMMA EndFrameInv ==
  ASSUME LinkInv, UartRx, IsZero(Head(e2s))
  PROVE  LinkInv' /\ [Promised!CNext]_<<fate, credit>>
<1>0. /\ cmd_buf \in Seq(Cells) /\ e2s \in Seq(Cells) /\ c2e \in Seq(Cells) /\ cmd_in \in Queue
      /\ credit \in Nat
  BY LinkFacts DEF BoardsOK
<1>1. /\ e2s # <<>> /\ e2s' = Tail(e2s) /\ c2e' = c2e /\ cmd_buf' = <<>>
      /\ IF cmd_buf = <<>> THEN UNCHANGED <<cmd_in, fate, credit>>
         ELSE \E d \in Decode(cmd_buf) : Accept(d)
  BY DEF UartRx, EndFrame
<1>2. /\ Len(cmd_buf) + 1 \in 1 .. Written /\ Stream[Len(cmd_buf) + 1] = Head(e2s)
      /\ Len(cmd_buf) \in Nat
  BY <1>0, <1>1, CollectedDrops, LenProperties
<1>3. ASSUME NEW f, Stands(Stream, Written, 0, f)
      PROVE  f \in Frames /\ BodyLen(f) = Len(cmd_buf) /\ Leads(f, cmd_buf)
  <2>1. Len(cmd_buf) + 1 <= Written /\ IsZero(Stream[Len(cmd_buf) + 1]) /\ 0 \in 0 .. Len(cmd_buf)
    BY <1>2
  <2> QED
    BY <1>3, <2>1, Collected
<1>4. CASE cmd_buf = <<>>
  <2>1. fate' = fate /\ cmd_in' \in Queue /\ credit' = credit
    BY <1>0, <1>1, <1>4
  <2>2. \A f : ~Stands(Stream, Written, 0, f)
    <3>1. SUFFICES ASSUME NEW f, Stands(Stream, Written, 0, f) PROVE FALSE
      OBVIOUS
    <3>2. f \in Frames /\ BodyLen(f) = Len(cmd_buf)
      BY <1>3, <3>1
    <3>3. BodyLen(f) \in Nat /\ BodyLen(f) >= 1
      BY <3>2, FrameTypes
    <3>4. Len(cmd_buf) = 0
      BY <1>4, EmptySeq
    <3> QED
      BY <3>2, <3>3, <3>4
  <2> QED
    BY <2>1, <2>2, OtherInv
<1>5. CASE cmd_buf # <<>>
  <2>1. PICK d \in Decode(cmd_buf) : Accept(d)
    BY <1>1, <1>5
  <2>2. /\ d = Nothing \/ (d = Junk /\ \A f \in Frames : ~Leads(f, cmd_buf))
             \/ (d \in Frames /\ Leads(d, cmd_buf))
        /\ \A f \in Frames : Leads(f, cmd_buf) /\ BodyLen(f) = Len(cmd_buf) => d = f
    BY <1>0, Decoded
  <2>3. /\ cmd_in' \in Queue
        /\ credit' = IF d = Junk THEN credit - 1 ELSE credit
        /\ d \notin 1 .. Len(fate) => fate' = fate
        /\ d \in 1 .. Len(fate) =>
             \E e \in {"queued", "refused", "twice"} :
                /\ fate' = [fate EXCEPT ![d] = e]
                /\ fate[d] \in {"sent", "struck"} => e \in {"queued", "refused"}
    BY <2>1, <2>2, Accepted
  <2>4. \A f : Stands(Stream, Written, 0, f) => f = d
    BY <1>3, <2>2
  <2>5. CASE d \in 1 .. Len(fate)
    <3>1. d # Junk /\ d # Nothing
      BY <2>5 DEF Junk, Nothing
    <3>2. d \in Frames /\ Leads(d, cmd_buf) /\ credit' = credit
      BY <2>2, <2>3, <3>1
    <3>3. PICK e \in {"queued", "refused", "twice"} :
                /\ fate' = [fate EXCEPT ![d] = e]
                /\ fate[d] \in {"sent", "struck"} => e \in {"queued", "refused"}
      BY <2>3, <2>5
    <3> QED
      BY <2>3, <2>4, <2>5, <3>2, <3>3, CommandInv
  <2>6. CASE d \notin 1 .. Len(fate)
    <3>1. \A f \in 1 .. Len(fate) : ~Stands(Stream, Written, 0, f)
      BY <2>4, <2>6
    <3>2. fate' = fate /\ cmd_in' \in Queue
      BY <2>3, <2>6
    <3>3. CASE d = Junk
      <4>1. \A f \in Frames : ~Leads(f, cmd_buf)
        <5>1. Junk \notin Frames /\ Junk # Nothing
          BY FrameTypes DEF Junk, Nothing, Frames, Hello, HelloAck
        <5> QED
          BY <2>2, <3>3, <5>1
      <4> QED
        BY <1>5, <2>3, <3>1, <3>2, <3>3, <4>1, OtherInv
    <3>4. CASE d # Junk
      BY <2>3, <3>1, <3>2, <3>4, OtherInv
    <3> QED
      BY <3>3, <3>4
  <2> QED
    BY <2>5, <2>6
<1> QED
  BY <1>4, <1>5

\* uart4_rx.
LEMMA UartRxInv ==
  ASSUME LinkInv, UartRx
  PROVE  LinkInv' /\ [Promised!CNext]_<<fate, credit>>
BY StoreInv, EndFrameInv

-----------------------------------------------------------------------------
(* The bridge *)

\* The stream that is left when the socket goes with what it holds.
LEMMA CutStream ==
  ASSUME LinkInv, cmd_buf' = cmd_buf, e2s' = e2s, c2e' = <<>>, cut' = cut,
         Strike(In(c2e), 0)
  PROVE  /\ c2e' \in Seq(Cells) /\ Len(c2e') = 0
         /\ fate' \in Seq({"sent", "struck", "queued", "refused", "twice"})
         /\ DOMAIN fate' = DOMAIN fate /\ credit' \in Nat
         /\ StreamInv(Stream', Written', fate', credit', cut')
         /\ [Promised!CNext]_<<fate, credit>>
<1>0. /\ cmd_buf \in Seq(Cells) /\ e2s \in Seq(Cells) /\ c2e \in Seq(Cells) /\ credit \in Nat
      /\ StreamInv(Stream, Written, fate, credit, cut)
      /\ fate \in Seq({"sent", "struck", "queued", "refused", "twice"})
  BY LinkFacts
<1>1. c2e' \in Seq(Cells) /\ Len(c2e') = 0 /\ cmd_buf' \in Seq(Cells) /\ e2s' \in Seq(Cells)
  BY <1>0, EmptySeq
<1>2. /\ Stream \in Seq(Cells) /\ Written \in 0 .. Len(Stream) /\ Len(cmd_buf) \in Nat
      /\ Len(e2s) \in Nat /\ Len(c2e) \in Nat /\ Written = Len(cmd_buf) + Len(e2s)
      /\ Written \in Nat /\ Len(Stream) = Written + Len(c2e)
      /\ \A z \in 1 .. Len(cmd_buf) : Stream[z] = cmd_buf[z]
      /\ \A z \in Len(cmd_buf) + 1 .. Written : Stream[z] = e2s[z - Len(cmd_buf)]
      /\ \A z \in Written + 1 .. Len(Stream) : Stream[z] = c2e[z - Written]
  BY <1>0, StreamTypes
<1>3. /\ Stream' \in Seq(Cells) /\ Written' = Written /\ Len(Stream') = Written
      /\ \A z \in 1 .. Len(cmd_buf) : Stream'[z] = cmd_buf[z]
      /\ \A z \in Len(cmd_buf) + 1 .. Written : Stream'[z] = e2s[z - Len(cmd_buf)]
  BY <1>1, <1>2, NextStreamTypes
<1>4. Keeps(Stream, Stream', Written)
  <2>1. \A z \in 1 .. Written : z \in 1 .. Len(cmd_buf) \/ z \in Len(cmd_buf) + 1 .. Written
    BY <1>2
  <2>2. \A z \in 1 .. Written : Stream'[z] = Stream[z]
    BY <1>2, <1>3, <2>1
  <2> QED
    BY <1>2, <1>3, <2>2 DEF Keeps
<1>5. /\ Struck(fate, fate', In(c2e)) /\ credit' = credit
      /\ fate' \in Seq({"sent", "struck", "queued", "refused", "twice"})
      /\ DOMAIN fate' = DOMAIN fate /\ credit' \in Nat /\ Promised!CNext
  <2>1. 0 \in 0 .. 2 /\ credit + 0 = credit
    BY <1>0
  <2> QED
    BY <1>0, <2>1, StrikeStep
<1>6. Among(Stream, Written + 1, Len(Stream)) \subseteq In(c2e)
  <2> SUFFICES ASSUME NEW z \in Written + 1 .. Len(Stream), Stream[z][1] \in DOMAIN Lengths
               PROVE  Stream[z][1] \in In(c2e)
    BY DEF Among
  <2>1. z - Written \in DOMAIN c2e /\ Stream[z] = c2e[z - Written]
    <3>1. DOMAIN c2e = 1 .. Len(c2e)
      BY <1>0, LenProperties
    <3>2. z - Written \in 1 .. Len(c2e)
      BY <1>2
    <3>3. Stream[z] = c2e[z - Written]
      BY <1>2, Zenon
    <3> QED
      BY <3>1, <3>2, <3>3
  <2> QED
    BY <2>1 DEF In
<1>7. StreamInv(Stream', Written, fate', credit, cut)
  BY <1>0, <1>2, <1>3, <1>4, <1>5, <1>6, CutInv
<1> QED
  BY <1>1, <1>3, <1>5, <1>7

\* The connection goes, whoever notices.
LEMMA GoneInv ==
  ASSUME LinkInv, cmd_buf' = cmd_buf, e2s' = e2s, c2e' = <<>>, cut' = cut, BoardsOK',
         Strike(In(c2e), 0), faults' \in {faults, faults + 1}, conn' \in {"none", "rst"}
  PROVE  LinkInv' /\ [Promised!CNext]_<<fate, credit>>
<1>1. /\ c2e' \in Seq(Cells) /\ Len(c2e') = 0
      /\ fate' \in Seq({"sent", "struck", "queued", "refused", "twice"})
      /\ DOMAIN fate' = DOMAIN fate /\ credit' \in Nat
      /\ StreamInv(Stream', Written', fate', credit', cut')
      /\ [Promised!CNext]_<<fate, credit>>
  BY CutStream
<1>2. /\ cmd_buf \in Seq(Cells) /\ e2s \in Seq(Cells) /\ faults \in Nat
      /\ Len(cmd_buf) <= CmdBufCap /\ Len(e2s) <= WireCap + 2 * faults
      /\ \A i \in 1 .. Len(cmd_buf) : ~IsZero(cmd_buf[i])
  BY LinkFacts
<1>3. WireCap \in Nat /\ TcpCap \in Nat /\ Len(e2s) \in Nat
  BY <1>2, LinkAssumption, LenProperties
<1>4. Len(e2s') <= WireCap + 2 * faults' /\ Len(c2e') <= TcpCap
  BY <1>1, <1>2, <1>3
<1>5. LinkTypeOK'
  BY <1>1, <1>2, <1>4 DEF LinkInv, LinkTypeOK, BoardsOK
<1>6. \A i \in 1 .. Len(cmd_buf') : ~IsZero(cmd_buf'[i])
  BY <1>2
<1> QED
  BY <1>1, <1>5, <1>6 DEF LinkInv

\* Frames for the client.
LEMMA ForwardFrameInv ==
  ASSUME LinkInv, ForwardFrame
  PROVE  LinkInv' /\ [Promised!CNext]_<<fate, credit>>
<1>1. BoardsOK
  BY LinkFacts
<1>2. fifo # <<>> /\ UNCHANGED <<stm, faults>>
  BY DEF ForwardFrame
<1> DEFINE D == {Hello, ForClient, Mangled}
<1>3. FifoCap \in Nat /\ Len(fifo) \in Nat /\ fifo \in Seq(D) /\ Len(fifo) <= FifoCap
  BY <1>1, LinkAssumption, LenProperties DEF BoardsOK
<1>4. CASE fifo' = Tail(fifo) /\ UNCHANGED <<e2s, c2e, conn, ghosts>>
  <2>1. Tail(fifo) \in Seq(D) /\ Len(Tail(fifo)) = Len(fifo) - 1
    BY <1>2, <1>3, HeadTailProperties
  <2>2. fifo' \in Seq(D) /\ Len(fifo') <= FifoCap
    BY <1>3, <1>4, <2>1
  <2>3. BoardsOK'
    BY <1>1, <1>2, <1>4, <2>2 DEF BoardsOK, stm
  <2> QED
    BY <1>2, <1>4, <2>3, Aside DEF stm
<1>5. CASE Disconnect /\ \E n \in 1..Len(fifo) : fifo' = SubSeq(fifo, n + 1, Len(fifo))
  <2>1. PICK n \in 1..Len(fifo) : fifo' = SubSeq(fifo, n + 1, Len(fifo))
    BY <1>5
  <2>2. fifo' \in Seq(D) /\ Len(fifo') <= FifoCap
    <3>1. n \in 0 .. Len(fifo)
      BY <1>3
    <3>2. /\ SubSeq(fifo, n + 1, Len(fifo)) \in Seq(D)
          /\ Len(SubSeq(fifo, n + 1, Len(fifo))) = Len(fifo) - n
      BY <1>3, <3>1, Sliced
    <3> QED
      BY <1>3, <2>1, <3>2
  <2>3. BoardsOK' /\ conn' \in {"none", "rst"} /\ cmd_buf' = cmd_buf /\ e2s' = e2s
        /\ c2e' = <<>> /\ cut' = cut /\ Strike(In(c2e), 0) /\ faults' \in {faults, faults + 1}
    BY <1>1, <1>2, <1>5, <2>2 DEF BoardsOK, stm, Disconnect
  <2> QED
    BY <2>3, GoneInv
<1> QED
  BY <1>4, <1>5 DEF ForwardFrame

\* The client has closed its side.
LEMMA EndOfStreamInv ==
  ASSUME LinkInv, EndOfStream
  PROVE  LinkInv' /\ [Promised!CNext]_<<fate, credit>>
<1>1. BoardsOK
  BY LinkFacts
<1>2. BoardsOK' /\ conn' \in {"none", "rst"} /\ cmd_buf' = cmd_buf /\ e2s' = e2s
      /\ c2e' = <<>> /\ cut' = cut /\ Strike(In(c2e), 0) /\ faults' \in {faults, faults + 1}
  BY <1>1 DEF BoardsOK, stm, EndOfStream, Disconnect
<1> QED
  BY <1>2, GoneInv

\* The connection breaks.
LEMMA ConnectionLostInv ==
  ASSUME LinkInv, ConnectionLost
  PROVE  LinkInv' /\ [Promised!CNext]_<<fate, credit>>
<1>1. BoardsOK /\ MaxFaults \in Nat
  BY LinkFacts, LinkAssumption
<1>2. faults' = faults + 1 /\ faults' \in 0 .. MaxFaults
  BY <1>1 DEF ConnectionLost, BoardsOK
<1>3. BoardsOK' /\ conn' \in {"none", "rst"} /\ cmd_buf' = cmd_buf /\ e2s' = e2s
      /\ c2e' = <<>> /\ cut' = cut /\ Strike(In(c2e), 0)
  BY <1>1, <1>2 DEF BoardsOK, stm, ConnectionLost
<1> QED
  BY <1>2, <1>3, GoneInv

\* A Hello is answered.
LEMMA AnswerHelloInv ==
  ASSUME LinkInv, AnswerHello
  PROVE  LinkInv' /\ [Promised!CNext]_<<fate, credit>>
<1>0. /\ cmd_buf \in Seq(Cells) /\ e2s \in Seq(Cells) /\ c2e \in Seq(Cells) /\ credit \in Nat
      /\ StreamInv(Stream, Written, fate, credit, cut) /\ cut \in Nat /\ BoardsOK
      /\ fate \in Seq({"sent", "struck", "queued", "refused", "twice"})
      /\ faults \in Nat
  BY LinkFacts
<1>1. /\ fifo # <<>> /\ Write(Frame(HelloAck)) /\ fifo' = Tail(fifo)
      /\ UNCHANGED <<stm, c2e, conn, faults>>
  BY DEF AnswerHello
<1> DEFINE cells == Frame(HelloAck)
<1>2. /\ cells \in Seq(Cells) /\ Len(cells) = 2
      /\ cells[1] = <<HelloAck, 1>> /\ cells[2] = <<HelloAck, 0>>
  <2>1. HelloAck \in Frames /\ BodyLen(HelloAck) = 1 /\ 1 \in 1 .. BodyLen(HelloAck)
    BY HandshakeFits
  <2>2. /\ cells \in Seq(Cells) /\ Len(cells) = BodyLen(HelloAck) + 1
        /\ \A i \in 1 .. BodyLen(HelloAck) : cells[i] = <<HelloAck, i>>
        /\ cells[BodyLen(HelloAck) + 1] = <<HelloAck, 0>>
    BY <2>1, FrameCells
  <2> HIDE DEF cells
  <2> QED
    BY <2>1, <2>2
<1>3. Head(cells)[1] = HelloAck /\ Last(cells) = <<HelloAck, 0>> /\ IsZero(Last(cells))
  BY <1>2, HeadTailProperties, EmptySeq DEF Last, IsZero
<1> HIDE DEF cells
<1>4. /\ Len(e2s) + 2 <= WireCap /\ e2s' = e2s \o cells /\ cut' = 0
      /\ IF cut # 0 /\ HelloAck # cut THEN Strike({cut, HelloAck}, 2) ELSE Strike({}, 0)
  BY <1>1, <1>2, <1>3 DEF Write, cells
<1>5. /\ e2s' \in Seq(Cells) /\ Len(e2s') = Len(e2s) + 2 /\ Len(e2s) \in Nat
      /\ \A z \in 1 .. Len(e2s) : e2s'[z] = e2s[z]
      /\ e2s'[Len(e2s) + 1] = <<HelloAck, 1>> /\ e2s'[Len(e2s) + 2] = <<HelloAck, 0>>
  <2>1. Len(e2s) \in Nat
    BY <1>0, LenProperties
  <2>2. /\ e2s \o cells \in Seq(Cells) /\ Len(e2s \o cells) = Len(e2s) + Len(cells)
        /\ \A i \in 1 .. Len(e2s) + Len(cells) :
             (e2s \o cells)[i] = IF i <= Len(e2s) THEN e2s[i] ELSE cells[i - Len(e2s)]
    BY <1>0, <1>2, ConcatProperties
  <2> QED
    BY <1>2, <1>4, <2>1, <2>2
<1>6. /\ Stream \in Seq(Cells) /\ Written \in 0 .. Len(Stream) /\ Len(cmd_buf) \in Nat
      /\ Len(c2e) \in Nat /\ Written = Len(cmd_buf) + Len(e2s)
      /\ Written \in Nat /\ Len(Stream) = Written + Len(c2e)
      /\ \A z \in 1 .. Len(cmd_buf) : Stream[z] = cmd_buf[z]
      /\ \A z \in Len(cmd_buf) + 1 .. Written : Stream[z] = e2s[z - Len(cmd_buf)]
      /\ \A z \in Written + 1 .. Len(Stream) : Stream[z] = c2e[z - Written]
  BY <1>0, StreamTypes
<1>7. cmd_buf' = cmd_buf /\ c2e' = c2e
  BY <1>1 DEF stm
<1>8. /\ Stream' \in Seq(Cells) /\ Written' = Written + 2 /\ Len(Stream') = Len(Stream) + 2
      /\ \A z \in 1 .. Len(cmd_buf) : Stream'[z] = cmd_buf[z]
      /\ \A z \in Len(cmd_buf) + 1 .. Written + 2 : Stream'[z] = e2s'[z - Len(cmd_buf)]
      /\ \A z \in Written + 3 .. Len(Stream) + 2 : Stream'[z] = c2e[z - (Written + 2)]
  <2>1. cmd_buf' \in Seq(Cells) /\ c2e' \in Seq(Cells)
    BY <1>0, <1>7
  <2>2. /\ Stream' \in Seq(Cells) /\ Written' = Len(cmd_buf') + Len(e2s')
        /\ Len(Stream') = Written' + Len(c2e')
        /\ \A z \in 1 .. Len(cmd_buf') : Stream'[z] = cmd_buf'[z]
        /\ \A z \in Len(cmd_buf') + 1 .. Written' : Stream'[z] = e2s'[z - Len(cmd_buf')]
        /\ \A z \in Written' + 1 .. Len(Stream') : Stream'[z] = c2e'[z - Written']
    BY <1>5, <2>1, NextStreamTypes
  <2>3. Written' = Written + 2 /\ Len(Stream') = Len(Stream) + 2 /\ Written + 2 + 1 = Written + 3
    BY <1>5, <1>6, <1>7, <2>2
  <2> QED
    BY <1>6, <1>7, <2>2, <2>3
<1>9. Inserts(Stream, Stream', Written)
  <2>1. ASSUME NEW z \in 1 .. Written PROVE Stream'[z] = Stream[z]
    <3>1. CASE z <= Len(cmd_buf)
      BY <1>6, <1>8, <3>1
    <3>2. CASE z > Len(cmd_buf)
      <4>1. /\ z \in Len(cmd_buf) + 1 .. Written /\ z \in Len(cmd_buf) + 1 .. Written + 2
            /\ z - Len(cmd_buf) \in 1 .. Len(e2s)
        BY <1>5, <1>6, <3>2
      <4> QED
        BY <1>5, <1>6, <1>8, <4>1
    <3> QED
      BY <1>6, <3>1, <3>2
  <2>2. Stream'[Written + 1] = <<HelloAck, 1>> /\ Stream'[Written + 2] = <<HelloAck, 0>>
    <3>1. ASSUME NEW z \in Written + 1 .. Written + 2
          PROVE  Stream'[z] = e2s'[z - Len(cmd_buf)]
      <4>1. z \in Len(cmd_buf) + 1 .. Written + 2
        BY <1>5, <1>6
      <4> QED
        BY <1>8, <4>1
    <3>2. ASSUME NEW z, z = Written + 1 PROVE Stream'[z] = <<HelloAck, 1>>
      <4>1. z \in Written + 1 .. Written + 2 /\ z - Len(cmd_buf) = Len(e2s) + 1
        BY <1>5, <1>6, <3>2
      <4>2. Stream'[z] = e2s'[z - Len(cmd_buf)]
        BY <3>1, <4>1
      <4> QED
        BY <1>5, <4>1, <4>2
    <3>3. ASSUME NEW z, z = Written + 2 PROVE Stream'[z] = <<HelloAck, 0>>
      <4>1. z \in Written + 1 .. Written + 2 /\ z - Len(cmd_buf) = Len(e2s) + 2
        BY <1>5, <1>6, <3>3
      <4>2. Stream'[z] = e2s'[z - Len(cmd_buf)]
        BY <3>1, <4>1
      <4> QED
        BY <1>5, <4>1, <4>2
    <3> QED
      BY <3>2, <3>3
  <2>3. ASSUME NEW z \in Written + 1 .. Len(Stream) PROVE Stream'[z + 2] = Stream[z]
    <3>1. z + 2 \in Written + 3 .. Len(Stream) + 2 /\ z + 2 - (Written + 2) = z - Written
      BY <1>6
    <3> QED
      BY <1>6, <1>8, <3>1, SMTT(30)
  <2> QED
    BY <1>8, <2>1, <2>2, <2>3 DEF Inserts
<1>10. PICK X : /\ Struck(fate, fate', X) /\ (cut # 0 => cut \in X)
                /\ DOMAIN fate' = DOMAIN fate
                /\ fate' \in Seq({"sent", "struck", "queued", "refused", "twice"})
                /\ credit' = (IF cut = 0 THEN credit ELSE credit + 2)
                /\ credit' \in Nat /\ Promised!CNext
  <2>1. cut # HelloAck /\ 0 \in 0 .. 2 /\ 2 \in 0 .. 2
    BY <1>0 DEF HelloAck
  <2>2. CASE cut = 0
    <3>1. Strike({}, 0)
      BY <1>4, <2>2
    <3> QED
      BY <1>0, <2>1, <2>2, <3>1, StrikeStep
  <2>3. CASE cut # 0
    <3>1. Strike({cut, HelloAck}, 2)
      BY <1>4, <2>1, <2>3
    <3> QED
      BY <1>0, <2>1, <2>3, <3>1, StrikeStep
  <2> QED
    BY <2>2, <2>3
<1>12. StreamInv(Stream', Written + 2, fate', credit', 0)
  BY <1>0, <1>6, <1>8, <1>9, <1>10, InsertInv
<1>13. BoardsOK'
  <2> DEFINE D == {Hello, ForClient, Mangled}
  <2>1. FifoCap \in Nat /\ Len(fifo) \in Nat /\ fifo \in Seq(D) /\ Len(fifo) <= FifoCap
    BY <1>0, LinkAssumption, LenProperties DEF BoardsOK
  <2>2. Tail(fifo) \in Seq(D) /\ Len(Tail(fifo)) = Len(fifo) - 1
    BY <1>1, <2>1, HeadTailProperties
  <2>3. fifo' \in Seq(D) /\ Len(fifo') <= FifoCap
    BY <1>1, <2>1, <2>2
  <2> QED
    BY <1>0, <1>1, <2>3 DEF BoardsOK, stm
<1>14. LinkTypeOK'
  <2>1. WireCap \in Nat
    BY LinkAssumption
  <2>2. Len(e2s') <= WireCap + 2 * faults'
    BY <1>0, <1>1, <1>4, <1>5, <2>1
  <2> QED
    BY <1>4, <1>5, <1>7, <1>10, <1>13, <2>2 DEF LinkInv, LinkTypeOK, BoardsOK
<1> QED
  BY <1>1, <1>4, <1>7, <1>8, <1>10, <1>12, <1>14 DEF LinkInv

\* The smaller of two numbers.
LEMMA MinOfTwo ==
  ASSUME NEW a \in Int, NEW b \in Int
  PROVE  Min({a, b}) \in {a, b} /\ Min({a, b}) <= a /\ Min({a, b}) <= b
<1>1. \E x \in {a, b} : \A y \in {a, b} : x <= y
  <2>1. CASE a <= b
    BY <2>1
  <2>2. CASE b <= a
    BY <2>2
  <2> QED
    BY <2>1, <2>2
<1>2. Min({a, b}) \in {a, b} /\ \A y \in {a, b} : Min({a, b}) <= y
  BY <1>1 DEF Min
<1> QED
  BY <1>2

\* The command a written stretch strikes, if it does not go on with the one
\* that is half written.
LEMMA WrittenStep ==
  ASSUME LinkInv, NEW first \in Int,
         IF cut # 0 /\ first # cut THEN Strike({cut, first}, 2) ELSE Strike({}, 0)
  PROVE  \E X : /\ Struck(fate, fate', X) /\ (cut # 0 /\ first # cut => cut \in X /\ first \in X)
                /\ DOMAIN fate' = DOMAIN fate
                /\ fate' \in Seq({"sent", "struck", "queued", "refused", "twice"})
                /\ credit' = (IF cut # 0 /\ first # cut THEN credit + 2 ELSE credit)
                /\ credit' \in Nat /\ Promised!CNext
<1>0. /\ credit \in Nat /\ 0 \in 0 .. 2 /\ 2 \in 0 .. 2
      /\ fate \in Seq({"sent", "struck", "queued", "refused", "twice"})
  BY LinkFacts
<1>1. CASE cut # 0 /\ first # cut
  <2>1. Strike({cut, first}, 2)
    BY <1>1
  <2> QED
    BY <1>0, <1>1, <2>1, StrikeStep
<1>2. CASE ~(cut # 0 /\ first # cut)
  <2>1. Strike({}, 0)
    BY <1>2
  <2> QED
    BY <1>0, <1>2, <2>1, StrikeStep
<1> QED
  BY <1>1, <1>2

\* A piece of the client's stream is written to the UART.
LEMMA TcpToUartInv ==
  ASSUME LinkInv, TcpToUart
  PROVE  LinkInv' /\ [Promised!CNext]_<<fate, credit>>
<1>0. /\ cmd_buf \in Seq(Cells) /\ e2s \in Seq(Cells) /\ c2e \in Seq(Cells) /\ credit \in Nat
      /\ Len(c2e) <= TcpCap
      /\ StreamInv(Stream, Written, fate, credit, cut) /\ cut \in Nat /\ BoardsOK
      /\ DOMAIN fate = 1 .. Len(fate) /\ faults \in Nat
  BY LinkFacts
<1>1. /\ conn \in {"up", "fin"} /\ c2e # <<>> /\ UNCHANGED <<stm, fifo, conn, faults>>
      /\ \E n \in 1..Min({TcpChunk, Len(c2e)}) :
           /\ Write(SubSeq(c2e, 1, n))
           /\ c2e' = SubSeq(c2e, n + 1, Len(c2e))
  BY DEF TcpToUart
<1>2. PICK n \in 1..Min({TcpChunk, Len(c2e)}) :
           /\ Write(SubSeq(c2e, 1, n))
           /\ c2e' = SubSeq(c2e, n + 1, Len(c2e))
  BY <1>1
<1>3. n \in 1 .. Len(c2e) /\ n \in 0 .. Len(c2e) /\ Len(c2e) \in Nat
  <2>1. TcpChunk \in Int /\ Len(c2e) \in Nat /\ Len(c2e) \in Int
    BY <1>0, LinkAssumption, LenProperties
  <2>2. Min({TcpChunk, Len(c2e)}) \in Int /\ Min({TcpChunk, Len(c2e)}) <= Len(c2e)
    BY <2>1, MinOfTwo
  <2> QED
    BY <2>1, <2>2
<1> DEFINE cells == SubSeq(c2e, 1, n)
           d == Written + n
<1>4. /\ cells \in Seq(Cells) /\ Len(cells) = n /\ \A i \in 1 .. n : cells[i] = c2e[i]
      /\ c2e' \in Seq(Cells) /\ Len(c2e') = Len(c2e) - n
      /\ \A i \in 1 .. Len(c2e) - n : c2e'[i] = c2e[n + i]
  BY <1>0, <1>2, <1>3, Sliced, SMTT(30)
<1>5. Head(cells) = c2e[1] /\ Last(cells) = c2e[n]
  <2>1. cells # <<>>
    <3>1. Len(cells) # 0
      BY <1>3, <1>4
    <3> HIDE DEF cells
    <3> QED
      BY <3>1, EmptySeq
  <2>2. Head(cells) = cells[1] /\ 1 \in 1 .. n /\ n \in 1 .. n
    BY <1>3, <1>4, <2>1, HeadTailProperties
  <2> QED
    BY <1>4, <2>2 DEF Last
<1> HIDE DEF cells
<1>6. /\ Len(e2s) + n <= WireCap /\ e2s' = e2s \o cells
      /\ IF cut # 0 /\ c2e[1][1] # cut THEN Strike({cut, c2e[1][1]}, 2) ELSE Strike({}, 0)
      /\ cut' = IF IsZero(c2e[n]) THEN 0 ELSE c2e[n][1]
  BY <1>2, <1>4, <1>5 DEF Write, cells
<1>7. /\ e2s' \in Seq(Cells) /\ Len(e2s') = Len(e2s) + n /\ Len(e2s) \in Nat
      /\ \A z \in 1 .. Len(e2s) : e2s'[z] = e2s[z]
      /\ \A z \in Len(e2s) + 1 .. Len(e2s) + n : e2s'[z] = c2e[z - Len(e2s)]
  <2>1. Len(e2s) \in Nat
    BY <1>0, LenProperties
  <2>2. /\ e2s \o cells \in Seq(Cells) /\ Len(e2s \o cells) = Len(e2s) + n
        /\ \A i \in 1 .. Len(e2s) + n :
             (e2s \o cells)[i] = IF i <= Len(e2s) THEN e2s[i] ELSE cells[i - Len(e2s)]
    <3>1. e2s \in Seq(Cells) /\ cells \in Seq(Cells) /\ Len(cells) = n
      BY <1>0, <1>4
    <3>2. /\ e2s \o cells \in Seq(Cells) /\ Len(e2s \o cells) = Len(e2s) + Len(cells)
          /\ \A i \in 1 .. Len(e2s) + Len(cells) :
               (e2s \o cells)[i] = IF i <= Len(e2s) THEN e2s[i] ELSE cells[i - Len(e2s)]
      BY <3>1, ConcatProperties, ZenonT(30)
    <3> QED
      BY <3>1, <3>2
  <2>3. \A z \in Len(e2s) + 1 .. Len(e2s) + n :
          z \in 1 .. Len(e2s) + n /\ ~(z <= Len(e2s)) /\ z - Len(e2s) \in 1 .. n
    BY <1>3, <2>1
  <2>4. \A z \in 1 .. Len(e2s) : z \in 1 .. Len(e2s) + n /\ z <= Len(e2s)
    BY <1>3, <2>1
  <2> QED
    BY <1>4, <1>6, <2>1, <2>2, <2>3, <2>4
<1>8. /\ Stream \in Seq(Cells) /\ Written \in 0 .. Len(Stream) /\ Len(cmd_buf) \in Nat
      /\ Written = Len(cmd_buf) + Len(e2s)
      /\ Written \in Nat /\ Len(Stream) = Written + Len(c2e)
      /\ \A z \in 1 .. Len(cmd_buf) : Stream[z] = cmd_buf[z]
      /\ \A z \in Len(cmd_buf) + 1 .. Written : Stream[z] = e2s[z - Len(cmd_buf)]
      /\ \A z \in Written + 1 .. Len(Stream) : Stream[z] = c2e[z - Written]
  BY <1>0, StreamTypes
<1>9. cmd_buf' = cmd_buf
  BY <1>1 DEF stm
<1>10. /\ Stream' \in Seq(Cells) /\ Written' = d /\ Len(Stream') = Len(Stream)
       /\ \A z \in 1 .. Len(cmd_buf) : Stream'[z] = cmd_buf[z]
       /\ \A z \in Len(cmd_buf) + 1 .. d : Stream'[z] = e2s'[z - Len(cmd_buf)]
       /\ \A z \in d + 1 .. Len(Stream) : Stream'[z] = c2e'[z - d]
  <2>1. cmd_buf' \in Seq(Cells)
    BY <1>0, <1>9
  <2>2. /\ Stream' \in Seq(Cells) /\ Written' = Len(cmd_buf') + Len(e2s')
        /\ Len(Stream') = Written' + Len(c2e')
        /\ \A z \in 1 .. Len(cmd_buf') : Stream'[z] = cmd_buf'[z]
        /\ \A z \in Len(cmd_buf') + 1 .. Written' : Stream'[z] = e2s'[z - Len(cmd_buf')]
        /\ \A z \in Written' + 1 .. Len(Stream') : Stream'[z] = c2e'[z - Written']
    BY <1>4, <1>7, <2>1, NextStreamTypes
  <2>3. Written' = d /\ Len(Stream') = Len(Stream)
    BY <1>3, <1>4, <1>7, <1>8, <1>9, <2>2
  <2> QED
    BY <1>9, <2>2, <2>3
<1>11. Stream' = Stream
  <2>1. ASSUME NEW z \in 1 .. Len(Stream) PROVE Stream'[z] = Stream[z]
    <3>1. CASE z <= Len(cmd_buf)
      <4>1. z \in 1 .. Len(cmd_buf)
        BY <1>3, <1>8, <3>1
      <4> QED
        BY <1>8, <1>10, <4>1
    <3>2. CASE z > Len(cmd_buf) /\ z <= Written
      <4>1. /\ z \in Len(cmd_buf) + 1 .. Written /\ z \in Len(cmd_buf) + 1 .. d
            /\ z - Len(cmd_buf) \in 1 .. Len(e2s)
        BY <1>3, <1>7, <1>8, <3>2
      <4> QED
        BY <1>7, <1>8, <1>10, <4>1
    <3>3. CASE z > Written /\ z <= d
      <4>1. /\ z \in Written + 1 .. Len(Stream) /\ z \in Len(cmd_buf) + 1 .. d
            /\ z - Len(cmd_buf) \in Len(e2s) + 1 .. Len(e2s) + n
            /\ z - Len(cmd_buf) - Len(e2s) = z - Written
        BY <1>3, <1>7, <1>8, <3>3
      <4>2. Stream'[z] = c2e[z - Len(cmd_buf) - Len(e2s)]
        BY <1>7, <1>10, <4>1
      <4> QED
        BY <1>8, <4>1, <4>2
    <3>4. CASE z > d
      <4>1. /\ z \in Written + 1 .. Len(Stream) /\ z \in d + 1 .. Len(Stream)
            /\ z - d \in 1 .. Len(c2e) - n /\ n + (z - d) = z - Written
        BY <1>3, <1>8, <3>4
      <4>2. Stream'[z] = c2e[n + (z - d)]
        BY <1>4, <1>10, <4>1
      <4> QED
        BY <1>8, <4>1, <4>2
    <3> QED
      BY <1>3, <1>8, <3>1, <3>2, <3>3, <3>4
  <2>2. Keeps(Stream, Stream', Len(Stream)) /\ Len(Stream) \in Nat
    BY <1>8, <1>10, <2>1, LenProperties DEF Keeps
  <2> QED
    BY <1>8, <1>10, <2>2, SameStream
<1>12. /\ d \in Written + 1 .. Len(Stream) /\ Stream[d] = c2e[n]
       /\ Stream[Written + 1] = c2e[1] /\ Written + 1 \in Written + 1 .. Len(Stream)
  <2>1. ASSUME NEW z \in Written + 1 .. Len(Stream), NEW i \in 1 .. Len(c2e), z = Written + i
        PROVE  Stream[z] = c2e[i]
    <3>1. z - Written = i
      BY <1>8, <2>1
    <3> QED
      BY <1>8, <3>1
  <2>2. /\ d \in Written + 1 .. Len(Stream) /\ 1 \in 1 .. Len(c2e)
        /\ Written + 1 \in Written + 1 .. Len(Stream)
    BY <1>3, <1>8
  <2> QED
    BY <1>3, <2>1, <2>2
<1>13. c2e[1][1] \in Int /\ c2e[n][1] \in 1 .. Len(fate)
  <2>1. Known(Stream, Written, fate)
    BY <1>0 DEF StreamInv
  <2>2. d \in 1 .. Len(Stream)
    BY <1>8, <1>12
  <2>3. Stream[d][1] \in 1 .. Len(fate)
    BY <1>12, <2>1, <2>2 DEF Known
  <2>4. c2e[1] \in Cells
    BY <1>0, <1>3, ElementOfSeq
  <2> QED
    BY <1>12, <2>3, <2>4, CellTypes
<1> HIDE DEF d
<1>14. PICK X : /\ Struck(fate, fate', X)
                /\ (cut # 0 /\ c2e[1][1] # cut => cut \in X /\ c2e[1][1] \in X)
                /\ DOMAIN fate' = DOMAIN fate
                /\ fate' \in Seq({"sent", "struck", "queued", "refused", "twice"})
                /\ credit' = (IF cut # 0 /\ c2e[1][1] # cut THEN credit + 2 ELSE credit)
                /\ credit' \in Nat /\ Promised!CNext
  BY <1>6, <1>13, WrittenStep
<1>15. StreamInv(Stream, d, fate', credit', IF IsZero(Stream[d]) THEN 0 ELSE Stream[d][1])
  <2>1. cut # 0 /\ Stream[Written + 1][1] # cut => Stream[Written + 1][1] \in X
    BY <1>12, <1>14
  <2>2. credit' = IF cut # 0 /\ Stream[Written + 1][1] # cut THEN credit + 2 ELSE credit
    BY <1>12, <1>14
  <2> QED
    BY <1>0, <1>8, <1>12, <1>14, <2>1, <2>2, WriteInv
<1>16. StreamInv(Stream', Written', fate', credit', cut')
  BY <1>6, <1>10, <1>11, <1>12, <1>15
<1>17. cut' \in {0} \cup DOMAIN fate'
  BY <1>0, <1>6, <1>13, <1>14
<1>18. conn = "up" => c2e' = <<>> \/ IsZero(c2e'[Len(c2e')])
  <2> SUFFICES ASSUME conn = "up", c2e' # <<>> PROVE IsZero(c2e'[Len(c2e')])
    OBVIOUS
  <2>1. IsZero(c2e[Len(c2e)])
    BY <1>1 DEF LinkInv
  <2>2. Len(c2e') # 0
    BY <1>4, EmptySeq
  <2>3. /\ Len(c2e') = Len(c2e) - n /\ Len(c2e') \in 1 .. Len(c2e) - n
        /\ n + Len(c2e') = Len(c2e)
    BY <1>3, <1>4, <2>2
  <2>4. c2e'[Len(c2e')] = c2e[n + Len(c2e')]
    BY <1>4, <2>3
  <2> QED
    BY <2>1, <2>3, <2>4
<1>19. LinkTypeOK'
  <2>1. WireCap \in Nat /\ TcpCap \in Nat
    BY LinkAssumption
  <2>2. Len(e2s') <= WireCap + 2 * faults' /\ Len(c2e') <= TcpCap
    <3>1. Len(c2e') <= TcpCap
      BY <1>0, <1>3, <1>4, <2>1
    <3>2. Len(e2s') <= WireCap /\ Len(e2s') \in Nat
      BY <1>3, <1>6, <1>7
    <3>3. faults' = faults
      BY <1>1
    <3> QED
      BY <1>0, <2>1, <3>1, <3>2, <3>3
  <2>3. BoardsOK'
    BY <1>0, <1>1 DEF BoardsOK, stm
  <2> QED
    BY <1>4, <1>7, <1>9, <1>14, <1>17, <2>2, <2>3 DEF LinkInv, LinkTypeOK, BoardsOK
<1>20. /\ \A i \in 1 .. Len(cmd_buf') : ~IsZero(cmd_buf'[i])
       /\ conn' = conn /\ conn \in {"up", "fin"}
  BY <1>1, <1>9 DEF LinkInv
<1> QED
  BY <1>14, <1>16, <1>18, <1>19, <1>20 DEF LinkInv

-----------------------------------------------------------------------------
(* The clients and the failures *)

\* More is behind what the socket holds.
LEMMA LongerStream ==
  ASSUME cmd_buf \in Seq(Cells), e2s \in Seq(Cells), c2e \in Seq(Cells),
         cmd_buf' = cmd_buf, e2s' = e2s, NEW w \in Seq(Cells), c2e' = c2e \o w
  PROVE  /\ c2e' \in Seq(Cells) /\ Len(c2e') = Len(c2e) + Len(w)
         /\ \A z \in Len(c2e) + 1 .. Len(c2e) + Len(w) : c2e'[z] = w[z - Len(c2e)]
         /\ Stream' \in Seq(Cells) /\ Written' = Written
         /\ Len(Stream') = Len(Stream) + Len(w)
         /\ Keeps(Stream, Stream', Len(Stream))
         /\ \A z \in Len(Stream) + 1 .. Len(Stream) + Len(w) : Stream'[z] = w[z - Len(Stream)]
<1>1. /\ Len(c2e) \in Nat /\ Len(w) \in Nat
      /\ c2e' \in Seq(Cells) /\ Len(c2e') = Len(c2e) + Len(w)
      /\ \A i \in 1 .. Len(c2e) + Len(w) :
           c2e'[i] = IF i <= Len(c2e) THEN c2e[i] ELSE w[i - Len(c2e)]
  BY LenProperties, ConcatProperties
<1>2. /\ \A i \in 1 .. Len(c2e) : c2e'[i] = c2e[i]
      /\ \A z \in Len(c2e) + 1 .. Len(c2e) + Len(w) : c2e'[z] = w[z - Len(c2e)]
  <2>1. ASSUME NEW i \in 1 .. Len(c2e) PROVE c2e'[i] = c2e[i]
    <3>1. i \in 1 .. Len(c2e) + Len(w) /\ i <= Len(c2e)
      BY <1>1
    <3> QED
      BY <1>1, <3>1
  <2>2. ASSUME NEW z \in Len(c2e) + 1 .. Len(c2e) + Len(w) PROVE c2e'[z] = w[z - Len(c2e)]
    <3>1. z \in 1 .. Len(c2e) + Len(w) /\ ~(z <= Len(c2e))
      BY <1>1
    <3> QED
      BY <1>1, <3>1
  <2> QED
    BY <2>1, <2>2
<1>3. /\ Stream \in Seq(Cells) /\ Written \in 0 .. Len(Stream) /\ Len(cmd_buf) \in Nat
      /\ Len(e2s) \in Nat /\ Written = Len(cmd_buf) + Len(e2s)
      /\ Written \in Nat /\ Len(Stream) = Written + Len(c2e)
      /\ \A z \in 1 .. Len(cmd_buf) : Stream[z] = cmd_buf[z]
      /\ \A z \in Len(cmd_buf) + 1 .. Written : Stream[z] = e2s[z - Len(cmd_buf)]
      /\ \A z \in Written + 1 .. Len(Stream) : Stream[z] = c2e[z - Written]
  BY StreamTypes
<1>4. /\ Stream' \in Seq(Cells) /\ Written' = Written /\ Len(Stream') = Written + Len(c2e')
      /\ \A z \in 1 .. Len(cmd_buf) : Stream'[z] = cmd_buf[z]
      /\ \A z \in Len(cmd_buf) + 1 .. Written : Stream'[z] = e2s[z - Len(cmd_buf)]
      /\ \A z \in Written + 1 .. Written + Len(c2e') : Stream'[z] = c2e'[z - Written]
  <2>1. cmd_buf' \in Seq(Cells) /\ e2s' \in Seq(Cells)
    OBVIOUS
  <2>2. /\ Stream' \in Seq(Cells) /\ Written' = Len(cmd_buf') + Len(e2s')
        /\ Len(Stream') = Written' + Len(c2e')
        /\ \A z \in 1 .. Len(cmd_buf') : Stream'[z] = cmd_buf'[z]
        /\ \A z \in Len(cmd_buf') + 1 .. Written' : Stream'[z] = e2s'[z - Len(cmd_buf')]
        /\ \A z \in Written' + 1 .. Len(Stream') : Stream'[z] = c2e'[z - Written']
    BY <1>1, <2>1, NextStreamTypes
  <2>3. Written' = Written
    BY <1>3, <2>2
  <2> QED
    BY <2>2, <2>3
<1>5. Len(Stream') = Len(Stream) + Len(w)
  BY <1>1, <1>3, <1>4
<1>6. ASSUME NEW z \in 1 .. Len(Stream) PROVE Stream'[z] = Stream[z]
  <2>1. CASE z \in 1 .. Len(cmd_buf)
    BY <1>3, <1>4, <2>1
  <2>2. CASE z \in Len(cmd_buf) + 1 .. Written
    BY <1>3, <1>4, <2>2
  <2>3. CASE z \in Written + 1 .. Len(Stream)
    <3>1. z \in Written + 1 .. Written + Len(c2e') /\ z - Written \in 1 .. Len(c2e)
      BY <1>1, <1>3, <2>3
    <3> QED
      BY <1>2, <1>3, <1>4, <2>3, <3>1
  <2> QED
    BY <1>1, <1>3, <2>1, <2>2, <2>3
<1>7. ASSUME NEW z \in Len(Stream) + 1 .. Len(Stream) + Len(w)
      PROVE  Stream'[z] = w[z - Len(Stream)]
  <2>1. /\ z \in Written + 1 .. Written + Len(c2e')
        /\ z - Written \in Len(c2e) + 1 .. Len(c2e) + Len(w)
        /\ z - Written - Len(c2e) = z - Len(Stream)
    BY <1>1, <1>3
  <2>2. Stream'[z] = c2e'[z - Written]
    BY <1>4, <2>1
  <2> QED
    BY <1>2, <2>1, <2>2
<1>8. Keeps(Stream, Stream', Len(Stream))
  <2>1. Len(Stream) <= Len(Stream')
    BY <1>1, <1>3, <1>5
  <2> QED
    BY <1>6, <2>1 DEF Keeps
<1> QED
  BY <1>1, <1>2, <1>4, <1>5, <1>7, <1>8

\* One more command has a fate.
LEMMA NextFate ==
  ASSUME fate \in Seq({"sent", "struck", "queued", "refused", "twice"}),
         NEW e \in {"sent", "struck"}, fate' = Append(fate, e)
  PROVE  /\ fate' \in Seq({"sent", "struck", "queued", "refused", "twice"})
         /\ Len(fate) \in Nat /\ Len(fate') = Len(fate) + 1 /\ fate'[Len(fate) + 1] = e
         /\ \A t \in 1 .. Len(fate) : fate'[t] = fate[t]
         /\ DOMAIN fate \subseteq DOMAIN fate'
<1> DEFINE Fs == {"sent", "struck", "queued", "refused", "twice"}
<1>1. /\ Len(fate) \in Nat /\ DOMAIN fate = 1 .. Len(fate)
      /\ fate' \in Seq(Fs) /\ Len(fate') = Len(fate) + 1 /\ fate'[Len(fate) + 1] = e
      /\ \A t \in 1 .. Len(fate) : fate'[t] = fate[t]
  BY LenProperties, AppendProperties
<1>3. DOMAIN fate' = 1 .. Len(fate')
  BY <1>1, LenProperties
<1>4. DOMAIN fate \subseteq DOMAIN fate'
  BY <1>1, <1>3
<1> QED
  BY <1>1, <1>4

\* A client sends a command.
LEMMA ClientSendInv ==
  ASSUME LinkInv, ClientSend
  PROVE  LinkInv' /\ [Promised!CNext]_<<fate, credit>>
<1> DEFINE s == Len(fate) + 1
<1>0. /\ cmd_buf \in Seq(Cells) /\ e2s \in Seq(Cells) /\ c2e \in Seq(Cells) /\ credit \in Nat
      /\ StreamInv(Stream, Written, fate, credit, cut) /\ cut \in Nat /\ BoardsOK
      /\ fate \in Seq({"sent", "struck", "queued", "refused", "twice"})
      /\ DOMAIN fate = 1 .. Len(fate) /\ Len(fate) \in Nat
      /\ cut \in {0} \cup 1 .. Len(fate)
  BY LinkFacts
<1>1. /\ conn = "up" /\ s \in DOMAIN Lengths /\ Len(c2e) + BodyLen(s) < TcpCap
      /\ c2e' = c2e \o Frame(s)
      /\ UNCHANGED <<stm, fifo, e2s, conn, faults, cut>>
      /\ IF BodyLen(s) > CmdBufCap
           THEN fate' = Append(fate, "struck") /\ credit' = credit + 1
           ELSE fate' = Append(fate, "sent") /\ UNCHANGED credit
  BY DEF ClientSend
<1>2. s \in Frames /\ BodyLen(s) \in Nat /\ TcpCap \in Nat /\ CmdBufCap \in Nat /\ Len(c2e) \in Nat
  BY <1>0, <1>1, FrameTypes, LinkAssumption, LenProperties DEF Frames
<1>3. /\ Frame(s) \in Seq(Cells) /\ Len(Frame(s)) = BodyLen(s) + 1
      /\ \A i \in 1..BodyLen(s) : Frame(s)[i] = <<s, i>>
      /\ Frame(s)[BodyLen(s) + 1] = <<s, 0>>
  BY <1>2, FrameCells
<1> DEFINE w == Frame(s)
<1>4. c2e' = c2e \o w /\ w \in Seq(Cells)
  BY <1>1, <1>3
<1> HIDE DEF w
<1>5. cmd_buf' = cmd_buf /\ e2s' = e2s
  BY <1>1 DEF stm
<1>6. /\ c2e' \in Seq(Cells) /\ Len(c2e') = Len(c2e) + Len(w)
      /\ \A z \in Len(c2e) + 1 .. Len(c2e) + Len(w) : c2e'[z] = w[z - Len(c2e)]
      /\ Stream' \in Seq(Cells) /\ Written' = Written
      /\ Len(Stream') = Len(Stream) + Len(w)
      /\ Keeps(Stream, Stream', Len(Stream))
      /\ \A z \in Len(Stream) + 1 .. Len(Stream) + Len(w) : Stream'[z] = w[z - Len(Stream)]
  BY <1>0, <1>4, <1>5, LongerStream
<1>7. /\ Len(w) = BodyLen(s) + 1 /\ \A i \in 1..BodyLen(s) : w[i] = <<s, i>>
      /\ w[BodyLen(s) + 1] = <<s, 0>>
  BY <1>3 DEF w
<1>8. /\ Stream \in Seq(Cells) /\ Written \in 0 .. Len(Stream) /\ Written \in Nat
      /\ Len(Stream) = Written + Len(c2e) /\ Len(Stream) \in Nat
      /\ \A z \in Written + 1 .. Len(Stream) : Stream[z] = c2e[z - Written]
  BY <1>0, StreamTypes, LenProperties
<1>9. PICK e \in {"sent", "struck"} :
         /\ fate' = Append(fate, e)
         /\ \/ BodyLen(s) <= CmdBufCap /\ e = "sent" /\ credit' = credit
            \/ e = "struck" /\ credit' = credit + 1
  BY <1>1, <1>2
<1>10. /\ fate' \in Seq({"sent", "struck", "queued", "refused", "twice"})
       /\ Len(fate') = s /\ fate'[s] = e
       /\ \A t \in 1 .. Len(fate) : fate'[t] = fate[t]
       /\ DOMAIN fate \subseteq DOMAIN fate'
  BY <1>0, <1>9, NextFate
<1> HIDE DEF s
<1>11. Bodied(Stream, Stream', s, BodyLen(s)) /\ Stream'[Len(Stream')] = <<s, 0>>
  <2>1. ASSUME NEW z \in Len(Stream) + 1 .. Len(Stream) + BodyLen(s)
        PROVE  Stream'[z] = <<s, z - Len(Stream)>>
    <3>1. z \in Len(Stream) + 1 .. Len(Stream) + Len(w) /\ z - Len(Stream) \in 1 .. BodyLen(s)
      BY <1>2, <1>7, <1>8, SMTT(30)
    <3> QED
      BY <1>6, <1>7, <3>1
  <2>2. ASSUME NEW z, z = Len(Stream') PROVE Stream'[z] = <<s, 0>>
    <3>1. /\ z \in Len(Stream) + 1 .. Len(Stream) + Len(w)
          /\ z - Len(Stream) = BodyLen(s) + 1
      BY <1>2, <1>6, <1>7, <1>8, <2>2, SMTT(30)
    <3> QED
      BY <1>6, <1>7, <3>1
  <2>3. Len(Stream) + BodyLen(s) <= Len(Stream')
    BY <1>2, <1>6, <1>7, <1>8, SMTT(30)
  <2> QED
    BY <1>6, <2>1, <2>2, <2>3 DEF Bodied
<1>12. Len(Stream) = Written \/ IsZero(Stream[Len(Stream)])
  <2>1. c2e = <<>> \/ IsZero(c2e[Len(c2e)])
    BY <1>1 DEF LinkInv
  <2>2. CASE c2e = <<>>
    <3>1. Len(c2e) = 0
      BY <2>2, EmptySeq
    <3> QED
      BY <1>8, <3>1
  <2>3. CASE Len(c2e) # 0 /\ IsZero(c2e[Len(c2e)])
    <3> SUFFICES ASSUME NEW z, z = Len(Stream) PROVE IsZero(Stream[z])
      OBVIOUS
    <3>1. z \in Written + 1 .. Len(Stream) /\ z - Written = Len(c2e)
      BY <1>2, <1>8, <2>3
    <3> QED
      BY <1>8, <2>3, <3>1
  <2> QED
    BY <1>0, <2>1, <2>2, <2>3, EmptySeq
<1>13. StreamInv(Stream', Written, fate', credit', cut)
  <2>1. Len(Stream') = Len(Stream) + BodyLen(s) + 1 /\ credit' \in Nat /\ s = Len(fate) + 1
    <3>1. Len(Stream') = Len(Stream) + BodyLen(s) + 1
      BY <1>2, <1>6, <1>7, <1>8
    <3>2. credit' \in Nat
      BY <1>0, <1>9
    <3> QED
      BY <3>1, <3>2 DEF s
  <2>2. \/ BodyLen(s) <= CmdBufCap /\ fate'[s] = "sent" /\ credit' = credit
        \/ fate'[s] = "struck" /\ credit' = credit + 1
    BY <1>9, <1>10
  <2>3. Len(fate') = s /\ \A t \in 1 .. Len(fate) : fate'[t] = fate[t]
    BY <1>10
  <2>4. /\ Written \in 0 .. Len(Stream) /\ credit \in Nat /\ Len(fate) \in Nat
        /\ StreamInv(Stream, Written, fate, credit, cut)
    BY <1>0, <1>8
  <2> QED
    BY <1>2, <1>6, <1>8, <1>10, <1>11, <1>12, <2>1, <2>2, <2>3, <2>4, SendInv, ZenonT(30)
<1>14. Promised!Send
  BY <1>9 DEF Promised!Send
<1>15. IsZero(c2e'[Len(c2e')])
  <2> SUFFICES ASSUME NEW z, z = Len(c2e') PROVE IsZero(c2e'[z])
    OBVIOUS
  <2>1. z \in Len(c2e) + 1 .. Len(c2e) + Len(w) /\ z - Len(c2e) = BodyLen(s) + 1
    BY <1>2, <1>6, <1>7, SMTT(30)
  <2>2. c2e'[z] = <<s, 0>>
    BY <1>6, <1>7, <2>1
  <2> QED
    BY <2>2 DEF IsZero
<1>16. LinkTypeOK'
  <2>1. Len(c2e') <= TcpCap
    BY <1>1, <1>2, <1>6, <1>7, SMTT(30)
  <2>2. BoardsOK'
    BY <1>0, <1>1 DEF BoardsOK, stm
  <2>3. credit' \in Nat /\ cut' \in {0} \cup DOMAIN fate'
    BY <1>0, <1>1, <1>9, <1>10
  <2>4. faults' = faults
    BY <1>1
  <2> QED
    BY <1>5, <1>6, <1>10, <2>1, <2>2, <2>3, <2>4 DEF LinkInv, LinkTypeOK, BoardsOK
<1> QED
  BY <1>1, <1>5, <1>6, <1>13, <1>14, <1>15, <1>16 DEF LinkInv, Promised!CNext

\* A client closes its side after a part of a command.
LEMMA ClientLeaveInv ==
  ASSUME LinkInv, ClientLeave
  PROVE  LinkInv' /\ [Promised!CNext]_<<fate, credit>>
<1> DEFINE s == Len(fate) + 1
<1>0. /\ cmd_buf \in Seq(Cells) /\ e2s \in Seq(Cells) /\ c2e \in Seq(Cells) /\ credit \in Nat
      /\ Len(e2s) <= WireCap + 2 * faults /\ Len(c2e) <= TcpCap
      /\ StreamInv(Stream, Written, fate, credit, cut) /\ cut \in Nat /\ BoardsOK
      /\ fate \in Seq({"sent", "struck", "queued", "refused", "twice"})
      /\ DOMAIN fate = 1 .. Len(fate) /\ Len(fate) \in Nat
      /\ cut \in {0} \cup 1 .. Len(fate) /\ faults \in Nat
  BY LinkFacts
<1>1. /\ conn = "up" /\ conn' = "fin" /\ faults < MaxFaults /\ faults' = faults + 1
      /\ UNCHANGED <<stm, fifo, e2s, credit, cut>>
      /\ \/ UNCHANGED <<c2e, fate>>
         \/ /\ s \in DOMAIN Lengths
            /\ \E n \in 1..Min({BodyLen(s), TcpCap - Len(c2e)}) :
                 c2e' = c2e \o SubSeq(Body(s), 1, n)
            /\ fate' = Append(fate, "struck")
  BY DEF ClientLeave
<1>2. /\ MaxFaults \in Nat /\ WireCap \in Nat /\ TcpCap \in Nat /\ Len(c2e) \in Nat
      /\ Len(e2s) \in Nat
  BY <1>0, LinkAssumption, LenProperties
<1>3. BoardsOK' /\ Len(e2s') <= WireCap + 2 * faults'
  <2>1. faults' \in 0 .. MaxFaults
    BY <1>0, <1>1, <1>2
  <2>2. WireCap + 2 * faults <= WireCap + 2 * (faults + 1)
    BY <1>0, <1>2
  <2>3. Len(e2s') <= WireCap + 2 * faults'
    BY <1>0, <1>1, <1>2, <2>2
  <2> QED
    BY <1>0, <1>1, <2>1, <2>3 DEF BoardsOK, stm
<1>4. cmd_buf' = cmd_buf /\ e2s' = e2s
  BY <1>1 DEF stm
<1>5. CASE UNCHANGED <<c2e, fate>>
  <2>1. Stream' = Stream /\ Written' = Written
    BY <1>4, <1>5 DEF Stream, Written
  <2>2. LinkTypeOK'
    BY <1>1, <1>3, <1>4, <1>5 DEF LinkInv, LinkTypeOK, BoardsOK
  <2> QED
    BY <1>1, <1>4, <1>5, <2>1, <2>2 DEF LinkInv
<1>6. CASE /\ s \in DOMAIN Lengths
           /\ \E n \in 1..Min({BodyLen(s), TcpCap - Len(c2e)}) : c2e' = c2e \o SubSeq(Body(s), 1, n)
           /\ fate' = Append(fate, "struck")
  <2>1. PICK n \in 1..Min({BodyLen(s), TcpCap - Len(c2e)}) : c2e' = c2e \o SubSeq(Body(s), 1, n)
    BY <1>6
  <2>2. s \in Frames /\ BodyLen(s) \in Nat /\ s \in Nat
    BY <1>0, <1>6, FrameTypes DEF Frames
  <2>3. n \in 1 .. BodyLen(s) /\ Len(c2e) + n <= TcpCap /\ n \in Nat
    <3>1. BodyLen(s) \in Int /\ TcpCap - Len(c2e) \in Int
      BY <1>2, <2>2
    <3>2. /\ Min({BodyLen(s), TcpCap - Len(c2e)}) \in {BodyLen(s), TcpCap - Len(c2e)}
          /\ Min({BodyLen(s), TcpCap - Len(c2e)}) <= BodyLen(s)
          /\ Min({BodyLen(s), TcpCap - Len(c2e)}) <= TcpCap - Len(c2e)
      BY <3>1, MinOfTwo
    <3> DEFINE m == Min({BodyLen(s), TcpCap - Len(c2e)})
    <3>3. m \in Int /\ m <= BodyLen(s) /\ m <= TcpCap - Len(c2e) /\ n \in 1 .. m
      BY <3>1, <3>2
    <3> HIDE DEF m
    <3> QED
      BY <1>2, <2>2, <3>3
  <2> DEFINE w == SubSeq(Body(s), 1, n)
  <2>4. /\ w \in Seq(Cells) /\ Len(w) = n /\ \A i \in 1 .. n : w[i] = <<s, i>>
    <3>1. /\ Body(s) \in Seq(Cells) /\ Len(Body(s)) = BodyLen(s)
          /\ \A i \in 1..BodyLen(s) : Body(s)[i] = <<s, i>>
      BY <2>2, FrameCells
    <3>2. n \in 0 .. Len(Body(s))
      BY <2>3, <3>1
    <3>3. w \in Seq(Cells) /\ Len(w) = n /\ \A i \in 1 .. n : w[i] = Body(s)[i]
      BY <3>1, <3>2, Sliced
    <3>4. \A i \in 1 .. n : i \in 1 .. BodyLen(s)
      BY <2>2, <2>3
    <3> QED
      BY <3>1, <3>3, <3>4
  <2>5. c2e' = c2e \o w
    BY <2>1
  <2> HIDE DEF w
  <2>6. /\ c2e' \in Seq(Cells) /\ Len(c2e') = Len(c2e) + Len(w)
        /\ Stream' \in Seq(Cells) /\ Written' = Written
        /\ Len(Stream') = Len(Stream) + Len(w)
        /\ Keeps(Stream, Stream', Len(Stream))
        /\ \A z \in Len(Stream) + 1 .. Len(Stream) + Len(w) : Stream'[z] = w[z - Len(Stream)]
    BY <1>0, <1>4, <2>4, <2>5, LongerStream
  <2>7. Stream \in Seq(Cells) /\ Written \in 0 .. Len(Stream) /\ Len(Stream) \in Nat
    BY <1>0, StreamTypes, LenProperties
  <2>8. /\ fate' \in Seq({"sent", "struck", "queued", "refused", "twice"})
        /\ Len(fate') = s /\ fate'[s] = "struck"
        /\ \A t \in 1 .. Len(fate) : fate'[t] = fate[t]
        /\ DOMAIN fate \subseteq DOMAIN fate'
    BY <1>0, <1>6, NextFate
  <2>9. Bodied(Stream, Stream', s, n)
    <3>1. ASSUME NEW z \in Len(Stream) + 1 .. Len(Stream) + n
          PROVE  Stream'[z] = <<s, z - Len(Stream)>>
      <4>1. z \in Len(Stream) + 1 .. Len(Stream) + Len(w) /\ z - Len(Stream) \in 1 .. n
        BY <2>3, <2>4, <2>7
      <4> QED
        BY <2>4, <2>6, <4>1
    <3>2. Len(Stream) + n <= Len(Stream')
      BY <2>3, <2>4, <2>6, <2>7
    <3> QED
      BY <2>6, <3>1, <3>2 DEF Bodied
  <2>10. StreamInv(Stream', Written, fate', credit, cut)
    <3>1. Len(Stream') = Len(Stream) + n /\ n \in Nat /\ s = Len(fate) + 1 /\ Len(fate) \in Nat
      BY <1>0, <2>3, <2>4, <2>6
    <3>2. StreamInv(Stream, Written, fate, credit, cut) /\ credit \in Nat
      BY <1>0
    <3> HIDE DEF s
    <3> QED
      BY <2>6, <2>7, <2>8, <2>9, <3>1, <3>2, LeaveInv
  <2>11. LinkTypeOK'
    <3>1. Len(c2e') <= TcpCap
      BY <2>3, <2>4, <2>6
    <3>2. cut' \in {0} \cup DOMAIN fate' /\ credit' \in Nat
      BY <1>0, <1>1, <2>8
    <3> QED
      BY <1>3, <1>4, <2>6, <2>8, <3>1, <3>2 DEF LinkInv, LinkTypeOK, BoardsOK
  <2>12. Promised!Send
    BY <1>1, <1>6 DEF Promised!Send
  <2> QED
    BY <1>1, <1>4, <2>6, <2>10, <2>11, <2>12 DEF LinkInv, Promised!CNext
<1> QED
  BY <1>1, <1>5, <1>6

\* The STM32 restarts.
LEMMA StmRestartInv ==
  ASSUME LinkInv, StmRestart
  PROVE  LinkInv' /\ [Promised!CNext]_<<fate, credit>>
<1>0. /\ cmd_buf \in Seq(Cells) /\ e2s \in Seq(Cells) /\ c2e \in Seq(Cells) /\ credit \in Nat
      /\ Len(e2s) <= WireCap + 2 * faults /\ Len(c2e) <= TcpCap
      /\ StreamInv(Stream, Written, fate, credit, cut) /\ cut \in Nat /\ BoardsOK
      /\ fate \in Seq({"sent", "struck", "queued", "refused", "twice"})
      /\ DOMAIN fate = 1 .. Len(fate) /\ Len(fate) \in Nat
      /\ cut \in {0} \cup 1 .. Len(fate) /\ faults \in Nat
  BY LinkFacts
<1>1. /\ faults < MaxFaults /\ faults' = faults + 1
      /\ booting' = TRUE /\ attempts' = 0 /\ cmd_buf' = <<>> /\ cmd_in' = <<>>
      /\ UNCHANGED <<fifo, c2e, conn, cut>>
      /\ \E n \in 0..Len(e2s) :
           LET missed == In(cmd_buf \o SubSeq(e2s, 1, n)) IN
           /\ e2s' = SubSeq(e2s, n + 1, Len(e2s))
           /\ Strike(missed, IF missed = {} THEN 0 ELSE 1)
  BY DEF StmRestart
<1>2. PICK n \in 0..Len(e2s) :
           LET missed == In(cmd_buf \o SubSeq(e2s, 1, n)) IN
           /\ e2s' = SubSeq(e2s, n + 1, Len(e2s))
           /\ Strike(missed, IF missed = {} THEN 0 ELSE 1)
  BY <1>1
<1> DEFINE passed == SubSeq(e2s, 1, n)
           X == In(cmd_buf \o passed)
           q == Len(cmd_buf) + n
<1>3. e2s' = SubSeq(e2s, n + 1, Len(e2s)) /\ Strike(X, IF X = {} THEN 0 ELSE 1)
  BY <1>2
<1>4. /\ passed \in Seq(Cells) /\ Len(passed) = n /\ \A i \in 1 .. n : passed[i] = e2s[i]
      /\ e2s' \in Seq(Cells) /\ Len(e2s') = Len(e2s) - n
      /\ \A i \in 1 .. Len(e2s) - n : e2s'[i] = e2s[n + i]
      /\ n \in Nat /\ n <= Len(e2s) /\ Len(e2s) \in Nat
  <2>1. n \in Nat /\ n <= Len(e2s) /\ Len(e2s) \in Nat
    BY <1>0, LenProperties
  <2>2. passed \in Seq(Cells) /\ Len(passed) = n /\ \A i \in 1 .. n : passed[i] = e2s[i]
    BY <1>0, Sliced
  <2>3. /\ SubSeq(e2s, n + 1, Len(e2s)) \in Seq(Cells)
        /\ Len(SubSeq(e2s, n + 1, Len(e2s))) = Len(e2s) - n
        /\ \A i \in 1 .. Len(e2s) - n : SubSeq(e2s, n + 1, Len(e2s))[i] = e2s[n + i]
    BY <1>0, Sliced
  <2> HIDE DEF passed
  <2> QED
    BY <1>3, <2>1, <2>2, <2>3
<1> HIDE DEF passed
<1>5. /\ Stream \in Seq(Cells) /\ Written \in 0 .. Len(Stream) /\ Len(cmd_buf) \in Nat
      /\ Len(c2e) \in Nat /\ Written = Len(cmd_buf) + Len(e2s)
      /\ Written \in Nat /\ Len(Stream) = Written + Len(c2e) /\ Len(Stream) \in Nat
      /\ \A z \in 1 .. Len(cmd_buf) : Stream[z] = cmd_buf[z]
      /\ \A z \in Len(cmd_buf) + 1 .. Written : Stream[z] = e2s[z - Len(cmd_buf)]
      /\ \A z \in Written + 1 .. Len(Stream) : Stream[z] = c2e[z - Written]
  BY <1>0, StreamTypes, LenProperties
<1>6. q \in 0 .. Written /\ q \in Nat
  BY <1>4, <1>5
<1>7. cmd_buf' \in Seq(Cells) /\ Len(cmd_buf') = 0 /\ c2e' \in Seq(Cells) /\ c2e' = c2e
  BY <1>0, <1>1, EmptySeq
<1>8. /\ Stream' \in Seq(Cells) /\ Written' = Written - q /\ Len(Stream') = Len(Stream) - q
      /\ \A z \in 1 .. Written - q : Stream'[z] = e2s'[z]
      /\ \A z \in Written - q + 1 .. Len(Stream) - q : Stream'[z] = c2e[z - (Written - q)]
  <2>1. /\ Stream' \in Seq(Cells) /\ Written' = Len(cmd_buf') + Len(e2s')
        /\ Len(Stream') = Written' + Len(c2e')
        /\ \A z \in Len(cmd_buf') + 1 .. Written' : Stream'[z] = e2s'[z - Len(cmd_buf')]
        /\ \A z \in Written' + 1 .. Len(Stream') : Stream'[z] = c2e'[z - Written']
    BY <1>4, <1>7, NextStreamTypes
  <2>2. Written' = Written - q /\ Len(Stream') = Len(Stream) - q
    BY <1>4, <1>5, <1>7, <2>1
  <2>3. ASSUME NEW z \in 1 .. Written - q PROVE Stream'[z] = e2s'[z]
    <3>1. z \in Len(cmd_buf') + 1 .. Written' /\ z - Len(cmd_buf') = z
      BY <1>7, <2>2
    <3> QED
      BY <2>1, <3>1
  <2> QED
    BY <1>7, <2>1, <2>2, <2>3
<1>9. Drops(Stream, Stream', q)
  <2>1. ASSUME NEW z \in 1 .. Len(Stream'), NEW y, y = z + q PROVE Stream'[z] = Stream[y]
    <3>1. CASE z <= Written - q
      <4>1. /\ z \in 1 .. Written - q /\ z \in 1 .. Len(e2s) - n
            /\ y \in Len(cmd_buf) + 1 .. Written /\ y - Len(cmd_buf) = n + z
        BY <1>4, <1>5, <1>6, <1>8, <2>1, <3>1, SMTT(30)
      <4>2. Stream'[z] = e2s[n + z]
        BY <1>4, <1>8, <4>1
      <4>3. Stream[y] = e2s[y - Len(cmd_buf)]
        BY <1>5, <4>1
      <4> QED
        BY <4>1, <4>2, <4>3
    <3>2. CASE z > Written - q
      <4>1. /\ z \in Written - q + 1 .. Len(Stream) - q
            /\ y \in Written + 1 .. Len(Stream) /\ y - Written = z - (Written - q)
        BY <1>5, <1>6, <1>8, <2>1, <3>2, SMTT(30)
      <4>2. Stream'[z] = c2e[z - (Written - q)]
        BY <1>8, <4>1
      <4>3. Stream[y] = c2e[y - Written]
        BY <1>5, <4>1
      <4> QED
        BY <4>1, <4>2, <4>3
    <3> QED
      BY <1>5, <1>6, <1>8, <3>1, <3>2
  <2>2. \A z \in 1 .. Len(Stream') : Stream'[z] = Stream[z + q]
    BY <2>1
  <2> QED
    BY <1>8, <2>2 DEF Drops
<1>10. Among(Stream, 1, q) \subseteq X
  <2> SUFFICES ASSUME NEW z \in 1 .. q, Stream[z][1] \in DOMAIN Lengths
               PROVE  Stream[z][1] \in X
    BY DEF Among
  <2>1. /\ DOMAIN (cmd_buf \o passed) = 1 .. q
        /\ \A i \in 1 .. q :
             (cmd_buf \o passed)[i]
               = IF i <= Len(cmd_buf) THEN cmd_buf[i] ELSE passed[i - Len(cmd_buf)]
    <3>1. /\ cmd_buf \o passed \in Seq(Cells)
          /\ Len(cmd_buf \o passed) = Len(cmd_buf) + Len(passed)
          /\ \A i \in 1 .. Len(cmd_buf) + Len(passed) :
               (cmd_buf \o passed)[i] = IF i <= Len(cmd_buf) THEN cmd_buf[i]
                                        ELSE passed[i - Len(cmd_buf)]
      BY <1>0, <1>4, ConcatProperties, ZenonT(30)
    <3>2. DOMAIN (cmd_buf \o passed) = 1 .. Len(cmd_buf \o passed)
      BY <3>1, LenProperties
    <3> QED
      BY <1>4, <3>1, <3>2
  <2>2. (cmd_buf \o passed)[z] = Stream[z]
    <3>1. CASE z <= Len(cmd_buf)
      BY <1>5, <2>1, <3>1
    <3>2. CASE z > Len(cmd_buf)
      <4>1. z \in Len(cmd_buf) + 1 .. Written /\ z - Len(cmd_buf) \in 1 .. n
        BY <1>4, <1>5, <3>2
      <4> QED
        BY <1>4, <1>5, <2>1, <3>2, <4>1, SMTT(30)
    <3> QED
      BY <1>4, <1>5, <3>1, <3>2
  <2> QED
    BY <2>1, <2>2 DEF In
<1> HIDE DEF X, q
<1>11. /\ Struck(fate, fate', X) /\ DOMAIN fate' = DOMAIN fate
       /\ fate' \in Seq({"sent", "struck", "queued", "refused", "twice"})
       /\ credit' = (IF X = {} THEN credit ELSE credit + 1)
       /\ credit' \in Nat /\ Promised!CNext
  <2>1. 0 \in 0 .. 2 /\ 1 \in 0 .. 2
    OBVIOUS
  <2>2. CASE X = {}
    BY <1>0, <1>3, <2>1, <2>2, StrikeStep
  <2>3. CASE X # {}
    BY <1>0, <1>3, <2>1, <2>3, StrikeStep
  <2> QED
    BY <2>2, <2>3
<1>12. StreamInv(Stream', Written', fate', credit', cut')
  <2>1. StreamInv(Stream', Written - q, fate', credit', cut)
    BY <1>0, <1>5, <1>6, <1>8, <1>9, <1>10, <1>11, DropInv
  <2> QED
    BY <1>1, <1>8, <2>1
<1>13. LinkTypeOK'
  <2>1. /\ MaxFaults \in Nat /\ WireCap \in Nat /\ CmdBufCap \in Nat /\ BootRetries \in Nat
        /\ QueueCap \in Nat
    BY LinkAssumption
  <2>2. faults' \in 0 .. MaxFaults
    BY <1>0, <1>1, <2>1
  <2>3. Len(e2s') <= WireCap + 2 * faults'
    <3>1. WireCap + 2 * faults <= WireCap + 2 * (faults + 1)
      BY <1>0, <2>1
    <3> QED
      BY <1>0, <1>1, <1>4, <2>1, <3>1
  <2>4. cmd_in' \in Queue /\ attempts' \in 0 .. BootRetries
    <3>1. cmd_in \in Queue
      BY <1>0 DEF BoardsOK
    <3> QED
      BY <1>1, <2>1, <3>1, QueueTypes
  <2>5. Len(cmd_buf') <= CmdBufCap /\ Len(c2e') <= TcpCap
    BY <1>0, <1>7, <2>1
  <2>6. BoardsOK'
    BY <1>0, <1>1, <2>2, <2>4 DEF BoardsOK
  <2>7. cut' \in {0} \cup DOMAIN fate'
    BY <1>0, <1>1, <1>11
  <2> QED
    BY <1>4, <1>7, <1>11, <2>3, <2>5, <2>6, <2>7 DEF LinkTypeOK, BoardsOK
<1> QED
  BY <1>1, <1>7, <1>11, <1>12, <1>13 DEF LinkInv

\* The ESP32 restarts.
LEMMA EspRestartInv ==
  ASSUME LinkInv, EspRestart
  PROVE  LinkInv' /\ [Promised!CNext]_<<fate, credit>>
<1>0. /\ cmd_buf \in Seq(Cells) /\ e2s \in Seq(Cells) /\ c2e \in Seq(Cells) /\ credit \in Nat
      /\ Len(e2s) <= WireCap + 2 * faults /\ Len(c2e) <= TcpCap
      /\ StreamInv(Stream, Written, fate, credit, cut) /\ cut \in Nat /\ BoardsOK
      /\ fate \in Seq({"sent", "struck", "queued", "refused", "twice"})
      /\ DOMAIN fate = 1 .. Len(fate) /\ Len(fate) \in Nat
      /\ cut \in {0} \cup 1 .. Len(fate) /\ faults \in Nat
      /\ \A i \in 1 .. Len(cmd_buf) : ~IsZero(cmd_buf[i])
      /\ Len(cmd_buf) <= CmdBufCap
  BY LinkFacts
<1>1. /\ faults < MaxFaults /\ faults' = faults + 1
      /\ fifo' = <<>> /\ conn' = "none" /\ c2e' = <<>> /\ cut' = 0 /\ UNCHANGED stm
      /\ \E n \in 0..Len(e2s) :
           /\ e2s' = SubSeq(e2s, 1, n) \o Frame(Hello)
           /\ Strike(In(SubSeq(e2s, n + 1, Len(e2s)) \o c2e) \cup {cut},
                     IF e2s = <<>> /\ cut = 0 THEN 0 ELSE 1)
  BY DEF EspRestart
<1>2. PICK n \in 0..Len(e2s) :
           /\ e2s' = SubSeq(e2s, 1, n) \o Frame(Hello)
           /\ Strike(In(SubSeq(e2s, n + 1, Len(e2s)) \o c2e) \cup {cut},
                     IF e2s = <<>> /\ cut = 0 THEN 0 ELSE 1)
  BY <1>1
<1> DEFINE kept == SubSeq(e2s, 1, n)
           lost == SubSeq(e2s, n + 1, Len(e2s))
           X == In(lost \o c2e) \cup {cut}
           h == Frame(Hello)
           q == Len(cmd_buf) + n
<1>3. e2s' = kept \o h /\ Strike(X, IF e2s = <<>> /\ cut = 0 THEN 0 ELSE 1)
  BY <1>2
<1>4. /\ kept \in Seq(Cells) /\ Len(kept) = n /\ \A i \in 1 .. n : kept[i] = e2s[i]
      /\ lost \in Seq(Cells) /\ Len(lost) = Len(e2s) - n
      /\ \A i \in 1 .. Len(e2s) - n : lost[i] = e2s[n + i]
      /\ n \in Nat /\ n <= Len(e2s) /\ Len(e2s) \in Nat
  <2>1. n \in Nat /\ n <= Len(e2s) /\ Len(e2s) \in Nat
    BY <1>0, LenProperties
  <2>2. kept \in Seq(Cells) /\ Len(kept) = n /\ \A i \in 1 .. n : kept[i] = e2s[i]
    BY <1>0, Sliced
  <2>3. /\ lost \in Seq(Cells) /\ Len(lost) = Len(e2s) - n
        /\ \A i \in 1 .. Len(e2s) - n : lost[i] = e2s[n + i]
    BY <1>0, Sliced
  <2> HIDE DEF kept, lost
  <2> QED
    BY <2>1, <2>2, <2>3
<1>5. h \in Seq(Cells) /\ Len(h) = 2 /\ h[1] = <<Hello, 1>> /\ h[2] = <<Hello, 0>>
  <2>1. Hello \in Frames /\ BodyLen(Hello) = 1 /\ 1 \in 1 .. BodyLen(Hello)
    BY HandshakeFits
  <2>2. /\ h \in Seq(Cells) /\ Len(h) = BodyLen(Hello) + 1
        /\ \A i \in 1 .. BodyLen(Hello) : h[i] = <<Hello, i>>
        /\ h[BodyLen(Hello) + 1] = <<Hello, 0>>
    BY <2>1, FrameCells
  <2> HIDE DEF h
  <2> QED
    BY <2>1, <2>2
<1> HIDE DEF kept, lost, h
<1>6. /\ e2s' \in Seq(Cells) /\ Len(e2s') = n + 2
      /\ \A z \in 1 .. n : e2s'[z] = e2s[z]
      /\ e2s'[n + 1] = <<Hello, 1>> /\ e2s'[n + 2] = <<Hello, 0>>
  <2>1. /\ kept \o h \in Seq(Cells) /\ Len(kept \o h) = Len(kept) + Len(h)
        /\ \A i \in 1 .. Len(kept) + Len(h) :
             (kept \o h)[i] = IF i <= Len(kept) THEN kept[i] ELSE h[i - Len(kept)]
    BY <1>4, <1>5, ConcatProperties, ZenonT(30)
  <2> QED
    BY <1>3, <1>4, <1>5, <2>1
<1>7. /\ Stream \in Seq(Cells) /\ Written \in 0 .. Len(Stream) /\ Len(cmd_buf) \in Nat
      /\ Len(c2e) \in Nat /\ Written = Len(cmd_buf) + Len(e2s)
      /\ Written \in Nat /\ Len(Stream) = Written + Len(c2e) /\ Len(Stream) \in Nat
      /\ \A z \in 1 .. Len(cmd_buf) : Stream[z] = cmd_buf[z]
      /\ \A z \in Len(cmd_buf) + 1 .. Written : Stream[z] = e2s[z - Len(cmd_buf)]
      /\ \A z \in Written + 1 .. Len(Stream) : Stream[z] = c2e[z - Written]
  BY <1>0, StreamTypes, LenProperties
<1>8. q \in 0 .. Written /\ q \in Nat
  BY <1>4, <1>7
<1>9. cmd_buf' = cmd_buf /\ c2e' \in Seq(Cells) /\ Len(c2e') = 0
  BY <1>1, EmptySeq DEF stm
<1>10. /\ Stream' \in Seq(Cells) /\ Written' = q + 2 /\ Len(Stream') = q + 2
       /\ \A z \in 1 .. Len(cmd_buf) : Stream'[z] = cmd_buf[z]
       /\ \A z \in Len(cmd_buf) + 1 .. q + 2 : Stream'[z] = e2s'[z - Len(cmd_buf)]
  <2>1. cmd_buf' \in Seq(Cells)
    BY <1>0, <1>9
  <2>2. /\ Stream' \in Seq(Cells) /\ Written' = Len(cmd_buf') + Len(e2s')
        /\ Len(Stream') = Written' + Len(c2e')
        /\ \A z \in 1 .. Len(cmd_buf') : Stream'[z] = cmd_buf'[z]
        /\ \A z \in Len(cmd_buf') + 1 .. Written' : Stream'[z] = e2s'[z - Len(cmd_buf')]
    BY <1>6, <1>9, <2>1, NextStreamTypes
  <2>3. Written' = q + 2 /\ Len(Stream') = q + 2
    BY <1>4, <1>6, <1>7, <1>9, <2>2
  <2> QED
    BY <1>9, <2>2, <2>3
<1>11. Keeps(Stream, Stream', q)
  <2>1. ASSUME NEW z \in 1 .. q PROVE Stream'[z] = Stream[z]
    <3>1. CASE z <= Len(cmd_buf)
      <4>1. z \in 1 .. Len(cmd_buf)
        BY <1>7, <1>8, <3>1
      <4> QED
        BY <1>7, <1>10, <4>1
    <3>2. CASE z > Len(cmd_buf)
      <4>1. /\ z \in Len(cmd_buf) + 1 .. Written /\ z \in Len(cmd_buf) + 1 .. q + 2
            /\ z - Len(cmd_buf) \in 1 .. n
        BY <1>4, <1>7, <1>8, <3>2
      <4> QED
        BY <1>6, <1>7, <1>10, <4>1
    <3> QED
      BY <1>4, <1>7, <3>1, <3>2
  <2> QED
    BY <1>8, <1>10, <2>1 DEF Keeps
<1>12. Stream'[q + 1] = <<Hello, 1>> /\ Stream'[q + 2] = <<Hello, 0>>
  <2>1. ASSUME NEW z, z = q + 1 PROVE Stream'[z] = <<Hello, 1>>
    <3>1. z \in Len(cmd_buf) + 1 .. q + 2 /\ z - Len(cmd_buf) = n + 1
      BY <1>4, <1>7, <2>1
    <3>2. Stream'[z] = e2s'[z - Len(cmd_buf)]
      BY <1>10, <3>1
    <3> QED
      BY <1>6, <3>1, <3>2
  <2>2. ASSUME NEW z, z = q + 2 PROVE Stream'[z] = <<Hello, 0>>
    <3>1. z \in Len(cmd_buf) + 1 .. q + 2 /\ z - Len(cmd_buf) = n + 2
      BY <1>4, <1>7, <2>2
    <3>2. Stream'[z] = e2s'[z - Len(cmd_buf)]
      BY <1>10, <3>1
    <3> QED
      BY <1>6, <3>1, <3>2
  <2> HIDE DEF q
  <2> QED
    BY <2>1, <2>2
<1>13. Among(Stream, q + 1, Len(Stream)) \subseteq X
  <2> SUFFICES ASSUME NEW z \in q + 1 .. Len(Stream), Stream[z][1] \in DOMAIN Lengths
               PROVE  Stream[z][1] \in In(lost \o c2e)
    BY DEF Among
  <2>1. /\ DOMAIN (lost \o c2e) = 1 .. Len(lost) + Len(c2e)
        /\ \A i \in 1 .. Len(lost) + Len(c2e) :
             (lost \o c2e)[i] = IF i <= Len(lost) THEN lost[i] ELSE c2e[i - Len(lost)]
    <3>1. /\ lost \o c2e \in Seq(Cells) /\ Len(lost \o c2e) = Len(lost) + Len(c2e)
          /\ \A i \in 1 .. Len(lost) + Len(c2e) :
               (lost \o c2e)[i] = IF i <= Len(lost) THEN lost[i] ELSE c2e[i - Len(lost)]
      BY <1>0, <1>4, ConcatProperties, ZenonT(30)
    <3> QED
      BY <3>1, LenProperties
  <2> DEFINE i == z - q
  <2>2. i \in 1 .. Len(lost) + Len(c2e) /\ i \in Int
    BY <1>4, <1>7, <1>8, SMTT(30)
  <2>3. (lost \o c2e)[i] = Stream[z]
    <3>1. CASE i <= Len(lost)
      <4>1. z \in Len(cmd_buf) + 1 .. Written /\ i \in 1 .. Len(e2s) - n /\ z - Len(cmd_buf) = n + i
        BY <1>4, <1>7, <1>8, <2>2, <3>1
      <4>2. Stream[z] = e2s[n + i]
        BY <1>7, <4>1
      <4> QED
        BY <1>4, <2>1, <2>2, <3>1, <4>1, <4>2
    <3>2. CASE i > Len(lost)
      <4>1. z \in Written + 1 .. Len(Stream) /\ i - Len(lost) = z - Written /\ ~(i <= Len(lost))
        BY <1>4, <1>7, <1>8, <2>2, <3>2
      <4>2. Stream[z] = c2e[z - Written]
        BY <1>7, <4>1
      <4> QED
        BY <2>1, <2>2, <4>1, <4>2
    <3> QED
      BY <1>4, <2>2, <3>1, <3>2, SMTT(30)
  <2> HIDE DEF i
  <2> QED
    BY <2>1, <2>2, <2>3 DEF In
<1>14. e2s = <<>> /\ cut = 0 => q = 0 \/ IsZero(Stream[q])
  <2> SUFFICES ASSUME e2s = <<>>, cut = 0, q # 0 PROVE IsZero(Stream[q])
    OBVIOUS
  <2>1. Len(e2s) = 0
    BY EmptySeq
  <2>2. q = Written /\ Written > 0
    BY <1>4, <1>7, <2>1
  <2>3. Half(Stream, Written, 0)
    BY <1>0 DEF StreamInv
  <2> HIDE DEF q
  <2> QED
    BY <2>2, <2>3 DEF Half
<1> HIDE DEF X, q
<1>15. /\ Struck(fate, fate', X) /\ DOMAIN fate' = DOMAIN fate
       /\ fate' \in Seq({"sent", "struck", "queued", "refused", "twice"})
       /\ credit' = (IF e2s = <<>> /\ cut = 0 THEN credit ELSE credit + 1)
       /\ credit' \in Nat /\ Promised!CNext
  <2>1. 0 \in 0 .. 2 /\ 1 \in 0 .. 2 /\ credit + 0 = credit
    BY <1>0
  <2>2. CASE e2s = <<>> /\ cut = 0
    <3>1. Strike(X, 0)
      BY <1>3, <2>2
    <3> QED
      BY <1>0, <2>1, <2>2, <3>1, StrikeStep
  <2>3. CASE ~(e2s = <<>> /\ cut = 0)
    <3>1. Strike(X, 1)
      BY <1>3, <2>3
    <3> QED
      BY <1>0, <2>1, <2>3, <3>1, StrikeStep
  <2> QED
    BY <2>2, <2>3
<1>16. StreamInv(Stream', Written', fate', credit', cut')
  <2>1. credit' = credit + 1 \/ (credit' = credit /\ (q = 0 \/ IsZero(Stream[q])))
    BY <1>14, <1>15
  <2>2. StreamInv(Stream', q + 2, fate', credit', 0)
    BY <1>0, <1>7, <1>8, <1>10, <1>11, <1>12, <1>13, <1>15, <2>1, RestartInv
  <2> QED
    BY <1>1, <1>10, <2>2
<1>17. LinkTypeOK'
  <2>1. /\ MaxFaults \in Nat /\ WireCap \in Nat /\ FifoCap \in Nat /\ TcpCap \in Nat
    BY LinkAssumption
  <2>2. faults' \in 0 .. MaxFaults
    BY <1>0, <1>1, <2>1
  <2>3. Len(e2s') <= WireCap + 2 * faults'
    <3>1. WireCap + 2 * faults + 2 = WireCap + 2 * (faults + 1)
      BY <1>0, <2>1
    <3>2. Len(e2s') <= WireCap + 2 * faults + 2
      BY <1>0, <1>4, <1>6, <2>1
    <3> QED
      BY <1>1, <3>1, <3>2
  <2>4. fifo' \in Seq({Hello, ForClient, Mangled}) /\ Len(fifo') <= FifoCap /\ Len(c2e') <= TcpCap
    <3>1. <<>> \in Seq({Hello, ForClient, Mangled}) /\ Len(<<>>) = 0
      BY EmptySeq
    <3>2. Len(<<>>) <= FifoCap /\ Len(c2e') <= TcpCap
      BY <1>9, <2>1, <3>1
    <3> QED
      BY <1>1, <3>1, <3>2, Zenon
  <2>5. BoardsOK'
    BY <1>0, <1>1, <2>2, <2>4 DEF BoardsOK, stm
  <2>6. cut' \in {0} \cup DOMAIN fate'
    BY <1>1
  <2> QED
    BY <1>0, <1>6, <1>9, <1>15, <2>3, <2>4, <2>5, <2>6 DEF LinkTypeOK, BoardsOK
<1> QED
  BY <1>0, <1>1, <1>9, <1>15, <1>16, <1>17 DEF LinkInv

-----------------------------------------------------------------------------
(* The theorems *)

\* The boards have just started.
LEMMA LinkInvInit ==
  ASSUME Init
  PROVE  LinkInv /\ Promised!CInit
<1>1. /\ cmd_buf = <<>> /\ cmd_in = <<>> /\ booting = TRUE /\ attempts = 0
      /\ e2s \in {<<>>, Frame(Hello)}
      /\ fifo = <<>> /\ c2e = <<>> /\ conn = "none" /\ faults = 0
      /\ fate = <<>> /\ credit = 0 /\ cut = 0
  BY DEF Init
<1>2. /\ WireCap \in Nat /\ WireCap >= 2 /\ CmdBufCap \in Nat /\ FifoCap \in Nat
      /\ TcpCap \in Nat /\ QueueCap \in Nat /\ BootRetries \in Nat /\ MaxFaults \in Nat
  BY LinkAssumption
<1>3. <<>> \in Seq(Cells) /\ Len(<<>>) = 0
  BY EmptySeq
<1>4. /\ cmd_buf \in Seq(Cells) /\ Len(cmd_buf) = 0 /\ c2e \in Seq(Cells) /\ Len(c2e) = 0
      /\ Len(fate) = 0 /\ fate \in Seq({"sent", "struck", "queued", "refused", "twice"})
      /\ fifo \in Seq({Hello, ForClient, Mangled}) /\ Len(fifo) = 0
      /\ cmd_in \in Seq({Hello, HelloAck, AnyCommand, EmergencyStop}) /\ Len(cmd_in) = 0
  BY <1>1, EmptySeq
<1>5. /\ Frame(Hello) \in Seq(Cells) /\ Len(Frame(Hello)) = 2
      /\ Frame(Hello)[1] = <<Hello, 1>> /\ Frame(Hello)[2] = <<Hello, 0>>
  <2>1. Hello \in Frames /\ BodyLen(Hello) = 1 /\ 1 \in 1 .. BodyLen(Hello)
    BY HandshakeFits
  <2>2. /\ Frame(Hello) \in Seq(Cells) /\ Len(Frame(Hello)) = BodyLen(Hello) + 1
        /\ \A i \in 1 .. BodyLen(Hello) : Frame(Hello)[i] = <<Hello, i>>
        /\ Frame(Hello)[BodyLen(Hello) + 1] = <<Hello, 0>>
    BY <2>1, FrameCells
  <2> QED
    BY <2>1, <2>2
<1>6. /\ e2s \in Seq(Cells)
      /\ \/ Len(e2s) = 0
         \/ Len(e2s) = 2 /\ e2s[1] = <<Hello, 1>> /\ e2s[2] = <<Hello, 0>>
  <2>1. CASE e2s = <<>>
    BY <2>1, EmptySeq
  <2>2. CASE e2s = Frame(Hello)
    BY <1>5, <2>2
  <2> QED
    BY <1>1, <2>1, <2>2
<1>7. /\ Stream \in Seq(Cells) /\ Written = Len(Stream) /\ Len(Stream) = Len(e2s)
      /\ \A z \in 1 .. Len(Stream) : Stream[z] = e2s[z]
  <2>1. /\ Stream \in Seq(Cells) /\ Written = Len(cmd_buf) + Len(e2s)
        /\ Len(Stream) = Written + Len(c2e) /\ Len(e2s) \in Nat
        /\ \A z \in Len(cmd_buf) + 1 .. Written : Stream[z] = e2s[z - Len(cmd_buf)]
    BY <1>4, <1>6, StreamTypes
  <2>2. \A z \in 1 .. Len(Stream) : z \in Len(cmd_buf) + 1 .. Written /\ z - Len(cmd_buf) = z
    BY <1>4, <2>1
  <2> QED
    BY <1>4, <2>1, <2>2
<1>8. \A z \in 1 .. Len(Stream) : ~IsCommand(Stream[z]) /\ z \in {1, 2}
          /\ (z = 1 => Stream[z] = <<Hello, 1>> /\ Len(Stream) = 2)
          /\ (z = 2 => Stream[z] = <<Hello, 0>> /\ Len(Stream) = 2)
  <2> SUFFICES ASSUME NEW z \in 1 .. Len(Stream)
               PROVE  /\ ~IsCommand(Stream[z]) /\ z \in {1, 2}
                      /\ (z = 1 => Stream[z] = <<Hello, 1>> /\ Len(Stream) = 2)
                      /\ (z = 2 => Stream[z] = <<Hello, 0>> /\ Len(Stream) = 2)
    OBVIOUS
  <2>1. z \in {1, 2} /\ Len(Stream) = 2 /\ e2s[1] = <<Hello, 1>> /\ e2s[2] = <<Hello, 0>>
    BY <1>6, <1>7
  <2>2. CASE z = 1
    BY <1>7, <2>1, <2>2 DEF IsCommand, Hello
  <2>3. CASE z = 2
    BY <1>7, <2>1, <2>3 DEF IsCommand, Hello
  <2> QED
    BY <2>1, <2>2, <2>3
<1>9. StreamInv(Stream, Written, fate, credit, cut)
  <2>1. Ordered(Stream) /\ Pending(Stream, fate) /\ Intact(Stream, Written, fate)
        /\ Known(Stream, Written, fate)
    BY <1>4, <1>7, <1>8, <1>6 DEF Ordered, Pending, Intact, Known
  <2>2. Half(Stream, Written, cut)
    BY <1>1, <1>6, <1>7, <1>8 DEF Half, IsZero
  <2>3. Strays(Stream, Written) = {}
    <3> SUFFICES ASSUME NEW z \in 2 .. Len(Stream),
                        ~Stands(Stream, Written, z - 1 - BodyLen(Stream[z][1]), Stream[z][1])
                 PROVE  FALSE
      BY DEF Strays
    <3>1. Len(Stream) = 2 /\ z = 2 /\ Stream[2] = <<Hello, 0>> /\ Stream[1] = <<Hello, 1>>
      BY <1>6, <1>7
    <3>2. /\ Stream[z][1] = Hello /\ Hello \in Frames
          /\ BodyLen(Hello) = 1 /\ BodyLen(Hello) <= CmdBufCap
      BY <3>1, HandshakeFits
    <3>3. z - 1 - BodyLen(Stream[z][1]) = 0
      BY <3>1, <3>2
    <3>4. Whole(Stream, 0, Hello)
      BY <3>1, <3>2 DEF Whole
    <3>5. Begins(Stream, Written, 0) /\ 0 \in 0 .. Len(Stream)
      BY <3>1 DEF Begins
    <3>6. Stands(Stream, Written, 0, Hello)
      BY <3>2, <3>4, <3>5 DEF Stands
    <3> QED
      BY <3>2, <3>3, <3>6
  <2>4. Cardinality(Strays(Stream, Written)) <= credit
    BY <1>1, <2>3, Few
  <2> QED
    BY <2>1, <2>2, <2>4 DEF StreamInv
<1>10. LinkTypeOK
  <2>1. cmd_in \in Queue
    BY <1>2, <1>4 DEF Queue
  <2>2. faults \in 0 .. MaxFaults /\ attempts \in 0 .. BootRetries
    BY <1>1, <1>2
  <2>3. Len(e2s) <= WireCap + 2 * faults
    <3>1. Len(e2s) = 0 \/ Len(e2s) = 2
      BY <1>6
    <3>2. Len(e2s) <= WireCap
      <4>1. 0 <= WireCap /\ 2 <= WireCap
        BY <1>2
      <4> QED
        BY <3>1, <4>1
    <3>3. WireCap + 2 * faults = WireCap
      BY <1>1, <1>2
    <3> QED
      BY <3>2, <3>3
  <2>4. Len(cmd_buf) <= CmdBufCap /\ Len(fifo) <= FifoCap /\ Len(c2e) <= TcpCap
    BY <1>2, <1>4
  <2>5. booting \in BOOLEAN /\ conn \in {"none", "up", "fin", "rst"} /\ credit \in Nat
        /\ cut \in {0} \cup DOMAIN fate
    BY <1>1
  <2> QED
    BY <1>4, <1>6, <2>1, <2>2, <2>3, <2>4, <2>5 DEF LinkTypeOK
<1> QED
  BY <1>1, <1>4, <1>9, <1>10 DEF LinkInv, Promised!CInit

\* Every action keeps the invariant and is a step of the channel, or none.
LEMMA LinkInvNext ==
  ASSUME LinkInv, [Next]_vars
  PROVE  LinkInv' /\ [Promised!CNext]_<<fate, credit>>
<1>1. CASE Next
  BY <1>1, UartRxInv, IterateInv, TelemetryInv, ConnectInv, AnswerHelloInv, ForwardFrameInv,
     TcpToUartInv, EndOfStreamInv, ClientSendInv, ClientLeaveInv, ConnectionLostInv,
     StmRestartInv, EspRestartInv DEF Next
<1>2. CASE UNCHANGED vars
  <2>1. UNCHANGED <<cmd_buf, e2s, c2e, faults, ghosts>> /\ conn' = conn /\ BoardsOK'
    BY <1>2, LinkFacts DEF vars, stm, BoardsOK
  <2> QED
    BY <2>1, Aside
<1> QED
  BY <1>1, <1>2

\* The types and the capacities of the buffers, the queue and the wires: no
\* byte is pushed on a full cmd_buf, no command on a full queue.
THEOREM LinkTypesCorrect == Spec => []LinkTypeOK
<1>1. Init => LinkInv
  BY LinkInvInit
<1>2. LinkInv /\ [Next]_vars => LinkInv'
  BY LinkInvNext
<1>3. LinkInv => LinkTypeOK
  BY DEF LinkInv
<1> QED
  BY <1>1, <1>2, <1>3, PTL DEF Spec

\* A command that stands in the stream is there frame and all.
LEMMA IntactConfined ==
  ASSUME LinkInv
  PROVE  DamageConfined
<1>0. /\ cmd_buf \in Seq(Cells) /\ e2s \in Seq(Cells) /\ c2e \in Seq(Cells)
      /\ DOMAIN fate = 1 .. Len(fate) /\ StreamInv(Stream, Written, fate, credit, cut)
  BY LinkFacts
<1>1. Stream \in Seq(Cells) /\ Len(Stream) \in Nat
  BY <1>0, StreamTypes, LenProperties
<1> SUFFICES ASSUME NEW s \in 1 .. Len(fate), fate[s] = "sent"
             PROVE  \E i \in 0..Len(Stream) : IsPrefix(Frame(s), SubSeq(Stream, i + 1, Len(Stream)))
  BY <1>0 DEF DamageConfined
<1>2. PICK p \in 0 .. Len(Stream) : Stands(Stream, Written, p, s)
  BY <1>0 DEF StreamInv, Intact
<1>3. s \in Frames /\ BodyLen(s) \in Nat /\ Whole(Stream, p, s)
  BY <1>2, FrameTypes DEF Stands
<1>4. /\ Frame(s) \in Seq(Cells) /\ Len(Frame(s)) = BodyLen(s) + 1
      /\ \A i \in 1..BodyLen(s) : Frame(s)[i] = <<s, i>>
      /\ Frame(s)[BodyLen(s) + 1] = <<s, 0>>
  BY <1>3, FrameCells
<1> DEFINE rest == SubSeq(Stream, p + 1, Len(Stream))
<1>5. /\ rest \in Seq(Cells) /\ Len(rest) = Len(Stream) - p
      /\ \A i \in 1 .. Len(Stream) - p : rest[i] = Stream[p + i]
  BY <1>1, Sliced
<1> HIDE DEF rest
<1>6. BodyLen(s) + 1 <= Len(rest)
  BY <1>1, <1>3, <1>5 DEF Whole
<1>7. ASSUME NEW i \in 1 .. BodyLen(s) + 1 PROVE rest[i] = Frame(s)[i]
  <2>1. i \in 1 .. Len(Stream) - p /\ rest[i] = Stream[p + i]
    BY <1>1, <1>3, <1>5, <1>6
  <2>2. CASE i <= BodyLen(s)
    <3>1. p + i \in p + 1 .. p + BodyLen(s) /\ p + i - p = i /\ i \in 1 .. BodyLen(s)
      BY <1>3, <2>2
    <3>2. \A q \in p + 1 .. p + BodyLen(s) : Stream[q] = <<s, q - p>>
      BY <1>3 DEF Whole
    <3>3. Stream[p + i] = <<s, p + i - p>>
      BY <3>1, <3>2
    <3> QED
      BY <1>4, <2>1, <3>1, <3>3
  <2>3. CASE i = BodyLen(s) + 1
    <3>1. p + i = p + BodyLen(s) + 1
      BY <1>3, <2>3
    <3> QED
      BY <1>3, <1>4, <2>1, <2>3, <3>1 DEF Whole
  <2> QED
    BY <1>3, <2>2, <2>3
<1>8. IsPrefix(Frame(s), rest)
  BY <1>4, <1>5, <1>6, <1>7, PrefixCells
<1> QED
  BY <1>8 DEF rest

\* A command that no disturbance has struck is whole in the stream: neither a
\* fragment before it, nor a frame the bridge inserts, nor a restart of either
\* board leaves uart4_rx out of step when it gets there.
THEOREM DamageStaysConfined == Spec => []DamageConfined
<1>1. Init => LinkInv
  BY LinkInvInit
<1>2. LinkInv /\ [Next]_vars => LinkInv'
  BY LinkInvNext
<1>3. LinkInv => DamageConfined
  BY IntactConfined
<1> QED
  BY <1>1, <1>2, <1>3, PTL DEF Spec

\* The link is an ordered channel without duplicates, whose losses and whose
\* made-up frames are paid for by disturbances.
THEOREM LinkImplementsChannel == Spec => ImplementsChannel
<1>1. Init => LinkInv /\ Promised!CInit
  BY LinkInvInit
<1>2. LinkInv /\ [Next]_vars => LinkInv' /\ [Promised!CNext]_<<fate, credit>>
  BY LinkInvNext
<1> QED
  BY <1>1, <1>2, PTL DEF Spec, ImplementsChannel, Promised!CSpec
=============================================================================
