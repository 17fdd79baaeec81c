---------------------------- MODULE PacketProofs ----------------------------
(***************************************************************************)
(* Proofs about the packets of an encrypted file, for any chunk, salt and  *)
(* window size, any split of the file into requests and reads, and any     *)
(* tampering that PacketStream allows: the sizes and the ranges agree, and *)
(* what the reader hands on is the file.                                   *)
(***************************************************************************)
EXTENDS PacketStream, FiniteSetTheorems, SequenceTheorems, WellFoundedInduction, TLAPS

(***************************************************************************)
(* The sizes and the ranges of an encrypted file, for any sizes.           *)
(***************************************************************************)

\* A number in steps of c: what is whole, and what is left.
LEMMA Division ==
    ASSUME NEW a \in Nat, NEW c \in Nat \ {0}
    PROVE  /\ a \div c \in Nat /\ a % c \in Nat /\ a % c < c
           /\ a = (a \div c) * c + (a % c)
OBVIOUS

\* Whole and rest determine each other.
LEMMA DivisionIs ==
    ASSUME NEW q \in Nat, NEW c \in Nat \ {0}, NEW r \in Nat, r < c
    PROVE  (q * c + r) \div c = q /\ (q * c + r) % c = r
<1> DEFINE a == q * c + r
<1>1. a \in Nat
  OBVIOUS
<1>2. PICK d \in Nat, m \in Nat : d = a \div c /\ m = a % c /\ m < c /\ a = d * c + m
  <2> HIDE DEF a
  <2> QED  BY <1>1, Division
<1>3. ASSUME NEW x \in Nat, NEW y \in Nat, NEW u \in Nat, NEW v \in Nat,
             x * c + u = y * c + v, u < c, v < c, x < y
      PROVE  FALSE
  <2>1. PICK k \in Nat : y = x + 1 + k
    <3>1. y - x - 1 \in Nat /\ y = x + 1 + (y - x - 1)
      BY <1>3
    <3> QED  BY <3>1
  <2>2. y * c = x * c + c + k * c
    BY <2>1
  <2>3. k * c \in Nat /\ x * c \in Nat
    OBVIOUS
  <2> QED  BY <1>3, <2>2, <2>3
<1>4. q = d
  BY <1>2, <1>3
<1>5. m = r
  <2>1. q * c \in Nat /\ q * c + r = q * c + m
    BY <1>2, <1>4
  <2> QED  BY <2>1
<1> QED  BY <1>2, <1>4, <1>5

\* The size the server computes from a ciphertext is the plaintext's it was made of, so the
\* progress bar and the final check of the reader expect what was uploaded (packet.ts).
THEOREM SizesAgree ==
    ASSUME NEW size \in Nat \ {0}
    PROVE  PlaintextSize(CiphertextSize(size)) = size
<1> DEFINE whole == (size - 1) \div ChunkSize
           rest == ((size - 1) % ChunkSize) + 1
           n == PacketCount(size)
<1>1. ChunkSize \in Nat \ {0} /\ PacketOverhead \in Nat \ {0} /\ SaltLength \in Nat
  BY PacketAssumption
<1>2. whole \in Nat /\ rest \in 1..ChunkSize /\ size = whole * ChunkSize + rest
  BY <1>1, Division
<1>3. n = whole + 1
  <2>1. size + ChunkSize - 1 = (whole + 1) * ChunkSize + (rest - 1)
    BY <1>1, <1>2
  <2> HIDE DEF whole, rest
  <2>2. rest - 1 \in Nat /\ rest - 1 < ChunkSize /\ whole + 1 \in Nat
    BY <1>1, <1>2
  <2> QED  BY <1>1, <2>1, <2>2, DivisionIs DEF PacketCount
<1> HIDE DEF whole, rest, n
<1>4. CiphertextSize(size) = SaltLength + size + (whole + 1) * PacketOverhead
  BY <1>3 DEF CiphertextSize, n
<1> DEFINE packets == CiphertextSize(size) - SaltLength
<1>5. /\ PackedChunkSize = ChunkSize + PacketOverhead /\ PackedChunkSize \in Nat \ {0}
      /\ packets = whole * PackedChunkSize + (rest + PacketOverhead)
      /\ CiphertextSize(size) >= SaltLength /\ CiphertextSize(size) \in Nat
  <2>1. packets = size + (whole + 1) * PacketOverhead
    BY <1>1, <1>2, <1>4
  <2> QED  BY <1>1, <1>2, <1>4, <2>1 DEF PackedChunkSize
<1> HIDE DEF packets
<1>6. CASE rest = ChunkSize
  <2>1. PICK all \in Nat : all = whole + 1
    BY <1>2
  <2>2. PICK none \in Nat : none = 0
    OBVIOUS
  <2>3. packets = all * PackedChunkSize + none /\ none < PackedChunkSize
    BY <1>1, <1>2, <1>5, <1>6, <2>1, <2>2
  <2>4. packets \div PackedChunkSize = all /\ packets % PackedChunkSize = none
    <3>1. PackedChunkSize \in Nat \ {0}
      BY <1>5
    <3> QED  BY <2>3, <3>1, DivisionIs
  <2>5. size = all * ChunkSize
    BY <1>1, <1>2, <1>6, <2>1
  <2>6. ~(CiphertextSize(size) < SaltLength)
    BY <1>1, <1>5
  <2> QED  BY <2>2, <2>4, <2>5, <2>6 DEF PlaintextSize, packets
<1>7. CASE rest < ChunkSize
  <2>1. rest + PacketOverhead \in Nat /\ rest + PacketOverhead < PackedChunkSize
        /\ rest + PacketOverhead > PacketOverhead
    BY <1>1, <1>2, <1>5, <1>7
  <2>2. packets \div PackedChunkSize = whole /\ packets % PackedChunkSize = rest + PacketOverhead
    BY <1>2, <1>5, <2>1, DivisionIs
  <2>3. rest + PacketOverhead - PacketOverhead = rest /\ rest + PacketOverhead # 0
    BY <1>1, <1>2
  <2> QED  BY <1>1, <1>2, <1>5, <2>1, <2>2, <2>3 DEF PlaintextSize, packets
<1> QED  BY <1>1, <1>2, <1>6, <1>7

\* A range is answered with exactly the bytes it names, and with 416 when it names none
\* (parseSingleRange, resolveServedRange, buildRangeResponse in routes/file/[fileId]/route.ts).
THEOREM RangesAreExact ==
    ASSUME NEW S, NEW bytes \in Seq(S),
           NEW start \in Nat \cup {Absent}, NEW end \in Nat \cup {Absent}
    PROVE  RangeExact(start, end, bytes)
<1> DEFINE size == Len(bytes)
           range == ParsedRange(start, end)
           named == Named(start, end, size)
           reply == RangeAnswer(range, bytes)
<1>1. size \in Nat /\ Absent = 0 - 1
  BY DEF Absent
<1>2. CASE range = NoRange
  <2>1. reply.status = 200 /\ reply.body = bytes
    BY <1>2 DEF RangeAnswer
  <2> QED  BY <1>2, <2>1 DEF RangeExact
<1>3. ASSUME range # NoRange,
             NEW first \in Nat, NEW count \in Nat, first + count <= size,
             named = first..(first + count - 1),
             count = 0 => reply.status = 416,
             count # 0 => /\ reply.status = 206
                          /\ reply.body = SubSeq(bytes, first + 1, first + count)
      PROVE  RangeExact(start, end, bytes)
  <2>1. CASE named # {} /\ reply.status = 206
             /\ \E f \in named : /\ \A p \in named : f <= p
                                 /\ reply.body = [o \in 1..Cardinality(named) |-> bytes[f + o]]
    BY <1>3, <2>1 DEF RangeExact
  <2> HIDE DEF range, named, reply
  <2>2. CASE count = 0
    <3>1. named = {}
      BY <1>3, <2>2
    <3> QED  BY <1>3, <2>2, <3>1 DEF RangeExact, range, named, reply
  <2>3. CASE count # 0
    <3>1. named # {} /\ first \in named /\ \A p \in named : first <= p
      <4>1. first <= first + count - 1 /\ first \in Int /\ named = first..(first + count - 1)
        BY <1>3, <2>3
      <4>2. first \in first..(first + count - 1)
        BY <4>1
      <4>3. \A p \in first..(first + count - 1) : first <= p
        OBVIOUS
      <4> QED  BY <4>1, <4>2, <4>3
    <3>2. Cardinality(named) = count
      BY <1>3, <2>3, FS_Interval
    <3>3. SubSeq(bytes, first + 1, first + count) = [o \in 1..count |-> bytes[first + o]]
      <4>1. SubSeq(bytes, first + 1, first + count)
              = [o \in 1..(first + count - (first + 1) + 1) |-> bytes[first + 1 + o - 1]]
        BY <1>3
      <4>2. first + count - (first + 1) + 1 = count /\ \A o \in 1..count : first + 1 + o - 1 = first + o
        BY <1>3
      <4> QED  BY <4>1, <4>2
    <3>4. reply.body = [o \in 1..Cardinality(named) |-> bytes[first + o]]
      BY <1>3, <2>3, <3>2, <3>3
    <3> QED  BY <1>3, <2>1, <2>3, <3>1, <3>4
  <2> QED  BY <2>2, <2>3
<1>4. ASSUME range # NoRange, ~Unsatisfiable(range, size),
             NEW first \in Nat, NEW count \in Nat \ {0}, first + count <= size,
             Served(range, size) = [offset |-> first, length |-> count],
             named = first..(first + count - 1)
      PROVE  RangeExact(start, end, bytes)
  <2>1. /\ reply.status = 206
        /\ reply.body = SubSeq(bytes, first + 1, first + count)
    <3>1. reply = RangeResponse(range, bytes)
      BY <1>4 DEF RangeAnswer
    <3> HIDE DEF range, reply
    <3>2. Served(range, Len(bytes)) = [offset |-> first, length |-> count] /\ count # 0
      BY <1>4
    <3> QED  BY <3>1, <3>2 DEF RangeResponse
  <2> HIDE DEF range, named, reply
  <2> QED  BY <1>3, <1>4, <2>1
<1>5. ASSUME range # NoRange, Unsatisfiable(range, size), named = {}
      PROVE  RangeExact(start, end, bytes)
  <2>1. reply.status = 416
    BY <1>5 DEF RangeAnswer, UnsatisfiableAnswer
  <2> QED  BY <1>5, <2>1 DEF RangeExact
<1>6. CASE start = Absent /\ end > 0
  <2>1. end \in Nat /\ range = [suffix |-> end] /\ "suffix" \in DOMAIN range
    BY <1>1, <1>6 DEF ParsedRange
  <2>2. range # NoRange
    BY <2>1 DEF NoRange
  <2>3. CASE size = 0
    <3>1. named = {} /\ Unsatisfiable(range, size)
      BY <2>1, <2>3 DEF Named, Unsatisfiable
    <3> QED  BY <1>5, <2>2, <3>1
  <2>4. CASE size # 0
    <3>1. PICK count \in Nat \ {0} : count = Least(end, size) /\ count <= size
      BY <1>1, <1>6, <2>1, <2>4 DEF Least
    <3>2. PICK first \in Nat : first = size - count
      BY <1>1, <3>1
    <3>3. Served(range, size) = [offset |-> first, length |-> count] /\ ~Unsatisfiable(range, size)
      BY <2>1, <2>4, <3>1, <3>2 DEF Served, Unsatisfiable
    <3>4. named = first..(first + count - 1) /\ first + count <= size
      BY <1>1, <1>6, <2>1, <3>1, <3>2 DEF Named, Least
    <3> QED  BY <1>4, <2>2, <3>3, <3>4
  <2> QED  BY <2>3, <2>4
<1>7. CASE start # Absent /\ (end = Absent \/ end >= start)
  <2>1. /\ start \in Nat /\ range.offset = start /\ "suffix" \notin DOMAIN range
        /\ "length" \in DOMAIN range <=> end # Absent
        /\ end # Absent => range.length = end - start + 1 /\ end \in Nat /\ end >= start
    BY <1>1, <1>7 DEF ParsedRange
  <2>2. range # NoRange
    <3>1. "offset" \in DOMAIN range
      BY <1>1, <1>7 DEF ParsedRange
    <3> QED  BY <3>1 DEF NoRange
  <2>3. CASE start >= size
    <3>1. named = {} /\ Unsatisfiable(range, size)
      BY <1>1, <2>1, <2>3 DEF Named, Unsatisfiable
    <3> QED  BY <1>5, <2>2, <3>1
  <2>4. CASE start < size
    <3> DEFINE length == IF end # Absent THEN Least(end - start + 1, size - start)
                         ELSE size - start
    <3>1. length \in Nat \ {0} /\ start + length <= size
      <4>1. CASE end = Absent
        BY <1>1, <2>1, <2>4, <4>1
      <4>2. CASE end # Absent
        BY <1>1, <2>1, <2>4, <4>2 DEF Least
      <4> QED  BY <4>1, <4>2
    <3>2. PICK count \in Nat \ {0} :
              /\ count = IF end # Absent THEN Least(end - start + 1, size - start)
                         ELSE size - start
              /\ start + count <= size
      BY <3>1
    <3>3. Least(range.offset, size) = start
      BY <2>1, <2>4 DEF Least
    <3>4. Served(range, size) = [offset |-> start, length |-> count] /\ ~Unsatisfiable(range, size)
      BY <1>1, <2>1, <2>4, <3>2, <3>3 DEF Served, Unsatisfiable
    <3>5. named = start..(start + count - 1)
      BY <1>1, <2>1, <2>4, <3>2 DEF Named, Least
    <3> QED  BY <1>4, <2>1, <2>2, <3>2, <3>4, <3>5
  <2> QED  BY <1>1, <2>1, <2>3, <2>4
<1> QED  BY <1>2, <1>6, <1>7 DEF ParsedRange

(***************************************************************************)
(* Sequences put together of parts (FlattenSeq).  What the parts make is   *)
(* found by their number: of the numbers at which it would fail there is a *)
(* least one.                                                              *)
(***************************************************************************)

\* Of some numbers of a finite set the least one is found (Min chooses it).
LEMMA LeastNumber ==
    ASSUME NEW S \in SUBSET Int, IsFiniteSet(S), S # {}
    PROVE  Min(S) \in S /\ \A x \in S : Min(S) <= x
<1> DEFINE Bad == {T \in FiniteSubsetsOf(S) : T # {} /\ ~\E m \in T : \A x \in T : m <= x}
<1>1. ASSUME Bad # {} PROVE FALSE
  <2>1. PICK T \in Bad : \A U \in Bad : <<U, T>> \notin StrictSubsetOrdering(S)
    <3>1. Bad \subseteq FiniteSubsetsOf(S)
      OBVIOUS
    <3> HIDE DEF Bad
    <3> QED  BY <1>1, <3>1, FS_StrictSubsetOrderingWellFounded, WFMin
  <2>2. T \in SUBSET Int /\ IsFiniteSet(T) /\ T \in SUBSET S /\ T # {}
        /\ ~\E m \in T : \A x \in T : m <= x
    BY <2>1 DEF FiniteSubsetsOf
  <2>3. PICK o \in T : TRUE
    BY <2>2
  <2> DEFINE U == T \ {o}
  <2>4. U \in FiniteSubsetsOf(S) /\ <<U, T>> \in StrictSubsetOrdering(S)
    BY <2>2, <2>3, FS_RemoveElement DEF FiniteSubsetsOf, StrictSubsetOrdering
  <2>5. U = {} \/ \E m \in U : \A x \in U : m <= x
    BY <2>1, <2>4
  <2>6. CASE U = {}
    BY <2>2, <2>3, <2>6
  <2>7. CASE U # {}
    <3>1. PICK m \in U : \A x \in U : m <= x
      BY <2>5, <2>7
    <3>2. m \in Int /\ o \in Int /\ m \in T
      BY <2>2, <2>3, <3>1
    <3>3. CASE m <= o
      BY <2>2, <3>1, <3>2, <3>3
    <3>4. CASE o < m
      <4>1. ASSUME NEW x \in T PROVE o <= x
        <5>1. x \in Int /\ (x = o \/ m <= x)
          BY <2>2, <3>1, <4>1
        <5> QED  BY <3>2, <3>4, <5>1
      <4> QED  BY <2>2, <4>1
    <3> QED  BY <3>2, <3>3, <3>4
  <2> QED  BY <2>6, <2>7
<1>2. S \in FiniteSubsetsOf(S)
  BY DEF FiniteSubsetsOf
<1>3. \E m \in S : \A x \in S : m <= x
  BY <1>1, <1>2
<1> QED  BY <1>3 DEF Min

\* The sequences h[1], h[2], ... that the first parts make together.
Joins(h, seqs, n) == h[1] = seqs[1] /\ \A i \in 2..n : h[i] = h[i - 1] \o seqs[i]

\* Of the numbers 1..n that have a property the least one is found.
LEMMA LeastOf ==
    ASSUME NEW n \in Nat, NEW B \in SUBSET (1..n), B # {}
    PROVE  \E b \in B : \A x \in B : b <= x
<1>1. IsFiniteSet(1..n)
  <2>1. 1 \in Int /\ n \in Int
    OBVIOUS
  <2> QED  BY <2>1, FS_Interval
<1>2. IsFiniteSet(B)
  BY <1>1, FS_Subset
<1>3. B \in SUBSET Int
  OBVIOUS
<1> QED  BY <1>2, <1>3, LeastNumber

\* Induction up to n.
LEMMA UpTo ==
    ASSUME NEW n \in Nat \ {0}, NEW G, 1 \in G, \A k \in 2..n : k - 1 \in G => k \in G
    PROVE  \A k \in 1..n : k \in G
<1> DEFINE Bad == {k \in 1..n : k \notin G}
<1>1. ASSUME Bad # {} PROVE FALSE
  <2>1. PICK k \in Bad : \A x \in Bad : k <= x
    BY <1>1, LeastOf
  <2>2. k \in 2..n /\ k - 1 \in 1..n
    BY <2>1
  <2>3. k - 1 \notin Bad
    <3> HIDE DEF Bad
    <3> QED  BY <2>1, <2>2
  <2> QED  BY <2>1, <2>2, <2>3
<1> QED  BY <1>1

\* What the parts make in turn is what FlattenSeq makes of them.
LEMMA FlattenIs ==
    ASSUME NEW n \in Nat \ {0}, NEW seqs, seqs = [i \in 1..n |-> seqs[i]], NEW h, Joins(h, seqs, n)
    PROVE  FlattenSeq(seqs) = h[n]
<1> DEFINE w == [i \in 1..n |-> h[i]]
<1>1. w = [i \in 1..n |-> IF i = 1 THEN seqs[i] ELSE w[i - 1] \o seqs[i]]
  <2>1. \A i \in 1..n : i # 1 => i \in 2..n /\ i - 1 \in 1..n
    OBVIOUS
  <2> QED  BY <2>1 DEF Joins
<1>2. Len(seqs) = n
  OBVIOUS
<1> HIDE DEF w
<1> DEFINE flatten == CHOOSE flatten : flatten =
               [i \in 1..n |-> IF i = 1 THEN seqs[i] ELSE flatten[i - 1] \o seqs[i]]
<1>3. FlattenSeq(seqs) = flatten[n]
  BY <1>2 DEF FlattenSeq
<1>4. flatten = [i \in 1..n |-> IF i = 1 THEN seqs[i] ELSE flatten[i - 1] \o seqs[i]]
  BY <1>1
<1> HIDE DEF flatten
<1> DEFINE G == {i \in 1..n : flatten[i] = h[i]}
<1>5. 1 \in G
  BY <1>4 DEF Joins
<1>6. ASSUME NEW i \in 2..n, i - 1 \in G PROVE i \in G
  <2>1. flatten[i] = flatten[i - 1] \o seqs[i]
    <3>1. i \in 1..n /\ i # 1
      BY <1>6
    <3> QED  BY <1>4, <3>1
  <2>2. h[i] = h[i - 1] \o seqs[i]
    BY DEF Joins
  <2>3. flatten[i - 1] = h[i - 1] /\ i \in 1..n
    BY <1>6
  <2> QED  BY <2>1, <2>2, <2>3
<1>7. n \in G
  <2> HIDE DEF G
  <2>1. n \in 1..n
    OBVIOUS
  <2> QED  BY <1>5, <1>6, <2>1, UpTo
<1> QED  BY <1>3, <1>7

\* Some parts always make something.
LEMMA PartsJoin ==
    ASSUME NEW S, NEW n \in Nat \ {0}, NEW seqs \in [1..n -> Seq(S)]
    PROVE  \E h \in [1..n -> Seq(S)] : Joins(h, seqs, n) /\ FlattenSeq(seqs) = h[n]
<1> DEFINE Made(k) == \E g \in [1..k -> Seq(S)] : Joins(g, seqs, k)
           G == {k \in 1..n : Made(k)}
<1>1. Made(1)
  <2>1. [i \in 1..1 |-> seqs[1]] \in [1..1 -> Seq(S)]
    OBVIOUS
  <2>2. Joins([i \in 1..1 |-> seqs[1]], seqs, 1)
    BY DEF Joins
  <2> QED  BY <2>1, <2>2
<1>2. ASSUME NEW k \in 2..n, Made(k - 1) PROVE Made(k)
  <2>1. PICK g \in [1..(k - 1) -> Seq(S)] : Joins(g, seqs, k - 1)
    BY <1>2
  <2>2. k - 1 \in 1..(k - 1) /\ k \in 1..n /\ \A i \in 1..k : i # k => i \in 1..(k - 1)
    BY <1>2
  <2> DEFINE more == [i \in 1..k |-> IF i = k THEN g[k - 1] \o seqs[k] ELSE g[i]]
  <2>3. more \in [1..k -> Seq(S)]
    <3>1. g[k - 1] \in Seq(S) /\ seqs[k] \in Seq(S)
      BY <2>1, <2>2
    <3>2. g[k - 1] \o seqs[k] \in Seq(S)
      BY <3>1
    <3> QED  BY <2>1, <2>2, <3>2
  <2>4. more[1] = seqs[1]
    BY <1>2, <2>1 DEF Joins
  <2>5. ASSUME NEW i \in 2..k PROVE more[i] = more[i - 1] \o seqs[i]
    <3>1. i - 1 \in 1..k /\ i - 1 # k /\ i \in 1..k
      BY <2>5
    <3>2. more[i - 1] = g[i - 1]
      BY <3>1
    <3>3. CASE i = k
      BY <3>1, <3>2, <3>3
    <3>4. CASE i # k
      <4>1. i \in 2..(k - 1)
        BY <1>2, <2>5, <3>4
      <4>2. more[i] = g[i]
        BY <3>1, <3>4
      <4> QED  BY <2>1, <3>2, <4>1, <4>2 DEF Joins
    <3> QED  BY <3>3, <3>4
  <2> HIDE DEF more
  <2>6. Joins(more, seqs, k)
    BY <2>4, <2>5 DEF Joins
  <2> QED  BY <2>3, <2>6
<1> HIDE DEF Made
<1>3. 1 \in G /\ \A k \in 2..n : k - 1 \in G => k \in G
  BY <1>1, <1>2
<1>4. Made(n)
  <2>1. n \in 1..n
    OBVIOUS
  <2>2. n \in G
    <3> HIDE DEF G
    <3> QED  BY <1>3, <2>1, UpTo
  <2> QED  BY <2>2
<1>5. PICK g \in [1..n -> Seq(S)] : Joins(g, seqs, n)
  BY <1>4 DEF Made
<1>6. seqs = [i \in 1..n |-> seqs[i]]
  OBVIOUS
<1> QED  BY <1>5, <1>6, FlattenIs

\* Places in what two sequences of x and y elements make.
LEMMA PlacesBehind ==
    ASSUME NEW x \in Nat, NEW y \in Nat, NEW o \in 1..y
    PROVE  x + o \in 1..(x + y) /\ ~(x + o <= x) /\ x + o - x = o
OBVIOUS

LEMMA PlacesBefore ==
    ASSUME NEW x \in Nat, NEW y \in Nat, NEW a \in Nat, NEW l \in Nat, a + l <= x
    PROVE  /\ a + l <= x + y
           /\ \A o \in 1..l : a + o \in 1..(x + y) /\ a + o <= x
OBVIOUS

\* Where each part ends.
Ends(q, seqs, n) == /\ q \in [0..n -> Nat] /\ q[0] = 0
                    /\ \A i \in 1..n : q[i] = q[i - 1] + Len(seqs[i])

\* Every part has its place in what they make.
Placed(s, q, seqs, n) ==
    /\ FlattenSeq(seqs) = s /\ Len(s) = q[n]
    /\ \A i \in 1..n : \A o \in 1..Len(seqs[i]) : s[q[i - 1] + o] = seqs[i][o]

\* A part stands between where the one before it ends and where it ends itself.
LEMMA PartsPlaces ==
    ASSUME NEW S, NEW n \in Nat \ {0}, NEW seqs \in [1..n -> Seq(S)], NEW q, Ends(q, seqs, n)
    PROVE  \E s \in Seq(S) : Placed(s, q, seqs, n)
<1>1. PICK h \in [1..n -> Seq(S)] : Joins(h, seqs, n) /\ FlattenSeq(seqs) = h[n]
  BY PartsJoin
<1> DEFINE Stands(k) == /\ Len(h[k]) = q[k]
                        /\ \A i \in 1..k : /\ q[i] <= q[k]
                                           /\ \A o \in 1..Len(seqs[i]) : h[k][q[i - 1] + o] = seqs[i][o]
           G == {k \in 1..n : Stands(k)}
<1>2. ASSUME NEW i \in 1..n
      PROVE  /\ h[i] \in Seq(S) /\ seqs[i] \in Seq(S) /\ Len(seqs[i]) \in Nat
             /\ q[i] \in Nat /\ q[i - 1] \in Nat /\ q[i] = q[i - 1] + Len(seqs[i])
  <2>1. h[i] \in Seq(S) /\ seqs[i] \in Seq(S)
    BY <1>1
  <2>2. i - 1 \in 0..n /\ i \in 0..n
    OBVIOUS
  <2>3. q[i] \in Nat /\ q[i - 1] \in Nat /\ q[i] = q[i - 1] + Len(seqs[i])
    BY <2>2 DEF Ends
  <2> QED  BY <2>1, <2>3
<1>3. Stands(1)
  <2>1. h[1] = seqs[1]
    BY <1>1 DEF Joins
  <2>2. q[0] = 0 /\ 1 \in 1..n
    BY DEF Ends
  <2>3. q[1] = Len(seqs[1]) /\ seqs[1] \in Seq(S) /\ q[1] \in Nat
    BY <1>2, <2>2
  <2>4. \A i \in 1..1 : i = 1
    OBVIOUS
  <2> QED  BY <2>1, <2>2, <2>3, <2>4
<1>4. ASSUME NEW k \in 2..n, Stands(k - 1) PROVE Stands(k)
  <2>1. k - 1 \in 1..n /\ k \in 1..n
    OBVIOUS
  <2>2. PICK s \in Seq(S) : s = h[k - 1]
    BY <1>2, <2>1
  <2>3. PICK t \in Seq(S) : t = seqs[k]
    BY <1>2, <2>1
  <2>4. h[k] = s \o t
    BY <1>1, <2>2, <2>3 DEF Joins
  <2>5. Len(s) = q[k - 1] /\ q[k] = Len(s) + Len(t) /\ Len(s) \in Nat /\ Len(t) \in Nat
    BY <1>2, <1>4, <2>1, <2>2, <2>3
  <2>6. \A p \in 1..(Len(s) + Len(t)) : (s \o t)[p] = IF p <= Len(s) THEN s[p] ELSE t[p - Len(s)]
    BY ConcatProperties
  <2>7. ASSUME NEW i \in 1..k
        PROVE  /\ q[i] <= q[k]
               /\ \A o \in 1..Len(seqs[i]) : h[k][q[i - 1] + o] = seqs[i][o]
    <3>1. CASE i = k
      <4>1. ASSUME NEW o \in 1..Len(t) PROVE (s \o t)[Len(s) + o] = t[o]
        <5>1. Len(s) + o \in 1..(Len(s) + Len(t)) /\ ~(Len(s) + o <= Len(s)) /\ Len(s) + o - Len(s) = o
          BY <2>5, PlacesBehind
        <5> QED  BY <2>6, <5>1
      <4>2. q[k] <= q[k]
        BY <2>5
      <4> QED  BY <2>3, <2>4, <2>5, <3>1, <4>1, <4>2
    <3>2. CASE i # k
      <4>1. i \in 1..(k - 1) /\ i \in 1..n
        BY <3>2
      <4>2. \A o \in 1..Len(seqs[i]) : s[q[i - 1] + o] = seqs[i][o]
        BY <1>4, <2>2, <4>1
      <4>3. PICK a \in Nat, l \in Nat : a = q[i - 1] /\ l = Len(seqs[i]) /\ q[i] = a + l
        BY <1>2, <4>1
      <4>4. a + l <= Len(s)
        BY <1>4, <2>5, <4>1, <4>3
      <4>5. ASSUME NEW o \in 1..l PROVE (s \o t)[a + o] = s[a + o]
        <5>1. a + o \in 1..(Len(s) + Len(t)) /\ a + o <= Len(s)
          BY <2>5, <4>4, PlacesBefore
        <5> QED  BY <2>6, <5>1
      <4>6. q[i] <= q[k]
        <5>1. a + l <= Len(s) + Len(t)
          BY <2>5, <4>4, PlacesBefore
        <5> QED  BY <2>5, <4>3, <5>1
      <4> QED  BY <2>4, <4>2, <4>3, <4>5, <4>6
    <3> QED  BY <3>1, <3>2
  <2>8. Len(h[k]) = q[k]
    <3>1. Len(s \o t) = Len(s) + Len(t)
      OBVIOUS
    <3> QED  BY <2>4, <2>5, <3>1
  <2> QED  BY <2>7, <2>8
<1> HIDE DEF Stands
<1>5. 1 \in G /\ \A k \in 2..n : k - 1 \in G => k \in G
  BY <1>3, <1>4
<1>6. n \in G /\ n \in 1..n
  <2> HIDE DEF G
  <2>1. n \in 1..n
    OBVIOUS
  <2> QED  BY <1>5, <2>1, UpTo
<1>7. h[n] \in Seq(S) /\ Stands(n)
  BY <1>2, <1>6
<1>8. Placed(h[n], q, seqs, n)
  BY <1>1, <1>7 DEF Stands, Placed
<1> QED  BY <1>7, <1>8

\* What parts make is no shorter than the first of them.
LEMMA PartsLonger ==
    ASSUME NEW S, NEW n \in Nat \ {0}, NEW seqs \in [1..n -> Seq(S)]
    PROVE  FlattenSeq(seqs) \in Seq(S) /\ Len(FlattenSeq(seqs)) >= Len(seqs[1])
<1>1. PICK h \in [1..n -> Seq(S)] : Joins(h, seqs, n) /\ FlattenSeq(seqs) = h[n]
  BY PartsJoin
<1> DEFINE G == {k \in 1..n : Len(h[k]) >= Len(seqs[1])}
<1>2. \A i \in 1..n : h[i] \in Seq(S) /\ seqs[i] \in Seq(S)
  BY <1>1
<1>3. \A i \in 1..n : Len(h[i]) \in Nat /\ Len(seqs[i]) \in Nat
  BY <1>2
<1>4. 1 \in G
  BY <1>1, <1>3 DEF Joins
<1>5. ASSUME NEW k \in 2..n, k - 1 \in G PROVE k \in G
  <2>1. k - 1 \in 1..n /\ k \in 1..n /\ 1 \in 1..n
    BY <1>5
  <2>2. PICK s \in Seq(S), t \in Seq(S) : s = h[k - 1] /\ t = seqs[k]
    BY <1>2, <2>1
  <2>3. h[k] = s \o t
    BY <1>1, <2>2 DEF Joins
  <2>4. Len(s \o t) = Len(s) + Len(t) /\ Len(s) \in Nat /\ Len(t) \in Nat
    OBVIOUS
  <2> QED  BY <1>3, <1>5, <2>1, <2>2, <2>3, <2>4
<1>6. n \in G /\ n \in 1..n
  <2> HIDE DEF G
  <2>1. n \in 1..n
    OBVIOUS
  <2> QED  BY <1>4, <1>5, <2>1, UpTo
<1> QED  BY <1>1, <1>2, <1>6

(***************************************************************************)
(* The encrypted stream: where its packets stand.                          *)
(***************************************************************************)

\* The last packet of a file ends it, and every other one is full.
LEMMA ChunksCover ==
    ASSUME NEW size \in Nat \ {0}
    PROVE  /\ PacketCount(size) \in Nat \ {0}
           /\ (PacketCount(size) - 1) * ChunkSize < size /\ size <= PacketCount(size) * ChunkSize
           /\ \A i \in 0..(PacketCount(size) - 1) :
                 /\ ChunkAt(size, i) \in 1..ChunkSize
                 /\ i < PacketCount(size) - 1 =>
                       ChunkAt(size, i) = ChunkSize /\ (i + 1) * ChunkSize < size
                 /\ i = PacketCount(size) - 1 =>
                       ChunkAt(size, i) = size - i * ChunkSize /\ size <= (i + 1) * ChunkSize
                 /\ i * ChunkSize < size
<1> DEFINE whole == (size - 1) \div ChunkSize
           rest == ((size - 1) % ChunkSize) + 1
<1>1. ChunkSize \in Nat \ {0}
  BY PacketAssumption
<1>2. whole \in Nat /\ rest \in 1..ChunkSize /\ size = whole * ChunkSize + rest
  BY <1>1, Division
<1>3. PacketCount(size) = whole + 1
  <2>1. size + ChunkSize - 1 = (whole + 1) * ChunkSize + (rest - 1)
    BY <1>1, <1>2
  <2> HIDE DEF whole, rest
  <2>2. rest - 1 \in Nat /\ rest - 1 < ChunkSize /\ whole + 1 \in Nat
    BY <1>1, <1>2
  <2> QED  BY <1>1, <2>1, <2>2, DivisionIs DEF PacketCount
<1> HIDE DEF whole, rest
<1>4. (whole + 1) * ChunkSize = whole * ChunkSize + ChunkSize /\ whole * ChunkSize \in Nat
  BY <1>1, <1>2
<1>5. ASSUME NEW i \in 0..whole
      PROVE  /\ ChunkAt(size, i) \in 1..ChunkSize
             /\ i < whole => ChunkAt(size, i) = ChunkSize /\ (i + 1) * ChunkSize < size
             /\ i = whole => ChunkAt(size, i) = size - i * ChunkSize /\ size <= (i + 1) * ChunkSize
             /\ i * ChunkSize < size
  <2>1. (i + 1) * ChunkSize = i * ChunkSize + ChunkSize /\ i * ChunkSize \in Nat
    BY <1>1
  <2>2. CASE i = whole
    <3>1. CASE rest = ChunkSize
      BY <1>1, <1>2, <1>4, <2>1, <2>2, <3>1 DEF ChunkAt
    <3>2. CASE rest < ChunkSize
      BY <1>1, <1>2, <1>4, <2>1, <2>2, <3>2 DEF ChunkAt
    <3> QED  BY <1>1, <1>2, <3>1, <3>2
  <2>3. CASE i < whole
    <3>1. PICK k \in Nat : whole = i + 1 + k
      <4>1. whole - i - 1 \in Nat
        BY <1>2, <2>3
      <4> QED  BY <1>2, <4>1
    <3>2. whole * ChunkSize = (i + 1) * ChunkSize + k * ChunkSize /\ k * ChunkSize \in Nat
      BY <1>1, <3>1
    <3> QED  BY <1>1, <1>2, <1>4, <2>1, <2>3, <3>2 DEF ChunkAt
  <2> QED  BY <1>2, <2>2, <2>3
<1>6. whole + 1 - 1 = whole
  BY <1>2
<1> QED  BY <1>1, <1>2, <1>3, <1>4, <1>5, <1>6

\* Where the packets that follow the first k stand, after what comes before the first one.
EndOf(start, size, k) ==
    start + (IF k < PacketCount(size) THEN k * PackedChunkSize
             ELSE size + PacketCount(size) * PacketOverhead)

\* Each packet that follows the first stands a full packet behind the one before it.
LEMMA PacketsFollow ==
    ASSUME NEW size \in Nat \ {0}, NEW start \in Nat
    PROVE  /\ EndOf(start, size, 0) = start
           /\ EndOf(start, size, PacketCount(size)) = start + size + PacketCount(size) * PacketOverhead
           /\ \A k \in 0..PacketCount(size) : EndOf(start, size, k) \in Nat
           /\ \A i \in 0..(PacketCount(size) - 1) :
                 /\ EndOf(start, size, i + 1) = EndOf(start, size, i) + ChunkAt(size, i) + PacketOverhead
                 /\ i < PacketCount(size) - 1 =>
                       EndOf(start, size, i + 1) < EndOf(start, size, PacketCount(size))
<1> DEFINE n == PacketCount(size)
<1>1. /\ ChunkSize \in Nat \ {0} /\ PacketOverhead \in Nat \ {0}
      /\ PackedChunkSize = ChunkSize + PacketOverhead /\ n \in Nat \ {0}
  BY PacketAssumption, ChunksCover DEF PackedChunkSize
<1>2. n * PacketOverhead \in Nat
  BY <1>1
<1>3. ASSUME NEW k \in 0..n PROVE EndOf(start, size, k) \in Nat
  <2>1. k * PackedChunkSize \in Nat
    BY <1>1
  <2> QED  BY <1>2, <2>1 DEF EndOf
<1>4. ASSUME NEW i \in 0..(n - 1)
      PROVE  /\ EndOf(start, size, i + 1) = EndOf(start, size, i) + ChunkAt(size, i) + PacketOverhead
             /\ i < n - 1 => EndOf(start, size, i + 1) < EndOf(start, size, n)
  <2>1. /\ (i + 1) * PackedChunkSize = i * PackedChunkSize + ChunkSize + PacketOverhead
        /\ i * PackedChunkSize = i * ChunkSize + i * PacketOverhead
        /\ (i + 1) * PackedChunkSize = (i + 1) * ChunkSize + (i + 1) * PacketOverhead
        /\ i * PackedChunkSize \in Nat /\ i * ChunkSize \in Nat /\ i * PacketOverhead \in Nat
        /\ (i + 1) * ChunkSize \in Nat /\ (i + 1) * PacketOverhead \in Nat
    BY <1>1
  <2>2. i < n /\ EndOf(start, size, i) = start + i * PackedChunkSize
    BY <1>1 DEF EndOf
  <2>3. EndOf(start, size, n) = start + size + n * PacketOverhead
    BY <1>1, <1>2 DEF EndOf
  <2>4. CASE i = n - 1
    <3>1. i + 1 = n /\ n * PacketOverhead = i * PacketOverhead + PacketOverhead
      BY <1>1, <2>4
    <3>2. ChunkAt(size, i) = size - i * ChunkSize
      BY <2>4, ChunksCover
    <3> QED  BY <1>1, <1>2, <2>1, <2>2, <2>3, <2>4, <3>1, <3>2
  <2>5. CASE i < n - 1
    <3>1. EndOf(start, size, i + 1) = start + (i + 1) * PackedChunkSize
      BY <1>1, <2>5 DEF EndOf
    <3>2. ChunkAt(size, i) = ChunkSize /\ (i + 1) * ChunkSize < size
      BY <2>5, ChunksCover
    <3>3. PICK k \in Nat : n = i + 1 + k
      <4>1. n - i - 1 \in Nat
        BY <1>1, <2>5
      <4> QED  BY <1>1, <4>1
    <3>4. n * PacketOverhead = (i + 1) * PacketOverhead + k * PacketOverhead /\ k * PacketOverhead \in Nat
      BY <1>1, <3>3
    <3> QED  BY <1>1, <1>2, <2>1, <2>2, <2>3, <3>1, <3>2, <3>4
  <2> QED  BY <1>1, <2>4, <2>5
<1>5. EndOf(start, size, 0) = start /\ EndOf(start, size, n) = start + size + n * PacketOverhead
  <2>1. 0 * PackedChunkSize = 0 /\ 0 < n
    BY <1>1
  <2> QED  BY <1>1, <1>2, <2>1 DEF EndOf
<1> QED  BY <1>3, <1>4, <1>5

\* A byte: the packet it belongs to and its place there.
Bytes(size) == [salt : {"a", "b", "none"}, index : 0..(PacketCount(size) - 1), last : BOOLEAN,
                size : 0..ChunkSize, at : Nat]
PacketByte(size, salt, i, o) ==
    [salt |-> salt, index |-> i, last |-> (i = PacketCount(size) - 1), size |-> ChunkAt(size, i), at |-> o]
SaltByte(salt, o) == [salt |-> salt, index |-> 0, last |-> FALSE, size |-> 0, at |-> o]

\* What the bytes of a packet are.
LEMMA PacketBytes ==
    ASSUME NEW size \in Nat \ {0}, NEW salt \in {"a", "b", "none"}, NEW i \in 0..(PacketCount(size) - 1)
    PROVE  /\ Packet(size, salt, i) \in Seq(Bytes(size))
           /\ Len(Packet(size, salt, i)) = ChunkAt(size, i) + PacketOverhead
           /\ \A o \in 1..(ChunkAt(size, i) + PacketOverhead) :
                 Packet(size, salt, i)[o] = PacketByte(size, salt, i, o)
           /\ ChunkAt(size, i) + PacketOverhead \in Nat
<1> DEFINE l == ChunkAt(size, i) + PacketOverhead
<1>1. l \in Nat /\ ChunkAt(size, i) \in 0..ChunkSize
  BY ChunksCover, PacketAssumption
<1>2. Packet(size, salt, i) = [o \in 1..l |-> PacketByte(size, salt, i, o)]
  BY DEF Packet, PacketByte
<1> HIDE DEF l
<1>3. \A o \in 1..l : PacketByte(size, salt, i, o) \in Bytes(size)
  BY <1>1 DEF PacketByte, Bytes
<1>4. Packet(size, salt, i) \in Seq(Bytes(size)) /\ Len(Packet(size, salt, i)) = l
  BY <1>1, <1>2, <1>3
<1> QED  BY <1>1, <1>2, <1>4 DEF l

\* What the bytes of the salt are.
LEMMA SaltBytes ==
    ASSUME NEW size \in Nat \ {0}, NEW salt \in {"a", "b"}
    PROVE  /\ Salt(salt) \in Seq(Bytes(size)) /\ Len(Salt(salt)) = SaltLength
           /\ \A o \in 1..SaltLength : Salt(salt)[o] = SaltByte(salt, o)
<1>1. SaltLength \in Nat /\ PacketCount(size) \in Nat \ {0} /\ ChunkSize \in Nat
  BY ChunksCover, PacketAssumption
<1>2. Salt(salt) = [o \in 1..SaltLength |-> SaltByte(salt, o)]
  BY DEF Salt, SaltByte
<1>3. \A o \in 1..SaltLength : SaltByte(salt, o) \in Bytes(size)
  BY <1>1 DEF SaltByte, Bytes
<1> QED  BY <1>1, <1>2, <1>3

\* The packets stand one after the other from start on.
Standing(bytes, start, salt, size) ==
    /\ Len(bytes) = EndOf(start, size, PacketCount(size))
    /\ \A i \in 0..(PacketCount(size) - 1) : \A o \in 1..(ChunkAt(size, i) + PacketOverhead) :
          bytes[EndOf(start, size, i) + o] = PacketByte(size, salt, i, o)

\* A file of the old format: its packets stand from the first byte on.
LEMMA LegacyStands ==
    ASSUME NEW size \in Nat \ {0}
    PROVE  /\ WithoutSalt(size) \in Seq(Bytes(size))
           /\ Standing(WithoutSalt(size), 0, "none", size)
<1> DEFINE n == PacketCount(size)
           seqs == [i \in 1..n |-> Packet(size, "none", i - 1)]
           q == [k \in 0..n |-> EndOf(0, size, k)]
<1>1. n \in Nat \ {0} /\ \A i \in 1..n : i - 1 \in 0..(n - 1) /\ i - 1 \in 0..n
  BY ChunksCover
<1>2. seqs \in [1..n -> Seq(Bytes(size))]
  BY <1>1, PacketBytes
<1>3. \A i \in 1..n : /\ Len(seqs[i]) = ChunkAt(size, i - 1) + PacketOverhead
                      /\ \A o \in 1..Len(seqs[i]) : seqs[i][o] = PacketByte(size, "none", i - 1, o)
  BY <1>1, PacketBytes
<1>4. Ends(q, seqs, n)
  <2>1. q \in [0..n -> Nat] /\ q[0] = 0
    BY <1>1, PacketsFollow
  <2>2. ASSUME NEW i \in 1..n PROVE q[i] = q[i - 1] + Len(seqs[i])
    <3>1. /\ i - 1 \in 0..(n - 1) /\ i - 1 + 1 = i /\ q[i - 1] = EndOf(0, size, i - 1)
          /\ q[i] = EndOf(0, size, i) /\ Len(seqs[i]) = ChunkAt(size, i - 1) + PacketOverhead
      BY <1>1, <1>3
    <3>2. EndOf(0, size, i - 1 + 1) = EndOf(0, size, i - 1) + ChunkAt(size, i - 1) + PacketOverhead
      BY <3>1, PacketsFollow
    <3>3. EndOf(0, size, i - 1) \in Nat /\ ChunkAt(size, i - 1) \in Nat /\ PacketOverhead \in Nat
      <4>1. i - 1 \in 0..n /\ 0 \in Nat
        BY <1>1
      <4>2. EndOf(0, size, i - 1) \in Nat
        BY <4>1, PacketsFollow
      <4>3. ChunkAt(size, i - 1) \in 1..ChunkSize
        BY <3>1, ChunksCover
      <4> QED  BY <4>2, <4>3, PacketAssumption
    <3> HIDE DEF q, seqs
    <3> QED  BY <3>1, <3>2, <3>3
  <2> HIDE DEF q, seqs
  <2> QED  BY <2>1, <2>2 DEF Ends
<1>5. \A i \in 0..(n - 1) : i + 1 \in 1..n /\ i + 1 - 1 = i /\ q[i] = EndOf(0, size, i)
  BY <1>1
<1>6. q[n] = EndOf(0, size, n) /\ WithoutSalt(size) = FlattenSeq(seqs)
  BY <1>1 DEF WithoutSalt
<1> HIDE DEF q, seqs
<1>7. PICK s \in Seq(Bytes(size)) : Placed(s, q, seqs, n)
  <2>1. n \in Nat \ {0}
    BY <1>1
  <2> HIDE DEF n
  <2> QED  BY <1>2, <1>4, <2>1, PartsPlaces
<1>8. ASSUME NEW i \in 0..(n - 1), NEW o \in 1..(ChunkAt(size, i) + PacketOverhead)
      PROVE  s[EndOf(0, size, i) + o] = PacketByte(size, "none", i, o)
  <2>1. PICK j \in 1..n : j - 1 = i
    BY <1>5
  <2>2. o \in 1..Len(seqs[j]) /\ seqs[j][o] = PacketByte(size, "none", i, o) /\ q[i] = EndOf(0, size, i)
    BY <1>3, <1>5, <1>8, <2>1
  <2> QED  BY <1>7, <2>1, <2>2 DEF Placed
<1> QED  BY <1>6, <1>7, <1>8 DEF Standing, Placed

\* A file of the new format: its packets stand behind the salt.
LEMMA NewStands ==
    ASSUME NEW size \in Nat \ {0}, NEW salt \in {"a", "b"}
    PROVE  /\ Encrypted(size, salt) \in Seq(Bytes(size))
           /\ Standing(Encrypted(size, salt), SaltLength, salt, size)
           /\ \A o \in 1..SaltLength : Encrypted(size, salt)[o] = SaltByte(salt, o)
<1> DEFINE n == PacketCount(size)
           seqs == [i \in 1..n |-> Part(size, salt, i - 1)]
           E(k) == EndOf(SaltLength, size, k)
           q == [k \in 0..n |-> IF k = 0 THEN 0 ELSE E(k)]
<1>1. /\ n \in Nat \ {0} /\ SaltLength \in Nat /\ PacketOverhead \in Nat
      /\ \A i \in 1..n : i - 1 \in 0..(n - 1) /\ i - 1 \in 0..n
  BY ChunksCover, PacketAssumption
<1>2. ASSUME NEW i \in 1..n
      PROVE  /\ seqs[i] \in Seq(Bytes(size))
             /\ Len(seqs[i]) = (IF i = 1 THEN SaltLength ELSE 0) + (ChunkAt(size, i - 1) + PacketOverhead)
             /\ i = 1 => \A o \in 1..SaltLength : seqs[i][o] = SaltByte(salt, o)
             /\ \A o \in 1..(ChunkAt(size, i - 1) + PacketOverhead) :
                   seqs[i][(IF i = 1 THEN SaltLength ELSE 0) + o] = PacketByte(size, salt, i - 1, o)
  <2> DEFINE p == Packet(size, salt, i - 1)
             l == ChunkAt(size, i - 1) + PacketOverhead
  <2>1. /\ p \in Seq(Bytes(size)) /\ Len(p) = l /\ l \in Nat
        /\ \A o \in 1..l : p[o] = PacketByte(size, salt, i - 1, o)
    BY <1>1, PacketBytes
  <2>2. CASE i # 1
    <3>1. seqs[i] = p
      BY <2>2 DEF Part
    <3> HIDE DEF seqs, p, l
    <3>2. \A o \in 1..l : 0 + o = o
      OBVIOUS
    <3> QED  BY <2>1, <2>2, <3>1, <3>2 DEF l
  <2>3. CASE i = 1
    <3>1. seqs[i] = Salt(salt) \o p
      BY <2>3 DEF Part
    <3> HIDE DEF seqs, p, l
    <3>2. PICK s \in Seq(Bytes(size)) : /\ s = Salt(salt) /\ Len(s) = SaltLength
                                        /\ \A o \in 1..SaltLength : s[o] = SaltByte(salt, o)
      BY SaltBytes
    <3>3. s \o p \in Seq(Bytes(size)) /\ Len(s \o p) = SaltLength + l
      BY <2>1, <3>2
    <3>4. \A x \in 1..(SaltLength + l) : (s \o p)[x] = IF x <= SaltLength THEN s[x] ELSE p[x - SaltLength]
      BY <2>1, <3>2, ConcatProperties
    <3>5. \A o \in 1..SaltLength : (s \o p)[o] = SaltByte(salt, o)
      <4>1. \A o \in 1..SaltLength : o \in 1..(SaltLength + l) /\ o <= SaltLength
        BY <1>1, <2>1
      <4> QED  BY <3>2, <3>4, <4>1
    <3>6. \A o \in 1..l : (s \o p)[SaltLength + o] = PacketByte(size, salt, i - 1, o)
      <4>1. \A o \in 1..l : /\ SaltLength + o \in 1..(SaltLength + l) /\ ~(SaltLength + o <= SaltLength)
                            /\ SaltLength + o - SaltLength = o
        BY <1>1, <2>1
      <4>2. ASSUME NEW o \in 1..l
            PROVE  (s \o p)[SaltLength + o] = PacketByte(size, salt, i - 1, o)
        <5>1. PICK x \in 1..(SaltLength + l) : x = SaltLength + o
          BY <4>1
        <5>2. ~(x <= SaltLength) /\ x - SaltLength = o
          BY <1>1, <2>1, <5>1
        <5>3. (s \o p)[x] = p[o]
          BY <3>4, <5>2
        <5> QED  BY <2>1, <5>1, <5>3
      <4> QED  BY <4>2
    <3> QED  BY <2>3, <3>1, <3>2, <3>3, <3>5, <3>6 DEF l
  <2> QED  BY <2>2, <2>3
<1>3. seqs \in [1..n -> Seq(Bytes(size))]
  <2>1. seqs = [i \in 1..n |-> seqs[i]]
    OBVIOUS
  <2> HIDE DEF seqs
  <2> QED  BY <1>2, <2>1
<1>4. Ends(q, seqs, n)
  <2>1. q \in [0..n -> Nat] /\ q[0] = 0
    <3>1. \A k \in 0..n : E(k) \in Nat
      BY <1>1, PacketsFollow
    <3> HIDE DEF E
    <3> QED  BY <1>1, <3>1
  <2>2. ASSUME NEW i \in 1..n PROVE q[i] = q[i - 1] + Len(seqs[i])
    <3>1. /\ i - 1 \in 0..(n - 1) /\ i - 1 + 1 = i /\ i # 0 /\ i \in 0..n /\ i - 1 \in 0..n
      BY <1>1
    <3>2. q[i] = E(i) /\ q[i - 1] = IF i = 1 THEN 0 ELSE E(i - 1)
      BY <3>1
    <3>3. /\ EndOf(SaltLength, size, i - 1 + 1)
               = EndOf(SaltLength, size, i - 1) + ChunkAt(size, i - 1) + PacketOverhead
          /\ EndOf(SaltLength, size, i - 1) \in Nat /\ ChunkAt(size, i - 1) \in Nat
          /\ EndOf(SaltLength, size, 0) = SaltLength
      <4>1. /\ EndOf(SaltLength, size, i - 1 + 1)
                 = EndOf(SaltLength, size, i - 1) + ChunkAt(size, i - 1) + PacketOverhead
            /\ EndOf(SaltLength, size, 0) = SaltLength
        BY <1>1, <3>1, PacketsFollow
      <4>2. EndOf(SaltLength, size, i - 1) \in Nat
        BY <1>1, <3>1, PacketsFollow
      <4>3. ChunkAt(size, i - 1) \in 1..ChunkSize
        BY <3>1, ChunksCover
      <4> QED  BY <4>1, <4>2, <4>3, PacketAssumption
    <3>4. Len(seqs[i]) = (IF i = 1 THEN SaltLength ELSE 0) + (ChunkAt(size, i - 1) + PacketOverhead)
      BY <1>2
    <3> HIDE DEF q, seqs
    <3>5. CASE i = 1
      BY <1>1, <3>1, <3>2, <3>3, <3>4, <3>5
    <3>6. CASE i # 1
      BY <1>1, <3>1, <3>2, <3>3, <3>4, <3>6
    <3> QED  BY <3>5, <3>6
  <2> HIDE DEF q, seqs
  <2> QED  BY <2>1, <2>2 DEF Ends
<1>5. /\ q[n] = E(n) /\ q[0] = 0 /\ Encrypted(size, salt) = FlattenSeq(seqs)
      /\ \A i \in 1..(n - 1) : q[i] = E(i)
  BY <1>1 DEF Encrypted
<1> HIDE DEF q, seqs
<1>6. PICK s \in Seq(Bytes(size)) : Placed(s, q, seqs, n)
  <2>1. n \in Nat \ {0}
    BY <1>1
  <2> HIDE DEF n
  <2> QED  BY <1>3, <1>4, <2>1, PartsPlaces
<1>7. ASSUME NEW i \in 0..(n - 1), NEW o \in 1..(ChunkAt(size, i) + PacketOverhead)
      PROVE  s[EndOf(SaltLength, size, i) + o] = PacketByte(size, salt, i, o)
  <2>1. PICK j \in 1..n : j - 1 = i
    <3>1. i + 1 \in 1..n /\ i + 1 - 1 = i
      BY <1>1
    <3> QED  BY <3>1
  <2> DEFINE before == IF j = 1 THEN SaltLength ELSE 0
  <2>2. ChunkAt(size, i) + PacketOverhead \in Nat
    <3>1. ChunkAt(size, i) \in 1..ChunkSize
      BY ChunksCover
    <3> QED  BY <1>1, <3>1, PacketAssumption
  <2>3. before + o \in 1..Len(seqs[j]) /\ seqs[j][before + o] = PacketByte(size, salt, i, o)
    <3>1. Len(seqs[j]) = before + (ChunkAt(size, i) + PacketOverhead)
      BY <1>2, <2>1
    <3>2. seqs[j][before + o] = PacketByte(size, salt, i, o)
      BY <1>2, <1>7, <2>1
    <3> QED  BY <1>1, <2>2, <3>1, <3>2
  <2>4. q[i] + before = EndOf(SaltLength, size, i) /\ q[i] \in Nat
    <3>1. EndOf(SaltLength, size, 0) = SaltLength /\ EndOf(SaltLength, size, i) \in Nat
      <4>1. i \in 0..n
        BY <1>1
      <4>2. EndOf(SaltLength, size, i) \in Nat
        BY <1>1, <4>1, PacketsFollow
      <4>3. EndOf(SaltLength, size, 0) = SaltLength
        BY <1>1, PacketsFollow
      <4> QED  BY <4>2, <4>3
    <3>2. CASE i = 0
      BY <1>1, <1>5, <2>1, <3>1, <3>2
    <3>3. CASE i # 0
      BY <1>1, <1>5, <2>1, <3>1, <3>3
    <3> QED  BY <3>2, <3>3
  <2>5. s[q[j - 1] + (before + o)] = seqs[j][before + o]
    BY <1>6, <2>3 DEF Placed
  <2>6. q[j - 1] + (before + o) = EndOf(SaltLength, size, i) + o
    BY <1>1, <2>1, <2>4
  <2> QED  BY <2>3, <2>5, <2>6
<1>8. ASSUME NEW o \in 1..SaltLength PROVE s[o] = SaltByte(salt, o)
  <2>1. 1 \in 1..n /\ 1 - 1 = 0 /\ ChunkAt(size, 0) \in Nat
    BY <1>1, ChunksCover
  <2>2. o \in 1..Len(seqs[1]) /\ seqs[1][o] = SaltByte(salt, o)
    BY <1>1, <1>2, <2>1
  <2>3. s[q[1 - 1] + o] = seqs[1][o]
    BY <1>6, <2>1, <2>2 DEF Placed
  <2> QED  BY <1>5, <2>1, <2>2, <2>3
<1> QED  BY <1>5, <1>6, <1>7, <1>8 DEF Standing, Placed

(***************************************************************************)
(* The object stored: what every one of them holds.                        *)
(***************************************************************************)

\* The bytes of the new format: what a packet says of being the last one is true.
SaltedBytes(size) == {b \in Bytes(size) : /\ b.salt \in {"a", "b"}
                                          /\ b.size > 0 => (b.last <=> b.index = PacketCount(size) - 1)}

\* The parts of a file are bytes of it.
LEMMA PartBytes ==
    ASSUME NEW size \in Nat \ {0}, NEW salt \in {"a", "b"}, NEW i \in 0..(PacketCount(size) - 1)
    PROVE  Part(size, salt, i) \in Seq(SaltedBytes(size)) /\ Len(Part(size, salt, i)) > PacketOverhead
<1> DEFINE n == PacketCount(size)
           l == ChunkAt(size, i) + PacketOverhead
           p == Packet(size, salt, i)
<1>1. /\ l \in Nat /\ l > PacketOverhead /\ ChunkAt(size, i) \in 1..ChunkSize /\ PacketOverhead \in Nat
      /\ SaltLength \in Nat /\ ChunkSize \in Nat
  <2>1. ChunkAt(size, i) \in 1..ChunkSize
    BY ChunksCover
  <2> QED  BY <2>1, PacketAssumption
<1>2. n \in Nat \ {0}
  BY ChunksCover
<1>3. p = [o \in 1..l |-> PacketByte(size, salt, i, o)]
  BY DEF Packet, PacketByte
<1>4. Salt(salt) = [o \in 1..SaltLength |-> SaltByte(salt, o)]
  BY DEF Salt, SaltByte
<1>5. \A o \in 1..l : PacketByte(size, salt, i, o) \in SaltedBytes(size)
  <2> SUFFICES ASSUME NEW o \in 1..l PROVE PacketByte(size, salt, i, o) \in SaltedBytes(size)
    OBVIOUS
  <2> DEFINE b == PacketByte(size, salt, i, o)
  <2>1. b.salt = salt /\ b.index = i /\ b.last = (i = n - 1)
    BY DEF PacketByte
  <2>2. b \in Bytes(size)
    BY <1>1 DEF PacketByte, Bytes
  <2> HIDE DEF b
  <2>3. b \in SaltedBytes(size)
    BY <2>1, <2>2 DEF SaltedBytes
  <2> QED  BY <2>3 DEF b
<1>6. \A o \in 1..SaltLength : SaltByte(salt, o) \in SaltedBytes(size)
  BY <1>1, <1>2 DEF SaltByte, Bytes, SaltedBytes
<1> HIDE DEF l
<1>7. p \in Seq(SaltedBytes(size)) /\ Len(p) = l
  BY <1>1, <1>3, <1>5
<1>8. Salt(salt) \in Seq(SaltedBytes(size)) /\ Len(Salt(salt)) = SaltLength
  BY <1>1, <1>4, <1>6
<1> HIDE DEF p
<1>9. Salt(salt) \o p \in Seq(SaltedBytes(size)) /\ Len(Salt(salt) \o p) = SaltLength + l
  BY <1>7, <1>8, ConcatProperties
<1>10. Part(size, salt, i) = IF i = 0 THEN Salt(salt) \o p ELSE p
  BY DEF Part, p
<1> QED  BY <1>1, <1>7, <1>9, <1>10

\* What parts of the new format make, in any order and of any file.
LEMMA Assembled ==
    ASSUME NEW size \in Nat \ {0}, NEW m \in Nat \ {0}, NEW seqs, seqs = [i \in 1..m |-> seqs[i]],
           \A i \in 1..m : \E salt \in {"a", "b"}, j \in 0..(PacketCount(size) - 1) :
              seqs[i] = Part(size, salt, j)
    PROVE  FlattenSeq(seqs) \in Seq(SaltedBytes(size)) /\ Len(FlattenSeq(seqs)) > PacketOverhead
<1>1. \A i \in 1..m : seqs[i] \in Seq(SaltedBytes(size)) /\ Len(seqs[i]) > PacketOverhead
  BY PartBytes
<1>2. seqs \in [1..m -> Seq(SaltedBytes(size))]
  BY <1>1
<1>3. FlattenSeq(seqs) \in Seq(SaltedBytes(size)) /\ Len(FlattenSeq(seqs)) >= Len(seqs[1])
  BY <1>2, PartsLonger
<1>4. Len(FlattenSeq(seqs)) \in Nat /\ Len(seqs[1]) \in Nat /\ PacketOverhead \in Nat
  BY <1>1, <1>3, PacketAssumption
<1>5. Len(seqs[1]) > PacketOverhead
  BY <1>1
<1> QED  BY <1>3, <1>4, <1>5

\* Parts in some order.
LEMMA InOrder ==
    ASSUME NEW size \in Nat \ {0}, NEW order \in Seq(0..(PacketCount(size) - 1)), Len(order) # 0
    PROVE  LET made == FlattenSeq([i \in DOMAIN order |-> Part(size, "a", order[i])])
           IN made \in Seq(SaltedBytes(size)) /\ Len(made) > PacketOverhead
<1> DEFINE m == Len(order)
           seqs == [i \in 1..m |-> Part(size, "a", order[i])]
<1>1. m \in Nat \ {0} /\ DOMAIN order = 1..m
  BY LenProperties
<1>2. \A i \in 1..m : order[i] \in 0..(PacketCount(size) - 1)
  BY ElementOfSeq
<1>3. seqs = [i \in 1..m |-> seqs[i]]
  OBVIOUS
<1>4. \A i \in 1..m : \E salt \in {"a", "b"}, j \in 0..(PacketCount(size) - 1) :
         seqs[i] = Part(size, salt, j)
  BY <1>2
<1>5. [i \in DOMAIN order |-> Part(size, "a", order[i])] = seqs
  BY <1>1
<1>6. FlattenSeq(seqs) \in Seq(SaltedBytes(size)) /\ Len(FlattenSeq(seqs)) > PacketOverhead
  <2> HIDE DEF m, seqs
  <2> QED  BY <1>1, <1>3, <1>4, Assembled
<1> QED  BY <1>5, <1>6

\* Parts of a sequence, and one element taken out or put in.
LEMMA SubSeqIn ==
    ASSUME NEW S, NEW s \in Seq(S), NEW m \in Int, NEW k \in Int, 1 <= m, m <= k + 1, k <= Len(s)
    PROVE  SubSeq(s, m, k) \in Seq(S) /\ Len(SubSeq(s, m, k)) = k - m + 1
<1>1. \A i \in m..k : s[i] \in S
  <2>1. \A i \in m..k : i \in 1..Len(s)
    BY LenProperties
  <2> QED  BY <2>1, ElementOfSeq
<1>2. SubSeq(s, m, k) \in Seq(S) /\ Len(SubSeq(s, m, k)) = IF m <= k THEN k - m + 1 ELSE 0
  BY <1>1, SubSeqProperties
<1> QED  BY <1>2

\* What is left when one element is taken out.
LEMMA RemoveAtIn ==
    ASSUME NEW S, NEW s \in Seq(S), NEW n \in Nat, n = Len(s), NEW i \in 1..n
    PROVE  RemoveAt(s, i) \in Seq(S) /\ Len(RemoveAt(s, i)) = n - 1
<1> DEFINE a == SubSeq(s, 1, i - 1)
           b == SubSeq(s, i + 1, n)
<1>1. a \in Seq(S) /\ Len(a) = i - 1
  <2>1. i - 1 \in Int /\ 1 \in Int /\ 1 <= 1 /\ 1 <= i - 1 + 1 /\ i - 1 <= Len(s) /\ i - 1 - 1 + 1 = i - 1
    OBVIOUS
  <2>2. a \in Seq(S) /\ Len(a) = i - 1 - 1 + 1
    BY <2>1, SubSeqIn
  <2> QED  BY <2>1, <2>2
<1>2. b \in Seq(S) /\ Len(b) = n - i
  <2>1. i + 1 \in Int /\ n \in Int /\ 1 <= i + 1 /\ i + 1 <= n + 1 /\ n <= Len(s) /\ n - (i + 1) + 1 = n - i
    OBVIOUS
  <2>2. b \in Seq(S) /\ Len(b) = n - (i + 1) + 1
    BY <2>1, SubSeqIn
  <2> QED  BY <2>1, <2>2
<1>3. RemoveAt(s, i) = a \o b
  BY DEF RemoveAt
<1> HIDE DEF a, b
<1>4. a \o b \in Seq(S) /\ Len(a \o b) = Len(a) + Len(b)
  BY <1>1, <1>2, ConcatProperties
<1> QED  BY <1>1, <1>2, <1>3, <1>4

\* What there is when one element is put in.
LEMMA InsertAtIn ==
    ASSUME NEW S, NEW s \in Seq(S), NEW n \in Nat, n = Len(s), NEW i \in 1..n, NEW e \in S
    PROVE  InsertAt(s, i, e) \in Seq(S) /\ Len(InsertAt(s, i, e)) = n + 1
<1> DEFINE a == SubSeq(s, 1, i - 1)
           b == SubSeq(s, i, n)
           c == <<e>>
<1>1. a \in Seq(S) /\ Len(a) = i - 1
  <2>1. i - 1 \in Int /\ 1 \in Int /\ 1 <= 1 /\ 1 <= i - 1 + 1 /\ i - 1 <= Len(s) /\ i - 1 - 1 + 1 = i - 1
    OBVIOUS
  <2>2. a \in Seq(S) /\ Len(a) = i - 1 - 1 + 1
    BY <2>1, SubSeqIn
  <2> QED  BY <2>1, <2>2
<1>2. b \in Seq(S) /\ Len(b) = n - i + 1
  <2>1. i \in Int /\ n \in Int /\ 1 <= i /\ i <= n + 1 /\ n <= Len(s)
    OBVIOUS
  <2> QED  BY <2>1, SubSeqIn
<1>3. c \in Seq(S) /\ Len(c) = 1
  OBVIOUS
<1>4. InsertAt(s, i, e) = a \o c \o b
  BY DEF InsertAt
<1> HIDE DEF a, b, c
<1>5. a \o c \in Seq(S) /\ Len(a \o c) = Len(a) + Len(c)
  BY <1>1, <1>3, ConcatProperties
<1>6. a \o c \o b \in Seq(S) /\ Len(a \o c \o b) = Len(a \o c) + Len(b)
  BY <1>2, <1>5, ConcatProperties
<1> QED  BY <1>1, <1>2, <1>3, <1>4, <1>5, <1>6

\* Every object of the new format is made of parts.
LEMMA ObjectBytes ==
    ASSUME NEW size \in Nat \ {0}, NEW bytes \in {Encrypted(size, "a")} \cup Misassembled(size)
    PROVE  bytes \in Seq(SaltedBytes(size)) /\ Len(bytes) > PacketOverhead
<1> DEFINE n == PacketCount(size)
           all == [i \in 1..n |-> i - 1]
           From(order) == FlattenSeq([i \in DOMAIN order |-> Part(size, "a", order[i])])
           Good(b) == b \in Seq(SaltedBytes(size)) /\ Len(b) > PacketOverhead
           P == 0..(n - 1)
<1>1. n \in Nat \ {0} /\ \A i \in 1..n : i - 1 \in P
  BY ChunksCover
<1> HIDE DEF n
<1>2. all \in Seq(P) /\ Len(all) = n
  BY <1>1
<1>3. ASSUME NEW order \in Seq(P), Len(order) # 0 PROVE Good(From(order))
  BY <1>3, InOrder DEF n
<1> HIDE DEF P
<1>4. CASE bytes = Encrypted(size, "a")
  <2>1. Encrypted(size, "a") = FlattenSeq([i \in 1..n |-> Part(size, "a", all[i])])
    BY DEF Encrypted, n
  <2>2. DOMAIN all = 1..n
    OBVIOUS
  <2>3. bytes = From(all)
    BY <1>4, <2>1, <2>2
  <2> HIDE DEF all, From
  <2> QED  BY <1>1, <1>2, <1>3, <2>3
<1>5. CASE \E i \in (IF n = 1 THEN {} ELSE 1..n) : bytes = From(RemoveAt(all, i))
  <2>1. PICK i \in 1..n : n # 1 /\ bytes = From(RemoveAt(all, i))
    BY <1>5
  <2> HIDE DEF all, From
  <2>2. RemoveAt(all, i) \in Seq(P) /\ Len(RemoveAt(all, i)) = n - 1 /\ n - 1 # 0
    BY <1>1, <1>2, <2>1, RemoveAtIn
  <2> QED  BY <1>3, <2>1, <2>2
<1>6. CASE \E i \in 1..n : bytes = From(InsertAt(all, i, all[i]))
  <2>1. PICK i \in 1..n : bytes = From(InsertAt(all, i, all[i]))
    BY <1>6
  <2> HIDE DEF all, From
  <2>2. all[i] \in P
    BY <1>2
  <2>3. InsertAt(all, i, all[i]) \in Seq(P) /\ Len(InsertAt(all, i, all[i])) = n + 1 /\ n + 1 # 0
    BY <1>1, <1>2, <2>2, InsertAtIn
  <2> QED  BY <1>3, <2>1, <2>3
<1>7. CASE \E i, j \in 1..n : bytes = From([all EXCEPT ![i] = all[j], ![j] = all[i]])
  <2>1. PICK i \in 1..n, j \in 1..n : bytes = From([all EXCEPT ![i] = all[j], ![j] = all[i]])
    BY <1>7
  <2> HIDE DEF all, From
  <2>2. all[i] \in P /\ all[j] \in P
    BY <1>2
  <2>3. PICK s \in Seq(P) : s = [all EXCEPT ![i] = all[j]] /\ Len(s) = n
    <3>1. i \in 1..Len(all)
      BY <1>2
    <3>2. [all EXCEPT ![i] = all[j]] \in Seq(P) /\ Len([all EXCEPT ![i] = all[j]]) = Len(all)
      BY <1>2, <2>2, <3>1, ExceptSeq
    <3> QED  BY <1>2, <3>2
  <2>4. [s EXCEPT ![j] = all[i]] \in Seq(P) /\ Len([s EXCEPT ![j] = all[i]]) = n
    BY <2>2, <2>3, ExceptSeq
  <2> QED  BY <1>1, <1>3, <2>1, <2>3, <2>4
<1>8. CASE \E j \in 1..n : bytes = FlattenSeq([i \in 1..n |-> Part(size, IF i = j THEN "b" ELSE "a", i - 1)])
  <2>1. PICK j \in 1..n :
            bytes = FlattenSeq([i \in 1..n |-> Part(size, IF i = j THEN "b" ELSE "a", i - 1)])
    BY <1>8
  <2> DEFINE seqs == [i \in 1..n |-> Part(size, IF i = j THEN "b" ELSE "a", i - 1)]
  <2>2. seqs = [i \in 1..n |-> seqs[i]]
    OBVIOUS
  <2>3. \A i \in 1..n : \E salt \in {"a", "b"}, k \in 0..(n - 1) : seqs[i] = Part(size, salt, k)
    BY <1>1 DEF P
  <2> HIDE DEF seqs
  <2>4. bytes = FlattenSeq(seqs)
    BY <2>1 DEF seqs
  <2> QED  BY <1>1, <2>2, <2>3, <2>4, Assembled DEF n
<1>9. \/ bytes = Encrypted(size, "a")
      \/ \E i \in (IF n = 1 THEN {} ELSE 1..n) : bytes = From(RemoveAt(all, i))
      \/ \E i \in 1..n : bytes = From(InsertAt(all, i, all[i]))
      \/ \E i, j \in 1..n : bytes = From([all EXCEPT ![i] = all[j], ![j] = all[i]])
      \/ \E j \in 1..n : bytes = FlattenSeq([i \in 1..n |-> Part(size, IF i = j THEN "b" ELSE "a", i - 1)])
  <2> DEFINE A == {From(RemoveAt(all, i)) : i \in (IF n = 1 THEN {} ELSE 1..n)}
             B == {From(InsertAt(all, i, all[i])) : i \in 1..n}
             C == {From([all EXCEPT ![i] = all[j], ![j] = all[i]]) : i, j \in 1..n}
             D == {FlattenSeq([i \in 1..n |-> Part(size, IF i = j THEN "b" ELSE "a", i - 1)]) : j \in 1..n}
  <2>1. Misassembled(size) = A \cup B \cup C \cup D
    BY DEF Misassembled, n
  <2> HIDE DEF all, From
  <2>2. bytes \in A => \E i \in (IF n = 1 THEN {} ELSE 1..n) : bytes = From(RemoveAt(all, i))
    OBVIOUS
  <2>3. bytes \in B => \E i \in 1..n : bytes = From(InsertAt(all, i, all[i]))
    OBVIOUS
  <2>4. bytes \in C => \E i, j \in 1..n : bytes = From([all EXCEPT ![i] = all[j], ![j] = all[i]])
    OBVIOUS
  <2>5. bytes \in D =>
           \E j \in 1..n : bytes = FlattenSeq([i \in 1..n |-> Part(size, IF i = j THEN "b" ELSE "a", i - 1)])
    OBVIOUS
  <2> HIDE DEF A, B, C, D
  <2>6. bytes = Encrypted(size, "a") \/ bytes \in A \/ bytes \in B \/ bytes \in C \/ bytes \in D
    BY <2>1
  <2> QED  BY <2>2, <2>3, <2>4, <2>5, <2>6
<1> HIDE DEF all, From, Good
<1> QED  BY <1>4, <1>5, <1>6, <1>7, <1>8, <1>9 DEF Good

\* How many pieces of c bytes hold a bytes.
LEMMA Ceiling ==
    ASSUME NEW a \in Nat \ {0}, NEW c \in Nat \ {0}, NEW m, m = (a + c - 1) \div c
    PROVE  m \in Nat \ {0} /\ (m - 1) * c < a /\ a <= m * c
<1> DEFINE whole == (a - 1) \div c
           rest == ((a - 1) % c) + 1
<1>1. whole \in Nat /\ rest \in 1..c /\ a = whole * c + rest
  BY Division
<1>2. m = whole + 1
  <2>1. a + c - 1 = (whole + 1) * c + (rest - 1)
    BY <1>1
  <2> HIDE DEF whole, rest
  <2>2. rest - 1 \in Nat /\ rest - 1 < c /\ whole + 1 \in Nat
    BY <1>1
  <2> QED  BY <2>1, <2>2, DivisionIs
<1> HIDE DEF whole, rest
<1>3. m - 1 = whole /\ m * c = whole * c + c /\ whole * c \in Nat
  BY <1>1, <1>2
<1> QED  BY <1>1, <1>2, <1>3

\* The bytes from..to of an object are answered with the part that ends with byte last.
Answered(bytes, from, to, last) ==
    RangeAnswer(ParsedRange(from, to), bytes)
      = [status |-> 206, body |-> SubSeq(bytes, from + 1, last), total |-> Len(bytes)]

\* The part of an object a window of the download asks for.
LEMMA RangeServed ==
    ASSUME NEW S, NEW bytes \in Seq(S), NEW from \in Nat, NEW to \in Nat, from <= to, from < Len(bytes),
           NEW last, last = Least(to + 1, Len(bytes))
    PROVE  Answered(bytes, from, to, last)
<1> DEFINE l == Len(bytes)
           count == to - from + 1
           range == [offset |-> from, length |-> count]
<1>1. l \in Nat /\ last \in Nat /\ from < last /\ count \in Nat
  BY LenProperties DEF Least
<1>2. ParsedRange(from, to) = range
  <2>1. from # Absent /\ to # Absent /\ to >= from
    BY DEF Absent
  <2> QED  BY <2>1 DEF ParsedRange
<1>3. range # NoRange
  <2>1. "offset" \in DOMAIN range /\ "offset" \notin DOMAIN NoRange
    BY DEF NoRange
  <2> QED  BY <2>1
<1>4. /\ "suffix" \notin DOMAIN range /\ "length" \in DOMAIN range
      /\ range.offset = from /\ range.length = count
  OBVIOUS
<1> HIDE DEF range, l
<1>5. ~Unsatisfiable(range, l)
  BY <1>1, <1>4 DEF Unsatisfiable, l
<1>6. Least(from, l) = from /\ Least(count, l - from) = last - from
  BY <1>1 DEF Least, l
<1>7. Served(range, l) = [offset |-> from, length |-> last - from]
  BY <1>4, <1>6 DEF Served
<1>8. last - from # 0 /\ from + (last - from) = last
  BY <1>1
<1>9. RangeResponse(range, bytes)
        = [status |-> 206, body |-> SubSeq(bytes, from + 1, last), total |-> l]
  <2> DEFINE served == Served(range, Len(bytes))
  <2>1. served.offset = from /\ served.length = last - from
    BY <1>7 DEF l
  <2> HIDE DEF served
  <2>2. served.offset + served.length = last /\ served.length # 0
    BY <1>8, <2>1
  <2>3. RangeResponse(range, bytes)
          = [status |-> 206, body |-> SubSeq(bytes, served.offset + 1, served.offset + served.length),
             total |-> l]
    BY <2>2 DEF RangeResponse, served, l
  <2> QED  BY <2>1, <2>2, <2>3
<1>10. RangeAnswer(range, bytes) = RangeResponse(range, bytes)
  BY <1>3, <1>5 DEF RangeAnswer, l
<1> QED  BY <1>2, <1>9, <1>10 DEF l, Answered

\* The windows of a download, put together, are the object (lib/download/parallelFetch.ts).
LEMMA WindowsMakeTheObject ==
    ASSUME NEW S, NEW bytes \in Seq(S), Len(bytes) # 0
    PROVE  InWindows(bytes) = bytes
<1> DEFINE l == Len(bytes)
           W == WindowSize
           first == RangeAnswer(ParsedRange(0, W - 1), bytes)
           m == (l + W - 1) \div W
<1>1. l \in Nat \ {0} /\ W \in Nat \ {0} /\ W - 1 \in Nat /\ 0 \in Nat /\ 0 <= W - 1 /\ 0 < l
      /\ W - 1 + 1 = W
  BY PacketAssumption, LenProperties
<1>2. first = [status |-> 206, body |-> SubSeq(bytes, 1, Least(W, l)), total |-> l]
  <2> DEFINE from == 0
             to == W - 1
  <2>1. from \in Nat /\ to \in Nat /\ from <= to /\ from < Len(bytes) /\ Least(W, l) = Least(to + 1, Len(bytes))
    BY <1>1
  <2>2. from + 1 = 1
    OBVIOUS
  <2> HIDE DEF from, to
  <2>3. Answered(bytes, from, to, Least(W, l))
    BY <2>1, RangeServed
  <2>4. RangeAnswer(ParsedRange(from, to), bytes)
          = [status |-> 206, body |-> SubSeq(bytes, 1, Least(W, l)), total |-> l]
    BY <2>2, <2>3 DEF Answered
  <2> QED  BY <2>4 DEF from, to
<1>3. Least(W, l) \in 1..l /\ Least(W, l) = IF l <= W THEN l ELSE W
  BY <1>1 DEF Least
<1>4. Len(SubSeq(bytes, 1, Least(W, l))) = Least(W, l)
  <2>1. Least(W, l) \in Int /\ 1 <= Least(W, l) + 1 /\ Least(W, l) <= Len(bytes) /\ 1 \in Int /\ 1 <= 1
        /\ Least(W, l) - 1 + 1 = Least(W, l)
    BY <1>1, <1>3
  <2> HIDE DEF l
  <2> QED  BY <2>1, SubSeqIn
<1>5. SubSeq(bytes, 1, l) = bytes
  BY LenProperties
<1>6. InWindows(bytes) = IF first.status # 206 \/ first.total <= Len(first.body) THEN first.body
                         ELSE first.body \o FlattenSeq([w \in 1..((first.total + W - 1) \div W - 1)
                                                           |-> WindowAnswer(bytes, w).body])
  BY DEF InWindows
<1> HIDE DEF first
<1>7. first.status = 206 /\ first.total = l /\ first.body = SubSeq(bytes, 1, Least(W, l))
  BY <1>2
<1>8. CASE l <= W
  BY <1>1, <1>3, <1>4, <1>5, <1>6, <1>7, <1>8
<1>9. CASE W < l
  <2> DEFINE seqs == [w \in 1..(m - 1) |-> WindowAnswer(bytes, w).body]
             To(w) == Least((w + 1) * W, l)
             h == [w \in 1..(m - 1) |-> SubSeq(bytes, W + 1, To(w))]
  <2>1. m \in Nat \ {0} /\ (m - 1) * W < l /\ l <= m * W
    BY <1>1, Ceiling
  <2> HIDE DEF m
  <2>2. m - 1 \in Nat \ {0}
    <3>1. m # 1
      BY <1>1, <1>9, <2>1
    <3> QED  BY <2>1, <3>1
  <2>3. ASSUME NEW w \in 1..(m - 1)
        PROVE  /\ w * W \in Nat /\ W <= w * W /\ w * W < l
               /\ (w + 1) * W = w * W + W
               /\ To(w) \in Nat /\ w * W < To(w) /\ To(w) <= l
               /\ w < m - 1 => To(w) = (w + 1) * W
               /\ w = m - 1 => To(w) = l
    <3>1. /\ w * W \in Nat /\ (w + 1) * W = w * W + W
      BY <1>1
    <3>2. PICK k \in Nat : m - 1 = w + k
      <4>1. m - 1 - w \in Nat
        BY <2>2
      <4> QED  BY <2>2, <4>1
    <3>3. (m - 1) * W = w * W + k * W /\ k * W \in Nat
      BY <1>1, <3>2
    <3>4. w * W < l
      BY <1>1, <2>1, <3>1, <3>3
    <3>5. PICK j \in Nat : w = 1 + j
      <4>1. w - 1 \in Nat
        OBVIOUS
      <4> QED  BY <4>1
    <3>6. w * W = W + j * W /\ j * W \in Nat
      BY <1>1, <3>5
    <3>7. w < m - 1 => (w + 1) * W < l
      <4>1. ASSUME w < m - 1 PROVE (w + 1) * W < l
        <5>1. PICK d \in Nat : m - 1 = (w + 1) + d
          <6>1. m - 1 - (w + 1) \in Nat
            BY <2>1, <2>2, <4>1
          <6> QED  BY <2>1, <2>2, <6>1
        <5>2. (m - 1) * W = (w + 1) * W + d * W /\ d * W \in Nat /\ (w + 1) * W \in Nat
          BY <1>1, <5>1
        <5> QED  BY <1>1, <2>1, <5>2
      <4> QED  BY <4>1
    <3>8. w = m - 1 => l <= (w + 1) * W
      BY <2>1
    <3> QED  BY <1>1, <3>1, <3>4, <3>6, <3>7, <3>8 DEF Least
  <2>4. ASSUME NEW w \in 1..(m - 1)
        PROVE  seqs[w] = SubSeq(bytes, w * W + 1, To(w))
    <3>1. /\ To(w) - 1 \in Nat /\ w * W <= To(w) - 1 /\ w * W \in Nat /\ w * W < Len(bytes)
          /\ To(w) - 1 + 1 = To(w) /\ Least(To(w), l) = To(w)
      BY <1>1, <2>3 DEF Least
    <3>2. RangeAnswer(ParsedRange(w * W, To(w) - 1), bytes)
            = [status |-> 206, body |-> SubSeq(bytes, w * W + 1, To(w)), total |-> Len(bytes)]
      <4> DEFINE from == w * W
                 to == To(w) - 1
      <4>1. /\ from \in Nat /\ to \in Nat /\ from <= to /\ from < Len(bytes)
            /\ To(w) = Least(to + 1, Len(bytes))
        BY <3>1
      <4> HIDE DEF To, from, to
      <4> DEFINE last == To(w)
      <4> HIDE DEF last
      <4>2. last = Least(to + 1, Len(bytes))
        BY <4>1 DEF last
      <4>3. Answered(bytes, from, to, last)
        BY <4>1, <4>2, RangeServed
      <4> QED  BY <4>3 DEF Answered, from, to, last
    <3>3. WindowAnswer(bytes, w) = RangeAnswer(ParsedRange(w * W, To(w) - 1), bytes)
      BY DEF WindowAnswer
    <3> HIDE DEF To
    <3>4. WindowAnswer(bytes, w).body = SubSeq(bytes, w * W + 1, To(w))
      BY <3>1, <3>2, <3>3
    <3> QED  BY <3>4
  <2>5. Joins(h, seqs, m - 1)
    <3>1. 1 \in 1..(m - 1) /\ 1 * W = W
      BY <1>1, <2>1, <2>2
    <3>2. h[1] = seqs[1]
      <4>1. seqs[1] = SubSeq(bytes, 1 * W + 1, To(1)) /\ h[1] = SubSeq(bytes, W + 1, To(1))
        BY <2>4, <3>1
      <4> QED  BY <3>1, <4>1
    <3>3. ASSUME NEW w \in 2..(m - 1) PROVE h[w] = h[w - 1] \o seqs[w]
      <4>1. w \in 1..(m - 1) /\ w - 1 \in 1..(m - 1) /\ w - 1 < m - 1 /\ w - 1 + 1 = w
        BY <2>1, <2>2
      <4>2. To(w - 1) = w * W /\ To(w) \in Nat /\ w * W < To(w) /\ To(w) <= l /\ w * W \in Nat /\ W <= w * W
        BY <2>3, <4>1
      <4>3. SubSeq(bytes, W + 1, w * W) \o SubSeq(bytes, w * W + 1, To(w)) = SubSeq(bytes, W + 1, To(w))
        <5> DEFINE a == W + 1
                   b == w * W
                   c == To(w)
        <5> HIDE DEF To
        <5>1. a \in 1..(Len(bytes) + 1) /\ b \in (a - 1)..Len(bytes) /\ c \in b..Len(bytes)
          BY <1>1, <4>2
        <5> HIDE DEF a, b, c, l
        <5>2. SubSeq(bytes, a, b) \o SubSeq(bytes, b + 1, c) = SubSeq(bytes, a, c)
          BY <5>1, ConcatAdjacentSubSeq
        <5> QED  BY <5>2 DEF a, b, c
      <4>4. h[w] = SubSeq(bytes, W + 1, To(w)) /\ h[w - 1] = SubSeq(bytes, W + 1, To(w - 1))
        BY <4>1
      <4>5. seqs[w] = SubSeq(bytes, w * W + 1, To(w))
        BY <2>4, <4>1
      <4> HIDE DEF To, h, seqs
      <4> QED  BY <4>2, <4>3, <4>4, <4>5
    <3> HIDE DEF h, seqs
    <3> QED  BY <3>2, <3>3 DEF Joins
  <2>6. FlattenSeq(seqs) = SubSeq(bytes, W + 1, l)
    <3>1. seqs = [w \in 1..(m - 1) |-> seqs[w]]
      OBVIOUS
    <3>2. m - 1 \in 1..(m - 1) /\ To(m - 1) = l
      <4>1. m - 1 \in 1..(m - 1)
        BY <2>1, <2>2
      <4> HIDE DEF To
      <4> QED  BY <2>3, <4>1
    <3>3. h[m - 1] = SubSeq(bytes, W + 1, l)
      BY <3>2
    <3> HIDE DEF seqs, h
    <3>4. FlattenSeq(seqs) = h[m - 1]
      BY <2>2, <2>5, <3>1, FlattenIs
    <3> QED  BY <3>3, <3>4
  <2>7. SubSeq(bytes, 1, W) \o SubSeq(bytes, W + 1, l) = SubSeq(bytes, 1, l)
    <3>1. /\ 1 \in 1..(Len(bytes) + 1) /\ W \in (1 - 1)..Len(bytes) /\ l \in W..Len(bytes)
      BY <1>1, <1>9
    <3> HIDE DEF l
    <3> QED  BY <3>1, ConcatAdjacentSubSeq
  <2>8. InWindows(bytes) = first.body \o FlattenSeq(seqs)
    <3>1. ~(first.status # 206 \/ first.total <= Len(first.body))
      BY <1>1, <1>3, <1>4, <1>7, <1>9
    <3>2. InWindows(bytes) = first.body \o FlattenSeq([w \in 1..((first.total + W - 1) \div W - 1)
                                                           |-> WindowAnswer(bytes, w).body])
      BY <1>6, <3>1
    <3>3. (first.total + W - 1) \div W - 1 = m - 1
      BY <1>7 DEF m
    <3> QED  BY <3>2, <3>3
  <2>9. first.body = SubSeq(bytes, 1, W)
    BY <1>1, <1>3, <1>7, <1>9
  <2> QED  BY <1>5, <2>6, <2>7, <2>8, <2>9
<1> QED  BY <1>1, <1>8, <1>9

(***************************************************************************)
(* The reader.                                                             *)
(***************************************************************************)

\* What packets are opened with, and where the first one stands.
Key == IF format = "unknown" THEN "none" ELSE format
Start == IF legacy THEN 0 ELSE SaltLength

\* The object is of one format and arrives as it is stored.
ObjectInv ==
    /\ fileSize \in Nat \ {0} /\ legacy \in BOOLEAN
    /\ legacy => object = WithoutSalt(fileSize)
    /\ ~legacy => object \in Seq(SaltedBytes(fileSize)) /\ PlaintextSize(Len(object)) >= 0
    /\ Len(object) \in Nat /\ Len(object) > PacketOverhead
    /\ arriving = object

\* What was read; the end of it was seen unless it was cut.
NetworkInv ==
    /\ received \in 0..Len(object) /\ consumed \in 0..received
    /\ streamDone \in BOOLEAN /\ cut \in BOOLEAN
    /\ ~streamDone => ~cut
    /\ streamDone /\ ~cut => received = Len(object)

\* What was handed on: the packets before index, all opened with the key.
HandedOn ==
    /\ format \in {"unknown", "none", "a", "b"}
    /\ reader \in {"salt", "first", "rest", "end", "ok", "failed", "cancelled"}
    /\ index \in 0..PacketCount(fileSize) /\ total \in Nat
    /\ decrypted \in Seq([salt : {"a", "b", "none"}, index : Nat]) /\ Len(decrypted) = index
    /\ \A i \in 1..index : decrypted[i] = [salt |-> Key, index |-> i - 1]
    /\ reader \in {"salt", "first"} => format = "unknown" /\ index = 0 /\ consumed = 0
    /\ reader = "first" => received >= SaltLength
    /\ legacy => Key = "none"
    /\ ~legacy /\ Key = "none" => index = 0 /\ consumed = 0
    /\ index = 0 => total = 0 /\ Key = "none"

\* In an object that is as it was made the reader stands between packets index - 1 and index.
Aligned ==
    /\ Intact /\ (legacy \/ index # 0) =>
          /\ consumed = EndOf(Start, fileSize, index)
          /\ total = Least(index * ChunkSize, fileSize)
    /\ Intact /\ ~legacy /\ Key # "none" => Key = "a"

\* Where the reader may end.
Finished ==
    /\ ~legacy /\ reader = "rest" /\ Available = 0 => index = PacketCount(fileSize)
    /\ ~legacy /\ reader = "end" => index = PacketCount(fileSize)
    /\ Intact /\ ~cut /\ ~legacy /\ reader = "rest" => index # 0
    /\ Intact /\ ~cut /\ reader = "end" => index = PacketCount(fileSize)
    /\ reader = "ok" => index = PacketCount(fileSize)
    /\ reader = "failed" => ~Intact \/ cut

PacketInv == ObjectInv /\ NetworkInv /\ HandedOn /\ Aligned /\ Finished

\* Nothing stands behind the last packet.
LEMMA EndsBefore ==
    ASSUME NEW size \in Nat \ {0}, NEW start \in Nat, NEW i \in 0..(PacketCount(size) - 1)
    PROVE  /\ ChunkAt(size, i) \in 1..ChunkSize /\ EndOf(start, size, i) \in Nat
           /\ EndOf(start, size, i) + ChunkAt(size, i) + PacketOverhead
                <= EndOf(start, size, PacketCount(size))
           /\ i < PacketCount(size) - 1 =>
                 /\ ChunkAt(size, i) = ChunkSize
                 /\ EndOf(start, size, i) + ChunkAt(size, i) + PacketOverhead
                      < EndOf(start, size, PacketCount(size))
           /\ i = PacketCount(size) - 1 =>
                 EndOf(start, size, i) + ChunkAt(size, i) + PacketOverhead
                   = EndOf(start, size, PacketCount(size))
<1> DEFINE n == PacketCount(size)
<1>1. n \in Nat \ {0} /\ ChunkAt(size, i) \in 1..ChunkSize /\ (i < n - 1 => ChunkAt(size, i) = ChunkSize)
  BY ChunksCover
<1>2. i \in 0..n /\ n \in 0..n /\ (i = n - 1 => i + 1 = n) /\ (i < n - 1 \/ i = n - 1)
  BY <1>1
<1>3. EndOf(start, size, i) \in Nat /\ EndOf(start, size, n) \in Nat
  BY <1>2, PacketsFollow
<1>4. /\ EndOf(start, size, i + 1) = EndOf(start, size, i) + ChunkAt(size, i) + PacketOverhead
      /\ i < n - 1 => EndOf(start, size, i + 1) < EndOf(start, size, n)
  BY PacketsFollow
<1> HIDE DEF n
<1>5. EndOf(start, size, i) + ChunkAt(size, i) + PacketOverhead \in Nat
  BY <1>1, <1>3, PacketAssumption
<1>6. CASE i = n - 1
  <2>1. EndOf(start, size, i + 1) = EndOf(start, size, n)
    BY <1>2, <1>6
  <2> QED  BY <1>1, <1>3, <1>4, <1>5, <1>6, <2>1 DEF n
<1>7. CASE i < n - 1
  BY <1>1, <1>3, <1>4, <1>5, <1>7 DEF n
<1> QED  BY <1>2, <1>6, <1>7

\* The plaintext of the packets so far.
LEMMA TotalGrows ==
    ASSUME NEW size \in Nat \ {0}, NEW i \in 0..(PacketCount(size) - 1)
    PROVE  /\ Least(i * ChunkSize, size) + ChunkAt(size, i) = Least((i + 1) * ChunkSize, size)
           /\ Least(i * ChunkSize, size) < size
<1>1. /\ PacketCount(size) \in Nat \ {0} /\ ChunkSize \in Nat \ {0}
      /\ i < PacketCount(size) - 1 => ChunkAt(size, i) = ChunkSize /\ (i + 1) * ChunkSize < size
      /\ i = PacketCount(size) - 1 => ChunkAt(size, i) = size - i * ChunkSize /\ size <= (i + 1) * ChunkSize
      /\ i * ChunkSize < size
  BY ChunksCover, PacketAssumption
<1>2. i * ChunkSize \in Nat /\ (i + 1) * ChunkSize = i * ChunkSize + ChunkSize
  BY <1>1
<1>3. Least(i * ChunkSize, size) = i * ChunkSize
  BY <1>1, <1>2 DEF Least
<1>4. CASE i < PacketCount(size) - 1
  BY <1>1, <1>2, <1>3, <1>4 DEF Least
<1>5. CASE i = PacketCount(size) - 1
  <2>1. Least((i + 1) * ChunkSize, size) = size
    BY <1>1, <1>2, <1>5 DEF Least
  <2> QED  BY <1>1, <1>2, <1>3, <1>5, <2>1
<1> QED  BY <1>1, <1>4, <1>5

\* Where enough of the bytes is there, or all that are left, the reader finds the next packet's bounds.
LEMMA BoundsFit ==
    ASSUME NEW size \in Nat \ {0}, NEW start \in Nat, NEW i \in 0..PacketCount(size), NEW avail \in Nat,
           EndOf(start, size, i) + avail <= EndOf(start, size, PacketCount(size)),
           avail > PackedChunkSize \/ EndOf(start, size, i) + avail = EndOf(start, size, PacketCount(size))
    PROVE  IF avail = 0 THEN i = PacketCount(size)
           ELSE /\ i \in 0..(PacketCount(size) - 1)
                /\ ChunkAt(size, i) + PacketOverhead = IF avail > PackedChunkSize THEN PackedChunkSize ELSE avail
                /\ (avail <= PackedChunkSize) <=> (i = PacketCount(size) - 1)
<1> DEFINE n == PacketCount(size)
           e == EndOf(start, size, i)
           l == EndOf(start, size, n)
<1>1. /\ n \in Nat \ {0} /\ ChunkSize \in Nat \ {0} /\ PacketOverhead \in Nat \ {0}
      /\ PackedChunkSize = ChunkSize + PacketOverhead
  BY ChunksCover, PacketAssumption DEF PackedChunkSize
<1>2. e \in Nat /\ l \in Nat
  <2>1. n \in 0..n
    BY <1>1
  <2> QED  BY <2>1, PacketsFollow
<1>3. CASE i = n
  <2>1. e = l
    BY <1>3
  <2> HIDE DEF e, l
  <2>2. e + avail <= l
    BY DEF e, l
  <2>3. avail = 0
    BY <1>2, <2>1, <2>2
  <2> QED  BY <1>3, <2>3
<1>4. CASE i # n
  <2>1. i \in 0..(n - 1)
    BY <1>1, <1>4
  <2> DEFINE c == ChunkAt(size, i)
  <2>2. /\ c \in 1..ChunkSize /\ e + c + PacketOverhead <= l
        /\ i < n - 1 => c = ChunkSize /\ e + c + PacketOverhead < l
        /\ i = n - 1 => e + c + PacketOverhead = l
    BY <2>1, EndsBefore
  <2>3. e + avail <= l /\ (avail > PackedChunkSize \/ e + avail = l)
    OBVIOUS
  <2>4. i < n - 1 \/ i = n - 1
    BY <1>1, <2>1
  <2> HIDE DEF e, l, c, n
  <2>5. CASE i < n - 1
    <3>1. avail > PackedChunkSize /\ c + PacketOverhead = PackedChunkSize /\ avail # 0 /\ i # n - 1
      BY <1>1, <1>2, <2>1, <2>2, <2>3, <2>5
    <3> QED  BY <1>1, <2>1, <3>1 DEF n, c
  <2>6. CASE i = n - 1
    <3>1. avail <= PackedChunkSize /\ c + PacketOverhead = avail /\ avail # 0
      BY <1>1, <1>2, <2>1, <2>2, <2>3, <2>6
    <3> QED  BY <1>1, <2>1, <2>6, <3>1 DEF n, c
  <2> QED  BY <2>4, <2>5, <2>6
<1> QED  BY <1>3, <1>4

\* What the reader looks at are the bytes that wait behind those it dropped.
LEMMA PeekIs ==
    ASSUME NEW S, arriving \in Seq(S), consumed \in Nat, NEW offset \in Nat, NEW size \in Nat,
           consumed + offset + size <= Len(arriving)
    PROVE  /\ Peek(offset, size) \in Seq(S) /\ Len(Peek(offset, size)) = size
           /\ DOMAIN Peek(offset, size) = 1..size
           /\ \A o \in 1..size : /\ Peek(offset, size)[o] = arriving[consumed + offset + o]
                                 /\ Peek(offset, size)[o] \in S
<1> DEFINE m == consumed + offset + 1
           k == consumed + offset + size
           p == SubSeq(arriving, m, k)
<1>1. m \in Int /\ k \in Int /\ 1 <= m /\ m <= k + 1 /\ k <= Len(arriving) /\ k - m + 1 = size
  OBVIOUS
<1>2. \A i \in m..k : arriving[i] \in S
  <2>1. \A i \in m..k : i \in 1..Len(arriving)
    BY LenProperties
  <2> QED  BY <2>1, ElementOfSeq
<1>3. \A o \in 1..size : m + o - 1 = consumed + offset + o
  OBVIOUS
<1>4. p = Peek(offset, size)
  BY DEF Peek
<1> HIDE DEF m, k
<1>5. p \in Seq(S) /\ Len(p) = size
  BY <1>1, SubSeqIn
<1>6. \A o \in 1..size : p[o] = arriving[m + o - 1]
  BY <1>1, <1>2, SubSeqProperties
<1> HIDE DEF p
<1>7. DOMAIN p = 1..size /\ \A o \in 1..size : p[o] \in S
  BY <1>5, LenProperties, ElementOfSeq
<1> QED  BY <1>3, <1>4, <1>5, <1>6, <1>7

\* A packet opens where it was made to stand.
LEMMA PacketOpens ==
    ASSUME NEW size \in Nat \ {0}, NEW salt \in {"a", "b", "none"}, index \in 0..(PacketCount(size) - 1),
           NEW bytes, DOMAIN bytes = 1..(ChunkAt(size, index) + PacketOverhead),
           Len(bytes) = ChunkAt(size, index) + PacketOverhead,
           \A o \in 1..(ChunkAt(size, index) + PacketOverhead) : bytes[o] = PacketByte(size, salt, index, o),
           NEW bounds, bounds.isLast = (index = PacketCount(size) - 1)
    PROVE  Opens(bytes, salt, bounds)
<1> DEFINE c == ChunkAt(size, index)
<1>1. c \in Nat /\ c > 0 /\ PacketOverhead \in Nat /\ 1 \in 1..(c + PacketOverhead)
  <2>1. c \in 1..ChunkSize
    BY ChunksCover
  <2> HIDE DEF c
  <2> QED  BY <2>1, PacketAssumption
<1>2. Len(bytes) > PacketOverhead
  BY <1>1
<1>3. bytes[1] = PacketByte(size, salt, index, 1)
  BY <1>1
<1>4. /\ bytes[1].size = c /\ bytes[1].salt = salt /\ bytes[1].index = index
      /\ bytes[1].last = (index = PacketCount(size) - 1)
  BY <1>3 DEF PacketByte
<1>5. \A o \in DOMAIN bytes : bytes[o] = [bytes[1] EXCEPT !.at = o]
  BY <1>3 DEF PacketByte
<1> QED  BY <1>2, <1>4, <1>5 DEF Opens

\* An intact object holds its packets one after the other.
LEMMA IntactStands ==
    ASSUME ObjectInv, Intact
    PROVE  /\ Start \in Nat
           /\ Standing(object, Start, IF legacy THEN "none" ELSE "a", fileSize)
           /\ Len(object) = EndOf(Start, fileSize, PacketCount(fileSize))
           /\ ~legacy => \A o \in 1..SaltLength : object[o] = SaltByte("a", o)
<1>1. fileSize \in Nat \ {0} /\ legacy \in BOOLEAN /\ SaltLength \in Nat
  BY PacketAssumption DEF ObjectInv
<1>2. CASE legacy
  <2>1. object = WithoutSalt(fileSize) /\ Start = 0
    BY <1>2 DEF Intact, Start
  <2>2. Standing(WithoutSalt(fileSize), 0, "none", fileSize)
    BY <1>1, LegacyStands
  <2> QED  BY <1>2, <2>1, <2>2 DEF Standing
<1>3. CASE ~legacy
  <2>1. object = Encrypted(fileSize, "a") /\ Start = SaltLength
    BY <1>3 DEF Intact, Start
  <2>2. /\ Standing(Encrypted(fileSize, "a"), SaltLength, "a", fileSize)
        /\ \A o \in 1..SaltLength : Encrypted(fileSize, "a")[o] = SaltByte("a", o)
    BY <1>1, NewStands
  <2> QED  BY <1>1, <1>3, <2>1, <2>2 DEF Standing
<1> QED  BY <1>1, <1>2, <1>3

\* Every object is a sequence of bytes.
LEMMA ObjectIsBytes ==
    ASSUME ObjectInv
    PROVE  object \in Seq(Bytes(fileSize)) /\ (~legacy => object \in Seq(SaltedBytes(fileSize)))
<1>1. CASE legacy
  BY <1>1, LegacyStands DEF ObjectInv
<1>2. CASE ~legacy
  <2>1. object \in Seq(SaltedBytes(fileSize)) /\ SaltedBytes(fileSize) \subseteq Bytes(fileSize)
    BY <1>2 DEF ObjectInv, SaltedBytes
  <2>2. object \in Seq(Bytes(fileSize))
    <3> HIDE DEF ObjectInv
    <3>1. Len(object) \in Nat /\ object \in [1..Len(object) -> SaltedBytes(fileSize)]
      BY <2>1, LenProperties
    <3>2. object \in [1..Len(object) -> Bytes(fileSize)]
      BY <2>1, <3>1
    <3> QED  BY <3>1, <3>2
  <2> QED  BY <2>1, <2>2
<1> QED  BY <1>1, <1>2

\* The server's size of a new object, whatever it is made of: never zero when it has one.
LEMMA PlaintextIsPositive ==
    ASSUME NEW size \in Nat, size > SaltLength, PlaintextSize(size) >= 0
    PROVE  PlaintextSize(size) # 0
<1> DEFINE packets == size - SaltLength
           whole == packets \div PackedChunkSize
           rest == packets % PackedChunkSize
<1>1. /\ ChunkSize \in Nat \ {0} /\ PacketOverhead \in Nat \ {0} /\ SaltLength \in Nat
      /\ PackedChunkSize \in Nat \ {0}
  BY PacketAssumption DEF PackedChunkSize
<1>2. packets \in Nat \ {0}
  BY <1>1
<1>3. whole \in Nat /\ rest \in Nat /\ packets = whole * PackedChunkSize + rest
  <2> HIDE DEF packets
  <2> QED  BY <1>1, <1>2, Division
<1>4. PlaintextSize(size) = IF size < SaltLength \/ (rest # 0 /\ rest <= PacketOverhead) THEN 0 - 1
                            ELSE IF rest = 0 THEN whole * ChunkSize
                                 ELSE whole * ChunkSize + (rest - PacketOverhead)
  BY DEF PlaintextSize
<1> HIDE DEF packets, whole, rest
<1>5. ~(rest # 0 /\ rest <= PacketOverhead)
  BY <1>4
<1>6. CASE rest = 0
  <2>1. whole # 0
    BY <1>1, <1>2, <1>3, <1>6
  <2>2. whole * ChunkSize # 0
    BY <1>1, <1>3, <2>1
  <2> QED  BY <1>1, <1>4, <1>6, <2>2
<1>7. CASE rest # 0
  <2>1. whole * ChunkSize \in Nat
    BY <1>1, <1>3
  <2>2. rest - PacketOverhead > 0
    BY <1>1, <1>3, <1>5, <1>7
  <2> QED  BY <1>1, <1>3, <1>4, <1>5, <1>7, <2>1, <2>2
<1> QED  BY <1>6, <1>7

\* The size the reader expects of an intact object is the size of its plaintext.
LEMMA ExpectedIs ==
    ASSUME ObjectInv
    PROVE  ExpectedTotal # 0 /\ (Intact \/ legacy => ExpectedTotal = fileSize)
<1>1. fileSize \in Nat \ {0} /\ legacy \in BOOLEAN /\ SaltLength \in Nat /\ PacketOverhead \in Nat
  BY PacketAssumption DEF ObjectInv
<1>2. CASE legacy
  BY <1>1, <1>2 DEF ExpectedTotal, Expected
<1>3. CASE ~legacy
  <2>1. ExpectedTotal = PlaintextSize(Len(object)) /\ Len(object) \in Nat /\ Len(object) > SaltLength
    BY <1>1, <1>3, PacketAssumption DEF ExpectedTotal, Expected, ObjectInv
  <2>2. PlaintextSize(Len(object)) # 0
    <3>1. PlaintextSize(Len(object)) >= 0
      BY <1>3 DEF ObjectInv
    <3> QED  BY <2>1, <3>1, PlaintextIsPositive
  <2>3. ASSUME Intact PROVE ExpectedTotal = fileSize
    <3>1. Len(object) = EndOf(SaltLength, fileSize, PacketCount(fileSize))
      BY <1>3, <2>3, IntactStands DEF Start
    <3>2. Len(object) = SaltLength + fileSize + PacketCount(fileSize) * PacketOverhead
      BY <1>1, <3>1, PacketsFollow
    <3>3. Len(object) = CiphertextSize(fileSize)
      BY <1>1, <3>2 DEF CiphertextSize
    <3> QED  BY <1>1, <2>1, <3>3, SizesAgree
  <2> QED  BY <1>3, <2>1, <2>2, <2>3
<1> QED  BY <1>1, <1>2, <1>3

\* From the first state on the object is of one format and arrives as it is stored.
LEMMA PacketStarts == PacketInit => PacketInv
<1> SUFFICES ASSUME PacketInit PROVE PacketInv
  OBVIOUS
<1>1. fileSize \in Nat \ {0} /\ legacy \in BOOLEAN
  BY PacketAssumption DEF PacketInit
<1>2. PacketOverhead \in Nat /\ SaltLength \in Nat
  BY PacketAssumption
<1>3. /\ legacy => object = WithoutSalt(fileSize)
      /\ ~legacy => object \in Seq(SaltedBytes(fileSize)) /\ PlaintextSize(Len(object)) >= 0
      /\ Len(object) \in Nat /\ Len(object) > PacketOverhead
      /\ object \in Seq(Bytes(fileSize)) \cup Seq(SaltedBytes(fileSize))
  <2>1. CASE legacy
    <3>1. object = WithoutSalt(fileSize)
      BY <2>1 DEF PacketInit
    <3>2. /\ WithoutSalt(fileSize) \in Seq(Bytes(fileSize))
          /\ Len(WithoutSalt(fileSize)) = EndOf(0, fileSize, PacketCount(fileSize))
      BY <1>1, LegacyStands DEF Standing
    <3>3. Len(WithoutSalt(fileSize)) = 0 + fileSize + PacketCount(fileSize) * PacketOverhead
      BY <1>1, <3>2, PacketsFollow
    <3>4. PacketCount(fileSize) \in Nat \ {0}
      BY <1>1, ChunksCover
    <3>5. PacketCount(fileSize) * PacketOverhead >= PacketOverhead /\ PacketCount(fileSize) * PacketOverhead \in Nat
      BY <1>2, <3>4
    <3> QED  BY <1>1, <1>2, <2>1, <3>1, <3>2, <3>3, <3>5
  <2>2. CASE ~legacy
    <3>1. object \in {Encrypted(fileSize, "a")} \cup Misassembled(fileSize) /\ PlaintextSize(Len(object)) >= 0
      BY <2>2 DEF PacketInit
    <3>2. object \in Seq(SaltedBytes(fileSize)) /\ Len(object) > PacketOverhead
      BY <1>1, <3>1, ObjectBytes
    <3> QED  BY <2>2, <3>1, <3>2, LenProperties
  <2> QED  BY <1>1, <2>1, <2>2
<1>4. arriving = object
  <2>1. Len(object) # 0
    BY <1>2, <1>3
  <2>2. InWindows(object) = object
    BY <1>3, <2>1, WindowsMakeTheObject
  <2> QED  BY <2>2 DEF PacketInit
<1>5. ObjectInv
  BY <1>1, <1>3, <1>4 DEF ObjectInv
<1>6. /\ received = 0 /\ consumed = 0 /\ streamDone = FALSE /\ cut = FALSE
      /\ format = "unknown" /\ index = 0 /\ decrypted = <<>> /\ total = 0 /\ reader = "salt"
  BY DEF PacketInit
<1>7. NetworkInv
  <2>1. Len(object) \in Nat
    BY <1>3
  <2>2. 0 \in 0..Len(object) /\ 0 \in 0..0
    BY <2>1
  <2> QED  BY <1>6, <2>2 DEF NetworkInv
<1>8. PacketCount(fileSize) \in Nat \ {0}
  BY <1>1, ChunksCover
<1>9. HandedOn
  <2>1. decrypted \in Seq([salt : {"a", "b", "none"}, index : Nat]) /\ Len(decrypted) = 0
    BY <1>6
  <2> QED  BY <1>6, <1>8, <2>1 DEF HandedOn, Key
<1>10. Aligned
  <2>1. ASSUME legacy PROVE consumed = EndOf(Start, fileSize, index) /\ total = Least(index * ChunkSize, fileSize)
    <3>1. EndOf(0, fileSize, 0) = 0
      BY <1>1, PacketsFollow
    <3>2. 0 * ChunkSize = 0
      BY PacketAssumption
    <3> QED  BY <1>1, <1>6, <2>1, <3>1, <3>2 DEF Start, Least
  <2> QED  BY <1>6, <2>1 DEF Aligned, Key
<1>11. Finished
  BY <1>6 DEF Finished
<1> QED  BY <1>5, <1>7, <1>9, <1>10, <1>11 DEF PacketInv

\* The network: what the reader holds stays as it is.
LEMMA NetworkKeeps ==
    ASSUME PacketInv, NetworkInv', received' >= received, Reading, ~Filled,
           cut => cut',
           UNCHANGED <<fileSize, legacy, object, arriving, consumed, format, index, decrypted, total, reader>>
    PROVE  PacketInv'
<1>1. ObjectInv'
  BY DEF PacketInv, ObjectInv
<1>2. received \in Nat /\ received' \in Nat /\ consumed \in Nat /\ SaltLength \in Nat
  <2>1. Len(object) \in Nat /\ Len(object') = Len(object)
    BY DEF PacketInv, ObjectInv
  <2>2. received \in 0..Len(object) /\ received' \in 0..Len(object') /\ consumed \in 0..received
    BY DEF PacketInv, NetworkInv
  <2> QED  BY <2>1, <2>2, PacketAssumption
<1>3. HandedOn'
  <2>1. received >= SaltLength => received' >= SaltLength
    BY <1>2
  <2> QED  BY <2>1 DEF PacketInv, HandedOn, Key
<1>4. Aligned'
  BY DEF PacketInv, Aligned, Intact, Start, Key
<1>5. Finished'
  <2>1. ~cut' => ~cut
    BY DEF PacketInv, NetworkInv
  <2>2. Intact' = Intact
    BY DEF Intact
  <2>3. Available' = 0 => Available = 0
    <3>1. consumed <= received /\ received <= received'
      BY <1>2 DEF PacketInv, NetworkInv
    <3>2. ASSUME NEW a \in Nat, NEW b \in Nat, NEW c \in Nat, a <= b, b <= c, c - a = 0 PROVE b - a = 0
      BY <3>2
    <3>3. Available' = received' - consumed /\ Available = received - consumed
      BY DEF Available
    <3> QED  BY <1>2, <3>1, <3>2, <3>3
  <2> QED  BY <2>1, <2>2, <2>3 DEF PacketInv, Finished, Reading
<1> QED  BY <1>1, <1>3, <1>4, <1>5 DEF PacketInv

\* A piece arrives.
LEMMA ReadPieceKeeps == PacketInv /\ ReadPiece => PacketInv'
<1> SUFFICES ASSUME PacketInv, ReadPiece PROVE PacketInv'
  OBVIOUS
<1>1. PICK n \in 1..LargestPiece : received + n <= Len(arriving) /\ received' = received + n
  BY DEF ReadPiece
<1>2. ~streamDone /\ Reading /\ ~Filled
  BY DEF ReadPiece, Filled
<1>3. n \in Nat
  BY PacketAssumption
<1>4. NetworkInv'
  BY <1>1, <1>2, <1>3 DEF PacketInv, ObjectInv, NetworkInv, ReadPiece
<1>5. received' >= received
  BY <1>1, <1>3 DEF PacketInv, NetworkInv, ObjectInv
<1> QED  BY <1>2, <1>4, <1>5, NetworkKeeps DEF ReadPiece

\* The response ends.
LEMMA ReadEndKeeps == PacketInv /\ ReadEnd => PacketInv'
<1> SUFFICES ASSUME PacketInv, ReadEnd PROVE PacketInv'
  OBVIOUS
<1>1. ~streamDone /\ Reading /\ ~Filled /\ streamDone' = TRUE /\ cut' = (received < Len(object))
  BY DEF ReadEnd, Filled
<1>2. NetworkInv'
  <2>1. Len(object) \in Nat /\ received \in 0..Len(object)
    BY DEF PacketInv, ObjectInv, NetworkInv
  <2>2. ~(received < Len(object)) => received = Len(object)
    BY <2>1
  <2>3. (received < Len(object)) \in BOOLEAN
    OBVIOUS
  <2> QED  BY <1>1, <2>1, <2>2, <2>3 DEF PacketInv, NetworkInv, ReadEnd
<1>3. received' >= received /\ (cut => cut')
  BY <1>1 DEF PacketInv, NetworkInv, ObjectInv, ReadEnd
<1> QED  BY <1>1, <1>2, <1>3, NetworkKeeps DEF ReadEnd

\* A step of the reader leaves the object and the network alone.
LEMMA KeepKeeps ==
    ASSUME PacketInv, Keep
    PROVE  /\ ObjectInv' /\ Intact' = Intact /\ Start' = Start /\ ExpectedTotal' = ExpectedTotal
           /\ PacketCount(fileSize)' = PacketCount(fileSize)
           /\ consumed' \in 0..received => NetworkInv'
<1>1. UNCHANGED <<fileSize, legacy, object, arriving, received, streamDone, cut>>
  BY DEF Keep
<1>2. ObjectInv'
  BY <1>1 DEF PacketInv, ObjectInv
<1>3. Intact' = Intact /\ Start' = Start /\ ExpectedTotal' = ExpectedTotal
  BY <1>1 DEF Intact, Start, ExpectedTotal
<1>4. consumed' \in 0..received => NetworkInv'
  BY <1>1 DEF PacketInv, NetworkInv
<1> QED  BY <1>1, <1>2, <1>3, <1>4

\* The salt arrived, or fewer bytes than it has, or none.
LEMMA SaltReadKeeps == PacketInv /\ SaltRead => PacketInv'
<1> SUFFICES ASSUME PacketInv, SaltRead PROVE PacketInv'
  OBVIOUS
<1>1. /\ reader = "salt" /\ Filled /\ Keep
      /\ UNCHANGED <<fileSize, legacy, object, arriving, received, streamDone, cut>>
      /\ UNCHANGED <<consumed, format, index, decrypted, total>>
      /\ reader' = IF Available = 0 THEN (IF ExpectedTotal # 0 THEN "failed" ELSE "ok")
                   ELSE IF Available >= SaltLength THEN "first" ELSE "rest"
  BY DEF SaltRead, Keep
<1>2. ExpectedTotal # 0
  BY ExpectedIs DEF PacketInv
<1>3. /\ index = 0 /\ consumed = 0 /\ received \in 0..Len(object) /\ Len(object) \in Nat
      /\ Available = received /\ SaltLength \in Nat /\ Len(object) > SaltLength
      /\ fileSize \in Nat \ {0} /\ legacy \in BOOLEAN /\ PacketOverhead \in Nat /\ cut \in BOOLEAN
  BY <1>1, PacketAssumption DEF PacketInv, ObjectInv, NetworkInv, HandedOn, Available
<1>4. ~(Available >= SaltLength) => cut
  <2>1. Available >= SaltLength \/ streamDone
    BY <1>1 DEF Filled, Wanted
  <2> QED  BY <1>3, <2>1 DEF PacketInv, NetworkInv
<1>5. ObjectInv' /\ Intact' = Intact /\ Start' = Start /\ NetworkInv'
  <2>1. consumed' \in 0..received
    BY <1>1 DEF PacketInv, NetworkInv
  <2> QED  BY <1>1, <2>1, KeepKeeps
<1>6. reader' = IF Available = 0 THEN "failed" ELSE IF Available >= SaltLength THEN "first" ELSE "rest"
  BY <1>1, <1>2
<1>7. HandedOn'
  <2>1. reader' \in {"first", "rest", "failed"} /\ (reader' = "first" => received >= SaltLength)
    BY <1>3, <1>6
  <2> QED  BY <1>1, <1>3, <2>1 DEF PacketInv, HandedOn, Key
<1>8. Aligned'
  BY <1>1, <1>5 DEF PacketInv, Aligned, Key
<1>9. Finished'
  <2>1. Available' = Available /\ cut' = cut
    BY <1>1 DEF Available
  <2>2. CASE Available = 0
    <3>1. cut /\ reader' = "failed"
      BY <1>3, <1>4, <1>6, <2>2, PacketAssumption
    <3> QED  BY <2>1, <3>1 DEF Finished
  <2>3. CASE Available # 0 /\ Available >= SaltLength
    <3>1. reader' = "first"
      BY <1>6, <2>3
    <3> QED  BY <3>1 DEF Finished
  <2>4. CASE Available # 0 /\ ~(Available >= SaltLength)
    <3>1. cut /\ reader' = "rest"
      BY <1>4, <1>6, <2>4
    <3> QED  BY <2>1, <2>4, <3>1 DEF Finished
  <2> QED  BY <2>2, <2>3, <2>4
<1> QED  BY <1>5, <1>7, <1>8, <1>9 DEF PacketInv

\* The reader is cancelled.
LEMMA CancelReadKeeps == PacketInv /\ CancelRead => PacketInv'
<1> SUFFICES ASSUME PacketInv, CancelRead PROVE PacketInv'
  OBVIOUS
<1>1. Keep /\ UNCHANGED <<consumed, format, index, decrypted, total>> /\ reader' = "cancelled"
  BY DEF CancelRead
<1>2. ObjectInv' /\ Intact' = Intact /\ Start' = Start /\ NetworkInv'
  <2>1. consumed' \in 0..received
    BY <1>1 DEF PacketInv, NetworkInv
  <2> QED  BY <1>1, <2>1, KeepKeeps
<1>3. HandedOn'
  BY <1>1 DEF PacketInv, HandedOn, Key, Keep
<1>4. Aligned'
  BY <1>1, <1>2 DEF PacketInv, Aligned, Key, Keep
<1>5. Finished'
  BY <1>1 DEF Finished
<1> QED  BY <1>2, <1>3, <1>4, <1>5 DEF PacketInv

\* The end: what was handed on has the size expected, or the reader fails.
LEMMA CheckSizeKeeps == PacketInv /\ CheckSize => PacketInv'
<1> SUFFICES ASSUME PacketInv, CheckSize PROVE PacketInv'
  OBVIOUS
<1>1. /\ reader = "end" /\ Keep /\ UNCHANGED <<consumed, format, index, decrypted, total>>
      /\ reader' = IF total # ExpectedTotal THEN "failed" ELSE "ok"
      /\ fileSize' = fileSize /\ legacy' = legacy /\ cut' = cut
  BY DEF CheckSize, Keep
<1>2. ObjectInv' /\ Intact' = Intact /\ Start' = Start /\ NetworkInv'
  <2>1. consumed' \in 0..received
    BY <1>1 DEF PacketInv, NetworkInv
  <2> QED  BY <1>1, <2>1, KeepKeeps
<1>3. HandedOn'
  BY <1>1 DEF PacketInv, HandedOn, Key
<1>4. Aligned'
  BY <1>1, <1>2 DEF PacketInv, Aligned, Key
<1>5. fileSize \in Nat \ {0} /\ legacy \in BOOLEAN /\ cut \in BOOLEAN /\ index \in 0..PacketCount(fileSize)
  BY DEF PacketInv, ObjectInv, NetworkInv, HandedOn
<1>6. PacketCount(fileSize) \in Nat \ {0}
  BY <1>5, ChunksCover
<1>7. legacy => Intact
  BY DEF PacketInv, ObjectInv, Intact
<1>8. total # ExpectedTotal => ~Intact \/ cut
  <2>1. SUFFICES ASSUME Intact, ~cut PROVE total = ExpectedTotal
    OBVIOUS
  <2>2. index = PacketCount(fileSize)
    BY <1>1, <2>1 DEF PacketInv, Finished
  <2>3. total = Least(index * ChunkSize, fileSize)
    BY <1>6, <2>1, <2>2 DEF PacketInv, Aligned
  <2>4. fileSize <= PacketCount(fileSize) * ChunkSize
    BY <1>5, ChunksCover
  <2>5. PacketCount(fileSize) * ChunkSize \in Nat
    BY <1>6, PacketAssumption
  <2>6. Least(index * ChunkSize, fileSize) = fileSize
    BY <1>5, <2>2, <2>4, <2>5 DEF Least
  <2>7. ExpectedTotal = fileSize
    BY <2>1, ExpectedIs DEF PacketInv
  <2> QED  BY <2>3, <2>6, <2>7
<1>9. total = ExpectedTotal => index = PacketCount(fileSize)
  <2>1. CASE ~legacy
    BY <1>1, <2>1 DEF PacketInv, Finished
  <2>2. CASE legacy /\ index # PacketCount(fileSize)
    <3>1. index \in 0..(PacketCount(fileSize) - 1)
      BY <1>5, <1>6, <2>2
    <3>2. Least(index * ChunkSize, fileSize) < fileSize
      BY <1>5, <3>1, TotalGrows
    <3>3. total = Least(index * ChunkSize, fileSize)
      BY <1>7, <2>2 DEF PacketInv, Aligned
    <3>4. ExpectedTotal = fileSize
      BY <2>2, ExpectedIs DEF PacketInv
    <3> QED  BY <1>5, <3>2, <3>3, <3>4
  <2> QED  BY <1>5, <2>1, <2>2
<1>10. Finished'
  <2>1. PacketCount(fileSize)' = PacketCount(fileSize)
    BY <1>1
  <2>2. CASE total # ExpectedTotal
    <3>1. reader' = "failed"
      BY <1>1, <2>2
    <3> QED  BY <1>1, <1>2, <1>8, <2>2, <3>1 DEF Finished
  <2>3. CASE total = ExpectedTotal
    <3>1. reader' = "ok"
      BY <1>1, <2>3
    <3> QED  BY <1>1, <1>9, <2>1, <2>3, <3>1 DEF Finished
  <2> QED  BY <2>2, <2>3
<1> QED  BY <1>2, <1>3, <1>4, <1>10 DEF PacketInv

\* A packet that opens: what is known of it, and of where it stood.
LEMMA Opened ==
    ASSUME PacketInv, NEW offset \in Nat, NEW s \in Nat \ {0}, consumed + offset + s <= received,
           NEW key, NEW bounds, NEW bytes, bytes = Peek(offset, s), Opens(bytes, key, bounds)
    PROVE  /\ bytes[1].size \in Nat /\ bytes[1].size > 0 /\ s = bytes[1].size + PacketOverhead
           /\ bytes[1].index \in 0..(PacketCount(fileSize) - 1) /\ bytes[1].salt = key
           /\ bytes[1].salt \in {"a", "b", "none"}
           /\ key # "none" => bytes[1].index = index /\ bytes[1].last = bounds.isLast
           /\ ~legacy => /\ bytes[1].salt \in {"a", "b"}
                         /\ bytes[1].last <=> bytes[1].index = PacketCount(fileSize) - 1
           /\ Intact /\ consumed + offset = EndOf(Start, fileSize, index) =>
                 /\ index \in 0..(PacketCount(fileSize) - 1) /\ bytes[1].index = index
                 /\ bytes[1].size = ChunkAt(fileSize, index)
<1>1. /\ ObjectInv /\ arriving = object /\ Len(object) \in Nat /\ received \in 0..Len(object)
      /\ consumed \in Nat /\ PacketOverhead \in Nat /\ fileSize \in Nat \ {0} /\ index \in 0..PacketCount(fileSize)
      /\ ChunkSize \in Nat
  BY PacketAssumption DEF PacketInv, ObjectInv, NetworkInv, HandedOn
<1>2. object \in Seq(Bytes(fileSize)) /\ (~legacy => object \in Seq(SaltedBytes(fileSize)))
  BY <1>1, ObjectIsBytes
<1>3. consumed + offset + s <= Len(arriving) /\ 1 \in 1..s
  BY <1>1
<1>4. /\ Len(bytes) = s /\ bytes[1] = object[consumed + offset + 1] /\ bytes[1] \in Bytes(fileSize)
  <2>1. arriving \in Seq(Bytes(fileSize)) /\ s \in Nat
    BY <1>1, <1>2
  <2>2. /\ Len(Peek(offset, s)) = s
        /\ \A o \in 1..s : /\ Peek(offset, s)[o] = arriving[consumed + offset + o]
                           /\ Peek(offset, s)[o] \in Bytes(fileSize)
    BY <1>1, <1>3, <2>1, PeekIs
  <2> QED  BY <1>1, <1>3, <2>2
<1>5. ~legacy => bytes[1] \in SaltedBytes(fileSize)
  <2> SUFFICES ASSUME ~legacy PROVE bytes[1] \in SaltedBytes(fileSize)
    OBVIOUS
  <2>1. arriving \in Seq(SaltedBytes(fileSize))
    BY <1>1, <1>2
  <2> QED  BY <1>1, <1>3, <2>1, PeekIs
<1> DEFINE b == bytes[1]
<1>6. /\ s > PacketOverhead /\ s = b.size + PacketOverhead /\ b.salt = key
      /\ key # "none" => b.index = index /\ b.last = bounds.isLast
  BY <1>4 DEF Opens
<1> HIDE DEF b
<1>7. b \in Bytes(fileSize) /\ (~legacy => b \in SaltedBytes(fileSize))
  BY <1>4, <1>5 DEF b
<1>8. /\ b.size \in 0..ChunkSize /\ b.index \in 0..(PacketCount(fileSize) - 1)
      /\ b.salt \in {"a", "b", "none"}
  BY <1>7 DEF Bytes
<1>9. b.size \in Nat /\ b.size > 0
  BY <1>1, <1>6, <1>8
<1>10. ~legacy => b.salt \in {"a", "b"} /\ (b.last <=> b.index = PacketCount(fileSize) - 1)
  BY <1>7, <1>9 DEF SaltedBytes
<1>11. ASSUME Intact, consumed + offset = EndOf(Start, fileSize, index)
       PROVE  /\ index \in 0..(PacketCount(fileSize) - 1) /\ b.index = index
              /\ b.size = ChunkAt(fileSize, index)
  <2>1. /\ Start \in Nat /\ Len(object) = EndOf(Start, fileSize, PacketCount(fileSize))
        /\ Standing(object, Start, IF legacy THEN "none" ELSE "a", fileSize)
    BY <1>1, <1>11, IntactStands
  <2>2. PacketCount(fileSize) \in Nat \ {0}
    BY <1>1, ChunksCover
  <2>3. index # PacketCount(fileSize)
    BY <1>1, <1>11, <2>1
  <2>4. index \in 0..(PacketCount(fileSize) - 1)
    BY <1>1, <2>2, <2>3
  <2>5. ChunkAt(fileSize, index) \in 1..ChunkSize
    BY <1>1, <2>4, ChunksCover
  <2>6. 1 \in 1..(ChunkAt(fileSize, index) + PacketOverhead)
    BY <1>1, <2>5
  <2>7. object[EndOf(Start, fileSize, index) + 1]
          = PacketByte(fileSize, IF legacy THEN "none" ELSE "a", index, 1)
    BY <2>1, <2>4, <2>6 DEF Standing
  <2>8. b = PacketByte(fileSize, IF legacy THEN "none" ELSE "a", index, 1)
    BY <1>4, <1>11, <2>7 DEF b
  <2> QED  BY <2>4, <2>8 DEF PacketByte
<1> QED  BY <1>6, <1>8, <1>9, <1>10, <1>11 DEF b

\* One more packet handed on.
LEMMA OneMore ==
    ASSUME NEW R, NEW d \in Seq(R), NEW n \in Nat, Len(d) = n, NEW key,
           \A i \in 1..n : d[i] = [salt |-> key, index |-> i - 1],
           NEW e \in R, e = [salt |-> key, index |-> n]
    PROVE  /\ Append(d, e) \in Seq(R) /\ Len(Append(d, e)) = n + 1
           /\ \A i \in 1..(n + 1) : Append(d, e)[i] = [salt |-> key, index |-> i - 1]
<1>1. /\ Append(d, e) \in Seq(R) /\ Len(Append(d, e)) = n + 1
      /\ \A i \in 1..n : Append(d, e)[i] = d[i]
      /\ Append(d, e)[n + 1] = e
  BY AppendProperties
<1>2. \A i \in 1..(n + 1) : i \in 1..n \/ (i = n + 1 /\ i - 1 = n)
  OBVIOUS
<1> QED  BY <1>1, <1>2

\* A packet is handed on.
LEMMA YieldKeeps ==
    ASSUME PacketInv, Keep, NEW offset \in Nat, NEW s \in Nat \ {0}, consumed + offset + s <= received,
           NEW bounds, NEW bytes, bytes = Peek(offset, s), Opens(bytes, Key', bounds), bounds.isLast \in BOOLEAN,
           Yield(bytes, offset + s),
           \/ offset = 0 /\ format' = format
           \/ /\ offset = SaltLength /\ ~legacy /\ consumed = 0 /\ index = 0
              /\ format' \in {"a", "b"} /\ (Intact => format' = "a"),
           reader' \in {"rest", "end"}
    PROVE  /\ ObjectInv' /\ NetworkInv' /\ HandedOn' /\ Aligned'
           /\ index' # 0 /\ consumed' = consumed + (offset + s)
           /\ index' \in 0..PacketCount(fileSize)
           /\ ~legacy => (bounds.isLast <=> index' = PacketCount(fileSize))
           /\ Intact /\ legacy => consumed + offset = EndOf(Start, fileSize, index)
<1> DEFINE n == PacketCount(fileSize)
           b == bytes[1]
<1>1. /\ ObjectInv /\ received \in Nat /\ consumed \in Nat /\ fileSize \in Nat \ {0} /\ legacy \in BOOLEAN
      /\ index \in 0..n /\ total \in Nat
      /\ PacketOverhead \in Nat /\ SaltLength \in Nat /\ n \in Nat \ {0}
  <2>1. Len(object) \in Nat /\ received \in 0..Len(object) /\ consumed \in 0..received
    BY DEF PacketInv, ObjectInv, NetworkInv
  <2>2. ObjectInv /\ fileSize \in Nat \ {0} /\ legacy \in BOOLEAN
    BY DEF PacketInv, ObjectInv
  <2>3. n \in Nat \ {0}
    BY <2>2, ChunksCover
  <2> QED  BY <2>1, <2>2, <2>3, PacketAssumption DEF PacketInv, HandedOn
<1>2. /\ decrypted' = Append(decrypted, [salt |-> b.salt, index |-> b.index])
      /\ total' = total + b.size /\ consumed' = consumed + (offset + s) /\ index' = index + 1
  BY DEF Yield
<1>3. fileSize' = fileSize /\ legacy' = legacy
  BY DEF Keep
<1>4. /\ b.size \in Nat /\ b.size > 0 /\ s = b.size + PacketOverhead
      /\ b.index \in 0..(n - 1) /\ b.salt = Key' /\ b.salt \in {"a", "b", "none"}
      /\ Key' # "none" => b.index = index /\ b.last = bounds.isLast
      /\ ~legacy => b.salt \in {"a", "b"} /\ (b.last <=> b.index = n - 1)
      /\ Intact /\ consumed + offset = EndOf(Start, fileSize, index) =>
            index \in 0..(n - 1) /\ b.index = index /\ b.size = ChunkAt(fileSize, index)
  BY Opened
<1> HIDE DEF b, n
<1>5. ~legacy => Key' # "none"
  BY <1>4
<1>6. legacy => offset = 0 /\ format' = format /\ Key = "none" /\ Key' = "none" /\ Intact
  <2>1. legacy => Key = "none" /\ Intact
    BY DEF PacketInv, HandedOn, ObjectInv, Intact
  <2> QED  BY <2>1 DEF Key
<1>7. ~legacy => /\ Key' \in {"a", "b"} /\ (Intact => Key' = "a")
                 /\ (offset = 0 /\ format' = format) => Key = Key' /\ index # 0
  <2>1. offset = 0 /\ format' = format => Key' = Key
    BY DEF Key
  <2>2. (Intact /\ ~legacy /\ Key # "none" => Key = "a") /\ (index = 0 => Key = "none")
    BY DEF PacketInv, Aligned, HandedOn
  <2>3. format' \in {"a", "b"} => Key' = format'
    BY DEF Key
  <2> QED  BY <1>4, <1>5, <2>1, <2>2, <2>3
<1>8. index \in 0..(n - 1) /\ b.index = index /\ (Intact => consumed + offset = EndOf(Start, fileSize, index))
      /\ (Intact => total = Least(index * ChunkSize, fileSize))
  <2>1. CASE legacy
    <3>1. /\ offset = 0 /\ Intact /\ consumed = EndOf(Start, fileSize, index)
          /\ total = Least(index * ChunkSize, fileSize)
      BY <1>6, <2>1 DEF PacketInv, Aligned
    <3>2. consumed + offset = EndOf(Start, fileSize, index)
      BY <1>1, <3>1
    <3> QED  BY <1>4, <3>1, <3>2
  <2>2. CASE ~legacy /\ offset = 0 /\ format' = format
    <3>1. index # 0 /\ b.index = index
      BY <1>4, <1>5, <1>7, <2>2
    <3>2. Intact => consumed = EndOf(Start, fileSize, index) /\ total = Least(index * ChunkSize, fileSize)
      BY <3>1 DEF PacketInv, Aligned
    <3> QED  BY <1>1, <1>4, <2>2, <3>1, <3>2
  <2>3. CASE ~legacy /\ offset = SaltLength /\ consumed = 0 /\ index = 0
    <3>1. b.index = index
      BY <1>4, <1>5, <2>3
    <3>2. EndOf(SaltLength, fileSize, 0) = SaltLength
      BY <1>1, PacketsFollow
    <3>3. Start = SaltLength
      BY <2>3 DEF Start
    <3>4. total = 0
      BY <2>3 DEF PacketInv, HandedOn
    <3>5. 0 * ChunkSize = 0
      BY PacketAssumption
    <3>6. Least(index * ChunkSize, fileSize) = 0
      BY <1>1, <2>3, <3>5 DEF Least
    <3> QED  BY <1>1, <1>4, <2>3, <3>1, <3>2, <3>3, <3>4, <3>6
  <2> QED  BY <1>6, <2>1, <2>2, <2>3
<1>9. consumed' \in 0..received
  BY <1>1, <1>2
<1>10. /\ ObjectInv' /\ NetworkInv' /\ Intact' = Intact /\ Start' = Start
  BY <1>9, KeepKeeps
<1>11. index' \in 1..n /\ index' # 0 /\ index' - 1 = index
  BY <1>1, <1>2, <1>8
<1>12. Key' # "none" \/ legacy
  BY <1>5
<1>13. /\ decrypted' \in Seq([salt : {"a", "b", "none"}, index : Nat]) /\ Len(decrypted') = index'
       /\ \A i \in 1..index' : decrypted'[i] = [salt |-> Key', index |-> i - 1]
  <2> DEFINE R == [salt : {"a", "b", "none"}, index : Nat]
             e == [salt |-> b.salt, index |-> b.index]
  <2>1. e \in R /\ e = [salt |-> Key', index |-> index]
    BY <1>1, <1>4, <1>8
  <2>2. decrypted \in Seq(R) /\ Len(decrypted) = index /\ \A i \in 1..index : decrypted[i] = [salt |-> Key, index |-> i - 1]
    BY DEF PacketInv, HandedOn
  <2>3. index = 0 \/ Key = Key'
    BY <1>6, <1>7
  <2>4. \A i \in 1..index : decrypted[i] = [salt |-> Key', index |-> i - 1]
    BY <2>2, <2>3
  <2>5. decrypted' = Append(decrypted, e) /\ index' = index + 1 /\ index \in Nat
    BY <1>1, <1>2
  <2> HIDE DEF R, e
  <2>6. /\ Append(decrypted, e) \in Seq(R) /\ Len(Append(decrypted, e)) = index + 1
        /\ \A i \in 1..(index + 1) : Append(decrypted, e)[i] = [salt |-> Key', index |-> i - 1]
    BY <2>1, <2>2, <2>4, <2>5, OneMore
  <2> QED  BY <2>5, <2>6 DEF R
<1>14. HandedOn'
  <2>1. n' = n
    BY <1>3 DEF n
  <2>2. format' \in {"unknown", "none", "a", "b"}
    BY DEF PacketInv, HandedOn
  <2>3. total' \in Nat
    <3>1. total \in Nat /\ b.size \in Nat /\ total' = total + b.size
      BY <1>1, <1>2, <1>4
    <3> QED  BY <3>1
  <2>4. index' \in 0..n
    BY <1>1, <1>11
  <2> QED  BY <1>3, <1>6, <1>11, <1>12, <1>13, <2>1, <2>2, <2>3, <2>4 DEF HandedOn, n
<1>15. Aligned'
  <2>1. SUFFICES ASSUME Intact
                 PROVE  /\ consumed' = EndOf(Start, fileSize, index')
                        /\ total' = Least(index' * ChunkSize, fileSize)
                        /\ ~legacy => Key' = "a"
    BY <1>3, <1>10, <1>12 DEF Aligned
  <2>2. b.size = ChunkAt(fileSize, index) /\ consumed + offset = EndOf(Start, fileSize, index)
    BY <1>4, <1>8, <2>1
  <2>3. Start \in Nat
    BY <1>1 DEF Start
  <2>4. EndOf(Start, fileSize, index + 1) = EndOf(Start, fileSize, index) + ChunkAt(fileSize, index) + PacketOverhead
    BY <1>1, <1>8, <2>3, PacketsFollow DEF n
  <2>5. consumed' = EndOf(Start, fileSize, index')
    <3>1. consumed + (offset + s) = (consumed + offset) + b.size + PacketOverhead
      BY <1>1, <1>4
    <3> QED  BY <1>2, <2>2, <2>4, <3>1
  <2>6. Least(index * ChunkSize, fileSize) + ChunkAt(fileSize, index) = Least((index + 1) * ChunkSize, fileSize)
    BY <1>1, <1>8, TotalGrows DEF n
  <2>7. total' = Least(index' * ChunkSize, fileSize)
    BY <1>2, <1>8, <2>1, <2>2, <2>6
  <2> QED  BY <1>7, <2>1, <2>5, <2>7
<1>16. ~legacy => (bounds.isLast <=> index' = n)
  <2>1. (index = n - 1) <=> (index' = n)
    BY <1>1, <1>2
  <2> SUFFICES ASSUME ~legacy PROVE bounds.isLast <=> index = n - 1
    BY <2>1
  <2>2. b.last = bounds.isLast /\ (b.last <=> b.index = n - 1)
    BY <1>4, <1>5
  <2>3. b.index = index
    BY <1>8
  <2> QED  BY <2>2, <2>3
<1> QED  BY <1>1, <1>2, <1>8, <1>10, <1>11, <1>14, <1>15, <1>16 DEF n

\* The bounds of the next packet lie in what was received.
LEMMA BoundsAre ==
    ASSUME PacketInv, NEW offset \in Nat, consumed + offset <= received, NEW bounds, bounds = Bounds(offset)
    PROVE  /\ bounds.size \in Nat /\ bounds.isLast \in BOOLEAN
           /\ consumed + offset + bounds.size <= received
           /\ bounds.isLast <=> consumed + offset + bounds.size = received
           /\ bounds.isLast <=> Available - offset <= PackedChunkSize
           /\ bounds.size = IF Available - offset > PackedChunkSize THEN PackedChunkSize ELSE Available - offset
           /\ bounds.size = 0 <=> Available - offset = 0
           /\ Available - offset \in Nat /\ consumed + offset + (Available - offset) = received
<1> DEFINE avail == Available - offset
<1>1. received \in Nat /\ consumed \in Nat /\ PackedChunkSize \in Nat \ {0}
  <2>1. Len(object) \in Nat /\ received \in 0..Len(object) /\ consumed \in 0..received
    BY DEF PacketInv, ObjectInv, NetworkInv
  <2> QED  BY <2>1, PacketAssumption DEF PackedChunkSize
<1>2. avail \in Nat /\ consumed + offset + avail = received
  BY <1>1 DEF Available
<1>3. /\ bounds.size = IF avail > PackedChunkSize THEN PackedChunkSize ELSE avail
      /\ bounds.isLast = (avail <= PackedChunkSize)
  BY DEF Bounds
<1> HIDE DEF avail
<1>4. bounds.isLast \in BOOLEAN /\ (bounds.isLast <=> avail <= PackedChunkSize)
  <2>1. (avail <= PackedChunkSize) \in BOOLEAN
    BY <1>1, <1>2
  <2> QED  BY <1>3, <2>1, Zenon
<1>5. CASE avail > PackedChunkSize
  <2>1. bounds.size = PackedChunkSize
    BY <1>3, <1>5
  <2>2. /\ consumed + offset + PackedChunkSize <= received /\ consumed + offset + PackedChunkSize # received
        /\ ~(avail <= PackedChunkSize) /\ avail # 0 /\ PackedChunkSize # 0
    BY <1>1, <1>2, <1>5
  <2> QED  BY <1>1, <1>2, <1>3, <1>4, <2>1, <2>2 DEF avail
<1>6. CASE ~(avail > PackedChunkSize)
  <2>1. bounds.size = avail
    BY <1>3, <1>6
  <2>2. avail <= PackedChunkSize /\ consumed + offset + avail <= received
    BY <1>1, <1>2, <1>6
  <2> QED  BY <1>1, <1>2, <1>3, <1>4, <2>1, <2>2 DEF avail
<1> QED  BY <1>5, <1>6

\* In an intact object that arrived far enough the next packet opens, unless there is none.
LEMMA WholeOpens ==
    ASSUME PacketInv, Intact, NEW offset \in Nat, consumed + offset <= received,
           NEW bounds, bounds = Bounds(offset), NEW bytes, bytes = Peek(offset, bounds.size),
           consumed + offset = EndOf(Start, fileSize, index),
           Available - offset > PackedChunkSize \/ received = Len(object)
    PROVE  /\ bounds.size = 0 => index = PacketCount(fileSize)
           /\ bounds.size # 0 => /\ Opens(bytes, IF legacy THEN "none" ELSE "a", bounds)
                                 /\ bounds.isLast <=> index = PacketCount(fileSize) - 1
<1> DEFINE n == PacketCount(fileSize)
           avail == Available - offset
           salt == IF legacy THEN "none" ELSE "a"
<1>1. /\ ObjectInv /\ arriving = object /\ fileSize \in Nat \ {0} /\ index \in 0..n /\ consumed \in Nat
      /\ Len(object) \in Nat /\ received \in 0..Len(object)
  <2>1. Len(object) \in Nat /\ received \in 0..Len(object) /\ consumed \in 0..received
    BY DEF PacketInv, ObjectInv, NetworkInv
  <2> QED  BY <2>1 DEF PacketInv, ObjectInv, HandedOn
<1>2. /\ Start \in Nat /\ Len(object) = EndOf(Start, fileSize, n)
      /\ Standing(object, Start, salt, fileSize)
  BY <1>1, IntactStands
<1>3. /\ bounds.size \in Nat /\ bounds.isLast \in BOOLEAN /\ consumed + offset + bounds.size <= received
      /\ bounds.isLast <=> avail <= PackedChunkSize
      /\ bounds.size = IF avail > PackedChunkSize THEN PackedChunkSize ELSE avail
      /\ bounds.size = 0 <=> avail = 0
      /\ avail \in Nat /\ consumed + offset + avail = received
  BY BoundsAre
<1> HIDE DEF avail
<1>4. /\ EndOf(Start, fileSize, index) + avail <= EndOf(Start, fileSize, n)
      /\ avail > PackedChunkSize \/ EndOf(Start, fileSize, index) + avail = EndOf(Start, fileSize, n)
  <2>1. EndOf(Start, fileSize, index) + avail = received
    BY <1>3
  <2>2. received <= EndOf(Start, fileSize, n)
    BY <1>1, <1>2
  <2>3. avail > PackedChunkSize \/ received = Len(object)
    BY DEF avail
  <2> QED  BY <1>2, <2>1, <2>2, <2>3
<1>5. IF avail = 0 THEN index = n
      ELSE /\ index \in 0..(n - 1)
           /\ ChunkAt(fileSize, index) + PacketOverhead = IF avail > PackedChunkSize THEN PackedChunkSize ELSE avail
           /\ (avail <= PackedChunkSize) <=> (index = n - 1)
  BY <1>1, <1>2, <1>3, <1>4, BoundsFit
<1>6. CASE avail = 0
  BY <1>3, <1>5, <1>6
<1>7. CASE avail # 0
  <2>1. /\ index \in 0..(n - 1) /\ bounds.size = ChunkAt(fileSize, index) + PacketOverhead
        /\ bounds.isLast <=> index = n - 1
    BY <1>3, <1>5, <1>7
  <2>2. object \in Seq(Bytes(fileSize))
    BY <1>1, ObjectIsBytes
  <2>3. consumed + offset + bounds.size <= Len(arriving)
    BY <1>1, <1>3
  <2>4. /\ Len(bytes) = bounds.size /\ DOMAIN bytes = 1..bounds.size
        /\ \A o \in 1..bounds.size : bytes[o] = arriving[consumed + offset + o]
    BY <1>1, <1>3, <2>2, <2>3, PeekIs
  <2>5. \A o \in 1..(ChunkAt(fileSize, index) + PacketOverhead) :
           object[EndOf(Start, fileSize, index) + o] = PacketByte(fileSize, salt, index, o)
    BY <1>2, <2>1 DEF Standing
  <2>6. \A o \in 1..(ChunkAt(fileSize, index) + PacketOverhead) :
           bytes[o] = PacketByte(fileSize, salt, index, o)
    <3> SUFFICES ASSUME NEW o \in 1..(ChunkAt(fileSize, index) + PacketOverhead)
                 PROVE  bytes[o] = PacketByte(fileSize, salt, index, o)
      OBVIOUS
    <3>1. bytes[o] = object[consumed + offset + o]
      BY <1>1, <2>1, <2>4
    <3>2. object[EndOf(Start, fileSize, index) + o] = PacketByte(fileSize, salt, index, o)
      BY <2>5
    <3> QED  BY <3>1, <3>2
  <2>7. salt \in {"a", "b", "none"} /\ bounds.isLast = (index = n - 1)
    BY <1>3, <2>1
  <2> HIDE DEF salt
  <2>8. Opens(bytes, salt, bounds)
    <3>1. /\ DOMAIN bytes = 1..(ChunkAt(fileSize, index) + PacketOverhead)
          /\ Len(bytes) = ChunkAt(fileSize, index) + PacketOverhead
          /\ index \in 0..(PacketCount(fileSize) - 1)
          /\ bounds.isLast = (index = PacketCount(fileSize) - 1)
      BY <2>1, <2>4, <2>7
    <3> HIDE DEF n
    <3> QED  BY <1>1, <2>6, <2>7, <3>1, PacketOpens
  <2>9. bounds.size # 0
    BY <1>3, <1>7
  <2> QED  BY <2>1, <2>8, <2>9 DEF salt
<1> QED  BY <1>6, <1>7

\* The first packet: the reader tries the salted key, then the old format.
LEMMA FirstPacketKeeps == PacketInv /\ FirstPacket => PacketInv'
<1> SUFFICES ASSUME PacketInv, FirstPacket PROVE PacketInv'
  OBVIOUS
<1> DEFINE bounds == Bounds(SaltLength)
           bytes == Peek(SaltLength, bounds.size)
           salt == Peek(0, SaltLength)
           n == PacketCount(fileSize)
<1>1. /\ reader = "first" /\ Filled /\ Keep /\ reader' = "rest"
      /\ fileSize' = fileSize /\ legacy' = legacy /\ received' = received /\ cut' = cut
  BY DEF FirstPacket, Keep
<1>2. IF bounds.size > 0 /\ (\A o \in 1..SaltLength : salt[o].size = 0) /\ Opens(bytes, salt[1].salt, bounds)
      THEN Yield(bytes, SaltLength + bounds.size) /\ format' = salt[1].salt
      ELSE format' = "none" /\ UNCHANGED <<consumed, index, decrypted, total>>
  BY DEF FirstPacket
<1>3. /\ ObjectInv /\ arriving = object /\ fileSize \in Nat \ {0} /\ legacy \in BOOLEAN /\ cut \in BOOLEAN
      /\ Len(object) \in Nat /\ received \in 0..Len(object) /\ received \in Nat
      /\ format = "unknown" /\ index = 0 /\ consumed = 0 /\ received >= SaltLength /\ total = 0
      /\ Len(object) > SaltLength /\ PacketOverhead \in Nat \ {0} /\ SaltLength \in Nat \ {0}
      /\ streamDone /\ ~cut => received = Len(object)
  <2>1. Len(object) \in Nat /\ received \in 0..Len(object) /\ Len(object) > PacketOverhead
    BY DEF PacketInv, ObjectInv, NetworkInv
  <2>2. received \in Nat /\ Len(object) > SaltLength
    BY <2>1, PacketAssumption
  <2> QED  BY <1>1, <2>1, <2>2, PacketAssumption DEF PacketInv, ObjectInv, NetworkInv, HandedOn
<1>4. n \in Nat \ {0} /\ n' = n
  BY <1>1, <1>3, ChunksCover
<1>5. consumed + SaltLength <= received /\ Available = received
  BY <1>3 DEF Available
<1>6. /\ bounds.size \in Nat /\ bounds.isLast \in BOOLEAN
      /\ consumed + SaltLength + bounds.size <= received
      /\ bounds.isLast <=> consumed + SaltLength + bounds.size = received
      /\ bounds.size = 0 <=> Available - SaltLength = 0
  BY <1>3, <1>5, BoundsAre
<1> HIDE DEF bounds, n
<1>7. /\ \A o \in 1..SaltLength : salt[o] = object[o]
      /\ 1 \in 1..SaltLength
  <2>1. object \in Seq(Bytes(fileSize)) /\ consumed + 0 + SaltLength <= Len(arriving) /\ 0 \in Nat
    BY <1>3, ObjectIsBytes
  <2>2. \A o \in 1..SaltLength : salt[o] = arriving[consumed + 0 + o]
    <3>1. arriving \in Seq(Bytes(fileSize)) /\ consumed \in Nat /\ SaltLength \in Nat
      BY <1>3, <2>1
    <3>2. \A o \in 1..SaltLength : Peek(0, SaltLength)[o] = arriving[consumed + 0 + o]
      BY <2>1, <3>1, PeekIs
    <3> QED  BY <3>2
  <2>3. \A o \in 1..SaltLength : consumed + 0 + o = o
    BY <1>3
  <2> QED  BY <1>3, <2>2, <2>3
<1> HIDE DEF salt, bytes
<1>8. CASE bounds.size > 0 /\ (\A o \in 1..SaltLength : salt[o].size = 0) /\ Opens(bytes, salt[1].salt, bounds)
  <2>1. Yield(bytes, SaltLength + bounds.size) /\ format' = salt[1].salt
    BY <1>2, <1>8
  <2>2. ~legacy
    <3>1. SUFFICES ASSUME legacy PROVE FALSE
      OBVIOUS
    <3>2. Intact /\ Start = 0
      BY <3>1 DEF PacketInv, ObjectInv, Intact, Start
    <3>3. Standing(object, 0, "none", fileSize)
      BY <1>3, <3>1, <3>2, IntactStands
    <3>4. EndOf(0, fileSize, 0) = 0 /\ 0 \in 0..(PacketCount(fileSize) - 1) /\ ChunkAt(fileSize, 0) \in 1..ChunkSize
      <4>1. PacketCount(fileSize) \in Nat \ {0}
        BY <1>3, ChunksCover
      <4>2. 0 \in 0..(PacketCount(fileSize) - 1)
        BY <4>1
      <4>3. ChunkAt(fileSize, 0) \in 1..ChunkSize
        BY <1>3, <4>2, ChunksCover
      <4>4. EndOf(0, fileSize, 0) = 0
        BY <1>3, PacketsFollow
      <4> QED  BY <4>2, <4>3, <4>4
    <3>5. 1 \in 1..(ChunkAt(fileSize, 0) + PacketOverhead) /\ ChunkAt(fileSize, 0) # 0 /\ 0 + 1 = 1
      BY <1>3, <3>4, PacketAssumption
    <3>6. object[EndOf(0, fileSize, 0) + 1] = PacketByte(fileSize, "none", 0, 1)
      BY <3>3, <3>4, <3>5 DEF Standing
    <3>7. object[1].size = ChunkAt(fileSize, 0)
      BY <3>4, <3>5, <3>6 DEF PacketByte
    <3> QED  BY <1>7, <1>8, <3>5, <3>7
  <2>3. salt[1].salt \in {"a", "b"}
    <3>1. object \in Seq(SaltedBytes(fileSize))
      BY <1>3, <2>2, ObjectIsBytes
    <3>2. object[1] \in SaltedBytes(fileSize)
      <4>1. 1 \in 1..Len(object)
        BY <1>3
      <4> QED  BY <3>1, <4>1, ElementOfSeq
    <3> QED  BY <1>7, <3>2 DEF SaltedBytes
  <2>4. Intact => salt[1].salt = "a"
    <3>1. Intact => object[1] = SaltByte("a", 1)
      BY <1>3, <1>7, <2>2, IntactStands
    <3> QED  BY <1>7, <3>1 DEF SaltByte
  <2>5. Key' = salt[1].salt
    BY <2>1, <2>3 DEF Key
  <2>6. /\ ObjectInv' /\ NetworkInv' /\ HandedOn' /\ Aligned'
        /\ index' # 0 /\ consumed' = consumed + (SaltLength + bounds.size)
        /\ bounds.isLast <=> index' = n
    <3>1. bounds.size \in Nat \ {0} /\ SaltLength \in Nat /\ bytes = Peek(SaltLength, bounds.size)
      BY <1>3, <1>6, <1>8 DEF bytes
    <3>2. Opens(bytes, Key', bounds)
      BY <1>8, <2>5
    <3>3. reader' \in {"rest", "end"} /\ format' \in {"a", "b"} /\ (Intact => format' = "a")
      BY <1>1, <2>1, <2>3, <2>4
    <3>4. /\ ObjectInv' /\ NetworkInv' /\ HandedOn' /\ Aligned'
          /\ index' # 0 /\ consumed' = consumed + (SaltLength + bounds.size)
          /\ ~legacy => (bounds.isLast <=> index' = PacketCount(fileSize))
      BY <1>1, <1>3, <1>6, <2>1, <2>2, <3>1, <3>2, <3>3, YieldKeeps
    <3> QED  BY <2>2, <3>4 DEF n
  <2>7. Finished'
    <3>1. Available' = 0 => index' = n
      <4>1. Available' = received - (consumed + (SaltLength + bounds.size))
        BY <1>1, <2>6 DEF Available
      <4>2. Available' = 0 => consumed + SaltLength + bounds.size = received
        BY <1>3, <1>6, <4>1
      <4> QED  BY <1>6, <2>6, <4>2
    <3>2. PacketCount(fileSize)' = n
      BY <1>4 DEF n
    <3> QED  BY <1>1, <2>6, <3>1, <3>2 DEF Finished
  <2> QED  BY <2>6, <2>7 DEF PacketInv
<1>9. CASE ~(bounds.size > 0 /\ (\A o \in 1..SaltLength : salt[o].size = 0) /\ Opens(bytes, salt[1].salt, bounds))
  <2>1. format' = "none" /\ UNCHANGED <<consumed, index, decrypted, total>>
    BY <1>2, <1>9
  <2>2. ~legacy => ~Intact \/ cut
    <3>1. SUFFICES ASSUME ~legacy, Intact, ~cut PROVE FALSE
      OBVIOUS
    <3>2. Start = SaltLength /\ \A o \in 1..SaltLength : object[o] = SaltByte("a", o)
      BY <1>3, <3>1, IntactStands DEF Start
    <3>3. \A o \in 1..SaltLength : salt[o].size = 0 /\ salt[o].salt = "a"
      <4>1. \A o \in 1..SaltLength : SaltByte("a", o).size = 0 /\ SaltByte("a", o).salt = "a"
        BY DEF SaltByte
      <4>2. \A o \in 1..SaltLength : salt[o] = SaltByte("a", o)
        BY <1>7, <3>2
      <4> QED  BY <4>1, <4>2
    <3>4. consumed + SaltLength = EndOf(Start, fileSize, index)
      <4>1. EndOf(SaltLength, fileSize, 0) = SaltLength
        BY <1>3, PacketsFollow
      <4> QED  BY <1>3, <3>2, <4>1
    <3>5. Available - SaltLength > PackedChunkSize \/ received = Len(object)
      <4>1. Available >= SaltLength + PackedChunkSize + 1 \/ streamDone
        BY <1>1 DEF Filled, Wanted, FillFor
      <4>2. PackedChunkSize \in Nat
        BY PacketAssumption DEF PackedChunkSize
      <4> QED  BY <1>3, <1>5, <3>1, <4>1, <4>2
    <3>6. /\ bounds.size = 0 => index = PacketCount(fileSize)
          /\ bounds.size # 0 => Opens(bytes, IF legacy THEN "none" ELSE "a", bounds)
      <4>1. bounds = Bounds(SaltLength) /\ bytes = Peek(SaltLength, bounds.size) /\ SaltLength \in Nat
        BY <1>3 DEF bounds, bytes
      <4> QED  BY <1>5, <3>1, <3>4, <3>5, <4>1, WholeOpens
    <3>7. bounds.size # 0
      BY <1>3, <1>4, <3>6 DEF n
    <3>8. Opens(bytes, "a", bounds) /\ salt[1].salt = "a"
      BY <1>7, <3>1, <3>3, <3>6, <3>7
    <3> QED  BY <1>6, <1>9, <3>3, <3>7, <3>8
  <2>3. ObjectInv' /\ Intact' = Intact /\ Start' = Start /\ NetworkInv'
    <3>1. consumed' \in 0..received
      BY <1>3, <2>1
    <3> QED  BY <1>1, <3>1, KeepKeeps
  <2>4. Key' = "none" /\ Key = "none"
    BY <1>3, <2>1 DEF Key
  <2>5. HandedOn'
    BY <1>1, <1>3, <1>4, <2>1, <2>4 DEF PacketInv, HandedOn, n
  <2>6. Aligned'
    BY <1>1, <2>1, <2>3, <2>4 DEF PacketInv, Aligned
  <2>7. Finished'
    <3>1. Available' # 0
      <4>1. Available' = received
        BY <1>1, <1>3, <2>1 DEF Available
      <4> QED  BY <1>3, <4>1
    <3> QED  BY <1>1, <2>2, <2>3, <3>1 DEF Finished
  <2> QED  BY <2>3, <2>5, <2>6, <2>7 DEF PacketInv
<1> QED  BY <1>8, <1>9

\* Every later packet: it opens, or the reader fails.
LEMMA NextPacketKeeps == PacketInv /\ NextPacket => PacketInv'
<1> SUFFICES ASSUME PacketInv, NextPacket PROVE PacketInv'
  OBVIOUS
<1> DEFINE bounds == Bounds(0)
           bytes == Peek(0, bounds.size)
           n == PacketCount(fileSize)
<1>1. /\ reader = "rest" /\ Filled /\ Keep /\ format' = format
      /\ fileSize' = fileSize /\ legacy' = legacy /\ received' = received /\ cut' = cut
  BY DEF NextPacket, Keep
<1>2. (CASE bounds.size = 0 -> reader' = "end" /\ UNCHANGED <<consumed, index, decrypted, total>>
        [] bounds.size > 0 /\ Opens(bytes, Key, bounds) ->
             /\ Yield(bytes, bounds.size)
             /\ reader' = IF bounds.isLast THEN "end" ELSE "rest"
        [] OTHER -> reader' = "failed" /\ UNCHANGED <<consumed, index, decrypted, total>>)
  BY DEF NextPacket, Key
<1>3. /\ ObjectInv /\ fileSize \in Nat \ {0} /\ legacy \in BOOLEAN /\ cut \in BOOLEAN
      /\ Len(object) \in Nat /\ received \in 0..Len(object) /\ received \in Nat /\ consumed \in 0..received
      /\ consumed \in Nat /\ index \in 0..PacketCount(fileSize)
      /\ streamDone /\ ~cut => received = Len(object)
      /\ legacy => Intact
  <2>1. Len(object) \in Nat /\ received \in 0..Len(object) /\ consumed \in 0..received
    BY DEF PacketInv, ObjectInv, NetworkInv
  <2>2. received \in Nat /\ consumed \in Nat
    BY <2>1
  <2> QED  BY <2>1, <2>2 DEF PacketInv, ObjectInv, NetworkInv, HandedOn, Intact
<1>4. n \in Nat \ {0} /\ n' = n /\ Key' = Key
  BY <1>1, <1>3, ChunksCover DEF Key
<1>5. consumed + 0 <= received /\ 0 \in Nat /\ consumed + 0 = consumed /\ Available - 0 = Available
      /\ Available = received - consumed /\ Available \in Nat
  BY <1>3 DEF Available
<1>6. /\ bounds.size \in Nat /\ bounds.isLast \in BOOLEAN
      /\ consumed + 0 + bounds.size <= received
      /\ bounds.isLast <=> consumed + 0 + bounds.size = received
      /\ bounds.size = 0 <=> Available - 0 = 0
  BY <1>5, BoundsAre
<1> HIDE DEF bounds, n
<1>7. ASSUME Intact, ~cut, legacy \/ index # 0
      PROVE  /\ bounds.size = 0 => index = n
             /\ bounds.size # 0 => Opens(bytes, Key, bounds) /\ (bounds.isLast <=> index = n - 1)
  <2>1. consumed + 0 = EndOf(Start, fileSize, index)
    BY <1>5, <1>7 DEF PacketInv, Aligned
  <2>2. Available - 0 > PackedChunkSize \/ received = Len(object)
    <3>1. Available >= 0 + PackedChunkSize + 1 \/ streamDone
      BY <1>1 DEF Filled, Wanted, FillFor
    <3>2. PackedChunkSize \in Nat
      BY PacketAssumption DEF PackedChunkSize
    <3> QED  BY <1>3, <1>5, <1>7, <3>1, <3>2
  <2>3. Key = IF legacy THEN "none" ELSE "a"
    BY <1>7 DEF PacketInv, HandedOn, Aligned
  <2>4. /\ bounds.size = 0 => index = PacketCount(fileSize)
        /\ bounds.size # 0 => /\ Opens(bytes, IF legacy THEN "none" ELSE "a", bounds)
                              /\ bounds.isLast <=> index = PacketCount(fileSize) - 1
    <3>1. bounds = Bounds(0)
      BY DEF bounds
    <3> QED  BY <1>5, <1>7, <2>1, <2>2, <3>1, WholeOpens
  <2> QED  BY <2>3, <2>4 DEF n
<1>8. Intact /\ ~cut => legacy \/ index # 0
  BY <1>1, <1>3 DEF PacketInv, Finished
<1>9. ASSUME UNCHANGED <<consumed, index, decrypted, total>>, reader' \in {"end", "failed"}
      PROVE  ObjectInv' /\ Intact' = Intact /\ NetworkInv' /\ HandedOn' /\ Aligned'
  <2>1. ObjectInv' /\ Intact' = Intact /\ Start' = Start /\ NetworkInv'
    <3>1. consumed' \in 0..received
      BY <1>3, <1>9
    <3> QED  BY <1>1, <3>1, KeepKeeps
  <2>2. HandedOn'
    BY <1>1, <1>4, <1>9 DEF PacketInv, HandedOn, n
  <2>3. Aligned'
    BY <1>1, <1>4, <1>9, <2>1 DEF PacketInv, Aligned
  <2> QED  BY <2>1, <2>2, <2>3
<1> HIDE DEF bytes
<1>10. CASE bounds.size = 0
  <2>1. reader' = "end" /\ UNCHANGED <<consumed, index, decrypted, total>>
    BY <1>2, <1>10
  <2>2. ObjectInv' /\ Intact' = Intact /\ NetworkInv' /\ HandedOn' /\ Aligned'
    BY <1>9, <2>1
  <2>3. ~legacy => index = n
    <3>1. Available = 0
      BY <1>5, <1>6, <1>10
    <3> QED  BY <1>1, <3>1 DEF PacketInv, Finished, n
  <2>4. Intact /\ ~cut => index = n
    BY <1>7, <1>8, <1>10
  <2>5. Finished'
    <3>1. PacketCount(fileSize)' = n /\ index' = index
      BY <1>4, <2>1 DEF n
    <3> QED  BY <1>1, <2>1, <2>2, <2>3, <2>4, <3>1 DEF Finished
  <2> QED  BY <2>2, <2>5 DEF PacketInv
<1>11. CASE bounds.size # 0 /\ Opens(bytes, Key, bounds)
  <2>1. Yield(bytes, bounds.size) /\ reader' = IF bounds.isLast THEN "end" ELSE "rest"
    <3>1. bounds.size > 0 /\ ~(bounds.size = 0)
      BY <1>6, <1>11
    <3> QED  BY <1>2, <1>11, <3>1
  <2>2. /\ ObjectInv' /\ NetworkInv' /\ HandedOn' /\ Aligned'
        /\ index' # 0 /\ consumed' = consumed + (0 + bounds.size)
        /\ ~legacy => (bounds.isLast <=> index' = n)
    <3>1. bounds.size \in Nat \ {0} /\ bytes = Peek(0, bounds.size) /\ 0 + bounds.size = bounds.size
      BY <1>6, <1>11 DEF bytes
    <3>2. Opens(bytes, Key', bounds) /\ Yield(bytes, 0 + bounds.size)
      BY <1>4, <1>11, <2>1, <3>1
    <3>3. reader' \in {"rest", "end"}
      BY <2>1
    <3>4. /\ ObjectInv' /\ NetworkInv' /\ HandedOn' /\ Aligned'
          /\ index' # 0 /\ consumed' = consumed + (0 + bounds.size)
          /\ ~legacy => (bounds.isLast <=> index' = PacketCount(fileSize))
      BY <1>1, <1>5, <1>6, <3>1, <3>2, <3>3, YieldKeeps
    <3> QED  BY <3>4 DEF n
  <2>3. Intact' = Intact /\ PacketCount(fileSize)' = n
    BY <1>1, <1>4, KeepKeeps DEF n
  <2>4. index' = index + 1 /\ index \in Nat
    BY <1>3, <2>1 DEF Yield
  <2>5. ~bounds.isLast => Available' # 0
    <3>1. Available' = received - (consumed + (0 + bounds.size))
      BY <1>1, <2>2 DEF Available
    <3>2. ASSUME NEW r \in Nat, NEW c \in Nat, NEW s \in Nat, r - (c + (0 + s)) = 0 PROVE c + 0 + s = r
      BY <3>2
    <3>3. Available' = 0 => consumed + 0 + bounds.size = received
      BY <1>3, <1>6, <3>1, <3>2
    <3> QED  BY <1>6, <3>3
  <2>6. Intact /\ ~cut /\ bounds.isLast => index' = n
    <3>1. Intact /\ ~cut /\ bounds.isLast => index = n - 1
      BY <1>7, <1>8, <1>11
    <3> QED  BY <1>4, <2>4, <3>1
  <2>7. Finished'
    <3>1. CASE bounds.isLast
      <4>1. reader' = "end"
        BY <2>1, <3>1
      <4> QED  BY <1>1, <2>2, <2>3, <2>6, <3>1, <4>1 DEF Finished
    <3>2. CASE ~bounds.isLast
      <4>1. reader' = "rest"
        BY <2>1, <3>2
      <4> QED  BY <2>2, <2>5, <3>2, <4>1 DEF Finished
    <3> QED  BY <3>1, <3>2
  <2> QED  BY <2>2, <2>7 DEF PacketInv
<1>12. CASE bounds.size # 0 /\ ~Opens(bytes, Key, bounds)
  <2>1. reader' = "failed" /\ UNCHANGED <<consumed, index, decrypted, total>>
    BY <1>2, <1>12
  <2>2. ObjectInv' /\ Intact' = Intact /\ NetworkInv' /\ HandedOn' /\ Aligned'
    BY <1>9, <2>1
  <2>3. ~Intact \/ cut
    BY <1>7, <1>8, <1>12
  <2>4. Finished'
    BY <1>1, <2>1, <2>2, <2>3 DEF Finished
  <2> QED  BY <2>2, <2>4 DEF PacketInv
<1> QED  BY <1>10, <1>11, <1>12

\* Every step keeps the invariant.
LEMMA PacketStepKeeps == PacketInv /\ [PacketNext]_packetVars => PacketInv'
<1> SUFFICES ASSUME PacketInv, [PacketNext]_packetVars PROVE PacketInv'
  OBVIOUS
<1>1. CASE UNCHANGED packetVars
  <2>1. UNCHANGED <<fileSize, legacy, object, arriving, received, consumed, streamDone, cut,
                    format, index, decrypted, total, reader>>
    BY <1>1 DEF packetVars
  <2>2. ObjectInv' /\ NetworkInv'
    BY <2>1 DEF PacketInv, ObjectInv, NetworkInv
  <2>3. HandedOn' /\ Aligned'
    BY <2>1 DEF PacketInv, HandedOn, Aligned, Key, Intact, Start
  <2>4. Finished'
    BY <2>1 DEF PacketInv, Finished, Intact, Available
  <2> QED  BY <2>2, <2>3, <2>4 DEF PacketInv
<1> QED
  BY <1>1, ReadPieceKeeps, ReadEndKeeps, SaltReadKeeps, FirstPacketKeeps, NextPacketKeeps,
     CheckSizeKeeps, CancelReadKeeps DEF PacketNext

\* The reader hands on one file's chunks in order and from its start, reports success only on the
\* whole file and refuses no intact object that arrived, however it is split; ranges are answered
\* with the bytes they name, and the sizes agree with the bytes (lib/crypto/stream.ts, packet.ts).
THEOREM ReaderDecryptsTheFile == PacketSpec => []DecryptsTheFile
<1>1. PacketInv => DecryptsTheFile
  <2> SUFFICES ASSUME PacketInv PROVE DecryptsTheFile
    OBVIOUS
  <2>1. /\ ObjectInv /\ fileSize \in Nat \ {0} /\ index \in 0..PacketCount(fileSize)
        /\ decrypted \in Seq([salt : {"a", "b", "none"}, index : Nat]) /\ Len(decrypted) = index
        /\ \A i \in 1..index : decrypted[i] = [salt |-> Key, index |-> i - 1]
    BY DEF PacketInv, ObjectInv, HandedOn
  <2>2. \A i \in DOMAIN decrypted : decrypted[i] = [salt |-> decrypted[1].salt, index |-> i - 1]
    <3>1. DOMAIN decrypted = 1..index /\ index \in Nat
      BY <2>1, LenProperties
    <3>2. ASSUME NEW i \in 1..index PROVE decrypted[i] = [salt |-> decrypted[1].salt, index |-> i - 1]
      <4>1. 1 \in 1..index
        BY <3>1
      <4>2. decrypted[1].salt = Key
        BY <2>1, <4>1
      <4> QED  BY <2>1, <4>2
    <3> QED  BY <3>1, <3>2
  <2>3. reader = "failed" => ~Intact \/ cut
    BY DEF PacketInv, Finished
  <2>4. reader = "ok" => Len(decrypted) = PacketCount(fileSize)
    BY <2>1 DEF PacketInv, Finished
  <2>5. \A start, end \in Absent..(Len(object) + 1) : RangeExact(start, end, object)
    <3> SUFFICES ASSUME NEW start \in Absent..(Len(object) + 1), NEW end \in Absent..(Len(object) + 1)
                 PROVE  RangeExact(start, end, object)
      OBVIOUS
    <3>1. start \in Nat \cup {Absent} /\ end \in Nat \cup {Absent}
      BY <2>1 DEF Absent, ObjectInv
    <3>2. object \in Seq(Bytes(fileSize))
      BY <2>1, ObjectIsBytes
    <3> QED  BY <3>1, <3>2, RangesAreExact
  <2>6. CiphertextSize(fileSize) = Len(Encrypted(fileSize, "a"))
    <3>1. Len(Encrypted(fileSize, "a")) = EndOf(SaltLength, fileSize, PacketCount(fileSize))
      BY <2>1, NewStands DEF Standing
    <3>2. EndOf(SaltLength, fileSize, PacketCount(fileSize))
            = SaltLength + fileSize + PacketCount(fileSize) * PacketOverhead
      BY <2>1, PacketsFollow, PacketAssumption
    <3> QED  BY <2>1, <3>1, <3>2 DEF CiphertextSize
  <2>7. PlaintextSize(CiphertextSize(fileSize)) = fileSize
    BY <2>1, SizesAgree
  <2> QED  BY <2>2, <2>3, <2>4, <2>5, <2>6, <2>7 DEF DecryptsTheFile
<1> QED  BY <1>1, PacketStarts, PacketStepKeeps, PTL DEF PacketSpec

=============================================================================
