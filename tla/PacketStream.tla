---------------------------- MODULE PacketStream ----------------------------
(***************************************************************************)
(* The encrypted stream of one file, its way through the route, whole or   *)
(* in windows, and its reader (lib/crypto/stream.ts, packet.ts; the ranges *)
(* of server/routes/file/[fileId]/route.ts; lib/download/parallelFetch.ts).*)
(* A byte is the packet it belongs to and its place there, so a packet     *)
(* opens when its bytes are all there, in place, and what was bound to it  *)
(* - salt, index, last or not - is what the reader expects.  Bytes arrive  *)
(* in pieces of any size, and may stop arriving; the stored object may     *)
(* hold packets out of order, twice, not at all, or of another file.       *)
(***************************************************************************)
EXTENDS Naturals, Sequences, SequencesExt

CONSTANTS ChunkSize,       \* CHUNK_SIZE
          SaltLength,      \* FILE_SALT_LENGTH
          PacketOverhead,  \* IV_LENGTH + GCM_TAG_LENGTH
          LargestFile,     \* bound: plaintext bytes of the file
          WindowSize,      \* DOWNLOAD_WINDOW_SIZE
          LargestPiece     \* bound: bytes one read of the network delivers

\* The salt (16 bytes) is shorter than what a packet adds (12 and 16), so no packet alone passes for a salt.
ASSUME PacketAssumption ==
    /\ ChunkSize \in Nat \ {0} /\ SaltLength \in Nat \ {0} /\ PacketOverhead \in Nat \ {0}
    /\ SaltLength <= PacketOverhead
    /\ WindowSize \in Nat \ {0} /\ LargestFile \in Nat \ {0} /\ LargestPiece \in Nat \ {0}

VARIABLES fileSize,   \* plaintext bytes of the file uploaded
          legacy,     \* uploaded before salt and position were bound to packets
          object,     \* the stored bytes
          arriving,   \* the bytes the answers put together make
          received, consumed,   \* bytes read from the network, and dropped from pending
          streamDone,
          cut,        \* the network ended before the object did
          format,     \* "new" once the first packet opened with its salt
          index, decrypted, total, reader

packetVars == <<fileSize, legacy, object, arriving, received, consumed, streamDone, cut,
                format, index, decrypted, total, reader>>

PackedChunkSize == ChunkSize + PacketOverhead
PacketCount(size) == (size + ChunkSize - 1) \div ChunkSize

\* The plaintext chunk at a position and its packet; salt "a" is this file's, "b" another's.
ChunkAt(size, i) == IF (i + 1) * ChunkSize <= size THEN ChunkSize ELSE size - i * ChunkSize
Packet(size, salt, i) ==
    [o \in 1..(ChunkAt(size, i) + PacketOverhead) |->
        [salt |-> salt, index |-> i, last |-> (i = PacketCount(size) - 1), size |-> ChunkAt(size, i), at |-> o]]
Salt(salt) == [o \in 1..SaltLength |-> [salt |-> salt, index |-> 0, last |-> FALSE, size |-> 0, at |-> o]]

\* iterateEncryptedChunks yields the parts sent: the packets in turn, the salt in front of the first.
Part(size, salt, i) == IF i = 0 THEN Salt(salt) \o Packet(size, salt, i) ELSE Packet(size, salt, i)
Encrypted(size, salt) == FlattenSeq([i \in 1..PacketCount(size) |-> Part(size, salt, i - 1)])
WithoutSalt(size) == FlattenSeq([i \in 1..PacketCount(size) |-> Packet(size, "none", i - 1)])

\* Objects that lost a part, repeat one, exchange two, or took one of another file.
Misassembled(size) ==
    LET n == PacketCount(size)
        all == [i \in 1..n |-> i - 1]
        From(order) == FlattenSeq([i \in DOMAIN order |-> Part(size, "a", order[i])])
    IN {From(RemoveAt(all, i)) : i \in (IF n = 1 THEN {} ELSE 1..n)}
       \cup {From(InsertAt(all, i, all[i])) : i \in 1..n}
       \cup {From([all EXCEPT ![i] = all[j], ![j] = all[i]]) : i, j \in 1..n}
       \cup {FlattenSeq([i \in 1..n |-> Part(size, IF i = j THEN "b" ELSE "a", i - 1)]) : j \in 1..n}

\* getPlaintextSizeFromCiphertextSize; -1 stands for its error.
PlaintextSize(size) ==
    LET packets == size - SaltLength
        remainder == packets % PackedChunkSize
        full == (packets \div PackedChunkSize) * ChunkSize
    IN IF size < SaltLength \/ (remainder # 0 /\ remainder <= PacketOverhead) THEN 0 - 1
       ELSE IF remainder = 0 THEN full ELSE full + (remainder - PacketOverhead)

\* getCiphertextSizeFromPlaintextSize.
CiphertextSize(size) ==
    IF size = 0 THEN 0 ELSE SaltLength + size + PacketCount(size) * PacketOverhead

\* The size stored with a file: a legacy one keeps its own, another one's is computed from the object.
Expected(old, size, bytes) == IF old THEN size ELSE PlaintextSize(Len(bytes))
ExpectedTotal == Expected(legacy, fileSize, object)

(***************************************************************************)
(* Ranges.  An absent number of "bytes=<start>-<end>" is Absent.           *)
(***************************************************************************)
Absent == 0 - 1
NoRange == [whole |-> TRUE]
Least(a, b) == IF a < b THEN a ELSE b

\* parseSingleRange: the last bytes, all from an offset, or a length from an offset.
ParsedRange(start, end) ==
    CASE start = Absent /\ end > 0 -> [suffix |-> end]
      [] start # Absent /\ end = Absent -> [offset |-> start]
      [] start # Absent /\ end >= start -> [offset |-> start, length |-> end - start + 1]
      [] OTHER -> NoRange

\* isUnsatisfiableRange
Unsatisfiable(range, size) == IF "suffix" \in DOMAIN range THEN size = 0 ELSE range.offset >= size

\* resolveServedRange: what R2 served, clamped to the object.
Served(range, size) ==
    IF "suffix" \in DOMAIN range
    THEN [offset |-> size - Least(range.suffix, size), length |-> Least(range.suffix, size)]
    ELSE LET offset == Least(range.offset, size)
         IN [offset |-> offset,
             length |-> IF "length" \in DOMAIN range THEN Least(range.length, size - offset)
                        ELSE size - offset]

\* unsatisfiableRangeResponse, and buildRangeResponse with what R2 returned.
UnsatisfiableAnswer(size) == [status |-> 416, body |-> <<>>, total |-> size]
RangeResponse(range, bytes) ==
    LET served == Served(range, Len(bytes))
    IN IF served.length = 0 THEN UnsatisfiableAnswer(Len(bytes))
       ELSE [status |-> 206, body |-> SubSeq(bytes, served.offset + 1, served.offset + served.length),
             total |-> Len(bytes)]

\* The range branch of GET; without a range it can read, the whole object is sent.
RangeAnswer(range, bytes) ==
    IF range = NoRange THEN [status |-> 200, body |-> bytes, total |-> Len(bytes)]
    ELSE IF Unsatisfiable(range, Len(bytes)) THEN UnsatisfiableAnswer(Len(bytes))
         ELSE RangeResponse(range, bytes)

\* fetchWindow: the last window ends with the object.
WindowAnswer(bytes, w) ==
    RangeAnswer(ParsedRange(w * WindowSize, Least((w + 1) * WindowSize, Len(bytes)) - 1), bytes)

\* createParallelCiphertextStream, every window answered: how windows fail is ParallelFetch's.
InWindows(bytes) ==
    LET first == RangeAnswer(ParsedRange(0, WindowSize - 1), bytes)
        windows == (first.total + WindowSize - 1) \div WindowSize
    IN IF first.status # 206 \/ first.total <= Len(first.body) THEN first.body
       ELSE first.body \o FlattenSeq([w \in 1..(windows - 1) |-> WindowAnswer(bytes, w).body])

PacketInit ==
    /\ fileSize \in 1..LargestFile
    /\ legacy \in BOOLEAN
    /\ object \in IF legacy THEN {WithoutSalt(fileSize)}
                  ELSE {o \in {Encrypted(fileSize, "a")} \cup Misassembled(fileSize) :
                           PlaintextSize(Len(o)) >= 0}
    /\ arriving \in {object, InWindows(object)}
    /\ received = 0 /\ consumed = 0 /\ streamDone = FALSE /\ cut = FALSE
    /\ format = "unknown" /\ index = 0 /\ decrypted = <<>> /\ total = 0 /\ reader = "salt"

Available == received - consumed

\* Mutant: the reader fetches one packet and not the byte that would follow it.
FillForExactly(offset) == offset + PackedChunkSize

\* What nextPacketBounds asks fillTo for: one byte more than a full packet.
FillFor(offset) == offset + PackedChunkSize + 1

Wanted == CASE reader = "salt" -> SaltLength
            [] reader = "first" -> FillFor(SaltLength)
            [] OTHER -> FillFor(0)
Reading == reader \in {"salt", "first", "rest"}
Filled == Reading /\ (Available >= Wanted \/ streamDone)

ReadPiece ==
    /\ Reading /\ ~Filled
    /\ \E n \in 1..LargestPiece :
          /\ received + n <= Len(arriving) /\ received' = received + n
    /\ UNCHANGED <<fileSize, legacy, object, arriving, consumed, streamDone, cut, format, index, decrypted, total, reader>>

ReadEnd ==
    /\ Reading /\ ~Filled
    /\ streamDone' = TRUE /\ cut' = (received < Len(object))
    /\ UNCHANGED <<fileSize, legacy, object, arriving, received, consumed, format, index, decrypted, total, reader>>

Bounds(offset) ==
    [size |-> IF Available - offset > PackedChunkSize THEN PackedChunkSize ELSE Available - offset,
     isLast |-> Available - offset <= PackedChunkSize]
Peek(offset, size) == SubSeq(arriving, consumed + offset + 1, consumed + offset + size)

\* A packet opens when it is whole and, in the new format, stands where it was made to stand.
Opens(bytes, salt, bounds) ==
    /\ Len(bytes) > PacketOverhead
    /\ Len(bytes) = bytes[1].size + PacketOverhead
    /\ \A o \in DOMAIN bytes : bytes[o] = [bytes[1] EXCEPT !.at = o]
    /\ IF salt = "none" THEN bytes[1].salt = "none"
       ELSE bytes[1].salt = salt /\ bytes[1].index = index /\ bytes[1].last = bounds.isLast

Keep == UNCHANGED <<fileSize, legacy, object, arriving, received, streamDone, cut>>

SaltRead ==
    /\ reader = "salt" /\ Filled
    /\ reader' = IF Available = 0 THEN (IF ExpectedTotal # 0 THEN "failed" ELSE "ok")
                 ELSE IF Available >= SaltLength THEN "first" ELSE "rest"
    /\ Keep /\ UNCHANGED <<consumed, format, index, decrypted, total>>

Yield(bytes, upTo) ==
    /\ decrypted' = Append(decrypted, [salt |-> bytes[1].salt, index |-> bytes[1].index])
    /\ total' = total + bytes[1].size
    /\ consumed' = consumed + upTo
    /\ index' = index + 1

\* The first packet is tried in the new format; failing that, everything is read as the old one.
FirstPacket ==
    /\ reader = "first" /\ Filled
    /\ LET bounds == Bounds(SaltLength)
           bytes == Peek(SaltLength, bounds.size)
           salt == Peek(0, SaltLength)
       IN IF /\ bounds.size > 0 /\ \A o \in 1..SaltLength : salt[o].size = 0
             /\ Opens(bytes, salt[1].salt, bounds)
          THEN Yield(bytes, SaltLength + bounds.size) /\ format' = salt[1].salt
          ELSE format' = "none" /\ UNCHANGED <<consumed, index, decrypted, total>>
    /\ reader' = "rest" /\ Keep

NextPacket ==
    /\ reader = "rest" /\ Filled
    /\ LET bounds == Bounds(0)
           bytes == Peek(0, bounds.size)
       IN CASE bounds.size = 0 -> reader' = "end" /\ UNCHANGED <<consumed, index, decrypted, total>>
            [] bounds.size > 0 /\ Opens(bytes, IF format = "unknown" THEN "none" ELSE format, bounds) ->
                 /\ Yield(bytes, bounds.size)
                 /\ reader' = IF bounds.isLast THEN "end" ELSE "rest"
            [] OTHER -> reader' = "failed" /\ UNCHANGED <<consumed, index, decrypted, total>>
    /\ Keep /\ UNCHANGED format

CheckSize ==
    /\ reader = "end"
    /\ reader' = IF total # ExpectedTotal THEN "failed" ELSE "ok"
    /\ Keep /\ UNCHANGED <<consumed, format, index, decrypted, total>>

\* The caller cancels the read.
CancelRead ==
    /\ Reading /\ reader' = "cancelled"
    /\ Keep /\ UNCHANGED <<consumed, format, index, decrypted, total>>

PacketNext == ReadPiece \/ ReadEnd \/ SaltRead \/ FirstPacket \/ NextPacket \/ CheckSize \/ CancelRead

PacketSpec == PacketInit /\ [][PacketNext]_packetVars

\* The bytes a range names (RFC 9110), and the answer made of them.
Named(start, end, size) ==
    {p \in 0..(size - 1) : IF start = Absent THEN p >= size - end
                           ELSE p >= start /\ (end = Absent \/ p <= end)}
RangeExact(start, end, bytes) ==
    LET named == Named(start, end, Len(bytes))
        answer == RangeAnswer(ParsedRange(start, end), bytes)
    IN CASE ParsedRange(start, end) = NoRange -> answer.status = 200 /\ answer.body = bytes
         [] ParsedRange(start, end) # NoRange /\ named = {} -> answer.status = 416
         [] OTHER -> /\ answer.status = 206
                     /\ \E first \in named :
                           /\ \A p \in named : first <= p
                           /\ answer.body = [o \in 1..Cardinality(named) |-> bytes[first + o]]

Intact == object = IF legacy THEN WithoutSalt(fileSize) ELSE Encrypted(fileSize, "a")

(* The reader hands on one file's chunks in order and from its start only, reports success only   *)
(* on the whole file, and never refuses a stored object that is intact and arrived to its end,    *)
(* however the network splits it, in either format, whole or in windows; a range is answered with *)
(* exactly the bytes it names; and the two size functions, which the server and the progress bar  *)
(* trust, agree with the bytes made (lib/crypto/stream.ts 163-281, packet.ts, route.ts 64-197).   *)
DecryptsTheFile ==
    /\ \A i \in DOMAIN decrypted : decrypted[i] = [salt |-> decrypted[1].salt, index |-> i - 1]
    /\ reader = "failed" => ~Intact \/ cut
    /\ reader = "ok" =>
          /\ Len(decrypted) = PacketCount(fileSize)
          /\ \A start, end \in Absent..(Len(object) + 1) : RangeExact(start, end, object)
          /\ CiphertextSize(fileSize) = Len(Encrypted(fileSize, "a"))
          /\ PlaintextSize(CiphertextSize(fileSize)) = fileSize
=============================================================================
