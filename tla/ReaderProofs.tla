---------------------------- MODULE ReaderProofs ----------------------------
(***************************************************************************)
(* Theorems about Reader, for every stream, staging buffer and rate: what  *)
(* a Sha3Reader has hashed is what its source delivered, and its digest is *)
(* that of the stream.  And the same for the readers of the example in     *)
(* LargeFileIntegrity, whose assertions hold for every image and chunk.    *)
(***************************************************************************)
EXTENDS LargeFileIntegrity, SpongeProofs

(* The inductive invariant: with each digest a block more than was read is *)
(* in the hasher, whatever is read after it.                               *)
BlockPerDigest == Len(MessageOf(sponge)) = read_pos + finals * Rate

Inv == TypeOK /\ HashedWhatWasRead /\ BlockPerDigest

LEMMA OneMore ==
  ASSUME NEW k \in Nat
  PROVE  k * Rate \in Nat /\ (k + 1) * Rate = k * Rate + Rate /\ 0 * Rate = 0
         /\ (k > 0 => k * Rate > 0)
<1>1. Rate \in Nat \ {0}
  BY RateAssumption
<1>2. k > 0 => k * Rate > 0
  BY <1>1
<1>3. QED
  BY <1>1, <1>2

LEMMA PrefixGrows ==
  ASSUME NEW d \in Seq(Byte), NEW a \in 0..Len(d), NEW b \in a..Len(d)
  PROVE  SubSeq(d, 1, a) \o SubSeq(d, a + 1, b) = SubSeq(d, 1, b)
<1>1. 1 \in 1..(Len(d) + 1) /\ a \in (1 - 1)..Len(d) /\ b \in (a + 1 - 1)..Len(d)
  OBVIOUS
<1>2. SubSeq(d, 1, a) \in Seq(Byte) /\ Len(SubSeq(d, 1, a)) = a
      /\ \A i \in 1..a : SubSeq(d, 1, a)[i] = d[i]
  <2>1. /\ SubSeq(d, 0 + 1, a) \in Seq(Byte)
        /\ Len(SubSeq(d, 0 + 1, a)) = a - 0
        /\ \A i \in 1..(a - 0) : SubSeq(d, 0 + 1, a)[i] = d[0 + i]
    BY Segment
  <2>2. QED
    BY <2>1
<1>3. SubSeq(d, 1, b) \in Seq(Byte) /\ Len(SubSeq(d, 1, b)) = b
      /\ \A i \in 1..b : SubSeq(d, 1, b)[i] = d[i]
  <2>1. /\ SubSeq(d, 0 + 1, b) \in Seq(Byte)
        /\ Len(SubSeq(d, 0 + 1, b)) = b - 0
        /\ \A i \in 1..(b - 0) : SubSeq(d, 0 + 1, b)[i] = d[0 + i]
    BY Segment
  <2>2. QED
    BY <2>1
<1>4. /\ SubSeq(d, a + 1, b) \in Seq(Byte) /\ Len(SubSeq(d, a + 1, b)) = b - a
      /\ \A i \in 1..(b - a) : SubSeq(d, a + 1, b)[i] = d[a + i]
  BY Segment
<1> DEFINE l == SubSeq(d, 1, a)
           r == SubSeq(d, a + 1, b)
<1>5. l \o r \in Seq(Byte) /\ Len(l \o r) = b
  BY <1>2, <1>4, ConcatBytes
<1>6. \A i \in 1..b : (l \o r)[i] = d[i]
  <2> TAKE i \in 1..b
  <2>1. (l \o r)[i] = IF i <= Len(l) THEN l[i] ELSE r[i - Len(l)]
    BY <1>2, <1>4, <1>5, ConcatProperties
  <2> HIDE DEF l, r
  <2>2. CASE i <= a
    BY <1>2, <2>1, <2>2 DEF l
  <2>3. CASE i > a
    <3>1. i - a \in 1..(b - a) /\ a + (i - a) = i
      BY <2>3
    <3>2. QED
      BY <1>2, <1>4, <2>1, <2>3, <3>1 DEF l, r
  <2>4. i <= a \/ i > a
    <3>1. Len(d) \in Nat
      OBVIOUS
    <3>2. a \in Int /\ i \in Int
      BY <3>1
    <3>3. QED
      BY <3>2
  <2>5. QED
    BY <2>2, <2>3, <2>4
<1> HIDE DEF l, r
<1>7. l \o r = SubSeq(d, 1, b)
  BY <1>3, <1>5, <1>6, SeqEqual
<1>8. QED
  BY <1>7 DEF l, r

(* What a read puts in front of a buffer. *)
LEMMA PutInFront ==
  ASSUME NEW L \in Nat, NEW c \in [1..L -> Byte], NEW got \in Seq(Byte), Len(got) <= L
  PROVE  /\ CopyInto(c, 0, got) \in [1..L -> Byte]
         /\ SubSeq(CopyInto(c, 0, got), 1, Len(got)) = got
<1> DEFINE n == Len(got)
           bf == CopyInto(c, 0, got)
<1>1. n \in Nat
  OBVIOUS
<1>2. \A i \in 1..n : got[i] \in Byte
  BY ElementOfSeq
<1>3. bf = [i \in 1..L |-> IF i > 0 /\ i <= n THEN got[i - 0] ELSE c[i]]
  BY DEF CopyInto
<1> HIDE DEF bf, n
<1>4. bf \in [1..L -> Byte]
  <2>1. \A i \in 1..L : (IF i > 0 /\ i <= n THEN got[i - 0] ELSE c[i]) \in Byte
    BY <1>1, <1>2
  <2>2. QED
    BY <1>3, <2>1
<1>5. n <= L
  BY DEF n
<1>6. \A i \in 1..n : bf[i] = got[i]
  BY <1>1, <1>3, <1>5
<1>7. bf \in Seq(Byte) /\ Len(bf) = L
  BY <1>4, FunctionIsSeq
<1>8. /\ SubSeq(bf, 1, n) \in Seq(Byte) /\ Len(SubSeq(bf, 1, n)) = n
      /\ \A i \in 1..n : SubSeq(bf, 1, n)[i] = bf[i]
  <2>1. /\ SubSeq(bf, 0 + 1, n) \in Seq(Byte)
        /\ Len(SubSeq(bf, 0 + 1, n)) = n - 0
        /\ \A i \in 1..(n - 0) : SubSeq(bf, 0 + 1, n)[i] = bf[0 + i]
    BY <1>1, <1>5, <1>7, Segment
  <2>2. QED
    BY <1>1, <2>1
<1>9. SubSeq(bf, 1, n) = got
  BY <1>1, <1>6, <1>8, SeqEqual DEF n
<1>10. QED
  BY <1>4, <1>9 DEF bf, n

Received(n) == CopyInto(buf, 0, Delivered(n))

LEMMA Staged ==
  ASSUME TypeOK, NEW n \in ReadSizes
  PROVE  /\ n \in Nat /\ read_pos + n <= Len(stream) /\ n <= IoBufSize
         /\ Received(n) \in [1..IoBufSize -> Byte]
         /\ SubSeq(Received(n), 1, n) = SubSeq(stream, read_pos + 1, read_pos + n)
<1> DEFINE got == SubSeq(stream, read_pos + 1, read_pos + n)
<1>1. stream \in Seq(Byte) /\ read_pos \in 0..Len(stream) /\ Len(stream) \in Nat
      /\ buf \in [1..IoBufSize -> Byte] /\ IoBufSize \in Nat \ {0}
  BY ReaderAssumption DEF TypeOK
<1>2. n \in Nat /\ read_pos + n <= Len(stream) /\ n <= IoBufSize
  BY <1>1 DEF ReadSizes, Remaining
<1>3. got \in Seq(Byte) /\ Len(got) = n
  <2> DEFINE to == read_pos + n
  <2>1. read_pos \in Nat /\ to \in Nat /\ read_pos <= to /\ to <= Len(stream) /\ to - read_pos = n
    BY <1>1, <1>2
  <2> HIDE DEF to
  <2>2. /\ SubSeq(stream, read_pos + 1, to) \in Seq(Byte)
        /\ Len(SubSeq(stream, read_pos + 1, to)) = to - read_pos
    BY <1>1, <2>1, Segment
  <2>3. QED
    BY <2>1, <2>2 DEF to
<1>4. Received(n) = CopyInto(buf, 0, got)
  BY DEF Received, Delivered
<1> HIDE DEF got
<1>5. /\ CopyInto(buf, 0, got) \in [1..IoBufSize -> Byte]
      /\ SubSeq(CopyInto(buf, 0, got), 1, n) = got
  BY <1>1, <1>2, <1>3, PutInFront
<1>6. QED
  BY <1>2, <1>4, <1>5 DEF got

(* One read, hashed. *)
LEMMA ConsumeEffect ==
  ASSUME Inv, NEW n \in ReadSizes, ConsumeBytes(Delivered(n))
  PROVE  /\ read_pos' \in 0..Len(stream) /\ read_pos' = read_pos + n
         /\ buf' \in [1..IoBufSize -> Byte]
         /\ sponge' \in SpongeType /\ Len(sponge'.state) % Rate = 0
         /\ bytes_consumed' = read_pos'
         /\ Len(MessageOf(sponge')) = read_pos' + finals * Rate
         /\ finals = 0 => MessageOf(sponge') = SubSeq(stream, 1, read_pos')
<1> DEFINE got == SubSeq(stream, read_pos + 1, read_pos + n)
<1>1. /\ stream \in Seq(Byte) /\ read_pos \in 0..Len(stream) /\ Len(stream) \in Nat
      /\ sponge \in SpongeType /\ Len(sponge.state) % Rate = 0
      /\ bytes_consumed = read_pos /\ finals \in Nat
  BY DEF Inv, TypeOK, HashedWhatWasRead
<1>2. /\ n \in Nat /\ read_pos + n <= Len(stream)
      /\ Received(n) \in [1..IoBufSize -> Byte]
      /\ SubSeq(Received(n), 1, n) = got
  BY Staged DEF Inv
<1>3. got \in Seq(Byte) /\ Len(got) = n
  <2> DEFINE to == read_pos + n
  <2>1. read_pos \in Nat /\ to \in Nat /\ read_pos <= to /\ to <= Len(stream) /\ to - read_pos = n
    BY <1>1, <1>2
  <2> HIDE DEF to
  <2>2. /\ SubSeq(stream, read_pos + 1, to) \in Seq(Byte)
        /\ Len(SubSeq(stream, read_pos + 1, to)) = to - read_pos
    BY <1>1, <2>1, Segment
  <2>3. QED
    BY <2>1, <2>2 DEF to
<1>4. SubSeq(stream, 1, read_pos) \o got = SubSeq(stream, 1, read_pos + n)
  BY <1>1, <1>2, PrefixGrows
<1>5. MessageOf(sponge) \in Seq(Byte) /\ finals * Rate \in Nat
  BY <1>1, MessageType, OneMore
<1>d. Delivered(n) = got /\ Received(n) = CopyInto(buf, 0, got)
  BY DEF Delivered, Received
<1> HIDE DEF got
<1>c. /\ buf' = Received(n) /\ read_pos' = read_pos + n
      /\ sponge' = IF n > 0 THEN Absorb(sponge, SubSeq(buf', 1, n)) ELSE sponge
      /\ bytes_consumed' = bytes_consumed + n
  BY <1>3, <1>d DEF ConsumeBytes
<1>6. /\ sponge' \in SpongeType /\ Len(sponge'.state) % Rate = 0
      /\ MessageOf(sponge') = MessageOf(sponge) \o got
  <2>1. CASE n > 0
    <3>1. sponge' = Absorb(sponge, got)
      BY <1>2, <1>c, <2>1
    <3>2. QED
      BY <1>1, <1>3, <3>1, AbsorbAppends
  <2>2. CASE ~(n > 0)
    <3>1. got = <<>>
      BY <1>2, <1>3, <2>2, EmptySeq
    <3>2. sponge' = sponge
      BY <1>c, <2>2
    <3>3. MessageOf(sponge) \o <<>> = MessageOf(sponge)
      BY <1>5, ConcatEmptySeq
    <3>4. QED
      BY <1>1, <3>1, <3>2, <3>3
  <2>3. QED
    BY <2>1, <2>2
<1>7. read_pos' = read_pos + n /\ buf' = Received(n) /\ bytes_consumed' = bytes_consumed + n
  BY <1>c
<1>8. Len(MessageOf(sponge')) = (read_pos + finals * Rate) + n
  BY <1>3, <1>5, <1>6, ConcatBytes DEF Inv, BlockPerDigest
<1>9. finals = 0 => MessageOf(sponge') = SubSeq(stream, 1, read_pos + n)
  BY <1>4, <1>6 DEF Inv, HashedWhatWasRead
<1>10. QED
  BY <1>1, <1>2, <1>5, <1>6, <1>7, <1>8, <1>9

LEMMA FinalizeEffect ==
  ASSUME Inv, Finalize
  PROVE  /\ sponge' \in SpongeType /\ Len(sponge'.state) % Rate = 0
         /\ answer' = Sha3Digest(PadMessage(MessageOf(sponge)))
         /\ Len(MessageOf(sponge')) = Len(MessageOf(sponge)) + Rate
<1>1. sponge \in SpongeType /\ Len(sponge.state) % Rate = 0
  BY DEF Inv, TypeOK
<1>2. /\ FinalizeSponge(sponge) \in SpongeType
      /\ Len(FinalizeSponge(sponge).state) % Rate = 0
      /\ FinalizeSponge(sponge).state = PadMessage(MessageOf(sponge))
      /\ Len(MessageOf(FinalizeSponge(sponge))) = Len(MessageOf(sponge)) + Rate
  BY <1>1, FinalizePads
<1>3. QED
  BY <1>2 DEF Finalize, Squeeze

-----------------------------------------------------------------------------
LEMMA InitInv == Init => Inv
<1> SUFFICES ASSUME Init PROVE Inv
  OBVIOUS
<1>1. /\ stream \in Seq(Byte) /\ read_pos = 0 /\ sponge = NewSponge
      /\ bytes_consumed = 0 /\ looping = FALSE /\ finals = 0
      /\ buf = [i \in 1..IoBufSize |-> 0]
  BY ReaderAssumption DEF Init
<1>2. buf \in [1..IoBufSize -> Byte]
  BY <1>1 DEF Byte
<1>3. Len(stream) \in Nat /\ 0 \in 0..Len(stream)
  BY <1>1
<1>4. TypeOK
  BY <1>1, <1>2, <1>3, NewSpongeEmpty DEF TypeOK
<1>5. SubSeq(stream, 1, 0) = <<>>
  <2>1. /\ SubSeq(stream, 0 + 1, 0) \in Seq(Byte)
        /\ Len(SubSeq(stream, 0 + 1, 0)) = 0 - 0
    BY <1>1, <1>3, Segment
  <2>2. QED
    BY <2>1, EmptySeq
<1>6. HashedWhatWasRead /\ BlockPerDigest
  <2>1. Len(<<>>) = 0 /\ 0 * Rate = 0
    BY OneMore
  <2>2. QED
    BY <1>1, <1>5, <2>1, NewSpongeEmpty DEF HashedWhatWasRead, BlockPerDigest
<1>7. QED
  BY <1>4, <1>6 DEF Inv

LEMMA NextInv == Inv /\ [Next]_vars => Inv'
<1> SUFFICES ASSUME Inv, [Next]_vars PROVE Inv'
  OBVIOUS
<1> USE DEF Inv
<1>1. ASSUME NEW n \in ReadSizes, ConsumeBytes(Delivered(n)), looping' \in BOOLEAN
      PROVE  Inv'
  <2>1. stream' = stream /\ finals' = finals
    BY <1>1 DEF ConsumeBytes
  <2>2. /\ read_pos' \in 0..Len(stream) /\ buf' \in [1..IoBufSize -> Byte]
        /\ sponge' \in SpongeType /\ Len(sponge'.state) % Rate = 0
        /\ bytes_consumed' = read_pos'
        /\ Len(MessageOf(sponge')) = read_pos' + finals * Rate
        /\ finals = 0 => MessageOf(sponge') = SubSeq(stream, 1, read_pos')
    BY <1>1, ConsumeEffect
  <2>3. read_pos' \in Nat
    <3>1. Len(stream) \in Nat
      BY DEF TypeOK
    <3>2. QED
      BY <2>2, <3>1
  <2>4. TypeOK'
    BY <1>1, <2>1, <2>2, <2>3 DEF TypeOK
  <2>5. HashedWhatWasRead' /\ BlockPerDigest'
    BY <2>1, <2>2 DEF HashedWhatWasRead, BlockPerDigest, MessageOf
  <2>6. QED
    BY <2>4, <2>5
<1>2. ASSUME UNCHANGED <<sourceVars, sponge, buf, bytes_consumed, finals>>, looping' \in BOOLEAN
      PROVE  Inv'
  BY <1>2 DEF TypeOK, HashedWhatWasRead, BlockPerDigest, sourceVars, MessageOf
<1>3. looping \in BOOLEAN
  BY DEF TypeOK
<1>4. CASE ConsumeChunk
  BY <1>1, <1>3, <1>4 DEF ConsumeChunk
<1>5. CASE ConsumeChunkFails
  BY <1>2, <1>3, <1>5 DEF ConsumeChunkFails, FailedRead
<1>6. CASE ConsumeAll
  BY <1>2, <1>6 DEF ConsumeAll
<1>7. CASE LoopTurn
  <2>1. PICK n \in ReadSizes : LoopTurnOn(Delivered(n))
    BY <1>7 DEF LoopTurn
  <2>2. ConsumeBytes(Delivered(n)) /\ looping' \in BOOLEAN
    BY <2>1 DEF LoopTurnOn
  <2>3. QED
    BY <1>1, <2>2
<1>8. CASE LoopFails
  BY <1>2, <1>8 DEF LoopFails, FailedRead
<1>9. CASE Finalize
  <2>1. /\ sponge' \in SpongeType /\ Len(sponge'.state) % Rate = 0
        /\ Len(MessageOf(sponge')) = Len(MessageOf(sponge)) + Rate
    BY <1>9, FinalizeEffect
  <2>2. /\ stream' = stream /\ read_pos' = read_pos /\ buf' = buf
        /\ bytes_consumed' = bytes_consumed /\ looping' = looping /\ finals' = finals + 1
    BY <1>9 DEF Finalize, sourceVars
  <2>3. finals \in Nat /\ finals' \in Nat /\ finals' # 0
    BY <2>2 DEF TypeOK
  <2>4. TypeOK'
    BY <2>1, <2>2, <2>3 DEF TypeOK
  <2>5. finals * Rate \in Nat /\ finals' * Rate = finals * Rate + Rate /\ Rate \in Nat
    BY <2>2, <2>3, OneMore, RateAssumption
  <2>6. read_pos \in Nat
    BY DEF TypeOK
  <2>7. BlockPerDigest'
    <3>1. Len(MessageOf(sponge')) = (read_pos + finals * Rate) + Rate
      BY <2>1 DEF BlockPerDigest
    <3>2. Len(MessageOf(sponge')) = read_pos' + finals' * Rate
      BY <2>2, <2>5, <2>6, <3>1
    <3>3. QED
      BY <3>2 DEF BlockPerDigest, MessageOf
  <2>8. HashedWhatWasRead'
    BY <2>2, <2>3 DEF HashedWhatWasRead
  <2>9. QED
    BY <2>4, <2>7, <2>8
<1>10. CASE UNCHANGED vars
  BY <1>2, <1>3, <1>10 DEF vars, sourceVars
<1>11. QED
  BY <1>4, <1>5, <1>6, <1>7, <1>8, <1>9, <1>10 DEF Next

LEMMA Invariance == Spec => []Inv
BY InitInv, NextInv, PTL DEF Spec

(* The reader, its staging buffer and its hasher are well typed, and the   *)
(* state holds whole blocks (io.rs, Sha3Reader).                           *)
THEOREM TypeCorrect == Spec => []TypeOK
BY Invariance, PTL DEF Inv

(* For every stream and every way its source splits it into reads, fails   *)
(* and is tried again, the hasher stands for what was read, byte for byte  *)
(* (io.rs, consume_chunk and consume_all).                                 *)
THEOREM HashesTheStream == Spec => []HashedWhatWasRead
BY Invariance, PTL DEF Inv

(* A digest, and an answer of the loop, in one step. *)
LEMMA FirstDigest ==
  ASSUME Inv, Finalize, finals = 0 \/ read_pos = Len(stream)
  PROVE  answer' = Sha3Digest(Digest(stream)) <=> finals = 0 /\ read_pos = Len(stream)
<1> DEFINE msg == MessageOf(sponge)
<1>1. /\ stream \in Seq(Byte) /\ Len(stream) \in Nat /\ read_pos \in 0..Len(stream)
      /\ sponge \in SpongeType /\ Len(sponge.state) % Rate = 0 /\ finals \in Nat
  BY DEF Inv, TypeOK
<1>2. msg \in Seq(Byte)
  BY <1>1, MessageType
<1>3. answer' = Sha3Digest(PadMessage(msg))
  BY FinalizeEffect
<1>4. Len(msg) = read_pos + finals * Rate /\ (finals = 0 => msg = SubSeq(stream, 1, read_pos))
  BY DEF Inv, BlockPerDigest, HashedWhatWasRead
<1> HIDE DEF msg
<1>5. answer' = Sha3Digest(Digest(stream)) <=> msg = stream
  <2>1. answer' = Sha3Digest(Digest(stream)) <=> PadMessage(msg) = PadMessage(stream)
    BY <1>3 DEF Sha3Digest, Digest
  <2>2. PadMessage(msg) = PadMessage(stream) => msg = stream
    BY <1>1, <1>2, PaddingInjective
  <2>3. QED
    BY <2>1, <2>2
<1>6. finals * Rate \in Nat /\ 0 * Rate = 0 /\ (finals > 0 => finals * Rate > 0)
  BY <1>1, OneMore
<1>7. msg = stream => finals = 0 /\ read_pos = Len(stream)
  <2> SUFFICES ASSUME msg = stream
               PROVE  finals = 0 /\ read_pos = Len(stream)
    OBVIOUS
  <2>1. Len(stream) = read_pos + finals * Rate
    BY <1>4
  <2>2. CASE finals = 0
    BY <1>1, <1>6, <2>1, <2>2
  <2>3. CASE read_pos = Len(stream)
    BY <1>1, <1>6, <2>1, <2>3
  <2>4. QED
    BY <2>2, <2>3
<1>8. finals = 0 /\ read_pos = Len(stream) => msg = stream
  <2>1. SubSeq(stream, 1, Len(stream)) = stream
    BY <1>1
  <2>2. QED
    BY <1>4, <2>1
<1>9. QED
  BY <1>5, <1>7, <1>8

LEMMA LoopAnswersAtEnd ==
  ASSUME Inv, LoopTurn, ~looping'
  PROVE  read_pos = Len(stream) /\ answer' = Count(Len(stream))
<1>2. PICK n \in ReadSizes : LoopTurnOn(Delivered(n))
  BY DEF LoopTurn
<1>3. Len(Delivered(n)) = n /\ n \in Nat
  <2>1. /\ stream \in Seq(Byte) /\ read_pos \in 0..Len(stream) /\ Len(stream) \in Nat
        /\ n \in Nat /\ read_pos + n <= Len(stream)
    BY Staged DEF Inv, TypeOK
  <2>2. Len(SubSeq(stream, read_pos + 1, read_pos + n)) = (read_pos + n) - read_pos
    BY <2>1, Segment
  <2>3. QED
    BY <2>1, <2>2 DEF Delivered
<1>4. n = 0 /\ answer' = Count(bytes_consumed')
  BY <1>2, <1>3 DEF LoopTurnOn
<1>5. read_pos = Len(stream)
  <2>1. Remaining = 0
    BY <1>4 DEF ReadSizes
  <2>2. QED
    BY <2>1 DEF Remaining, Inv, TypeOK
<1>6. bytes_consumed' = bytes_consumed
  <2>1. bytes_consumed' = bytes_consumed + Len(Delivered(n))
    BY <1>2 DEF LoopTurnOn, ConsumeBytes
  <2>2. QED
    BY <1>3, <1>4, <2>1 DEF Inv, TypeOK
<1>7. QED
  BY <1>4, <1>5, <1>6 DEF Inv, HashedWhatWasRead

(* The first digest of a reader at the end of its stream is the stream's,  *)
(* and no other digest at the end, and no first digest before the end, is  *)
(* (io.rs, finalize).                                                      *)
THEOREM DigestIsOfTheStream == Spec => DigestOfWholeStream
<1> DEFINE Good == Finalize /\ (finals = 0 \/ read_pos = Len(stream)) =>
              (answer' = Sha3Digest(Digest(stream)) <=> finals = 0 /\ read_pos = Len(stream))
<1>1. Inv /\ [Next]_vars => [Good]_vars
  BY FirstDigest
<1>2. QED
  BY <1>1, Invariance, PTL DEF Spec, DigestOfWholeStream

(* consume_all answers Ok only when all of the stream has been read, and   *)
(* with its length (io.rs, consume_all): see OkOnlyAtEnd.                  *)
THEOREM OkAtEnd == Spec => OkOnlyAtEnd
<1> DEFINE Ended == looping /\ ~looping' /\ answer' # Error =>
              read_pos = Len(stream) /\ answer' = Count(Len(stream))
<1>1. Inv /\ [Next]_vars => [Ended]_vars
  <2> SUFFICES ASSUME Inv, Next, looping, ~looping', answer' # Error
               PROVE  read_pos = Len(stream) /\ answer' = Count(Len(stream))
    OBVIOUS
  <2>1. LoopTurn
    <3>1. ~ConsumeChunk /\ ~ConsumeChunkFails /\ ~ConsumeAll /\ ~Finalize /\ ~LoopFails
      BY DEF ConsumeChunk, ConsumeChunkFails, ConsumeAll, Finalize, LoopFails
    <3>2. QED
      BY <3>1 DEF Next
  <2>2. QED
    BY <2>1, LoopAnswersAtEnd
<1>2. QED
  BY <1>1, Invariance, PTL DEF Spec, OkOnlyAtEnd
-----------------------------------------------------------------------------
(* The example of LargeFileIntegrity: the image goes along with the stream *)
(* that it is read as.                                                     *)
Whole == Sha3Digest(Digest(stream))

ImageOf(turns) == [remaining |-> Len(stream) - turns, turns |-> turns]

ImageInv ==
  /\ way \in {"other", "done"} \cup Ways
  /\ way # "other" =>
       /\ \A i \in 1..Len(stream) : stream[i] = Generated[i]
       /\ \E turns \in 0..Len(stream) : image = ImageOf(turns)

ReaderTestInv ==
  way \in {"reader", "hash_reader"} =>
    /\ image = ImageOf(read_pos) /\ hasher = NewSponge
    /\ answer.kind \in {"none", "bytes", "digest"}
    /\ looping => answer = None
    /\ answer.kind # "digest" => finals = 0
    /\ answer.kind = "bytes" => read_pos = Len(stream)
    /\ answer.kind = "digest" => answer = Whole /\ digests[way] = Whole

UpdateTestInv ==
  way = "update" =>
    /\ hasher \in SpongeType /\ Len(hasher.state) % Rate = 0
    /\ MessageOf(hasher) = SubSeq(stream, 1, image.turns)

DigestsInv ==
  /\ chunk \in [1..GenChunk -> Byte]
  /\ digests \in [Ways -> {None, Whole}]
  /\ way \in {"hash_reader", "update", "done"} => digests["reader"] = Whole
  /\ way \in {"update", "done"} => digests["hash_reader"] = Whole
  /\ way = "done" => digests["update"] = Whole

IntegrityInv == Inv /\ ImageInv /\ ReaderTestInv /\ UpdateTestInv /\ DigestsInv

(* The asserts of the example, at any time: a digest that was taken is     *)
(* that of the image, and at the end there are three.                      *)
AssertsHold ==
  /\ \A w \in Ways : digests[w] \in {None, Whole}
  /\ way = "done" => AllAgree

LEMMA AnswerKinds ==
  /\ None.kind = "none" /\ Error.kind = "error"
  /\ \A n : Count(n).kind = "bytes" /\ Count(n) # None /\ Count(n) # Error
  /\ \A d : Sha3Digest(d).kind = "digest"
BY DEF None, Error, Count, Sha3Digest

(* A read of the image is one of the stream. *)
LEMMA ReadDelivers ==
  ASSUME stream \in Seq(Byte), NEW turns \in 0..Len(stream), image = ImageOf(turns),
         \A i \in 1..Len(stream) : stream[i] = Generated[i],
         NEW len \in Nat \ {0}
  PROVE  LET read == ImageRead(image, len)
             n == Len(read.bytes)
         IN  /\ n \in Nat /\ n <= len /\ turns + n \in 0..Len(stream)
             /\ n = 0 <=> turns = Len(stream)
             /\ read.bytes = SubSeq(stream, turns + 1, turns + n)
             /\ read.bytes \in Seq(Byte) /\ (read.bytes = <<>> <=> n = 0)
             /\ read.image = ImageOf(turns + n)
<1> DEFINE rest == Len(stream) - turns
           k == IF len < rest THEN len ELSE rest
           got == [i \in 1..k |-> Generated[turns + i]]
<1>1. Len(stream) \in Nat /\ turns \in Nat /\ rest \in Nat
  OBVIOUS
<1>2. /\ k \in Nat /\ k <= len /\ turns + k \in 0..Len(stream)
      /\ k = 0 <=> turns = Len(stream)
  BY <1>1
<1>3. image.remaining = rest /\ image.turns = turns
  BY DEF ImageOf
<1>4. /\ ImageRead(image, len).bytes = got
      /\ ImageRead(image, len).image = [remaining |-> rest - k, turns |-> turns + k]
  BY <1>3 DEF ImageRead
<1>5. rest - k = Len(stream) - (turns + k)
  BY <1>1, <1>2
<1> HIDE DEF rest, k
<1>6. /\ SubSeq(stream, turns + 1, turns + k) \in Seq(Byte)
      /\ Len(SubSeq(stream, turns + 1, turns + k)) = (turns + k) - turns
      /\ \A i \in 1..((turns + k) - turns) :
            SubSeq(stream, turns + 1, turns + k)[i] = stream[turns + i]
  <2>1. turns + k \in turns..Len(stream)
    BY <1>1, <1>2
  <2>2. QED
    BY <2>1, Segment
<1>7. (turns + k) - turns = k
  BY <1>1, <1>2
<1>8. \A i \in 1..k : turns + i \in 1..Len(stream) /\ stream[turns + i] = Generated[turns + i]
  BY <1>1, <1>2
<1>9. got \in Seq(Byte) /\ Len(got) = k
  <2>1. \A i \in 1..k : Generated[turns + i] \in Byte
    BY <1>8, ElementOfSeq
  <2>2. got \in [1..k -> Byte]
    BY <2>1
  <2> HIDE DEF got
  <2>3. QED
    BY <1>2, <2>2, FunctionIsSeq
<1>10. got = SubSeq(stream, turns + 1, turns + k)
  <2>1. \A i \in 1..k : got[i] = stream[turns + i]
    BY <1>8
  <2> HIDE DEF got
  <2>2. QED
    BY <1>6, <1>7, <1>9, <2>1, SeqEqual
<1> HIDE DEF got
<1>11. got = <<>> <=> k = 0
  BY <1>9, EmptySeq
<1>12. ImageRead(image, len).image = ImageOf(turns + k)
  BY <1>4, <1>5 DEF ImageOf
<1>13. QED
  BY <1>2, <1>4, <1>9, <1>10, <1>11, <1>12

LEMMA IntegrityStart == IntegrityInit => IntegrityInv
<1> SUFFICES ASSUME IntegrityInit PROVE IntegrityInv
  OBVIOUS
<1> USE AnswerKinds
<1>1. Inv
  BY InitInv DEF IntegrityInit
<1>2. /\ hasher = NewSponge /\ read_pos = 0 /\ answer = None /\ finals = 0 /\ looping = FALSE
      /\ digests = [w \in Ways |-> None]
  BY DEF IntegrityInit, Init
<1>3. way \in {"other", "reader"}
  BY DEF IntegrityInit
<1>4. DigestsInv
  <2>1. chunk \in [1..GenChunk -> Byte]
    BY DEF IntegrityInit, Byte
  <2>2. QED
    BY <1>2, <1>3, <2>1 DEF DigestsInv, Ways
<1>5. way = "reader" => image = ImageOf(0) /\ \A i \in 1..Len(stream) : stream[i] = Generated[i]
  <2> SUFFICES ASSUME way = "reader"
               PROVE  image = ImageOf(0) /\ \A i \in 1..Len(stream) : stream[i] = Generated[i]
    OBVIOUS
  <2>1. PICK size \in ImageSizes : image = NewImage(size) /\ stream = Contents(size)
    BY DEF IntegrityInit
  <2>2. size \in Nat
    BY IntegrityAssumption
  <2>3. Contents(size) = [i \in 1..size |-> Generated[0 + i]]
    BY <2>2 DEF Contents, ImageRead, NewImage
  <2>4. Len(stream) = size /\ \A i \in 1..size : stream[i] = Generated[i]
    BY <2>1, <2>2, <2>3
  <2>5. QED
    BY <2>1, <2>2, <2>4 DEF NewImage, ImageOf
<1>6. 0 \in 0..Len(stream)
  BY <1>1 DEF Inv, TypeOK
<1>7. QED
  BY <1>1, <1>2, <1>3, <1>4, <1>5, <1>6 DEF IntegrityInv, ImageInv, ReaderTestInv, UpdateTestInv, Ways

(* A turn of the loop over the image is a turn over the stream. *)
LEMMA ImageTurn ==
  ASSUME IntegrityInv, way \in {"reader", "hash_reader"}, ReadImage
  PROVE  LoopTurn /\ image' = ImageOf(read_pos') /\ read_pos' \in 0..Len(stream)
<1> DEFINE read == ImageRead(image, IoBufSize)
           n == Len(read.bytes)
<1>1. /\ stream \in Seq(Byte) /\ read_pos \in 0..Len(stream) /\ image = ImageOf(read_pos)
      /\ Len(stream) \in Nat /\ IoBufSize \in Nat \ {0}
      /\ \A i \in 1..Len(stream) : stream[i] = Generated[i]
  BY ReaderAssumption DEF IntegrityInv, Inv, TypeOK, ImageInv, ReaderTestInv
<1>2. /\ n \in Nat /\ n <= IoBufSize /\ read_pos + n \in 0..Len(stream)
      /\ n = 0 <=> read_pos = Len(stream)
      /\ read.bytes = SubSeq(stream, read_pos + 1, read_pos + n)
      /\ read.image = ImageOf(read_pos + n)
  BY <1>1, ReadDelivers
<1>3. looping /\ LoopTurnOn(read.bytes) /\ image' = read.image
  BY DEF ReadImage
<1> HIDE DEF read, n
<1>4. read.bytes = Delivered(n)
  BY <1>2 DEF Delivered
<1>5. n \in ReadSizes
  BY <1>1, <1>2 DEF ReadSizes, Remaining
<1>6. LoopTurn
  BY <1>3, <1>4, <1>5 DEF LoopTurn
<1>7. read_pos' = read_pos + n
  BY <1>3 DEF LoopTurnOn, ConsumeBytes, n
<1>8. QED
  BY <1>2, <1>3, <1>6, <1>7

(* What the steps of a test with a reader do to the reader: they are steps *)
(* of Reader, until the next test makes a new one.                         *)
Restart == StartOver("hash_reader") \/ StartOver("update")

LEMMA ReaderTestStep ==
  ASSUME IntegrityInv, ReaderTest \/ HashReader
  PROVE  way \in {"reader", "hash_reader"} /\ (Next \/ Restart)
<1>1. way \in {"reader", "hash_reader"}
  BY DEF ReaderTest, HashReader
<1>2. BeginAll \/ ReadImage \/ TakeDigest \/ Restart
  BY DEF ReaderTest, HashReader, Restart
<1>3. ReadImage => LoopTurn
  BY <1>1, ImageTurn
<1>4. QED
  BY <1>1, <1>2, <1>3 DEF BeginAll, TakeDigest, Next

LEMMA RestartInv ==
  ASSUME Inv, NEW next, StartOver(next)
  PROVE  Inv'
<1>1. /\ stream \in Seq(Byte) /\ looping \in BOOLEAN
      /\ stream' = stream /\ looping' = looping
      /\ read_pos' = 0 /\ sponge' = NewSponge /\ bytes_consumed' = 0 /\ finals' = 0
      /\ buf' = [i \in 1..IoBufSize |-> 0]
  BY DEF Inv, TypeOK, StartOver
<1>2. buf' \in [1..IoBufSize -> Byte]
  BY <1>1 DEF Byte
<1>3. Len(stream) \in Nat /\ 0 \in 0..Len(stream)
  BY <1>1
<1>4. TypeOK'
  BY <1>1, <1>2, <1>3, NewSpongeEmpty DEF TypeOK
<1>5. SubSeq(stream, 1, 0) = <<>>
  <2>1. /\ SubSeq(stream, 0 + 1, 0) \in Seq(Byte)
        /\ Len(SubSeq(stream, 0 + 1, 0)) = 0 - 0
    BY <1>1, <1>3, Segment
  <2>2. QED
    BY <2>1, EmptySeq
<1>6. MessageOf(sponge') = <<>> /\ Len(<<>>) = 0 /\ 0 * Rate = 0
  BY <1>1, NewSpongeEmpty, OneMore
<1>7. HashedWhatWasRead' /\ BlockPerDigest'
  <2>1. MessageOf(sponge)' = <<>>
    BY <1>6 DEF MessageOf
  <2>2. SubSeq(stream', 1, read_pos') = <<>>
    BY <1>1, <1>5
  <2>3. read_pos' + finals' * Rate = 0
    BY <1>1, <1>6
  <2>4. HashedWhatWasRead'
    BY <1>1, <2>1, <2>2 DEF HashedWhatWasRead
  <2>5. QED
    BY <1>6, <2>1, <2>3, <2>4 DEF BlockPerDigest
<1>8. QED
  BY <1>4, <1>7 DEF Inv

(* Each step of the example keeps the invariant. *)
LEMMA ReaderTestKeeps ==
  ASSUME IntegrityInv, ReaderTest \/ HashReader
  PROVE  IntegrityInv'
<1> USE AnswerKinds
<1>1. way \in {"reader", "hash_reader"} /\ (Next \/ Restart)
  BY ReaderTestStep
<1>2. /\ Inv /\ ImageInv /\ DigestsInv
      /\ image = ImageOf(read_pos) /\ hasher = NewSponge
      /\ answer.kind \in {"none", "bytes", "digest"}
      /\ looping => answer = None
      /\ answer.kind # "digest" => finals = 0
      /\ answer.kind = "bytes" => read_pos = Len(stream)
      /\ answer.kind = "digest" => answer = Whole /\ digests[way] = Whole
      /\ \A i \in 1..Len(stream) : stream[i] = Generated[i]
      /\ looping \in BOOLEAN /\ read_pos \in 0..Len(stream)
      /\ digests \in [Ways -> {None, Whole}]
  BY <1>1 DEF IntegrityInv, ReaderTestInv, ImageInv, DigestsInv, Inv, TypeOK
<1>3. Inv'
  BY <1>1, <1>2, NextInv, RestartInv DEF Restart
<1>4. CASE BeginAll
  <2>1. /\ answer = None /\ answer' = None /\ looping' = TRUE
        /\ UNCHANGED <<stream, read_pos, finals, way, image, hasher, chunk, digests>>
    BY <1>4 DEF BeginAll, ConsumeAll, sourceVars, testVars
  <2>2. ImageInv' /\ UpdateTestInv' /\ DigestsInv'
    BY <1>1, <1>2, <2>1 DEF ImageInv, UpdateTestInv, DigestsInv, ImageOf, Whole, Ways
  <2>3. ReaderTestInv'
    BY <1>2, <2>1 DEF ReaderTestInv, ImageOf
  <2>4. QED
    BY <1>3, <2>2, <2>3 DEF IntegrityInv
<1>5. CASE ReadImage
  <2>1. LoopTurn /\ image' = ImageOf(read_pos') /\ read_pos' \in 0..Len(stream)
    BY <1>1, <1>5, ImageTurn
  <2>2. looping /\ UNCHANGED <<stream, finals, way, hasher, chunk, digests>>
    BY <1>5 DEF ReadImage, LoopTurnOn, ConsumeBytes
  <2>3. \/ looping' /\ answer' = answer
        \/ ~looping' /\ \E n : answer' = Count(n)
    BY <1>5 DEF ReadImage, LoopTurnOn
  <2>4. ~looping' => read_pos = Len(stream) /\ read_pos' = Len(stream)
    <3>1. ~looping' => read_pos = Len(stream)
      BY <1>2, <2>1, LoopAnswersAtEnd
    <3>2. PICK n \in ReadSizes : ConsumeBytes(Delivered(n))
      BY <2>1 DEF LoopTurn, LoopTurnOn
    <3>3. read_pos' = read_pos + n
      BY <1>2, <3>2, ConsumeEffect
    <3>4. read_pos = Len(stream) => n = 0
      BY <1>2 DEF ReadSizes, Remaining, Inv, TypeOK
    <3>5. QED
      BY <1>2, <3>1, <3>3, <3>4 DEF Inv, TypeOK
  <2>5. ImageInv' /\ UpdateTestInv' /\ DigestsInv'
    BY <1>1, <1>2, <2>1, <2>2 DEF ImageInv, UpdateTestInv, DigestsInv, ImageOf, Whole, Ways
  <2>6. ReaderTestInv'
    BY <1>2, <2>1, <2>2, <2>3, <2>4 DEF ReaderTestInv, ImageOf
  <2>7. QED
    BY <1>3, <2>5, <2>6 DEF IntegrityInv
<1>6. CASE TakeDigest
  <2>1. /\ answer.kind = "bytes" /\ Finalize /\ digests' = [digests EXCEPT ![way] = answer']
        /\ UNCHANGED <<stream, read_pos, looping, way, image, hasher, chunk>>
    BY <1>6 DEF TakeDigest, Finalize, sourceVars
  <2>2. answer' = Whole
    BY <1>2, <2>1, FirstDigest DEF Whole
  <2>3. way \in Ways /\ digests' \in [Ways -> {None, Whole}] /\ digests'[way] = Whole
        /\ \A w \in Ways : digests[w] = Whole => digests'[w] = Whole
    BY <1>1, <1>2, <2>1, <2>2 DEF Ways
  <2>4. Whole' = Whole /\ \A turns : ImageOf(turns)' = ImageOf(turns)
    BY <2>1 DEF Whole, ImageOf
  <2>5. DigestsInv'
    BY <1>1, <1>2, <2>1, <2>3, <2>4 DEF DigestsInv, Ways
  <2>6. ImageInv' /\ UpdateTestInv'
    BY <1>1, <1>2, <2>1, <2>4 DEF ImageInv, UpdateTestInv, ImageOf
  <2>7. ~looping
    BY <1>2, <2>1
  <2>8. ReaderTestInv'
    BY <1>2, <2>1, <2>2, <2>3, <2>4, <2>7 DEF ReaderTestInv, ImageOf, Whole, Sha3Digest
  <2>9. QED
    BY <1>3, <2>5, <2>6, <2>8 DEF IntegrityInv
<1>7. ASSUME NEW next \in {"hash_reader", "update"}, StartOver(next),
             next = IF way = "reader" THEN "hash_reader" ELSE "update"
      PROVE  IntegrityInv'
  <2>1. /\ answer.kind = "digest" /\ way' = next /\ image' = NewImage(Len(stream))
        /\ read_pos' = 0 /\ answer' = None /\ finals' = 0
        /\ UNCHANGED <<stream, looping, hasher, chunk, digests>>
    BY <1>7 DEF StartOver
  <2>2. ~looping /\ digests[way] = Whole
    BY <1>2, <2>1
  <2>3. image' = ImageOf(0) /\ 0 \in 0..Len(stream)
    BY <1>2, <2>1 DEF NewImage, ImageOf, Inv, TypeOK
  <2>4. Whole' = Whole /\ \A turns : ImageOf(turns)' = ImageOf(turns)
    BY <2>1 DEF Whole, ImageOf
  <2>5. ImageInv'
    BY <1>2, <2>1, <2>3, <2>4 DEF ImageInv, ImageOf, Ways
  <2>6. DigestsInv'
    BY <1>1, <1>2, <1>7, <2>1, <2>2, <2>4 DEF DigestsInv
  <2>7. ReaderTestInv'
    BY <1>2, <2>1, <2>2, <2>3 DEF ReaderTestInv, ImageOf
  <2>8. UpdateTestInv'
    <3>1. stream \in Seq(Byte) /\ Len(stream) \in Nat
      BY <1>2 DEF Inv, TypeOK
    <3>2. SubSeq(stream, 1, 0) = <<>>
      <4>1. /\ SubSeq(stream, 0 + 1, 0) \in Seq(Byte)
            /\ Len(SubSeq(stream, 0 + 1, 0)) = 0 - 0
        BY <2>3, <3>1, Segment
      <4>2. QED
        BY <4>1, EmptySeq
    <3>3. image'.turns = 0 /\ hasher' = NewSponge /\ stream' = stream
      BY <1>2, <2>1, <2>3 DEF ImageOf
    <3>4. QED
      BY <3>2, <3>3, NewSpongeEmpty DEF UpdateTestInv, MessageOf
  <2>9. QED
    BY <1>3, <2>5, <2>6, <2>7, <2>8 DEF IntegrityInv
<1>8. QED
  BY <1>4, <1>5, <1>6, <1>7 DEF ReaderTest, HashReader

(* A chunk of any other length: what it is fed is the next of the stream. *)
LEMMA UpdateTurnKeeps ==
  ASSUME IntegrityInv, UpdateTurn
  PROVE  IntegrityInv'
<1> DEFINE read == ImageRead(image, GenChunk)
           n == Len(read.bytes)
<1>1. /\ way = "update" /\ read.bytes # <<>>
      /\ chunk' = CopyInto(chunk, 0, read.bytes)
      /\ hasher' = Absorb(hasher, SubSeq(chunk', 1, Len(read.bytes)))
      /\ image' = read.image
      /\ UNCHANGED <<vars, way, digests>>
  BY DEF UpdateTurn
<1>2. /\ Inv /\ ImageInv /\ DigestsInv
      /\ stream \in Seq(Byte) /\ Len(stream) \in Nat /\ GenChunk \in Nat \ {0}
      /\ chunk \in [1..GenChunk -> Byte]
      /\ hasher \in SpongeType /\ Len(hasher.state) % Rate = 0
      /\ MessageOf(hasher) = SubSeq(stream, 1, image.turns)
  BY <1>1, IntegrityAssumption DEF IntegrityInv, UpdateTestInv, DigestsInv, Inv, TypeOK
<1>3. PICK turns \in 0..Len(stream) : image = ImageOf(turns)
  BY <1>1, <1>2 DEF ImageInv
<1>4. /\ n \in Nat /\ n <= GenChunk /\ turns + n \in 0..Len(stream)
      /\ read.bytes = SubSeq(stream, turns + 1, turns + n) /\ read.bytes \in Seq(Byte)
      /\ read.image = ImageOf(turns + n)
  <2>1. \A i \in 1..Len(stream) : stream[i] = Generated[i]
    BY <1>1, <1>2 DEF ImageInv
  <2>2. QED
    BY <1>2, <1>3, <2>1, ReadDelivers
<1>5. image.turns = turns /\ image'.turns = turns + n
  BY <1>1, <1>3, <1>4 DEF ImageOf
<1> HIDE DEF read, n
<1>6. chunk' \in [1..GenChunk -> Byte] /\ hasher' = Absorb(hasher, read.bytes)
  <2>1. /\ GenChunk \in Nat /\ chunk \in [1..GenChunk -> Byte]
        /\ read.bytes \in Seq(Byte) /\ Len(read.bytes) <= GenChunk
    BY <1>2, <1>4 DEF n
  <2>2. /\ CopyInto(chunk, 0, read.bytes) \in [1..GenChunk -> Byte]
        /\ SubSeq(CopyInto(chunk, 0, read.bytes), 1, Len(read.bytes)) = read.bytes
    BY <2>1, PutInFront
  <2>3. QED
    BY <1>1, <2>2
<1>7. /\ hasher' \in SpongeType /\ Len(hasher'.state) % Rate = 0
      /\ MessageOf(hasher') = SubSeq(stream, 1, turns) \o read.bytes
  BY <1>2, <1>4, <1>5, <1>6, AbsorbAppends
<1>8. SubSeq(stream, 1, turns) \o read.bytes = SubSeq(stream, 1, turns + n)
  BY <1>2, <1>4, PrefixGrows
<1>9. Inv'
  BY <1>1, <1>2, NextInv
<1>10. stream' = stream /\ Whole' = Whole /\ \A t : ImageOf(t)' = ImageOf(t)
  BY <1>1 DEF vars, Whole, ImageOf
<1>11. UpdateTestInv'
  <2>1. MessageOf(hasher)' = SubSeq(stream, 1, turns + n)
    BY <1>7, <1>8 DEF MessageOf
  <2>2. QED
    BY <1>5, <1>7, <1>10, <2>1 DEF UpdateTestInv
<1>12. ImageInv'
  BY <1>1, <1>2, <1>4, <1>10 DEF ImageInv, ImageOf
<1>13. DigestsInv' /\ ReaderTestInv'
  BY <1>1, <1>2, <1>6, <1>10 DEF DigestsInv, ReaderTestInv
<1>14. QED
  BY <1>9, <1>11, <1>12, <1>13 DEF IntegrityInv

(* An empty read is the end of the image, whatever the chunk. *)
LEMMA UpdateEndKeeps ==
  ASSUME IntegrityInv, UpdateEnd
  PROVE  IntegrityInv'
<1> DEFINE read == ImageRead(image, GenChunk)
<1>1. /\ way = "update" /\ read.bytes = <<>> /\ way' = "done" /\ image' = read.image
      /\ hasher' = FinalizeSponge(hasher)
      /\ digests' = [digests EXCEPT !["update"] = Sha3Digest(Squeeze(hasher'.state))]
      /\ UNCHANGED <<vars, chunk>>
  BY DEF UpdateEnd
<1>2. /\ Inv /\ ImageInv /\ DigestsInv
      /\ stream \in Seq(Byte) /\ Len(stream) \in Nat /\ GenChunk \in Nat \ {0}
      /\ chunk \in [1..GenChunk -> Byte] /\ digests \in [Ways -> {None, Whole}]
      /\ hasher \in SpongeType /\ Len(hasher.state) % Rate = 0
      /\ MessageOf(hasher) = SubSeq(stream, 1, image.turns)
  BY <1>1, IntegrityAssumption DEF IntegrityInv, UpdateTestInv, DigestsInv, Inv, TypeOK
<1>3. PICK turns \in 0..Len(stream) : image = ImageOf(turns)
  BY <1>1, <1>2 DEF ImageInv
<1>4. turns = Len(stream) /\ read.image = ImageOf(turns + 0)
  <2>1. \A i \in 1..Len(stream) : stream[i] = Generated[i]
    BY <1>1, <1>2 DEF ImageInv
  <2>2. /\ Len(read.bytes) = 0 <=> turns = Len(stream)
        /\ read.bytes = <<>> <=> Len(read.bytes) = 0
        /\ read.image = ImageOf(turns + Len(read.bytes))
    BY <1>2, <1>3, <2>1, ReadDelivers
  <2> HIDE DEF read
  <2>3. QED
    BY <1>1, <2>2
<1>5. MessageOf(hasher) = stream
  <2>1. image.turns = Len(stream)
    BY <1>3, <1>4 DEF ImageOf
  <2>2. QED
    BY <1>2, <2>1
<1> HIDE DEF read
<1>6. hasher'.state = PadMessage(stream)
  BY <1>1, <1>2, <1>5, FinalizePads
<1>7. digests' = [digests EXCEPT !["update"] = Whole]
  BY <1>1, <1>6 DEF Squeeze, Whole, Digest
<1>8. stream' = stream /\ Whole' = Whole /\ \A t : ImageOf(t)' = ImageOf(t)
  BY <1>1 DEF vars, Whole, ImageOf
<1>9. Inv'
  BY <1>1, <1>2, NextInv
<1>10. image' = ImageOf(turns)
  <2>1. turns + 0 = turns
    OBVIOUS
  <2>2. QED
    BY <1>1, <1>4, <2>1
<1>11. ImageInv' /\ ReaderTestInv' /\ UpdateTestInv'
  BY <1>1, <1>2, <1>8, <1>10 DEF ImageInv, ReaderTestInv, UpdateTestInv
<1>12. DigestsInv'
  BY <1>1, <1>2, <1>7, <1>8 DEF DigestsInv, Ways
<1>13. QED
  BY <1>9, <1>11, <1>12 DEF IntegrityInv

LEMMA IntegrityKeeps ==
  IntegrityInv /\ [OtherCaller \/ StressTest]_integrityVars => IntegrityInv'
<1> SUFFICES ASSUME IntegrityInv, [OtherCaller \/ StressTest]_integrityVars PROVE IntegrityInv'
  OBVIOUS
<1>1. ASSUME way = "other" \/ UNCHANGED vars, [Next]_vars, UNCHANGED testVars
      PROVE  IntegrityInv'
  <2>1. Inv'
    BY <1>1, NextInv DEF IntegrityInv
  <2>2. stream' = stream
    BY <1>1 DEF Next, vars, ConsumeChunk, ConsumeChunkFails, ConsumeAll, LoopTurn, LoopTurnOn,
                LoopFails, Finalize, ConsumeBytes, FailedRead, sourceVars
  <2>3. Whole' = Whole /\ \A t : ImageOf(t)' = ImageOf(t)
    BY <2>2 DEF Whole, ImageOf
  <2>4. ImageInv' /\ UpdateTestInv' /\ DigestsInv'
    BY <1>1, <2>2, <2>3
       DEF IntegrityInv, ImageInv, UpdateTestInv, DigestsInv, testVars, MessageOf
  <2>5. ReaderTestInv'
    <3>1. CASE way = "other"
      BY <1>1, <3>1 DEF ReaderTestInv, testVars
    <3>2. CASE UNCHANGED vars
      BY <1>1, <2>3, <3>2 DEF IntegrityInv, ReaderTestInv, testVars, vars
    <3>3. QED
      BY <1>1, <3>1, <3>2
  <2>6. QED
    BY <2>1, <2>4, <2>5 DEF IntegrityInv
<1>2. CASE OtherCaller
  BY <1>1, <1>2 DEF OtherCaller
<1>3. CASE StressTest
  BY <1>3, ReaderTestKeeps, UpdateTurnKeeps, UpdateEndKeeps DEF StressTest
<1>4. CASE UNCHANGED integrityVars
  BY <1>1, <1>4 DEF integrityVars
<1>5. QED
  BY <1>2, <1>3, <1>4

LEMMA IntegrityInvariance == IntegritySpec => []IntegrityInv
BY IntegrityStart, IntegrityKeeps, PTL DEF IntegritySpec
-----------------------------------------------------------------------------
(* The reader of the example, and of any other caller, is well typed.      *)
THEOREM ExampleTypeCorrect == IntegritySpec => []TypeOK
BY IntegrityInvariance, PTL DEF IntegrityInv, Inv

(* In the example too, what a reader has hashed is what it was given, with *)
(* a new reader and a new image for each test (large_file_integrity.rs).   *)
THEOREM ExampleHashesTheImage == IntegritySpec => []HashedWhatWasRead
BY IntegrityInvariance, PTL DEF IntegrityInv, Inv

(* A step of the example that takes a digest, or ends a loop, is one of    *)
(* the reader's.                                                           *)
LEMMA ExampleSteps ==
  IntegrityInv /\ [OtherCaller \/ StressTest]_integrityVars => [Next \/ Restart]_vars
<1> SUFFICES ASSUME IntegrityInv, [OtherCaller \/ StressTest]_integrityVars
             PROVE  [Next \/ Restart]_vars
  OBVIOUS
<1>1. CASE OtherCaller
  BY <1>1 DEF OtherCaller
<1>2. CASE ReaderTest \/ HashReader
  BY <1>2, ReaderTestStep
<1>3. CASE UpdateTurn \/ UpdateEnd
  BY <1>3 DEF UpdateTurn, UpdateEnd
<1>4. CASE UNCHANGED integrityVars
  BY <1>4 DEF integrityVars
<1>5. QED
  BY <1>1, <1>2, <1>3, <1>4 DEF StressTest

(* Each reader's first digest at the end of its stream is the stream's,    *)
(* in the example as for any caller (io.rs, finalize).                     *)
THEOREM ExampleDigests == IntegritySpec => DigestOfWholeStream
<1> DEFINE Good == Finalize /\ (finals = 0 \/ read_pos = Len(stream)) =>
              (answer' = Sha3Digest(Digest(stream)) <=> finals = 0 /\ read_pos = Len(stream))
<1>1. IntegrityInv /\ [OtherCaller \/ StressTest]_integrityVars => [Good]_vars
  BY FirstDigest DEF IntegrityInv
<1>2. QED
  BY <1>1, IntegrityInvariance, PTL DEF IntegritySpec, DigestOfWholeStream

(* consume_all answers Ok at the end of the image, and with its length     *)
(* (io.rs, consume_all).                                                   *)
THEOREM ExampleOkAtEnd == IntegritySpec => OkOnlyAtEnd
<1> DEFINE Ended == looping /\ ~looping' /\ answer' # Error =>
              read_pos = Len(stream) /\ answer' = Count(Len(stream))
<1>1. IntegrityInv /\ [OtherCaller \/ StressTest]_integrityVars => [Ended]_vars
  <2> SUFFICES ASSUME IntegrityInv, [Next \/ Restart]_vars, looping, ~looping', answer' # Error
               PROVE  read_pos = Len(stream) /\ answer' = Count(Len(stream))
    BY ExampleSteps
  <2>1. LoopTurn
    BY DEF Next, Restart, StartOver, vars, ConsumeChunk, ConsumeChunkFails, ConsumeAll, Finalize,
           LoopFails
  <2>2. QED
    BY <2>1, LoopAnswersAtEnd DEF IntegrityInv
<1>2. QED
  BY <1>1, IntegrityInvariance, PTL DEF IntegritySpec, OkOnlyAtEnd

(* The assertions of the example hold, for images, chunks and staging      *)
(* buffers of every length: every digest taken is that of the image as one *)
(* read gives it, and when it is done there are three.  (That it gets done *)
(* is StressTestPasses; large_file_integrity.rs, main.)                    *)
THEOREM AssertionsOfTheExample == IntegritySpec => []AssertsHold
<1>1. IntegrityInv => AssertsHold
  BY DEF IntegrityInv, DigestsInv, AssertsHold, AllAgree, Whole, Ways
<1>2. QED
  BY <1>1, IntegrityInvariance, PTL
=============================================================================
