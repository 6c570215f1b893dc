--------------------------- MODULE HashManyProofs ---------------------------
(***************************************************************************)
(* hash_many is right for every rate, batch width, list of messages, CPU   *)
(* and configuration.  The invariant says where each lane of a batch is in *)
(* its own padded message at each of the three steps of a round.           *)
(***************************************************************************)
EXTENDS HashMany, SpongeProofs

-----------------------------------------------------------------------------
(* The blocks of one message. *)

Prefix(msg, k) == [absorbed |-> SubSeq(PadMessage(msg), 1, k * Rate), pending |-> <<>>]

LEMMA BlocksOfMessage ==
  ASSUME NEW m \in Seq(Byte)
  PROVE  /\ PadMessage(m) \in Seq(Byte)
         /\ NumBlocks(m) \in Nat \ {0}
         /\ Len(PadMessage(m)) = NumBlocks(m) * Rate
<1> DEFINE q == Len(m) \div Rate
<1>1. Len(m) \in Nat
  BY LenProperties
<1>2. q \in Nat
  BY <1>1, DivMod
<1>3. Len(PadMessage(m)) = (q + 1) * Rate
  BY PadMessageBytes DEF PaddedLen
<1> HIDE DEF q
<1>4. 0 \in 0..(Rate - 1) /\ (q + 1) * Rate \in Nat /\ (q + 1) * Rate + 0 = (q + 1) * Rate
  BY <1>2, RateAssumption, OneMoreBlock
<1>5. ((q + 1) * Rate) \div Rate = q + 1
  BY <1>2, <1>4, DivModUnique
<1>6. NumBlocks(m) = q + 1
  BY <1>3, <1>5 DEF NumBlocks
<1>7. QED
  BY <1>2, <1>3, <1>6, PadMessageBytes

LEMMA BlockBounds ==
  ASSUME NEW m \in Seq(Byte), NEW k \in Nat, k < NumBlocks(m)
  PROVE  /\ k * Rate \in Nat /\ k * Rate + Rate = (k + 1) * Rate
         /\ k * Rate + Rate <= Len(PadMessage(m))
<1>1. k * Rate \in Nat /\ (k + 1) * Rate = k * Rate + Rate
  BY OneMoreBlock
<1> DEFINE r == NumBlocks(m) - (k + 1)
<1>2. r \in Nat /\ NumBlocks(m) = (k + 1) + r
  BY BlocksOfMessage
<1> HIDE DEF r
<1>3. NumBlocks(m) * Rate = (k + 1) * Rate + r * Rate /\ r * Rate \in Nat
  <2> DEFINE j == k + 1
  <2>1. j \in Nat
    OBVIOUS
  <2> HIDE DEF j
  <2>2. (j + r) * Rate = j * Rate + r * Rate
    BY <1>2, <2>1, MultiplesAdd
  <2>3. r * Rate \in Nat
    BY <1>2, OneMoreBlock
  <2>4. QED
    BY <1>2, <2>2, <2>3 DEF j
<1>4. QED
  BY <1>1, <1>3, BlocksOfMessage, RateAssumption

(* XORing in the next block and permuting moves a lane one block on. *)
LEMMA NextBlock ==
  ASSUME NEW m \in Seq(Byte), NEW k \in Nat, k < NumBlocks(m)
  PROVE  /\ BlockAt(m, k) \in Seq(Byte) /\ BlockAt(m, k) # <<>>
         /\ SubSeq(PadMessage(m), 1, k * Rate) \in Seq(Byte)
         /\ SubSeq(PadMessage(m), 1, k * Rate) \o BlockAt(m, k)
              = SubSeq(PadMessage(m), 1, (k + 1) * Rate)
         /\ PermuteLane(XorInto(Prefix(m, k), BlockAt(m, k))) = Prefix(m, k + 1)
<1> DEFINE p == PadMessage(m)
           a == k * Rate
           b == a + Rate
           blk == SubSeq(p, a + 1, b)
           pre == SubSeq(p, 1, a)
<1>1. p \in Seq(Byte) /\ Len(p) \in Nat
  BY BlocksOfMessage, LenProperties
<1>2. a \in Nat /\ b = (k + 1) * Rate /\ b <= Len(p)
  BY BlockBounds
<1>3. BlockAt(m, k) = blk
  BY DEF BlockAt
<1> HIDE DEF p, a
<1>4. b \in Nat /\ a <= b
  BY <1>2, RateAssumption
<1>5. blk \in Seq(Byte) /\ Len(blk) = b - a
  BY <1>1, <1>2, <1>4, Segment
<1>6. pre \in Seq(Byte)
  <2>1. SubSeq(p, 0 + 1, a) \in Seq(Byte)
    BY <1>1, <1>2, <1>4, Segment
  <2>2. QED
    BY <2>1
<1>7. pre \o blk = SubSeq(p, 1, b)
  <2>1. 1 \in 1..(Len(p) + 1) /\ a \in (1 - 1)..Len(p) /\ b \in a..Len(p)
    BY <1>1, <1>2, <1>4
  <2>2. QED
    BY <1>1, <2>1, ConcatAdjacentSubSeq
<1>8. blk # <<>>
  <2>1. Len(blk) # 0
    BY <1>2, <1>5, RateAssumption
  <2>2. QED
    BY <2>1, EmptySeq
<1> HIDE DEF blk, pre
<1>9. XorInto([absorbed |-> pre, pending |-> <<>>], blk) = [absorbed |-> pre, pending |-> blk]
  BY <1>5, ConcatEmptySeq DEF XorInto
<1>10. PermuteLane([absorbed |-> pre, pending |-> blk]) = [absorbed |-> pre \o blk, pending |-> <<>>]
  BY <1>8 DEF PermuteLane
<1>11. Prefix(m, k) = [absorbed |-> pre, pending |-> <<>>]
  BY DEF Prefix, pre, p, a
<1>12. Prefix(m, k + 1) = [absorbed |-> SubSeq(p, 1, b), pending |-> <<>>]
  BY <1>2 DEF Prefix, p
<1>13. QED
  BY <1>2, <1>3, <1>5, <1>6, <1>7, <1>8, <1>9, <1>10, <1>11, <1>12 DEF pre, p, a

LEMMA WholePrefix ==
  ASSUME NEW m \in Seq(Byte)
  PROVE  /\ Prefix(m, NumBlocks(m)) = LaneDigest(m)
         /\ Prefix(m, 0) = ZeroLane
<1>1. /\ PadMessage(m) \in Seq(Byte)
      /\ Len(PadMessage(m)) = NumBlocks(m) * Rate
  BY BlocksOfMessage
<1>2. SubSeq(PadMessage(m), 1, NumBlocks(m) * Rate) = PadMessage(m)
  BY <1>1, SubSeqFull
<1>3. 0 * Rate = 0 /\ SubSeq(PadMessage(m), 1, 0) = <<>>
  BY SubSeqEmpty, RateAssumption
<1>4. QED
  BY <1>2, <1>3 DEF Prefix, LaneDigest, ZeroLane

(* Types of lanes. *)
LEMMA LaneTypes ==
  /\ ZeroLane \in Lane
  /\ \A m \in Seq(Byte) : LaneDigest(m) \in Lane
  /\ \A l \in Lane : PermuteLane(l) \in Lane
  /\ \A l \in Lane, b \in Seq(Byte) : XorInto(l, b) \in Lane
<1>1. ZeroLane \in Lane
  BY EmptySeq DEF ZeroLane, Lane
<1>2. \A m \in Seq(Byte) : LaneDigest(m) \in Lane
  BY BlocksOfMessage, EmptySeq DEF LaneDigest, Lane
<1>3. ASSUME NEW l \in Lane
      PROVE  PermuteLane(l) \in Lane
  <2>1. ZeroBlock \in Seq(Byte)
    <3>1. ZeroBlock \in [1..Rate -> Byte]
      BY DEF ZeroBlock, Byte
    <3>2. QED
      BY <3>1, FunctionIsSeq, RateAssumption
  <2>2. l.absorbed \in Seq(Byte) /\ l.pending \in Seq(Byte)
    BY DEF Lane
  <2> DEFINE b == IF l.pending = <<>> THEN ZeroBlock ELSE l.pending
  <2>3. b \in Seq(Byte)
    BY <2>1, <2>2
  <2>4. PermuteLane(l) = [absorbed |-> l.absorbed \o b, pending |-> <<>>]
    BY DEF PermuteLane
  <2> HIDE DEF b
  <2>5. l.absorbed \o b \in Seq(Byte)
    BY <2>2, <2>3, ConcatBytes
  <2>6. QED
    BY <2>4, <2>5, EmptySeq DEF Lane
<1>4. ASSUME NEW l \in Lane, NEW b \in Seq(Byte)
      PROVE  XorInto(l, b) \in Lane
  <2>1. l.absorbed \in Seq(Byte) /\ l.pending \in Seq(Byte)
    BY DEF Lane
  <2>2. l.pending \o b \in Seq(Byte)
    BY <2>1, ConcatBytes
  <2>3. QED
    BY <2>1, <2>2 DEF XorInto, Lane
<1>5. QED
  BY <1>1, <1>2, <1>3, <1>4

(* The scalar path of a batch of width one gives the same digest. *)
LEMMA ScalarIsDigest ==
  ASSUME NEW m \in Seq(Byte)
  PROVE  ScalarHash(m) = LaneDigest(m)
BY OneShotPads DEF ScalarHash, LaneDigest

-----------------------------------------------------------------------------
(***************************************************************************)
(* The inductive invariant.  In each round of a batch, a message that      *)
(* still has a block at block_idx has a lane at a known place in its own   *)
(* padded message; the others have been captured, and stay so.             *)
(***************************************************************************)
InBatch == pc \in {"xor", "permute", "squeeze"}

LaneInPlace(i) ==
    /\ pc = "xor" => states[i] = Prefix(Chunk[i], block_idx)
    /\ pc = "permute" => states[i] = XorInto(Prefix(Chunk[i], block_idx), BlockAt(Chunk[i], block_idx))
    /\ pc = "squeeze" => states[i] = Prefix(Chunk[i], block_idx + 1)

LanesInv ==
    InBatch =>
        \A i \in 1..Len(Chunk) :
            IF block_idx < NumBlocks(Chunk[i])
            THEN LaneInPlace(i)
            ELSE out[i] = LaneDigest(Chunk[i])

Inv == TypeOK /\ ResultsInOrder /\ LanesInv

(* Where the current chunk lies in the messages. *)
LEMMA ChunkFacts ==
  ASSUME TypeOK, done < Len(messages)
  PROVE  /\ ChunkEnd \in (done + 1)..Len(messages) /\ ChunkEnd <= done + width
         /\ Chunk \in Seq(Seq(Byte)) /\ Len(Chunk) = ChunkEnd - done
         /\ Len(Chunk) \in 1..width
         /\ \A i \in 1..Len(Chunk) : Chunk[i] = messages[done + i] /\ Chunk[i] \in Seq(Byte)
<1>1. /\ messages \in Seq(Seq(Byte)) /\ Len(messages) \in Nat /\ done \in Nat
      /\ width \in Nat /\ width >= 1
  BY WidthAssumption, LenProperties DEF TypeOK
<1>2. ChunkEnd \in (done + 1)..Len(messages) /\ ChunkEnd <= done + width
  BY <1>1 DEF ChunkEnd
<1>3. \A i \in (done + 1)..ChunkEnd : messages[i] \in Seq(Byte)
  BY <1>1, <1>2, ElementOfSeq
<1> DEFINE e == ChunkEnd
<1>4. e \in Int /\ done + 1 \in Int /\ done + 1 <= e /\ e - (done + 1) + 1 = e - done
  BY <1>1, <1>2
<1> HIDE DEF e
<1>5. /\ SubSeq(messages, done + 1, e) \in Seq(Seq(Byte))
      /\ Len(SubSeq(messages, done + 1, e)) =
           IF done + 1 <= e THEN e - (done + 1) + 1 ELSE 0
      /\ \A i \in 1..(e - (done + 1) + 1) :
            SubSeq(messages, done + 1, e)[i] = messages[done + 1 + i - 1]
  <2>1. \A i \in (done + 1)..e : messages[i] \in Seq(Byte)
    BY <1>3 DEF e
  <2> HIDE <1>3
  <2>2. QED
    BY <1>4, <2>1, SubSeqProperties
<1>6. Chunk = SubSeq(messages, done + 1, e)
  BY DEF Chunk, e
<1> HIDE DEF Chunk
<1>7. Chunk \in Seq(Seq(Byte)) /\ Len(Chunk) = e - done
  BY <1>4, <1>5, <1>6
<1>8. \A i \in 1..(e - done) : Chunk[i] = messages[done + i]
  <2> TAKE i \in 1..(e - done)
  <2>1. i \in 1..(e - (done + 1) + 1) /\ done + 1 + i - 1 = done + i
    BY <1>1, <1>4
  <2>2. QED
    BY <1>5, <1>6, <2>1
<1>9. \A i \in 1..Len(Chunk) : Chunk[i] \in Seq(Byte)
  BY <1>7, ElementOfSeq
<1>10. Len(Chunk) = ChunkEnd - done
  BY <1>7 DEF e
<1>11. Len(Chunk) \in 1..width
  BY <1>1, <1>2, <1>10
<1>12. \A i \in 1..Len(Chunk) : Chunk[i] = messages[done + i]
  BY <1>7, <1>8
<1>13. QED
  BY ONLY <1>2, <1>7, <1>9, <1>10, <1>11, <1>12

(* Appending the digests of the current chunk keeps the results in order. *)
LEMMA ChunkAppended ==
  ASSUME Inv, done < Len(messages),
         NEW new \in Seq(Lane), Len(new) = Len(Chunk),
         \A i \in 1..Len(Chunk) : new[i] = LaneDigest(Chunk[i]),
         results' = results \o new, done' = ChunkEnd, messages' = messages
  PROVE  /\ results' \in Seq(Lane) /\ done' \in 0..Len(messages')
         /\ ResultsInOrder'
<1>1. /\ ChunkEnd \in (done + 1)..Len(messages)
      /\ Len(Chunk) = ChunkEnd - done
      /\ \A i \in 1..Len(Chunk) : Chunk[i] = messages[done + i]
  BY ChunkFacts DEF Inv
<1>2. /\ results \in Seq(Lane) /\ Len(results) = done /\ done \in Nat /\ Len(messages) \in Nat
      /\ \A i \in 1..done : results[i] = LaneDigest(messages[i])
  BY LenProperties DEF Inv, TypeOK, ResultsInOrder
<1>3. /\ results \o new \in Seq(Lane) /\ Len(results \o new) = Len(results) + Len(new)
      /\ \A i \in 1..(Len(results) + Len(new)) : (results \o new)[i] =
            IF i <= Len(results) THEN results[i] ELSE new[i - Len(results)]
  BY <1>2, ConcatProperties
<1>4. Len(results) + Len(new) = ChunkEnd
  BY <1>1, <1>2
<1>5. ASSUME NEW i \in 1..ChunkEnd
      PROVE  (results \o new)[i] = LaneDigest(messages[i])
  <2>1. CASE i <= done
    BY <1>1, <1>2, <1>3, <1>4, <2>1
  <2>2. CASE i > done
    <3>1. i - done \in 1..Len(Chunk) /\ done + (i - done) = i
      BY <1>1, <1>2, <2>2
    <3>2. (results \o new)[i] = new[i - done]
      BY <1>2, <1>3, <1>4, <2>2
    <3>3. new[i - done] = LaneDigest(Chunk[i - done]) /\ Chunk[i - done] = messages[i]
      BY <1>1, <3>1
    <3>4. QED
      BY <3>2, <3>3
  <2>3. i <= done \/ i > done
    BY <1>1, <1>2
  <2>4. QED
    BY <2>1, <2>2, <2>3
<1>6. ChunkEnd \in 0..Len(messages)
  BY <1>1, <1>2
<1>7. QED
  BY <1>3, <1>4, <1>5, <1>6, <1>2 DEF ResultsInOrder

-----------------------------------------------------------------------------
(* Each action keeps the invariant. *)

LEMMA InitInv == Init => Inv
<1> SUFFICES ASSUME Init PROVE Inv
  OBVIOUS
<1>1. Len(<<>>) = 0 /\ <<>> \in Seq(Lane) /\ <<>> \in Seq(Seq(Byte))
  BY EmptySeq
<1>2. TypeOK
  BY <1>1 DEF Init, TypeOK
<1>3. ResultsInOrder
  BY <1>1 DEF Init, ResultsInOrder
<1>4. LanesInv
  BY DEF Init, LanesInv, InBatch
<1>5. QED
  BY <1>2, <1>3, <1>4 DEF Inv

LEMMA WidthFacts ==
  /\ \A c, p : BatchWidth(c, p) \in {1, Narrow, Wide}
  /\ BatchPath(1) = "scalar" /\ BatchPath(Narrow) = "avx2x4" /\ BatchPath(Wide) = "avx512x8"
  /\ 1 # Narrow /\ 1 # Wide /\ Narrow # Wide
BY WidthAssumption DEF BatchWidth, BatchPath

LEMMA ConfigInv ==
  ASSUME Inv, NEW c \in Config, UpdateConfig(c)
  PROVE  Inv'
<1>1. TypeOK'
  BY DEF Inv, TypeOK, UpdateConfig, batchVars, Chunk, ChunkEnd
<1>2. ResultsInOrder'
  BY DEF Inv, ResultsInOrder, UpdateConfig
<1>3. LanesInv'
  BY DEF UpdateConfig, LanesInv, InBatch
<1>4. QED
  BY <1>1, <1>2, <1>3 DEF Inv

LEMMA CallInv ==
  ASSUME Inv, NEW ms \in Batches, Call(ms)
  PROVE  Inv'
<1>1. ms \in Seq(Seq(Byte)) /\ Len(ms) \in Nat
  BY BatchAssumption, LenProperties
<1>2. TypeOK'
  BY <1>1, WidthFacts, EmptySeq DEF Inv, TypeOK, Call, batchVars
<1>3. ResultsInOrder'
  BY EmptySeq DEF ResultsInOrder, Call
<1>4. LanesInv'
  BY DEF Call, LanesInv, InBatch
<1>5. QED
  BY <1>2, <1>3, <1>4 DEF Inv

LEMMA ScalarInv ==
  ASSUME Inv, HashScalar
  PROVE  Inv'
<1> DEFINE new == [i \in 1..Len(Chunk) |-> ScalarHash(Chunk[i])]
<1>1. done < Len(messages) /\ pc = "chunk" /\ pc' = "chunk" /\ messages' = messages
      /\ results' = results \o new /\ done' = ChunkEnd
      /\ cpu' = cpu /\ config' = config /\ width' = width /\ block_idx' = block_idx
  BY DEF HashScalar, callVars, batchVars
<1>2. Len(Chunk) \in Nat /\ \A i \in 1..Len(Chunk) : Chunk[i] \in Seq(Byte)
  BY <1>1, ChunkFacts, LenProperties DEF Inv
<1>3. \A i \in 1..Len(Chunk) : new[i] = LaneDigest(Chunk[i]) /\ new[i] \in Lane
  BY <1>2, ScalarIsDigest, LaneTypes
<1>4. new \in [1..Len(Chunk) -> Lane]
  BY <1>3
<1> HIDE DEF new
<1>5. new \in Seq(Lane) /\ Len(new) = Len(Chunk)
  BY <1>2, <1>4, FunctionIsSeq
<1>6. results' \in Seq(Lane) /\ done' \in 0..Len(messages') /\ ResultsInOrder'
  BY <1>1, <1>3, <1>5, ChunkAppended
<1>7. TypeOK'
  BY <1>1, <1>6 DEF Inv, TypeOK
<1>8. LanesInv'
  BY <1>1 DEF LanesInv, InBatch
<1>9. QED
  BY <1>6, <1>7, <1>8 DEF Inv

LEMMA StartInv ==
  ASSUME Inv, StartBatch
  PROVE  Inv'
<1>1. /\ done < Len(messages) /\ width # 1 /\ pc' = "xor" /\ block_idx' = 0
      /\ states' = [i \in 1..width |-> ZeroLane]
      /\ out' = [i \in 1..Len(Chunk) |-> ZeroLane]
      /\ UNCHANGED <<cpu, config, messages, width, done, results>>
  BY WidthFacts DEF StartBatch, callVars
<1>2. Chunk' = Chunk
  BY <1>1 DEF Chunk, ChunkEnd
<1>3. /\ Len(Chunk) \in 1..width /\ \A i \in 1..Len(Chunk) : Chunk[i] \in Seq(Byte)
      /\ width \in Nat
  BY <1>1, ChunkFacts, WidthAssumption DEF Inv, TypeOK
<1>4. TypeOK'
  BY <1>1, <1>2, LaneTypes DEF Inv, TypeOK
<1>5. ResultsInOrder'
  BY <1>1 DEF Inv, ResultsInOrder
<1>6. ASSUME NEW i \in 1..Len(Chunk)
      PROVE  0 < NumBlocks(Chunk[i]) /\ states'[i] = Prefix(Chunk[i], 0)
  <2>1. i \in 1..width /\ Chunk[i] \in Seq(Byte)
    BY <1>3
  <2>2. QED
    BY <1>1, <2>1, BlocksOfMessage, WholePrefix
<1>7. LanesInv'
  BY <1>1, <1>2, <1>6 DEF LanesInv, LaneInPlace
<1>8. QED
  BY <1>4, <1>5, <1>7 DEF Inv

LEMMA XorInv ==
  ASSUME Inv, XorBlocks
  PROVE  Inv'
<1>1. /\ pc = "xor" /\ pc' = "permute"
      /\ states' = [i \in 1..width |->
           IF i <= Len(Chunk) /\ block_idx < NumBlocks(Chunk[i])
           THEN XorInto(states[i], BlockAt(Chunk[i], block_idx))
           ELSE states[i]]
      /\ UNCHANGED <<cpu, config, messages, width, done, block_idx, out, results>>
  BY DEF XorBlocks, callVars
<1>2. Chunk' = Chunk
  BY <1>1 DEF Chunk, ChunkEnd
<1>3. done < Len(messages) /\ block_idx \in Nat /\ states \in [1..width -> Lane]
  BY <1>1 DEF Inv, TypeOK
<1>4. /\ Len(Chunk) \in 1..width /\ \A i \in 1..Len(Chunk) : Chunk[i] \in Seq(Byte)
      /\ width \in Nat
  BY SMTT(30), <1>3, ChunkFacts, WidthAssumption DEF Inv, TypeOK
<1>5. states' \in [1..width -> Lane]
  <2>1. ASSUME NEW i \in 1..width, i <= Len(Chunk), block_idx < NumBlocks(Chunk[i])
        PROVE  XorInto(states[i], BlockAt(Chunk[i], block_idx)) \in Lane
    <3>1. Chunk[i] \in Seq(Byte)
      BY <1>4, <2>1
    <3>2. BlockAt(Chunk[i], block_idx) \in Seq(Byte)
      BY <1>3, <2>1, <3>1, NextBlock
    <3>3. QED
      BY <1>3, <3>2, LaneTypes
  <2>2. QED
    BY <1>1, <1>3, <2>1
<1>6. TypeOK'
  BY <1>1, <1>2, <1>5 DEF Inv, TypeOK
<1>7. ResultsInOrder'
  BY <1>1 DEF Inv, ResultsInOrder
<1>8. ASSUME NEW i \in 1..Len(Chunk)
      PROVE  IF block_idx < NumBlocks(Chunk[i])
             THEN states'[i] = XorInto(Prefix(Chunk[i], block_idx), BlockAt(Chunk[i], block_idx))
             ELSE out[i] = LaneDigest(Chunk[i])
  <2>1. i \in 1..width /\ i <= Len(Chunk)
    BY <1>4
  <2>2. IF block_idx < NumBlocks(Chunk[i])
        THEN states[i] = Prefix(Chunk[i], block_idx)
        ELSE out[i] = LaneDigest(Chunk[i])
    BY <1>1 DEF Inv, LanesInv, InBatch, LaneInPlace
  <2>3. QED
    BY <1>1, <2>1, <2>2
<1>9. LanesInv'
  BY <1>1, <1>2, <1>8 DEF LanesInv, LaneInPlace
<1>10. QED
  BY <1>6, <1>7, <1>9 DEF Inv

LEMMA PermuteInv ==
  ASSUME Inv, PermuteAll
  PROVE  Inv'
<1>1. /\ pc = "permute" /\ pc' = "squeeze"
      /\ states' = [i \in 1..width |-> PermuteLane(states[i])]
      /\ UNCHANGED <<cpu, config, messages, width, done, block_idx, out, results>>
  BY DEF PermuteAll, callVars
<1>2. Chunk' = Chunk
  BY <1>1 DEF Chunk, ChunkEnd
<1>3. done < Len(messages) /\ block_idx \in Nat /\ states \in [1..width -> Lane]
  BY <1>1 DEF Inv, TypeOK
<1>4. /\ Len(Chunk) \in 1..width /\ \A i \in 1..Len(Chunk) : Chunk[i] \in Seq(Byte)
      /\ width \in Nat
  BY SMTT(30), <1>3, ChunkFacts, WidthAssumption DEF Inv, TypeOK
<1>5. states' \in [1..width -> Lane]
  BY <1>1, <1>3, LaneTypes
<1>6. TypeOK'
  BY <1>1, <1>2, <1>5 DEF Inv, TypeOK
<1>7. ResultsInOrder'
  BY <1>1 DEF Inv, ResultsInOrder
<1>8. ASSUME NEW i \in 1..Len(Chunk)
      PROVE  IF block_idx < NumBlocks(Chunk[i])
             THEN states'[i] = Prefix(Chunk[i], block_idx + 1)
             ELSE out[i] = LaneDigest(Chunk[i])
  <2>1. i \in 1..width /\ Chunk[i] \in Seq(Byte)
    BY <1>4
  <2>2. IF block_idx < NumBlocks(Chunk[i])
        THEN states[i] = XorInto(Prefix(Chunk[i], block_idx), BlockAt(Chunk[i], block_idx))
        ELSE out[i] = LaneDigest(Chunk[i])
    BY <1>1 DEF Inv, LanesInv, InBatch, LaneInPlace
  <2>3. QED
    BY <1>1, <1>3, <2>1, <2>2, NextBlock
<1>9. LanesInv'
  BY <1>1, <1>2, <1>8 DEF LanesInv, LaneInPlace
<1>10. QED
  BY <1>6, <1>7, <1>9 DEF Inv

LEMMA SqueezeInv ==
  ASSUME Inv, SqueezeFinished
  PROVE  Inv'
<1>1. /\ pc = "squeeze" /\ pc' = "xor" /\ block_idx' = block_idx + 1
      /\ out' = [i \in 1..Len(Chunk) |->
           IF block_idx = NumBlocks(Chunk[i]) - 1 THEN states[i] ELSE out[i]]
      /\ UNCHANGED <<cpu, config, messages, width, done, states, results>>
  BY DEF SqueezeFinished, callVars
<1>2. Chunk' = Chunk
  BY <1>1 DEF Chunk, ChunkEnd
<1>3. /\ done < Len(messages) /\ block_idx \in Nat /\ states \in [1..width -> Lane]
      /\ out \in [1..Len(Chunk) -> Lane]
  BY <1>1 DEF Inv, TypeOK
<1>4. /\ Len(Chunk) \in 1..width /\ \A i \in 1..Len(Chunk) : Chunk[i] \in Seq(Byte)
      /\ width \in Nat
  BY <1>3, ChunkFacts, WidthAssumption DEF Inv, TypeOK
<1>5. out' \in [1..Len(Chunk) -> Lane]
  BY <1>1, <1>3, <1>4
<1>6. TypeOK'
  BY <1>1, <1>2, <1>3, <1>5 DEF Inv, TypeOK
<1>7. ResultsInOrder'
  BY <1>1 DEF Inv, ResultsInOrder
<1>8. ASSUME NEW i \in 1..Len(Chunk)
      PROVE  IF block_idx + 1 < NumBlocks(Chunk[i])
             THEN states[i] = Prefix(Chunk[i], block_idx + 1)
             ELSE out'[i] = LaneDigest(Chunk[i])
  <2> DEFINE n == NumBlocks(Chunk[i])
  <2>1. Chunk[i] \in Seq(Byte) /\ n \in Nat \ {0}
    BY <1>4, BlocksOfMessage
  <2>2. IF block_idx < n
        THEN states[i] = Prefix(Chunk[i], block_idx + 1)
        ELSE out[i] = LaneDigest(Chunk[i])
    BY <1>1 DEF Inv, LanesInv, InBatch, LaneInPlace
  <2>3. out'[i] = IF block_idx = n - 1 THEN states[i] ELSE out[i]
    BY <1>1
  <2>4. Prefix(Chunk[i], n) = LaneDigest(Chunk[i])
    BY <2>1, WholePrefix
  <2> HIDE DEF n
  <2>5. CASE block_idx + 1 < n
    BY <1>3, <2>1, <2>2, <2>5 DEF n
  <2>6. CASE block_idx + 1 = n
    BY <1>3, <2>1, <2>2, <2>3, <2>4, <2>6 DEF n
  <2>7. CASE block_idx + 1 > n
    BY <1>3, <2>1, <2>2, <2>3, <2>7 DEF n
  <2>8. QED
    BY <1>3, <2>1, <2>5, <2>6, <2>7
<1>9. LanesInv'
  BY <1>1, <1>2, <1>8 DEF LanesInv, LaneInPlace
<1>10. QED
  BY <1>6, <1>7, <1>9 DEF Inv

LEMMA FinishInv ==
  ASSUME Inv, FinishBatch
  PROVE  Inv'
<1>1. /\ pc = "xor" /\ pc' = "chunk" /\ results' = results \o out /\ done' = ChunkEnd
      /\ \A i \in 1..Len(Chunk) : ~(block_idx < NumBlocks(Chunk[i]))
      /\ block_idx' = 0
      /\ UNCHANGED <<cpu, config, messages, width>>
  BY DEF FinishBatch, BlocksLeft, callVars
<1>2. done < Len(messages) /\ out \in [1..Len(Chunk) -> Lane]
  BY <1>1 DEF Inv, TypeOK
<1>3. Len(Chunk) \in Nat
  BY <1>2, ChunkFacts, LenProperties DEF Inv
<1>4. out \in Seq(Lane) /\ Len(out) = Len(Chunk)
  BY <1>2, <1>3, FunctionIsSeq
<1>5. \A i \in 1..Len(Chunk) : out[i] = LaneDigest(Chunk[i])
  BY <1>1 DEF Inv, LanesInv, InBatch
<1>6. results' \in Seq(Lane) /\ done' \in 0..Len(messages') /\ ResultsInOrder'
  BY <1>1, <1>2, <1>4, <1>5, ChunkAppended
<1>7. TypeOK'
  BY <1>1, <1>6 DEF Inv, TypeOK
<1>8. LanesInv'
  BY <1>1 DEF LanesInv, InBatch
<1>9. QED
  BY <1>6, <1>7, <1>8 DEF Inv

LEMMA ReturnInv ==
  ASSUME Inv, Return
  PROVE  Inv'
BY DEF Inv, TypeOK, ResultsInOrder, LanesInv, InBatch, Return, callVars, batchVars, Chunk, ChunkEnd

LEMMA NextInv == Inv /\ [Next]_vars => Inv'
<1> SUFFICES ASSUME Inv, [Next]_vars PROVE Inv'
  OBVIOUS
<1>1. CASE UNCHANGED vars
  BY <1>1 DEF vars, batchVars, Inv, TypeOK, ResultsInOrder, LanesInv, InBatch, LaneInPlace,
              Chunk, ChunkEnd
<1>2. QED
  BY <1>1, ConfigInv, CallInv, ScalarInv, StartInv, XorInv, PermuteInv, SqueezeInv,
     FinishInv, ReturnInv DEF Next, Run

THEOREM Invariance == Spec => []Inv
BY InitInv, NextInv, PTL DEF Spec

(* The types of the call's state: see TypeOK. *)
THEOREM TypeCorrect == Spec => []TypeOK
<1>1. Inv => TypeOK
  BY DEF Inv
<1>2. QED
  BY <1>1, Invariance, PTL

(* The results so far are the digests of the first messages, in order,     *)
(* whatever the batch width: see ResultsInOrder.                           *)
THEOREM ResultsAreInOrder == Spec => []ResultsInOrder
<1>1. Inv => ResultsInOrder
  BY DEF Inv
<1>2. QED
  BY <1>1, Invariance, PTL

(* The width a call chose stays the one its configuration and CPU ask for: *)
(* nothing changes them while it runs.                                     *)
WidthInv == pc # "idle" => width = BatchWidth(config, cpu)

LEMMA NextWidth == WidthInv /\ [Next]_vars => WidthInv'
<1> SUFFICES ASSUME WidthInv, [Next]_vars PROVE WidthInv'
  OBVIOUS
<1>1. CASE \E c \in Config : UpdateConfig(c)
  BY <1>1 DEF UpdateConfig, WidthInv
<1>2. CASE \E ms \in Batches : Call(ms)
  BY <1>2 DEF Call, WidthInv
<1>3. CASE Run
  <2>1. UNCHANGED callVars /\ pc # "idle"
    BY <1>3 DEF Run, HashScalar, StartBatch, XorBlocks, PermuteAll, SqueezeFinished,
                FinishBatch, Return
  <2>2. QED
    BY <2>1 DEF callVars, WidthInv
<1>4. CASE UNCHANGED vars
  BY <1>4 DEF vars, WidthInv
<1>5. QED
  BY <1>1, <1>2, <1>3, <1>4 DEF Next

(* A batch only ever runs on an implementation the CPU can execute, for    *)
(* every set of CPUs and all widths: see BatchIsSupported.                 *)
THEOREM BatchesAreSupported == Spec => []BatchIsSupported
<1>1. Init => WidthInv
  BY DEF Init, WidthInv
<1>2. WidthInv => BatchIsSupported
  BY WidthAssumption DEF WidthInv, BatchIsSupported, BatchWidth, BatchPath, Requires
<1>3. QED
  BY <1>1, <1>2, NextWidth, PTL DEF Spec

(* A digest is captured in the round of its last block, and kept while     *)
(* longer messages of the same batch go on: see CapturedInTime.            *)
THEOREM DigestsAreCaptured == Spec => []CapturedInTime
<1>1. Inv => CapturedInTime
  <2> SUFFICES ASSUME Inv, pc = "xor", NEW i \in 1..Len(Chunk)
               PROVE  IF block_idx >= NumBlocks(Chunk[i])
                      THEN out[i] = LaneDigest(Chunk[i])
                      ELSE states[i] = Prefix(Chunk[i], block_idx)
    BY DEF CapturedInTime, Prefix
  <2>1. done < Len(messages) /\ block_idx \in Nat
    BY DEF Inv, TypeOK
  <2>2. Chunk[i] \in Seq(Byte)
    BY <2>1, ChunkFacts DEF Inv
  <2>3. NumBlocks(Chunk[i]) \in Nat
    BY <2>2, BlocksOfMessage
  <2>4. QED
    BY <2>1, <2>3 DEF Inv, LanesInv, InBatch, LaneInPlace
<1>2. QED
  BY <1>1, Invariance, PTL

-----------------------------------------------------------------------------
(***************************************************************************)
(* The safety half of the promise: every step of hash_many is a step of    *)
(* ManyHash or changes nothing it can see.  That every call returns is     *)
(* liveness, which is left to TLC.                                         *)
(***************************************************************************)
LEMMA AbsDigest ==
  ASSUME NEW m
  PROVE  Abs!DigestOf(m) = LaneDigest(m)
BY DEF Abs!DigestOf, LaneDigest, Abs!Digest, Abs!PadMessage, PadMessage, Abs!PaddedLen,
       PaddedLen, Abs!OrHighBit, OrHighBit, Abs!SHA3DomainByte, SHA3DomainByte

LEMMA ReturnAnswers ==
  ASSUME Inv, Return
  PROVE  Abs!Answer
<1>1. /\ pc = "chunk" /\ pc' = "idle" /\ done = Len(messages)
      /\ messages' = messages /\ results' = results
  BY DEF Return, callVars
<1>2. /\ results \in Seq(Lane) /\ Len(results) = Len(messages)
      /\ \A i \in 1..Len(messages) : results[i] = LaneDigest(messages[i])
  BY <1>1 DEF Inv, TypeOK, ResultsInOrder
<1>3. results = [i \in 1..Len(messages) |-> Abs!DigestOf(messages[i])]
  <2>1. results \in [1..Len(messages) -> Lane]
    BY <1>2, LenProperties
  <2>2. QED
    BY <1>2, <2>1, AbsDigest
<1>4. QED
  BY <1>1, <1>3 DEF Abs!Answer

LEMMA StepSimulates == Inv /\ [Next]_vars => [Abs!ManyNext]_(Abs!manyVars)
<1> SUFFICES ASSUME Inv, [Next]_vars PROVE [Abs!ManyNext]_(Abs!manyVars)
  OBVIOUS
<1>1. ASSUME NEW c \in Config, UpdateConfig(c)
      PROVE  UNCHANGED Abs!manyVars
  BY <1>1 DEF UpdateConfig, Abs!manyVars
<1>2. ASSUME NEW ms \in Batches, Call(ms)
      PROVE  Abs!ManyNext
  BY <1>2 DEF Call, Abs!ManyNext, Abs!Ask
<1>3. CASE Return
  BY <1>3, ReturnAnswers DEF Abs!ManyNext
<1>4. CASE HashScalar \/ StartBatch \/ XorBlocks \/ PermuteAll \/ SqueezeFinished \/ FinishBatch
  <2>1. messages' = messages /\ pc # "idle" /\ pc' # "idle"
    BY <1>4 DEF HashScalar, StartBatch, XorBlocks, PermuteAll, SqueezeFinished, FinishBatch,
                callVars
  <2>2. QED
    BY <2>1 DEF Abs!manyVars
<1>5. CASE UNCHANGED vars
  BY <1>5 DEF vars, Abs!manyVars
<1>6. QED
  BY <1>1, <1>2, <1>3, <1>4, <1>5 DEF Next, Run

THEOREM ImplementsManyHash == Spec => Abs!ManySafe
<1>1. Init => Abs!ManyInit
  BY DEF Init, Abs!ManyInit
<1>2. QED
  BY <1>1, StepSimulates, Invariance, PTL DEF Spec, Abs!ManySafe

-----------------------------------------------------------------------------
(***************************************************************************)
(* The lanes behind the records of HashMany, for a permutation that maps   *)
(* states to states: XORing a block and permuting the real lanes is what   *)
(* XorInto and PermuteLane say of them, the permutation of a lane with no  *)
(* new block included.                                                     *)
(***************************************************************************)
LanesOf(lane) ==
    IF lane.pending = <<>> THEN LanesAfter(lane.absorbed)
    ELSE XorBlock(LanesAfter(lane.absorbed), lane.pending)

(* A lane holds whole blocks, and at most one that is not yet permuted. *)
Whole(lane) == Len(lane.absorbed) % Rate = 0 /\ (lane.pending = <<>> \/ Len(lane.pending) = Rate)

Permuted(lane) == Len(lane.absorbed) % Rate = 0 /\ lane.pending = <<>>

LEMMA FreshLane == Whole(ZeroLane) /\ Permuted(ZeroLane) /\ LanesOf(ZeroLane) = ZeroLanes
BY NewSpongeEmpty, EmptySeq, LanesOfNothing DEF ZeroLane, Whole, Permuted, LanesOf

LEMMA XorOnLanes ==
  ASSUME NEW lane \in Lane, Permuted(lane), NEW block \in Seq(Byte), Len(block) = Rate
  PROVE  /\ Whole(XorInto(lane, block))
         /\ LanesOf(XorInto(lane, block)) = XorBlock(LanesOf(lane), block)
<1>1. lane.pending = <<>> /\ lane.absorbed \in Seq(Byte)
  BY DEF Permuted, Lane
<1>2. XorInto(lane, block) = [absorbed |-> lane.absorbed, pending |-> block]
  BY <1>1, ConcatEmptySeq DEF XorInto
<1>3. block # <<>>
  BY RateAssumption, EmptySeq
<1>4. QED
  BY <1>1, <1>2, <1>3 DEF Permuted, Whole, LanesOf

LEMMA ZeroBlockType ==
  ZeroBlock \in Seq(Byte) /\ Len(ZeroBlock) = Rate /\ \A k \in 1..Rate : ZeroBlock[k] = 0
<1>1. ZeroBlock \in [1..Rate -> Byte] /\ \A k \in 1..Rate : ZeroBlock[k] = 0
  BY DEF ZeroBlock, Byte
<1>2. Rate \in Nat
  BY RateAssumption
<1>3. QED
  BY <1>1, <1>2, FunctionIsSeq

LEMMA PermuteOnLanes ==
  ASSUME PermutesLanes, NEW lane \in Lane, Whole(lane)
  PROVE  /\ Permuted(PermuteLane(lane))
         /\ LanesOf(PermuteLane(lane)) = Permute(LanesOf(lane))
<1> DEFINE block == IF lane.pending = <<>> THEN ZeroBlock ELSE lane.pending
           now == lane.absorbed \o block
           l == LanesAfter(lane.absorbed)
<1>1. lane.absorbed \in Seq(Byte) /\ lane.pending \in Seq(Byte) /\ Len(lane.absorbed) % Rate = 0
  BY DEF Lane, Whole
<1>2. block \in Seq(Byte) /\ Len(block) = Rate
  BY <1>1, ZeroBlockType DEF Whole
<1>3. PermuteLane(lane) = [absorbed |-> now, pending |-> <<>>]
  BY DEF PermuteLane
<1>4. LanesOf(lane) = XorBlock(l, block)
  <2>1. CASE lane.pending = <<>>
    <3>1. l \in LaneValues
      BY <1>1, LanesAfterType
    <3> HIDE DEF l
    <3>2. XorBlock(l, ZeroBlock) = l
      BY <3>1, ZeroBlockType, XorNothing
    <3>3. QED
      BY <2>1, <3>2 DEF LanesOf, l
  <2>2. CASE lane.pending # <<>>
    BY <2>2 DEF LanesOf
  <2>3. QED
    BY <2>1, <2>2
<1> HIDE DEF block
<1>5. Len(now) % Rate = 0
  <2>1. Len(now) = Len(lane.absorbed) + Rate /\ Len(lane.absorbed) \in Nat
    BY <1>1, <1>2, ConcatBytes, LenProperties
  <2>2. QED
    BY <1>1, <2>1, AlignedAdd
<1>6. LanesAfter(now) = AbsorbBlock(l, block)
  BY <1>1, <1>2, LanesAfterOne
<1> HIDE DEF now, l
<1>7. QED
  BY <1>3, <1>4, <1>5, <1>6 DEF Permuted, LanesOf, AbsorbBlock

LEMMA BlockLength ==
  ASSUME NEW m \in Seq(Byte), NEW k \in Nat, k < NumBlocks(m)
  PROVE  BlockAt(m, k) \in Seq(Byte) /\ Len(BlockAt(m, k)) = Rate
<1> DEFINE a == k * Rate
           b == a + Rate
           p == PadMessage(m)
<1>1. a \in Nat /\ b <= Len(p) /\ p \in Seq(Byte)
  BY BlockBounds, BlocksOfMessage
<1>2. b \in Nat /\ a <= b /\ b - a = Rate
  BY <1>1, RateAssumption
<1> HIDE DEF a, b, p
<1>3. SubSeq(p, a + 1, b) \in Seq(Byte) /\ Len(SubSeq(p, a + 1, b)) = b - a
  BY <1>1, <1>2, Segment
<1>4. QED
  BY <1>2, <1>3 DEF BlockAt, a, b, p

(* Of every lane of a batch, the unused ones included: blocks are whole,   *)
(* and a block waits for its permutation only between the two.             *)
WholeInv ==
    pc \in {"xor", "permute", "squeeze"} =>
        \A i \in 1..width : /\ Whole(states[i])
                            /\ pc # "permute" => Permuted(states[i])

LEMMA XorLanes ==
  ASSUME Inv, WholeInv, XorBlocks, NEW i \in 1..width
  PROVE  /\ Whole(states'[i])
         /\ LanesOf(states'[i]) =
              IF i <= Len(Chunk) /\ block_idx < NumBlocks(Chunk[i])
              THEN XorBlock(LanesOf(states[i]), BlockAt(Chunk[i], block_idx))
              ELSE LanesOf(states[i])
<1>1. /\ pc = "xor"
      /\ states' = [j \in 1..width |->
           IF j <= Len(Chunk) /\ block_idx < NumBlocks(Chunk[j])
           THEN XorInto(states[j], BlockAt(Chunk[j], block_idx))
           ELSE states[j]]
  BY DEF XorBlocks
<1>2. done < Len(messages) /\ block_idx \in Nat /\ states[i] \in Lane
  BY <1>1 DEF Inv, TypeOK
<1>3. Whole(states[i]) /\ Permuted(states[i])
  BY <1>1 DEF WholeInv
<1>4. CASE i <= Len(Chunk) /\ block_idx < NumBlocks(Chunk[i])
  <2>1. Len(Chunk) \in Nat /\ \A j \in 1..Len(Chunk) : Chunk[j] \in Seq(Byte)
    BY SMTT(30), <1>2, ChunkFacts, WidthAssumption DEF Inv, TypeOK
  <2>2. width \in Nat
    BY WidthAssumption DEF Inv, TypeOK
  <2>3. Chunk[i] \in Seq(Byte)
    BY <1>4, <2>1, <2>2
  <2>4. BlockAt(Chunk[i], block_idx) \in Seq(Byte) /\ Len(BlockAt(Chunk[i], block_idx)) = Rate
    BY <1>2, <1>4, <2>3, BlockLength
  <2>5. states'[i] = XorInto(states[i], BlockAt(Chunk[i], block_idx))
    BY <1>1, <1>4
  <2>6. QED
    BY <1>2, <1>3, <1>4, <2>4, <2>5, XorOnLanes
<1>5. CASE ~(i <= Len(Chunk) /\ block_idx < NumBlocks(Chunk[i]))
  <2>1. states'[i] = states[i]
    BY <1>1, <1>5
  <2>2. QED
    BY <1>3, <1>5, <2>1
<1>6. QED
  BY <1>4, <1>5

LEMMA PermuteLanes ==
  ASSUME PermutesLanes, Inv, WholeInv, PermuteAll, NEW i \in 1..width
  PROVE  Permuted(states'[i]) /\ LanesOf(states'[i]) = Permute(LanesOf(states[i]))
<1>1. pc = "permute" /\ states' = [j \in 1..width |-> PermuteLane(states[j])]
  BY DEF PermuteAll
<1>2. states[i] \in Lane /\ Whole(states[i])
  BY <1>1 DEF Inv, TypeOK, WholeInv
<1>3. QED
  BY <1>1, <1>2, PermuteOnLanes

LEMMA PermutedIsWhole ==
  ASSUME NEW lane, Permuted(lane)
  PROVE  Whole(lane)
BY DEF Permuted, Whole

LEMMA NextWhole == PermutesLanes /\ Inv /\ WholeInv /\ [Next]_vars => WholeInv'
<1> SUFFICES ASSUME PermutesLanes, Inv, WholeInv, [Next]_vars PROVE WholeInv'
  OBVIOUS
<1>1. CASE UNCHANGED <<pc, width, states>>
  BY <1>1 DEF WholeInv
<1>2. CASE pc' \notin {"xor", "permute", "squeeze"}
  BY <1>2 DEF WholeInv
<1>3. CASE StartBatch
  <2>1. width' = width /\ \A i \in 1..width : states'[i] = ZeroLane
    BY <1>3 DEF StartBatch, callVars
  <2>2. QED
    BY <2>1, FreshLane DEF WholeInv
<1>4. CASE XorBlocks
  <2>1. width' = width /\ pc' = "permute"
    BY <1>4 DEF XorBlocks, callVars
  <2>2. \A i \in 1..width : Whole(states'[i])
    BY <1>4, XorLanes
  <2>3. QED
    BY <2>1, <2>2 DEF WholeInv
<1>5. CASE PermuteAll
  <2>1. width' = width
    BY <1>5 DEF PermuteAll, callVars
  <2>2. \A i \in 1..width : Permuted(states'[i]) /\ Whole(states'[i])
    BY <1>5, PermuteLanes, PermutedIsWhole
  <2>3. QED
    BY <2>1, <2>2 DEF WholeInv
<1>6. CASE SqueezeFinished
  <2>1. width' = width /\ states' = states /\ pc = "squeeze"
    BY <1>6 DEF SqueezeFinished, callVars
  <2>2. QED
    BY <2>1 DEF WholeInv
<1>7. QED
  BY <1>1, <1>2, <1>3, <1>4, <1>5, <1>6
     DEF Next, Run, vars, batchVars, callVars, UpdateConfig, Call, HashScalar, FinishBatch, Return

(* Whatever the permutation: a batch starts from zero lanes, XORs the      *)
(* blocks of the messages that still have one into the lanes and permutes  *)
(* every lane, those that have ended included (hash_batch_x8 and           *)
(* hash_batch_x4).                                                         *)
RealSteps ==
    [][/\ StartBatch => \A i \in 1..width : LanesOf(states'[i]) = ZeroLanes
       /\ XorBlocks => \A i \in 1..width :
              LanesOf(states'[i]) =
                  IF i <= Len(Chunk) /\ block_idx < NumBlocks(Chunk[i])
                  THEN XorBlock(LanesOf(states[i]), BlockAt(Chunk[i], block_idx))
                  ELSE LanesOf(states[i])
       /\ PermuteAll => \A i \in 1..width : LanesOf(states'[i]) = Permute(LanesOf(states[i]))]_vars

(* The bytes read from each result are SHA3 of its message, byte for byte  *)
(* and in the order of the list (hash_many).                               *)
BytesInOrder ==
    /\ Len(results) = done
    /\ \A i \in 1..done : SqueezeLanes(LanesOf(results[i])) = SHA3(messages[i])

(* The symbolic lanes of a batch stand for real ones: see RealSteps.       *)
THEOREM BatchesRunOnLanes ==
  ASSUME PermutesLanes
  PROVE  Spec => RealSteps
<1> DEFINE Real ==
      /\ StartBatch => \A i \in 1..width : LanesOf(states'[i]) = ZeroLanes
      /\ XorBlocks => \A i \in 1..width :
              LanesOf(states'[i]) =
                  IF i <= Len(Chunk) /\ block_idx < NumBlocks(Chunk[i])
                  THEN XorBlock(LanesOf(states[i]), BlockAt(Chunk[i], block_idx))
                  ELSE LanesOf(states[i])
      /\ PermuteAll => \A i \in 1..width : LanesOf(states'[i]) = Permute(LanesOf(states[i]))
<1>1. ASSUME Inv, WholeInv
      PROVE  Real
  <2>1. StartBatch => \A i \in 1..width : states'[i] = ZeroLane
    BY DEF StartBatch
  <2>2. StartBatch => \A i \in 1..width : LanesOf(states'[i]) = ZeroLanes
    BY <2>1, FreshLane
  <2>3. XorBlocks => \A i \in 1..width :
              LanesOf(states'[i]) =
                  IF i <= Len(Chunk) /\ block_idx < NumBlocks(Chunk[i])
                  THEN XorBlock(LanesOf(states[i]), BlockAt(Chunk[i], block_idx))
                  ELSE LanesOf(states[i])
    BY <1>1, XorLanes
  <2>4. PermuteAll => \A i \in 1..width : LanesOf(states'[i]) = Permute(LanesOf(states[i]))
    BY <1>1, PermuteLanes
  <2>5. QED
    BY <2>2, <2>3, <2>4
<1>2. Init => WholeInv
  BY DEF Init, WholeInv
<1>3. Inv /\ WholeInv /\ [Next]_vars => WholeInv'
  BY NextWhole
<1>4. Inv /\ WholeInv /\ [Next]_vars => [Real]_vars
  BY <1>1
<1>5. QED
  BY <1>2, <1>3, <1>4, Invariance, PTL DEF Spec, RealSteps

(* Every result in bytes: see BytesInOrder.                                *)
THEOREM ResultBytes == Spec => []BytesInOrder
<1>1. ResultsInOrder => BytesInOrder
  <2>1. \A m : LanesOf(LaneDigest(m)) = LanesAfter(Digest(m))
    BY DEF LanesOf, LaneDigest, Digest
  <2>2. QED
    BY <2>1 DEF ResultsInOrder, BytesInOrder, SHA3, HashBytes
<1>2. QED
  BY <1>1, ResultsAreInOrder, PTL
=============================================================================
