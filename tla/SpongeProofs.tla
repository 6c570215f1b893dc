---------------------------- MODULE SpongeProofs ----------------------------
(***************************************************************************)
(* Lemmas about padding, about the sponge's operators and about what they  *)
(* do to its lanes, for every rate, lane width, buffer length, number of   *)
(* lanes and permutation the assumptions allow.                            *)
(***************************************************************************)
EXTENDS LaneSponge, SequenceTheorems, WellFoundedInduction, TLAPS

-----------------------------------------------------------------------------
(* Arithmetic of blocks. *)

LEMMA DivMod ==
  ASSUME NEW n \in Nat
  PROVE  /\ n \div Rate \in Nat
         /\ n % Rate \in 0..(Rate - 1)
         /\ n = (n \div Rate) * Rate + (n % Rate)
         /\ (n \div Rate) * Rate \in Nat
BY RateAssumption, SMT

LEMMA DivModUnique ==
  ASSUME NEW q \in Nat, NEW r \in 0..(Rate - 1)
  PROVE  /\ (q * Rate + r) \div Rate = q
         /\ (q * Rate + r) % Rate = r
BY RateAssumption, SMT

LEMMA OneMoreBlock ==
  ASSUME NEW q \in Nat
  PROVE  (q + 1) * Rate = q * Rate + Rate /\ q * Rate \in Nat
BY RateAssumption, SMT

LEMMA MultiplesAdd ==
  ASSUME NEW q \in Nat, NEW r \in Nat
  PROVE  (q + r) * Rate = q * Rate + r * Rate
BY RateAssumption, SMT

(* A function on 1..n is a sequence of length n. *)
LEMMA FunctionIsSeq ==
  ASSUME NEW S, NEW n \in Nat, NEW f \in [1..n -> S]
  PROVE  f \in Seq(S) /\ Len(f) = n
BY SeqDef, SMT

-----------------------------------------------------------------------------
(* Padding. *)

LEMMA OrHighBitType ==
  ASSUME NEW b \in Byte
  PROVE  OrHighBit(b) \in Byte /\ OrHighBit(b) >= 128
BY DEF OrHighBit, Byte

(* The i-th byte of the padded message. *)
PadByteAt(msg, i) ==
    IF i <= Len(msg) /\ i < PaddedLen(Len(msg)) THEN msg[i]
    ELSE IF i = Len(msg) + 1 THEN IF i = PaddedLen(Len(msg)) THEN 134 ELSE 6
    ELSE IF i = PaddedLen(Len(msg)) THEN 128 ELSE 0

LEMMA PaddedLenBounds ==
  ASSUME NEW n \in Nat
  PROVE  /\ PaddedLen(n) \in Nat /\ n < PaddedLen(n) /\ PaddedLen(n) <= n + Rate
         /\ PaddedLen(n) = (n \div Rate) * Rate + Rate
<1> DEFINE q == n \div Rate
<1>1. /\ q \in Nat /\ n % Rate \in 0..(Rate - 1) /\ q * Rate \in Nat
      /\ n = q * Rate + (n % Rate)
  BY DivMod
<1>2. (q + 1) * Rate = q * Rate + Rate
  BY <1>1, OneMoreBlock
<1>3. PaddedLen(n) = q * Rate + Rate
  BY <1>2 DEF PaddedLen
<1> HIDE DEF q
<1>4. QED
  BY <1>1, <1>3, RateAssumption DEF q

LEMMA PadByteAtType ==
  ASSUME NEW msg \in Seq(Byte), NEW i \in Nat \ {0}
  PROVE  PadByteAt(msg, i) \in Byte
<1>1. Len(msg) \in Nat
  BY LenProperties
<1>2. i <= Len(msg) => msg[i] \in Byte
  BY <1>1, ElementOfSeq
<1>3. 0 \in Byte /\ 6 \in Byte /\ 128 \in Byte /\ 134 \in Byte
  BY DEF Byte
<1>4. QED
  BY <1>2, <1>3 DEF PadByteAt

(* What pad_message returns, byte by byte. *)
LEMMA PadMessageBytes ==
  ASSUME NEW msg \in Seq(Byte)
  PROVE  /\ PaddedLen(Len(msg)) \in Nat
         /\ Len(msg) < PaddedLen(Len(msg))
         /\ PaddedLen(Len(msg)) <= Len(msg) + Rate
         /\ PadMessage(msg) \in Seq(Byte)
         /\ Len(PadMessage(msg)) = PaddedLen(Len(msg))
         /\ \A i \in 1..PaddedLen(Len(msg)) : PadMessage(msg)[i] = PadByteAt(msg, i)
<1> DEFINE n    == Len(msg)
           last == PaddedLen(n)
           buf  == [i \in 1..last |->
                      IF i <= n THEN msg[i] ELSE IF i = n + 1 THEN SHA3DomainByte ELSE 0]
<1>1. n \in Nat
  BY LenProperties
<1>2. last \in Nat /\ n < last /\ last <= n + Rate
  BY <1>1, PaddedLenBounds
<1>3. \A i \in 1..n : msg[i] \in Byte
  BY ElementOfSeq
<1>4. buf \in [1..last -> Byte]
  BY <1>1, <1>2, <1>3 DEF SHA3DomainByte, Byte
<1> DEFINE pad == [buf EXCEPT ![last] = OrHighBit(@)]
<1>5. PadMessage(msg) = pad
  BY DEF PadMessage
<1>6. last \in 1..last
  BY <1>1, <1>2
<1>7. buf[last] = IF last = n + 1 THEN 6 ELSE 0
  BY <1>1, <1>2, <1>6 DEF SHA3DomainByte
<1>8. OrHighBit(buf[last]) = IF last = n + 1 THEN 134 ELSE 128
  BY <1>7 DEF OrHighBit
<1>9. \A i \in 1..last : pad[i] = IF i = last THEN OrHighBit(buf[last]) ELSE buf[i]
  BY <1>4
<1>10. DOMAIN pad = 1..last /\ pad = [i \in 1..last |-> pad[i]]
  BY <1>4
<1>11. \A i \in 1..last : pad[i] = PadByteAt(msg, i)
  BY <1>1, <1>2, <1>8, <1>9 DEF SHA3DomainByte, PadByteAt
<1> HIDE DEF pad, buf
<1>12. \A i \in 1..last : pad[i] \in Byte
  BY <1>2, <1>11, PadByteAtType
<1>13. pad \in [1..last -> Byte]
  BY <1>10, <1>12
<1> HIDE DEF last
<1>14. pad \in Seq(Byte) /\ Len(pad) = last
  BY <1>2, <1>13, FunctionIsSeq
<1>15. QED
  BY <1>2, <1>5, <1>11, <1>14 DEF last

(***************************************************************************)
(* The padding rule is injective: messages with the same padded form, and  *)
(* so with the same digest, are the same message.                          *)
(***************************************************************************)
THEOREM PaddingInjective ==
  ASSUME NEW m1 \in Seq(Byte), NEW m2 \in Seq(Byte), PadMessage(m1) = PadMessage(m2)
  PROVE  m1 = m2
<1>1. PaddedLen(Len(m1)) = PaddedLen(Len(m2))
  BY PadMessageBytes
<1>2. \A a, b \in Seq(Byte) : PadMessage(a) = PadMessage(b) => ~(Len(a) < Len(b))
  <2> SUFFICES ASSUME NEW a \in Seq(Byte), NEW b \in Seq(Byte),
                      PadMessage(a) = PadMessage(b), Len(a) < Len(b)
               PROVE  FALSE
    OBVIOUS
  <2> DEFINE last == PaddedLen(Len(a))
  <2>1. Len(a) \in Nat /\ Len(b) \in Nat
    BY LenProperties
  <2>2. last = PaddedLen(Len(b)) /\ last \in Nat /\ Len(a) < last /\ Len(b) < last
    BY PadMessageBytes
  <2>3. Len(b) + 1 \in 1..last
    BY <2>1, <2>2
  <2>4. PadMessage(b)[Len(b) + 1] = PadByteAt(b, Len(b) + 1)
    BY <2>2, <2>3, PadMessageBytes
  <2>5. PadMessage(a)[Len(b) + 1] = PadByteAt(a, Len(b) + 1)
    BY <2>2, <2>3, PadMessageBytes
  <2>6. PadByteAt(a, Len(b) + 1) # PadByteAt(b, Len(b) + 1)
    BY <2>1, <2>2 DEF PadByteAt
  <2>7. QED
    BY <2>4, <2>5, <2>6
<1>3. Len(m1) \in Nat /\ Len(m2) \in Nat
  BY LenProperties
<1>4. Len(m1) = Len(m2)
  BY <1>2, <1>3
<1>5. ASSUME NEW i \in 1..Len(m1)
      PROVE  m1[i] = m2[i]
  <2>1. i <= Len(m1) /\ i < PaddedLen(Len(m1)) /\ i \in 1..PaddedLen(Len(m1))
    BY <1>3, PadMessageBytes
  <2>2. PadMessage(m1)[i] = PadByteAt(m1, i) /\ PadMessage(m2)[i] = PadByteAt(m2, i)
    BY <1>1, <2>1, PadMessageBytes
  <2>3. QED
    BY <1>1, <1>4, <2>1, <2>2 DEF PadByteAt
<1>6. QED
  BY <1>4, <1>5, SeqEqual

-----------------------------------------------------------------------------
(* Byte strings. *)

LEMMA ConcatBytes ==
  ASSUME NEW a \in Seq(Byte), NEW b \in Seq(Byte)
  PROVE  a \o b \in Seq(Byte) /\ Len(a \o b) = Len(a) + Len(b)
BY ConcatProperties

LEMMA AssocBytes ==
  ASSUME NEW a \in Seq(Byte), NEW b \in Seq(Byte), NEW c \in Seq(Byte)
  PROVE  (a \o b) \o c = a \o (b \o c)
BY ConcatAssociative

-----------------------------------------------------------------------------
(* The buffer. *)

LEMMA BufferIsSeq ==
  ASSUME NEW b \in [1..BufferLen -> Byte]
  PROVE  b \in Seq(Byte) /\ Len(b) = BufferLen
BY FunctionIsSeq, SpongeAssumption

(* A prefix of the buffer, byte by byte. *)
LEMMA BufferPrefix ==
  ASSUME NEW b \in [1..BufferLen -> Byte], NEW n \in 0..BufferLen
  PROVE  /\ SubSeq(b, 1, n) \in Seq(Byte)
         /\ Len(SubSeq(b, 1, n)) = n
         /\ \A i \in 1..n : SubSeq(b, 1, n)[i] = b[i]
<1>1. \A i \in 1..n : b[i] \in Byte
  BY SpongeAssumption
<1>2. /\ SubSeq(b, 1, n) \in Seq(Byte)
      /\ Len(SubSeq(b, 1, n)) = IF 1 <= n THEN n - 1 + 1 ELSE 0
      /\ \A i \in 1..(n - 1 + 1) : SubSeq(b, 1, n)[i] = b[1 + i - 1]
  BY <1>1, SubSeqProperties, SpongeAssumption
<1>3. QED
  BY <1>2, SpongeAssumption

(* A segment of a byte string, byte by byte. *)
LEMMA Segment ==
  ASSUME NEW d \in Seq(Byte), NEW a \in Nat, NEW b \in Nat, a <= b, b <= Len(d)
  PROVE  /\ SubSeq(d, a + 1, b) \in Seq(Byte)
         /\ Len(SubSeq(d, a + 1, b)) = b - a
         /\ \A i \in 1..(b - a) : SubSeq(d, a + 1, b)[i] = d[a + i]
<1>1. \A i \in (a + 1)..b : d[i] \in Byte
  BY ElementOfSeq, LenProperties
<1>2. /\ SubSeq(d, a + 1, b) \in Seq(Byte)
      /\ Len(SubSeq(d, a + 1, b)) = IF a + 1 <= b THEN b - (a + 1) + 1 ELSE 0
      /\ \A i \in 1..(b - (a + 1) + 1) : SubSeq(d, a + 1, b)[i] = d[a + 1 + i - 1]
  BY <1>1, SubSeqProperties
<1>3. QED
  BY <1>2

LEMMA CopyIntoType ==
  ASSUME NEW b \in [1..BufferLen -> Byte], NEW at \in Nat, NEW bytes \in Seq(Byte)
  PROVE  /\ CopyInto(b, at, bytes) \in [1..BufferLen -> Byte]
         /\ \A i \in 1..BufferLen :
               CopyInto(b, at, bytes)[i] =
                 IF i > at /\ i <= at + Len(bytes) THEN bytes[i - at] ELSE b[i]
<1>1. DOMAIN b = 1..BufferLen
  OBVIOUS
<1>2. Len(bytes) \in Nat /\ \A j \in 1..Len(bytes) : bytes[j] \in Byte
  BY LenProperties, ElementOfSeq
<1>3. \A i \in 1..BufferLen : i > at /\ i <= at + Len(bytes) => bytes[i - at] \in Byte
  BY <1>2, SpongeAssumption
<1>4. QED
  BY <1>1, <1>3 DEF CopyInto

(* Copying bytes to the end of what waits in the buffer appends them to it. *)
LEMMA CopyAppends ==
  ASSUME NEW b \in [1..BufferLen -> Byte], NEW at \in Nat, NEW bytes \in Seq(Byte),
         at + Len(bytes) <= BufferLen
  PROVE  SubSeq(CopyInto(b, at, bytes), 1, at + Len(bytes)) = SubSeq(b, 1, at) \o bytes
<1> DEFINE c    == CopyInto(b, at, bytes)
           n    == at + Len(bytes)
           lhs  == SubSeq(c, 1, n)
           head == SubSeq(b, 1, at)
<1>1. Len(bytes) \in Nat /\ at \in 0..BufferLen /\ n \in 0..BufferLen
  BY LenProperties, SpongeAssumption
<1>2. /\ c \in [1..BufferLen -> Byte]
      /\ \A i \in 1..BufferLen :
            c[i] = IF i > at /\ i <= at + Len(bytes) THEN bytes[i - at] ELSE b[i]
  BY CopyIntoType
<1>3. /\ lhs \in Seq(Byte) /\ Len(lhs) = n
      /\ \A i \in 1..n : lhs[i] = c[i]
  <2> HIDE DEF c, n
  <2> QED BY <1>1, <1>2, BufferPrefix
<1>4. /\ head \in Seq(Byte) /\ Len(head) = at
      /\ \A i \in 1..at : head[i] = b[i]
  BY <1>1, BufferPrefix
<1>5. /\ head \o bytes \in Seq(Byte) /\ Len(head \o bytes) = at + Len(bytes)
      /\ \A i \in 1..(at + Len(bytes)) :
            (head \o bytes)[i] = IF i <= at THEN head[i] ELSE bytes[i - at]
  <2> HIDE DEF head
  <2> QED BY <1>4, ConcatProperties
<1>6. ASSUME NEW i \in 1..n
      PROVE  lhs[i] = (head \o bytes)[i]
  <2> HIDE DEF c, lhs, head
  <2>1. i \in 1..BufferLen
    BY <1>1, SpongeAssumption
  <2>2. CASE i <= at
    BY <1>1, <1>2, <1>3, <1>4, <1>5, <2>1, <2>2
  <2>3. CASE i > at
    BY <1>1, <1>2, <1>3, <1>5, <2>1, <2>3
  <2>4. i <= at \/ i > at
    BY <2>1, SpongeAssumption
  <2>5. QED
    BY <2>2, <2>3, <2>4
<1> HIDE DEF c, head, lhs
<1>7. lhs = head \o bytes
  BY <1>1, <1>3, <1>5, <1>6, SeqEqual
<1>8. QED
  BY <1>7 DEF lhs, head, c

-----------------------------------------------------------------------------
(* Whole blocks. *)

LEMMA AlignedQuotient ==
  ASSUME NEW a \in Nat, a % Rate = 0
  PROVE  a \div Rate \in Nat /\ a = (a \div Rate) * Rate
BY DivMod

LEMMA AlignedAdd ==
  ASSUME NEW a \in Nat, NEW q \in Nat, a % Rate = 0
  PROVE  /\ q * Rate \in Nat
         /\ (a + q * Rate) % Rate = 0
         /\ (a + Rate) % Rate = 0
<1> DEFINE p == a \div Rate
<1>1. p \in Nat /\ a = p * Rate
  BY DivMod
<1> HIDE DEF p
<1>2. a + q * Rate = (p + q) * Rate + 0 /\ p + q \in Nat
  BY <1>1, MultiplesAdd, OneMoreBlock
<1>3. a + Rate = (p + 1) * Rate + 0 /\ p + 1 \in Nat
  BY <1>1, OneMoreBlock, RateAssumption
<1>4. 0 \in 0..(Rate - 1)
  BY RateAssumption
<1>5. QED
  BY <1>2, <1>3, <1>4, DivModUnique, OneMoreBlock

LEMMA WholeBlocksBounds ==
  ASSUME NEW n \in Nat
  PROVE  /\ WholeBlocks(n) \in 0..n
         /\ n - WholeBlocks(n) \in 0..(Rate - 1)
         /\ \A a \in Nat : a % Rate = 0 => (a + WholeBlocks(n)) % Rate = 0
         /\ n = 0 => WholeBlocks(n) = 0
<1> DEFINE q == n \div Rate
<1>1. q \in Nat /\ n % Rate \in 0..(Rate - 1) /\ q * Rate \in Nat /\ n = q * Rate + (n % Rate)
  BY DivMod
<1>2. WholeBlocks(n) = q * Rate
  BY DEF WholeBlocks
<1> HIDE DEF q
<1>3. \A a \in Nat : a % Rate = 0 => (a + q * Rate) % Rate = 0
  BY <1>1, AlignedAdd
<1>4. WholeBlocks(n) \in 0..n /\ n - WholeBlocks(n) \in 0..(Rate - 1)
  BY <1>1, <1>2, RateAssumption
<1>5. QED
  BY <1>2, <1>3, <1>4

LEMMA XorAbsorbsTheBlock ==
  ASSUME NEW state, NEW block
  PROVE  XorAndPermute(state, block) = state \o SubSeq(block, 1, Rate)
BY SpongeAssumption DEF XorAndPermute

-----------------------------------------------------------------------------
(* The first phase of absorb. *)

LEMMA MessageType ==
  ASSUME NEW s \in SpongeType
  PROVE  /\ s.state \in Seq(Byte) /\ s.pos \in 0..BufferLen /\ s.buffer \in [1..BufferLen -> Byte]
         /\ s.pos \in 0..(Rate - 1)
         /\ MessageOf(s) \in Seq(Byte)
         /\ Len(MessageOf(s)) = Len(s.state) + s.pos
<1>1. s.state \in Seq(Byte) /\ s.pos \in 0..(Rate - 1) /\ s.buffer \in [1..BufferLen -> Byte]
  BY DEF SpongeType
<1>2. s.pos \in 0..BufferLen
  BY <1>1, SpongeAssumption, RateAssumption
<1>3. SubSeq(s.buffer, 1, s.pos) \in Seq(Byte) /\ Len(SubSeq(s.buffer, 1, s.pos)) = s.pos
  BY <1>1, <1>2, BufferPrefix
<1>4. QED
  BY <1>1, <1>2, <1>3, ConcatProperties DEF MessageOf

LEMMA TopUpCorrect ==
  ASSUME NEW s \in SpongeType, s.state \in Seq(Byte), Len(s.state) % Rate = 0,
         NEW d \in Seq(Byte)
  PROVE  LET n == TopUpLen(s, d)
             t == TopUp(s, d)
         IN  /\ n \in 0..Len(d)
             /\ t \in SpongeType
             /\ Len(t.state) % Rate = 0
             /\ MessageOf(t) = MessageOf(s) \o SubSeq(d, 1, n)
             /\ t.pos = 0 \/ n = Len(d)
<1> DEFINE n    == TopUpLen(s, d)
           t    == TopUp(s, d)
           got  == SubSeq(d, 1, n)
           held == SubSeq(s.buffer, 1, s.pos)
           buf  == CopyInto(s.buffer, s.pos, got)
<1>1. /\ s.state \in Seq(Byte) /\ s.buffer \in [1..BufferLen -> Byte]
      /\ s.pos \in 0..BufferLen /\ s.pos \in 0..(Rate - 1) /\ Len(s.state) \in Nat
  BY MessageType, LenProperties
<1>2. Len(d) \in Nat
  BY LenProperties
<1>3. /\ n \in 0..Len(d) /\ s.pos + n <= Rate
      /\ s.pos + n < Rate => n = Len(d) \/ s.pos = 0
      /\ s.pos = 0 => n = 0
  BY <1>1, <1>2, RateAssumption DEF TopUpLen
<1>4. got \in Seq(Byte) /\ Len(got) = n
  <2> HIDE DEF n
  <2>1. /\ SubSeq(d, 0 + 1, n) \in Seq(Byte) /\ Len(SubSeq(d, 0 + 1, n)) = n - 0
    BY <1>2, <1>3, Segment
  <2> QED BY <1>2, <1>3, <2>1
<1>5. held \in Seq(Byte) /\ Len(held) = s.pos
  BY <1>1, BufferPrefix
<1>6. buf \in [1..BufferLen -> Byte]
  <2> HIDE DEF got
  <2> QED BY <1>1, <1>4, CopyIntoType
<1>7. SubSeq(buf, 1, s.pos + n) = held \o got
  <2> HIDE DEF got, n
  <2>1. s.pos \in Nat /\ s.pos + Len(got) <= BufferLen
    BY <1>1, <1>2, <1>3, <1>4, SpongeAssumption, RateAssumption
  <2> QED BY <1>1, <1>4, <2>1, CopyAppends
<1>8. t = IF s.pos + n = Rate
          THEN [state |-> XorAndPermute(s.state, buf), pos |-> 0, buffer |-> buf]
          ELSE [state |-> s.state, pos |-> s.pos + n, buffer |-> buf]
  BY DEF TopUp
<1>9. MessageOf(s) \o got = s.state \o (held \o got)
  <2> HIDE DEF got, held
  <2>1. (s.state \o held) \o got = s.state \o (held \o got)
    BY <1>1, <1>4, <1>5, AssocBytes
  <2> QED BY <2>1 DEF MessageOf, held
<1> HIDE DEF n, t, got, buf
<1>10. CASE s.pos + n = Rate
  <2>1. t = [state |-> s.state \o SubSeq(buf, 1, Rate), pos |-> 0, buffer |-> buf]
    BY <1>8, <1>10, XorAbsorbsTheBlock
  <2>2. SubSeq(buf, 1, Rate) = held \o got
    BY <1>7, <1>10
  <2> HIDE DEF held
  <2>3. held \o got \in Seq(Byte) /\ Len(held \o got) = Rate
    BY <1>1, <1>4, <1>5, <1>10, ConcatBytes
  <2>4. /\ s.state \o (held \o got) \in Seq(Byte)
        /\ Len(s.state \o (held \o got)) = Len(s.state) + Rate
    BY <1>1, <2>3, ConcatBytes
  <2>5. /\ t = [state |-> s.state \o (held \o got), pos |-> 0, buffer |-> buf]
        /\ t.state = s.state \o (held \o got) /\ t.pos = 0 /\ t.buffer = buf
    BY <2>1, <2>2
  <2>6. t \in SpongeType
    BY <1>6, <2>4, <2>5, RateAssumption DEF SpongeType
  <2>7. Len(t.state) % Rate = 0
    BY <1>1, <2>4, <2>5, AlignedAdd
  <2>8. MessageOf(t) = t.state \o SubSeq(buf, 1, 0)
    BY <2>5 DEF MessageOf
  <2>9. SubSeq(buf, 1, 0) = <<>>
    BY SubSeqEmpty
  <2>10. MessageOf(t) = s.state \o (held \o got)
    BY <2>4, <2>5, <2>8, <2>9, ConcatEmptySeq
  <2>11. QED
    BY <1>3, <1>9, <2>5, <2>6, <2>7, <2>10 DEF n, t, got
<1>11. CASE s.pos + n # Rate
  <2>1. t = [state |-> s.state, pos |-> s.pos + n, buffer |-> buf]
    BY <1>8, <1>11
  <2>2. t.state = s.state /\ t.pos = s.pos + n /\ t.buffer = buf
    BY <2>1
  <2>3. s.pos + n \in 0..(Rate - 1)
    BY <1>1, <1>2, <1>3, <1>11, RateAssumption
  <2>4. t \in SpongeType
    BY <1>1, <1>6, <2>1, <2>3 DEF SpongeType
  <2>5. MessageOf(t) = s.state \o (held \o got)
    BY <1>7, <2>2 DEF MessageOf
  <2>6. t.pos = 0 \/ n = Len(d)
    BY <1>1, <1>2, <1>3, <2>2, <2>3, RateAssumption
  <2>7. QED
    BY <1>3, <1>9, <2>2, <2>4, <2>5, <2>6 DEF n, t, got
<1>12. QED
  BY <1>10, <1>11

(***************************************************************************)
(* absorb appends its input to the message, wherever the block boundaries  *)
(* fall, and leaves less than a block in the buffer.                       *)
(***************************************************************************)
THEOREM AbsorbAppends ==
  ASSUME NEW s \in SpongeType, Len(s.state) % Rate = 0, NEW d \in Seq(Byte)
  PROVE  /\ Absorb(s, d) \in SpongeType
         /\ Len(Absorb(s, d).state) % Rate = 0
         /\ MessageOf(Absorb(s, d)) = MessageOf(s) \o d
<1> DEFINE n    == TopUpLen(s, d)
           t    == TopUp(s, d)
           upto == n + WholeBlocks(Len(d) - n)
           a    == SubSeq(d, 1, n)
           b    == SubSeq(d, n + 1, upto)
           c    == SubSeq(d, upto + 1, Len(d))
           w    == [state |-> t.state \o b, pos |-> t.pos, buffer |-> t.buffer]
<1>1. /\ n \in 0..Len(d) /\ t \in SpongeType /\ Len(t.state) % Rate = 0
      /\ MessageOf(t) = MessageOf(s) \o a
      /\ t.pos = 0 \/ n = Len(d)
  BY MessageType, TopUpCorrect
<1>2. Absorb(s, d) = KeepTail(w, c)
  BY DEF Absorb, AbsorbBlocks
<1>3. Len(d) \in Nat
  BY LenProperties
<1> HIDE DEF t, n
<1>4. Len(d) - n \in Nat
  BY <1>1, <1>3
<1>5. /\ upto \in n..Len(d) /\ Len(d) - upto \in 0..(Rate - 1) /\ upto - n = WholeBlocks(Len(d) - n)
      /\ n = Len(d) => upto = n
  <2> DEFINE k == Len(d) - n
  <2>1. /\ WholeBlocks(k) \in 0..k /\ k - WholeBlocks(k) \in 0..(Rate - 1)
        /\ k = 0 => WholeBlocks(k) = 0
    BY <1>4, WholeBlocksBounds
  <2>2. QED
    BY <1>1, <1>3, <2>1, RateAssumption
<1>6. \A x \in Nat : x % Rate = 0 => (x + (upto - n)) % Rate = 0
  BY <1>4, <1>5, WholeBlocksBounds
<1> HIDE DEF upto
<1>7. a \in Seq(Byte) /\ b \in Seq(Byte) /\ c \in Seq(Byte)
  <2>1. SubSeq(d, 0 + 1, n) \in Seq(Byte)
    BY <1>1, <1>3, Segment
  <2>2. SubSeq(d, n + 1, upto) \in Seq(Byte)
    BY <1>1, <1>3, <1>5, Segment
  <2>3. SubSeq(d, upto + 1, Len(d)) \in Seq(Byte)
    BY <1>1, <1>3, <1>5, Segment
  <2>4. QED
    BY <2>1, <2>2, <2>3
<1>8. Len(b) = upto - n
  BY <1>1, <1>3, <1>5, Segment
<1>9. Len(c) = Len(d) - upto
  BY <1>1, <1>3, <1>5, Segment
<1>10. (a \o b) \o c = d
  <2>1. SubSeq(d, 1, n) \o SubSeq(d, n + 1, upto) = SubSeq(d, 1, upto)
    BY <1>1, <1>3, <1>5, ConcatAdjacentSubSeq
  <2>2. SubSeq(d, 1, upto) \o SubSeq(d, upto + 1, Len(d)) = SubSeq(d, 1, Len(d))
    <3>1. 1 \in 1..(Len(d) + 1) /\ upto \in (1 - 1)..Len(d) /\ Len(d) \in upto..Len(d)
      BY <1>1, <1>3, <1>5
    <3>2. QED
      BY <3>1, ConcatAdjacentSubSeq
  <2>3. SubSeq(d, 1, Len(d)) = d
    BY SubSeqFull
  <2>4. QED
    BY <2>1, <2>2, <2>3
<1> HIDE DEF a, b, c
<1>11. /\ t.state \in Seq(Byte) /\ t.pos \in 0..(Rate - 1) /\ t.buffer \in [1..BufferLen -> Byte]
       /\ Len(t.state) \in Nat
  BY <1>1, LenProperties DEF SpongeType
<1>12. w.state = t.state \o b /\ w.pos = t.pos /\ w.buffer = t.buffer
  OBVIOUS
<1>13. t.state \o b \in Seq(Byte) /\ Len(t.state \o b) = Len(t.state) + (upto - n)
  <2>1. t.state \in Seq(Byte) /\ b \in Seq(Byte)
    BY <1>7, <1>11
  <2>2. t.state \o b \in Seq(Byte) /\ Len(t.state \o b) = Len(t.state) + Len(b)
    BY <2>1, ConcatBytes
  <2>3. QED
    BY <1>8, <2>2
<1>14. Len(t.state \o b) % Rate = 0
  BY <1>1, <1>6, <1>11, <1>13
<1>15. MessageOf(w) = MessageOf(t) \o b
  <2>1. w.state = t.state \o b /\ w.pos = t.pos /\ w.buffer = t.buffer
    BY <1>12
  <2> HIDE DEF w
  <2>2. CASE t.pos = 0
    <3>1. SubSeq(t.buffer, 1, 0) = <<>>
      BY SubSeqEmpty
    <3>2. MessageOf(t) = t.state \o <<>> /\ MessageOf(w) = (t.state \o b) \o <<>>
      BY <2>1, <2>2, <3>1 DEF MessageOf
    <3>3. QED
      BY <1>11, <1>13, <3>2, ConcatEmptySeq
  <2>3. CASE n = Len(d)
    <3>1. b = <<>>
      BY <1>5, <1>7, <1>8, <2>3, EmptySeq
    <3>2. t.state \o b = t.state
      BY <1>11, <3>1, ConcatEmptySeq
    <3>3. MessageOf(w) = MessageOf(t)
      BY <2>1, <3>2 DEF MessageOf
    <3>4. MessageOf(t) \in Seq(Byte)
      BY <1>1, MessageType
    <3>5. QED
      BY <3>1, <3>3, <3>4, ConcatEmptySeq
  <2>4. QED
    BY <1>1, <2>2, <2>3
<1>16. /\ MessageOf(s) \in Seq(Byte)
       /\ MessageOf(w) \o c = MessageOf(s) \o d
  <2>1. MessageOf(s) \in Seq(Byte)
    BY MessageType
  <2> HIDE DEF w
  <2>2. MessageOf(w) = MessageOf(s) \o (a \o b)
    <3>1. (MessageOf(s) \o a) \o b = MessageOf(s) \o (a \o b)
      BY <1>7, <2>1, AssocBytes
    <3>2. QED
      BY <1>1, <1>15, <3>1
  <2>3. a \o b \in Seq(Byte)
    BY <1>7, ConcatBytes
  <2>4. (MessageOf(s) \o (a \o b)) \o c = MessageOf(s) \o ((a \o b) \o c)
    BY SMTT(30), <1>7, <2>1, <2>3, AssocBytes
  <2>5. QED
    BY <1>10, <2>1, <2>2, <2>4
<1>17. w \in SpongeType
  BY <1>11, <1>13 DEF SpongeType
<1> HIDE DEF w
<1>18. CASE c = <<>>
  <2>1. Absorb(s, d) = w
    BY <1>2, <1>18 DEF KeepTail
  <2>2. w.state = t.state \o b
    BY <1>12
  <2>3. MessageOf(w) \o c = MessageOf(w)
    BY <1>17, <1>18, MessageType, ConcatEmptySeq
  <2>4. QED
    BY <1>14, <1>16, <1>17, <2>1, <2>2, <2>3
<1>19. CASE c # <<>>
  <2> DEFINE buf == CopyInto(t.buffer, 0, c)
  <2>1. n # Len(d)
    BY <1>3, <1>5, <1>7, <1>9, <1>19, EmptySeq
  <2>2. t.pos = 0
    BY <1>1, <2>1
  <2>3. Absorb(s, d) = [state |-> w.state, pos |-> Len(c), buffer |-> CopyInto(w.buffer, 0, c)]
    BY <1>2, <1>19 DEF KeepTail
  <2>4. /\ Absorb(s, d) = [state |-> t.state \o b, pos |-> Len(c), buffer |-> buf]
        /\ Absorb(s, d).state = t.state \o b /\ Absorb(s, d).pos = Len(c)
        /\ Absorb(s, d).buffer = buf
    BY <1>12, <2>3
  <2>5. Len(c) \in 0..(Rate - 1) /\ 0 + Len(c) <= BufferLen /\ 0 + Len(c) = Len(c)
    BY <1>3, <1>5, <1>9, SpongeAssumption, RateAssumption
  <2>6. buf \in [1..BufferLen -> Byte]
    <3>1. t.buffer \in [1..BufferLen -> Byte] /\ 0 \in Nat /\ c \in Seq(Byte)
      BY <1>7, <1>11
    <3>2. QED
      BY <3>1, CopyIntoType
  <2>7. SubSeq(buf, 1, 0 + Len(c)) = SubSeq(t.buffer, 1, 0) \o c
    <3>1. t.buffer \in [1..BufferLen -> Byte] /\ 0 \in Nat /\ c \in Seq(Byte)
      BY <1>7, <1>11
    <3>2. 0 + Len(c) <= BufferLen
      BY <2>5
    <3>3. QED
      BY <3>1, <3>2, CopyAppends
  <2>8. SubSeq(t.buffer, 1, 0) = <<>>
    BY SubSeqEmpty
  <2>9. SubSeq(buf, 1, Len(c)) = c
    BY <1>7, <2>5, <2>7, <2>8, ConcatEmptySeq
  <2> HIDE DEF buf
  <2>10. Absorb(s, d) \in SpongeType
    BY <1>13, <2>4, <2>5, <2>6 DEF SpongeType
  <2>11. Absorb(s, d).state = t.state \o b
    BY <2>4
  <2>12. MessageOf(Absorb(s, d)) = (t.state \o b) \o c
    BY <2>4, <2>9 DEF MessageOf
  <2>13. MessageOf(w) = t.state \o b
    <3>1. SubSeq(t.buffer, 1, 0) = <<>>
      BY <2>8
    <3>2. MessageOf(w) = (t.state \o b) \o <<>>
      BY <1>12, <2>2, <3>1 DEF MessageOf
    <3>3. QED
      BY <1>13, <3>2, ConcatEmptySeq
  <2>14. QED
    BY <1>14, <1>16, <2>10, <2>11, <2>12, <2>13
<1>20. QED
  BY <1>18, <1>19

-----------------------------------------------------------------------------
(* finalize. *)

(* The length of a message splits into the absorbed and the waiting bytes. *)
LEMMA MessageBlocks ==
  ASSUME NEW s \in SpongeType, Len(s.state) % Rate = 0
  PROVE  /\ (Len(MessageOf(s)) \div Rate) * Rate = Len(s.state)
         /\ PaddedLen(Len(MessageOf(s))) = Len(s.state) + Rate
<1> DEFINE q == Len(s.state) \div Rate
<1>1. /\ Len(s.state) \in Nat /\ s.pos \in 0..(Rate - 1)
      /\ Len(MessageOf(s)) = Len(s.state) + s.pos /\ Len(MessageOf(s)) \in Nat
  BY MessageType, LenProperties
<1>2. q \in Nat /\ Len(s.state) = q * Rate
  BY <1>1, AlignedQuotient
<1> HIDE DEF q
<1>3. Len(MessageOf(s)) \div Rate = q
  BY <1>1, <1>2, DivModUnique
<1>4. QED
  BY <1>1, <1>2, <1>3, PaddedLenBounds

(* The padded buffer, byte by byte. *)
LEMMA PadBufferBytes ==
  ASSUME NEW s \in SpongeType
  PROVE  /\ PadBuffer(s) \in [1..BufferLen -> Byte]
         /\ \A i \in 1..s.pos : PadBuffer(s)[i] = s.buffer[i]
         /\ \A i \in (s.pos + 1)..Rate :
               PadBuffer(s)[i] =
                 IF i = s.pos + 1 THEN IF i = Rate THEN 134 ELSE 6
                 ELSE IF i = Rate THEN 128 ELSE 0
<1> DEFINE clr == [i \in 1..BufferLen |-> IF i > s.pos /\ i <= Rate THEN 0 ELSE s.buffer[i]]
           mrk == [clr EXCEPT ![s.pos + 1] = SHA3DomainByte]
           pad == [mrk EXCEPT ![Rate] = OrHighBit(@)]
<1>1. s.pos \in 0..(Rate - 1) /\ s.buffer \in [1..BufferLen -> Byte]
  BY MessageType
<1>2. Rate \in 1..BufferLen /\ s.pos + 1 \in 1..Rate /\ s.pos + 1 \in 1..BufferLen
  BY <1>1, SpongeAssumption, RateAssumption
<1>3. 0 \in Byte /\ 6 \in Byte /\ 128 \in Byte /\ 134 \in Byte /\ SHA3DomainByte = 6
  BY DEF Byte, SHA3DomainByte
<1>4. /\ clr \in [1..BufferLen -> Byte]
      /\ \A i \in 1..BufferLen : clr[i] = IF i > s.pos /\ i <= Rate THEN 0 ELSE s.buffer[i]
  BY <1>1, <1>3
<1> HIDE DEF clr
<1>5. /\ mrk \in [1..BufferLen -> Byte]
      /\ \A i \in 1..BufferLen : mrk[i] = IF i = s.pos + 1 THEN 6 ELSE clr[i]
  BY <1>3, <1>4
<1> HIDE DEF mrk
<1>6. OrHighBit(mrk[Rate]) = IF Rate = s.pos + 1 THEN 134 ELSE 128
  <2>1. mrk[Rate] = IF Rate = s.pos + 1 THEN 6 ELSE 0
    BY <1>1, <1>2, <1>4, <1>5
  <2>2. QED
    BY <2>1 DEF OrHighBit
<1>7. /\ pad \in [1..BufferLen -> Byte]
      /\ \A i \in 1..BufferLen : pad[i] = IF i = Rate THEN OrHighBit(mrk[Rate]) ELSE mrk[i]
  BY <1>2, <1>3, <1>5, <1>6
<1>8. PadBuffer(s) = pad
  BY DEF PadBuffer, pad, mrk, clr
<1> HIDE DEF pad
<1>9. ASSUME NEW i \in 1..s.pos
      PROVE  pad[i] = s.buffer[i]
  <2>1. i \in 1..BufferLen /\ i # Rate /\ i # s.pos + 1 /\ ~(i > s.pos)
    BY <1>1, <1>2, SpongeAssumption, RateAssumption
  <2>2. pad[i] = mrk[i] /\ mrk[i] = clr[i] /\ clr[i] = s.buffer[i]
    BY <1>4, <1>5, <1>7, <2>1
  <2>3. QED
    BY <2>2
<1>10. ASSUME NEW i \in (s.pos + 1)..Rate
       PROVE  pad[i] = IF i = s.pos + 1 THEN IF i = Rate THEN 134 ELSE 6
                       ELSE IF i = Rate THEN 128 ELSE 0
  <2>1. i \in 1..BufferLen /\ i > s.pos /\ i <= Rate
    BY <1>1, <1>2, SpongeAssumption, RateAssumption
  <2>2. clr[i] = 0
    BY <1>4, <2>1
  <2>3. QED
    BY <1>5, <1>6, <1>7, <2>1, <2>2
<1>11. QED
  BY <1>7, <1>8, <1>9, <1>10

(***************************************************************************)
(* finalize absorbs the padding of the message the sponge stands for, so   *)
(* the digest it squeezes is that message's.  What it leaves behind stands *)
(* for the padded message followed by its last partial block again.        *)
(***************************************************************************)
THEOREM FinalizePads ==
  ASSUME NEW s \in SpongeType, Len(s.state) % Rate = 0
  PROVE  LET f == FinalizeSponge(s)
         IN  /\ f \in SpongeType
             /\ Len(f.state) % Rate = 0
             /\ f.state = PadMessage(MessageOf(s))
             /\ MessageOf(f) = PadMessage(MessageOf(s)) \o PartialBlock(MessageOf(s))
             /\ Len(MessageOf(f)) = Len(MessageOf(s)) + Rate
<1> DEFINE m    == MessageOf(s)
           pad  == PadBuffer(s)
           held == SubSeq(s.buffer, 1, s.pos)
           blk  == SubSeq(pad, 1, Rate)
           f    == FinalizeSponge(s)
<1>1. /\ s.state \in Seq(Byte) /\ s.buffer \in [1..BufferLen -> Byte]
      /\ s.pos \in 0..BufferLen /\ s.pos \in 0..(Rate - 1) /\ Len(s.state) \in Nat
      /\ m \in Seq(Byte) /\ Len(m) = Len(s.state) + s.pos
  BY MessageType, LenProperties
<1>2. /\ pad \in [1..BufferLen -> Byte]
      /\ \A i \in 1..s.pos : pad[i] = s.buffer[i]
      /\ \A i \in (s.pos + 1)..Rate :
            pad[i] = IF i = s.pos + 1 THEN IF i = Rate THEN 134 ELSE 6
                     ELSE IF i = Rate THEN 128 ELSE 0
  BY PadBufferBytes
<1> HIDE DEF pad
<1>3. held \in Seq(Byte) /\ Len(held) = s.pos /\ \A i \in 1..s.pos : held[i] = s.buffer[i]
  BY <1>1, BufferPrefix
<1>4. blk \in Seq(Byte) /\ Len(blk) = Rate /\ \A i \in 1..Rate : blk[i] = pad[i]
  <2>1. Rate \in 0..BufferLen
    BY SpongeAssumption, RateAssumption
  <2>2. QED
    BY <1>2, <2>1, BufferPrefix
<1>5. /\ f = [state |-> s.state \o blk, pos |-> s.pos, buffer |-> pad]
      /\ f.state = s.state \o blk /\ f.pos = s.pos /\ f.buffer = pad
  BY XorAbsorbsTheBlock DEF FinalizeSponge, pad
<1> HIDE DEF blk, f
<1>6. /\ s.state \o blk \in Seq(Byte) /\ Len(s.state \o blk) = Len(s.state) + Rate
      /\ \A i \in 1..(Len(s.state) + Rate) :
            (s.state \o blk)[i] =
               IF i <= Len(s.state) THEN s.state[i] ELSE blk[i - Len(s.state)]
  BY <1>1, <1>4, ConcatProperties
<1>7. f \in SpongeType
  BY <1>1, <1>2, <1>5, <1>6 DEF SpongeType
<1>8. Len(f.state) % Rate = 0
  BY <1>1, <1>5, <1>6, AlignedAdd
<1>9. PaddedLen(Len(m)) = Len(s.state) + Rate
  BY MessageBlocks
<1>10. \A i \in 1..Len(m) :
          m[i] = IF i <= Len(s.state) THEN s.state[i] ELSE s.buffer[i - Len(s.state)]
  <2> HIDE DEF held
  <2>1. m = s.state \o held
    BY DEF MessageOf, m, held
  <2> HIDE DEF m
  <2>2. \A i \in 1..(Len(s.state) + Len(held)) :
          (s.state \o held)[i] =
             IF i <= Len(s.state) THEN s.state[i] ELSE held[i - Len(s.state)]
    BY <1>1, <1>3, ConcatProperties
  <2>3. QED
    BY SMTT(30), <1>1, <1>3, <2>1, <2>2
<1> HIDE DEF m
<1>11. /\ PadMessage(m) \in Seq(Byte) /\ Len(PadMessage(m)) = Len(s.state) + Rate
       /\ \A i \in 1..(Len(s.state) + Rate) : PadMessage(m)[i] = PadByteAt(m, i)
  BY <1>1, <1>9, PadMessageBytes
<1>12. ASSUME NEW i \in 1..(Len(s.state) + Rate)
       PROVE  (s.state \o blk)[i] = PadByteAt(m, i)
  <2>1. CASE i <= Len(s.state)
    <3>1. i \in 1..Len(m) /\ i <= Len(m) /\ i < PaddedLen(Len(m))
      BY <1>1, <1>9, <2>1, RateAssumption
    <3>2. (s.state \o blk)[i] = s.state[i]
      BY <1>6, <2>1
    <3>3. m[i] = s.state[i]
      BY <1>10, <2>1, <3>1
    <3>4. QED
      BY <3>1, <3>2, <3>3 DEF PadByteAt
  <2>2. CASE i > Len(s.state) /\ i <= Len(m)
    <3>1. i - Len(s.state) \in 1..s.pos /\ i - Len(s.state) \in 1..Rate
      BY <1>1, <2>2, RateAssumption
    <3>2. (s.state \o blk)[i] = s.buffer[i - Len(s.state)]
      <4>1. (s.state \o blk)[i] = blk[i - Len(s.state)]
        BY <1>1, <1>6, <2>2
      <4>2. blk[i - Len(s.state)] = pad[i - Len(s.state)]
        BY <1>4, <3>1
      <4>3. pad[i - Len(s.state)] = s.buffer[i - Len(s.state)]
        BY <1>2, <3>1
      <4>4. QED
        BY <4>1, <4>2, <4>3
    <3>3. m[i] = s.buffer[i - Len(s.state)]
      BY <1>1, <1>10, <2>2
    <3>4. i <= Len(m) /\ i < PaddedLen(Len(m))
      BY <1>1, <1>9, <2>2, RateAssumption
    <3>5. QED
      BY <3>2, <3>3, <3>4 DEF PadByteAt
  <2>3. CASE i > Len(m)
    <3>1. i - Len(s.state) \in (s.pos + 1)..Rate /\ i - Len(s.state) \in 1..Rate /\ i > Len(s.state)
      BY <1>1, <2>3, RateAssumption
    <3>2. (s.state \o blk)[i] = pad[i - Len(s.state)]
      BY <1>1, <1>4, <1>6, <3>1
    <3>3. pad[i - Len(s.state)] =
            IF i - Len(s.state) = s.pos + 1 THEN IF i - Len(s.state) = Rate THEN 134 ELSE 6
            ELSE IF i - Len(s.state) = Rate THEN 128 ELSE 0
      BY <1>2, <3>1
    <3>4. ~(i <= Len(m))
      BY <1>1, <2>3
    <3>5. (i - Len(s.state) = s.pos + 1) <=> (i = Len(m) + 1)
      BY <1>1
    <3>6. (i - Len(s.state) = Rate) <=> (i = PaddedLen(Len(m)))
      BY <1>1, <1>9, RateAssumption
    <3> HIDE DEF held
    <3>7. QED
      BY <3>2, <3>3, <3>4, <3>5, <3>6 DEF PadByteAt
  <2>4. i <= Len(s.state) \/ (i > Len(s.state) /\ i <= Len(m)) \/ i > Len(m)
    BY <1>1
  <2>5. QED
    BY <2>1, <2>2, <2>3, <2>4
<1>13. f.state = PadMessage(m)
  <2>1. \A i \in 1..Len(s.state \o blk) : (s.state \o blk)[i] = PadMessage(m)[i]
    BY <1>6, <1>11, <1>12
  <2>2. s.state \o blk = PadMessage(m)
    BY <1>6, <1>11, <2>1, SeqEqual
  <2>3. QED
    BY <1>5, <2>2
<1> HIDE DEF held
<1>14. SubSeq(pad, 1, s.pos) = held
  <2>1. /\ SubSeq(pad, 1, s.pos) \in Seq(Byte) /\ Len(SubSeq(pad, 1, s.pos)) = s.pos
        /\ \A i \in 1..s.pos : SubSeq(pad, 1, s.pos)[i] = pad[i]
    BY <1>1, <1>2, BufferPrefix
  <2>2. \A i \in 1..Len(SubSeq(pad, 1, s.pos)) : SubSeq(pad, 1, s.pos)[i] = held[i]
    BY <1>2, <1>3, <2>1
  <2>3. QED
    BY <1>3, <2>1, <2>2, SeqEqual
<1>15. PartialBlock(m) = held
  <2> DEFINE part == SubSeq(m, Len(s.state) + 1, Len(m))
  <2>1. PartialBlock(m) = part
    BY MessageBlocks DEF PartialBlock, m
  <2>2. /\ part \in Seq(Byte) /\ Len(part) = Len(m) - Len(s.state)
        /\ \A i \in 1..(Len(m) - Len(s.state)) : part[i] = m[Len(s.state) + i]
    BY <1>1, Segment
  <2> HIDE DEF part
  <2>3. \A i \in 1..s.pos : m[Len(s.state) + i] = s.buffer[i]
    BY <1>1, <1>10
  <2>4. Len(part) = Len(held) /\ Len(held) = s.pos /\ Len(m) - Len(s.state) = s.pos
    BY <1>1, <1>3, <2>2
  <2>5. \A i \in 1..Len(part) : part[i] = held[i]
    BY <1>3, <2>2, <2>3, <2>4
  <2>6. part = held
    BY <1>3, <2>2, <2>4, <2>5, SeqEqual
  <2>7. QED
    BY <2>1, <2>6
<1>16. MessageOf(f) = PadMessage(m) \o PartialBlock(m)
  BY <1>5, <1>13, <1>14, <1>15 DEF MessageOf
<1>17. Len(MessageOf(f)) = Len(m) + Rate
  BY SMTT(30), <1>1, <1>5, <1>6, <1>7, MessageType, RateAssumption
<1>18. QED
  BY <1>7, <1>8, <1>13, <1>16, <1>17 DEF f, m

-----------------------------------------------------------------------------
(* A new sponge, and what one absorb and one finalize make of it. *)

LEMMA NewSpongeEmpty ==
  /\ NewSponge \in SpongeType /\ NewSponge.state = <<>>
  /\ Len(NewSponge.state) = 0 /\ Len(NewSponge.state) % Rate = 0
  /\ MessageOf(NewSponge) = <<>>
<1>1. /\ NewSponge.state = <<>> /\ NewSponge.pos = 0
      /\ NewSponge.buffer \in [1..BufferLen -> Byte]
  BY DEF NewSponge, Byte
<1>2. NewSponge \in SpongeType
  <2>1. 0 \in 0..(Rate - 1) /\ <<>> \in Seq(Byte)
    BY RateAssumption
  <2>2. [i \in 1..BufferLen |-> 0] \in [1..BufferLen -> Byte]
    BY DEF Byte
  <2>3. QED
    BY <2>1, <2>2 DEF NewSponge, SpongeType
<1>3. Len(NewSponge.state) = 0 /\ 0 % Rate = 0
  <2>1. (0 * Rate + 0) % Rate = 0
    BY DivModUnique, RateAssumption
  <2>2. QED
    BY <1>1, <2>1, RateAssumption
<1>4. MessageOf(NewSponge) = <<>> \o SubSeq(NewSponge.buffer, 1, 0)
  BY <1>1 DEF MessageOf
<1>5. SubSeq(NewSponge.buffer, 1, 0) = <<>>
  BY SubSeqEmpty
<1>6. QED
  BY <1>1, <1>2, <1>3, <1>4, <1>5, ConcatEmptySeq, EmptySeq

(* Hashing a message with a new sponge absorbs its padded form. *)
THEOREM OneShotPads ==
  ASSUME NEW d \in Seq(Byte)
  PROVE  LET f == FinalizeSponge(Absorb(NewSponge, d))
         IN  /\ f \in SpongeType /\ Len(f.state) % Rate = 0
             /\ f.state = PadMessage(d)
             /\ MessageOf(f) = PadMessage(d) \o PartialBlock(d)
             /\ Len(MessageOf(f)) = Len(d) + Rate
<1> DEFINE a == Absorb(NewSponge, d)
<1>1. /\ a \in SpongeType /\ Len(a.state) % Rate = 0
      /\ MessageOf(a) = MessageOf(NewSponge) \o d
  BY NewSpongeEmpty, AbsorbAppends
<1>2. MessageOf(a) = d
  BY <1>1, NewSpongeEmpty, ConcatEmptySeq
<1> HIDE DEF a
<1>3. QED
  BY <1>1, <1>2, FinalizePads DEF a

-----------------------------------------------------------------------------
(* Induction, on sets of natural numbers. *)

(* Every set of natural numbers that is not empty has a least one. *)
LEMMA LeastElement ==
  ASSUME NEW T \in SUBSET Nat, T # {}
  PROVE  \E n \in T : \A m \in T : n <= m
<1> DEFINE R == OpToRel(<, Nat)
<1>1. IsWellFoundedOn(R, Nat)
  BY NatLessThanWellFounded
<1>2. \A x, y \in Nat : x < y => <<x, y>> \in R
  BY DEF OpToRel
<1> HIDE DEF R
<1>3. PICK n \in T : \A m \in T : ~(<<m, n>> \in R)
  BY <1>1, WFMin
<1>4. ASSUME NEW m \in T PROVE n <= m
  <2>1. n \in Nat /\ m \in Nat /\ ~(m < n)
    BY <1>2, <1>3
  <2>2. QED
    BY <2>1
<1>5. QED
  BY <1>4

(* So a set that has 0, and with each number the next, has them all. *)
LEMMA SetInduction ==
  ASSUME NEW S, 0 \in S, \A n \in Nat : n \in S => n + 1 \in S
  PROVE  Nat \subseteq S
<1> SUFFICES ASSUME ~(Nat \subseteq S) PROVE FALSE
  OBVIOUS
<1>1. PICK n \in Nat \ S : \A m \in Nat \ S : n <= m
  <2>1. Nat \ S \in SUBSET Nat /\ Nat \ S # {}
    OBVIOUS
  <2>2. QED
    BY <2>1, LeastElement
<1>2. n # 0 /\ n - 1 \in Nat
  BY <1>1
<1>3. n - 1 \in S
  BY <1>1, <1>2
<1>4. QED
  BY <1>1, <1>2, <1>3

-----------------------------------------------------------------------------
(***************************************************************************)
(* Lanes.  The loop over blocks is a recursive function: that it is        *)
(* defined, and what it does block by block, is by induction.              *)
(***************************************************************************)
(* f is the lanes after each of the first n blocks. *)
Loop(l, bytes, n, f) ==
    f = [k \in 0..n |-> IF k = 0 THEN l ELSE AbsorbBlock(f[k - 1], Block(bytes, k))]

LEMMA LoopExists ==
  ASSUME NEW l, NEW bytes, NEW n \in Nat
  PROVE  \E f : Loop(l, bytes, n, f)
<1> DEFINE S == {m \in Nat : \E f : Loop(l, bytes, m, f)}
<1>1. 0 \in S
  <2>1. Loop(l, bytes, 0, [k \in 0..0 |-> l])
    BY DEF Loop
  <2>2. QED
    BY <2>1
<1>2. ASSUME NEW m \in Nat, m \in S
      PROVE  m + 1 \in S
  <2>1. PICK f : Loop(l, bytes, m, f)
    BY <1>2
  <2> DEFINE g == [k \in 0..(m + 1) |-> IF k <= m THEN f[k]
                                       ELSE AbsorbBlock(f[m], Block(bytes, m + 1))]
  <2>2. \A k \in 0..(m + 1) : k # 0 => g[k - 1] = f[k - 1]
    OBVIOUS
  <2>3. ASSUME NEW k \in 0..(m + 1)
        PROVE  g[k] = IF k = 0 THEN l ELSE AbsorbBlock(g[k - 1], Block(bytes, k))
    <3>1. CASE k <= m
      <4>1. k \in 0..m
        BY <3>1
      <4>2. f[k] = IF k = 0 THEN l ELSE AbsorbBlock(f[k - 1], Block(bytes, k))
        BY <2>1, <4>1 DEF Loop
      <4>3. QED
        BY <2>2, <3>1, <4>2
    <3>2. CASE k = m + 1
      BY <2>2, <3>2
    <3>3. QED
      BY <3>1, <3>2
  <2>4. g = [k \in 0..(m + 1) |-> g[k]]
    OBVIOUS
  <2> HIDE DEF g
  <2>5. Loop(l, bytes, m + 1, g)
    BY <2>3, <2>4 DEF Loop
  <2>6. QED
    BY <2>5
<1> HIDE DEF S
<1>3. Nat \subseteq S
  BY <1>1, <1>2, SetInduction
<1>4. QED
  BY <1>3 DEF S

(* A longer loop, over bytes that begin with the same blocks, goes through *)
(* the same lanes.                                                         *)
LEMMA LoopsAgree ==
  ASSUME NEW l, NEW a, NEW b, NEW n \in Nat, NEW m \in Nat, n <= m,
         NEW f, Loop(l, a, n, f), NEW g, Loop(l, b, m, g),
         \A k \in 1..n : Block(a, k) = Block(b, k)
  PROVE  f[n] = g[n]
<1> DEFINE S == {k \in Nat : k <= n => f[k] = g[k]}
<1>1. 0 \in S
  BY DEF Loop
<1>2. ASSUME NEW k \in Nat, k \in S
      PROVE  k + 1 \in S
  <2> SUFFICES ASSUME k + 1 <= n PROVE f[k + 1] = g[k + 1]
    OBVIOUS
  <2>1. k + 1 \in 0..n /\ k + 1 \in 0..m /\ k + 1 \in 1..n /\ k + 1 # 0 /\ (k + 1) - 1 = k
    OBVIOUS
  <2>2. f[k + 1] = AbsorbBlock(f[k], Block(a, k + 1))
    BY <2>1 DEF Loop
  <2>3. g[k + 1] = AbsorbBlock(g[k], Block(b, k + 1))
    BY <2>1 DEF Loop
  <2>4. f[k] = g[k]
    BY <1>2
  <2>5. QED
    BY <2>1, <2>2, <2>3, <2>4
<1> HIDE DEF S
<1>3. n \in S
  BY <1>1, <1>2, SetInduction
<1>4. QED
  BY <1>3 DEF S

LEMMA BlocksIntoIs ==
  ASSUME NEW l, NEW bytes, NEW n \in Nat
  PROVE  \E f : Loop(l, bytes, n, f) /\ BlocksInto(l, bytes, n) = f[n]
<1>1. \E f : Loop(l, bytes, n, f)
  BY LoopExists
<1>2. BlocksInto(l, bytes, n) = (CHOOSE f : Loop(l, bytes, n, f))[n]
  BY DEF BlocksInto, Loop
<1>3. QED
  BY <1>1, <1>2

(* Block by block. *)
LEMMA BlocksIntoStep ==
  ASSUME NEW l, NEW bytes
  PROVE  /\ BlocksInto(l, bytes, 0) = l
         /\ \A n \in Nat : BlocksInto(l, bytes, n + 1)
                             = AbsorbBlock(BlocksInto(l, bytes, n), Block(bytes, n + 1))
<1>1. BlocksInto(l, bytes, 0) = l
  <2>1. PICK f : Loop(l, bytes, 0, f) /\ BlocksInto(l, bytes, 0) = f[0]
    BY BlocksIntoIs
  <2>2. QED
    BY <2>1 DEF Loop
<1>2. ASSUME NEW n \in Nat
      PROVE  BlocksInto(l, bytes, n + 1)
               = AbsorbBlock(BlocksInto(l, bytes, n), Block(bytes, n + 1))
  <2>1. PICK f : Loop(l, bytes, n, f) /\ BlocksInto(l, bytes, n) = f[n]
    BY BlocksIntoIs
  <2>2. PICK g : Loop(l, bytes, n + 1, g) /\ BlocksInto(l, bytes, n + 1) = g[n + 1]
    <3>1. n + 1 \in Nat
      OBVIOUS
    <3>2. QED
      BY <3>1, BlocksIntoIs
  <2>3. f[n] = g[n]
    <3>1. n + 1 \in Nat /\ n <= n + 1
      OBVIOUS
    <3>2. QED
      BY <2>1, <2>2, <3>1, LoopsAgree
  <2>4. n + 1 \in 0..(n + 1) /\ n + 1 # 0 /\ (n + 1) - 1 = n
    OBVIOUS
  <2>5. g[n + 1] = AbsorbBlock(g[n], Block(bytes, n + 1))
    BY <2>2, <2>4 DEF Loop
  <2>6. QED
    BY <2>1, <2>2, <2>3, <2>5
<1>3. QED
  BY <1>1, <1>2

LEMMA BlocksIntoAgree ==
  ASSUME NEW l, NEW a, NEW b, NEW n \in Nat, \A k \in 1..n : Block(a, k) = Block(b, k)
  PROVE  BlocksInto(l, a, n) = BlocksInto(l, b, n)
<1>1. PICK f : Loop(l, a, n, f) /\ BlocksInto(l, a, n) = f[n]
  BY BlocksIntoIs
<1>2. PICK g : Loop(l, b, n, g) /\ BlocksInto(l, b, n) = g[n]
  BY BlocksIntoIs
<1>3. QED
  BY <1>1, <1>2, LoopsAgree

(* The arithmetic of blocks in a byte string. *)
LEMMA BlockEnds ==
  ASSUME NEW q \in Nat, NEW k \in 1..q
  PROVE  /\ (k - 1) * Rate \in Nat /\ k * Rate \in Nat /\ q * Rate \in Nat
         /\ k * Rate = (k - 1) * Rate + Rate
         /\ k * Rate <= q * Rate
<1>1. k - 1 \in Nat /\ k \in Nat /\ q - k \in Nat
  OBVIOUS
<1>2. ((k - 1) + 1) * Rate = (k - 1) * Rate + Rate /\ (k - 1) * Rate \in Nat
  BY <1>1, OneMoreBlock
<1>3. (k + (q - k)) * Rate = k * Rate + (q - k) * Rate /\ (q - k) * Rate \in Nat
  BY <1>1, MultiplesAdd, OneMoreBlock
<1>4. k * Rate \in Nat /\ q * Rate \in Nat
  BY <1>1, OneMoreBlock
<1>5. (k - 1) + 1 = k /\ k + (q - k) = q
  OBVIOUS
<1>6. k * Rate = (k - 1) * Rate + Rate
  BY <1>2, <1>5
<1>7. q * Rate = k * Rate + (q - k) * Rate
  BY <1>3, <1>5
<1>8. k * Rate <= q * Rate
  <2>1. \A x, y, z \in Nat : x = y + z => y <= x
    OBVIOUS
  <2>2. QED
    BY <1>3, <1>4, <1>7, <2>1
<1>9. QED
  BY <1>2, <1>4, <1>6, <1>8

LEMMA SegmentOfHead ==
  ASSUME NEW a \in Seq(Byte), NEW b \in Seq(Byte), NEW p \in Nat, NEW r \in Nat,
         p <= r, r <= Len(a)
  PROVE  SubSeq(a \o b, p + 1, r) = SubSeq(a, p + 1, r)
<1>1. /\ a \o b \in Seq(Byte) /\ Len(a \o b) = Len(a) + Len(b)
      /\ \A i \in 1..(Len(a) + Len(b)) : (a \o b)[i] = IF i <= Len(a) THEN a[i] ELSE b[i - Len(a)]
  BY ConcatProperties
<1>2. Len(a) \in Nat /\ Len(b) \in Nat
  BY LenProperties
<1>3. /\ SubSeq(a, p + 1, r) \in Seq(Byte) /\ Len(SubSeq(a, p + 1, r)) = r - p
      /\ \A i \in 1..(r - p) : SubSeq(a, p + 1, r)[i] = a[p + i]
  BY Segment
<1> DEFINE ab == a \o b
<1>4. Len(ab) >= r
  BY <1>1, <1>2
<1> HIDE DEF ab
<1>5. ab \in Seq(Byte)
  BY <1>1 DEF ab
<1>6. /\ SubSeq(ab, p + 1, r) \in Seq(Byte) /\ Len(SubSeq(ab, p + 1, r)) = r - p
      /\ \A i \in 1..(r - p) : SubSeq(ab, p + 1, r)[i] = ab[p + i]
  <2>1. Len(ab) \in Nat /\ r <= Len(ab)
    BY <1>4, <1>5, LenProperties
  <2>2. QED
    BY <1>5, <2>1, Segment
<1>7. \A i \in 1..(r - p) : ab[p + i] = a[p + i]
  <2>1. \A i \in 1..(r - p) : p + i \in 1..(Len(a) + Len(b)) /\ p + i <= Len(a)
    BY <1>2
  <2>2. QED
    BY <1>1, <2>1 DEF ab
<1>8. SubSeq(ab, p + 1, r) = SubSeq(a, p + 1, r)
  BY <1>3, <1>6, <1>7, SeqEqual
<1>9. QED
  BY <1>8 DEF ab

LEMMA SegmentOfTail ==
  ASSUME NEW a \in Seq(Byte), NEW b \in Seq(Byte), NEW p \in Nat, NEW r \in Nat,
         p <= r, r <= Len(b)
  PROVE  SubSeq(a \o b, Len(a) + p + 1, Len(a) + r) = SubSeq(b, p + 1, r)
<1> DEFINE ab == a \o b
           n  == Len(a)
<1>1. /\ ab \in Seq(Byte) /\ Len(ab) = n + Len(b)
      /\ \A i \in 1..(n + Len(b)) : ab[i] = IF i <= n THEN a[i] ELSE b[i - n]
  BY ConcatProperties
<1>2. n \in Nat /\ Len(b) \in Nat
  BY LenProperties
<1> HIDE DEF ab, n
<1>3. /\ SubSeq(b, p + 1, r) \in Seq(Byte) /\ Len(SubSeq(b, p + 1, r)) = r - p
      /\ \A i \in 1..(r - p) : SubSeq(b, p + 1, r)[i] = b[p + i]
  BY Segment
<1> DEFINE from == n + p
           to   == n + r
<1>4. from \in Nat /\ to \in Nat /\ from <= to /\ to <= Len(ab) /\ to - from = r - p
  BY <1>1, <1>2
<1>5. /\ SubSeq(ab, from + 1, to) \in Seq(Byte) /\ Len(SubSeq(ab, from + 1, to)) = r - p
      /\ \A i \in 1..(r - p) : SubSeq(ab, from + 1, to)[i] = ab[from + i]
  <2> HIDE DEF from, to
  <2>1. /\ SubSeq(ab, from + 1, to) \in Seq(Byte) /\ Len(SubSeq(ab, from + 1, to)) = to - from
        /\ \A i \in 1..(to - from) : SubSeq(ab, from + 1, to)[i] = ab[from + i]
    BY <1>1, <1>4, Segment
  <2>2. QED
    BY <1>4, <2>1
<1>6. \A i \in 1..(r - p) : ab[n + p + i] = b[p + i]
  <2>1. \A i \in 1..(r - p) : /\ n + p + i \in 1..(n + Len(b)) /\ ~(n + p + i <= n)
                              /\ (n + p + i) - n = p + i
    BY <1>2
  <2>2. QED
    BY <1>1, <2>1
<1>7. SubSeq(ab, from + 1, to) = SubSeq(b, p + 1, r)
  <2>1. \A i \in 1..(r - p) : SubSeq(ab, from + 1, to)[i] = SubSeq(b, p + 1, r)[i]
    BY <1>3, <1>5, <1>6
  <2> HIDE DEF from, to
  <2>2. QED
    BY <1>3, <1>5, <2>1, SeqEqual
<1>8. QED
  BY <1>7 DEF ab, n

(* Whole blocks first, then those of what follows. *)
LEMMA BlocksOfConcat ==
  ASSUME NEW a \in Seq(Byte), NEW b \in Seq(Byte), NEW q \in Nat, Len(a) = q * Rate
  PROVE  /\ \A k \in 1..q : Block(a \o b, k) = Block(a, k)
         /\ \A k \in Nat : (k + 1) * Rate <= Len(b) => Block(a \o b, (q + k) + 1) = Block(b, k + 1)
<1>1. ASSUME NEW k \in 1..q
      PROVE  Block(a \o b, k) = Block(a, k)
  <2> DEFINE p == (k - 1) * Rate
             r == k * Rate
  <2>1. p \in Nat /\ r \in Nat /\ r = p + Rate /\ r <= Len(a)
    BY BlockEnds
  <2> HIDE DEF p, r
  <2>2. SubSeq(a \o b, p + 1, r) = SubSeq(a, p + 1, r)
    BY <2>1, RateAssumption, SegmentOfHead
  <2>3. QED
    BY <2>2 DEF Block, p, r
<1>2. ASSUME NEW k \in Nat, (k + 1) * Rate <= Len(b)
      PROVE  Block(a \o b, (q + k) + 1) = Block(b, k + 1)
  <2> DEFINE p == k * Rate
             r == (k + 1) * Rate
             n == q * Rate
  <2>1. p \in Nat /\ r = p + Rate /\ n \in Nat /\ r <= Len(b)
    BY <1>2, OneMoreBlock
  <2>2. (q + k) * Rate = n + p /\ ((q + k) + 1) * Rate = n + r
    <3>1. q + k \in Nat
      OBVIOUS
    <3>2. (q + k) * Rate = n + p
      BY MultiplesAdd
    <3>3. ((q + k) + 1) * Rate = (q + k) * Rate + Rate
      BY <3>1, OneMoreBlock
    <3> HIDE DEF p, n, r
    <3>4. QED
      BY <2>1, <3>2, <3>3, RateAssumption
  <2>3. ((q + k) + 1) - 1 = q + k /\ (k + 1) - 1 = k
    OBVIOUS
  <2>4. Block(a \o b, (q + k) + 1) = SubSeq(a \o b, n + p + 1, n + r)
    BY <2>2, <2>3 DEF Block
  <2>5. Block(b, k + 1) = SubSeq(b, p + 1, r)
    BY <2>3 DEF Block
  <2> HIDE DEF p, r, n
  <2>6. Len(a) = n
    BY DEF n
  <2>7. SubSeq(a \o b, n + p + 1, n + r) = SubSeq(b, p + 1, r)
    BY <2>1, <2>6, RateAssumption, SegmentOfTail
  <2>8. QED
    BY <2>4, <2>5, <2>7
<1>3. QED
  BY <1>1, <1>2

LEMMA BlocksIntoConcat ==
  ASSUME NEW l, NEW a \in Seq(Byte), NEW b \in Seq(Byte), NEW q \in Nat, Len(a) = q * Rate,
         NEW n \in Nat, n * Rate <= Len(b)
  PROVE  BlocksInto(l, a \o b, q + n) = BlocksInto(BlocksInto(l, a, q), b, n)
<1> DEFINE m == BlocksInto(l, a, q)
           ab == a \o b
           S == {k \in Nat : k * Rate <= Len(b) => BlocksInto(l, ab, q + k) = BlocksInto(m, b, k)}
<1>0. \A k \in Nat : (k + 1) * Rate <= Len(b) => Block(ab, (q + k) + 1) = Block(b, k + 1)
  BY BlocksOfConcat
<1>1. 0 \in S
  <2>1. \A k \in 1..q : Block(ab, k) = Block(a, k)
    BY BlocksOfConcat
  <2> HIDE DEF ab
  <2>2. BlocksInto(l, ab, q) = m
    BY <2>1, BlocksIntoAgree
  <2> HIDE DEF m
  <2>3. BlocksInto(m, b, 0) = m /\ q + 0 = q
    BY BlocksIntoStep
  <2>4. QED
    BY <2>2, <2>3
<1> HIDE DEF m, ab
<1>2. ASSUME NEW k \in Nat, k \in S
      PROVE  k + 1 \in S
  <2> SUFFICES ASSUME (k + 1) * Rate <= Len(b)
               PROVE  BlocksInto(l, ab, q + (k + 1)) = BlocksInto(m, b, k + 1)
    OBVIOUS
  <2>1. k * Rate <= Len(b)
    <3>1. (k + 1) * Rate = k * Rate + Rate /\ k * Rate \in Nat
      BY OneMoreBlock
    <3>2. Len(b) \in Nat
      BY LenProperties
    <3>3. QED
      BY <3>1, <3>2, RateAssumption
  <2>2. BlocksInto(l, ab, q + k) = BlocksInto(m, b, k)
    BY <1>2, <2>1
  <2>3. q + (k + 1) = (q + k) + 1 /\ q + k \in Nat
    OBVIOUS
  <2>4. Block(ab, (q + k) + 1) = Block(b, k + 1)
    BY <1>0
  <2>5. BlocksInto(l, ab, (q + k) + 1) = AbsorbBlock(BlocksInto(l, ab, q + k), Block(ab, (q + k) + 1))
    BY <2>3, BlocksIntoStep
  <2>6. BlocksInto(m, b, k + 1) = AbsorbBlock(BlocksInto(m, b, k), Block(b, k + 1))
    BY BlocksIntoStep
  <2>7. QED
    BY <2>2, <2>3, <2>4, <2>5, <2>6
<1> HIDE DEF S
<1>3. n \in S
  BY <1>1, <1>2, SetInduction
<1>4. QED
  BY <1>3 DEF S, m, ab

(***************************************************************************)
(* The lanes of a sponge and the blocks recorded for it.                   *)
(***************************************************************************)
(* The words of a block are made of its first Rate bytes. *)
LEMMA WordBounds ==
  ASSUME NEW i \in Nat, i < Rate \div Word, NEW n \in 0..(Word - 1)
  PROVE  i * Word + n + 1 \in 1..Rate
<1> DEFINE w == Rate \div Word
<1>1. w \in Nat /\ w * Word = Rate /\ i + 1 <= w
  <2>1. w \in Int
    BY RateAssumption, SpongeAssumption
  <2>2. QED
    BY <2>1, SpongeAssumption
<1> HIDE DEF w
<1>2. \A x \in Nat, y \in Nat : x * y \in Nat
  OBVIOUS
<1>3. w * Word = (i + 1) * Word + (w - (i + 1)) * Word
  BY <1>1, SpongeAssumption
<1>4. (i + 1) * Word = i * Word + Word /\ i * Word \in Nat
  BY SpongeAssumption
<1>5. (w - (i + 1)) * Word \in Nat
  <2>1. w - (i + 1) \in Nat
    BY <1>1
  <2>2. QED
    BY <1>2, <2>1, SpongeAssumption
<1>6. \A p, q, r \in Nat : (p + Word) + q = r /\ r = Rate => p + n + 1 \in 1..Rate
  BY SpongeAssumption, RateAssumption
<1>7. QED
  BY <1>1, <1>3, <1>4, <1>5, <1>6, RateAssumption

LEMMA SameBlock ==
  ASSUME NEW l, NEW x, NEW y, \A i \in 1..Rate : x[i] = y[i]
  PROVE  AbsorbBlock(l, x) = AbsorbBlock(l, y)
<1>1. ASSUME NEW i \in LaneIndex, i < Rate \div Word
      PROVE  WordAt(x, i) = WordAt(y, i)
  <2>1. i \in Nat
    BY LaneAssumption DEF LaneIndex
  <2>2. \A n \in 0..(Word - 1) : x[i * Word + n + 1] = y[i * Word + n + 1]
    BY <1>1, <2>1, WordBounds
  <2>3. QED
    BY <2>2 DEF WordAt
<1>2. XorBlock(l, x) = XorBlock(l, y)
  BY <1>1 DEF XorBlock
<1>3. QED
  BY <1>2 DEF AbsorbBlock

(* Absorbing more blocks goes on from the lanes that are there. *)
LEMMA LanesAfterMore ==
  ASSUME NEW a \in Seq(Byte), Len(a) % Rate = 0, NEW b \in Seq(Byte), NEW n \in Nat,
         Len(b) = n * Rate
  PROVE  LanesAfter(a \o b) = BlocksInto(LanesAfter(a), b, n)
<1> DEFINE q == Len(a) \div Rate
<1>1. Len(a) \in Nat /\ q \in Nat /\ Len(a) = q * Rate
  BY LenProperties, AlignedQuotient
<1>2. LanesAfter(a) = BlocksInto(ZeroLanes, a, q)
  BY DEF LanesAfter
<1> HIDE DEF q
<1>3. Len(a \o b) \div Rate = q + n
  <2>1. Len(a \o b) = (q + n) * Rate + 0
    <3>1. Len(a \o b) = Len(a) + Len(b)
      BY ConcatBytes
    <3>2. (q + n) * Rate = q * Rate + n * Rate
      BY <1>1, MultiplesAdd
    <3>3. q * Rate \in Nat /\ n * Rate \in Nat
      BY <1>1, OneMoreBlock
    <3>4. QED
      BY <1>1, <3>1, <3>2, <3>3
  <2>2. q + n \in Nat /\ 0 \in 0..(Rate - 1)
    BY <1>1, RateAssumption
  <2>3. QED
    BY <2>1, <2>2, DivModUnique
<1>4. n * Rate <= Len(b)
  BY LenProperties
<1>5. BlocksInto(ZeroLanes, a \o b, q + n) = BlocksInto(BlocksInto(ZeroLanes, a, q), b, n)
  BY <1>1, <1>4, BlocksIntoConcat
<1>6. QED
  BY <1>2, <1>3, <1>5 DEF LanesAfter

LEMMA LanesAfterOne ==
  ASSUME NEW a \in Seq(Byte), Len(a) % Rate = 0, NEW b \in Seq(Byte), Len(b) = Rate
  PROVE  LanesAfter(a \o b) = AbsorbBlock(LanesAfter(a), b)
<1>1. Len(b) = 1 * Rate /\ 1 \in Nat /\ 0 + 1 = 1 /\ 0 \in Nat
  BY RateAssumption
<1>2. LanesAfter(a \o b) = BlocksInto(LanesAfter(a), b, 1)
  BY <1>1, LanesAfterMore
<1>3. Block(b, 1) = b
  <2>1. (1 - 1) * Rate + 1 = 1 /\ 1 * Rate = Rate
    BY RateAssumption
  <2>2. Block(b, 1) = SubSeq(b, 1, Len(b))
    BY <2>1 DEF Block
  <2>3. QED
    BY <2>2, SubSeqFull
<1> DEFINE l == LanesAfter(a)
<1> HIDE DEF l
<1>4. BlocksInto(l, b, 0 + 1) = AbsorbBlock(BlocksInto(l, b, 0), Block(b, 0 + 1))
  BY <1>1, BlocksIntoStep
<1>5. BlocksInto(l, b, 0) = l
  BY BlocksIntoStep
<1>6. QED
  BY <1>1, <1>2, <1>3, <1>4, <1>5 DEF l

(* A block that was gathered in the buffer. *)
LEMMA LanesAfterBuffer ==
  ASSUME NEW a \in Seq(Byte), Len(a) % Rate = 0, NEW buf \in [1..BufferLen -> Byte]
  PROVE  AbsorbBlock(LanesAfter(a), buf) = LanesAfter(XorAndPermute(a, buf))
<1> DEFINE blk == SubSeq(buf, 1, Rate)
<1>1. Rate \in 0..BufferLen
  BY SpongeAssumption, RateAssumption
<1>2. blk \in Seq(Byte) /\ Len(blk) = Rate /\ \A i \in 1..Rate : blk[i] = buf[i]
  BY <1>1, BufferPrefix
<1>3. XorAndPermute(a, buf) = a \o blk
  BY XorAbsorbsTheBlock
<1> HIDE DEF blk
<1>4. AbsorbBlock(LanesAfter(a), buf) = AbsorbBlock(LanesAfter(a), blk)
  BY <1>2, SameBlock
<1>5. LanesAfter(a \o blk) = AbsorbBlock(LanesAfter(a), blk)
  BY <1>2, LanesAfterOne
<1>6. QED
  BY <1>3, <1>4, <1>5

LEMMA TopUpLanesFollow ==
  ASSUME NEW s \in SpongeType, Len(s.state) % Rate = 0, NEW d \in Seq(Byte)
  PROVE  TopUpLanes(LanesAfter(s.state), s, d) = LanesAfter(TopUp(s, d).state)
<1> DEFINE n   == TopUpLen(s, d)
           got == SubSeq(d, 1, n)
           buf == CopyInto(s.buffer, s.pos, got)
<1>1. s.state \in Seq(Byte) /\ s.pos \in Nat /\ s.buffer \in [1..BufferLen -> Byte]
  BY MessageType, SpongeAssumption
<1>2. n \in 0..Len(d) /\ Len(d) \in Nat
  BY <1>1, TopUpCorrect, LenProperties
<1>3. buf \in [1..BufferLen -> Byte]
  <2> HIDE DEF n
  <2>1. SubSeq(d, 0 + 1, n) \in Seq(Byte)
    BY <1>2, Segment
  <2>2. got \in Seq(Byte)
    BY <2>1
  <2> HIDE DEF got
  <2>3. QED
    BY <1>1, <2>2, CopyIntoType
<1>4. TopUp(s, d) = IF s.pos + n = Rate
          THEN [state |-> XorAndPermute(s.state, buf), pos |-> 0, buffer |-> buf]
          ELSE [state |-> s.state, pos |-> s.pos + n, buffer |-> buf]
  BY DEF TopUp
<1>5. TopUpLanes(LanesAfter(s.state), s, d)
        = IF s.pos + n = Rate THEN AbsorbBlock(LanesAfter(s.state), buf) ELSE LanesAfter(s.state)
  BY DEF TopUpLanes
<1> HIDE DEF n, got, buf
<1>6. AbsorbBlock(LanesAfter(s.state), buf) = LanesAfter(XorAndPermute(s.state, buf))
  BY <1>1, <1>3, LanesAfterBuffer
<1>7. QED
  BY <1>4, <1>5, <1>6

(***************************************************************************)
(* absorb and finalize do to the lanes what the blocks they record do, one *)
(* by one, from zero lanes.                                                *)
(***************************************************************************)
THEOREM AbsorbFollows ==
  ASSUME NEW s \in SpongeType, Len(s.state) % Rate = 0, NEW d \in Seq(Byte)
  PROVE  AbsorbLanes(LanesAfter(s.state), s, d) = LanesAfter(Absorb(s, d).state)
<1> DEFINE n    == TopUpLen(s, d)
           t    == TopUp(s, d)
           k    == (Len(d) - n) \div Rate
           upto == n + WholeBlocks(Len(d) - n)
           rest == SubSeq(d, n + 1, Len(d))
           b    == SubSeq(d, n + 1, upto)
           c    == SubSeq(d, upto + 1, Len(d))
           w    == [state |-> t.state \o b, pos |-> t.pos, buffer |-> t.buffer]
<1>1. n \in 0..Len(d) /\ t \in SpongeType /\ Len(t.state) % Rate = 0
  BY MessageType, TopUpCorrect
<1>2. Absorb(s, d) = KeepTail(w, c)
  BY DEF Absorb, AbsorbBlocks
<1>3. AbsorbLanes(LanesAfter(s.state), s, d) = BlocksInto(LanesAfter(t.state), rest, k)
  BY TopUpLanesFollow DEF AbsorbLanes
<1>4. Absorb(s, d).state = t.state \o b
  <2>1. w.state = t.state \o b
    OBVIOUS
  <2> HIDE DEF w, c
  <2>2. KeepTail(w, c).state = w.state
    BY DEF KeepTail
  <2>3. QED
    BY <1>2, <2>1, <2>2
<1>5. Len(d) \in Nat
  BY LenProperties
<1> HIDE DEF t, n
<1>6. Len(d) - n \in Nat
  BY <1>1, <1>5
<1>7. k \in Nat /\ upto = n + k * Rate /\ k * Rate \in Nat
  BY <1>6, DivMod DEF WholeBlocks
<1>8. WholeBlocks(Len(d) - n) \in 0..(Len(d) - n)
  BY <1>6, WholeBlocksBounds
<1>9. n \in Nat /\ upto \in Nat /\ n <= upto /\ upto <= Len(d) /\ upto - n = k * Rate
  <2> HIDE DEF k
  <2>1. upto \in n..Len(d)
    BY <1>1, <1>5, <1>8
  <2> HIDE DEF upto
  <2>2. QED
    BY <1>1, <1>5, <1>7, <2>1
<1> HIDE DEF upto, k
<1>10. b \in Seq(Byte) /\ Len(b) = k * Rate
  BY <1>9, Segment
<1>11. c \in Seq(Byte)
  BY <1>5, <1>9, Segment
<1>12. rest = b \o c
  <2>1. n + 1 \in 1..(Len(d) + 1) /\ upto \in ((n + 1) - 1)..Len(d) /\ Len(d) \in upto..Len(d)
    BY <1>1, <1>5, <1>9
  <2>2. QED
    BY <2>1, ConcatAdjacentSubSeq
<1> HIDE DEF rest, b, c, w
<1>13. \A j \in 1..k : Block(b \o c, j) = Block(b, j)
  BY <1>7, <1>10, <1>11, BlocksOfConcat
<1> DEFINE m == LanesAfter(t.state)
<1>14. t.state \in Seq(Byte)
  BY <1>1, MessageType
<1>15. LanesAfter(t.state \o b) = BlocksInto(m, b, k)
  BY <1>1, <1>7, <1>10, <1>14, LanesAfterMore
<1> HIDE DEF m
<1>16. BlocksInto(m, b \o c, k) = BlocksInto(m, b, k)
  BY <1>7, <1>13, BlocksIntoAgree
<1>17. QED
  BY <1>3, <1>4, <1>12, <1>15, <1>16 DEF m

(* finalize, on lanes: one more block, the padded buffer (lib.rs,          *)
(* finalize).                                                              *)
THEOREM FinalizeFollows ==
  ASSUME NEW s \in SpongeType, Len(s.state) % Rate = 0
  PROVE  FinalizeLanes(LanesAfter(s.state), s) = LanesAfter(FinalizeSponge(s).state)
<1> DEFINE pad == PadBuffer(s)
<1>1. pad \in [1..BufferLen -> Byte] /\ s.state \in Seq(Byte)
  BY PadBufferBytes, MessageType
<1>2. FinalizeSponge(s).state = XorAndPermute(s.state, pad)
  BY DEF FinalizeSponge
<1>3. FinalizeLanes(LanesAfter(s.state), s) = AbsorbBlock(LanesAfter(s.state), pad)
  BY DEF FinalizeLanes
<1> HIDE DEF pad
<1>4. QED
  BY <1>1, <1>2, <1>3, LanesAfterBuffer

(* Before the first block the lanes are zero, and the digest of no block   *)
(* is zero bytes.                                                          *)
LEMMA LanesOfNothing == LanesAfter(<<>>) = ZeroLanes
<1>1. (0 * Rate + 0) \div Rate = 0 /\ 0 * Rate + 0 = 0
  <2>1. 0 \in Nat /\ 0 \in 0..(Rate - 1) /\ 0 * Rate + 0 = 0
    BY RateAssumption
  <2>2. QED
    BY <2>1, DivModUnique
<1>2. Len(<<>>) \div Rate = 0
  BY <1>1, EmptySeq
<1>3. QED
  BY <1>2, BlocksIntoStep DEF LanesAfter

LEMMA BytesOfNothing == HashBytes(ZeroDigest) = ZeroHash
<1>1. \A n : ByteAt({}, n) = 0
  BY DEF ByteAt
<1>2. ASSUME NEW k \in 1..(DigestLanes * Word)
      PROVE  ZeroLanes[(k - 1) \div Word] = {}
  <2> DEFINE i == (k - 1) \div Word
  <2>1. k - 1 \in Nat /\ k - 1 < DigestLanes * Word
    BY LaneAssumption, SpongeAssumption
  <2>2. i \in Nat /\ i * Word <= k - 1
    BY <2>1, SpongeAssumption
  <2> HIDE DEF i
  <2>3. i < DigestLanes
    <3> SUFFICES ASSUME DigestLanes <= i PROVE FALSE
      BY <2>2, LaneAssumption
    <3>1. i - DigestLanes \in Nat /\ i = DigestLanes + (i - DigestLanes)
      BY <2>2, LaneAssumption
    <3>2. i * Word = DigestLanes * Word + (i - DigestLanes) * Word
      BY <2>2, LaneAssumption, SpongeAssumption
    <3>3. \A x \in Nat, y \in Nat : x * y \in Nat
      OBVIOUS
    <3>4. (i - DigestLanes) * Word \in Nat /\ DigestLanes * Word \in Nat /\ i * Word \in Nat
      BY <2>2, <3>1, <3>3, LaneAssumption, SpongeAssumption
    <3>5. \A x, y, z, u \in Nat : x = y + z /\ x <= u /\ u < y => FALSE
      OBVIOUS
    <3>6. QED
      BY <2>1, <2>2, <3>2, <3>4, <3>5
  <2>4. i \in LaneIndex
    BY <2>2, <2>3, LaneAssumption DEF LaneIndex
  <2>5. QED
    BY <2>4 DEF ZeroLanes, i
<1>3. SqueezeLanes(ZeroLanes) = ZeroHash
  BY <1>1, <1>2 DEF SqueezeLanes, ZeroHash
<1>4. QED
  BY <1>3, LanesOfNothing DEF HashBytes, ZeroDigest

(***************************************************************************)
(* Types of lanes, when the permutation keeps them: lanes of 8 * Word bits *)
(* go to lanes of 8 * Word bits.                                           *)
(***************************************************************************)
LaneValues == [LaneIndex -> SUBSET (0..(8 * Word - 1))]

PermutesLanes == \A l \in LaneValues : Permute(l) \in LaneValues

LEMMA ZeroLanesType == ZeroLanes \in LaneValues
BY DEF ZeroLanes, LaneValues

LEMMA BitsOfZero == ByteBits[0] = {}
<1>1. 0 \in Byte
  BY DEF Byte
<1>2. ASSUME NEW b \in 0..7
      PROVE  ~((0 \div BitValue[b + 1]) % 2 = 1)
  <2>1. BitValue[b + 1] \in Nat \ {0}
    BY DEF BitValue
  <2>2. QED
    BY <2>1
<1>3. QED
  BY <1>1, <1>2 DEF ByteBits

LEMMA WordType ==
  ASSUME NEW block, \A k \in 1..Rate : block[k] \in Byte, NEW i \in Nat, i < Rate \div Word
  PROVE  WordAt(block, i) \subseteq 0..(8 * Word - 1)
<1>1. ASSUME NEW n \in 0..(Word - 1), NEW b \in ByteBits[block[i * Word + n + 1]]
      PROVE  8 * n + b \in 0..(8 * Word - 1)
  <2>1. block[i * Word + n + 1] \in Byte
    BY WordBounds
  <2>2. b \in 0..7
    BY <1>1, <2>1 DEF ByteBits
  <2>3. QED
    BY <2>2, SpongeAssumption
<1>2. QED
  BY <1>1 DEF WordAt

LEMMA XorBlockType ==
  ASSUME NEW l \in LaneValues, NEW block, \A k \in 1..Rate : block[k] \in Byte
  PROVE  XorBlock(l, block) \in LaneValues
<1>1. ASSUME NEW i \in LaneIndex
      PROVE  XorBlock(l, block)[i] \subseteq 0..(8 * Word - 1)
  <2>1. i \in Nat /\ l[i] \subseteq 0..(8 * Word - 1)
    BY LaneAssumption DEF LaneIndex, LaneValues
  <2>2. CASE i < Rate \div Word
    <3>1. WordAt(block, i) \subseteq 0..(8 * Word - 1)
      BY <2>1, <2>2, WordType
    <3>2. XorBlock(l, block)[i] = SymDiff(l[i], WordAt(block, i))
      BY <2>2 DEF XorBlock
    <3>3. QED
      BY <2>1, <3>1, <3>2 DEF SymDiff
  <2>3. CASE ~(i < Rate \div Word)
    BY <2>1, <2>3 DEF XorBlock
  <2>4. QED
    BY <2>2, <2>3
<1>2. QED
  BY <1>1 DEF XorBlock, LaneValues

(* A block of zeros changes nothing before the permutation. *)
LEMMA XorNothing ==
  ASSUME NEW l \in LaneValues, NEW block, \A k \in 1..Rate : block[k] = 0
  PROVE  XorBlock(l, block) = l
<1>1. ASSUME NEW i \in LaneIndex, i < Rate \div Word
      PROVE  WordAt(block, i) = {}
  <2>1. i \in Nat
    BY LaneAssumption DEF LaneIndex
  <2>2. \A n \in 0..(Word - 1) : block[i * Word + n + 1] = 0
    BY <1>1, <2>1, WordBounds
  <2>3. QED
    BY <2>2, BitsOfZero DEF WordAt
<1>2. \A i \in LaneIndex : XorBlock(l, block)[i] = l[i]
  BY <1>1 DEF XorBlock, SymDiff
<1>3. QED
  BY <1>2 DEF XorBlock, LaneValues

LEMMA LanesAfterType ==
  ASSUME PermutesLanes, NEW bytes \in Seq(Byte)
  PROVE  LanesAfter(bytes) \in LaneValues
<1> DEFINE S == {k \in Nat : k * Rate <= Len(bytes) => BlocksInto(ZeroLanes, bytes, k) \in LaneValues}
<1>1. 0 \in S
  BY BlocksIntoStep, ZeroLanesType
<1>2. ASSUME NEW k \in Nat, k \in S
      PROVE  k + 1 \in S
  <2> SUFFICES ASSUME (k + 1) * Rate <= Len(bytes)
               PROVE  BlocksInto(ZeroLanes, bytes, k + 1) \in LaneValues
    OBVIOUS
  <2> DEFINE p == k * Rate
             r == (k + 1) * Rate
             blk == Block(bytes, k + 1)
             l == BlocksInto(ZeroLanes, bytes, k)
  <2>1. p \in Nat /\ r = p + Rate /\ r <= Len(bytes) /\ Len(bytes) \in Nat
    BY OneMoreBlock, LenProperties
  <2>2. blk = SubSeq(bytes, p + 1, r)
    <3>1. (k + 1) - 1 = k
      OBVIOUS
    <3>2. QED
      BY <3>1 DEF Block
  <2>3. l \in LaneValues
    <3> HIDE DEF l
    <3>1. p <= Len(bytes)
      <4> HIDE DEF p, r
      <4> QED BY <2>1, RateAssumption
    <3>2. QED
      BY <1>2, <3>1 DEF l
  <2>4. BlocksInto(ZeroLanes, bytes, k + 1) = AbsorbBlock(l, blk)
    BY BlocksIntoStep
  <2> HIDE DEF p, r, blk, l
  <2>5. \A i \in 1..Rate : blk[i] \in Byte
    <3>1. blk \in Seq(Byte) /\ Len(blk) = r - p
      BY <2>1, <2>2, RateAssumption, Segment
    <3>2. Len(blk) = Rate
      BY <2>1, <3>1, RateAssumption
    <3>3. QED
      BY <3>1, <3>2, ElementOfSeq
  <2>6. XorBlock(l, blk) \in LaneValues
    BY <2>3, <2>5, XorBlockType
  <2>7. QED
    BY <2>4, <2>6 DEF AbsorbBlock, PermutesLanes
<1> HIDE DEF S
<1>3. Len(bytes) \div Rate \in S
  <2>1. Len(bytes) \div Rate \in Nat
    BY LenProperties, DivMod
  <2>2. QED
    BY <1>1, <1>2, <2>1, SetInduction
<1>4. (Len(bytes) \div Rate) * Rate <= Len(bytes)
  <2> DEFINE q == Len(bytes) \div Rate
  <2>1. Len(bytes) \in Nat /\ Len(bytes) = q * Rate + (Len(bytes) % Rate) /\ q * Rate \in Nat
        /\ Len(bytes) % Rate \in 0..(Rate - 1)
    BY LenProperties, DivMod
  <2> HIDE DEF q
  <2>2. q * Rate <= Len(bytes)
    BY <2>1, RateAssumption
  <2>3. QED
    BY <2>2 DEF q
<1>5. QED
  BY <1>3, <1>4 DEF S, LanesAfter

-----------------------------------------------------------------------------
(* Bytes in lanes, and out of them. *)
(* The bits of a byte give it back. *)
LEMMA ByteOfBits ==
  ASSUME NEW v \in Byte
  PROVE  LET bit(k) == IF k \in ByteBits[v] THEN BitValue[k + 1] ELSE 0
         IN  bit(0) + bit(1) + bit(2) + bit(3) + bit(4) + bit(5) + bit(6) + bit(7) = v
<1>0. \A d \in {1, 2, 4, 8, 16, 32, 64} : v \div d = 2 * (v \div (2 * d)) + ((v \div d) % 2)
  BY DEF Byte
<1>1. v \in 0..255 /\ v \div 256 = 0 /\ v \div 1 = v
  BY DEF Byte
<1>2. v \div 128 = (v \div 128) % 2
  BY DEF Byte
<1> DEFINE r(d) == (v \div d) % 2
<1>3. \A d \in {1, 2, 4, 8, 16, 32, 64, 128} : r(d) \in {0, 1}
  BY <1>1
<1>4. v = r(1) + 2 * r(2) + 4 * r(4) + 8 * r(8) + 16 * r(16) + 32 * r(32) + 64 * r(64) + 128 * r(128)
  BY DEF Byte
<1>5. \A k \in 0..7 : k \in ByteBits[v] <=> r(BitValue[k + 1]) = 1
  BY DEF ByteBits
<1> HIDE DEF r
<1>6. /\ 0 \in ByteBits[v] <=> r(1) = 1
      /\ 1 \in ByteBits[v] <=> r(2) = 1
      /\ 2 \in ByteBits[v] <=> r(4) = 1
      /\ 3 \in ByteBits[v] <=> r(8) = 1
      /\ 4 \in ByteBits[v] <=> r(16) = 1
      /\ 5 \in ByteBits[v] <=> r(32) = 1
      /\ 6 \in ByteBits[v] <=> r(64) = 1
      /\ 7 \in ByteBits[v] <=> r(128) = 1
  BY <1>5 DEF BitValue
<1>7. QED
  BY <1>3, <1>4, <1>6 DEF BitValue

(* The bits of a word. *)
LEMMA BitsOfWord ==
  ASSUME NEW block, NEW i, NEW x
  PROVE  x \in WordAt(block, i) <=>
           \E m \in 0..(Word - 1) : \E b \in ByteBits[block[i * Word + m + 1]] : x = 8 * m + b
<1> DEFINE Part(m) == {8 * m + b : b \in ByteBits[block[i * Word + m + 1]]}
<1>1. WordAt(block, i) = UNION {Part(m) : m \in 0..(Word - 1)}
  BY Zenon DEF WordAt
<1>2. \A m : x \in Part(m) <=> \E b \in ByteBits[block[i * Word + m + 1]] : x = 8 * m + b
  BY Zenon
<1> HIDE DEF Part
<1>3. x \in WordAt(block, i) <=> \E m \in 0..(Word - 1) : x \in Part(m)
  BY <1>1, Zenon
<1>4. QED
  BY <1>2, <1>3, Zenon

(* absorb and squeeze agree on the order of bytes in lanes: the bytes read *)
(* from zero lanes with one block XORed in are that block's, in order      *)
(* (lib.rs, from_le_bytes in absorb, to_le_bytes in finalize).             *)
THEOREM LanesReadBack ==
  ASSUME NEW block, \A k \in 1..Rate : block[k] \in Byte,
         NEW i \in Nat, i < Rate \div Word, NEW n \in 0..(Word - 1)
  PROVE  ByteAt(XorBlock(ZeroLanes, block)[i], n) = block[i * Word + n + 1]
<1> DEFINE v == block[i * Word + n + 1]
           w == WordAt(block, i)
<1>1. v \in Byte
  BY WordBounds
<1>2. XorBlock(ZeroLanes, block)[i] = w
  <2>1. i \in LaneIndex
    <3>1. Rate \div Word \in Int
      BY RateAssumption, SpongeAssumption
    <3>2. QED
      BY <3>1, LaneAssumption DEF LaneIndex
  <2>2. XorBlock(ZeroLanes, block)[i] = SymDiff({}, w)
    BY <2>1 DEF XorBlock, ZeroLanes
  <2>3. QED
    BY <2>2 DEF SymDiff
<1>3. ASSUME NEW k \in 0..7
      PROVE  8 * n + k \in w <=> k \in ByteBits[v]
  <2>1. ASSUME NEW m \in 0..(Word - 1), NEW b \in ByteBits[block[i * Word + m + 1]],
               8 * m + b = 8 * n + k
        PROVE  m = n /\ b = k
    <3>1. block[i * Word + m + 1] \in Byte
      BY WordBounds
    <3>2. b \in 0..7
      BY <2>1, <3>1 DEF ByteBits
    <3>3. QED
      BY <2>1, <3>2, SpongeAssumption
  <2>2. \A x : x \in w <=> \E m \in 0..(Word - 1) :
                              \E b \in ByteBits[block[i * Word + m + 1]] : x = 8 * m + b
    BY BitsOfWord
  <2>3. 8 * n + k \in w => k \in ByteBits[v]
    <3> SUFFICES ASSUME 8 * n + k \in w PROVE k \in ByteBits[v]
      OBVIOUS
    <3>1. PICK m \in 0..(Word - 1) :
                 \E b \in ByteBits[block[i * Word + m + 1]] : 8 * n + k = 8 * m + b
      BY <2>2
    <3>2. PICK b \in ByteBits[block[i * Word + m + 1]] : 8 * n + k = 8 * m + b
      BY <3>1
    <3>3. m = n /\ b = k
      BY <2>1, <3>2
    <3>4. QED
      BY <3>3
  <2>4. k \in ByteBits[v] => 8 * n + k \in w
    BY <2>2
  <2>5. QED
    BY <2>3, <2>4
<1> HIDE DEF v, w
<1>4. ByteAt(w, n) = v
  <2>1. \A k \in 0..7 : (IF 8 * n + k \in w THEN BitValue[k + 1] ELSE 0)
                          = (IF k \in ByteBits[v] THEN BitValue[k + 1] ELSE 0)
    BY <1>3
  <2>2. QED
    BY <1>1, <2>1, ByteOfBits DEF ByteAt
<1>5. QED
  BY <1>2, <1>4 DEF v
=============================================================================
