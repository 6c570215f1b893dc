------------------------- MODULE DigestCheckProofs -------------------------
(***************************************************************************)
(* What the run of DigestCheck checks on digests of two bytes, for digests *)
(* of every length, every text, document and slice: the parsers and the    *)
(* loop of the comparison take one step a byte, so that induction over     *)
(* the steps is induction over the bytes.                                  *)
(***************************************************************************)
EXTENDS DigestCheck, TLAPS
-----------------------------------------------------------------------------
(* The eight bits of a byte. *)
LEMMA BitsDef ==
    ASSUME NEW n \in Octet
    PROVE  /\ 0 \in BitsOf(n) <=> n % 2 = 1
           /\ 1 \in BitsOf(n) <=> (n \div 2) % 2 = 1
           /\ 2 \in BitsOf(n) <=> (n \div 4) % 2 = 1
           /\ 3 \in BitsOf(n) <=> (n \div 8) % 2 = 1
           /\ 4 \in BitsOf(n) <=> (n \div 16) % 2 = 1
           /\ 5 \in BitsOf(n) <=> (n \div 32) % 2 = 1
           /\ 6 \in BitsOf(n) <=> (n \div 64) % 2 = 1
           /\ 7 \in BitsOf(n) <=> (n \div 128) % 2 = 1
  <1>1. /\ Weights[1] = 1 /\ Weights[2] = 2 /\ Weights[3] = 4 /\ Weights[4] = 8
        /\ Weights[5] = 16 /\ Weights[6] = 32 /\ Weights[7] = 64 /\ Weights[8] = 128
    BY DEF Weights
  <1>2. \A k \in Bits : k \in BitsOf(n) <=> (n \div Weights[k + 1]) % 2 = 1
    BY DEF BitsOf
  <1>3. n \div 1 = n
    BY DEF Octet
  <1> QED
    BY <1>1, <1>2, <1>3 DEF Bits

(* A byte is the sum of its bits. *)
LEMMA SumOfBits ==
    ASSUME NEW n \in Octet
    PROVE  n = (n % 2) + 2 * ((n \div 2) % 2) + 4 * ((n \div 4) % 2) + 8 * ((n \div 8) % 2)
                 + 16 * ((n \div 16) % 2) + 32 * ((n \div 32) % 2)
                 + 64 * ((n \div 64) % 2) + 128 * ((n \div 128) % 2)
  BY SMTT(60) DEF Octet

(* Two bytes of the same bits are one: the sets of bits of the model stand *)
(* for bytes.                                                              *)
LEMMA BitsDistinguish ==
    ASSUME NEW m \in Octet, NEW n \in Octet, BitsOf(m) = BitsOf(n)
    PROVE  m = n
  <1>1. ASSUME NEW x \in Int, NEW y \in Int, x % 2 = 1 <=> y % 2 = 1
        PROVE  x % 2 = y % 2
    BY <1>1
  <1>2. /\ m % 2 = n % 2
        /\ (m \div 2) % 2 = (n \div 2) % 2
        /\ (m \div 4) % 2 = (n \div 4) % 2
        /\ (m \div 8) % 2 = (n \div 8) % 2
        /\ (m \div 16) % 2 = (n \div 16) % 2
        /\ (m \div 32) % 2 = (n \div 32) % 2
        /\ (m \div 64) % 2 = (n \div 64) % 2
        /\ (m \div 128) % 2 = (n \div 128) % 2
    <2>1. \A d \in {1, 2, 4, 8, 16, 32, 64, 128} : m \div d \in Int /\ n \div d \in Int
      BY DEF Octet
    <2>2. m % 2 = 1 <=> n % 2 = 1
      BY BitsDef
    <2>3. (m \div 2) % 2 = 1 <=> (n \div 2) % 2 = 1
      BY BitsDef
    <2>4. (m \div 4) % 2 = 1 <=> (n \div 4) % 2 = 1
      BY BitsDef
    <2>5. (m \div 8) % 2 = 1 <=> (n \div 8) % 2 = 1
      BY BitsDef
    <2>6. (m \div 16) % 2 = 1 <=> (n \div 16) % 2 = 1
      BY BitsDef
    <2>7. (m \div 32) % 2 = 1 <=> (n \div 32) % 2 = 1
      BY BitsDef
    <2>8. (m \div 64) % 2 = 1 <=> (n \div 64) % 2 = 1
      BY BitsDef
    <2>9. (m \div 128) % 2 = 1 <=> (n \div 128) % 2 = 1
      BY BitsDef
    <2> QED
      BY <1>1, <2>1, <2>2, <2>3, <2>4, <2>5, <2>6, <2>7, <2>8, <2>9 DEF Octet
  <1> QED
    BY <1>2, SumOfBits

LEMMA MaskBits ==
    \A condition \in BOOLEAN : Mask(condition) = IF condition THEN Bits ELSE {}
  <1>1. 255 \in Octet /\ 0 \in Octet /\ (256 - 1) % 256 = 255 /\ (256 - 0) % 256 = 0
    BY DEF Octet
  <1>2. BitsOf(255) = Bits
    BY <1>1, BitsDef DEF Bits, BitsOf
  <1>3. BitsOf(0) = {}
    BY <1>1, BitsDef DEF Bits, BitsOf
  <1> QED
    BY <1>1, <1>2, <1>3 DEF Mask
-----------------------------------------------------------------------------
(* ct.rs: what the loop knows after i turns. *)
CompareTypeOK ==
    /\ a \in Seq(SUBSET Bits) /\ b \in Seq(SUBSET Bits)
    /\ i \in Nat
    /\ answer \in {"none", "running", "equal", "different"}

LoopInv ==
    answer = "running" =>
        /\ Len(a) = Len(b) /\ i \in 0..Len(a)
        /\ acc = {} <=> \A k \in 1..i : a[k] = b[k]

CompareInv == CompareTypeOK /\ LoopInv /\ EqualIffSame /\ TurnsByLengthOnly

LEMMA NoCallCompareInv == NoCall => CompareInv
  BY DEF NoCall, CompareInv, CompareTypeOK, LoopInv, EqualIffSame, TurnsByLengthOnly, Answered

LEMMA SequencesOfMore ==
    ASSUME NEW S, NEW T, S \subseteq T, NEW s \in Seq(S)
    PROVE  s \in Seq(T)
  OBVIOUS

LEMMA EqualSequences ==
    ASSUME NEW S, NEW x \in Seq(S), NEW y \in Seq(S)
    PROVE  x = y <=> Len(x) = Len(y) /\ \A k \in 1..Len(x) : x[k] = y[k]
  OBVIOUS

LEMMA CompareKeeps ==
    ASSUME CompareInv, NEW x \in Seq(SUBSET Bits), NEW y \in Seq(SUBSET Bits),
           NEW arrays \in BOOLEAN, Compare(x, y, arrays)
    PROVE  CompareInv'
  <1>1. CompareTypeOK'
    BY DEF Compare, CompareTypeOK, Answer, CompareInv
  <1>2. LoopInv'
    BY DEF Compare, LoopInv, Answer
  <1>3. EqualIffSame' /\ TurnsByLengthOnly'
    BY DEF Compare, EqualIffSame, TurnsByLengthOnly, Answered, Answer
  <1> QED
    BY <1>1, <1>2, <1>3 DEF CompareInv

LEMMA AccumulateKeeps ==
    ASSUME CompareInv, Accumulate
    PROVE  CompareInv'
  <1> USE DEF CompareInv
  <1>1. CompareTypeOK'
    BY DEF Accumulate, CompareTypeOK
  <1>2. acc' = {} <=> acc = {} /\ a[i + 1] = b[i + 1]
    BY DEF Accumulate, SymDiff
  <1>3. (\A k \in 1..(i + 1) : a[k] = b[k]) <=> (\A k \in 1..i : a[k] = b[k]) /\ a[i + 1] = b[i + 1]
    BY DEF CompareTypeOK
  <1>4. LoopInv'
    BY <1>2, <1>3 DEF Accumulate, LoopInv, CompareTypeOK
  <1>5. EqualIffSame' /\ TurnsByLengthOnly'
    BY DEF Accumulate, EqualIffSame, TurnsByLengthOnly, Answered
  <1> QED
    BY <1>1, <1>4, <1>5

LEMMA DecideKeeps ==
    ASSUME CompareInv, Decide
    PROVE  CompareInv'
  <1> USE DEF CompareInv
  <1>1. CompareTypeOK'
    BY DEF Decide, CompareTypeOK, Answer
  <1>2. LoopInv'
    BY DEF Decide, LoopInv, Answer
  <1>3. acc = {} <=> a = b
    BY EqualSequences DEF Decide, LoopInv, CompareTypeOK
  <1>4. EqualIffSame' /\ TurnsByLengthOnly'
    BY <1>3 DEF Decide, EqualIffSame, TurnsByLengthOnly, Answered, Answer, LoopInv
  <1> QED
    BY <1>1, <1>2, <1>4

LEMMA SelectsWhole ==
    ASSUME CompareTypeOK
    PROVE  SelectsWholeByte
  <1> SUFFICES ASSUME NEW k \in DOMAIN a \cap DOMAIN b, NEW condition \in BOOLEAN
               PROVE  CtSelect(condition, a[k], b[k]) = IF condition THEN a[k] ELSE b[k]
    BY DEF SelectsWholeByte
  <1>1. a[k] \in SUBSET Bits /\ b[k] \in SUBSET Bits
    BY DEF CompareTypeOK
  <1>2. Mask(condition) = IF condition THEN Bits ELSE {}
    BY MaskBits
  <1> QED
    BY <1>1, <1>2 DEF CtSelect
-----------------------------------------------------------------------------
(* hex.rs: what the parsers know after as many bytes. *)
NibblesRead(n) ==
    /\ \A k \in 1..(2 * n) : HexDigit(input[k])
    /\ \A k \in 1..n : bytes[k] = 16 * NibbleFromAscii(input[2 * k - 1]) + NibbleFromAscii(input[2 * k])

TextInv ==
    given = "text" =>
        /\ input \in Seq(Octet)
        /\ parsed = Parsing => Len(input) = 2 * DigestLen /\ NibblesRead(Len(bytes))
        /\ parsed = Refused =>
             Len(input) # 2 * DigestLen \/ \E k \in DOMAIN input : ~HexDigit(input[k])
        /\ parsed \notin {Parsing, Refused} =>
             /\ Len(input) = 2 * DigestLen /\ NibblesRead(DigestLen)
             /\ Len(bytes) = DigestLen /\ parsed = Decoded(bytes)

DocumentInv ==
    given # "text" =>
        /\ parsed = Parsing =>
             /\ given = "elements" /\ Len(bytes) <= Len(input)
             /\ \A k \in 1..Len(bytes) : input[k] = bytes[k]
        /\ parsed # Parsing => DocumentsRoundTrip

HexTypeOK ==
    /\ given \in {"text", "bytes", "elements"}
    /\ input \in Seq(Nat)
    /\ bytes \in Seq(Octet) /\ Len(bytes) <= DigestLen
    /\ parsed \in {Parsing, Refused} \cup {Decoded(d) : d \in [1..DigestLen -> Octet]}

HexInv == HexTypeOK /\ TextInv /\ DocumentInv

LEMMA Outcomes ==
    /\ Parsing # Refused
    /\ \A d : Decoded(d) # Parsing /\ Decoded(d) # Refused /\ Decoded(d).digest = d
    /\ \A d : Decoded(d).kind = "some"
    /\ Refused.kind # "some"
  BY DEF Parsing, Refused, Decoded

(* A character is refused or read as the digit it is, and the digit is     *)
(* written as that character, in lower case.                               *)
LEMMA Nibbles ==
    \A c \in Octet :
        /\ NibbleFromAscii(c) = NoNibble <=> ~HexDigit(c)
        /\ HexDigit(c) =>
             /\ NibbleFromAscii(c) \in 0..15
             /\ HexLower[NibbleFromAscii(c)] = IF c \in 65..90 THEN c + 32 ELSE c
  <1> SUFFICES ASSUME NEW c \in Octet
               PROVE  /\ NibbleFromAscii(c) = NoNibble <=> ~HexDigit(c)
                      /\ HexDigit(c) =>
                           /\ NibbleFromAscii(c) \in 0..15
                           /\ HexLower[NibbleFromAscii(c)] = IF c \in 65..90 THEN c + 32 ELSE c
    OBVIOUS
  <1> USE DEF Octet, NibbleFromAscii, NoNibble, HexDigit, HexLower
  <1>1. CASE c \in 48..57
    BY <1>1
  <1>2. CASE c \in 97..102
    BY <1>2
  <1>3. CASE c \in 65..70
    BY <1>3
  <1>4. CASE ~(c \in 48..57 \/ c \in 97..102 \/ c \in 65..70)
    BY <1>4
  <1> QED
    BY <1>1, <1>2, <1>3, <1>4

LEMMA NibblesOfByte ==
    ASSUME NEW h \in 0..15, NEW l \in 0..15
    PROVE  16 * h + l \in Octet /\ (16 * h + l) \div 16 = h /\ (16 * h + l) % 16 = l
  <1>1. h \in Int /\ l \in Int /\ 0 <= l /\ l < 16 /\ 0 <= h /\ h < 16
    OBVIOUS
  <1> QED
    BY <1>1 DEF Octet

LEMMA BytesOfNibbles ==
    ASSUME NEW n \in Octet
    PROVE  n \div 16 \in 0..15 /\ n % 16 \in 0..15 /\ n = 16 * (n \div 16) + (n % 16)
  BY DEF Octet

(* No two digests have the same text. *)
LEMMA TableDistinguishes ==
    \A m, n \in 0..15 : HexLower[m] = HexLower[n] => m = n
  BY DEF HexLower

LEMMA EncodingDistinguishes ==
    ASSUME NEW d \in [1..DigestLen -> Octet], NEW e \in [1..DigestLen -> Octet],
           EncodeHex(d, HexLower) = EncodeHex(e, HexLower)
    PROVE  d = e
  <1>1. d \in Seq(Octet) /\ e \in Seq(Octet) /\ Len(d) = DigestLen /\ Len(e) = DigestLen
    BY HexAssumption
  <1>2. ASSUME NEW k \in 1..DigestLen
        PROVE  d[k] = e[k]
    <2>1. /\ 2 * k \in 1..(2 * DigestLen) /\ (2 * k) % 2 # 1 /\ (2 * k + 1) \div 2 = k
          /\ 2 * k - 1 \in 1..(2 * DigestLen) /\ (2 * k - 1) % 2 = 1 /\ (2 * k - 1 + 1) \div 2 = k
      BY HexAssumption
    <2>2. EncodeHex(d, HexLower)[2 * k] = HexLower[d[k] % 16]
      BY <1>1, <2>1 DEF EncodeHex
    <2>3. EncodeHex(d, HexLower)[2 * k - 1] = HexLower[d[k] \div 16]
      BY <1>1, <2>1 DEF EncodeHex
    <2>4. EncodeHex(e, HexLower)[2 * k] = HexLower[e[k] % 16]
      BY <1>1, <2>1 DEF EncodeHex
    <2>5. EncodeHex(e, HexLower)[2 * k - 1] = HexLower[e[k] \div 16]
      BY <1>1, <2>1 DEF EncodeHex
    <2>6. d[k] % 16 = e[k] % 16 /\ d[k] \div 16 = e[k] \div 16
      <3>1. d[k] \in Octet /\ e[k] \in Octet
        OBVIOUS
      <3>2. d[k] % 16 \in 0..15 /\ e[k] % 16 \in 0..15 /\ d[k] \div 16 \in 0..15 /\ e[k] \div 16 \in 0..15
        BY <3>1, BytesOfNibbles
      <3> QED
        BY <2>2, <2>3, <2>4, <2>5, <3>2, TableDistinguishes
    <2>7. d[k] = 16 * (d[k] \div 16) + (d[k] % 16)
      BY BytesOfNibbles
    <2>8. e[k] = 16 * (e[k] \div 16) + (e[k] % 16)
      BY BytesOfNibbles
    <2> QED
      BY <2>6, <2>7, <2>8
  <1> QED
    BY <1>1, <1>2, EqualSequences

(* Formatting writes what the table encodes: the 0 in front of a single    *)
(* digit is the table's own.                                               *)
LEMMA FormattedAsEncoded ==
    ASSUME NEW d \in [1..DigestLen -> Octet], NEW table \in {HexLower, HexUpper}
    PROVE  Formatted(d, table) = EncodeHex(d, table)
  <1>1. table[0] = 48
    BY DEF HexLower, HexUpper
  <1>2. Len(d) = DigestLen
    BY HexAssumption
  <1>3. ASSUME NEW k \in 1..(2 * Len(d))
        PROVE  Padded(d[(k + 1) \div 2], table)[IF k % 2 = 1 THEN 1 ELSE 2] =
                 table[IF k % 2 = 1 THEN d[(k + 1) \div 2] \div 16 ELSE d[(k + 1) \div 2] % 16]
    <2>1. (k + 1) \div 2 \in 1..DigestLen
      BY <1>2, HexAssumption
    <2> DEFINE n == d[(k + 1) \div 2]
    <2>2. n \in Octet
      BY <2>1
    <2>3. n < 16 => n \div 16 = 0 /\ n % 16 = n
      <3> HIDE DEF n
      <3> QED
        BY <2>2 DEF Octet
    <2>4. Padded(n, table)[1] = table[n \div 16]
      <3> HIDE DEF n
      <3>1. CASE n < 16
        BY <1>1, <2>3, <3>1 DEF Padded
      <3>2. CASE ~(n < 16)
        BY <3>2 DEF Padded
      <3> QED
        BY <3>1, <3>2
    <2>5. Padded(n, table)[2] = table[n % 16]
      BY <2>3 DEF Padded
    <2> QED
      BY <2>4, <2>5
  <1> QED
    BY <1>3 DEF Formatted, EncodeHex
-----------------------------------------------------------------------------
(* The parser between two steps. *)
LEMMA InitHexInv == HexInit => HexInv
  <1> SUFFICES ASSUME HexInit PROVE HexInv
    OBVIOUS
  <1> USE Outcomes, HexAssumption
  <1>1. CASE TextGiven
    <2>1. /\ given = "text" /\ input \in Seq(Octet) /\ bytes = <<>>
          /\ parsed = IF Len(input) # 2 * DigestLen THEN Refused ELSE Parsing
      BY <1>1 DEF TextGiven
    <2>2. HexTypeOK
      <3>1. parsed \in {Parsing, Refused}
        BY <2>1
      <3>2. Octet \subseteq Nat
        BY DEF Octet
      <3>3. input \in Seq(Nat)
        BY <2>1, <3>2, SequencesOfMore
      <3> QED
        BY <2>1, <3>1, <3>3 DEF HexTypeOK
    <2>3. TextInv
      BY <2>1 DEF TextInv, NibblesRead
    <2> QED
      BY <2>1, <2>2, <2>3 DEF HexInv, DocumentInv
  <1>2. CASE BytesGiven
    <2>1. /\ given = "bytes" /\ input \in Seq(Octet) /\ bytes = <<>>
          /\ parsed = IF Len(input) # DigestLen THEN Refused ELSE Decoded(input)
      BY <1>2 DEF BytesGiven
    <2>2. Len(input) = DigestLen =>
             input \in [1..DigestLen -> Octet] /\ SubSeq(input, 1, DigestLen) = input
      BY <2>1
    <2>3. HexTypeOK
      <3>1. parsed \in {Parsing, Refused} \cup {Decoded(d) : d \in [1..DigestLen -> Octet]}
        BY <2>1, <2>2
      <3>2. Octet \subseteq Nat
        BY DEF Octet
      <3>3. input \in Seq(Nat)
        BY <2>1, <3>2, SequencesOfMore
      <3> QED
        BY <2>1, <3>1, <3>3 DEF HexTypeOK
    <2>4. DocumentsRoundTrip
      <3>1. CASE Len(input) = DigestLen
        <4>1. /\ Len(input) >= DigestLen /\ ~(Len(input) > DigestLen)
              /\ \A k \in 1..DigestLen : input[k] \in Octet
          BY <2>1, <3>1
        <4> QED
          BY <2>1, <2>2, <3>1, <4>1 DEF DocumentsRoundTrip
      <3>2. CASE Len(input) # DigestLen
        <4>1. ~(Len(input) >= DigestLen) \/ Len(input) > DigestLen
          BY <2>1, <3>2
        <4> QED
          BY <2>1, <3>2, <4>1 DEF DocumentsRoundTrip
      <3> QED
        BY <3>1, <3>2
    <2> QED
      BY <2>1, <2>3, <2>4 DEF HexInv, DocumentInv, TextInv
  <1>3. CASE ElementsGiven
    <2>1. given = "elements" /\ input \in Seq(Nat) /\ bytes = <<>> /\ parsed = Parsing
      BY <1>3 DEF ElementsGiven
    <2> QED
      BY <2>1 DEF HexInv, HexTypeOK, DocumentInv, TextInv
  <1> QED
    BY <1>1, <1>2, <1>3 DEF HexInit

(* One byte more of a text. *)
LEMMA DecodeByteKeeps ==
    ASSUME HexInv, DecodeByte
    PROVE  HexInv'
  <1> USE Outcomes, HexAssumption DEF HexInv
  <1> DEFINE n == Len(bytes)
  <1>1. /\ given = "text" /\ parsed = Parsing /\ n \in Nat /\ n < DigestLen
        /\ input \in Seq(Octet) /\ Len(input) = 2 * DigestLen /\ NibblesRead(n)
        /\ given' = given /\ input' = input
    BY DEF DecodeByte, TextInv, HexTypeOK
  <1>2. /\ 2 * n + 1 \in 1..Len(input) /\ 2 * n + 2 \in 1..Len(input)
        /\ input[2 * n + 1] \in Octet /\ input[2 * n + 2] \in Octet
    BY <1>1
  <1>3. CASE NoNibble \in {HighNibble, LowNibble}
    <2>1. parsed' = Refused /\ bytes' = bytes
      BY <1>3 DEF DecodeByte
    <2>2. \E k \in DOMAIN input : ~HexDigit(input[k])
      BY <1>2, <1>3, Nibbles DEF HighNibble, LowNibble
    <2> QED
      BY <1>1, <2>1, <2>2 DEF HexTypeOK, TextInv, DocumentInv
  <1>4. CASE NoNibble \notin {HighNibble, LowNibble}
    <2> DEFINE byte == 16 * HighNibble + LowNibble
    <2>1. parsed' = parsed /\ bytes' = Append(bytes, byte)
      BY <1>4 DEF DecodeByte
    <2>2. /\ HexDigit(input[2 * n + 1]) /\ HexDigit(input[2 * n + 2])
          /\ HighNibble = NibbleFromAscii(input[2 * n + 1]) /\ LowNibble = NibbleFromAscii(input[2 * n + 2])
          /\ HighNibble \in 0..15 /\ LowNibble \in 0..15
      BY <1>2, <1>4, Nibbles DEF HighNibble, LowNibble
    <2>3. byte \in Octet
      BY <2>2, NibblesOfByte
    <2> HIDE DEF byte
    <2>4. /\ bytes' \in Seq(Octet) /\ Len(bytes') = n + 1 /\ bytes'[n + 1] = byte
          /\ \A k \in 1..n : bytes'[k] = bytes[k]
      BY <2>1, <2>3 DEF HexTypeOK
    <2>5. HexTypeOK'
      BY <1>1, <2>1, <2>4 DEF HexTypeOK
    <2>6. \A k \in 1..(2 * (n + 1)) : HexDigit(input[k])
      BY <1>1, <2>2 DEF NibblesRead
    <2>7. \A k \in 1..(n + 1) : bytes'[k] =
             16 * NibbleFromAscii(input[2 * k - 1]) + NibbleFromAscii(input[2 * k])
      <3> SUFFICES ASSUME NEW k \in 1..(n + 1)
                   PROVE  bytes'[k] =
                              16 * NibbleFromAscii(input[2 * k - 1]) + NibbleFromAscii(input[2 * k])
        OBVIOUS
      <3>1. CASE k = n + 1
        <4>1. 2 * k - 1 = 2 * n + 1 /\ 2 * k = 2 * n + 2
          BY <1>1, <3>1
        <4> QED
          BY <2>2, <2>4, <3>1, <4>1 DEF byte
      <3>2. CASE k \in 1..n
        BY <1>1, <2>4, <3>2 DEF NibblesRead
      <3> QED
        BY <1>1, <3>1, <3>2
    <2>8. TextInv'
      BY <1>1, <2>1, <2>4, <2>6, <2>7 DEF TextInv, NibblesRead
    <2> QED
      BY <1>1, <2>5, <2>8 DEF DocumentInv
  <1> QED
    BY <1>3, <1>4

(* One element more of a document, or an end that came too early. *)
LEMMA NextElementKeeps ==
    ASSUME HexInv, NextElement
    PROVE  HexInv'
  <1> USE Outcomes, HexAssumption DEF HexInv
  <1> DEFINE n == Len(bytes)
  <1>1. /\ given = "elements" /\ parsed = Parsing /\ n \in Nat /\ n < DigestLen
        /\ input \in Seq(Nat) /\ n <= Len(input) /\ \A k \in 1..n : input[k] = bytes[k]
        /\ given' = given /\ input' = input
    BY DEF NextElement, DocumentInv, HexTypeOK
  <1>2. CASE n = Len(input) \/ input[n + 1] \notin Octet
    <2>1. parsed' = Refused /\ bytes' = bytes
      BY <1>2 DEF NextElement
    <2>2. ~(Len(input) >= DigestLen /\ \A k \in 1..DigestLen : input[k] \in Octet)
      BY <1>1, <1>2
    <2>3. DocumentsRoundTrip'
      BY <1>1, <2>1, <2>2 DEF DocumentsRoundTrip
    <2> QED
      BY <1>1, <2>1, <2>3 DEF HexTypeOK, TextInv, DocumentInv
  <1>3. CASE ~(n = Len(input) \/ input[n + 1] \notin Octet)
    <2>1. parsed' = parsed /\ bytes' = Append(bytes, input[n + 1]) /\ input[n + 1] \in Octet
      BY <1>3 DEF NextElement
    <2>2. /\ bytes' \in Seq(Octet) /\ Len(bytes') = n + 1 /\ bytes'[n + 1] = input[n + 1]
          /\ \A k \in 1..n : bytes'[k] = bytes[k]
      BY <2>1 DEF HexTypeOK
    <2>3. \A k \in 1..(n + 1) : input[k] = bytes'[k]
      BY <1>1, <2>2
    <2> QED
      BY <1>1, <1>3, <2>1, <2>2, <2>3 DEF HexTypeOK, TextInv, DocumentInv
  <1> QED
    BY <1>2, <1>3

LEMMA FinishKeeps ==
    ASSUME HexInv, Finish
    PROVE  HexInv'
  <1> USE Outcomes, HexAssumption DEF HexInv
  <1>1. /\ parsed = Parsing /\ Len(bytes) = DigestLen /\ parsed' = Decoded(bytes)
        /\ bytes' = bytes /\ given' = given /\ input' = input
    BY DEF Finish
  <1>2. bytes \in [1..DigestLen -> Octet]
    BY <1>1 DEF HexTypeOK
  <1>3. HexTypeOK'
    BY <1>1, <1>2 DEF HexTypeOK
  <1>4. TextInv'
    BY <1>1 DEF TextInv, NibblesRead
  <1>5. DocumentInv'
    <2> SUFFICES ASSUME given # "text" PROVE DocumentsRoundTrip'
      BY <1>1 DEF DocumentInv
    <2>1. /\ given = "elements" /\ Len(input) >= DigestLen /\ input \in Seq(Nat)
          /\ \A k \in 1..DigestLen : input[k] = bytes[k] /\ input[k] \in Octet
      BY <1>1, <1>2 DEF DocumentInv, HexTypeOK
    <2>2. SubSeq(input, 1, DigestLen) = bytes
      BY <1>1, <1>2, <2>1, EqualSequences DEF HexTypeOK
    <2> QED
      BY <1>1, <2>1, <2>2 DEF DocumentsRoundTrip
  <1> QED
    BY <1>3, <1>4, <1>5
-----------------------------------------------------------------------------
(* The inductive invariant: what was parsed is compared, and only then. *)
CheckInv ==
    /\ HexInv /\ CompareInv
    /\ atHand \in Digests
    /\ answer # "none" =>
         /\ parsed # Parsing
         /\ parsed # Refused => a = AsBits(parsed.digest) /\ b = AsBits(atHand)

LEMMA ParsedIsDecoded ==
    ASSUME HexInv, parsed \notin {Parsing, Refused}
    PROVE  parsed.digest \in [1..DigestLen -> Octet] /\ parsed = Decoded(parsed.digest)
  BY Outcomes DEF HexInv, HexTypeOK

LEMMA AsBitsType ==
    ASSUME NEW d \in [1..DigestLen -> Octet]
    PROVE  AsBits(d) \in Seq(SUBSET Bits) /\ Len(AsBits(d)) = DigestLen
  <1>1. d \in Seq(Octet) /\ Len(d) = DigestLen
    BY HexAssumption
  <1>2. \A k \in 1..DigestLen : BitsOf(d[k]) \in SUBSET Bits
    BY DEF BitsOf
  <1> QED
    BY <1>1, <1>2, HexAssumption DEF AsBits

LEMMA AsBitsDistinguishes ==
    ASSUME NEW d \in [1..DigestLen -> Octet], NEW e \in [1..DigestLen -> Octet]
    PROVE  AsBits(d) = AsBits(e) <=> d = e
  <1> SUFFICES ASSUME AsBits(d) = AsBits(e) PROVE d = e
    OBVIOUS
  <1>1. /\ d \in Seq(Octet) /\ Len(d) = DigestLen
        /\ e \in Seq(Octet) /\ Len(e) = DigestLen
    BY HexAssumption
  <1>2. ASSUME NEW k \in 1..DigestLen
        PROVE  d[k] = e[k]
    <2>1. AsBits(d)[k] = BitsOf(d[k]) /\ AsBits(e)[k] = BitsOf(e[k])
      BY <1>1 DEF AsBits
    <2> QED
      BY <2>1, BitsDistinguish
  <1> QED
    BY <1>1, <1>2, EqualSequences

LEMMA CheckInvInductive == Spec => []CheckInv
  <1> USE Outcomes DEF CheckInv
  <1>1. Init => CheckInv
    BY InitHexInv, NoCallCompareInv DEF Init, NoCall
  <1>2. CheckInv /\ [Next]_checkVars => CheckInv'
    <2> SUFFICES ASSUME CheckInv, [Next]_checkVars PROVE CheckInv'
      OBVIOUS
    <2>1. ASSUME Parse PROVE CheckInv'
      <3>1. parsed = Parsing /\ UNCHANGED <<compareVars, atHand>>
        BY <2>1 DEF Parse, ParseStep, DecodeByte, NextElement, Finish
      <3>2. HexInv'
        BY <2>1, DecodeByteKeeps, NextElementKeeps, FinishKeeps DEF Parse, ParseStep
      <3>3. CompareInv'
        BY <3>1 DEF compareVars, CompareInv, CompareTypeOK, LoopInv,
               EqualIffSame, TurnsByLengthOnly, Answered
      <3> QED
        BY <3>1, <3>2, <3>3 DEF compareVars
    <2>2. ASSUME UNCHANGED hexVars PROVE HexInv'
      BY <2>2 DEF hexVars, HexInv, HexTypeOK, TextInv, DocumentInv, DocumentsRoundTrip, NibblesRead
    <2>3. ASSUME NEW arrays \in BOOLEAN, CompareParsed(arrays) PROVE CheckInv'
      <3>1. parsed \notin {Parsing, Refused} /\ UNCHANGED <<hexVars, atHand>>
        BY <2>3 DEF CompareParsed
      <3>2. parsed.digest \in [1..DigestLen -> Octet] /\ atHand \in [1..DigestLen -> Octet]
        BY <3>1, ParsedIsDecoded, CheckAssumption
      <3>3. Compare(AsBits(parsed.digest), AsBits(atHand), arrays)
        BY <2>3 DEF CompareParsed
      <3>4. CompareInv'
        BY <3>2, <3>3, AsBitsType, CompareKeeps
      <3> QED
        BY <2>2, <3>1, <3>3, <3>4 DEF Compare, hexVars
    <2>4. ASSUME NEW x \in Slices, NEW y \in Slices, CompareSlices(x, y) PROVE CheckInv'
      <3>1. parsed = Refused /\ UNCHANGED <<hexVars, atHand>> /\ Compare(x, y, FALSE)
        BY <2>4 DEF CompareSlices
      <3>2. CompareInv'
        BY <3>1, CompareKeeps, CheckAssumption
      <3> QED
        BY <2>2, <3>1, <3>2 DEF hexVars
    <2>5. ASSUME Loop PROVE CheckInv'
      <3>1. CompareInv'
        BY <2>5, AccumulateKeeps, DecideKeeps DEF Loop
      <3>2. answer # "none" /\ UNCHANGED <<a, b, hexVars, atHand>>
        BY <2>5 DEF Loop, Accumulate, Decide
      <3> QED
        BY <2>2, <3>1, <3>2 DEF hexVars
    <2>6. ASSUME UNCHANGED checkVars PROVE CheckInv'
      <3>1. CompareInv'
        BY <2>6 DEF checkVars, compareVars, CompareInv, CompareTypeOK, LoopInv,
               EqualIffSame, TurnsByLengthOnly, Answered
      <3> QED
        BY <2>2, <2>6, <3>1 DEF checkVars, compareVars, hexVars
    <2> QED
      BY <2>1, <2>3, <2>4, <2>5, <2>6 DEF Next
  <1> QED
    BY <1>1, <1>2, PTL DEF Spec
-----------------------------------------------------------------------------
(* What a finished from_hex returns, element by element. *)
LEMMA DecodedText ==
    ASSUME HexInv, given = "text", parsed \notin {Parsing, Refused}
    PROVE  EncodeHex(parsed.digest, HexLower) = LowerCase(input)
  <1> USE Outcomes, HexAssumption
  <1>1. /\ input \in Seq(Octet) /\ Len(input) = 2 * DigestLen /\ NibblesRead(DigestLen)
        /\ parsed.digest = bytes /\ bytes \in Seq(Octet) /\ Len(bytes) = DigestLen
    BY DEF HexInv, HexTypeOK, TextInv
  <1>2. ASSUME NEW k \in 1..(2 * DigestLen)
        PROVE  EncodeHex(bytes, HexLower)[k] = LowerCase(input)[k]
    <2> DEFINE m == (k + 1) \div 2
               h == NibbleFromAscii(input[2 * m - 1])
               l == NibbleFromAscii(input[2 * m])
    <2>1. m \in 1..DigestLen /\ IF k % 2 = 1 THEN k = 2 * m - 1 ELSE k = 2 * m
      OBVIOUS
    <2>2. 2 * m - 1 \in 1..(2 * DigestLen) /\ 2 * m \in 1..(2 * DigestLen)
      BY <2>1
    <2> HIDE DEF m
    <2>3. /\ input[2 * m - 1] \in Octet /\ input[2 * m] \in Octet
          /\ HexDigit(input[2 * m - 1]) /\ HexDigit(input[2 * m]) /\ bytes[m] = 16 * h + l
      BY <1>1, <2>1, <2>2 DEF NibblesRead
    <2>4. h \in 0..15 /\ l \in 0..15
      BY <2>3, Nibbles
    <2>5. EncodeHex(bytes, HexLower)[k] = HexLower[IF k % 2 = 1 THEN bytes[m] \div 16 ELSE bytes[m] % 16]
      BY <1>1 DEF EncodeHex, m
    <2>6. EncodeHex(bytes, HexLower)[k] = HexLower[IF k % 2 = 1 THEN h ELSE l]
      BY <2>3, <2>4, <2>5, NibblesOfByte
    <2>7. /\ EncodeHex(bytes, HexLower)[k] = HexLower[NibbleFromAscii(input[k])]
          /\ HexDigit(input[k]) /\ input[k] \in Octet
      BY <2>1, <2>3, <2>6
    <2> QED
      BY <1>1, <2>7, Nibbles DEF LowerCase
  <1> DEFINE written == EncodeHex(bytes, HexLower)
             read == LowerCase(input)
  <1>3. written = [k \in 1..(2 * DigestLen) |-> written[k]]
    BY <1>1 DEF EncodeHex
  <1>4. read = [k \in 1..(2 * DigestLen) |-> read[k]]
    BY <1>1 DEF LowerCase
  <1>5. \A k \in 1..(2 * DigestLen) : written[k] = read[k]
    BY <1>2
  <1> HIDE DEF written, read
  <1>6. written = read
    BY <1>3, <1>4, <1>5, Zenon
  <1> QED
    BY <1>1, <1>6 DEF written, read

LEMMA DecodesInv == HexInv => DecodesTheEncoding
  <1> SUFFICES ASSUME HexInv, given = "text", parsed # Parsing PROVE DecodesTheEncoding
    BY DEF DecodesTheEncoding
  <1> USE Outcomes, HexAssumption
  <1>1. CASE parsed = Refused
    <2>1. ~(Len(input) = 2 * DigestLen /\ \A k \in DOMAIN input : HexDigit(input[k]))
      BY <1>1 DEF HexInv, TextInv
    <2> QED
      BY <1>1, <2>1 DEF DecodesTheEncoding
  <1>2. CASE parsed # Refused
    <2>1. parsed.digest \in [1..DigestLen -> Octet] /\ parsed.kind = "some"
      BY <1>2, ParsedIsDecoded
    <2>2. Len(input) = 2 * DigestLen /\ \A k \in DOMAIN input : HexDigit(input[k])
      <3>1. input \in Seq(Octet) /\ Len(input) = 2 * DigestLen /\ NibblesRead(DigestLen)
        BY <1>2 DEF HexInv, TextInv
      <3> QED
        BY <3>1 DEF NibblesRead
    <2>3. EncodeHex(parsed.digest, HexLower) = LowerCase(input)
      BY <1>2, DecodedText
    <2>4. \A table \in {HexLower, HexUpper} :
             Formatted(parsed.digest, table) = EncodeHex(parsed.digest, table)
      BY <2>1, FormattedAsEncoded
    <2> QED
      BY <2>1, <2>2, <2>3, <2>4 DEF DecodesTheEncoding
  <1> QED
    BY <1>1, <1>2

LEMMA ChecksInv == CheckInv => ChecksThePublished
  <1> SUFFICES ASSUME CheckInv, Answered, parsed # Refused PROVE ChecksThePublished
    BY DEF ChecksThePublished
  <1> USE HexAssumption
  <1>1. /\ parsed \notin {Parsing, Refused} /\ HexInv /\ EqualIffSame
        /\ a = AsBits(parsed.digest) /\ b = AsBits(atHand)
        /\ atHand \in [1..DigestLen -> Octet]
    BY CheckAssumption DEF CheckInv, CompareInv, Answered
  <1>2. parsed.digest \in [1..DigestLen -> Octet] /\ parsed = Decoded(parsed.digest)
    BY <1>1, ParsedIsDecoded
  <1>3. answer = "equal" <=> parsed.digest = atHand
    BY <1>1, <1>2, AsBitsDistinguishes DEF EqualIffSame
  <1>4. CASE given = "text"
    <2>1. EncodeHex(parsed.digest, HexLower) = LowerCase(input)
      BY <1>1, <1>4, DecodedText
    <2>2. LowerCase(input) = EncodeHex(atHand, HexLower) <=> parsed.digest = atHand
      BY <1>1, <1>2, <2>1, EncodingDistinguishes
    <2> QED
      BY <1>3, <1>4, <2>2 DEF ChecksThePublished
  <1>5. CASE given # "text"
    <2>1. DocumentsRoundTrip
      BY <1>1, <1>5 DEF HexInv, DocumentInv
    <2>2. parsed = Decoded(SubSeq(input, 1, DigestLen))
      BY <1>1, <1>5, <2>1 DEF DocumentsRoundTrip
    <2>3. parsed.digest = SubSeq(input, 1, DigestLen)
      BY <2>2, Outcomes
    <2> QED
      BY <1>3, <1>5, <2>3 DEF ChecksThePublished
  <1> QED
    BY <1>4, <1>5
-----------------------------------------------------------------------------
(* from_hex accepts the hexadecimal texts of the right length and no other, *)
(* and what it returns is encoded and formatted as that text.               *)
THEOREM Decodes == Spec => []DecodesTheEncoding
  <1>1. CheckInv => DecodesTheEncoding
    BY DecodesInv DEF CheckInv
  <1> QED
    BY <1>1, CheckInvInductive, PTL

(* Both visitors give back the digest a document begins with, and accept   *)
(* nothing shorter or wider.                                               *)
THEOREM RoundTrips == Spec => []DocumentsRoundTrip
  <1>1. CheckInv => DocumentsRoundTrip
    BY DEF CheckInv, HexInv, DocumentInv, DocumentsRoundTrip
  <1> QED
    BY <1>1, CheckInvInductive, PTL

(* Without a branch on the data, ct_eq and ct_hash_eq answer by equality,  *)
(* and ct_select gives the one byte or the other.                          *)
THEOREM Compares == Spec => []AsWithBranches
  <1>1. CheckInv => AsWithBranches
    BY SelectsWhole DEF CheckInv, CompareInv, AsWithBranches
  <1> QED
    BY <1>1, CheckInvInductive, PTL

(* The turns of ct_eq's loop are as many as the slices are long, wherever  *)
(* they differ.                                                            *)
THEOREM Turns == Spec => []TurnsByLengthOnly
  <1>1. CheckInv => TurnsByLengthOnly
    BY DEF CheckInv, CompareInv
  <1> QED
    BY <1>1, CheckInvInductive, PTL

(* The whole way, from the published text or the stored document to the    *)
(* answer: equal exactly if it is the digest at hand that was published.   *)
THEOREM Checks == Spec => []ChecksThePublished
  <1> QED
    BY ChecksInv, CheckInvInductive, PTL
=============================================================================
