----------------------------- MODULE HexDigest -----------------------------
(***************************************************************************)
(* Sha3Digest of hex.rs: encoding with a table of nibbles, formatting, and *)
(* the two ways back: from_hex, byte by byte of a text (the sequence of    *)
(* the bytes a &str holds), and the DigestVisitor of the serde feature,    *)
(* which a format hands the bytes whole or a sequence of elements.         *)
(***************************************************************************)
EXTENDS Integers, Sequences

CONSTANTS DigestLen,   \* 64 in the code
          Texts,       \* what from_hex is given
          Documents    \* what a format holds: bytes, or numbers one by one

Octet == 0..255

ASSUME HexAssumption ==
    /\ DigestLen \in Nat /\ Texts \subseteq Seq(Octet)
    /\ Documents \subseteq Seq(Nat)

(* ASCII: '0' is 48, 'A' 65, 'a' 97. *)
HexLower == [n \in 0..15 |-> IF n < 10 THEN 48 + n ELSE 97 + n - 10]

HexUpper == [n \in 0..15 |-> IF n < 10 THEN 48 + n ELSE 65 + n - 10]

EncodeHex(bytes, table) ==
    [k \in 1..(2 * Len(bytes)) |->
        LET b == bytes[((k + 1) \div 2)]
        IN  table[IF k % 2 = 1 THEN b \div 16 ELSE b % 16]]

(* write!("{:02x}"): as few digits as the number has, and a 0 in front of *)
(* a single one; so two characters a byte.                                 *)
Padded(b, table) ==
    IF b < 16 THEN << 48, table[b] >> ELSE << table[b \div 16], table[b % 16] >>

Formatted(bytes, table) ==
    [k \in 1..(2 * Len(bytes)) |-> Padded(bytes[(k + 1) \div 2], table)[IF k % 2 = 1 THEN 1 ELSE 2]]

NoNibble == 16

(* Mutant of NibbleFromAscii: the upper-case letters are off by one. *)
NibbleOffByOne(c) ==
    CASE c \in 48..57  -> c - 48
      [] c \in 97..102 -> c - 97 + 10
      [] c \in 65..71  -> c - 65 + 9
      [] OTHER         -> NoNibble

NibbleFromAscii(c) ==
    CASE c \in 48..57  -> c - 48
      [] c \in 97..102 -> c - 97 + 10
      [] c \in 65..70  -> c - 65 + 10
      [] OTHER         -> NoNibble

VARIABLES
    given,     \* "text", or "bytes" or "elements" of a document
    input,     \* the text, or the document
    bytes,     \* the slots filled so far
    parsed     \* what the parser has returned

hexVars == <<given, input, bytes, parsed>>

Parsing == [kind |-> "parsing"]
Decoded(d) == [kind |-> "some", digest |-> d]
Refused == [kind |-> "none"]

(* from_hex looks at the length first. *)
TextGiven ==
    /\ given = "text" /\ input \in Texts /\ bytes = <<>>
    /\ parsed = IF Len(input) # 2 * DigestLen THEN Refused ELSE Parsing

(* visit_bytes: what Serialize writes, where the format knows bytes. *)
BytesGiven ==
    /\ given = "bytes" /\ input \in {d \in Documents : d \in Seq(Octet)} /\ bytes = <<>>
    /\ parsed = IF Len(input) # DigestLen THEN Refused ELSE Decoded(input)

(* visit_seq: the length is not known beforehand. *)
ElementsGiven ==
    given = "elements" /\ input \in Documents /\ bytes = <<>> /\ parsed = Parsing

HexInit == TextGiven \/ BytesGiven \/ ElementsGiven

HighNibble == NibbleFromAscii(input[2 * Len(bytes) + 1])
LowNibble  == NibbleFromAscii(input[2 * Len(bytes) + 2])

(* One byte of the digest; the ? operator refuses at the first bad nibble. *)
DecodeByte ==
    /\ given = "text" /\ parsed = Parsing /\ Len(bytes) < DigestLen
    /\ IF NoNibble \in {HighNibble, LowNibble}
       THEN parsed' = Refused /\ UNCHANGED bytes
       ELSE bytes' = Append(bytes, 16 * HighNibble + LowNibble) /\ UNCHANGED parsed
    /\ UNCHANGED <<given, input>>

(* Mutant of NextElement: a slot without an element stays zero. *)
NextElementOrZero ==
    /\ given = "elements" /\ parsed = Parsing /\ Len(bytes) < DigestLen
    /\ IF Len(bytes) < Len(input) /\ input[Len(bytes) + 1] \notin Octet
       THEN parsed' = Refused /\ UNCHANGED bytes
       ELSE /\ bytes' = Append(bytes, IF Len(bytes) < Len(input) THEN input[Len(bytes) + 1] ELSE 0)
            /\ UNCHANGED parsed
    /\ UNCHANGED <<given, input>>

(* next_element::<u8>: no element left, or one that is no u8, is an error. *)
NextElement ==
    /\ given = "elements" /\ parsed = Parsing /\ Len(bytes) < DigestLen
    /\ IF Len(bytes) = Len(input) \/ input[Len(bytes) + 1] \notin Octet
       THEN parsed' = Refused /\ UNCHANGED bytes
       ELSE bytes' = Append(bytes, input[Len(bytes) + 1]) /\ UNCHANGED parsed
    /\ UNCHANGED <<given, input>>

(* The end of both loops; elements past the last slot are not asked for. *)
Finish ==
    /\ parsed = Parsing /\ Len(bytes) = DigestLen
    /\ parsed' = Decoded(bytes)
    /\ UNCHANGED <<given, input, bytes>>

ParseStep == DecodeByte \/ NextElement \/ Finish
-----------------------------------------------------------------------------
(* Text in which both cases of a letter are one. *)
LowerCase(t) == [k \in DOMAIN t |-> IF t[k] \in 65..90 THEN t[k] + 32 ELSE t[k]]

HexDigit(c) == c \in 48..57 \/ c \in 65..70 \/ c \in 97..102

(* from_hex accepts exactly the texts that are hexadecimal and as long as  *)
(* two digits a byte, in either case or both, and what it returns is       *)
(* encoded, and formatted, as that text again, leading zeros included; so  *)
(* both are undone by it, and no two digests have the same text (hex.rs,   *)
(* from_hex, encode_hex, Display, LowerHex and UpperHex).                  *)
DecodesTheEncoding ==
    given = "text" /\ parsed # Parsing =>
        /\ parsed.kind = "some"
             <=> Len(input) = 2 * DigestLen /\ \A k \in DOMAIN input : HexDigit(input[k])
        /\ parsed.kind = "some" =>
             /\ parsed.digest \in [1..DigestLen -> Octet]
             /\ EncodeHex(parsed.digest, HexLower) = LowerCase(input)
             /\ \A table \in {HexLower, HexUpper} :
                    Formatted(parsed.digest, table) = EncodeHex(parsed.digest, table)

(* A document gives back the digest whose bytes it begins with, and nothing *)
(* shorter or with an element that is no byte is taken for one, by either   *)
(* visitor.  Where they differ is a document that is too long: visit_bytes  *)
(* refuses it, visit_seq leaves the rest to the format (hex.rs, Serialize,  *)
(* visit_bytes and visit_seq).                                              *)
DocumentsRoundTrip ==
    given # "text" /\ parsed # Parsing =>
        LET whole == /\ Len(input) >= DigestLen
                     /\ \A k \in 1..DigestLen : input[k] \in Octet
            long  == Len(input) > DigestLen
        IN  parsed = IF whole /\ ~(given = "bytes" /\ long)
                     THEN Decoded(SubSeq(input, 1, DigestLen)) ELSE Refused
=============================================================================
