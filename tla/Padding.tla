------------------------------ MODULE Padding ------------------------------
(***************************************************************************)
(* The SHA3 padding rule of lib.rs: a message is a sequence of bytes, and  *)
(* padding it appends the domain byte 0x06, zeros, and the high bit of the *)
(* last byte, so that the result is a whole number of Rate-byte blocks.    *)
(*                                                                         *)
(* The state of the sponge is symbolic: the permutation is free, so a      *)
(* Keccak state is the sequence of the bytes absorbed into it, block after *)
(* block, and the digest squeezed from it is that sequence.  Two digests   *)
(* are equal exactly when the same blocks were absorbed in the same order. *)
(***************************************************************************)
EXTENDS Integers, Sequences

CONSTANT Rate    \* bytes of a block (SHA3_512_RATE, 72 in the code)

ASSUME RateAssumption == Rate \in Nat \ {0}

Byte == 0..255

SHA3DomainByte == 6

OrHighBit(b) == IF b < 128 THEN b + 128 ELSE b

(* total_len of pad_message: one block more than the full ones. *)
PaddedLen(n) == (n \div Rate + 1) * Rate

PadMessage(msg) ==
    LET last == PaddedLen(Len(msg))
        buf  == [i \in 1..last |->
                    IF i <= Len(msg) THEN msg[i]
                    ELSE IF i = Len(msg) + 1 THEN SHA3DomainByte
                    ELSE 0]
    IN  [buf EXCEPT ![last] = OrHighBit(@)]

(***************************************************************************)
(* The digest of a whole message, and the bytes of the message that belong *)
(* to its last, partial block.                                             *)
(***************************************************************************)
Digest(msg) == PadMessage(msg)

(* The [0u8; 64] of a refused request: what the all-zero state would give. *)
ZeroDigest == <<>>

PartialBlock(msg) == SubSeq(msg, (Len(msg) \div Rate) * Rate + 1, Len(msg))
=============================================================================
