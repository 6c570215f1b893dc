------------------------------- MODULE Sponge -------------------------------
(***************************************************************************)
(* Sha3_512State of lib.rs: the streaming sponge.  A sponge is a record    *)
(*   state   the Keccak state, as the bytes absorbed into it (Padding.tla) *)
(*   pos     the number of bytes that wait in the buffer                   *)
(*   buffer  the 200-byte absorb buffer; only its first Rate bytes matter  *)
(* and new, reset, absorb and finalize are operators on such records.      *)
(***************************************************************************)
EXTENDS Padding

CONSTANTS Word,      \* bytes of a lane (8 in the code)
          BufferLen  \* length of the absorb buffer (200 in the code)

ASSUME SpongeAssumption ==
    /\ Word \in Nat \ {0}
    /\ (Rate \div Word) * Word = Rate
    /\ BufferLen \in Nat /\ BufferLen >= Rate

SpongeType == [state : Seq(Byte), pos : 0..(Rate - 1), buffer : [1..BufferLen -> Byte]]

NewSponge == [state |-> <<>>, pos |-> 0, buffer |-> [i \in 1..BufferLen |-> 0]]

(* Mutant of ResetSponge: the lanes are zeroed, the buffer is not emptied. *)
ResetLanesOnly(s) == [state |-> <<>>, pos |-> s.pos, buffer |-> s.buffer]

(* Sha3_512State::reset: everything but the constant rate. *)
ResetSponge(s) == [state |-> <<>>, pos |-> 0, buffer |-> [i \in 1..BufferLen |-> 0]]

(* XOR the Rate \div Word words of a block into the lanes, then permute. *)
XorAndPermute(state, block) == state \o SubSeq(block, 1, (Rate \div Word) * Word)

(* buffer[at .. at + Len(bytes)].copy_from_slice(bytes) *)
CopyInto(buffer, at, bytes) ==
    [i \in DOMAIN buffer |-> IF i > at /\ i <= at + Len(bytes) THEN bytes[i - at] ELSE buffer[i]]

(***************************************************************************)
(* absorb, phase by phase: top up a partly filled buffer and flush it when *)
(* it is full; absorb whole blocks straight from the input; keep the tail. *)
(***************************************************************************)
TopUpLen(s, data) ==
    IF s.pos = 0 THEN 0
    ELSE IF Rate - s.pos <= Len(data) THEN Rate - s.pos
    ELSE Len(data)

(* Mutant of TopUp: a buffer that is full is not flushed. *)
TopUpUnflushed(s, data) ==
    LET n == TopUpLen(s, data)
    IN  [state |-> s.state, pos |-> s.pos + n,
         buffer |-> CopyInto(s.buffer, s.pos, SubSeq(data, 1, n))]

TopUp(s, data) ==
    LET n      == TopUpLen(s, data)
        buffer == CopyInto(s.buffer, s.pos, SubSeq(data, 1, n))
    IN  IF s.pos + n = Rate
        THEN [state |-> XorAndPermute(s.state, buffer), pos |-> 0, buffer |-> buffer]
        ELSE [state |-> s.state, pos |-> s.pos + n, buffer |-> buffer]

WholeBlocks(n) == (n \div Rate) * Rate

AbsorbBlocks(s, data, from) ==
    LET upto == from + WholeBlocks(Len(data) - from)
    IN  [state |-> s.state \o SubSeq(data, from + 1, upto), pos |-> s.pos, buffer |-> s.buffer]

(* Mutant of KeepTail: the tail is copied and pos left as it was. *)
KeepTailUncounted(s, tail) ==
    [state |-> s.state, pos |-> s.pos, buffer |-> CopyInto(s.buffer, 0, tail)]

KeepTail(s, tail) ==
    IF tail = <<>> THEN s
    ELSE [state |-> s.state, pos |-> Len(tail), buffer |-> CopyInto(s.buffer, 0, tail)]

Absorb(s, data) ==
    LET from == TopUpLen(s, data)
        upto == from + WholeBlocks(Len(data) - from)
    IN  KeepTail(AbsorbBlocks(TopUp(s, data), data, from), SubSeq(data, upto + 1, Len(data)))

(* Mutant of PadBuffer: bytes of an earlier block stay behind the domain   *)
(* byte.                                                                   *)
PadBufferUncleared(s) ==
    LET marked == [s.buffer EXCEPT ![s.pos + 1] = SHA3DomainByte]
    IN  [marked EXCEPT ![Rate] = OrHighBit(@)]

(***************************************************************************)
(* finalize pads the buffer in place, absorbs it and squeezes.  It leaves  *)
(* pos, and the bytes below pos, as they were.                             *)
(***************************************************************************)
PadBuffer(s) ==
    LET cleared == [i \in 1..BufferLen |-> IF i > s.pos /\ i <= Rate THEN 0 ELSE s.buffer[i]]
        marked  == [cleared EXCEPT ![s.pos + 1] = SHA3DomainByte]
    IN  [marked EXCEPT ![Rate] = OrHighBit(@)]

(* Mutant of FinalizeSponge: it empties the buffer as well. *)
FinalizeAndEmpty(s) ==
    [state |-> XorAndPermute(s.state, PadBuffer(s)), pos |-> 0, buffer |-> PadBuffer(s)]

FinalizeSponge(s) ==
    [state |-> XorAndPermute(s.state, PadBuffer(s)), pos |-> s.pos, buffer |-> PadBuffer(s)]

(* The 64 bytes finalize returns, read from the lanes. *)
Squeeze(state) == state

(***************************************************************************)
(* The message a sponge stands for: what was absorbed, then what waits.    *)
(***************************************************************************)
MessageOf(s) == s.state \o SubSeq(s.buffer, 1, s.pos)
=============================================================================
