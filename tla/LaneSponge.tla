----------------------------- MODULE LaneSponge -----------------------------
(***************************************************************************)
(* The lanes of Sha3_512State (lib.rs), for the blocks that Sponge only    *)
(* records: what absorb and finalize do to them, and the bytes finalize    *)
(* reads from them.  A lane is the set of the numbers of its bits that are *)
(* 1, so that XOR is symmetric difference.  The permutation is any one.    *)
(***************************************************************************)
EXTENDS Sponge, FiniteSetsExt

CONSTANTS LaneCount,   \* lanes of a state (25 in the code)
          DigestLanes, \* lanes that finalize reads (8 in the code)
          Permute(_)   \* permute, with any of its implementations

ASSUME LaneAssumption ==
    /\ LaneCount \in Nat /\ Rate \div Word <= LaneCount
    /\ DigestLanes \in Nat /\ DigestLanes <= LaneCount

LaneIndex == 0..(LaneCount - 1)

ZeroLanes == [i \in LaneIndex |-> {}]

BitValue == <<1, 2, 4, 8, 16, 32, 64, 128>>

(* The bits of each byte, and u64::from_le_bytes of the i-th word of a block. *)
ByteBits == [byte \in Byte |-> {b \in 0..7 : (byte \div BitValue[b + 1]) % 2 = 1}]

WordAt(block, i) ==
    UNION {{8 * n + b : b \in ByteBits[block[i * Word + n + 1]]} : n \in 0..(Word - 1)}

XorBlock(lanes, block) ==
    [i \in LaneIndex |-> IF i < Rate \div Word THEN SymDiff(lanes[i], WordAt(block, i))
                         ELSE lanes[i]]

AbsorbBlock(lanes, block) == Permute(XorBlock(lanes, block))

Block(bytes, k) == SubSeq(bytes, (k - 1) * Rate + 1, k * Rate)

(* The lanes after the first n blocks of some bytes, one after the other. *)
BlocksInto(lanes, bytes, n) ==
    LET after[k \in 0..n] == IF k = 0 THEN lanes ELSE AbsorbBlock(after[k - 1], Block(bytes, k))
    IN  after[n]

(* The lanes after top-up: they change only if the buffer got full. *)
TopUpLanes(lanes, s, data) ==
    LET n == TopUpLen(s, data)
    IN  IF s.pos + n = Rate
        THEN AbsorbBlock(lanes, CopyInto(s.buffer, s.pos, SubSeq(data, 1, n)))
        ELSE lanes

(* Mutant of AbsorbLanes: the blocks are taken from the start of the input, *)
(* the bytes that topped up the buffer included.                            *)
AbsorbLanesFromStart(lanes, s, data) ==
    BlocksInto(TopUpLanes(lanes, s, data), data, (Len(data) - TopUpLen(s, data)) \div Rate)

(* absorb, on the lanes of the sponge s: the tail leaves them alone. *)
AbsorbLanes(lanes, s, data) ==
    LET n == TopUpLen(s, data)
    IN  BlocksInto(TopUpLanes(lanes, s, data), SubSeq(data, n + 1, Len(data)),
                   (Len(data) - n) \div Rate)

(* finalize, on the lanes. *)
FinalizeLanes(lanes, s) == AbsorbBlock(lanes, PadBuffer(s))

(* The n-th of the bytes u64::to_le_bytes gives, and those of the digest. *)
ByteAt(lane, n) ==
    LET bit(k) == IF 8 * n + k \in lane THEN BitValue[k + 1] ELSE 0
    IN  bit(0) + bit(1) + bit(2) + bit(3) + bit(4) + bit(5) + bit(6) + bit(7)

SqueezeLanes(lanes) ==
    [k \in 1..(DigestLanes * Word) |-> ByteAt(lanes[(k - 1) \div Word], (k - 1) % Word)]

ZeroHash == [k \in 1..(DigestLanes * Word) |-> 0]

(***************************************************************************)
(* What the symbols of Sponge and Padding stand for: the lanes that some   *)
(* whole blocks leave behind, the bytes of a symbolic digest, and the hash *)
(* of a message by its definition, from the padded message in one piece.   *)
(***************************************************************************)
LanesAfter(bytes) == BlocksInto(ZeroLanes, bytes, Len(bytes) \div Rate)

HashBytes(digest) == SqueezeLanes(LanesAfter(digest))

SHA3(msg) == HashBytes(Digest(msg))
=============================================================================
