------------------------------ MODULE KeccakF ------------------------------
(***************************************************************************)
(* The five steps of a round of Keccak-f[1600], and their tables, as       *)
(* keccak.rs has them: 25 lanes of 64 bits.  A lane is the set of the      *)
(* numbers of its bits that are 1, so that XOR is symmetric difference,    *)
(* b & ~a is set difference and a rotation moves numbers.                  *)
(***************************************************************************)
EXTENDS Integers, FiniteSetsExt

LaneBits == 64

Lane == SUBSET (0..(LaneBits - 1))

Pos == 0..24

State == [Pos -> Lane]

KeccakRounds == 24

RC == <<
    {0}, {1, 7, 15}, {1, 3, 7, 15, 63}, {15, 31, 63}, {0, 1, 3, 7, 15}, {0, 31},
    {0, 7, 15, 31, 63}, {0, 3, 15, 63}, {1, 3, 7}, {3, 7}, {0, 3, 15, 31}, {1, 3, 31},
    {0, 1, 3, 7, 15, 31}, {0, 1, 3, 7, 63}, {0, 3, 7, 15, 63}, {0, 1, 15, 63},
    {1, 15, 63}, {7, 63}, {1, 3, 15}, {1, 3, 31, 63}, {0, 7, 15, 31, 63}, {7, 15, 63},
    {0, 31}, {3, 15, 31, 63} >>

RhoTable == << 0, 1, 62, 28, 27, 36, 44, 6, 55, 20, 3, 10, 43,
               25, 39, 41, 45, 15, 21, 8, 18, 2, 61, 56, 14 >>

PiTable == << 0, 6, 12, 18, 24, 3, 9, 10, 16, 22, 1, 7, 13,
              19, 20, 4, 5, 11, 17, 23, 2, 8, 14, 15, 21 >>

RHO(i) == RhoTable[i + 1]

PI(i) == PiTable[i + 1]

(* Mutant of RotateLeft: the bits at the top do not come back. *)
RotateLeftUnwrapped(v, n) == {bit + n : bit \in v}

RotateLeft(v, n) == {(bit + n) % LaneBits : bit \in v}

(* The column parities c0..c4 and the terms d0..d4. *)
Parity(s, x) ==
    SymDiff(SymDiff(SymDiff(SymDiff(s[x], s[x + 5]), s[x + 10]), s[x + 15]), s[x + 20])

Diffusion(s, x) ==
    SymDiff(Parity(s, (x + 4) % 5), RotateLeft(Parity(s, (x + 1) % 5), 1))

Theta(s) == [i \in Pos |-> SymDiff(s[i], Diffusion(s, i % 5))]

RhoPi(s) == [i \in Pos |-> RotateLeft(s[PI(i)], RHO(PI(i)))]

(* The lane k places to the right of lane i, in its row of five. *)
InRow(i, k) == 5 * (i \div 5) + (((i % 5) + k) % 5)

Chi(b) == [i \in Pos |-> SymDiff(b[i], b[InRow(i, 2)] \ b[InRow(i, 1)])]

Iota(s, rc) == [s EXCEPT ![0] = SymDiff(@, rc)]

Round(s, rc) == Iota(Chi(RhoPi(Theta(s))), rc)

(* keccak_f1600 as a function: the state after each number of rounds, and  *)
(* after all of them.                                                      *)
After(s) ==
    LET after[n \in 0..KeccakRounds] == IF n = 0 THEN s ELSE Round(after[n - 1], RC[n])
    IN  after

KeccakF1600(s) == After(s)[KeccakRounds]

(* The ternarylogic instruction: each bit of the result is the bit of the  *)
(* immediate that the three operand bits number, 4a + 2b + c.              *)
Bit(v, n) == IF n \in v THEN 1 ELSE 0

Ternary(imm, a, b, c) ==
    {n \in 0..(LaneBits - 1) : 4 * Bit(a, n) + 2 * Bit(b, n) + Bit(c, n) \in imm}

(* CHI_TERNARY_IMM, 0xD2. *)
ChiTernaryImm == {1, 4, 6, 7}

(* The [0u64; 25] of a new or reset hasher. *)
ZeroState == [i \in Pos |-> {}]

CONSTANT Inputs    \* the states the permutation is called with

ASSUME InputAssumption == Inputs \subseteq State
=============================================================================
