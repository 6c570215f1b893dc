----------------------------- MODULE KeccakRows -----------------------------
(***************************************************************************)
(* The permutation of simd_avx512.rs: one state in five registers, a row   *)
(* of the 5x5 lanes in each, with three lanes of padding.  Theta and chi   *)
(* shuffle within a register; pi takes each lane of a new row from another *)
(* row by a shuffle and a masked blend per source row.                     *)
(***************************************************************************)
EXTENDS KeccakF

VectorLane == 0..7

Register == [VectorLane -> Lane]

RowIndex == 0..4

(* The intrinsics, by what they do to a register. *)
VXor(a, b) == [k \in VectorLane |-> SymDiff(a[k], b[k])]

VRotate(a, counts) == [k \in VectorLane |-> RotateLeft(a[k], counts[k + 1])]

VRotateBy(a, n) == [k \in VectorLane |-> RotateLeft(a[k], n)]

VPermute(idx, a) == [k \in VectorLane |-> a[idx[k + 1]]]

VBlend(mask, a, b) == [k \in VectorLane |-> IF k \in mask THEN b[k] ELSE a[k]]

VTernary(imm, a, b, c) == [k \in VectorLane |-> Ternary(imm, a[k], b[k], c[k])]

ZeroRegister == [k \in VectorLane |-> {}]

(* The tables. *)
RotRow(y) == << RHO(5 * y), RHO(5 * y + 1), RHO(5 * y + 2), RHO(5 * y + 3), RHO(5 * y + 4),
                0, 0, 0 >>

ThetaMinus1Idx == << 4, 0, 1, 2, 3, 0, 0, 0 >>
ThetaPlus1Idx  == << 1, 2, 3, 4, 0, 0, 0, 0 >>
ChiShift1Idx   == << 1, 2, 3, 4, 0, 0, 0, 0 >>
ChiShift2Idx   == << 2, 3, 4, 0, 1, 0, 0, 0 >>

SourceRow(j) == PI(j) \div 5

SourceLane(j) == PI(j) % 5

PiMask(z, y) == {x \in 0..4 : SourceRow(5 * z + x) = y}

(* Mutant of PiIdx: the lane of the destination, not of the source. *)
PiIdxUnmoved(z, y) == [n \in 1..8 |-> IF n - 1 \in PiMask(z, y) THEN n - 1 ELSE 0]

PiIdx(z, y) ==
    [n \in 1..8 |-> IF n - 1 \in PiMask(z, y) THEN SourceLane(5 * z + n - 1) ELSE 0]

(* A state in registers, and back. *)
Load(s) == [y \in RowIndex |-> [k \in VectorLane |-> IF k < 5 THEN s[5 * y + k] ELSE {}]]

Unload(rows) == [i \in Pos |-> rows[i \div 5][i % 5]]

RowTheta(rows) ==
    LET c == VXor(VXor(VXor(VXor(rows[0], rows[1]), rows[2]), rows[3]), rows[4])
        d == VXor(VPermute(ThetaMinus1Idx, c), VRotateBy(VPermute(ThetaPlus1Idx, c), 1))
    IN  [y \in RowIndex |-> VXor(rows[y], d)]

RowRho(rows) == [y \in RowIndex |-> VRotate(rows[y], RotRow(y))]

(* The accumulator of pi after the source row y. *)
Blended(acc, rows, z, y) == VBlend(PiMask(z, y), acc, VPermute(PiIdx(z, y), rows[y]))

(* Mutant of RowPi: the accumulator starts from the old row, not from zero. *)
RowPiOnto(rows) ==
    [z \in RowIndex |->
        LET acc0 == Blended(rows[z], rows, z, 0)
            acc1 == Blended(acc0, rows, z, 1)
            acc2 == Blended(acc1, rows, z, 2)
            acc3 == Blended(acc2, rows, z, 3)
        IN  Blended(acc3, rows, z, 4)]

RowPi(rows) ==
    [z \in RowIndex |->
        LET acc0 == Blended(ZeroRegister, rows, z, 0)
            acc1 == Blended(acc0, rows, z, 1)
            acc2 == Blended(acc1, rows, z, 2)
            acc3 == Blended(acc2, rows, z, 3)
        IN  Blended(acc3, rows, z, 4)]

RowChi(rows) ==
    [z \in RowIndex |->
        VTernary(ChiTernaryImm, rows[z], VPermute(ChiShift1Idx, rows[z]),
                 VPermute(ChiShift2Idx, rows[z]))]

RowIota(rows, rc) ==
    [rows EXCEPT ![0] = VXor(@, [k \in VectorLane |-> IF k = 0 THEN rc ELSE {}])]

RowRound(rows, rc) == RowIota(RowChi(RowPi(RowRho(RowTheta(rows)))), rc)

VARIABLES input, round, row    \* row: the five registers

rowVars == <<input, round, row>>

RowInit == input \in Inputs /\ row = Load(input) /\ round = 0

DoRowRound ==
    /\ round < KeccakRounds
    /\ row' = RowRound(row, RC[round + 1])
    /\ round' = round + 1
    /\ UNCHANGED input

RowCallAgain(in) ==
    /\ round = KeccakRounds
    /\ input' = in /\ row' = Load(in) /\ round' = 0

RowNext == DoRowRound \/ \E in \in Inputs : RowCallAgain(in)

RowSpec == RowInit /\ [][RowNext]_rowVars
-----------------------------------------------------------------------------
(* Between rounds the three lanes of padding are zero again, though theta  *)
(* and the shuffles write to them (simd_avx512.rs, keccak_f1600_avx512).   *)
PadLanesZero(rows) == \A y \in RowIndex, k \in 5..7 : rows[y][k] = {}

RowTypeOK ==
    /\ input \in Inputs /\ round \in 0..KeccakRounds
    /\ row \in [RowIndex -> Register] /\ PadLanesZero(row)

(* The registers hold, round by round, the state of the scalar permutation *)
(* on the same input, and what is stored back is its result: the shuffles, *)
(* masks and blends move every lane where the scalar code has it, and no   *)
(* lane of padding gets in (simd_avx512.rs, keccak_f1600_avx512).          *)
Scalar == INSTANCE Keccak WITH state <- Unload(row)

ImplementsScalar == Scalar!KeccakSpec

(* What is stored back for the zero state is the published answer, and so  *)
(* the answer of the scalar code it goes along with (keccak.rs,            *)
(* test_keccak_f1600_known_answer).                                        *)
KnownAnswer == Scalar!KnownAnswer
=============================================================================
