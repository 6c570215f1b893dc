---------------------------- MODULE KeccakBatch ----------------------------
(***************************************************************************)
(* The permutations of simd_parallel.rs: independent states side by side,  *)
(* with a register per lane position that holds that lane of each state.   *)
(* The eight-wide one has rotation and three-input logic as instructions;  *)
(* the four-wide one, for AVX2, builds them from shifts, AND-NOT and XOR.  *)
(***************************************************************************)
EXTENDS KeccakF

CONSTANTS Width,     \* states in a batch (8 and 4 in the code)
          HasAvx512, \* keccak_f1600_x8_avx512, else keccak_f1600_x4_avx2
          Batches    \* the batches of the Inputs that are tried

Member == 1..Width

ASSUME BatchAssumption ==
    Width \in Nat /\ HasAvx512 \in BOOLEAN /\ Batches \subseteq [Member -> Inputs]

BatchRegister == [Member -> Lane]

(* The intrinsics.  A shift by 64 clears the lane. *)
BatchXor(a, b) == [m \in Member |-> SymDiff(a[m], b[m])]

BatchAndNot(a, b) == [m \in Member |-> b[m] \ a[m]]

BatchOr(a, b) == [m \in Member |-> a[m] \cup b[m]]

BatchShiftLeft(a, n) == [m \in Member |-> {bit + n : bit \in {k \in a[m] : k + n < LaneBits}}]

BatchShiftRight(a, n) == [m \in Member |-> {bit - n : bit \in {k \in a[m] : k >= n}}]

(* Mutant of ShiftedRotl: the bits that leave at the top are lost. *)
ShiftedLeft(a, n) == BatchShiftLeft(a, n)

(* rotl of the four-wide permutation. *)
ShiftedRotl(a, n) == BatchOr(BatchShiftLeft(a, n), BatchShiftRight(a, LaneBits - n))

BatchRotate(a, n) ==
    IF HasAvx512 THEN [m \in Member |-> RotateLeft(a[m], n)] ELSE ShiftedRotl(a, n)

BatchParity(reg, x) ==
    BatchXor(BatchXor(reg[x], reg[x + 5]), BatchXor(reg[x + 10], BatchXor(reg[x + 15], reg[x + 20])))

BatchDiffusion(reg, x) ==
    BatchXor(BatchParity(reg, (x + 4) % 5), BatchRotate(BatchParity(reg, (x + 1) % 5), 1))

BatchTheta(reg) == [i \in Pos |-> BatchXor(reg[i], BatchDiffusion(reg, i % 5))]

(* The four-wide code leaves a lane with offset 0 as it is. *)
BatchRhoPi(reg) ==
    [i \in Pos |-> IF ~HasAvx512 /\ RHO(PI(i)) = 0 THEN reg[PI(i)]
                   ELSE BatchRotate(reg[PI(i)], RHO(PI(i)))]

(* Mutant of BatchChiOf: the operands of the AND-NOT change places. *)
BatchChiSwapped(a, b, c) == BatchXor(a, BatchAndNot(c, b))

BatchChiOf(a, b, c) ==
    IF HasAvx512 THEN [m \in Member |-> Ternary(ChiTernaryImm, a[m], b[m], c[m])]
    ELSE BatchXor(a, BatchAndNot(b, c))

BatchChi(b) == [i \in Pos |-> BatchChiOf(b[i], b[InRow(i, 1)], b[InRow(i, 2)])]

BatchIota(reg, rc) == [reg EXCEPT ![0] = BatchXor(@, [m \in Member |-> rc])]

BatchRound(reg, rc) == BatchIota(BatchChi(BatchRhoPi(BatchTheta(reg))), rc)

(* The transposition at the start, and the one at the end, for a member. *)
TransposeIn(states) == [i \in Pos |-> [m \in Member |-> states[m][i]]]

TransposeOut(reg, m) == [i \in Pos |-> reg[i][m]]

VARIABLES inputs, reg, rounds    \* rounds: how many are done

batchVars == <<inputs, rounds, reg>>

BatchInit == inputs \in Batches /\ reg = TransposeIn(inputs) /\ rounds = 0

DoBatchRound ==
    /\ rounds < KeccakRounds
    /\ reg' = BatchRound(reg, RC[rounds + 1])
    /\ rounds' = rounds + 1
    /\ UNCHANGED inputs

BatchCallAgain(ins) ==
    /\ rounds = KeccakRounds
    /\ inputs' = ins /\ reg' = TransposeIn(ins) /\ rounds' = 0

BatchNext == DoBatchRound \/ \E ins \in Batches : BatchCallAgain(ins)

BatchSpec == BatchInit /\ [][BatchNext]_batchVars
-----------------------------------------------------------------------------
BatchTypeOK ==
    /\ inputs \in Batches /\ rounds \in 0..KeccakRounds
    /\ reg \in [Pos -> BatchRegister]

(* Each member of a batch goes, round by round, through the states of the  *)
(* scalar permutation on its own input, whatever the other members hold    *)
(* (simd_parallel.rs, keccak_f1600_x8_avx512 and keccak_f1600_x4_avx2).    *)
ScalarOf(m) == INSTANCE Keccak WITH
    input <- inputs[m], state <- TransposeOut(reg, m), round <- rounds

EachImplementsScalar ==
    /\ \A m \in Member : ScalarOf(m)!KeccakInit
    /\ [][\A m \in Member : ScalarOf(m)!KeccakNext]_batchVars
=============================================================================
