---------------------------- MODULE KeccakProofs ----------------------------
(***************************************************************************)
(* Theorems about KeccakRows and KeccakBatch: the AVX-512 permutation of a *)
(* single state, and the ones of a batch with either set of instructions,  *)
(* compute what the scalar one does, for every state.  Each step of a      *)
(* round on registers is shown to be the scalar step on the lanes taken    *)
(* out of them.  The two models share the steps and tables of KeccakF, and *)
(* here the lemmas about those.                                            *)
(***************************************************************************)
EXTENDS KeccakPaths, WellFoundedInduction, TLAPS

LEMMA TableRanges ==
  /\ \A i \in Pos : PI(i) \in Pos
  /\ \A i \in Pos : RHO(i) \in 0..63
<1>1. \A i \in Pos : PI(i) \in Pos
  BY DEF Pos, PI, PiTable
<1>2. \A i \in Pos : RHO(i) \in 0..63
  BY DEF Pos, RHO, RhoTable
<1>3. QED
  BY <1>1, <1>2

LEMMA RoundConstants ==
  \A n \in 1..KeccakRounds : RC[n] \in Lane
  BY DEF KeccakRounds, RC, Lane, LaneBits

LEMMA LaneOps ==
  ASSUME NEW a \in Lane, NEW b \in Lane
  PROVE  /\ SymDiff(a, b) \in Lane
         /\ a \ b \in Lane
         /\ \A n \in Nat : RotateLeft(a, n) \in Lane
<1>1. SymDiff(a, b) \in Lane /\ a \ b \in Lane
  BY DEF Lane, SymDiff
<1>2. \A n \in Nat : RotateLeft(a, n) \in Lane
  BY DEF Lane, RotateLeft, LaneBits
<1>3. QED
  BY <1>1, <1>2

(* The immediate 0xD2 is chi. *)
LEMMA TernaryIsChi ==
  ASSUME NEW a \in Lane, NEW b \in Lane, NEW c \in Lane
  PROVE  Ternary(ChiTernaryImm, a, b, c) = SymDiff(a, c \ b)
<1>1. ASSUME NEW n \in 0..(LaneBits - 1)
      PROVE  n \in Ternary(ChiTernaryImm, a, b, c) <=> n \in SymDiff(a, c \ b)
  <2>1. n \in SymDiff(a, c \ b) <=> (n \in a /\ ~(n \in c /\ n \notin b))
                                      \/ (n \notin a /\ n \in c /\ n \notin b)
    BY DEF SymDiff
  <2>2. n \in Ternary(ChiTernaryImm, a, b, c)
          <=> 4 * Bit(a, n) + 2 * Bit(b, n) + Bit(c, n) \in ChiTernaryImm
    BY DEF Ternary
  <2>3. 4 * Bit(a, n) + 2 * Bit(b, n) + Bit(c, n) \in ChiTernaryImm
          <=> (n \in a /\ ~(n \in c /\ n \notin b))
                \/ (n \notin a /\ n \in c /\ n \notin b)
    BY DEF Bit, ChiTernaryImm
  <2>4. QED
    BY <2>1, <2>2, <2>3
<1>2. /\ Ternary(ChiTernaryImm, a, b, c) \subseteq 0..(LaneBits - 1)
      /\ SymDiff(a, c \ b) \subseteq 0..(LaneBits - 1)
  BY DEF Ternary, SymDiff, Lane
<1>3. QED
  BY <1>1, <1>2

-----------------------------------------------------------------------------
(* One state in five registers (KeccakRows). *)

Rows == [RowIndex -> Register]

(* Where lane i of a state lies in the registers. *)
LEMMA Places ==
  /\ \A i \in Pos : /\ i \div 5 \in RowIndex /\ i % 5 \in 0..4
                    /\ i = 5 * (i \div 5) + (i % 5)
  /\ \A y \in RowIndex, x \in 0..4 : /\ 5 * y + x \in Pos
                                     /\ (5 * y + x) \div 5 = y /\ (5 * y + x) % 5 = x
  BY DEF Pos, RowIndex

LEMMA Unloaded ==
  ASSUME NEW rows \in Rows
  PROVE  /\ Unload(rows) \in State
         /\ \A y \in RowIndex, x \in 0..4 : Unload(rows)[5 * y + x] = rows[y][x]
<1>1. \A i \in Pos : Unload(rows)[i] = rows[i \div 5][i % 5]
  BY DEF Unload
<1>2. \A y \in RowIndex, x \in 0..4 : rows[y][x] \in Lane
  BY DEF Rows, Register, VectorLane
<1>3. Unload(rows) \in State
  BY <1>2, Places DEF Unload, State
<1>4. QED
  BY <1>1, <1>3, Places

LEMMA LoadedRows ==
  ASSUME NEW s \in State
  PROVE  Load(s) \in Rows /\ Unload(Load(s)) = s /\ PadLanesZero(Load(s))
<1>1. \A y \in RowIndex, k \in VectorLane :
         Load(s)[y][k] = IF k < 5 THEN s[5 * y + k] ELSE {}
  BY DEF Load
<1>2. \A y \in RowIndex, k \in VectorLane : (IF k < 5 THEN s[5 * y + k] ELSE {}) \in Lane
  <2> SUFFICES ASSUME NEW y \in RowIndex, NEW k \in VectorLane
               PROVE  (IF k < 5 THEN s[5 * y + k] ELSE {}) \in Lane
    OBVIOUS
  <2>1. CASE k < 5
    <3>1. 5 * y + k \in Pos
      BY <2>1, Places DEF VectorLane
    <3>2. QED
      BY <2>1, <3>1 DEF State
  <2>2. CASE ~(k < 5)
    BY <2>2 DEF Lane
  <2>3. QED
    BY <2>1, <2>2
<1>3. Load(s) \in Rows
  BY <1>2 DEF Load, Rows, Register
<1>4. \A i \in Pos : Unload(Load(s))[i] = s[i]
  <2> TAKE i \in Pos
  <2>1. /\ i \div 5 \in RowIndex /\ i % 5 \in VectorLane /\ i % 5 < 5
        /\ i = 5 * (i \div 5) + (i % 5)
    BY Places DEF VectorLane
  <2>2. Unload(Load(s))[i] = Load(s)[i \div 5][i % 5]
    BY DEF Unload
  <2>3. QED
    BY <1>1, <2>1, <2>2
<1>5. PadLanesZero(Load(s))
  BY <1>1 DEF PadLanesZero, VectorLane
<1>6. QED
  BY <1>3, <1>4, <1>5 DEF Unload, State

-----------------------------------------------------------------------------
(* The steps of a round. *)

LEMMA ThetaOnRows ==
  ASSUME NEW rows \in Rows
  PROVE  RowTheta(rows) \in Rows /\ Unload(RowTheta(rows)) = Theta(Unload(rows))
<1> DEFINE u == Unload(rows)
           c == VXor(VXor(VXor(VXor(rows[0], rows[1]), rows[2]), rows[3]), rows[4])
           d == VXor(VPermute(ThetaMinus1Idx, c), VRotateBy(VPermute(ThetaPlus1Idx, c), 1))
<1>1. rows[0] \in Register /\ rows[1] \in Register /\ rows[2] \in Register
      /\ rows[3] \in Register /\ rows[4] \in Register
  BY DEF Rows, RowIndex
<1>2. \A a, b \in Register : VXor(a, b) \in Register
  BY LaneOps DEF VXor, Register
<1>3. c \in Register
  BY <1>1, <1>2
<1>4. \A k \in VectorLane : c[k] =
         SymDiff(SymDiff(SymDiff(SymDiff(rows[0][k], rows[1][k]), rows[2][k]), rows[3][k]),
                 rows[4][k])
  BY DEF VXor
<1>5. \A x \in 0..4 : c[x] = Parity(u, x)
  <2> TAKE x \in 0..4
  <2>1. /\ u[x] = rows[0][x] /\ u[x + 5] = rows[1][x] /\ u[x + 10] = rows[2][x]
        /\ u[x + 15] = rows[3][x] /\ u[x + 20] = rows[4][x]
    <3>1. /\ u[5 * 0 + x] = rows[0][x] /\ u[5 * 1 + x] = rows[1][x]
          /\ u[5 * 2 + x] = rows[2][x] /\ u[5 * 3 + x] = rows[3][x]
          /\ u[5 * 4 + x] = rows[4][x]
      BY Unloaded DEF RowIndex
    <3>2. /\ 5 * 0 + x = x /\ 5 * 1 + x = x + 5 /\ 5 * 2 + x = x + 10
          /\ 5 * 3 + x = x + 15 /\ 5 * 4 + x = x + 20
      OBVIOUS
    <3>3. QED
      BY <3>1, <3>2
  <2>2. x \in VectorLane
    BY DEF VectorLane
  <2>3. QED
    BY <1>4, <2>1, <2>2 DEF Parity
<1> HIDE DEF c
<1>6. \A x \in 0..4 : ThetaMinus1Idx[x + 1] = (x + 4) % 5 /\ ThetaPlus1Idx[x + 1] = (x + 1) % 5
  BY DEF ThetaMinus1Idx, ThetaPlus1Idx
<1>7. \A k \in VectorLane : ThetaMinus1Idx[k + 1] \in VectorLane
                              /\ ThetaPlus1Idx[k + 1] \in VectorLane
  BY DEF ThetaMinus1Idx, ThetaPlus1Idx, VectorLane
<1>8. \A k \in VectorLane :
         d[k] = SymDiff(c[ThetaMinus1Idx[k + 1]], RotateLeft(c[ThetaPlus1Idx[k + 1]], 1))
  BY DEF VXor, VPermute, VRotateBy
<1>9. d \in Register
  <2>1. \A k \in VectorLane :
           SymDiff(c[ThetaMinus1Idx[k + 1]], RotateLeft(c[ThetaPlus1Idx[k + 1]], 1)) \in Lane
    BY <1>3, <1>7, LaneOps DEF Register
  <2>2. QED
    BY <1>8, <2>1 DEF Register, VXor
<1>10. \A x \in 0..4 : d[x] = Diffusion(u, x)
  <2> TAKE x \in 0..4
  <2>1. x \in VectorLane /\ (x + 4) % 5 \in 0..4 /\ (x + 1) % 5 \in 0..4
    BY DEF VectorLane
  <2>2. d[x] = SymDiff(c[(x + 4) % 5], RotateLeft(c[(x + 1) % 5], 1))
    BY <1>6, <1>8, <2>1
  <2>3. QED
    BY <1>5, <2>1, <2>2 DEF Diffusion
<1> HIDE DEF d
<1>11. RowTheta(rows) = [y \in RowIndex |-> VXor(rows[y], d)]
  BY DEF RowTheta, d, c
<1>12. RowTheta(rows) \in Rows
  BY <1>2, <1>9, <1>11 DEF Rows
<1>13. \A i \in Pos : Unload(RowTheta(rows))[i] = SymDiff(u[i], Diffusion(u, i % 5))
  <2> TAKE i \in Pos
  <2>1. i \div 5 \in RowIndex /\ i % 5 \in 0..4 /\ i % 5 \in VectorLane
    BY Places DEF VectorLane
  <2>2. Unload(RowTheta(rows))[i] = VXor(rows[i \div 5], d)[i % 5]
    BY <1>11, <2>1 DEF Unload
  <2>3. VXor(rows[i \div 5], d)[i % 5] = SymDiff(rows[i \div 5][i % 5], d[i % 5])
    BY <2>1 DEF VXor
  <2>4. QED
    BY <1>10, <2>1, <2>2, <2>3 DEF Unload
<1>14. QED
  BY <1>12, <1>13 DEF Unload, Theta

LEMMA RhoPiOnRows ==
  ASSUME NEW rows \in Rows
  PROVE  /\ RowPi(RowRho(rows)) \in Rows
         /\ Unload(RowPi(RowRho(rows))) = RhoPi(Unload(rows))
         /\ PadLanesZero(RowPi(RowRho(rows)))
<1> DEFINE u == Unload(rows)
           rot == RowRho(rows)
           cand(z, y) == VPermute(PiIdx(z, y), rot[y])
<1>1. \A y \in RowIndex, k \in VectorLane :
         rot[y][k] = RotateLeft(rows[y][k], RotRow(y)[k + 1])
  BY DEF RowRho, VRotate
<1>2. \A y \in RowIndex, k \in VectorLane : RotRow(y)[k + 1] \in Nat
  <2> TAKE y \in RowIndex, k \in VectorLane
  <2>1. /\ RHO(5 * y) \in Nat /\ RHO(5 * y + 1) \in Nat /\ RHO(5 * y + 2) \in Nat
        /\ RHO(5 * y + 3) \in Nat /\ RHO(5 * y + 4) \in Nat
    BY TableRanges DEF RowIndex, Pos
  <2>2. QED
    BY <2>1 DEF RotRow, VectorLane
<1>3. \A y \in RowIndex, x \in 0..4 : RotRow(y)[x + 1] = RHO(5 * y + x)
  BY DEF RotRow, RowIndex
<1>4. \A y \in RowIndex, k \in VectorLane : rot[y][k] \in Lane
  <2> TAKE y \in RowIndex, k \in VectorLane
  <2>1. rows[y][k] \in Lane
    BY DEF Rows, Register
  <2>2. \A n \in Nat : RotateLeft(rows[y][k], n) \in Lane
    BY <2>1, LaneOps
  <2> HIDE DEF rot
  <2>3. QED
    BY <1>1, <1>2, <2>2
<1>5. \A j \in Pos : rot[j \div 5][j % 5] = RotateLeft(u[j], RHO(j))
  <2> TAKE j \in Pos
  <2>1. /\ j \div 5 \in RowIndex /\ j % 5 \in 0..4 /\ j % 5 \in VectorLane
        /\ 5 * (j \div 5) + (j % 5) = j
    BY Places DEF VectorLane
  <2>2. QED
    BY <1>1, <1>3, <2>1 DEF Unload
<1> HIDE DEF rot
<1>6. \A z, y \in RowIndex, k \in VectorLane :
         /\ PiIdx(z, y)[k + 1] \in VectorLane
         /\ k \in PiMask(z, y) => PiIdx(z, y)[k + 1] = PI(5 * z + k) % 5
  <2> TAKE z, y \in RowIndex, k \in VectorLane
  <2>1. k + 1 \in 1..8 /\ (k + 1) - 1 = k /\ 5 * z + (k + 1) - 1 = 5 * z + k
    BY DEF VectorLane, RowIndex
  <2>2. PiIdx(z, y)[k + 1] = IF k \in PiMask(z, y) THEN SourceLane(5 * z + k) ELSE 0
    BY <2>1 DEF PiIdx
  <2>3. k \in PiMask(z, y) => PI(5 * z + k) \in Pos
    BY Places, TableRanges DEF PiMask
  <2>4. k \in PiMask(z, y) => SourceLane(5 * z + k) \in VectorLane
    BY <2>3, Places DEF SourceLane, VectorLane
  <2>5. QED
    BY <2>2, <2>4 DEF SourceLane, VectorLane
<1>7. \A z, y \in RowIndex, k \in VectorLane : cand(z, y)[k] = rot[y][PiIdx(z, y)[k + 1]]
  BY DEF VPermute
<1>8. \A z, y \in RowIndex, k \in VectorLane : cand(z, y)[k] \in Lane
  BY <1>4, <1>6, <1>7
<1>9. \A z \in RowIndex, k \in VectorLane : RowPi(rot)[z][k] =
         IF k \in PiMask(z, 4) THEN cand(z, 4)[k]
         ELSE IF k \in PiMask(z, 3) THEN cand(z, 3)[k]
         ELSE IF k \in PiMask(z, 2) THEN cand(z, 2)[k]
         ELSE IF k \in PiMask(z, 1) THEN cand(z, 1)[k]
         ELSE IF k \in PiMask(z, 0) THEN cand(z, 0)[k]
         ELSE {}
  BY DEF RowPi, Blended, VBlend, ZeroRegister
<1> HIDE DEF cand
<1>10. RowPi(rot) \in Rows
  <2>1. \A z \in RowIndex, k \in VectorLane : RowPi(rot)[z][k] \in Lane
    <3> TAKE z \in RowIndex, k \in VectorLane
    <3>1. {} \in Lane
      BY DEF Lane
    <3>2. \A y \in 0..4 : cand(z, y)[k] \in Lane
      BY <1>8 DEF RowIndex
    <3>3. QED
      BY <1>9, <3>1, <3>2
  <2>2. RowPi(rot) = [z \in RowIndex |-> RowPi(rot)[z]]
    BY DEF RowPi
  <2>3. \A z \in RowIndex : RowPi(rot)[z] = [k \in VectorLane |-> RowPi(rot)[z][k]]
    BY DEF RowPi, Blended, VBlend
  <2>4. QED
    BY <2>1, <2>2, <2>3 DEF Rows, Register
<1>11. \A z \in RowIndex, x \in 0..4 :
          RowPi(rot)[z][x] = RotateLeft(u[PI(5 * z + x)], RHO(PI(5 * z + x)))
  <2> TAKE z \in RowIndex, x \in 0..4
  <2> DEFINE j == PI(5 * z + x)
  <2>1. j \in Pos
    BY Places, TableRanges
  <2>2. j \div 5 \in RowIndex /\ j \div 5 \in 0..4 /\ x \in VectorLane
    BY <2>1, Places DEF VectorLane, RowIndex
  <2>3. \A y \in RowIndex : x \in PiMask(z, y) <=> j \div 5 = y
    BY DEF PiMask, SourceRow
  <2> HIDE DEF j
  <2>4. RowPi(rot)[z][x] = cand(z, j \div 5)[x]
    BY <1>9, <2>2, <2>3 DEF RowIndex
  <2>5. PiIdx(z, j \div 5)[x + 1] = j % 5
    BY <1>6, <2>2, <2>3 DEF j
  <2>6. cand(z, j \div 5)[x] = rot[j \div 5][j % 5]
    BY <1>7, <2>2, <2>5
  <2>7. QED
    BY <1>5, <2>1, <2>4, <2>6 DEF j
<1>12. \A i \in Pos : Unload(RowPi(rot))[i] = RotateLeft(u[PI(i)], RHO(PI(i)))
  <2> TAKE i \in Pos
  <2>1. i \div 5 \in RowIndex /\ i % 5 \in 0..4 /\ i = 5 * (i \div 5) + (i % 5)
    BY Places
  <2>2. QED
    BY <1>11, <2>1 DEF Unload
<1>13. PadLanesZero(RowPi(rot))
  <2> SUFFICES ASSUME NEW z \in RowIndex, NEW k \in 5..7
               PROVE  RowPi(rot)[z][k] = {}
    BY DEF PadLanesZero
  <2>1. k \in VectorLane /\ \A y : k \notin PiMask(z, y)
    BY DEF VectorLane, PiMask
  <2>2. QED
    BY <1>9, <2>1
<1>14. QED
  BY <1>10, <1>12, <1>13 DEF Unload, RhoPi, rot

LEMMA ChiOnRows ==
  ASSUME NEW rows \in Rows
  PROVE  /\ RowChi(rows) \in Rows /\ Unload(RowChi(rows)) = Chi(Unload(rows))
         /\ PadLanesZero(rows) => PadLanesZero(RowChi(rows))
<1> DEFINE u == Unload(rows)
<1>1. \A k \in VectorLane : ChiShift1Idx[k + 1] \in VectorLane
                              /\ ChiShift2Idx[k + 1] \in VectorLane
  BY DEF ChiShift1Idx, ChiShift2Idx, VectorLane
<1>2. \A x \in 0..4 : ChiShift1Idx[x + 1] = (x + 1) % 5 /\ ChiShift2Idx[x + 1] = (x + 2) % 5
  BY DEF ChiShift1Idx, ChiShift2Idx
<1>3. \A y \in RowIndex, k \in VectorLane : rows[y][k] \in Lane
  BY DEF Rows, Register
<1>4. \A y \in RowIndex, k \in VectorLane : RowChi(rows)[y][k] =
         SymDiff(rows[y][k], rows[y][ChiShift2Idx[k + 1]] \ rows[y][ChiShift1Idx[k + 1]])
  <2> TAKE y \in RowIndex, k \in VectorLane
  <2>1. RowChi(rows)[y][k] = Ternary(ChiTernaryImm, rows[y][k],
           rows[y][ChiShift1Idx[k + 1]], rows[y][ChiShift2Idx[k + 1]])
    BY DEF RowChi, VTernary, VPermute
  <2>2. QED
    BY <1>1, <1>3, <2>1, TernaryIsChi
<1>5. RowChi(rows) \in Rows
  <2>1. \A y \in RowIndex, k \in VectorLane : RowChi(rows)[y][k] \in Lane
    <3> TAKE y \in RowIndex, k \in VectorLane
    <3> DEFINE a == rows[y][ChiShift1Idx[k + 1]]
               b == rows[y][ChiShift2Idx[k + 1]]
    <3>1. rows[y][k] \in Lane /\ a \in Lane /\ b \in Lane
      BY <1>1, <1>3
    <3>2. RowChi(rows)[y][k] = SymDiff(rows[y][k], b \ a)
      BY <1>4
    <3> HIDE DEF a, b
    <3>3. b \ a \in Lane
      BY <3>1, LaneOps
    <3>4. QED
      BY <3>1, <3>2, <3>3, LaneOps
  <2>2. /\ RowChi(rows) = [z \in RowIndex |-> RowChi(rows)[z]]
        /\ \A z \in RowIndex : RowChi(rows)[z] = [k \in VectorLane |-> RowChi(rows)[z][k]]
    BY DEF RowChi, VTernary
  <2>3. QED
    BY <2>1, <2>2 DEF Rows, Register
<1>6. \A i \in Pos : Unload(RowChi(rows))[i] = SymDiff(u[i], u[InRow(i, 2)] \ u[InRow(i, 1)])
  <2> TAKE i \in Pos
  <2> DEFINE y == i \div 5
             x == i % 5
  <2>1. y \in RowIndex /\ x \in 0..4 /\ x \in VectorLane
        /\ (x + 1) % 5 \in 0..4 /\ (x + 2) % 5 \in 0..4
    BY Places DEF VectorLane
  <2>2. u[InRow(i, 1)] = rows[y][(x + 1) % 5] /\ u[InRow(i, 2)] = rows[y][(x + 2) % 5]
    BY <2>1, Unloaded DEF InRow
  <2>3. Unload(RowChi(rows))[i] = RowChi(rows)[y][x] /\ u[i] = rows[y][x]
    BY DEF Unload
  <2> HIDE DEF x, y, u
  <2>4. QED
    BY <1>2, <1>4, <2>1, <2>2, <2>3
<1>7. ASSUME PadLanesZero(rows), NEW y \in RowIndex, NEW k \in 5..7
      PROVE  RowChi(rows)[y][k] = {}
  <2>1. k \in VectorLane /\ ChiShift1Idx[k + 1] = 0 /\ ChiShift2Idx[k + 1] = 0
    BY DEF VectorLane, ChiShift1Idx, ChiShift2Idx
  <2>2. rows[y][k] = {}
    BY <1>7 DEF PadLanesZero
  <2>3. RowChi(rows)[y][k] = SymDiff({}, rows[y][0] \ rows[y][0])
    BY <1>4, <2>1, <2>2
  <2>4. QED
    BY <2>3 DEF SymDiff
<1>8. QED
  BY <1>5, <1>6, <1>7 DEF Unload, Chi, PadLanesZero

LEMMA IotaOnRows ==
  ASSUME NEW rows \in Rows, NEW rc \in Lane
  PROVE  /\ RowIota(rows, rc) \in Rows /\ Unload(RowIota(rows, rc)) = Iota(Unload(rows), rc)
         /\ PadLanesZero(rows) => PadLanesZero(RowIota(rows, rc))
<1> DEFINE first == VXor(rows[0], [k \in VectorLane |-> IF k = 0 THEN rc ELSE {}])
           u == Unload(rows)
<1>1. \A y \in RowIndex, k \in VectorLane : rows[y][k] \in Lane
  BY DEF Rows, Register
<1>2. \A k \in VectorLane : first[k] = SymDiff(rows[0][k], IF k = 0 THEN rc ELSE {})
  BY DEF VXor
<1>3. /\ first[0] = SymDiff(rows[0][0], rc)
      /\ \A k \in VectorLane : k # 0 => first[k] = rows[0][k]
  BY <1>2 DEF VectorLane, SymDiff
<1>4. 0 \in RowIndex /\ 0 \in VectorLane /\ 0 \in Pos
  BY DEF RowIndex, VectorLane, Pos
<1>5. first \in Register
  <2>1. \A k \in VectorLane : first[k] \in Lane
    BY <1>1, <1>3, <1>4, LaneOps
  <2>2. QED
    BY <2>1 DEF Register, VXor
<1> HIDE DEF first
<1>6. RowIota(rows, rc) = [rows EXCEPT ![0] = first]
  BY DEF RowIota, first
<1>7. RowIota(rows, rc) \in Rows
  BY <1>5, <1>6 DEF Rows
<1>8. \A i \in Pos : Unload(RowIota(rows, rc))[i] = IF i = 0 THEN SymDiff(u[0], rc) ELSE u[i]
  <2> TAKE i \in Pos
  <2>1. /\ i \div 5 \in RowIndex /\ i % 5 \in VectorLane /\ 0 \div 5 = 0 /\ 0 % 5 = 0
        /\ i \div 5 = 0 /\ i % 5 = 0 => i = 0
    BY Places DEF VectorLane
  <2>2. /\ Unload(RowIota(rows, rc))[i] =
              (IF i \div 5 = 0 THEN first ELSE rows[i \div 5])[i % 5]
        /\ u[i] = rows[i \div 5][i % 5] /\ u[0] = rows[0][0]
    BY <1>4, <1>6, <2>1 DEF Unload, Rows
  <2>3. QED
    BY <1>3, <2>1, <2>2
<1>9. ASSUME PadLanesZero(rows), NEW y \in RowIndex, NEW k \in 5..7
      PROVE  RowIota(rows, rc)[y][k] = {}
  <2>1. k \in VectorLane /\ k # 0
    BY DEF VectorLane
  <2>2. RowIota(rows, rc)[y] = IF y = 0 THEN first ELSE rows[y]
    BY <1>6 DEF Rows
  <2>3. rows[y][k] = {}
    BY <1>9 DEF PadLanesZero
  <2>4. QED
    BY <1>3, <2>1, <2>2, <2>3
<1>10. QED
  BY <1>7, <1>8, <1>9 DEF Unload, Iota, PadLanesZero

(* A round on the registers is a round on the lanes they hold.            *)
LEMMA RoundOnRows ==
  ASSUME NEW rows \in Rows, NEW rc \in Lane
  PROVE  /\ RowRound(rows, rc) \in Rows /\ PadLanesZero(RowRound(rows, rc))
         /\ Unload(RowRound(rows, rc)) = Round(Unload(rows), rc)
<1> DEFINE a == RowTheta(rows)
           b == RowPi(RowRho(a))
           c == RowChi(b)
<1>1. a \in Rows /\ Unload(a) = Theta(Unload(rows))
  BY ThetaOnRows
<1> HIDE DEF a
<1>2. b \in Rows /\ Unload(b) = RhoPi(Unload(a)) /\ PadLanesZero(b)
  BY <1>1, RhoPiOnRows
<1> HIDE DEF b
<1>3. c \in Rows /\ Unload(c) = Chi(Unload(b)) /\ PadLanesZero(c)
  BY <1>2, ChiOnRows
<1> HIDE DEF c
<1>4. /\ RowIota(c, rc) \in Rows /\ PadLanesZero(RowIota(c, rc))
      /\ Unload(RowIota(c, rc)) = Iota(Unload(c), rc)
  BY <1>3, IotaOnRows
<1>5. QED
  BY <1>1, <1>2, <1>3, <1>4 DEF RowRound, Round, a, b, c

-----------------------------------------------------------------------------
(* The registers hold lanes of 64 bits throughout, and zeros in the lanes  *)
(* of padding between rounds (simd_avx512.rs, keccak_f1600_avx512).        *)
THEOREM RowTypeCorrect == RowSpec => []RowTypeOK
<1>1. RowInit => RowTypeOK
  BY InputAssumption, LoadedRows DEF RowInit, RowTypeOK, Rows, KeccakRounds
<1>2. RowTypeOK /\ [RowNext]_rowVars => RowTypeOK'
  <2> SUFFICES ASSUME RowTypeOK, [RowNext]_rowVars
               PROVE  RowTypeOK'
    OBVIOUS
  <2>1. CASE DoRowRound
    <3>1. round + 1 \in 1..KeccakRounds /\ RC[round + 1] \in Lane
      BY <2>1, RoundConstants DEF RowTypeOK, DoRowRound, KeccakRounds
    <3>2. row' \in Rows /\ PadLanesZero(row')
      BY <2>1, <3>1, RoundOnRows DEF RowTypeOK, DoRowRound, Rows
    <3>3. QED
      BY <2>1, <3>1, <3>2 DEF RowTypeOK, DoRowRound, Rows, KeccakRounds, PadLanesZero
  <2>2. ASSUME NEW in \in Inputs, RowCallAgain(in)
        PROVE  RowTypeOK'
    BY <2>2, InputAssumption, LoadedRows
    DEF RowTypeOK, RowCallAgain, Rows, KeccakRounds, PadLanesZero
  <2>3. CASE UNCHANGED rowVars
    BY <2>3 DEF RowTypeOK, rowVars, PadLanesZero
  <2>4. QED
    BY <2>1, <2>2, <2>3 DEF RowNext
<1>3. QED
  BY <1>1, <1>2, PTL DEF RowSpec

(* The scalar permutation's steps are the ones of KeccakF. *)
LEMMA ScalarRound ==
  /\ Scalar!KeccakRounds = KeccakRounds
  /\ Scalar!RC = RC
  /\ \A s, rc : Scalar!Round(s, rc) = Round(s, rc)
<1>1. Scalar!KeccakRounds = KeccakRounds /\ Scalar!RC = RC
  BY DEF Scalar!KeccakRounds, KeccakRounds, Scalar!RC, RC
<1>2. \A a, b : Scalar!SymDiff(a, b) = SymDiff(a, b)
  BY DEF Scalar!SymDiff, SymDiff
<1>3. \A v, n : Scalar!RotateLeft(v, n) = RotateLeft(v, n)
  BY DEF Scalar!RotateLeft, RotateLeft, Scalar!LaneBits, LaneBits
<1>4. \A s : Scalar!Theta(s) = Theta(s)
  <2>1. \A s, x : Scalar!Parity(s, x) = Parity(s, x)
    BY <1>2 DEF Scalar!Parity, Parity
  <2>2. \A s, x : Scalar!Diffusion(s, x) = Diffusion(s, x)
    BY <1>2, <1>3, <2>1 DEF Scalar!Diffusion, Diffusion
  <2>3. QED
    BY <1>2, <2>2 DEF Scalar!Theta, Theta, Scalar!Pos, Pos
<1>5. \A s : Scalar!RhoPi(s) = RhoPi(s)
  BY <1>3 DEF Scalar!RhoPi, RhoPi, Scalar!Pos, Pos, Scalar!PI, PI, Scalar!RHO, RHO,
              Scalar!PiTable, PiTable, Scalar!RhoTable, RhoTable
<1>6. \A s : Scalar!Chi(s) = Chi(s)
  BY <1>2 DEF Scalar!Chi, Chi, Scalar!Pos, Pos, Scalar!InRow, InRow
<1>7. \A s, rc : Scalar!Iota(s, rc) = Iota(s, rc)
  BY <1>2 DEF Scalar!Iota, Iota
<1>8. QED
  BY <1>1, <1>4, <1>5, <1>6, <1>7 DEF Scalar!Round, Round

(* For every input the registers hold, round by round, what the scalar     *)
(* permutation computes (simd_avx512.rs, keccak_f1600_avx512).             *)
THEOREM ImplementsKeccak == RowSpec => ImplementsScalar
<1>1. RowInit => Scalar!KeccakInit
  BY InputAssumption, LoadedRows DEF RowInit, Scalar!KeccakInit
<1>2. RowTypeOK /\ [RowNext]_rowVars => [Scalar!KeccakNext]_(Scalar!keccakVars)
  <2> SUFFICES ASSUME RowTypeOK, [RowNext]_rowVars
               PROVE  [Scalar!KeccakNext]_(Scalar!keccakVars)
    OBVIOUS
  <2>1. CASE DoRowRound
    <3>1. RC[round + 1] \in Lane
      BY <2>1, RoundConstants DEF RowTypeOK, DoRowRound, KeccakRounds
    <3>2. Unload(row') = Round(Unload(row), RC[round + 1])
      BY <2>1, <3>1, RoundOnRows DEF RowTypeOK, DoRowRound, Rows
    <3>3. Scalar!DoRound
      BY <2>1, <3>2, ScalarRound DEF DoRowRound, Scalar!DoRound
    <3>4. QED
      BY <3>3 DEF Scalar!KeccakNext
  <2>2. ASSUME NEW in \in Inputs, RowCallAgain(in)
        PROVE  Scalar!KeccakNext
    <3>1. Unload(row') = in
      BY <2>2, InputAssumption, LoadedRows DEF RowCallAgain
    <3>2. QED
      BY <2>2, <3>1, ScalarRound DEF RowCallAgain, Scalar!CallAgain, Scalar!KeccakNext
  <2>3. CASE UNCHANGED rowVars
    BY <2>3 DEF rowVars, Scalar!keccakVars
  <2>4. QED
    BY <2>1, <2>2, <2>3 DEF RowNext
<1>3. QED
  BY <1>1, <1>2, RowTypeCorrect, PTL DEF RowSpec, ImplementsScalar, Scalar!KeccakSpec

-----------------------------------------------------------------------------
(* A batch: a column of the registers, the lanes of one member, is what *)
(* TransposeOut takes out of them (KeccakBatch).                         *)

Registers == [Pos -> BatchRegister]

(* XOR is associative: the two ways of folding a column are one.           *)
LEMMA ColumnFold ==
  ASSUME NEW a, NEW b, NEW c, NEW d, NEW e
  PROVE  SymDiff(SymDiff(a, b), SymDiff(c, SymDiff(d, e)))
           = SymDiff(SymDiff(SymDiff(SymDiff(a, b), c), d), e)
<1>1. ASSUME NEW p, NEW q, NEW r
      PROVE  SymDiff(SymDiff(p, q), r) = SymDiff(p, SymDiff(q, r))
  BY DEF SymDiff
<1>2. SymDiff(SymDiff(SymDiff(SymDiff(a, b), c), d), e)
        = SymDiff(SymDiff(SymDiff(a, b), c), SymDiff(d, e))
  BY <1>1
<1>3. SymDiff(SymDiff(SymDiff(a, b), c), SymDiff(d, e))
        = SymDiff(SymDiff(a, b), SymDiff(c, SymDiff(d, e)))
  BY <1>1
<1>4. QED
  BY <1>2, <1>3

(* Two shifts and an OR rotate, for every count the code has, 0 included.  *)
LEMMA ShiftsRotate ==
  ASSUME NEW r \in BatchRegister, NEW n \in 0..63, NEW m \in Member
  PROVE  ShiftedRotl(r, n)[m] = RotateLeft(r[m], n)
<1> DEFINE left == {bit + n : bit \in {k \in r[m] : k + n < LaneBits}}
           right == {bit - (LaneBits - n) : bit \in {k \in r[m] : k >= LaneBits - n}}
<1>1. r[m] \subseteq 0..63
  BY DEF BatchRegister, Lane, LaneBits
<1>2. ShiftedRotl(r, n)[m] = left \cup right
  BY DEF ShiftedRotl, BatchOr, BatchShiftLeft, BatchShiftRight
<1>3. \A k \in r[m] : /\ k + n < 64 => (k + n) % 64 = k + n
                      /\ k >= 64 - n => (k + n) % 64 = k - (64 - n)
                      /\ k + n < 64 \/ k >= 64 - n
  <2> TAKE k \in r[m]
  <2>1. k \in 0..63
    BY <1>1
  <2> HIDE DEF left, right
  <2>2. k + n < 64 => (k + n) % 64 = k + n
    BY <2>1
  <2>3. k >= 64 - n => (k + n) % 64 = k - (64 - n)
    <3>1. k + n \in 0..126 /\ k - (64 - n) = (k + n) - 64
      BY <2>1
    <3>2. \A t \in 64..126 : t % 64 = t - 64
      OBVIOUS
    <3>3. QED
      BY <2>1, <3>1, <3>2
  <2>4. QED
    BY <2>1, <2>2, <2>3
<1>4. left \cup right \subseteq RotateLeft(r[m], n)
  BY <1>3 DEF RotateLeft, LaneBits
<1>5. RotateLeft(r[m], n) \subseteq left \cup right
  BY <1>3 DEF RotateLeft, LaneBits
<1>6. QED
  BY <1>2, <1>4, <1>5

LEMMA Rotates ==
  ASSUME NEW r \in BatchRegister, NEW n \in 0..63
  PROVE  /\ BatchRotate(r, n) \in BatchRegister
         /\ \A m \in Member : BatchRotate(r, n)[m] = RotateLeft(r[m], n)
<1>1. \A m \in Member : BatchRotate(r, n)[m] = RotateLeft(r[m], n)
  BY ShiftsRotate DEF BatchRotate
<1>2. BatchRotate(r, n) = [m \in Member |-> BatchRotate(r, n)[m]]
  BY DEF BatchRotate, ShiftedRotl, BatchOr
<1>3. \A m \in Member : RotateLeft(r[m], n) \in Lane
  <2>1. n \in Nat /\ \A m \in Member : r[m] \in Lane
    BY DEF BatchRegister
  <2>2. QED
    BY <2>1, LaneOps
<1>4. QED
  BY <1>1, <1>2, <1>3 DEF BatchRegister

LEMMA Xors ==
  ASSUME NEW a \in BatchRegister, NEW b \in BatchRegister
  PROVE  /\ BatchXor(a, b) \in BatchRegister
         /\ \A m \in Member : BatchXor(a, b)[m] = SymDiff(a[m], b[m])
  BY LaneOps DEF BatchXor, BatchRegister

LEMMA ChiOfRegisters ==
  ASSUME NEW a \in BatchRegister, NEW b \in BatchRegister, NEW c \in BatchRegister
  PROVE  /\ BatchChiOf(a, b, c) \in BatchRegister
         /\ \A m \in Member : BatchChiOf(a, b, c)[m] = SymDiff(a[m], c[m] \ b[m])
<1>1. \A m \in Member : a[m] \in Lane /\ b[m] \in Lane /\ c[m] \in Lane
  BY DEF BatchRegister
<1>2. \A m \in Member : BatchChiOf(a, b, c)[m] = SymDiff(a[m], c[m] \ b[m])
  BY <1>1, TernaryIsChi DEF BatchChiOf, BatchXor, BatchAndNot
<1>3. BatchChiOf(a, b, c) = [m \in Member |-> BatchChiOf(a, b, c)[m]]
  BY DEF BatchChiOf, BatchXor
<1>4. \A m \in Member : SymDiff(a[m], c[m] \ b[m]) \in Lane
  BY <1>1, LaneOps
<1>5. QED
  BY <1>2, <1>3, <1>4 DEF BatchRegister

-----------------------------------------------------------------------------
(* The steps of a round. *)

LEMMA ThetaOnBatch ==
  ASSUME NEW rg \in Registers
  PROVE  /\ BatchTheta(rg) \in Registers
         /\ \A m \in Member :
               TransposeOut(BatchTheta(rg), m) = Theta(TransposeOut(rg, m))
<1>1. \A i \in Pos : rg[i] \in BatchRegister
  BY DEF Registers
<1>2. ASSUME NEW x \in 0..4
      PROVE  /\ BatchParity(rg, x) \in BatchRegister
             /\ \A m \in Member : BatchParity(rg, x)[m] = Parity(TransposeOut(rg, m), x)
  <2> DEFINE a == rg[x]
             b == rg[x + 5]
             c == rg[x + 10]
             d == rg[x + 15]
             e == rg[x + 20]
  <2>1. /\ x \in Pos /\ x + 5 \in Pos /\ x + 10 \in Pos /\ x + 15 \in Pos /\ x + 20 \in Pos
    BY DEF Pos
  <2>2. /\ a \in BatchRegister /\ b \in BatchRegister /\ c \in BatchRegister /\ d \in BatchRegister
        /\ e \in BatchRegister
    BY <1>1, <2>1
  <2>3. BatchParity(rg, x) = BatchXor(BatchXor(a, b), BatchXor(c, BatchXor(d, e)))
    BY DEF BatchParity
  <2>4. \A m \in Member : Parity(TransposeOut(rg, m), x) =
           SymDiff(SymDiff(SymDiff(SymDiff(a[m], b[m]), c[m]), d[m]), e[m])
    BY <2>1 DEF Parity, TransposeOut
  <2> HIDE DEF a, b, c, d, e
  <2>5. /\ BatchXor(a, b) \in BatchRegister /\ BatchXor(d, e) \in BatchRegister
    BY <2>2, Xors
  <2>6. BatchXor(c, BatchXor(d, e)) \in BatchRegister
    BY <2>2, <2>5, Xors
  <2>7. BatchParity(rg, x) \in BatchRegister
    BY <2>3, <2>5, <2>6, Xors
  <2>8. \A m \in Member : BatchParity(rg, x)[m] =
           SymDiff(SymDiff(a[m], b[m]), SymDiff(c[m], SymDiff(d[m], e[m])))
    BY <2>3 DEF BatchXor
  <2>9. QED
    BY <2>4, <2>7, <2>8, ColumnFold
<1>3. ASSUME NEW x \in 0..4
      PROVE  /\ BatchDiffusion(rg, x) \in BatchRegister
             /\ \A m \in Member : BatchDiffusion(rg, x)[m] = Diffusion(TransposeOut(rg, m), x)
  <2> DEFINE p == BatchParity(rg, (x + 4) % 5)
             q == BatchParity(rg, (x + 1) % 5)
  <2>1. (x + 4) % 5 \in 0..4 /\ (x + 1) % 5 \in 0..4 /\ 1 \in 0..63
    OBVIOUS
  <2>2. /\ p \in BatchRegister /\ q \in BatchRegister
        /\ \A m \in Member : /\ p[m] = Parity(TransposeOut(rg, m), (x + 4) % 5)
                             /\ q[m] = Parity(TransposeOut(rg, m), (x + 1) % 5)
    BY <1>2, <2>1
  <2>3. BatchDiffusion(rg, x) = BatchXor(p, BatchRotate(q, 1))
    BY DEF BatchDiffusion
  <2> HIDE DEF p, q
  <2>4. /\ BatchRotate(q, 1) \in BatchRegister
        /\ \A m \in Member : BatchRotate(q, 1)[m] = RotateLeft(q[m], 1)
    BY <2>1, <2>2, Rotates
  <2>5. /\ BatchDiffusion(rg, x) \in BatchRegister
        /\ \A m \in Member : BatchDiffusion(rg, x)[m] = SymDiff(p[m], RotateLeft(q[m], 1))
    BY <2>2, <2>3, <2>4, Xors
  <2>6. QED
    BY <2>2, <2>5 DEF Diffusion
<1>4. \A i \in Pos : i % 5 \in 0..4
  BY DEF Pos
<1>5. \A i \in Pos : /\ BatchXor(rg[i], BatchDiffusion(rg, i % 5)) \in BatchRegister
                     /\ \A m \in Member : BatchXor(rg[i], BatchDiffusion(rg, i % 5))[m]
                          = SymDiff(rg[i][m], Diffusion(TransposeOut(rg, m), i % 5))
  BY <1>1, <1>3, <1>4, Xors
<1>6. BatchTheta(rg) \in Registers
  BY <1>5 DEF BatchTheta, Registers
<1>7. QED
  BY <1>5, <1>6 DEF BatchTheta, TransposeOut, Theta

LEMMA RhoPiOnBatch ==
  ASSUME NEW rg \in Registers
  PROVE  /\ BatchRhoPi(rg) \in Registers
         /\ \A m \in Member :
               TransposeOut(BatchRhoPi(rg), m) = RhoPi(TransposeOut(rg, m))
<1>1. ASSUME NEW a \in Lane
      PROVE  RotateLeft(a, 0) = a
  <2>1. \A k \in a : (k + 0) % 64 = k
    BY DEF Lane, LaneBits
  <2>2. QED
    BY <2>1 DEF RotateLeft, LaneBits
<1>2. ASSUME NEW i \in Pos
      PROVE  /\ BatchRhoPi(rg)[i] \in BatchRegister
             /\ \A m \in Member : BatchRhoPi(rg)[i][m] = RotateLeft(rg[PI(i)][m], RHO(PI(i)))
  <2>1. PI(i) \in Pos /\ RHO(PI(i)) \in 0..63
    BY TableRanges
  <2>2. rg[PI(i)] \in BatchRegister /\ \A m \in Member : rg[PI(i)][m] \in Lane
    BY <2>1 DEF Registers, BatchRegister
  <2>3. CASE ~HasAvx512 /\ RHO(PI(i)) = 0
    BY <1>1, <2>2, <2>3 DEF BatchRhoPi
  <2>4. CASE ~(~HasAvx512 /\ RHO(PI(i)) = 0)
    <3>1. BatchRhoPi(rg)[i] = BatchRotate(rg[PI(i)], RHO(PI(i)))
      BY <2>4 DEF BatchRhoPi
    <3>2. QED
      BY <2>1, <2>2, <3>1, Rotates
  <2>5. QED
    BY <2>3, <2>4
<1>3. BatchRhoPi(rg) = [i \in Pos |-> BatchRhoPi(rg)[i]]
  BY DEF BatchRhoPi
<1>4. BatchRhoPi(rg) \in Registers
  BY <1>2, <1>3 DEF Registers
<1>5. \A m \in Member, i \in Pos : TransposeOut(rg, m)[PI(i)] = rg[PI(i)][m]
  BY TableRanges DEF TransposeOut
<1>6. QED
  BY <1>2, <1>4, <1>5 DEF TransposeOut, RhoPi

LEMMA ChiOnBatch ==
  ASSUME NEW rg \in Registers
  PROVE  /\ BatchChi(rg) \in Registers
         /\ \A m \in Member : TransposeOut(BatchChi(rg), m) = Chi(TransposeOut(rg, m))
<1>1. \A i \in Pos : InRow(i, 1) \in Pos /\ InRow(i, 2) \in Pos
  BY DEF InRow, Pos
<1>2. ASSUME NEW i \in Pos
      PROVE  /\ BatchChi(rg)[i] \in BatchRegister
             /\ \A m \in Member : BatchChi(rg)[i][m]
                  = SymDiff(rg[i][m], rg[InRow(i, 2)][m] \ rg[InRow(i, 1)][m])
  <2>1. rg[i] \in BatchRegister /\ rg[InRow(i, 1)] \in BatchRegister /\ rg[InRow(i, 2)] \in BatchRegister
    BY <1>1 DEF Registers
  <2>2. BatchChi(rg)[i] = BatchChiOf(rg[i], rg[InRow(i, 1)], rg[InRow(i, 2)])
    BY DEF BatchChi
  <2> DEFINE a == rg[i]
             b == rg[InRow(i, 1)]
             c == rg[InRow(i, 2)]
  <2> HIDE DEF a, b, c
  <2>3. /\ BatchChiOf(a, b, c) \in BatchRegister
        /\ \A m \in Member : BatchChiOf(a, b, c)[m] = SymDiff(a[m], c[m] \ b[m])
    BY <2>1, ChiOfRegisters DEF a, b, c
  <2>4. QED
    BY <2>2, <2>3 DEF a, b, c
<1>3. BatchChi(rg) = [i \in Pos |-> BatchChi(rg)[i]]
  BY DEF BatchChi
<1>4. BatchChi(rg) \in Registers
  BY <1>2, <1>3 DEF Registers
<1>5. \A m \in Member, i \in Pos : /\ TransposeOut(rg, m)[i] = rg[i][m]
                                   /\ TransposeOut(rg, m)[InRow(i, 1)] = rg[InRow(i, 1)][m]
                                   /\ TransposeOut(rg, m)[InRow(i, 2)] = rg[InRow(i, 2)][m]
  BY <1>1 DEF TransposeOut
<1>6. \A m \in Member : TransposeOut(BatchChi(rg), m) = [i \in Pos |-> BatchChi(rg)[i][m]]
  BY DEF TransposeOut
<1>7. ASSUME NEW m \in Member
      PROVE  TransposeOut(BatchChi(rg), m) = Chi(TransposeOut(rg, m))
  <2> DEFINE s == TransposeOut(rg, m)
  <2>1. \A i \in Pos : BatchChi(rg)[i][m] = SymDiff(s[i], s[InRow(i, 2)] \ s[InRow(i, 1)])
    BY <1>2, <1>5
  <2> HIDE DEF s
  <2>2. QED
    BY <1>6, <2>1 DEF Chi, s
<1>8. QED
  BY <1>4, <1>7

LEMMA IotaOnBatch ==
  ASSUME NEW rg \in Registers, NEW rc \in Lane
  PROVE  /\ BatchIota(rg, rc) \in Registers
         /\ \A m \in Member :
               TransposeOut(BatchIota(rg, rc), m) = Iota(TransposeOut(rg, m), rc)
<1> DEFINE k == [m \in Member |-> rc]
<1>1. 0 \in Pos /\ k \in BatchRegister /\ rg[0] \in BatchRegister
  BY DEF Pos, BatchRegister, Registers
<1>2. /\ BatchXor(rg[0], k) \in BatchRegister
      /\ \A m \in Member : BatchXor(rg[0], k)[m] = SymDiff(rg[0][m], rc)
  <2>1. \A m \in Member : k[m] = rc
    OBVIOUS
  <2> HIDE DEF k
  <2>2. QED
    BY <1>1, <2>1, Xors
<1>3. BatchIota(rg, rc) = [rg EXCEPT ![0] = BatchXor(rg[0], k)]
  BY DEF BatchIota
<1> HIDE DEF k
<1>4. BatchIota(rg, rc) \in Registers
  BY <1>2, <1>3 DEF Registers
<1>5. ASSUME NEW m \in Member
      PROVE  TransposeOut(BatchIota(rg, rc), m) = Iota(TransposeOut(rg, m), rc)
  <2>1. \A i \in Pos : BatchIota(rg, rc)[i] = IF i = 0 THEN BatchXor(rg[0], k) ELSE rg[i]
    BY <1>3 DEF Registers
  <2>2. \A i \in Pos : BatchIota(rg, rc)[i][m] = IF i = 0 THEN SymDiff(rg[0][m], rc) ELSE rg[i][m]
    BY <1>2, <2>1
  <2>3. QED
    BY <1>1, <2>2 DEF TransposeOut, Iota
<1>6. QED
  BY <1>4, <1>5

(* A round on the registers is a round on each of the states.              *)
LEMMA RoundOnBatch ==
  ASSUME NEW rg \in Registers, NEW rc \in Lane
  PROVE  /\ BatchRound(rg, rc) \in Registers
         /\ \A m \in Member :
               TransposeOut(BatchRound(rg, rc), m) = Round(TransposeOut(rg, m), rc)
<1> DEFINE a == BatchTheta(rg)
           b == BatchRhoPi(a)
           c == BatchChi(b)
<1>1. /\ a \in Registers
      /\ \A m \in Member : TransposeOut(a, m) = Theta(TransposeOut(rg, m))
  BY ThetaOnBatch
<1> HIDE DEF a
<1>2. /\ b \in Registers
      /\ \A m \in Member : TransposeOut(b, m) = RhoPi(TransposeOut(a, m))
  BY <1>1, RhoPiOnBatch
<1> HIDE DEF b
<1>3. /\ c \in Registers
      /\ \A m \in Member : TransposeOut(c, m) = Chi(TransposeOut(b, m))
  BY <1>2, ChiOnBatch
<1> HIDE DEF c
<1>4. /\ BatchIota(c, rc) \in Registers
      /\ \A m \in Member : TransposeOut(BatchIota(c, rc), m) = Iota(TransposeOut(c, m), rc)
  BY <1>3, IotaOnBatch
<1>5. BatchRound(rg, rc) = BatchIota(c, rc)
  BY DEF BatchRound, a, b, c
<1>6. \A m \in Member : Round(TransposeOut(rg, m), rc) = Iota(TransposeOut(c, m), rc)
  BY <1>1, <1>2, <1>3 DEF Round
<1>7. QED
  BY <1>4, <1>5, <1>6

LEMMA Transposed ==
  ASSUME NEW ins \in Batches
  PROVE  /\ TransposeIn(ins) \in Registers
         /\ \A m \in Member : ins[m] \in Inputs /\ TransposeOut(TransposeIn(ins), m) = ins[m]
<1>1. \A m \in Member : ins[m] \in Inputs /\ ins[m] \in State
  BY BatchAssumption, InputAssumption
<1>2. TransposeIn(ins) \in Registers
  BY <1>1 DEF TransposeIn, Registers, BatchRegister, State
<1>3. ASSUME NEW m \in Member
      PROVE  TransposeOut(TransposeIn(ins), m) = ins[m]
  <2>1. \A i \in Pos : TransposeOut(TransposeIn(ins), m)[i] = ins[m][i]
    BY DEF TransposeOut, TransposeIn
  <2>2. ins[m] = [i \in Pos |-> ins[m][i]]
    BY <1>1 DEF State
  <2>3. TransposeOut(TransposeIn(ins), m)
          = [i \in Pos |-> TransposeOut(TransposeIn(ins), m)[i]]
    BY DEF TransposeOut
  <2>4. QED
    BY <2>1, <2>2, <2>3
<1>4. QED
  BY <1>1, <1>2, <1>3

-----------------------------------------------------------------------------
(* The registers hold lanes of 64 bits throughout: no bit that a shift     *)
(* moves out of a lane is kept (simd_parallel.rs).                         *)
THEOREM BatchTypeCorrect == BatchSpec => []BatchTypeOK
<1>1. BatchInit => BatchTypeOK
  BY Transposed DEF BatchInit, BatchTypeOK, Registers, KeccakRounds
<1>2. BatchTypeOK /\ [BatchNext]_batchVars => BatchTypeOK'
  <2> SUFFICES ASSUME BatchTypeOK, [BatchNext]_batchVars
               PROVE  BatchTypeOK'
    OBVIOUS
  <2>1. CASE DoBatchRound
    <3>1. rounds + 1 \in 1..KeccakRounds /\ RC[rounds + 1] \in Lane
      BY <2>1, RoundConstants DEF BatchTypeOK, DoBatchRound, KeccakRounds
    <3>2. reg' \in Registers
      BY <2>1, <3>1, RoundOnBatch DEF BatchTypeOK, DoBatchRound, Registers
    <3>3. QED
      BY <2>1, <3>1, <3>2 DEF BatchTypeOK, DoBatchRound, Registers, KeccakRounds
  <2>2. ASSUME NEW ins \in Batches, BatchCallAgain(ins)
        PROVE  BatchTypeOK'
    BY <2>2, Transposed DEF BatchTypeOK, BatchCallAgain, Registers, KeccakRounds
  <2>3. CASE UNCHANGED batchVars
    BY <2>3 DEF BatchTypeOK, batchVars
  <2>4. QED
    BY <2>1, <2>2, <2>3 DEF BatchNext
<1>3. QED
  BY <1>1, <1>2, PTL DEF BatchSpec

(* The scalar permutation's steps are the ones of KeccakF. *)
LEMMA MemberRound ==
  ASSUME NEW CONSTANT m
  PROVE  /\ ScalarOf(m)!KeccakRounds = KeccakRounds
         /\ ScalarOf(m)!RC = RC
         /\ \A s, rc : ScalarOf(m)!Round(s, rc) = Round(s, rc)
<1>1. ScalarOf(m)!KeccakRounds = KeccakRounds /\ ScalarOf(m)!RC = RC
  BY DEF ScalarOf!KeccakRounds, KeccakRounds, ScalarOf!RC, RC
<1>2. \A a, b : ScalarOf(m)!SymDiff(a, b) = SymDiff(a, b)
  BY DEF ScalarOf!SymDiff, SymDiff
<1>3. \A v, n : ScalarOf(m)!RotateLeft(v, n) = RotateLeft(v, n)
  BY DEF ScalarOf!RotateLeft, RotateLeft, ScalarOf!LaneBits, LaneBits
<1>4. \A s : ScalarOf(m)!Theta(s) = Theta(s)
  <2>1. \A s, x : ScalarOf(m)!Parity(s, x) = Parity(s, x)
    BY <1>2 DEF ScalarOf!Parity, Parity
  <2>2. \A s, x : ScalarOf(m)!Diffusion(s, x) = Diffusion(s, x)
    BY <1>2, <1>3, <2>1 DEF ScalarOf!Diffusion, Diffusion
  <2>3. QED
    BY <1>2, <2>2 DEF ScalarOf!Theta, Theta, ScalarOf!Pos, Pos
<1>5. \A s : ScalarOf(m)!RhoPi(s) = RhoPi(s)
  BY <1>3 DEF ScalarOf!RhoPi, RhoPi, ScalarOf!Pos, Pos, ScalarOf!PI, PI, ScalarOf!RHO, RHO,
              ScalarOf!PiTable, PiTable, ScalarOf!RhoTable, RhoTable
<1>6. \A s : ScalarOf(m)!Chi(s) = Chi(s)
  BY <1>2 DEF ScalarOf!Chi, Chi, ScalarOf!Pos, Pos, ScalarOf!InRow, InRow
<1>7. \A s, rc : ScalarOf(m)!Iota(s, rc) = Iota(s, rc)
  BY <1>2 DEF ScalarOf!Iota, Iota
<1>8. QED
  BY <1>1, <1>4, <1>5, <1>6, <1>7 DEF ScalarOf!Round, Round

(* Whatever the width, each member of a batch goes through the states of   *)
(* the scalar permutation on its own input, with the rotate and ternary    *)
(* instructions and with the shifts that stand for them (simd_parallel.rs, *)
(* keccak_f1600_x8_avx512 and keccak_f1600_x4_avx2).                       *)
THEOREM EachIsKeccak == BatchSpec => EachImplementsScalar
<1>1. BatchInit => \A m \in Member : ScalarOf(m)!KeccakInit
  <2> SUFFICES ASSUME BatchInit, NEW m \in Member
               PROVE  ScalarOf(m)!KeccakInit
    OBVIOUS
  <2>1. inputs[m] \in Inputs /\ TransposeOut(reg, m) = inputs[m]
    BY Transposed DEF BatchInit
  <2>2. QED
    BY <2>1 DEF BatchInit, ScalarOf!KeccakInit
<1>2. BatchTypeOK /\ [BatchNext]_batchVars => [\A m \in Member : ScalarOf(m)!KeccakNext]_batchVars
  <2> SUFFICES ASSUME BatchTypeOK, BatchNext, NEW m \in Member
               PROVE  ScalarOf(m)!KeccakNext
    OBVIOUS
  <2>1. CASE DoBatchRound
    <3>1. RC[rounds + 1] \in Lane
      BY <2>1, RoundConstants DEF BatchTypeOK, DoBatchRound, KeccakRounds
    <3>2. TransposeOut(reg', m) = Round(TransposeOut(reg, m), RC[rounds + 1])
      BY <2>1, <3>1, RoundOnBatch DEF BatchTypeOK, DoBatchRound, Registers
    <3>3. ScalarOf(m)!DoRound
      BY <2>1, <3>2, MemberRound DEF DoBatchRound, ScalarOf!DoRound
    <3>4. QED
      BY <3>3 DEF ScalarOf!KeccakNext
  <2>2. ASSUME NEW ins \in Batches, BatchCallAgain(ins)
        PROVE  ScalarOf(m)!KeccakNext
    <3>1. ins[m] \in Inputs /\ TransposeOut(reg', m) = ins[m]
      BY <2>2, Transposed DEF BatchCallAgain
    <3>2. QED
      BY <2>2, <3>1, MemberRound DEF BatchCallAgain, ScalarOf!CallAgain, ScalarOf!KeccakNext
  <2>3. QED
    BY <2>1, <2>2 DEF BatchNext
<1>3. QED
  BY <1>1, <1>2, BatchTypeCorrect, PTL DEF BatchSpec, EachImplementsScalar

-----------------------------------------------------------------------------
(***************************************************************************)
(* The permutation as a function: every implementation of it computes      *)
(* KeccakF1600 of its input, and so any two of them give the same lanes.   *)
(***************************************************************************)
(* A set of numbers that is not empty has a least element. *)
LEMMA LeastElement ==
  ASSUME NEW T \in SUBSET Nat, T # {}
  PROVE  \E n \in T : \A m \in T : n <= m
<1> DEFINE R == OpToRel(<, Nat)
<1>1. IsWellFoundedOn(R, Nat)
  BY NatLessThanWellFounded
<1>2. \A x, y \in Nat : x < y => <<x, y>> \in R
  BY DEF OpToRel
<1> HIDE DEF R
<1>3. PICK n \in T : \A m \in T : ~(<<m, n>> \in R)
  BY <1>1, WFMin
<1>4. ASSUME NEW m \in T PROVE n <= m
  <2>1. n \in Nat /\ m \in Nat /\ ~(m < n)
    BY <1>2, <1>3
  <2>2. QED
    BY <2>1
<1>5. QED
  BY <1>4

(* Induction, over the set of the numbers of which the claim holds. *)
LEMMA SetInduction ==
  ASSUME NEW S, 0 \in S, \A n \in Nat : n \in S => n + 1 \in S
  PROVE  Nat \subseteq S
<1> SUFFICES ASSUME ~(Nat \subseteq S) PROVE FALSE
  OBVIOUS
<1>1. PICK n \in Nat \ S : \A m \in Nat \ S : n <= m
  <2>1. Nat \ S \in SUBSET Nat /\ Nat \ S # {}
    OBVIOUS
  <2>2. QED
    BY <2>1, LeastElement
<1>2. n # 0 /\ n - 1 \in Nat
  BY <1>1
<1>3. n - 1 \in S
  BY <1>1, <1>2
<1>4. QED
  BY <1>1, <1>2, <1>3

(* f is the states of the first n rounds on s. *)
Rounds(s, n, f) == f = [k \in 0..n |-> IF k = 0 THEN s ELSE Round(f[k - 1], RC[k])]

LEMMA RoundsExist ==
  ASSUME NEW s, NEW n \in Nat
  PROVE  \E f : Rounds(s, n, f)
<1> DEFINE S == {m \in Nat : \E f : Rounds(s, m, f)}
<1>1. 0 \in S
  <2>1. Rounds(s, 0, [k \in 0..0 |-> s])
    BY DEF Rounds
  <2>2. QED
    BY <2>1
<1>2. ASSUME NEW m \in Nat, m \in S
      PROVE  m + 1 \in S
  <2>1. PICK f : Rounds(s, m, f)
    BY <1>2
  <2> DEFINE g == [k \in 0..(m + 1) |-> IF k <= m THEN f[k] ELSE Round(f[m], RC[m + 1])]
  <2>2. \A k \in 0..(m + 1) : k # 0 => g[k - 1] = f[k - 1]
    OBVIOUS
  <2>3. ASSUME NEW k \in 0..(m + 1)
        PROVE  g[k] = IF k = 0 THEN s ELSE Round(g[k - 1], RC[k])
    <3>1. CASE k <= m
      <4>1. k \in 0..m
        BY <3>1
      <4>2. f[k] = IF k = 0 THEN s ELSE Round(f[k - 1], RC[k])
        BY <2>1, <4>1 DEF Rounds
      <4>3. QED
        BY <2>2, <3>1, <4>2
    <3>2. CASE k = m + 1
      BY <2>2, <3>2
    <3>3. QED
      BY <3>1, <3>2
  <2>4. g = [k \in 0..(m + 1) |-> g[k]]
    OBVIOUS
  <2> HIDE DEF g
  <2>5. Rounds(s, m + 1, g)
    BY <2>3, <2>4 DEF Rounds
  <2>6. QED
    BY <2>5
<1> HIDE DEF S
<1>3. Nat \subseteq S
  BY <1>1, <1>2, SetInduction
<1>4. QED
  BY <1>3 DEF S

(* What After computes is defined, and is what its recursion says. *)
LEMMA AfterUnfolds ==
  ASSUME NEW s
  PROVE  /\ After(s)[0] = s
         /\ \A n \in 1..KeccakRounds : After(s)[n] = Round(After(s)[n - 1], RC[n])
<1>1. \E f : Rounds(s, KeccakRounds, f)
  BY RoundsExist DEF KeccakRounds
<1>2. After(s) = CHOOSE f : Rounds(s, KeccakRounds, f)
  BY DEF After, Rounds
<1>3. Rounds(s, KeccakRounds, After(s))
  BY <1>1, <1>2
<1>4. QED
  BY <1>3 DEF Rounds, KeccakRounds

(* A round takes states to states, and so does the permutation: what the   *)
(* lemmas on lanes ask of a permutation, KeccakF1600 has (PermutesLanes in *)
(* SpongeProofs, with 25 lanes of 8 bytes).                                *)
LEMMA RoundType ==
  ASSUME NEW s \in State, NEW rc \in Lane
  PROVE  Round(s, rc) \in State
<1>1. \A t \in State : Theta(t) \in State
  <2> SUFFICES ASSUME NEW t \in State, NEW i \in Pos
               PROVE  SymDiff(t[i], Diffusion(t, i % 5)) \in Lane
    BY DEF Theta, State
  <2>1. \A x \in 0..4 : Parity(t, x) \in Lane
    <3> SUFFICES ASSUME NEW x \in 0..4 PROVE Parity(t, x) \in Lane
      OBVIOUS
    <3>1. t[x] \in Lane /\ t[x + 5] \in Lane /\ t[x + 10] \in Lane /\ t[x + 15] \in Lane
          /\ t[x + 20] \in Lane
      BY DEF State, Pos
    <3>2. QED
      BY <3>1, LaneOps DEF Parity
  <2>2. i % 5 \in 0..4 /\ ((i % 5) + 4) % 5 \in 0..4 /\ ((i % 5) + 1) % 5 \in 0..4
    BY DEF Pos
  <2>3. Diffusion(t, i % 5) \in Lane
    BY <2>1, <2>2, LaneOps DEF Diffusion
  <2>4. QED
    BY <2>3, LaneOps DEF State
<1>2. \A t \in State : RhoPi(t) \in State
  <2> SUFFICES ASSUME NEW t \in State, NEW i \in Pos
               PROVE  RotateLeft(t[PI(i)], RHO(PI(i))) \in Lane
    BY DEF RhoPi, State
  <2>1. PI(i) \in Pos /\ RHO(PI(i)) \in Nat
    BY TableRanges
  <2>2. t[PI(i)] \in Lane
    BY <2>1 DEF State
  <2>3. QED
    BY <2>1, <2>2, LaneOps
<1>3. \A t \in State : Chi(t) \in State
  <2> SUFFICES ASSUME NEW t \in State, NEW i \in Pos
               PROVE  SymDiff(t[i], t[InRow(i, 2)] \ t[InRow(i, 1)]) \in Lane
    BY DEF Chi, State
  <2>1. InRow(i, 1) \in Pos /\ InRow(i, 2) \in Pos
    BY DEF InRow, Pos
  <2>2. t[i] \in Lane /\ t[InRow(i, 2)] \in Lane /\ t[InRow(i, 1)] \in Lane
    BY <2>1 DEF State
  <2>3. t[InRow(i, 2)] \ t[InRow(i, 1)] \in Lane
    BY <2>2, LaneOps
  <2>4. QED
    BY <2>2, <2>3, LaneOps
<1>4. \A t \in State : Iota(t, rc) \in State
  BY LaneOps DEF Iota, State, Pos
<1>5. QED
  BY <1>1, <1>2, <1>3, <1>4 DEF Round

(* The permutation takes 25 lanes of 64 bits to 25 lanes of 64 bits        *)
(* (keccak.rs, keccak_f1600).                                              *)
THEOREM KeccakKeepsStates ==
  ASSUME NEW s \in State
  PROVE  KeccakF1600(s) \in State
<1> DEFINE S == {n \in Nat : n <= KeccakRounds => After(s)[n] \in State}
<1>1. 0 \in S
  BY AfterUnfolds
<1>2. ASSUME NEW n \in Nat, n \in S
      PROVE  n + 1 \in S
  <2> SUFFICES ASSUME n + 1 <= KeccakRounds PROVE After(s)[n + 1] \in State
    OBVIOUS
  <2>1. n + 1 \in 1..KeccakRounds /\ (n + 1) - 1 = n /\ n <= KeccakRounds
    BY DEF KeccakRounds
  <2>2. After(s)[n + 1] = Round(After(s)[n], RC[n + 1])
    BY <2>1, AfterUnfolds
  <2>3. After(s)[n] \in State /\ RC[n + 1] \in Lane
    BY <1>2, <2>1, RoundConstants
  <2>4. QED
    BY <2>2, <2>3, RoundType
<1> HIDE DEF S
<1>3. KeccakRounds \in S
  BY <1>1, <1>2, SetInduction DEF KeccakRounds
<1>4. QED
  BY <1>3 DEF S, KeccakF1600, KeccakRounds

(* The scalar code, whatever state it is on: its n-th round leaves what    *)
(* After says of the input.                                                *)
ScalarAfter == round \in 0..KeccakRounds /\ Unload(row) = After(input)[round]

LEMMA ScalarAfterKept ==
  ASSUME ScalarAfter, [Scalar!KeccakNext]_(Scalar!keccakVars)
  PROVE  ScalarAfter'
<1>1. CASE Scalar!DoRound
  <2>1. /\ round < KeccakRounds /\ round' = round + 1 /\ input' = input
        /\ Unload(row') = Round(Unload(row), RC[round + 1])
    BY <1>1, ScalarRound DEF Scalar!DoRound
  <2>2. round + 1 \in 1..KeccakRounds /\ (round + 1) - 1 = round
    BY <2>1 DEF ScalarAfter, KeccakRounds
  <2>3. After(input)[round + 1] = Round(After(input)[round], RC[round + 1])
    BY <2>2, AfterUnfolds
  <2>4. round' \in 0..KeccakRounds
    BY <2>1, <2>2 DEF KeccakRounds
  <2>5. QED
    BY <2>1, <2>3, <2>4 DEF ScalarAfter
<1>2. ASSUME NEW in \in Inputs, Scalar!CallAgain(in)
      PROVE  ScalarAfter'
  <2>1. input' = in /\ Unload(row') = in /\ round' = 0
    BY <1>2 DEF Scalar!CallAgain
  <2>2. 0 \in 0..KeccakRounds
    BY DEF KeccakRounds
  <2>3. QED
    BY <2>1, <2>2, AfterUnfolds DEF ScalarAfter
<1>3. CASE UNCHANGED Scalar!keccakVars
  BY <1>3 DEF ScalarAfter, Scalar!keccakVars
<1>4. QED
  BY <1>1, <1>2, <1>3 DEF Scalar!KeccakNext

(* The scalar permutation computes KeccakF1600 (keccak.rs, keccak_f1600). *)
THEOREM ScalarComputes == Scalar!KeccakSpec => []ScalarAfter
<1>1. Scalar!KeccakInit => ScalarAfter
  BY AfterUnfolds DEF Scalar!KeccakInit, ScalarAfter, KeccakRounds
<1>2. ScalarAfter /\ [Scalar!KeccakNext]_(Scalar!keccakVars) => ScalarAfter'
  BY ScalarAfterKept
<1>3. QED
  BY <1>1, <1>2, PTL DEF Scalar!KeccakSpec

(* What the AVX-512 code stores back is KeccakF1600 of what it loaded      *)
(* (simd_avx512.rs, keccak_f1600_avx512).                                  *)
RowResult == round = KeccakRounds => Unload(row) = KeccakF1600(input)

(* The AVX-512 permutation computes KeccakF1600: see RowResult.            *)
THEOREM RowsCompute == RowSpec => []RowResult
<1>1. ScalarAfter => RowResult
  BY DEF ScalarAfter, RowResult, KeccakF1600
<1>2. QED
  BY <1>1, ImplementsKeccak, ScalarComputes, PTL DEF ImplementsScalar

BatchAfter ==
    rounds \in 0..KeccakRounds /\ \A m \in Member : TransposeOut(reg, m) = After(inputs[m])[rounds]

LEMMA BatchAfterKept ==
  ASSUME BatchTypeOK, BatchAfter, [BatchNext]_batchVars
  PROVE  BatchAfter'
<1>1. CASE DoBatchRound
  <2>1. rounds < KeccakRounds /\ rounds' = rounds + 1 /\ inputs' = inputs
    BY <1>1 DEF DoBatchRound
  <2>2. rounds + 1 \in 1..KeccakRounds /\ (rounds + 1) - 1 = rounds
    BY <2>1 DEF BatchAfter, KeccakRounds
  <2>3. RC[rounds + 1] \in Lane
    BY <2>2, RoundConstants
  <2>4. ASSUME NEW m \in Member
        PROVE  TransposeOut(reg', m) = After(inputs[m])[rounds + 1]
    <3>1. TransposeOut(reg', m) = Round(TransposeOut(reg, m), RC[rounds + 1])
      BY <1>1, <2>3, RoundOnBatch DEF BatchTypeOK, DoBatchRound, Registers
    <3>2. After(inputs[m])[rounds + 1] = Round(After(inputs[m])[rounds], RC[rounds + 1])
      BY <2>2, AfterUnfolds
    <3>3. QED
      BY <3>1, <3>2 DEF BatchAfter
  <2>5. rounds' \in 0..KeccakRounds
    BY <2>1, <2>2 DEF KeccakRounds
  <2>6. QED
    BY <2>1, <2>4, <2>5 DEF BatchAfter
<1>2. ASSUME NEW ins \in Batches, BatchCallAgain(ins)
      PROVE  BatchAfter'
  <2>1. /\ inputs' = ins /\ rounds' = 0
        /\ \A m \in Member : TransposeOut(reg', m) = ins[m]
    BY <1>2, Transposed DEF BatchCallAgain
  <2>2. 0 \in 0..KeccakRounds
    BY DEF KeccakRounds
  <2>3. QED
    BY <2>1, <2>2, AfterUnfolds DEF BatchAfter
<1>3. CASE UNCHANGED batchVars
  BY <1>3 DEF BatchAfter, batchVars
<1>4. QED
  BY <1>1, <1>2, <1>3 DEF BatchNext

(* Each member of a batch leaves with KeccakF1600 of what it came with, at *)
(* any width and whatever the others hold (simd_parallel.rs).              *)
BatchResult ==
    rounds = KeccakRounds => \A m \in Member : TransposeOut(reg, m) = KeccakF1600(inputs[m])

(* Both batch permutations compute KeccakF1600: see BatchResult.           *)
THEOREM BatchesCompute == BatchSpec => []BatchResult
<1>1. BatchInit => BatchAfter
  <2>1. BatchInit => rounds = 0 /\ \A m \in Member : TransposeOut(reg, m) = inputs[m]
    BY Transposed DEF BatchInit
  <2>2. 0 \in 0..KeccakRounds
    BY DEF KeccakRounds
  <2>3. QED
    BY <2>1, <2>2, AfterUnfolds DEF BatchAfter
<1>2. BatchTypeOK /\ BatchAfter /\ [BatchNext]_batchVars => BatchAfter'
  BY BatchAfterKept
<1>3. BatchAfter => BatchResult
  BY DEF BatchAfter, BatchResult, KeccakF1600
<1>4. QED
  BY <1>1, <1>2, <1>3, BatchTypeCorrect, PTL DEF BatchSpec

(* Permuting single states and batches one after the other is what each of *)
(* the two models allows, and stuttering for the other: all that is proved *)
(* of RowSpec and of BatchSpec holds of PathsSpec.                         *)
THEOREM PathsRunBoth == PathsSpec => RowSpec /\ BatchSpec
<1>1. PathsInit => RowInit /\ BatchInit
  BY DEF PathsInit
<1>2. [PermuteOne \/ PermuteBatch]_pathsVars => [RowNext]_rowVars /\ [BatchNext]_batchVars
  BY DEF PermuteOne, PermuteBatch, pathsVars
<1>3. QED
  BY <1>1, <1>2, PTL DEF PathsSpec, RowSpec, BatchSpec

(* Any two implementations agree, for all inputs and every width: see      *)
(* PathsAgree.                                                             *)
THEOREM ImplementationsAgree == PathsSpec => []PathsAgree
<1>1. RowResult /\ BatchResult => PathsAgree
  BY DEF RowResult, BatchResult, PathsAgree
<1>2. QED
  BY <1>1, PathsRunBoth, RowsCompute, BatchesCompute, PTL
=============================================================================
