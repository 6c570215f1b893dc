---------------------------- MODULE KeccakPaths ----------------------------
(***************************************************************************)
(* The permutations as their callers use them: that of a single message,   *)
(* on rows of registers, and that of a batch, on any states and in any     *)
(* order.  Nothing in the crate runs at the same time, so a permutation    *)
(* that has begun ends before another begins (lib.rs, permute, hash_many). *)
(***************************************************************************)
EXTENDS KeccakRows, KeccakBatch

pathsVars == <<rowVars, batchVars>>

PathsInit == RowInit /\ BatchInit

PermuteOne ==
    /\ round < KeccakRounds \/ rounds = KeccakRounds
    /\ RowNext /\ UNCHANGED batchVars

PermuteBatch ==
    /\ round = KeccakRounds
    /\ BatchNext /\ UNCHANGED rowVars

PathsSpec == PathsInit /\ [][PermuteOne \/ PermuteBatch]_pathsVars
-----------------------------------------------------------------------------
(* Which implementation permutes a state makes no difference to it: where  *)
(* a single permutation and a batch have ended, they agree on every input  *)
(* they share, whatever was permuted before (the contract that the comment *)
(* on the path counters of lib.rs states and that the dispatch relies on). *)
PathsAgree ==
    round = KeccakRounds /\ rounds = KeccakRounds =>
        \A m \in Member : inputs[m] = input => TransposeOut(reg, m) = Unload(row)
=============================================================================
