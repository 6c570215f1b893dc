------------------------------- MODULE Keccak -------------------------------
(***************************************************************************)
(* keccak_f1600 of keccak.rs, in full, one round as one step.  When a      *)
(* permutation is over the sponge XORs a block into the result and calls   *)
(* again: here, with any of the Inputs.                                    *)
(***************************************************************************)
EXTENDS KeccakF

VARIABLES input,    \* the state the running permutation was called with
          state, round

keccakVars == <<input, state, round>>

KeccakInit == input \in Inputs /\ state = input /\ round = 0

DoRound ==
    /\ round < KeccakRounds
    /\ state' = Round(state, RC[round + 1])
    /\ round' = round + 1
    /\ UNCHANGED input

CallAgain(in) ==
    /\ round = KeccakRounds
    /\ input' = in /\ state' = in /\ round' = 0

KeccakNext == DoRound \/ \E in \in Inputs : CallAgain(in)

KeccakSpec == KeccakInit /\ [][KeccakNext]_keccakVars
-----------------------------------------------------------------------------
(* The permuted zero state has the lanes that the reference vectors of     *)
(* XKCP give (keccak.rs, test_keccak_f1600_known_answer): this fails if    *)
(* any table entry, index or order of the five steps is wrong.             *)
KnownAnswer ==
    round = KeccakRounds /\ input = ZeroState =>
        /\ state[0] = {0, 1, 2, 5, 6, 7, 8, 10, 11, 12, 14, 15, 16, 21, 22, 23, 30, 32, 35,
                       36, 37, 38, 40, 41, 42, 43, 47, 48, 50, 53, 56, 60, 61, 62, 63}
        /\ state[1] = {1, 3, 7, 8, 9, 10, 14, 22, 23, 24, 25, 28, 29, 32, 35, 36, 37, 38,
                       39, 42, 43, 46, 47, 48, 50, 52, 54, 55, 58, 63}
        /\ state[2] = {1, 2, 3, 5, 6, 7, 8, 11, 13, 15, 17, 19, 20, 22, 25, 26, 29, 31, 33,
                       34, 35, 36, 41, 42, 45, 51, 52, 55, 56, 58, 60, 62, 63}
        /\ state[3] = {0, 2, 3, 6, 8, 11, 14, 23, 24, 25, 26, 27, 29, 30, 36, 37, 40, 41,
                       42, 46, 48, 50, 52, 56, 58, 59, 60, 61, 63}
        /\ state[4] = {0, 1, 2, 4, 6, 12, 14, 15, 16, 17, 20, 22, 25, 29, 30, 32, 34, 41,
                       42, 43, 46, 51, 53, 56, 57, 59, 63}
=============================================================================
