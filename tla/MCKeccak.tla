------------------------------ MODULE MCKeccak ------------------------------
(***************************************************************************)
(* The zero state of the reference vectors, a state with one bit set at    *)
(* either end of a lane, a block of padding, and two dense states.  A      *)
(* batch of zeros, and batches of states that follow each other in a ring, *)
(* so that each state has each place in turn.                              *)
(***************************************************************************)
EXTENDS KeccakPaths

Only(i, lane) == [j \in Pos |-> IF j = i THEN lane ELSE {}]

Padding0 == [Only(0, {1, 2}) EXCEPT ![8] = {63}]

Dense(k) == [i \in Pos |-> {b \in 0..63 : (b * b + k * i + i * i * b) % 7 < 3}]

Ring == << ZeroState, Only(24, {63}), Dense(4), Only(0, {0}), Dense(1) >>

MCInputs == {Ring[k] : k \in 1..5} \cup {Padding0}

MCBatches ==
    {[m \in Member |-> ZeroState]}
        \cup {[m \in Member |-> Ring[((m + k) % 5) + 1]] : k \in 0..4}
=============================================================================
