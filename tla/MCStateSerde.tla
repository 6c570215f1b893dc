---------------------------- MODULE MCStateSerde ----------------------------
(***************************************************************************)
(* Two lanes and a buffer of three bytes.  Documents of up to five         *)
(* entries: the four fields in every order, one of them twice, and in the  *)
(* place of any, a state one lane short, a buffer one byte short, a pos    *)
(* that is not below the rate, and a rate of 0.                            *)
(***************************************************************************)
EXTENDS StateSerde

MCStates == {[state |-> <<7, 0>>, pos |-> 1, rate |-> 2, buffer |-> <<6, 128, 0>>],
             [state |-> <<0, 7>>, pos |-> 0, rate |-> 1, buffer |-> <<0, 0, 9>>]}

MCStrange == [state |-> {<<7>>}, pos |-> {2}, rate |-> {0}, buffer |-> {<<6, 128>>}]
=============================================================================
