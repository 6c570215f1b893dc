----------------------------- MODULE MCDispatch -----------------------------
(* Every set of the six features as a CPU, and up to three permutations.   *)
EXTENDS Dispatch

MCCpus == SUBSET Feature
=============================================================================
