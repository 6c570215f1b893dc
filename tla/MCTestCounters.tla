--------------------------- MODULE MCTestCounters ---------------------------
(***************************************************************************)
(* The three tests that read the counters, beside one that hashes on each  *)
(* of the two paths.                                                       *)
(***************************************************************************)
EXTENDS TestCounters

MCHashed == [t \in {"other"} |-> <<FALSE, TRUE>>]
=============================================================================
