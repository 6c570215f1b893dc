----------------------------- MODULE MCHashMany -----------------------------
(***************************************************************************)
(* hash_many on lists of up to four messages of one to three blocks, with *)
(* batches of three and of two lanes, on CPUs with every relevant mix of   *)
(* AVX-512 and AVX2.                                                       *)
(***************************************************************************)
EXTENDS HashMany, SequencesExt

Messages == {<<>>, <<1, 128>>, <<0, 0, 7, 1, 6>>}

MCBatches == BoundedSeq(Messages, 4)

MCCpus == {{}, {"avx2"}, {"avx512f"}, {"avx512f", "avx2", "bmi2"}}
=============================================================================
