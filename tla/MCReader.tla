------------------------------ MODULE MCReader ------------------------------
(***************************************************************************)
(* Streams of zero to seven bytes through a staging buffer of three bytes  *)
(* into blocks of two, with failures and retries at every read; and images *)
(* of the same lengths, hashed by the stress test with chunks of four.     *)
(***************************************************************************)
EXTENDS LargeFileIntegrity

(* The first two are the padding of the empty message. *)
Bytes == <<6, 128, 0, 134, 1, 6, 2>>

MCStreams == {SubSeq(Bytes, 1, n) : n \in 0..7}

(* The image holds the same bytes. *)
MCGenerated == Bytes
=============================================================================
