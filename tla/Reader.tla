------------------------------- MODULE Reader -------------------------------
(***************************************************************************)
(* Sha3Reader of io.rs: a hasher fed from a std::io::Read source, chunk by *)
(* chunk.  The source is external: it may return fewer bytes than asked    *)
(* for, it may fail at any read, and it returns 0 bytes only at its end.   *)
(* A failed call may be made again; the reader may be finalized early.     *)
(***************************************************************************)
EXTENDS Sponge

CONSTANTS Streams,     \* the byte streams a source may hold
          IoBufSize,   \* IO_BUF_SIZE
          MaxFinals    \* bound: digests taken from a reader

ASSUME ReaderAssumption ==
    /\ Streams \subseteq Seq(Byte)
    /\ IoBufSize \in Nat \ {0} /\ MaxFinals \in Nat

VARIABLES
    stream, read_pos,       \* the source, and how far it has been read
    sponge, buf, bytes_consumed, \* fields of Sha3Reader
    looping,                \* consume_all is running
    answer,                 \* what the last call returned
    finals                  \* history: digests taken

vars == <<stream, read_pos, sponge, buf, bytes_consumed, looping, answer, finals>>

sourceVars == <<stream, read_pos>>

None    == [kind |-> "none"]
Count(n) == [kind |-> "bytes", bytes |-> n]
Error   == [kind |-> "error"]
Sha3Digest(d) == [kind |-> "digest", digest |-> d]

Init ==
    /\ stream \in Streams /\ read_pos = 0
    /\ sponge = NewSponge /\ buf = [i \in 1..IoBufSize |-> 0] /\ bytes_consumed = 0
    /\ looping = FALSE /\ answer = None /\ finals = 0

(* Read::read: n bytes into the front of the buffer, 0 only at the end. *)
Remaining == Len(stream) - read_pos

ReadSizes ==
    IF Remaining = 0 THEN {0}
    ELSE 1..(IF Remaining <= IoBufSize THEN Remaining ELSE IoBufSize)

Delivered(n) == SubSeq(stream, read_pos + 1, read_pos + n)

(* Mutant of ConsumeBytes: it hashes the whole staging buffer. *)
ConsumeBuffer(bytes) ==
    /\ buf' = CopyInto(buf, 0, bytes)
    /\ read_pos' = read_pos + Len(bytes)
    /\ sponge' = IF Len(bytes) > 0 THEN Absorb(sponge, buf') ELSE sponge
    /\ bytes_consumed' = bytes_consumed + Len(bytes)
    /\ UNCHANGED <<stream, finals>>

(* consume_chunk after a read that put these bytes into the buffer. *)
ConsumeBytes(bytes) ==
    /\ buf' = CopyInto(buf, 0, bytes)
    /\ read_pos' = read_pos + Len(bytes)
    /\ sponge' = IF Len(bytes) > 0 THEN Absorb(sponge, SubSeq(buf', 1, Len(bytes))) ELSE sponge
    /\ bytes_consumed' = bytes_consumed + Len(bytes)
    /\ UNCHANGED <<stream, finals>>

(* A failed read leaves through `?', before anything is hashed. *)
FailedRead == UNCHANGED <<sourceVars, sponge, buf, bytes_consumed, finals>>

ConsumeChunk ==
    /\ ~looping
    /\ \E n \in ReadSizes : ConsumeBytes(Delivered(n)) /\ answer' = Count(n)
    /\ UNCHANGED looping

ConsumeChunkFails == ~looping /\ FailedRead /\ answer' = Error /\ UNCHANGED looping

ConsumeAll ==
    /\ ~looping /\ looping' = TRUE /\ answer' = None
    /\ UNCHANGED <<sourceVars, sponge, buf, bytes_consumed, finals>>

(* Mutant of LoopTurnOn: a short read ends the loop. *)
LoopTurnUntilShort(bytes) ==
    /\ ConsumeBytes(bytes)
    /\ looping' = (Len(bytes) = IoBufSize)
    /\ answer' = IF Len(bytes) < IoBufSize THEN Count(bytes_consumed') ELSE answer

(* Mutant of LoopTurnOn: the end of the stream does not end the loop. *)
LoopTurnAgain(bytes) == ConsumeBytes(bytes) /\ UNCHANGED <<looping, answer>>

(* One turn of the loop of consume_all. *)
LoopTurnOn(bytes) ==
    /\ ConsumeBytes(bytes)
    /\ looping' = (Len(bytes) # 0)
    /\ answer' = IF Len(bytes) = 0 THEN Count(bytes_consumed') ELSE answer

LoopTurn == looping /\ \E n \in ReadSizes : LoopTurnOn(Delivered(n))

LoopFails == looping /\ looping' = FALSE /\ FailedRead /\ answer' = Error

Finalize ==
    /\ ~looping /\ finals < MaxFinals
    /\ sponge' = FinalizeSponge(sponge)
    /\ answer' = Sha3Digest(Squeeze(sponge'.state))
    /\ finals' = finals + 1
    /\ UNCHANGED <<sourceVars, buf, bytes_consumed, looping>>

Next ==
    \/ ConsumeChunk \/ ConsumeChunkFails
    \/ ConsumeAll \/ LoopTurn \/ LoopFails
    \/ Finalize

(* consume_all reads until it ends; a read that fails ends it, and one that *)
(* does neither is not modelled.                                           *)
Spec == Init /\ [][Next]_vars /\ WF_vars(LoopTurn)
-----------------------------------------------------------------------------
TypeOK ==
    /\ stream \in Seq(Byte) /\ read_pos \in 0..Len(stream)
    /\ sponge \in SpongeType /\ Len(sponge.state) % Rate = 0
    /\ buf \in [1..IoBufSize -> Byte]
    /\ bytes_consumed \in Nat /\ looping \in BOOLEAN /\ finals \in Nat

(* Until a digest is taken, the hasher stands for exactly the bytes the    *)
(* source delivered: no short read, failed read or retry drops, repeats or *)
(* reorders a byte, and no stale byte of the staging buffer gets in; and   *)
(* bytes_consumed counts them (io.rs, consume_chunk and consume_all).      *)
HashedWhatWasRead ==
    /\ bytes_consumed = read_pos
    /\ finals = 0 => MessageOf(sponge) = SubSeq(stream, 1, read_pos)

(* The digest of a reader that has come to the end of its stream is that   *)
(* of the stream, however many calls failed before, if it is the first one *)
(* taken, and only then; a first digest taken before the end is not it.    *)
(* (A later one taken before the end may be: the padding and the bytes     *)
(* that follow can spell the rest of the stream; io.rs, finalize.)         *)
DigestOfWholeStream ==
    [][Finalize /\ (finals = 0 \/ read_pos = Len(stream)) =>
           (answer' = Sha3Digest(Digest(stream)) <=> finals = 0 /\ read_pos = Len(stream))]_vars

(* When consume_all returns Ok, all of the stream has been read, and it    *)
(* says how many bytes that was (io.rs, consume_all).                      *)
OkOnlyAtEnd ==
    [][looping /\ ~looping' /\ answer' # Error =>
           read_pos = Len(stream) /\ answer' = Count(Len(stream))]_vars

(* consume_all ends, in success or in failure. *)
LoopEnds == looping ~> ~looping
=============================================================================
