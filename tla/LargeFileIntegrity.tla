------------------------ MODULE LargeFileIntegrity ------------------------
(***************************************************************************)
(* examples/large_file_integrity.rs: a synthetic image, generated while it *)
(* is read, is hashed in three ways - with a Sha3Reader, with hash_reader  *)
(* (io.rs) and with update on chunks of another length - and the digests   *)
(* are compared.  Other callers read any source, as Reader says.           *)
(*                                                                         *)
(* The pseudo-random generator is a chain of seeds from a fixed one, a     *)
(* turn of xorshift64 each: a seed is known by the number of turns, and    *)
(* Generated is the byte after each of them.                               *)
(***************************************************************************)
EXTENDS Reader

CONSTANTS ImageSizes,   \* lengths of the image
          GenChunk,     \* GEN_CHUNK
          Generated     \* seed as u8 after so many turns from SyntheticImage::new

ASSUME IntegrityAssumption ==
    /\ ImageSizes \subseteq Nat /\ GenChunk \in Nat \ {0}
    /\ \A size \in ImageSizes : \A k \in 1..size : Generated[k] \in Byte

(* SyntheticImage *)
NewImage(size) == [remaining |-> size, turns |-> 0]

(* What a read of up to len bytes delivers, and the image after it. *)
ImageRead(image, len) ==
    LET n == IF len < image.remaining THEN len ELSE image.remaining
    IN  [bytes |-> [i \in 1..n |-> Generated[image.turns + i]],
         image |-> [remaining |-> image.remaining - n, turns |-> image.turns + n]]

(* The image as one read of all of it gives it. *)
Contents(size) == ImageRead(NewImage(size), size).bytes

Ways == {"reader", "hash_reader", "update"}

VARIABLES way,      \* which test runs; "other" for another caller
          image,    \* the source of the test
          hasher, chunk,    \* locals of the third test
          digests   \* of the tests that are over

testVars == <<way, image, hasher, chunk, digests>>

integrityVars == <<vars, testVars>>

IntegrityInit ==
    /\ Init
    /\ \/ way = "other" /\ image = NewImage(0)
       \/ /\ way = "reader"
          /\ \E size \in ImageSizes : image = NewImage(size) /\ stream = Contents(size)
    /\ hasher = NewSponge /\ chunk = [i \in 1..GenChunk |-> 0]
    /\ digests = [w \in Ways |-> None]

OtherCaller == way = "other" /\ Next /\ UNCHANGED testVars

(* consume_all and finalize of a reader over the image. *)
BeginAll == answer = None /\ ConsumeAll /\ UNCHANGED testVars

ReadImage ==
    /\ looping
    /\ LET read == ImageRead(image, IoBufSize)
       IN  LoopTurnOn(read.bytes) /\ image' = read.image
    /\ UNCHANGED <<way, hasher, chunk, digests>>

TakeDigest ==
    /\ answer.kind = "bytes" /\ Finalize
    /\ digests' = [digests EXCEPT ![way] = answer']
    /\ UNCHANGED <<way, image, hasher, chunk>>

(* The next test makes the same image, and a reader, anew. *)
StartOver(next) ==
    /\ answer.kind = "digest" /\ way' = next
    /\ image' = NewImage(Len(stream))
    /\ sponge' = NewSponge /\ buf' = [i \in 1..IoBufSize |-> 0] /\ bytes_consumed' = 0
    /\ read_pos' = 0 /\ answer' = None /\ finals' = 0
    /\ UNCHANGED <<stream, looping, hasher, chunk, digests>>

ReaderTest == way = "reader" /\ (BeginAll \/ ReadImage \/ TakeDigest \/ StartOver("hash_reader"))

HashReader == way = "hash_reader" /\ (BeginAll \/ ReadImage \/ TakeDigest \/ StartOver("update"))

(* Mutant of UpdateTurn: the whole chunk is hashed after a short read. *)
UpdateTurnWhole ==
    LET read == ImageRead(image, GenChunk)
    IN  /\ way = "update" /\ read.bytes # <<>>
        /\ chunk' = CopyInto(chunk, 0, read.bytes)
        /\ hasher' = Absorb(hasher, chunk')
        /\ image' = read.image
        /\ UNCHANGED <<vars, way, digests>>

UpdateTurn ==
    LET read == ImageRead(image, GenChunk)
    IN  /\ way = "update" /\ read.bytes # <<>>
        /\ chunk' = CopyInto(chunk, 0, read.bytes)
        /\ hasher' = Absorb(hasher, SubSeq(chunk', 1, Len(read.bytes)))
        /\ image' = read.image
        /\ UNCHANGED <<vars, way, digests>>

(* An empty read breaks the loop. *)
UpdateEnd ==
    LET read == ImageRead(image, GenChunk)
    IN  /\ way = "update" /\ read.bytes = <<>>
        /\ way' = "done" /\ image' = read.image
        /\ hasher' = FinalizeSponge(hasher)
        /\ digests' = [digests EXCEPT ![way] = Sha3Digest(Squeeze(hasher'.state))]
        /\ UNCHANGED <<vars, chunk>>

StressTest == ReaderTest \/ HashReader \/ UpdateTurn \/ UpdateEnd

IntegritySpec ==
    /\ IntegrityInit /\ [][OtherCaller \/ StressTest]_integrityVars
    /\ WF_integrityVars(OtherCaller /\ LoopTurn)
    /\ WF_integrityVars(StressTest)
-----------------------------------------------------------------------------
(* The two assert_eq of the example, and what their digest is. *)
AllAgree == \A w \in Ways : digests[w] = Sha3Digest(Digest(stream))

(* Whatever the lengths of the staging buffer, the chunk, a block and the  *)
(* image are to each other, the example ends, and the three ways give the  *)
(* digest of the image as one read of all of it gives it: the assertions   *)
(* hold (large_file_integrity.rs, main and SyntheticImage::read).          *)
StressTestPasses ==
    way = "reader" ~> way = "done" /\ AllAgree
=============================================================================
