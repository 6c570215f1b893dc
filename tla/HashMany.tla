------------------------------ MODULE HashMany ------------------------------
(***************************************************************************)
(* Sha3_512Kernel::hash_many (lib.rs): a list of independent messages is   *)
(* cut into chunks of the batch width; the sponges of a chunk advance in   *)
(* lockstep, one block of each message that still has one, one shared      *)
(* permutation of every lane, then the digests of the messages whose last  *)
(* block that was.  Width 1 hashes each message with a hasher of its own.  *)
(*                                                                         *)
(* A lane is a Keccak state that may hold a block XORed in and not yet     *)
(* permuted.  A permutation with no new block absorbs a block of zeros.    *)
(***************************************************************************)
EXTENDS Sponge, Paths

CONSTANTS Batches,    \* the lists of messages a caller passes
          Cpus        \* the CPUs the code may run on

ASSUME BatchAssumption == Batches \subseteq Seq(Seq(Byte)) /\ Cpus \subseteq SUBSET Feature

VARIABLES
    cpu, config,   \* the CPU, and Sha3_512Kernel::config
    pc,            \* where hash_many is
    messages,      \* its argument
    width,         \* lanes of a batch
    done,          \* messages in finished chunks
    block_idx, states, out, \* locals of hash_batch_x8 and hash_batch_x4
    results

vars == <<cpu, config, pc, messages, width, done, block_idx, states, out, results>>

batchVars == <<block_idx, states, out>>
callVars == <<cpu, config, messages, width>>

ZeroLane == [absorbed |-> <<>>, pending |-> <<>>]

XorInto(lane, block) == [absorbed |-> lane.absorbed, pending |-> lane.pending \o block]

ZeroBlock == [i \in 1..Rate |-> 0]

PermuteLane(lane) ==
    [absorbed |-> lane.absorbed \o (IF lane.pending = <<>> THEN ZeroBlock ELSE lane.pending),
     pending  |-> <<>>]

(* The digest of a message, as the lane it is squeezed from. *)
LaneDigest(msg) == [absorbed |-> PadMessage(msg), pending |-> <<>>]

(* Mutant of NumBlocks: no block for the padding of a full last block. *)
NumBlocksUnpadded(msg) == (Len(msg) + Rate - 1) \div Rate

NumBlocks(msg) == Len(PadMessage(msg)) \div Rate

BlockAt(msg, idx) == SubSeq(PadMessage(msg), idx * Rate + 1, idx * Rate + Rate)

ChunkEnd == IF done + width <= Len(messages) THEN done + width ELSE Len(messages)

Chunk == SubSeq(messages, done + 1, ChunkEnd)

(* A fresh scalar hasher, used for one message. *)
ScalarHash(msg) ==
    [absorbed |-> FinalizeSponge(Absorb(NewSponge, msg)).state, pending |-> <<>>]

Init ==
    /\ cpu \in Cpus /\ config \in Config
    /\ pc = "idle" /\ messages = <<>> /\ width = 1 /\ done = 0
    /\ block_idx = 0 /\ states = <<>> /\ out = <<>> /\ results = <<>>

UpdateConfig(c) ==
    /\ pc = "idle"
    /\ config' = c
    /\ UNCHANGED <<cpu, pc, messages, width, done, batchVars, results>>

Call(ms) ==
    /\ pc = "idle"
    /\ messages' = ms
    /\ width' = BatchWidth(config, cpu)
    /\ results' = <<>> /\ done' = 0
    /\ pc' = "chunk"
    /\ UNCHANGED <<cpu, config, batchVars>>

HashScalar ==
    /\ pc = "chunk" /\ done < Len(messages) /\ BatchPath(width) = "scalar"
    /\ results' = results \o [i \in 1..Len(Chunk) |-> ScalarHash(Chunk[i])]
    /\ done' = ChunkEnd
    /\ UNCHANGED <<callVars, pc, batchVars>>

(* Mutant of StartBatch: as many lanes as messages. *)
StartShortBatch ==
    /\ pc = "chunk" /\ done < Len(messages) /\ BatchPath(width) # "scalar"
    /\ states' = [i \in 1..Len(Chunk) |-> ZeroLane]
    /\ out' = [i \in 1..Len(Chunk) |-> ZeroLane]
    /\ block_idx' = 0
    /\ pc' = "xor"
    /\ UNCHANGED <<callVars, done, results>>

StartBatch ==
    /\ pc = "chunk" /\ done < Len(messages) /\ BatchPath(width) # "scalar"
    /\ states' = [i \in 1..width |-> ZeroLane]
    /\ out' = [i \in 1..Len(Chunk) |-> ZeroLane]
    /\ block_idx' = 0
    /\ pc' = "xor"
    /\ UNCHANGED <<callVars, done, results>>

(* block_idx < max_blocks: some message of the chunk has such a block. *)
BlocksLeft == \E i \in 1..Len(Chunk) : block_idx < NumBlocks(Chunk[i])

XorBlocks ==
    /\ pc = "xor" /\ BlocksLeft
    /\ states' = [i \in 1..width |->
           IF i <= Len(Chunk) /\ block_idx < NumBlocks(Chunk[i])
           THEN XorInto(states[i], BlockAt(Chunk[i], block_idx))
           ELSE states[i]]
    /\ pc' = "permute"
    /\ UNCHANGED <<callVars, done, block_idx, out, results>>

PermuteAll ==
    /\ pc = "permute"
    /\ states' = [i \in 1..width |-> PermuteLane(states[i])]
    /\ pc' = "squeeze"
    /\ UNCHANGED <<callVars, done, block_idx, out, results>>

(* Mutant of SqueezeFinished: a finished lane is read again in each round. *)
SqueezeFromThenOn ==
    /\ pc = "squeeze"
    /\ out' = [i \in 1..Len(Chunk) |->
           IF block_idx >= NumBlocks(Chunk[i]) - 1 THEN states[i] ELSE out[i]]
    /\ block_idx' = block_idx + 1
    /\ pc' = "xor"
    /\ UNCHANGED <<callVars, done, states, results>>

SqueezeFinished ==
    /\ pc = "squeeze"
    /\ out' = [i \in 1..Len(Chunk) |->
           IF block_idx = NumBlocks(Chunk[i]) - 1 THEN states[i] ELSE out[i]]
    /\ block_idx' = block_idx + 1
    /\ pc' = "xor"
    /\ UNCHANGED <<callVars, done, states, results>>

(* The batch returns its digests and drops its locals. *)
FinishBatch ==
    /\ pc = "xor" /\ ~BlocksLeft
    /\ results' = results \o out
    /\ done' = ChunkEnd
    /\ pc' = "chunk"
    /\ block_idx' = 0 /\ states' = <<>> /\ out' = <<>>
    /\ UNCHANGED callVars

(* Mutant of Return: a last chunk that is not full is dropped. *)
ReturnFullChunks ==
    /\ pc = "chunk" /\ done + width > Len(messages)
    /\ pc' = "idle"
    /\ UNCHANGED <<callVars, done, batchVars, results>>

Return ==
    /\ pc = "chunk" /\ done = Len(messages)
    /\ pc' = "idle"
    /\ UNCHANGED <<callVars, done, batchVars, results>>

Run == HashScalar \/ StartBatch \/ XorBlocks \/ PermuteAll \/ SqueezeFinished
           \/ FinishBatch \/ Return

Next ==
    \/ \E c \in Config : UpdateConfig(c)
    \/ \E ms \in Batches : Call(ms)
    \/ Run

(* A call that has started runs to its end: nothing in it waits. *)
Spec == Init /\ [][Next]_vars /\ WF_vars(Run)
-----------------------------------------------------------------------------
Lane == [absorbed : Seq(Byte), pending : Seq(Byte)]

TypeOK ==
    /\ cpu \in Cpus /\ config \in Config
    /\ pc \in {"idle", "chunk", "xor", "permute", "squeeze"}
    /\ messages \in Seq(Seq(Byte)) /\ width \in {1, Narrow, Wide}
    /\ done \in 0..Len(messages) /\ block_idx \in Nat
    /\ results \in Seq(Lane)
    /\ pc \in {"xor", "permute", "squeeze"} =>
           /\ done < Len(messages) /\ width # 1
           /\ states \in [1..width -> Lane] /\ out \in [1..Len(Chunk) -> Lane]

(* The results gathered so far are the digests of the first messages, in   *)
(* order: no chunk is lost, repeated or out of place, and neither the      *)
(* batch width nor the lengths of the neighbours in a batch show           *)
(* (lib.rs, hash_many: one digest per input message, in the same order).   *)
ResultsInOrder ==
    /\ Len(results) = done
    /\ \A i \in 1..done : results[i] = LaneDigest(messages[i])

(* In a batch, a message whose blocks are used up has its own digest in    *)
(* its slot, whatever the rounds that go on for longer messages do to its  *)
(* lane since; the other lanes hold exactly the blocks before block_idx    *)
(* (lib.rs, hash_batch_x8, the Algorithm section).                         *)
CapturedInTime ==
    pc = "xor" =>
        \A i \in 1..Len(Chunk) :
            IF block_idx >= NumBlocks(Chunk[i])
            THEN out[i] = LaneDigest(Chunk[i])
            ELSE states[i] = [absorbed |-> SubSeq(PadMessage(Chunk[i]), 1, block_idx * Rate),
                              pending  |-> <<>>]

(* The implementation a batch runs on is one the CPU can execute, even if  *)
(* the configuration changed between calls (lib.rs, the SAFETY comments).  *)
BatchIsSupported ==
    pc # "idle" => Requires[BatchPath(width)] \subseteq cpu

(* hash_many implements ManyHash: a call returns the digests of its        *)
(* messages, one for each and in order, and every call returns.            *)
Abs == INSTANCE ManyHash WITH
           batch    <- messages,
           busy     <- pc # "idle",
           answer   <- IF pc = "idle" THEN results ELSE <<>>

Promise == Abs!ManySpec
=============================================================================
