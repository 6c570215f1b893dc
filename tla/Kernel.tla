------------------------------- MODULE Kernel -------------------------------
(***************************************************************************)
(* The single-message API of Sha3_512Kernel (lib.rs): update, finalize,    *)
(* reset, hash and hash_memory_region, in every order a caller may choose, *)
(* the orders the documentation advises against included.                  *)
(*                                                                         *)
(* The methods take &mut self, so a call is one step.  `fed' and `finals'  *)
(* are history: the bytes passed to the hasher since it was last new,      *)
(* reset or reused by hash, and how often it was finalized since.          *)
(***************************************************************************)
EXTENDS LaneSponge

CONSTANTS Data,         \* the byte strings a caller passes
          Memory,       \* the bytes hash_memory_region may read, by address
          Regions,      \* the [base, size] pairs a caller passes to it
          MaxHashSize,  \* MAX_HASH_SIZE
          MaxAbsorbed   \* bound: bytes a sponge absorbs before a reset

ASSUME KernelAssumption ==
    /\ Data \subseteq Seq(Byte)
    /\ MaxHashSize \in Nat /\ MaxAbsorbed \in Nat
    /\ Regions \subseteq [base : Nat, size : Nat]
    \* the unsafe contract: a region that is read is valid memory
    /\ \A r \in Regions : r.size <= MaxHashSize =>
           \A k \in 1..r.size : r.base + k - 1 \in DOMAIN Memory /\ Memory[r.base + k - 1] \in Byte

VARIABLES sponge,     \* Sha3_512Kernel::state, its lanes as the blocks absorbed
          lanes,      \* its lanes as they are
          returned,   \* the digests the last call returned
          output,     \* and their bytes
          fed, finals \* history

vars == <<sponge, lanes, returned, output, fed, finals>>

Init ==
    /\ sponge = NewSponge /\ lanes = ZeroLanes
    /\ returned = <<>> /\ output = <<>>
    /\ fed = <<>> /\ finals = 0

Room(n) == Len(sponge.state) + sponge.pos + n <= MaxAbsorbed

Update(data) ==
    /\ Room(Len(data))
    /\ sponge' = Absorb(sponge, data) /\ lanes' = AbsorbLanes(lanes, sponge, data)
    /\ returned' = <<>> /\ output' = <<>>
    /\ fed' = fed \o data /\ UNCHANGED finals

Finalize ==
    /\ Room(Rate)
    /\ sponge' = FinalizeSponge(sponge) /\ lanes' = FinalizeLanes(lanes, sponge)
    /\ returned' = <<Squeeze(sponge'.state)>> /\ output' = <<SqueezeLanes(lanes')>>
    /\ finals' = finals + 1 /\ UNCHANGED fed

Reset ==
    /\ sponge' = ResetSponge(sponge) /\ lanes' = ZeroLanes
    /\ returned' = <<>> /\ output' = <<>>
    /\ fed' = <<>> /\ finals' = 0

(* Mutant of Hash: no reset before the message. *)
HashUnreset(data) ==
    /\ sponge' = FinalizeSponge(Absorb(sponge, data))
    /\ lanes' = FinalizeLanes(AbsorbLanes(lanes, sponge, data), Absorb(sponge, data))
    /\ returned' = <<Squeeze(sponge'.state)>> /\ output' = <<SqueezeLanes(lanes')>>
    /\ fed' = data /\ finals' = 1

Hash(data) ==
    /\ LET new == ResetSponge(sponge)
       IN  /\ sponge' = FinalizeSponge(Absorb(new, data))
           /\ lanes' = FinalizeLanes(AbsorbLanes(ZeroLanes, new, data), Absorb(new, data))
    /\ returned' = <<Squeeze(sponge'.state)>> /\ output' = <<SqueezeLanes(lanes')>>
    /\ fed' = data /\ finals' = 1

RefusedSize(n) == n = 0 \/ n > MaxHashSize

Slice(r) == [k \in 1..r.size |-> Memory[r.base + k - 1]]

HashMemoryRegion(r) ==
    \/ /\ RefusedSize(r.size)
       /\ returned' = <<ZeroDigest>> /\ output' = <<ZeroHash>>
       /\ UNCHANGED <<sponge, lanes, fed, finals>>
    \/ /\ ~RefusedSize(r.size)
       /\ Hash(Slice(r))

Next ==
    \/ \E data \in Data : Update(data) \/ Hash(data)
    \/ Finalize
    \/ Reset
    \/ \E r \in Regions : HashMemoryRegion(r)

Spec == Init /\ [][Next]_vars
-----------------------------------------------------------------------------
(***************************************************************************)
(* Properties.                                                             *)
(***************************************************************************)

(* The sponge keeps whole blocks in the state and less than one block in   *)
(* the buffer: finalize can always write its domain byte at buffer[pos]    *)
(* inside the block (lib.rs, absorb and finalize; `pos' is documented as   *)
(* 0..rate).                                                               *)
TypeOK ==
    /\ sponge \in SpongeType
    /\ Len(sponge.state) % Rate = 0
    /\ returned \in Seq(Seq(Byte))
    /\ fed \in Seq(Byte) /\ finals \in Nat

(* However the bytes were split over update calls, a hasher that was not   *)
(* finalized since its last reset stands for exactly the bytes fed to it:  *)
(* none lost at a block boundary, none stale in the buffer, none repeated. *)
(* A finalized one stands for a message longer by one block per finalize,  *)
(* so it can never stand for what was fed (lib.rs, update and finalize).   *)
StandsForWhatWasFed ==
    /\ finals = 0 => MessageOf(sponge) = fed
    /\ Len(MessageOf(sponge)) = Len(fed) + finals * Rate

(* finalize returns the digest of the bytes fed since the last reset if    *)
(* and only if it is the first finalize since then: this is why the doc of *)
(* Sha3_512Kernel::finalize demands a reset before reuse.                  *)
GenuineOnlyWhenFresh ==
    [][Finalize => (returned' = <<Digest(fed)>> <=> finals = 0)]_vars

(* The lanes hold what the recorded blocks make of zero lanes when they    *)
(* are absorbed one by one, whether a block came through the buffer, right *)
(* from the input or from padding, and whatever the calls were; so every   *)
(* digest is, byte for byte, the one of the blocks recorded for it, and    *)
(* the first since a reset is SHA3(fed) (lib.rs, absorb, finalize and      *)
(* xor_block_into_state).                                                  *)
LanesFollowBlocks ==
    /\ lanes = LanesAfter(sponge.state)
    /\ output = [i \in 1..Len(returned) |-> HashBytes(returned[i])]

(* The API implements IncrementalHash, misuse included: the abstract       *)
(* message is what was absorbed plus what waits in the buffer.             *)
Readable == {Slice(r) : r \in {q \in Regions : ~RefusedSize(q.size)}}

Abs == INSTANCE IncrementalHash WITH msg <- MessageOf(sponge)

Promise == Abs!HashSpec
=============================================================================
