---------------------------- MODULE KernelProofs ----------------------------
(***************************************************************************)
(* What holds of the API of Sha3_512Kernel for every rate, lane width,     *)
(* buffer length, memory and set of inputs, after every sequence of calls, *)
(* the misuses included: first of the calls for a single message, then of  *)
(* hash_memory_regions, in any order with them, and of the example that    *)
(* displays its digests.  The lemmas about absorb and finalize are in      *)
(* SpongeProofs.                                                           *)
(***************************************************************************)
EXTENDS KernelExample, SpongeProofs

(* The inductive invariant is the conjunction of the two invariants. *)
Inv == TypeOK /\ StandsForWhatWasFed

LEMMA ResetIsNew ==
  ASSUME NEW s
  PROVE  ResetSponge(s) = NewSponge
BY DEF ResetSponge, NewSponge

LEMMA OneDigest ==
  ASSUME NEW x \in Seq(Byte)
  PROVE  <<x>> \in Seq(Seq(Byte))
OBVIOUS

(* The bytes of a region that is not refused. *)
LEMMA SliceType ==
  ASSUME NEW r \in Regions, ~RefusedSize(r.size)
  PROVE  Slice(r) \in Seq(Byte)
<1>1. r.size \in Nat /\ r.size <= MaxHashSize
  BY KernelAssumption DEF RefusedSize
<1>2. \A k \in 1..r.size : Memory[r.base + k - 1] \in Byte
  BY <1>1, KernelAssumption
<1>3. Slice(r) \in [1..r.size -> Byte]
  BY <1>2 DEF Slice
<1>4. QED
  BY <1>1, <1>3, FunctionIsSeq

-----------------------------------------------------------------------------
(* What each call does to the message the hasher stands for. *)

LEMMA UpdateEffect ==
  ASSUME Inv, NEW d \in Seq(Byte), Update(d)
  PROVE  /\ sponge' \in SpongeType /\ Len(sponge'.state) % Rate = 0
         /\ MessageOf(sponge') = MessageOf(sponge) \o d
BY AbsorbAppends DEF Inv, TypeOK, Update

LEMMA FinalizeEffect ==
  ASSUME Inv, Finalize
  PROVE  /\ sponge' \in SpongeType /\ Len(sponge'.state) % Rate = 0
         /\ sponge'.state = PadMessage(MessageOf(sponge))
         /\ returned' = <<PadMessage(MessageOf(sponge))>>
         /\ MessageOf(sponge') = PadMessage(MessageOf(sponge)) \o PartialBlock(MessageOf(sponge))
         /\ Len(MessageOf(sponge')) = Len(MessageOf(sponge)) + Rate
BY FinalizePads DEF Inv, TypeOK, Finalize, Squeeze

LEMMA HashEffect ==
  ASSUME NEW d \in Seq(Byte), Hash(d)
  PROVE  /\ sponge' \in SpongeType /\ Len(sponge'.state) % Rate = 0
         /\ sponge'.state = PadMessage(d)
         /\ returned' = <<PadMessage(d)>>
         /\ MessageOf(sponge') = PadMessage(d) \o PartialBlock(d)
         /\ Len(MessageOf(sponge')) = Len(d) + Rate
BY ResetIsNew, OneShotPads DEF Hash, Squeeze

(* A padded message, and the partial block behind it, are byte strings. *)
LEMMA PadType ==
  ASSUME NEW m \in Seq(Byte)
  PROVE  PadMessage(m) \in Seq(Byte)
BY PadMessageBytes

-----------------------------------------------------------------------------
(***************************************************************************)
(* Every reachable hasher is well typed, keeps whole blocks in the state   *)
(* and less than one block in the buffer; it stands for exactly the bytes  *)
(* fed to it, however they were split over calls, until it is finalized,   *)
(* and for a message one block longer per finalize after that.             *)
(***************************************************************************)
LEMMA InitInv == Init => Inv
<1> SUFFICES ASSUME Init PROVE Inv
  OBVIOUS
<1>1. sponge = NewSponge /\ returned = <<>> /\ fed = <<>> /\ finals = 0
  BY DEF Init
<1>2. TypeOK
  BY <1>1, NewSpongeEmpty DEF TypeOK
<1>3. Len(MessageOf(sponge)) = Len(fed) + finals * Rate
  <2>1. Len(<<>>) = 0 /\ 0 * Rate = 0
    BY RateAssumption, EmptySeq
  <2>2. QED
    BY <1>1, <2>1, NewSpongeEmpty
<1>4. QED
  BY <1>1, <1>2, <1>3, NewSpongeEmpty DEF Inv, StandsForWhatWasFed

LEMMA HashKeepsInv ==
  ASSUME Inv, NEW d \in Seq(Byte), Hash(d)
  PROVE  Inv'
<1>1. /\ sponge' \in SpongeType /\ Len(sponge'.state) % Rate = 0
      /\ returned' = <<PadMessage(d)>>
      /\ Len(MessageOf(sponge')) = Len(d) + Rate
  BY HashEffect
<1>2. fed' = d /\ finals' = 1
  BY DEF Hash
<1>3. returned' \in Seq(Seq(Byte))
  BY <1>1, PadType, OneDigest
<1>4. TypeOK'
  BY <1>1, <1>2, <1>3 DEF TypeOK
<1>5. 1 * Rate = Rate
  BY RateAssumption
<1>6. QED
  BY <1>1, <1>2, <1>4, <1>5 DEF Inv, StandsForWhatWasFed

LEMMA NextInv == Inv /\ [Next]_vars => Inv'
<1> SUFFICES ASSUME Inv, [Next]_vars PROVE Inv'
  OBVIOUS
<1>0. /\ sponge \in SpongeType /\ Len(sponge.state) % Rate = 0
      /\ returned \in Seq(Seq(Byte)) /\ fed \in Seq(Byte) /\ finals \in Nat
      /\ finals = 0 => MessageOf(sponge) = fed
      /\ Len(MessageOf(sponge)) = Len(fed) + finals * Rate
      /\ MessageOf(sponge) \in Seq(Byte)
  BY MessageType DEF Inv, TypeOK, StandsForWhatWasFed
<1>1. ASSUME NEW d \in Data, Update(d)
      PROVE  Inv'
  <2>1. d \in Seq(Byte)
    BY KernelAssumption
  <2>2. /\ sponge' \in SpongeType /\ Len(sponge'.state) % Rate = 0
        /\ MessageOf(sponge') = MessageOf(sponge) \o d
    BY <1>1, <2>1, UpdateEffect
  <2>3. fed' = fed \o d /\ finals' = finals /\ returned' = <<>>
    BY <1>1 DEF Update
  <2>4. /\ Len(MessageOf(sponge')) = Len(MessageOf(sponge)) + Len(d)
        /\ Len(fed') = Len(fed) + Len(d) /\ fed' \in Seq(Byte)
    BY <1>0, <2>1, <2>2, <2>3, ConcatBytes
  <2>5. TypeOK'
    BY <1>0, <2>2, <2>3, <2>4 DEF TypeOK
  <2>6. Len(MessageOf(sponge')) = Len(fed') + finals' * Rate
    <3>1. Len(fed) \in Nat /\ Len(d) \in Nat /\ finals * Rate \in Nat
      BY <1>0, <2>1, OneMoreBlock, LenProperties
    <3>2. QED
      BY <1>0, <2>3, <2>4, <3>1
  <2>7. finals' = 0 => MessageOf(sponge') = fed'
    BY <1>0, <2>2, <2>3
  <2>8. QED
    BY <2>5, <2>6, <2>7 DEF Inv, StandsForWhatWasFed
<1>2. CASE Finalize
  <2>1. /\ sponge' \in SpongeType /\ Len(sponge'.state) % Rate = 0
        /\ returned' = <<PadMessage(MessageOf(sponge))>>
        /\ Len(MessageOf(sponge')) = Len(MessageOf(sponge)) + Rate
    BY <1>2, FinalizeEffect
  <2>2. fed' = fed /\ finals' = finals + 1
    BY <1>2 DEF Finalize
  <2>3. returned' \in Seq(Seq(Byte))
    BY <1>0, <2>1, PadType, OneDigest
  <2>4. TypeOK'
    BY <1>0, <2>1, <2>2, <2>3 DEF TypeOK
  <2>5. Len(MessageOf(sponge')) = Len(fed') + finals' * Rate
    <3>1. (finals + 1) * Rate = finals * Rate + Rate /\ finals * Rate \in Nat
      BY <1>0, OneMoreBlock
    <3>2. Len(fed) \in Nat
      BY <1>0, LenProperties
    <3>3. QED
      BY <1>0, <2>1, <2>2, <3>1, <3>2, RateAssumption
  <2>6. finals' # 0
    BY <1>0, <2>2
  <2>7. QED
    BY <2>4, <2>5, <2>6 DEF Inv, StandsForWhatWasFed
<1>3. CASE Reset
  <2>1. sponge' = NewSponge /\ returned' = <<>> /\ fed' = <<>> /\ finals' = 0
    BY <1>3, ResetIsNew DEF Reset
  <2>2. TypeOK'
    BY <2>1, NewSpongeEmpty DEF TypeOK
  <2>3. Len(<<>>) = 0 /\ 0 * Rate = 0
    BY RateAssumption, EmptySeq
  <2>4. QED
    BY <2>1, <2>2, <2>3, NewSpongeEmpty DEF Inv, StandsForWhatWasFed
<1>4. ASSUME NEW d \in Data, Hash(d)
      PROVE  Inv'
  BY <1>4, HashKeepsInv, KernelAssumption
<1>5. ASSUME NEW r \in Regions, HashMemoryRegion(r)
      PROVE  Inv'
  <2>1. CASE RefusedSize(r.size)
    <3>1. sponge' = sponge /\ fed' = fed /\ finals' = finals /\ returned' = <<ZeroDigest>>
      BY <1>5, <2>1 DEF HashMemoryRegion
    <3>2. returned' \in Seq(Seq(Byte))
      BY <3>1, OneDigest, EmptySeq DEF ZeroDigest
    <3>3. QED
      BY <1>0, <3>1, <3>2 DEF Inv, TypeOK, StandsForWhatWasFed
  <2>2. CASE ~RefusedSize(r.size)
    <3>1. Hash(Slice(r))
      BY <1>5, <2>2 DEF HashMemoryRegion
    <3>2. QED
      BY <2>2, <3>1, SliceType, HashKeepsInv
  <2>3. QED
    BY <2>1, <2>2
<1>6. CASE UNCHANGED vars
  BY <1>0, <1>6 DEF vars, Inv, TypeOK, StandsForWhatWasFed
<1>7. QED
  BY <1>1, <1>2, <1>3, <1>4, <1>5, <1>6 DEF Next

THEOREM Invariance == Spec => []Inv
BY InitInv, NextInv, PTL DEF Spec

(* The types, and the shape finalize relies on: see TypeOK. *)
THEOREM TypeCorrect == Spec => []TypeOK
<1>1. Inv => TypeOK
  BY DEF Inv
<1>2. QED
  BY <1>1, Invariance, PTL

(* Chunking never matters, and a spent hasher is always off by whole       *)
(* blocks: see StandsForWhatWasFed.                                        *)
THEOREM FedBytesAreKept == Spec => []StandsForWhatWasFed
<1>1. Inv => StandsForWhatWasFed
  BY DEF Inv
<1>2. QED
  BY <1>1, Invariance, PTL

-----------------------------------------------------------------------------
(***************************************************************************)
(* The first finalize since a reset returns the digest of the bytes fed;   *)
(* a later one, by injectivity of the padding, never does.                 *)
(***************************************************************************)
LEMMA FinalizeGenuine ==
  ASSUME Inv, Finalize
  PROVE  returned' = <<Digest(fed)>> <=> finals = 0
<1> DEFINE m == MessageOf(sponge)
<1>1. /\ fed \in Seq(Byte) /\ finals \in Nat /\ m \in Seq(Byte)
      /\ finals = 0 => m = fed
      /\ Len(m) = Len(fed) + finals * Rate
  BY MessageType DEF Inv, TypeOK, StandsForWhatWasFed
<1>2. returned' = <<PadMessage(m)>>
  BY FinalizeEffect
<1> HIDE DEF m
<1>3. CASE finals = 0
  BY <1>1, <1>2, <1>3 DEF Digest
<1>4. CASE finals # 0
  <2>1. finals * Rate # 0
    BY <1>1, <1>4, RateAssumption
  <2>2. m # fed
    <3>1. Len(fed) \in Nat /\ finals * Rate \in Nat
      BY <1>1, LenProperties, OneMoreBlock
    <3>2. Len(m) # Len(fed)
      BY <1>1, <2>1, <3>1
    <3>3. QED
      BY <3>2
  <2>3. PadMessage(m) # PadMessage(fed)
    BY <1>1, <2>2, PaddingInjective
  <2>4. QED
    BY <1>2, <1>4, <2>3 DEF Digest
<1>5. QED
  BY <1>3, <1>4

(* finalize is right exactly when the hasher is fresh: GenuineOnlyWhenFresh. *)
THEOREM FinalizeIsGenuine == Spec => GenuineOnlyWhenFresh
<1>1. Inv /\ [Next]_vars => [Finalize => (returned' = <<Digest(fed)>> <=> finals = 0)]_vars
  BY FinalizeGenuine
<1>2. QED
  BY <1>1, Invariance, PTL DEF Spec, GenuineOnlyWhenFresh

-----------------------------------------------------------------------------
(***************************************************************************)
(* The lanes.  The invariant is LanesFollowBlocks itself, with the types   *)
(* and the block boundaries of Inv: what a call does to the lanes depends  *)
(* on what waits in the buffer.                                            *)
(***************************************************************************)
Bytes(digests) == [i \in 1..Len(digests) |-> HashBytes(digests[i])]

LEMMA BytesOfNone == Bytes(<<>>) = <<>>
BY EmptySeq DEF Bytes

LEMMA BytesOfOne ==
  ASSUME NEW x
  PROVE  Bytes(<<x>>) = <<HashBytes(x)>>
BY DEF Bytes

(* Finalizing a sponge whose lanes follow its blocks: the lanes still do,  *)
(* and the bytes read from them are those of the digest.                   *)
LEMMA FinalizedLanes ==
  ASSUME NEW s \in SpongeType, Len(s.state) % Rate = 0,
         NEW l, l = FinalizeLanes(LanesAfter(s.state), s), NEW f, f = FinalizeSponge(s)
  PROVE  /\ l = LanesAfter(f.state)
         /\ <<SqueezeLanes(l)>> = Bytes(<<Squeeze(f.state)>>)
<1>1. l = LanesAfter(f.state)
  BY FinalizeFollows
<1>2. SqueezeLanes(l) = HashBytes(f.state) /\ Squeeze(f.state) = f.state
  BY <1>1 DEF HashBytes, Squeeze
<1>3. QED
  BY <1>1, <1>2, BytesOfOne

LEMMA HashLanes ==
  ASSUME NEW d \in Seq(Byte), Hash(d)
  PROVE  LanesFollowBlocks'
<1> DEFINE a == Absorb(NewSponge, d)
           l == AbsorbLanes(ZeroLanes, NewSponge, d)
<1>1. a \in SpongeType /\ Len(a.state) % Rate = 0
  BY NewSpongeEmpty, AbsorbAppends
<1>2. l = LanesAfter(a.state)
  <2>1. ZeroLanes = LanesAfter(NewSponge.state)
    BY NewSpongeEmpty, LanesOfNothing
  <2>2. QED
    BY <2>1, NewSpongeEmpty, AbsorbFollows
<1>3. /\ sponge' = FinalizeSponge(a) /\ lanes' = FinalizeLanes(l, a)
      /\ returned' = <<Squeeze(sponge'.state)>> /\ output' = <<SqueezeLanes(lanes')>>
  BY ResetIsNew DEF Hash
<1> HIDE DEF a, l
<1>4. /\ lanes' = LanesAfter(sponge'.state)
      /\ <<SqueezeLanes(lanes')>> = Bytes(<<Squeeze(sponge'.state)>>)
  BY <1>1, <1>2, <1>3, FinalizedLanes
<1>5. QED
  BY <1>3, <1>4 DEF LanesFollowBlocks, Bytes

LEMMA NextLanes == Inv /\ LanesFollowBlocks /\ [Next]_vars => LanesFollowBlocks'
<1> SUFFICES ASSUME Inv, LanesFollowBlocks, [Next]_vars PROVE LanesFollowBlocks'
  OBVIOUS
<1>0. /\ sponge \in SpongeType /\ Len(sponge.state) % Rate = 0
      /\ lanes = LanesAfter(sponge.state) /\ output = Bytes(returned)
  BY DEF Inv, TypeOK, LanesFollowBlocks, Bytes
<1>1. ASSUME NEW d \in Data, Update(d)
      PROVE  LanesFollowBlocks'
  <2>1. d \in Seq(Byte)
    BY KernelAssumption
  <2>2. lanes' = LanesAfter(sponge'.state)
    BY <1>0, <1>1, <2>1, AbsorbFollows DEF Update
  <2>3. output' = Bytes(returned')
    BY <1>1, BytesOfNone DEF Update
  <2>4. QED
    BY <2>2, <2>3 DEF LanesFollowBlocks, Bytes
<1>2. CASE Finalize
  <2>1. /\ sponge' = FinalizeSponge(sponge) /\ lanes' = FinalizeLanes(lanes, sponge)
        /\ returned' = <<Squeeze(sponge'.state)>> /\ output' = <<SqueezeLanes(lanes')>>
    BY <1>2 DEF Finalize
  <2>2. /\ lanes' = LanesAfter(sponge'.state)
        /\ <<SqueezeLanes(lanes')>> = Bytes(<<Squeeze(sponge'.state)>>)
    BY <1>0, <2>1, FinalizedLanes
  <2>3. QED
    BY <2>1, <2>2 DEF LanesFollowBlocks, Bytes
<1>3. CASE Reset
  <2>1. sponge'.state = <<>> /\ lanes' = ZeroLanes /\ returned' = <<>> /\ output' = <<>>
    BY <1>3, ResetIsNew, NewSpongeEmpty DEF Reset
  <2>2. QED
    BY <2>1, LanesOfNothing, BytesOfNone DEF LanesFollowBlocks, Bytes
<1>4. ASSUME NEW d \in Data, Hash(d)
      PROVE  LanesFollowBlocks'
  BY <1>4, HashLanes, KernelAssumption
<1>5. ASSUME NEW r \in Regions, HashMemoryRegion(r)
      PROVE  LanesFollowBlocks'
  <2>1. CASE RefusedSize(r.size)
    <3>1. /\ sponge' = sponge /\ lanes' = lanes
          /\ returned' = <<ZeroDigest>> /\ output' = <<ZeroHash>>
      BY <1>5, <2>1 DEF HashMemoryRegion
    <3>2. output' = Bytes(returned')
      BY <3>1, BytesOfOne, BytesOfNothing
    <3>3. QED
      BY <1>0, <3>1, <3>2 DEF LanesFollowBlocks, Bytes
  <2>2. CASE ~RefusedSize(r.size)
    <3>1. Hash(Slice(r))
      BY <1>5, <2>2 DEF HashMemoryRegion
    <3>2. QED
      BY <2>2, <3>1, SliceType, HashLanes
  <2>3. QED
    BY <2>1, <2>2
<1>6. CASE UNCHANGED vars
  BY <1>0, <1>6 DEF vars, LanesFollowBlocks, Bytes
<1>7. QED
  BY <1>1, <1>2, <1>3, <1>4, <1>5, <1>6 DEF Next

(* The lanes are those of the recorded blocks and the bytes returned those *)
(* of the recorded digests, for any permutation: see LanesFollowBlocks.    *)
THEOREM LanesFollow == Spec => []LanesFollowBlocks
<1>1. Init => LanesFollowBlocks
  BY NewSpongeEmpty, LanesOfNothing, BytesOfNone DEF Init, LanesFollowBlocks, Bytes
<1>2. QED
  BY <1>1, NextLanes, Invariance, PTL DEF Spec

(* So the bytes the first finalize since a reset returns are those of      *)
(* SHA3 of what was fed, padded in one piece, whatever the chunks were,    *)
(* and hash returns those of SHA3 of its argument.                         *)
GenuineBytes ==
    [][/\ Finalize /\ finals = 0 => output' = <<SHA3(fed)>>
       /\ \A d \in Data : Hash(d) => output' = <<SHA3(d)>>]_vars

(* The bytes a caller gets are those of SHA3: see GenuineBytes.            *)
THEOREM BytesAreGenuine == Spec => GenuineBytes
<1>1. ASSUME Inv, LanesFollowBlocks', [Next]_vars, Finalize, finals = 0
      PROVE  output' = <<SHA3(fed)>>
  <2>1. returned' = <<Digest(fed)>>
    BY <1>1, FinalizeGenuine
  <2>2. output' = Bytes(<<Digest(fed)>>)
    BY <1>1, <2>1 DEF LanesFollowBlocks, Bytes
  <2>3. QED
    BY <2>2, BytesOfOne DEF SHA3
<1>2. ASSUME LanesFollowBlocks', NEW d \in Data, Hash(d)
      PROVE  output' = <<SHA3(d)>>
  <2>1. returned' = <<Digest(d)>>
    BY <1>2, HashEffect, KernelAssumption DEF Digest
  <2>2. output' = Bytes(<<Digest(d)>>)
    BY <1>2, <2>1 DEF LanesFollowBlocks, Bytes
  <2>3. QED
    BY <2>2, BytesOfOne DEF SHA3
<1> DEFINE Genuine == /\ Finalize /\ finals = 0 => output' = <<SHA3(fed)>>
                      /\ \A d \in Data : Hash(d) => output' = <<SHA3(d)>>
<1>3. Inv /\ LanesFollowBlocks' /\ [Next]_vars => Genuine
  BY <1>1, <1>2
<1>4. Inv /\ LanesFollowBlocks' /\ [Next]_vars => [Genuine]_vars
  BY <1>3
<1>5. QED
  BY <1>4, Invariance, LanesFollow, PTL DEF Spec, GenuineBytes

-----------------------------------------------------------------------------
(***************************************************************************)
(* The API implements IncrementalHash.                                     *)
(***************************************************************************)
LEMMA AbsPadding ==
  ASSUME NEW m
  PROVE  /\ Abs!PadMessage(m) = PadMessage(m)
         /\ Abs!Digest(m) = Digest(m)
         /\ Abs!PartialBlock(m) = PartialBlock(m)
         /\ Abs!ZeroDigest = ZeroDigest
BY DEF Abs!PadMessage, PadMessage, Abs!Digest, Digest, Abs!PartialBlock, PartialBlock,
       Abs!ZeroDigest, ZeroDigest, Abs!PaddedLen, PaddedLen, Abs!OrHighBit, OrHighBit,
       Abs!SHA3DomainByte, SHA3DomainByte

LEMMA HashIsOneShot ==
  ASSUME NEW d \in Seq(Byte), Hash(d)
  PROVE  Abs!OneShot(d)
BY HashEffect, AbsPadding DEF Abs!OneShot, Abs!AfterFinalize, Digest

LEMMA StepSimulates == Inv /\ [Next]_vars => [Abs!HashNext]_(Abs!hashVars)
<1> SUFFICES ASSUME Inv, [Next]_vars PROVE [Abs!HashNext]_(Abs!hashVars)
  OBVIOUS
<1>1. ASSUME NEW d \in Data, Update(d)
      PROVE  Abs!HashNext
  <2>1. d \in Seq(Byte)
    BY KernelAssumption
  <2>2. MessageOf(sponge') = MessageOf(sponge) \o d /\ returned' = <<>>
    BY <1>1, <2>1, UpdateEffect DEF Update
  <2>3. QED
    BY <2>2 DEF Abs!HashNext, Abs!Feed
<1>2. CASE Finalize
  <2>1. Abs!TakeDigest
    BY <1>2, FinalizeEffect, AbsPadding DEF Abs!TakeDigest, Abs!AfterFinalize, Digest
  <2>2. QED
    BY <2>1 DEF Abs!HashNext
<1>3. CASE Reset
  <2>1. MessageOf(sponge') = <<>> /\ returned' = <<>>
    BY <1>3, ResetIsNew, NewSpongeEmpty DEF Reset
  <2>2. QED
    BY <2>1 DEF Abs!HashNext, Abs!Forget
<1>4. ASSUME NEW d \in Data, Hash(d)
      PROVE  Abs!HashNext
  <2>1. Abs!OneShot(d)
    BY <1>4, HashIsOneShot, KernelAssumption
  <2>2. QED
    BY <2>1 DEF Abs!HashNext
<1>5. ASSUME NEW r \in Regions, HashMemoryRegion(r)
      PROVE  Abs!HashNext
  <2>1. CASE RefusedSize(r.size)
    <3>1. sponge' = sponge /\ returned' = <<ZeroDigest>>
      BY <1>5, <2>1 DEF HashMemoryRegion
    <3>2. Abs!Refuse
      BY <3>1, AbsPadding DEF Abs!Refuse
    <3>3. QED
      BY <3>2 DEF Abs!HashNext
  <2>2. CASE ~RefusedSize(r.size)
    <3>1. Hash(Slice(r)) /\ Slice(r) \in Readable
      BY <1>5, <2>2 DEF HashMemoryRegion, Readable
    <3>2. Abs!OneShot(Slice(r))
      BY <2>2, <3>1, SliceType, HashIsOneShot
    <3>3. QED
      BY <3>1, <3>2 DEF Abs!HashNext
  <2>3. QED
    BY <2>1, <2>2
<1>6. CASE UNCHANGED vars
  BY <1>6 DEF vars, Abs!hashVars
<1>7. QED
  BY <1>1, <1>2, <1>3, <1>4, <1>5, <1>6 DEF Next

(* Every run of the API, misuse included, is a run of IncrementalHash on   *)
(* the message the sponge stands for: see Promise.                         *)
THEOREM ImplementsPromise == Spec => Promise
<1>1. Init => Abs!HashInit
  BY NewSpongeEmpty DEF Init, Abs!HashInit
<1>2. QED
  BY <1>1, StepSimulates, Invariance, PTL DEF Spec, Promise, Abs!HashSpec

-----------------------------------------------------------------------------
(***************************************************************************)
(* hash_memory_regions, and the example that displays its digests.         *)
(***************************************************************************)
RegionType == [base : Nat, size : Nat, is_readable : BOOLEAN]

(* A list is one the caller may pass: what the unsafe contract is about.   *)
Listed == regions = <<>> \/ regions \in RegionLists

(* The inductive invariant: Inv of the hasher between the regions, and the *)
(* positions of the regions hashed.                                        *)
RegionsInv ==
    /\ Inv /\ Listed
    /\ RegionsTypeOK /\ OneDigestPerAccepted /\ KeepsOrLosesProgress

(* The pair of a region that hash_memory_region is called with. *)
Pair(r) == [base |-> r.base, size |-> r.size]

LEMMA ListType ==
  ASSUME NEW rs \in RegionLists
  PROVE  /\ rs \in Seq(RegionType)
         /\ \A i \in 1..Len(rs) : Accepted(rs[i]) => Pair(rs[i]) \in Regions
BY RegionListAssumption DEF RegionType, Accepted, Pair

LEMMA HashedRegion ==
  ASSUME Listed, RegionsTypeOK, HashNext
  PROVE  LET r == regions[next + 1]
         IN  /\ next + 1 \in 1..Len(regions) /\ Accepted(r)
             /\ Pair(r) \in Regions /\ HashMemoryRegion(Pair(r))
             /\ Slice(r) \in Seq(Byte) /\ Hash(Slice(r))
             /\ returned' = <<Digest(Slice(r))>>
<1> DEFINE r == regions[next + 1]
<1>1. next + 1 \in 1..Len(regions) /\ Accepted(r) /\ HashMemoryRegion(r)
  <2>1. next \in Nat /\ Len(regions) \in Nat /\ next < Len(regions)
    BY LenProperties DEF RegionsTypeOK, HashNext
  <2>2. QED
    BY <2>1 DEF HashNext
<1>2. regions \in RegionLists
  <2>1. regions # <<>>
    BY <1>1, EmptySeq
  <2>2. QED
    BY <2>1 DEF Listed
<1>3. Pair(r) \in Regions /\ r \in RegionType
  BY <1>1, <1>2, ListType, ElementOfSeq
<1>4. Slice(Pair(r)) = Slice(r) /\ Pair(r).size = r.size
  BY DEF Pair, Slice
<1>5. ~RefusedSize(r.size)
  BY <1>1, <1>3, KernelAssumption DEF Accepted, RefusedSize, RegionType
<1>6. Hash(Slice(r))
  BY <1>1, <1>5 DEF HashMemoryRegion
<1>7. Slice(r) \in Seq(Byte)
  BY <1>3, <1>4, <1>5, SliceType
<1>8. HashMemoryRegion(Pair(r))
  BY <1>4, <1>5, <1>6 DEF HashMemoryRegion
<1>9. returned' = <<Digest(Slice(r))>>
  BY <1>6, <1>7, HashEffect DEF Digest
<1>10. QED
  BY <1>1, <1>3, <1>6, <1>7, <1>8, <1>9

(* Between the regions, and whatever the region, the hasher takes a step   *)
(* of the single-message API or none.                                      *)
LEMMA StepOfKernel ==
  ASSUME Listed, RegionsTypeOK, [RegionsNext]_allVars
  PROVE  [Next]_vars
<1>1. CASE HashNext
  BY <1>1, HashedRegion DEF Next
<1>2. CASE SkipNext \/ Collect \/ (\E rs \in RegionLists : Start(rs)) \/ UNCHANGED allVars
  BY <1>2 DEF SkipNext, Collect, Start, allVars
<1>3. CASE SingleMessage
  BY <1>3 DEF SingleMessage
<1>4. QED
  BY <1>1, <1>2, <1>3 DEF RegionsNext, Iterate

-----------------------------------------------------------------------------
LEMMA AppendPosition ==
  ASSUME NEW n \in Nat, NEW k \in Nat, k < n, NEW t \in Seq(1..n)
  PROVE  LET u == Append(t, k + 1)
         IN  /\ u \in Seq(1..n) /\ Len(u) = Len(t) + 1 /\ Len(t) \in Nat
             /\ \A i \in 1..Len(t) : u[i] = t[i] /\ i \in 1..Len(u)
             /\ u[Len(u)] = k + 1 /\ u # <<>>
<1> DEFINE u == Append(t, k + 1)
<1>1. k + 1 \in 1..n /\ Len(t) \in Nat
  BY LenProperties
<1>2. /\ u \in Seq(1..n) /\ Len(u) = Len(t) + 1
      /\ \A i \in 1..Len(t) : u[i] = t[i]
      /\ u[Len(t) + 1] = k + 1
  BY <1>1, AppendProperties
<1>3. u # <<>>
  BY <1>1, <1>2, EmptySeq
<1> HIDE DEF u
<1>4. \A i \in 1..Len(t) : i \in 1..Len(u)
  BY <1>1, <1>2
<1>5. u[Len(u)] = k + 1
  BY <1>2
<1>6. QED
  BY <1>1, <1>2, <1>3, <1>4, <1>5 DEF u

LEMMA EmptyList ==
  0 \in 0..Len(<<>>) /\ \A S : <<>> \in Seq(S)
<1>1. \A S : <<>> \in Seq(S) /\ Len(<<>>) = 0
  BY EmptySeq
<1>2. QED
  BY <1>1

LEMMA NothingTaken ==
  ASSUME next = 0, hashes = <<>>, taken = <<>>
  PROVE  OneDigestPerAccepted
<1>1. Len(<<>>) = 0 /\ 1..0 = {}
  BY EmptySeq
<1>2. QED
  BY <1>1 DEF OneDigestPerAccepted

LEMMA SkipKeeps ==
  ASSUME RegionsInv, SkipNext
  PROVE  RegionsInv'
<1>1. /\ busy /\ next' = next + 1 /\ ~Accepted(regions[next + 1])
      /\ UNCHANGED <<vars, busy, regions, hashes, taken, before>>
      /\ next \in Nat /\ Len(regions) \in Nat /\ next < Len(regions)
  BY LenProperties DEF SkipNext, RegionsInv, RegionsTypeOK
<1>2. Inv' /\ Listed'
  BY <1>1 DEF RegionsInv, Inv, TypeOK, StandsForWhatWasFed, Listed, vars
<1>3. RegionsTypeOK'
  BY <1>1 DEF RegionsInv, RegionsTypeOK
<1>4. OneDigestPerAccepted'
  <2>1. {k \in 1..(next + 1) : Accepted(regions[k])} = {k \in 1..next : Accepted(regions[k])}
    BY <1>1
  <2>2. QED
    BY <1>1, <2>1 DEF RegionsInv, OneDigestPerAccepted
<1>5. KeepsOrLosesProgress'
  BY <1>1 DEF RegionsInv, KeepsOrLosesProgress, vars
<1>6. QED
  BY <1>2, <1>3, <1>4, <1>5 DEF RegionsInv

LEMMA HashKeeps ==
  ASSUME RegionsInv, HashNext
  PROVE  RegionsInv'
<1> DEFINE r == regions[next + 1]
<1>0. Listed /\ RegionsTypeOK /\ OneDigestPerAccepted /\ Inv
  BY DEF RegionsInv
<1>1. /\ busy /\ next' = next + 1 /\ UNCHANGED <<busy, regions, before>>
      /\ hashes' = hashes \o returned' /\ taken' = Append(taken, next + 1)
      /\ next \in Nat /\ Len(regions) \in Nat /\ next < Len(regions)
  BY <1>0, LenProperties DEF HashNext, RegionsTypeOK
<1>2. /\ Accepted(r) /\ Slice(r) \in Seq(Byte) /\ Hash(Slice(r))
      /\ returned' = <<Digest(Slice(r))>>
  BY <1>0, HashedRegion
<1>3. Inv' /\ Listed'
  BY <1>0, <1>1, <1>2, HashKeepsInv DEF Listed
<1>4. /\ taken' \in Seq(1..Len(regions)) /\ Len(taken') = Len(taken) + 1 /\ Len(taken) \in Nat
      /\ \A i \in 1..Len(taken) : taken'[i] = taken[i] /\ i \in 1..Len(taken')
      /\ taken'[Len(taken')] = next + 1 /\ taken' # <<>>
  BY <1>0, <1>1, AppendPosition DEF RegionsTypeOK
<1>5. Digest(Slice(r)) \in Seq(Byte)
  BY <1>2, PadType DEF Digest
<1>6. hashes' = Append(hashes, Digest(Slice(r))) /\ hashes \in Seq(Seq(Byte))
  <2>1. hashes \in Seq(Seq(Byte))
    BY <1>0 DEF RegionsTypeOK
  <2>2. hashes \o <<Digest(Slice(r))>> = Append(hashes, Digest(Slice(r)))
    BY <1>5, <2>1, AppendIsConcat
  <2>3. QED
    BY <1>1, <1>2, <2>1, <2>2
<1>7. /\ hashes' \in Seq(Seq(Byte)) /\ Len(hashes') = Len(hashes) + 1
      /\ \A i \in 1..Len(hashes) : hashes'[i] = hashes[i]
      /\ hashes'[Len(hashes) + 1] = Digest(Slice(r))
  BY <1>5, <1>6, AppendProperties
<1>8. RegionsTypeOK'
  BY <1>0, <1>1, <1>4, <1>7 DEF RegionsTypeOK
<1>9. OneDigestPerAccepted'
  <2>1. /\ Len(hashes) = Len(taken)
        /\ \A i \in 1..Len(taken) : hashes[i] = Digest(Slice(regions[taken[i]]))
        /\ \A i, j \in 1..Len(taken) : i < j => taken[i] < taken[j]
        /\ {taken[i] : i \in 1..Len(taken)} = {k \in 1..next : Accepted(regions[k])}
    BY <1>0 DEF OneDigestPerAccepted
  <2>2. \A i \in 1..Len(taken') : i \in 1..Len(taken) \/ i = Len(taken')
    BY <1>4
  <2>3. \A i \in 1..Len(taken) : taken[i] \in 1..next
    BY <2>1
  <2>4. \A i \in 1..Len(taken') : hashes'[i] = Digest(Slice(regions[taken'[i]]))
    BY <1>4, <1>7, <2>1, <2>2
  <2>5. \A i, j \in 1..Len(taken') : i < j => taken'[i] < taken'[j]
    <3> SUFFICES ASSUME NEW i \in 1..Len(taken'), NEW j \in 1..Len(taken'), i < j
                 PROVE  taken'[i] < taken'[j]
      OBVIOUS
    <3>1. i \in 1..Len(taken)
      BY <1>4, <2>2
    <3>2. CASE j \in 1..Len(taken)
      BY <1>4, <2>1, <3>1, <3>2
    <3>3. CASE j = Len(taken')
      BY <1>1, <1>4, <2>3, <3>1, <3>3
    <3>4. QED
      BY <2>2, <3>2, <3>3
  <2>6. {taken'[i] : i \in 1..Len(taken')} = {taken[i] : i \in 1..Len(taken)} \cup {next + 1}
    <3>1. Len(taken') \in 1..Len(taken')
      BY <1>4
    <3>2. QED
      BY <1>4, <2>2, <3>1
  <2>7. {k \in 1..(next + 1) : Accepted(regions[k])}
           = {k \in 1..next : Accepted(regions[k])} \cup {next + 1}
    BY <1>1, <1>2
  <2>8. QED
    BY <1>1, <1>4, <1>7, <2>1, <2>4, <2>5, <2>6, <2>7 DEF OneDigestPerAccepted, Slice
<1>10. KeepsOrLosesProgress'
  BY <1>1, <1>2, <1>4 DEF KeepsOrLosesProgress, Hash, Slice
<1>11. QED
  BY <1>3, <1>8, <1>9, <1>10 DEF RegionsInv

LEMMA RegionsInitInv == RegionsInit => RegionsInv
<1> SUFFICES ASSUME RegionsInit PROVE RegionsInv
  OBVIOUS
<1>1. /\ Inv /\ regions = <<>> /\ next = 0 /\ hashes = <<>> /\ taken = <<>>
      /\ busy = FALSE /\ before = NewSponge
  BY InitInv DEF RegionsInit
<1>2. RegionsTypeOK
  BY <1>1, NewSpongeEmpty, EmptyList DEF RegionsTypeOK
<1>3. QED
  BY <1>1, <1>2, NothingTaken DEF RegionsInv, Listed, KeepsOrLosesProgress

LEMMA RegionsNextInv == RegionsInv /\ [RegionsNext]_allVars => RegionsInv'
<1> SUFFICES ASSUME RegionsInv, [RegionsNext]_allVars PROVE RegionsInv'
  OBVIOUS
<1>0. Inv'
  BY StepOfKernel, NextInv DEF RegionsInv
<1>1. CASE SingleMessage
  <2>1. /\ regions' = <<>> /\ next' = 0 /\ hashes' = <<>> /\ taken' = <<>>
        /\ busy' = FALSE /\ before' \in SpongeType
    BY <1>1 DEF SingleMessage, RegionsInv, RegionsTypeOK
  <2>2. RegionsTypeOK' /\ Listed'
    BY <2>1, EmptyList DEF RegionsTypeOK, Listed
  <2>3. OneDigestPerAccepted'
    BY <2>1, NothingTaken, EmptySeq DEF OneDigestPerAccepted
  <2>4. QED
    BY <1>0, <2>1, <2>2, <2>3 DEF RegionsInv, KeepsOrLosesProgress
<1>2. ASSUME NEW rs \in RegionLists, Start(rs)
      PROVE  RegionsInv'
  <2>1. /\ regions' = rs /\ next' = 0 /\ hashes' = <<>> /\ taken' = <<>>
        /\ busy' = TRUE /\ before' = sponge /\ UNCHANGED vars
    BY <1>2 DEF Start
  <2>2. rs \in Seq(RegionType) /\ 0 \in 0..Len(rs) /\ sponge \in SpongeType
    BY ListType, LenProperties DEF RegionsInv, Inv, TypeOK
  <2>3. RegionsTypeOK' /\ Listed'
    BY <2>1, <2>2, EmptyList DEF RegionsTypeOK, Listed, RegionType
  <2>4. OneDigestPerAccepted'
    BY <2>1, EmptySeq DEF OneDigestPerAccepted
  <2>5. QED
    BY <1>0, <2>1, <2>3, <2>4 DEF RegionsInv, KeepsOrLosesProgress, vars
<1>3. CASE HashNext
  BY <1>3, HashKeeps
<1>4. CASE SkipNext
  BY <1>4, SkipKeeps
<1>5. CASE Collect
  <2>1. busy' = FALSE /\ before' = NewSponge /\ UNCHANGED <<vars, regions, next, hashes, taken>>
    BY <1>5 DEF Collect
  <2>2. RegionsTypeOK' /\ Listed' /\ OneDigestPerAccepted'
    BY <2>1, NewSpongeEmpty DEF RegionsInv, RegionsTypeOK, Listed, OneDigestPerAccepted, Slice
  <2>3. QED
    BY <1>0, <2>1, <2>2 DEF RegionsInv, KeepsOrLosesProgress
<1>6. CASE UNCHANGED allVars
  BY <1>0, <1>6 DEF RegionsInv, Inv, RegionsTypeOK, Listed, OneDigestPerAccepted,
                    KeepsOrLosesProgress, allVars, vars, regionVars
<1>7. QED
  BY <1>1, <1>2, <1>3, <1>4, <1>5, <1>6 DEF RegionsNext, Iterate

(* Every reachable state of a hasher and its iterator satisfies it.         *)
THEOREM RegionsInvariance == RegionsSpec => []RegionsInv
BY RegionsInitInv, RegionsNextInv, PTL DEF RegionsSpec

(* Digests are digests, and the iterator stays inside its list.            *)
THEOREM RegionsTypeCorrect == RegionsSpec => []RegionsTypeOK
<1>1. RegionsInv => RegionsTypeOK
  BY DEF RegionsInv
<1>2. QED
  BY <1>1, RegionsInvariance, PTL

(* Digests and regions correspond one to one: see OneDigestPerAccepted. *)
THEOREM DigestsBelongToRegions == RegionsSpec => []OneDigestPerAccepted
<1>1. RegionsInv => OneDigestPerAccepted
  BY DEF RegionsInv
<1>2. QED
  BY <1>1, RegionsInvariance, PTL

(* A message in progress survives a call that hashes nothing, and no       *)
(* other: see KeepsOrLosesProgress.                                        *)
THEOREM ProgressKeptOrLost == RegionsSpec => []KeepsOrLosesProgress
<1>1. RegionsInv => KeepsOrLosesProgress
  BY DEF RegionsInv
<1>2. QED
  BY <1>1, RegionsInvariance, PTL

(* Region lists change nothing about the hasher: with them in between, it  *)
(* behaves as the single-message API alone does.                           *)
THEOREM RegionsImplementKernel == RegionsSpec => Spec
<1>1. RegionsInit => Init
  BY DEF RegionsInit
<1>2. RegionsInv /\ [RegionsNext]_allVars => [Next]_vars
  BY StepOfKernel DEF RegionsInv
<1>3. QED
  BY <1>1, <1>2, RegionsInvariance, PTL DEF RegionsSpec, Spec

(* So it goes on implementing IncrementalHash: see Promise. *)
THEOREM RegionsImplementPromise == RegionsSpec => Promise
BY RegionsImplementKernel, ImplementsPromise, PTL

-----------------------------------------------------------------------------
(***************************************************************************)
(* The display loop of the example.                                        *)
(***************************************************************************)
(* Where nothing has been skipped, the n-th region hashed is the n-th one. *)
PositionsInv ==
    /\ Len(taken) <= next
    /\ \A m \in 1..next :
           (\A j \in 1..m : Accepted(regions[j])) => m <= Len(taken) /\ taken[m] = m

Line(i) == [region |-> regions[i], hash |-> hashes[i],
            verified |-> VerifyHashIntegrity(hashes[i])]

ReportInv ==
    /\ report \in Seq([region : RegionType, hash : Seq(Byte), verified : BOOLEAN])
    /\ busy => report = <<>>
    /\ Len(report) <= Len(hashes)
    /\ \A i \in 1..Len(report) : report[i] = Line(i)

ExampleInv == RegionsInv /\ PositionsInv /\ ReportInv

LEMMA NoPositions ==
  ASSUME next = 0, taken = <<>>
  PROVE  PositionsInv
<1>1. Len(<<>>) = 0 /\ 1..0 = {}
  BY EmptySeq
<1>2. QED
  BY <1>1 DEF PositionsInv

LEMMA PositionsStep ==
  ASSUME RegionsInv, PositionsInv, [RegionsNext]_allVars
  PROVE  PositionsInv'
<1>0. next \in Nat /\ taken \in Seq(1..Len(regions)) /\ Len(taken) \in Nat /\ Len(regions) \in Nat
  BY LenProperties DEF RegionsInv, RegionsTypeOK
<1>1. CASE SingleMessage \/ (\E rs \in RegionLists : Start(rs))
  <2>1. next' = 0 /\ taken' = <<>>
    BY <1>1 DEF SingleMessage, Start
  <2>2. Len(<<>>) = 0 /\ 1..0 = {}
    BY EmptySeq
  <2>3. QED
    BY <2>1, <2>2 DEF PositionsInv
<1>2. CASE HashNext
  <2>1. /\ next' = next + 1 /\ regions' = regions /\ next < Len(regions)
        /\ taken' = Append(taken, next + 1)
    BY <1>2 DEF HashNext
  <2>2. /\ Len(taken') = Len(taken) + 1 /\ taken'[Len(taken')] = next + 1
        /\ \A i \in 1..Len(taken) : taken'[i] = taken[i]
    BY <1>0, <2>1, AppendPosition
  <2>3. ASSUME NEW m \in 1..next', \A j \in 1..m : Accepted(regions[j])
        PROVE  m <= Len(taken') /\ taken'[m] = m
    <3>1. CASE m \in 1..next
      BY <1>0, <2>2, <2>3, <3>1 DEF PositionsInv
    <3>2. CASE m = next + 1
      <4>1. next <= Len(taken)
        <5>1. CASE next = 0
          BY <1>0, <5>1
        <5>2. CASE next # 0
          <6>1. next \in 1..next /\ \A j \in 1..next : Accepted(regions[j])
            BY <1>0, <2>3, <3>2, <5>2
          <6>2. QED
            BY <6>1 DEF PositionsInv
        <5>3. QED
          BY <5>1, <5>2
      <4>2. Len(taken) = next
        BY <1>0, <4>1 DEF PositionsInv
      <4>3. QED
        BY <1>0, <2>2, <3>2, <4>2
    <3>3. QED
      BY <1>0, <2>1, <3>1, <3>2
  <2>4. QED
    BY <1>0, <2>1, <2>2, <2>3 DEF PositionsInv, Accepted
<1>3. CASE SkipNext
  BY <1>0, <1>3 DEF SkipNext, PositionsInv, Accepted
<1>4. CASE Collect \/ UNCHANGED allVars
  BY <1>4 DEF Collect, PositionsInv, Accepted, allVars, regionVars
<1>5. QED
  BY <1>1, <1>2, <1>3, <1>4 DEF RegionsNext, Iterate

LEMMA ShowKeeps ==
  ASSUME ExampleInv, Show
  PROVE  ExampleInv'
<1> DEFINE n == Len(report) + 1
<1>0. UNCHANGED allVars /\ ~busy /\ Len(report) < Zipped /\ report' = Append(report, Line(n))
  BY DEF Show, Showing, Line
<1>1. RegionsInv' /\ PositionsInv'
  BY <1>0, RegionsNextInv, PositionsStep DEF ExampleInv
<1>2. /\ regions \in Seq(RegionType) /\ hashes \in Seq(Seq(Byte))
      /\ Len(regions) \in Nat /\ Len(hashes) \in Nat /\ Len(report) \in Nat
  BY LenProperties DEF ExampleInv, RegionsInv, RegionsTypeOK, ReportInv, RegionType
<1>3. n \in 1..Len(regions) /\ n \in 1..Len(hashes)
  BY <1>0, <1>2 DEF Zipped
<1>4. Line(n) \in [region : RegionType, hash : Seq(Byte), verified : BOOLEAN]
  <2>1. regions[n] \in RegionType /\ hashes[n] \in Seq(Byte)
    BY <1>2, <1>3, ElementOfSeq
  <2>2. QED
    BY <2>1 DEF Line, VerifyHashIntegrity
<1>5. /\ report' \in Seq([region : RegionType, hash : Seq(Byte), verified : BOOLEAN])
      /\ Len(report') = n /\ report'[n] = Line(n)
      /\ \A i \in 1..Len(report) : report'[i] = report[i]
  BY <1>0, <1>4, AppendProperties DEF ExampleInv, ReportInv
<1>6. \A i \in 1..Len(report') : i \in 1..Len(report) \/ i = n
  BY <1>2, <1>5
<1>7. regions' = regions /\ hashes' = hashes /\ busy' = busy
  BY <1>0 DEF allVars, regionVars
<1>8. ReportInv'
  <2>1. \A i : Line(i)' = Line(i)
    BY <1>7 DEF Line, VerifyHashIntegrity, ZeroDigest
  <2>2. \A i \in 1..Len(report') : report'[i] = Line(i)'
    BY <1>5, <1>6, <2>1 DEF ExampleInv, ReportInv
  <2>3. Len(report') <= Len(hashes')
    BY <1>2, <1>3, <1>5, <1>7
  <2>4. QED
    BY <1>0, <1>5, <1>7, <2>2, <2>3 DEF ReportInv
<1>9. QED
  BY <1>1, <1>8 DEF ExampleInv

LEMMA EmptyReport ==
  ASSUME report = <<>>, hashes \in Seq(Seq(Byte))
  PROVE  ReportInv
<1>1. Len(<<>>) = 0 /\ 1..0 = {} /\ Len(hashes) \in Nat
  BY EmptySeq, LenProperties
<1>2. report \in Seq([region : RegionType, hash : Seq(Byte), verified : BOOLEAN])
  BY EmptyList
<1>3. QED
  BY <1>1, <1>2 DEF ReportInv

LEMMA ExampleNextInv == ExampleInv /\ [ExampleNext]_exampleVars => ExampleInv'
<1> SUFFICES ASSUME ExampleInv, [ExampleNext]_exampleVars PROVE ExampleInv'
  OBVIOUS
<1>1. CASE Show
  BY <1>1, ShowKeeps
<1>2. CASE Call
  <2>1. RegionsInv' /\ PositionsInv'
    BY <1>2, RegionsNextInv, PositionsStep DEF ExampleInv, Call
  <2>2. report' = <<>> /\ hashes' \in Seq(Seq(Byte))
    BY <1>2, <2>1 DEF Call, RegionsInv, RegionsTypeOK
  <2>3. Len(<<>>) = 0 /\ 1..0 = {} /\ Len(hashes') \in Nat
    BY <2>2, EmptySeq, LenProperties
  <2>4. report' \in Seq([region : RegionType, hash : Seq(Byte), verified : BOOLEAN])
    BY <2>2, EmptyList
  <2>5. QED
    BY <2>1, <2>2, <2>3, <2>4 DEF ExampleInv, ReportInv
<1>3. CASE UNCHANGED exampleVars
  <2>1. UNCHANGED allVars /\ report' = report
    BY <1>3 DEF exampleVars
  <2>2. RegionsInv' /\ PositionsInv'
    BY <2>1, RegionsNextInv, PositionsStep DEF ExampleInv
  <2>3. ReportInv'
    BY <2>1 DEF ExampleInv, ReportInv, Line, VerifyHashIntegrity, allVars, regionVars
  <2>4. QED
    BY <2>2, <2>3 DEF ExampleInv
<1>4. QED
  BY <1>1, <1>2, <1>3 DEF ExampleNext

THEOREM ExampleInvariance == ExampleSpec => []ExampleInv
<1>1. ExampleInit => ExampleInv
  BY RegionsInitInv, NoPositions, EmptyReport
     DEF ExampleInit, RegionsInit, ExampleInv, RegionsInv, RegionsTypeOK
<1>2. QED
  BY <1>1, ExampleNextInv, PTL DEF ExampleSpec

(* The region of a position that was taken, and its bytes. *)
LEMMA TakenRegion ==
  ASSUME RegionsInv, NEW i \in 1..Len(hashes)
  PROVE  /\ i \in 1..Len(taken) /\ taken[i] \in 1..next
         /\ hashes[i] = Digest(Slice(regions[taken[i]]))
         /\ Slice(regions[taken[i]]) \in Seq(Byte)
<1> DEFINE k == taken[i]
<1>1. i \in 1..Len(taken) /\ hashes[i] = Digest(Slice(regions[k]))
  BY DEF RegionsInv, OneDigestPerAccepted
<1>2. k \in 1..next /\ Accepted(regions[k])
  BY <1>1 DEF RegionsInv, OneDigestPerAccepted
<1>3. k \in 1..Len(regions) /\ regions \in RegionLists
  <2>1. next \in Nat /\ Len(regions) \in Nat /\ next <= Len(regions)
    BY LenProperties DEF RegionsInv, RegionsTypeOK
  <2>2. k \in 1..Len(regions) /\ Len(regions) # 0
    BY <1>2, <2>1
  <2>3. regions # <<>>
    BY <2>2, EmptySeq
  <2>4. QED
    BY <2>2, <2>3 DEF RegionsInv, Listed
<1>4. Pair(regions[k]) \in Regions /\ regions[k] \in RegionType
  BY <1>2, <1>3, ListType, ElementOfSeq
<1>5. Slice(Pair(regions[k])) = Slice(regions[k]) /\ Pair(regions[k]).size = regions[k].size
  BY DEF Pair, Slice
<1>6. ~RefusedSize(regions[k].size)
  BY <1>2, <1>4, KernelAssumption DEF Accepted, RefusedSize, RegionType
<1>7. Slice(regions[k]) \in Seq(Byte)
  BY <1>4, <1>5, <1>6, SliceType
<1>8. QED
  BY <1>1, <1>2, <1>7

(* A region is shown with its own digest as long as none was skipped: see  *)
(* OwnDigestUntilSkipped.                                                  *)
THEOREM ShownWithOwnDigest == ExampleSpec => []OwnDigestUntilSkipped
<1>1. ExampleInv => OwnDigestUntilSkipped
  <2> SUFFICES ASSUME ExampleInv, NEW i \in 1..Len(report),
                      \A j \in 1..i : Accepted(regions[j])
               PROVE  report[i].hash = Digest(Slice(report[i].region))
    BY DEF OwnDigestUntilSkipped
  <2>1. report[i] = Line(i) /\ i \in 1..Len(hashes)
    <3>1. Len(report) \in Nat /\ Len(hashes) \in Nat
      BY LenProperties DEF ExampleInv, ReportInv, RegionsInv, RegionsTypeOK
    <3>2. QED
      BY <3>1 DEF ExampleInv, ReportInv
  <2>2. i \in 1..Len(taken) /\ hashes[i] = Digest(Slice(regions[taken[i]]))
    BY <2>1, TakenRegion DEF ExampleInv
  <2>3. taken[i] = i
    <3>1. i \in 1..next
      <4>1. Len(taken) \in Nat /\ next \in Nat /\ Len(taken) <= next
        BY LenProperties DEF ExampleInv, RegionsInv, RegionsTypeOK, PositionsInv
      <4>2. QED
        BY <2>2, <4>1
    <3>2. QED
      BY <3>1 DEF ExampleInv, PositionsInv
  <2>4. QED
    BY <2>1, <2>2, <2>3 DEF Line
<1>2. QED
  BY <1>1, ExampleInvariance, PTL

(* No digest of a region is the all-zero one: see AlwaysVerified. *)
THEOREM NeverAllZero == ExampleSpec => []AlwaysVerified
<1>1. ExampleInv => AlwaysVerified
  <2> SUFFICES ASSUME ExampleInv, NEW i \in 1..Len(report)
               PROVE  report[i].verified
    BY DEF AlwaysVerified
  <2>1. report[i] = Line(i) /\ i \in 1..Len(hashes)
    <3>1. Len(report) \in Nat /\ Len(hashes) \in Nat
      BY LenProperties DEF ExampleInv, ReportInv, RegionsInv, RegionsTypeOK
    <3>2. QED
      BY <3>1 DEF ExampleInv, ReportInv
  <2>2. PICK m \in Seq(Byte) : hashes[i] = PadMessage(m)
    BY <2>1, TakenRegion DEF ExampleInv, Digest
  <2>3. hashes[i] # <<>>
    <3>1. Len(PadMessage(m)) = PaddedLen(Len(m)) /\ Len(m) \in Nat /\ Len(m) < PaddedLen(Len(m))
          /\ PaddedLen(Len(m)) \in Nat
      BY PadMessageBytes, LenProperties
    <3>2. QED
      BY <2>2, <3>1, EmptySeq
  <2>4. VerifyHashIntegrity(hashes[i]) = TRUE
    BY <2>3 DEF VerifyHashIntegrity, ZeroDigest
  <2>5. report[i].verified = VerifyHashIntegrity(hashes[i])
    BY <2>1 DEF Line
  <2>6. QED
    BY <2>4, <2>5
<1>2. QED
  BY <1>1, ExampleInvariance, PTL

(* So all that the example shows is right: see ShownRight. *)
THEOREM ShownCorrectly == ExampleSpec => []ShownRight
<1>1. OwnDigestUntilSkipped /\ AlwaysVerified => ShownRight
  BY DEF ShownRight
<1>2. QED
  BY <1>1, ShownWithOwnDigest, NeverAllZero, PTL

(* The types, of the hasher, the iterator and what is shown. *)
THEOREM ExampleTypeCorrect == ExampleSpec => []ExampleTypeOK
<1>1. ExampleInv => ExampleTypeOK
  BY DEF ExampleInv, RegionsInv, Inv, ReportInv, RegionType, ExampleTypeOK
<1>2. QED
  BY <1>1, ExampleInvariance, PTL

-----------------------------------------------------------------------------
(***************************************************************************)
(* What holds of the hasher holds of it inside the example: the run checks *)
(* these properties of ExampleSpec.                                        *)
(***************************************************************************)
LEMMA ExampleStep ==
  ASSUME ExampleInv, [ExampleNext]_exampleVars
  PROVE  [RegionsNext]_allVars
BY DEF ExampleNext, Show, Call, exampleVars

(* Showing digests is nothing to the hasher and its iterator: the example  *)
(* takes the steps of the two, and so those of the single-message API.     *)
THEOREM ExampleImplementsKernel == ExampleSpec => Spec
<1>1. ExampleInit => Init
  BY DEF ExampleInit, RegionsInit
<1>2. ExampleInv /\ [ExampleNext]_exampleVars => [Next]_vars
  BY ExampleStep, StepOfKernel DEF ExampleInv, RegionsInv
<1>3. QED
  BY <1>1, <1>2, ExampleInvariance, PTL DEF ExampleSpec, Spec

(* The bytes fed are kept with region lists and displays in between: see   *)
(* StandsForWhatWasFed.                                                    *)
THEOREM ExampleKeepsFedBytes == ExampleSpec => []StandsForWhatWasFed
BY ExampleImplementsKernel, FedBytesAreKept, PTL

(* The lanes follow the blocks, with lists and displays in between: see    *)
(* LanesFollowBlocks.                                                      *)
THEOREM ExampleLanesFollow == ExampleSpec => []LanesFollowBlocks
BY ExampleImplementsKernel, LanesFollow, PTL

(* finalize is right exactly when the hasher is fresh, which a list may    *)
(* have undone: see GenuineOnlyWhenFresh.                                  *)
THEOREM ExampleFinalizeIsGenuine == ExampleSpec => GenuineOnlyWhenFresh
BY ExampleImplementsKernel, FinalizeIsGenuine, PTL

(* The whole example implements IncrementalHash: see Promise. *)
THEOREM ExampleImplementsPromise == ExampleSpec => Promise
BY ExampleImplementsKernel, ImplementsPromise, PTL

(* One digest for each region accepted, in order: see OneDigestPerAccepted. *)
THEOREM ExampleDigestsBelong == ExampleSpec => []OneDigestPerAccepted
<1>1. ExampleInv => OneDigestPerAccepted
  BY DEF ExampleInv, RegionsInv
<1>2. QED
  BY <1>1, ExampleInvariance, PTL

(* A message in progress outlives a list exactly if nothing of it is       *)
(* hashed: see KeepsOrLosesProgress.                                       *)
THEOREM ExampleProgress == ExampleSpec => []KeepsOrLosesProgress
<1>1. ExampleInv => KeepsOrLosesProgress
  BY DEF ExampleInv, RegionsInv
<1>2. QED
  BY <1>1, ExampleInvariance, PTL
=============================================================================
