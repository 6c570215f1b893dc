--------------------------- MODULE MemoryRegions ---------------------------
(***************************************************************************)
(* Sha3_512Kernel::hash_memory_regions (lib.rs): the iterator that filters *)
(* a list of regions and hashes those it keeps, one after the other, with  *)
(* the caller's own hasher.  Between two calls of it the hasher is used    *)
(* through the single-message API of Kernel; `returned' is what the last   *)
(* method of that API returned, to the caller or to the iterator.          *)
(***************************************************************************)
EXTENDS Kernel

CONSTANT RegionLists    \* the lists of [base, size, is_readable] a caller passes

(* The caller vouches for the regions it calls readable, and for no other. *)
ASSUME RegionListAssumption ==
    /\ RegionLists \subseteq Seq([base : Nat, size : Nat, is_readable : BOOLEAN])
    /\ \A rs \in RegionLists : \A i \in 1..Len(rs) :
           rs[i].is_readable => [base |-> rs[i].base, size |-> rs[i].size] \in Regions

VARIABLES busy,       \* hash_memory_regions is running
          regions,    \* its argument
          next,       \* regions the iterator has passed
          hashes,     \* digests collected, the caller's after the call
          taken,      \* history: the positions of the regions hashed
          before      \* history: the sponge at the call

regionVars == <<busy, regions, next, hashes, taken, before>>

allVars == <<vars, regionVars>>

RegionsInit ==
    /\ Init
    /\ busy = FALSE /\ regions = <<>> /\ next = 0 /\ hashes = <<>>
    /\ taken = <<>> /\ before = NewSponge

(* Any call of the single-message API, between two of this one; the caller *)
(* is through with the digests of the last list.                           *)
SingleMessage ==
    /\ ~busy /\ Next
    /\ regions' = <<>> /\ next' = 0 /\ hashes' = <<>> /\ taken' = <<>>
    /\ UNCHANGED <<busy, before>>

Start(rs) ==
    /\ ~busy /\ busy' = TRUE
    /\ regions' = rs /\ next' = 0 /\ hashes' = <<>> /\ taken' = <<>>
    /\ before' = sponge
    /\ UNCHANGED vars

(* Mutant of Accepted: what the comment says, readable regions. *)
AcceptedReadable(r) == r.is_readable

(* The filter's predicate. *)
Accepted(r) == r.is_readable /\ r.size > 0 /\ r.size <= MaxHashSize

(* Mutant of HashNext: the digests come out last region first. *)
HashNextReversed ==
    /\ busy /\ next < Len(regions) /\ Accepted(regions[next + 1])
    /\ HashMemoryRegion(regions[next + 1])
    /\ hashes' = returned' \o hashes
    /\ next' = next + 1 /\ taken' = Append(taken, next + 1)
    /\ UNCHANGED <<busy, regions, before>>

HashNext ==
    /\ busy /\ next < Len(regions) /\ Accepted(regions[next + 1])
    /\ HashMemoryRegion(regions[next + 1])
    /\ hashes' = hashes \o returned'
    /\ next' = next + 1 /\ taken' = Append(taken, next + 1)
    /\ UNCHANGED <<busy, regions, before>>

(* Mutant of SkipNext: it does not move on. *)
SkipForever ==
    /\ busy /\ next < Len(regions) /\ ~Accepted(regions[next + 1])
    /\ UNCHANGED allVars

SkipNext ==
    /\ busy /\ next < Len(regions) /\ ~Accepted(regions[next + 1])
    /\ next' = next + 1
    /\ UNCHANGED <<vars, busy, regions, hashes, taken, before>>

(* The collected digests are handed to the caller. *)
Collect ==
    /\ busy /\ next = Len(regions)
    /\ busy' = FALSE /\ before' = NewSponge
    /\ UNCHANGED <<vars, regions, next, hashes, taken>>

Iterate == HashNext \/ SkipNext \/ Collect

RegionsNext == SingleMessage \/ (\E rs \in RegionLists : Start(rs)) \/ Iterate

(* A started call iterates to its end. *)
RegionsSpec == RegionsInit /\ [][RegionsNext]_allVars /\ WF_allVars(Iterate)
-----------------------------------------------------------------------------
RegionsTypeOK ==
    /\ busy \in BOOLEAN
    /\ regions \in Seq([base : Nat, size : Nat, is_readable : BOOLEAN])
    /\ next \in 0..Len(regions)
    /\ hashes \in Seq(Seq(Byte))
    /\ taken \in Seq(1..Len(regions))
    /\ before \in SpongeType

(* Each accepted region gets the digest of its own bytes, in the order of  *)
(* the list, whatever the hasher was in the middle of and whatever region  *)
(* came before; a skipped region leaves no entry, not even the all-zero    *)
(* one (lib.rs, hash_memory_regions).                                      *)
OneDigestPerAccepted ==
    /\ Len(hashes) = Len(taken)
    /\ \A i \in 1..Len(taken) : hashes[i] = Digest(Slice(regions[taken[i]]))
    /\ \A i, j \in 1..Len(taken) : i < j => taken[i] < taken[j]
    /\ {taken[i] : i \in 1..Len(taken)} = {k \in 1..next : Accepted(regions[k])}

(* A call that accepts no region leaves a message in progress as it was;   *)
(* one that accepts any loses it, and leaves a hasher that needs a reset   *)
(* (lib.rs, hash_memory_regions and hash).                                 *)
KeepsOrLosesProgress ==
    busy => IF taken = <<>>
            THEN sponge = before
            ELSE finals = 1 /\ fed = Slice(regions[taken[Len(taken)]])

(* One digest per readable region: what the comment of hash_memory_regions *)
(* says.                                                                   *)
OneDigestPerReadable ==
    [][Collect => Len(hashes') = Len(SelectSeq(regions, LAMBDA r : r.is_readable))]_allVars
=============================================================================
