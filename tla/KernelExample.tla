--------------------------- MODULE KernelExample ---------------------------
(***************************************************************************)
(* The display loop of examples/kernel.rs over a list of regions and the   *)
(* digests hash_memory_regions gave for it: the two are zipped by position *)
(* and each digest is checked.  Before and after, the hasher is used in    *)
(* any way MemoryRegions allows.                                           *)
(***************************************************************************)
EXTENDS MemoryRegions

VARIABLE report     \* what has been shown of the last list

exampleVars == <<allVars, report>>

ExampleInit == RegionsInit /\ report = <<>>

(* verify_hash_integrity: not all bytes are zero. *)
VerifyHashIntegrity(hash) == hash # ZeroDigest

Zipped == IF Len(regions) < Len(hashes) THEN Len(regions) ELSE Len(hashes)

Showing == ~busy /\ Len(report) < Zipped

Show ==
    /\ Showing
    /\ LET i == Len(report) + 1
       IN  report' = Append(report, [region |-> regions[i], hash |-> hashes[i],
                                     verified |-> VerifyHashIntegrity(hashes[i])])
    /\ UNCHANGED allVars

(* Calls of the hasher; what was shown is no longer of interest. *)
Call == ~Showing /\ RegionsNext /\ report' = <<>>

ExampleNext == Show \/ Call

ExampleSpec ==
    /\ ExampleInit /\ [][ExampleNext]_exampleVars
    /\ WF_exampleVars(Iterate /\ report' = <<>>)
    /\ WF_exampleVars(Show)
-----------------------------------------------------------------------------
ExampleTypeOK ==
    /\ TypeOK /\ RegionsTypeOK
    /\ report \in Seq([region : [base : Nat, size : Nat, is_readable : BOOLEAN],
                       hash : Seq(Byte), verified : BOOLEAN])

(* A region is shown with its own digest as long as no region before it,   *)
(* or itself, was left out; from there on it may be shown with the digest  *)
(* of a later one (kernel.rs, the zip; lib.rs, the filter).                *)
OwnDigestUntilSkipped ==
    \A i \in 1..Len(report) :
        (\A j \in 1..i : Accepted(regions[j])) => report[i].hash = Digest(Slice(report[i].region))

(* The integrity check never fails: the filter lets no region through that *)
(* hash_memory_region refuses with its all-zero digest, though the two     *)
(* test the size apart (lib.rs, hash_memory_region and                     *)
(* hash_memory_regions; kernel.rs, verify_hash_integrity).                 *)
AlwaysVerified == \A i \in 1..Len(report) : report[i].verified

(* What the example shows of each region is true of it, up to the first    *)
(* one that was left out, and no digest is one of a refused call           *)
(* (kernel.rs, main; lib.rs, hash_memory_regions).                         *)
ShownRight == OwnDigestUntilSkipped /\ AlwaysVerified

(* Every digest that is computed is shown, by its iteration or the next:   *)
(* the zip drops regions only (kernel.rs).                                 *)
EveryDigestShown == busy ~> ~busy /\ Len(report) = Len(hashes)
=============================================================================
