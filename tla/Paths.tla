-------------------------------- MODULE Paths --------------------------------
(***************************************************************************)
(* How the code picks an implementation of the permutation: from the       *)
(* configuration of the hasher and what the CPU reports at the call        *)
(* (lib.rs, permute and hash_many; simd_avx512.rs, keccak_f1600_dispatch). *)
(* A CPU is the set of the features is_x86_feature_detected! finds on it.  *)
(***************************************************************************)
EXTENDS Integers

CONSTANTS Wide, Narrow    \* lanes of the AVX-512 and of the AVX2 batch (8, 4)

ASSUME WidthAssumption == Wide \in Nat /\ Narrow \in Nat /\ Narrow > 1 /\ Wide > Narrow

Feature == {"avx512f", "avx512bw", "avx512dq", "avx2", "bmi2", "sse4.2"}

Config == [use_avx512 : BOOLEAN, use_avx2 : BOOLEAN]

(* Mutant of PermutePath and of CountedPath: the CPU is not asked. *)
ConfiguredPath(config, cpu) == IF config.use_avx512 THEN "avx512" ELSE "scalar"

(* The permutation keccak_f1600_dispatch runs for a single message. *)
PermutePath(config, cpu) ==
    IF config.use_avx512 /\ "avx512f" \in cpu THEN "avx512" ELSE "scalar"

(* The counter the test build's permute bumps, by a check of its own. *)
CountedPath(config, cpu) ==
    IF config.use_avx512 /\ "avx512f" \in cpu THEN "avx512" ELSE "scalar"

(* Mutant of BatchWidth: AVX2 is taken for granted. *)
BatchWidthUnchecked(config, cpu) ==
    IF config.use_avx512 /\ "avx512f" \in cpu THEN Wide
    ELSE IF config.use_avx2 THEN Narrow
    ELSE 1

BatchWidth(config, cpu) ==
    IF config.use_avx512 /\ "avx512f" \in cpu THEN Wide
    ELSE IF config.use_avx2 /\ "avx2" \in cpu THEN Narrow
    ELSE 1

(* The implementation hash_many calls for a width. *)
BatchPath(width) ==
    IF width = Wide THEN "avx512x8" ELSE IF width = Narrow THEN "avx2x4" ELSE "scalar"

(* The #[target_feature] each implementation is compiled with. *)
Requires == [path \in {"avx512", "avx512x8", "avx2x4", "scalar"} |->
    IF path \in {"avx512", "avx512x8"} THEN {"avx512f"}
    ELSE IF path = "avx2x4" THEN {"avx2"}
    ELSE {}]

(* detect_simd_features, run once when a hasher is made. *)
DetectSimdFeatures(cpu) ==
    [avx512_available |-> {"avx512f", "avx512bw", "avx512dq"} \subseteq cpu,
     avx2_available   |-> {"avx2", "bmi2"} \subseteq cpu,
     sse42_available  |-> "sse4.2" \in cpu,
     bmi2_available   |-> "bmi2" \in cpu]
=============================================================================
