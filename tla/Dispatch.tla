------------------------------ MODULE Dispatch ------------------------------
(***************************************************************************)
(* Which implementation of the permutation runs (lib.rs, permute,          *)
(* hash_many, update_config, detect_simd_features), in both builds of the  *)
(* crate, and what becomes of the vector registers of a driver that saves  *)
(* and restores them with kernel_safe.  The CPU features are asked for     *)
(* again at each call, the SimdFeatures of a hasher only once, and the     *)
(* counters of the test build make up their own mind.                      *)
(***************************************************************************)
EXTENDS Paths

CONSTANTS Cpus,           \* the CPUs the code may run on
          MaxPermutes     \* bound: permutations counted in a run

ASSUME DispatchAssumption == Cpus \subseteq SUBSET Feature /\ MaxPermutes \in Nat

VARIABLES build, cpu,         \* the cfg the crate is compiled with; the CPU
          config, features,   \* fields of Sha3_512Kernel
          calls,              \* AVX512_PATH_CALLS and SCALAR_PATH_CALLS
          registers,          \* whose values the vector registers hold
          saved,              \* the ProcessorState a driver holds
          ran,                \* history: permutations per path of a message
          batched,            \* history: paths hash_many took
          atSave              \* history: the registers at the last save

vars == <<build, cpu, config, features, calls, registers, saved, ran, batched, atSave>>

NoCalls == [path \in {"avx512", "scalar"} |-> 0]

NoState == "none"

Owner == {"interrupted", "driver", "hasher"}

VectorPaths == {"avx512", "avx512x8", "avx2x4"}

(* detect_simd_features; without std there is nobody to ask. *)
FeaturesOf(b, c) == DetectSimdFeatures(IF b = "std" THEN c ELSE {})

(* permute: the kernel build compiles the one that takes the flag and does *)
(* not look at it.                                                         *)
PermuteRuns(b, cfg, c) == IF b = "std" THEN PermutePath(cfg, c) ELSE "scalar"

PermuteCounts(b, cfg, c) == IF b = "std" THEN CountedPath(cfg, c) ELSE "scalar"

(* with_config: the features are those of the CPU at construction. *)
Init ==
    /\ build \in {"std", "kernel"} /\ cpu \in Cpus /\ config \in Config
    /\ features = FeaturesOf(build, cpu)
    /\ calls = NoCalls /\ ran = NoCalls /\ batched = {}
    /\ registers = "interrupted" /\ saved = NoState /\ atSave = registers

UpdateConfig(c) ==
    /\ config' = c
    /\ UNCHANGED <<build, cpu, features, calls, registers, saved, ran, batched, atSave>>

(* A vector path leaves values of its own in the registers.  The scalar    *)
(* one may: the compiler is free to vectorise its loops (keccak.rs).       *)
Runs(path) ==
    registers' \in IF path \in VectorPaths THEN {"hasher"} ELSE {registers, "hasher"}

(* One permutation of update, finalize or hash. *)
Permute ==
    /\ ran["avx512"] + ran["scalar"] < MaxPermutes
    /\ calls' = [calls EXCEPT ![PermuteCounts(build, config, cpu)] = @ + 1]
    /\ ran' = [ran EXCEPT ![PermuteRuns(build, config, cpu)] = @ + 1]
    /\ Runs(PermuteRuns(build, config, cpu))
    /\ UNCHANGED <<build, cpu, config, features, saved, batched, atSave>>

(* Compiled in the std build only. *)
HashMany ==
    /\ build = "std"
    /\ LET path == BatchPath(BatchWidth(config, cpu))
       IN  batched' = batched \cup {path} /\ Runs(path)
    /\ UNCHANGED <<build, cpu, config, features, calls, saved, ran, atSave>>

(* kernel_safe::save_processor_state: zeros, not what the registers hold. *)
SaveProcessorState ==
    /\ saved = NoState /\ saved' = "zeros" /\ atSave' = registers
    /\ UNCHANGED <<build, cpu, config, features, calls, registers, ran, batched>>

(* The driver's own code between the two, for which they are offered.      *)
DriverUsesRegisters ==
    /\ saved # NoState /\ registers' = "driver"
    /\ UNCHANGED <<build, cpu, config, features, calls, saved, ran, batched, atSave>>

(* kernel_safe::restore_processor_state: the state is dropped, unread. *)
RestoreProcessorState ==
    /\ saved # NoState /\ saved' = NoState
    /\ UNCHANGED <<build, cpu, config, features, calls, registers, ran, batched, atSave>>

Next ==
    \/ \E c \in Config : UpdateConfig(c)
    \/ Permute \/ HashMany
    \/ SaveProcessorState \/ DriverUsesRegisters \/ RestoreProcessorState

Spec == Init /\ [][Next]_vars
-----------------------------------------------------------------------------
TypeOK ==
    /\ build \in {"std", "kernel"} /\ cpu \in Cpus /\ config \in Config
    /\ features = FeaturesOf(build, cpu)
    /\ calls \in [{"avx512", "scalar"} -> Nat]
    /\ ran \in [{"avx512", "scalar"} -> Nat]
    /\ batched \subseteq DOMAIN Requires
    /\ registers \in Owner /\ atSave \in Owner /\ saved \in {NoState, "zeros"}

PathsTaken == batched \cup {path \in DOMAIN ran : ran[path] > 0}

(* Whatever the configuration does between calls, no implementation runs   *)
(* on a CPU that lacks the instructions it was compiled for (the SAFETY    *)
(* comments of lib.rs and simd_avx512.rs).                                 *)
OnlySupportedPaths == \A path \in PathsTaken : Requires[path] \subseteq cpu

(* The counters the tests read tell which path the dispatcher took, though *)
(* the two decide apart (lib.rs, permute and its test-only counters).      *)
CountersMatchPaths == calls = ran

(* What the README says of save and restore in kernel mode, that they let  *)
(* a driver touch vector registers around its own code safely: restored,   *)
(* they hold what they held when it saved them (lib.rs, kernel_safe).      *)
RestoresWhatItSaved ==
    [][build = "kernel" /\ registers = "driver" /\ RestoreProcessorState
           => registers' = atSave]_vars

(* What the comments of SimdFeatures say: the flags gate the vector paths. *)
FeaturesGatePaths ==
    /\ PathsTaken \cap {"avx512", "avx512x8"} # {} => features.avx512_available
    /\ "avx2x4" \in PathsTaken => features.avx2_available
=============================================================================
