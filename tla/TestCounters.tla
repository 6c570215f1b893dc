---------------------------- MODULE TestCounters ----------------------------
(***************************************************************************)
(* The tests of lib.rs that read AVX512_PATH_CALLS and SCALAR_PATH_CALLS.  *)
(* The counters are statics of the test program, whose harness runs each   *)
(* test in a thread: a test stores 0, hashes, and asserts on what it loads *)
(* while other tests do the same.                                          *)
(***************************************************************************)
EXTENDS Integers, Sequences

CONSTANTS HasAvx512f,   \* what is_x86_feature_detected!("avx512f") says
          Others,       \* the tests that do nothing to the counters but hash
          Hashed        \* the use_avx512 of each of their permutations

Counting == {"hash_avx512", "hash_scalar", "incremental_avx512"}

ASSUME CountersAssumption ==
    /\ HasAvx512f \in BOOLEAN
    /\ Others \cap Counting = {}
    /\ Hashed \in [Others -> Seq(BOOLEAN)]

Tests == Counting \cup Others

Counter == {"avx512", "scalar"}

(* The counter a test stores to and reads. *)
CounterOf(t) == IF t = "hash_scalar" THEN "scalar" ELSE "avx512"

StoreZero(c) == [op |-> "store", counter |-> c]
Permutation(avx512) == [op |-> "permute", use_avx512 |-> avx512]
AssertAtLeast(c, n) == [op |-> "assert", counter |-> c, least |-> n]

(* 43 bytes or less are one permutation, 373 bytes are six. *)
Body(t) ==
    CASE t \in Others -> [i \in 1..Len(Hashed[t]) |-> Permutation(Hashed[t][i])]
      [] t = "hash_scalar" ->
           <<StoreZero("scalar"), Permutation(FALSE), AssertAtLeast("scalar", 1)>>
      [] t \in Counting \ {"hash_scalar"} /\ ~HasAvx512f -> <<>>
      [] t = "hash_avx512" /\ HasAvx512f ->
           <<StoreZero("avx512"), Permutation(TRUE), AssertAtLeast("avx512", 1),
             Permutation(FALSE)>>
      [] t = "incremental_avx512" /\ HasAvx512f ->
           [i \in 1..14 |-> IF i = 1 THEN StoreZero("avx512")
                            ELSE IF i <= 7 THEN Permutation(TRUE)
                            ELSE IF i <= 13 THEN Permutation(FALSE)
                            ELSE AssertAtLeast("avx512", 5)]

VARIABLES serial,   \* the harness runs with a single test thread
          counts,   \* the two counters
          done,     \* how much of its body each test has done
          failed,   \* tests that panicked
          own,      \* history: permutations of a test, per counter, since its store
          erased    \* history: tests whose counter another test has stored to since

testVars == <<serial, counts, done, failed, own, erased>>

NoCounts == [c \in Counter |-> 0]

TestsInit ==
    /\ serial \in BOOLEAN
    /\ counts = NoCounts
    /\ done = [t \in Tests |-> 0]
    /\ failed = {} /\ erased = {}
    /\ own = [t \in Tests |-> NoCounts]

Finished(t) == done[t] = Len(Body(t))

Running(t) == done[t] > 0 /\ ~Finished(t)

NextOp(t) == Body(t)[done[t] + 1]

(* The test whose turn it is, and its next operation. *)
Turn(t, op) ==
    /\ ~Finished(t) /\ NextOp(t).op = op
    /\ serial => \A u \in Tests \ {t} : ~Running(u)

Advance(t) == done' = [done EXCEPT ![t] = @ + 1]

Store(t) ==
    /\ Turn(t, "store")
    /\ LET c == NextOp(t).counter
       IN  /\ counts' = [counts EXCEPT ![c] = 0]
           /\ own' = [own EXCEPT ![t] = NoCounts]
           /\ erased' = (erased \ {t})
                \cup {u \in Counting \ {t} : Running(u) /\ CounterOf(u) = c}
    /\ Advance(t)
    /\ UNCHANGED <<serial, failed>>

Counted(use_avx512) == IF use_avx512 /\ HasAvx512f THEN "avx512" ELSE "scalar"

(* Mutant of PermuteIn: a load and a store for the fetch_add. *)
PermuteOverwriting(t) ==
    /\ Turn(t, "permute")
    /\ LET c == Counted(NextOp(t).use_avx512)
       IN  /\ \E seen \in 0..counts[c] : counts' = [counts EXCEPT ![c] = seen + 1]
           /\ own' = [own EXCEPT ![t][c] = @ + 1]
    /\ Advance(t)
    /\ UNCHANGED <<serial, failed, erased>>

(* Mutant of PermuteIn: only a configuration without AVX-512 is counted. *)
PermuteScalarCounted(t) ==
    /\ Turn(t, "permute")
    /\ LET c == Counted(NextOp(t).use_avx512)
       IN  /\ counts' = [counts EXCEPT !["scalar"] = @ + 1]
           /\ own' = [own EXCEPT ![t][c] = @ + 1]
    /\ Advance(t)
    /\ UNCHANGED <<serial, failed, erased>>

PermuteIn(t) ==
    /\ Turn(t, "permute")
    /\ LET c == Counted(NextOp(t).use_avx512)
       IN  /\ counts' = [counts EXCEPT ![c] = @ + 1]
           /\ own' = [own EXCEPT ![t][c] = @ + 1]
    /\ Advance(t)
    /\ UNCHANGED <<serial, failed, erased>>

(* An assertion that fails panics and ends its test. *)
Assertion(t) ==
    /\ Turn(t, "assert")
    /\ \/ /\ counts[NextOp(t).counter] >= NextOp(t).least
          /\ Advance(t) /\ UNCHANGED failed
       \/ /\ counts[NextOp(t).counter] < NextOp(t).least
          /\ done' = [done EXCEPT ![t] = Len(Body(t))]
          /\ failed' = failed \cup {t}
    /\ UNCHANGED <<serial, counts, own, erased>>

TestsNext == \E t \in Tests : Store(t) \/ PermuteIn(t) \/ Assertion(t)

TestsSpec == TestsInit /\ [][TestsNext]_testVars
-----------------------------------------------------------------------------
(* A test that no other one has erased the counter of finds at least its   *)
(* own permutations in it, however many threads count at once (lib.rs,     *)
(* permute: one atomic fetch_add per permutation).                         *)
CountsOwnCalls ==
    \A t \in Counting :
        Running(t) /\ t \notin erased => counts[CounterOf(t)] >= own[t][CounterOf(t)]

(* The only way an assertion can fail while the dispatch is right is that  *)
(* another test stored 0 in between; the test of the scalar path, which is *)
(* alone in storing to its counter, never fails (lib.rs, tests).           *)
FailsOnlyIfErased == failed \subseteq erased /\ "hash_scalar" \notin failed

(* With one test thread no assertion fails, in whatever order the tests    *)
(* run (lib.rs, tests).                                                    *)
AssertionsHoldSerially == serial => failed = {}

(* What the tests say: a hasher told to use AVX-512, on a CPU that has it, *)
(* is seen to have called it (lib.rs, the three assertions).               *)
AssertionsHold == failed = {}
=============================================================================
