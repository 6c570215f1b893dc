--------------------------- MODULE DispatchProofs ---------------------------
(***************************************************************************)
(* For every set of CPUs, configuration and order of calls: no             *)
(* implementation runs where its instructions are missing, and the         *)
(* counters match it.  And, with any other tests beside them, what the     *)
(* tests that read the counters may rely on.                               *)
(***************************************************************************)
EXTENDS Dispatch, TestCounters, TLAPS

Inv == TypeOK /\ OnlySupportedPaths /\ CountersMatchPaths

(* A permutation takes one of two paths, and the counter's own check finds *)
(* the same one.                                                           *)
LEMMA OnePath ==
    ASSUME NEW b, NEW cfg, NEW c
    PROVE  /\ PermuteRuns(b, cfg, c) \in {"avx512", "scalar"}
           /\ PermuteCounts(b, cfg, c) = PermuteRuns(b, cfg, c)
           /\ Requires[PermuteRuns(b, cfg, c)] \subseteq c
BY DEF PermuteRuns, PermuteCounts, PermutePath, CountedPath, Requires

LEMMA OneBatchPath ==
    ASSUME NEW cfg, NEW c
    PROVE  /\ BatchPath(BatchWidth(cfg, c)) \in DOMAIN Requires
           /\ Requires[BatchPath(BatchWidth(cfg, c))] \subseteq c
BY WidthAssumption DEF BatchPath, BatchWidth, Requires

(* A path that runs leaves the registers to somebody.                      *)
LEMMA RunsOwned ==
    ASSUME NEW path, TypeOK, Runs(path)
    PROVE  registers' \in Owner
BY DEF Runs, TypeOK, Owner

LEMMA InitInv == Init => Inv
<1> SUFFICES ASSUME Init PROVE Inv
  OBVIOUS
<1>1. TypeOK
  BY DEF Init, TypeOK, NoCalls, Owner
<1>2. PathsTaken = {}
  BY DEF Init, PathsTaken, NoCalls
<1> QED
  BY <1>1, <1>2 DEF Init, Inv, OnlySupportedPaths, CountersMatchPaths

(* Where nothing ran and neither the build, the CPU nor the counters       *)
(* changed, what was said of them still holds.                             *)
LEMMA NothingRan ==
    ASSUME OnlySupportedPaths, CountersMatchPaths, UNCHANGED <<cpu, calls, ran, batched>>
    PROVE  OnlySupportedPaths' /\ CountersMatchPaths'
BY DEF OnlySupportedPaths, CountersMatchPaths, PathsTaken

LEMMA PermuteKeepsInv == Inv /\ Permute => Inv'
<1> SUFFICES ASSUME Inv, Permute PROVE Inv'
  OBVIOUS
<1> DEFINE path == PermuteRuns(build, config, cpu)
<1>1. /\ path \in {"avx512", "scalar"} /\ Requires[path] \subseteq cpu
      /\ PermuteCounts(build, config, cpu) = path
  BY OnePath
<1>2. /\ calls' = [calls EXCEPT ![path] = @ + 1]
      /\ ran' = [ran EXCEPT ![path] = @ + 1]
      /\ Runs(path) /\ UNCHANGED <<build, cpu, config, features, saved, batched, atSave>>
  BY <1>1 DEF Permute
<1> HIDE DEF path
<1>4. registers' \in Owner
  BY <1>2, RunsOwned DEF Inv
<1>5. TypeOK'
  BY <1>1, <1>2, <1>4 DEF Inv, TypeOK
<1>6. CountersMatchPaths'
  BY <1>2 DEF Inv, CountersMatchPaths
<1>7. OnlySupportedPaths'
  <2>1. PathsTaken' \subseteq PathsTaken \cup {path}
    BY <1>1, <1>2 DEF PathsTaken, Inv, TypeOK
  <2> QED BY <1>1, <1>2, <2>1 DEF Inv, OnlySupportedPaths
<1> QED BY <1>5, <1>6, <1>7 DEF Inv

LEMMA HashManyKeepsInv == Inv /\ HashMany => Inv'
<1> SUFFICES ASSUME Inv, HashMany PROVE Inv'
  OBVIOUS
<1> DEFINE path == BatchPath(BatchWidth(config, cpu))
<1>1. path \in DOMAIN Requires /\ Requires[path] \subseteq cpu
  BY OneBatchPath
<1>2. /\ build = "std" /\ batched' = batched \cup {path} /\ Runs(path)
      /\ UNCHANGED <<build, cpu, config, features, calls, saved, ran, atSave>>
  BY DEF HashMany
<1> HIDE DEF path
<1>3. registers' \in Owner
  BY <1>2, RunsOwned DEF Inv
<1>4. TypeOK'
  BY <1>1, <1>2, <1>3 DEF Inv, TypeOK
<1>5. CountersMatchPaths'
  BY <1>2 DEF Inv, CountersMatchPaths
<1>6. OnlySupportedPaths'
  <2>1. PathsTaken' = PathsTaken \cup {path}
    BY <1>2 DEF PathsTaken
  <2> QED BY <1>1, <1>2, <2>1 DEF Inv, OnlySupportedPaths
<1> QED BY <1>4, <1>5, <1>6 DEF Inv

LEMMA NextInv == Inv /\ [Next]_vars => Inv'
<1> SUFFICES ASSUME Inv, [Next]_vars PROVE Inv'
  OBVIOUS
<1>1. ASSUME NEW c \in Config, UpdateConfig(c) PROVE Inv'
  <2>1. TypeOK'
    BY <1>1 DEF UpdateConfig, Inv, TypeOK
  <2> QED
    BY <1>1, <2>1, NothingRan DEF UpdateConfig, Inv
<1>2. CASE Permute
  BY <1>2, PermuteKeepsInv
<1>3. CASE HashMany
  BY <1>3, HashManyKeepsInv
<1>4. CASE SaveProcessorState
  <2>1. TypeOK'
    BY <1>4 DEF SaveProcessorState, Inv, TypeOK
  <2> QED
    BY <1>4, <2>1, NothingRan DEF SaveProcessorState, Inv
<1>5. CASE RestoreProcessorState
  <2>1. TypeOK'
    BY <1>5 DEF RestoreProcessorState, Inv, TypeOK
  <2> QED
    BY <1>5, <2>1, NothingRan DEF RestoreProcessorState, Inv
<1>6. CASE DriverUsesRegisters
  <2>1. TypeOK'
    BY <1>6 DEF DriverUsesRegisters, Inv, TypeOK, Owner
  <2> QED
    BY <1>6, <2>1, NothingRan DEF DriverUsesRegisters, Inv
<1>7. CASE UNCHANGED vars
  <2>1. TypeOK'
    BY <1>7 DEF vars, Inv, TypeOK
  <2> QED
    BY <1>7, <2>1, NothingRan DEF vars, Inv
<1> QED BY <1>1, <1>2, <1>3, <1>4, <1>5, <1>6, <1>7 DEF Next

(* Every reachable state satisfies the strengthened invariant.             *)
THEOREM Invariance == Spec => []Inv
BY InitInv, NextInv, PTL DEF Spec

(* The counters are counters, and the features those of the CPU, in both   *)
(* builds and whatever the configuration (lib.rs, with_config).            *)
THEOREM TypeCorrect == Spec => []TypeOK
<1>1. Inv => TypeOK
  BY DEF Inv
<1> QED BY <1>1, Invariance, PTL

(* No implementation ever runs on a CPU without its instructions.          *)
THEOREM SupportedPathsOnly == Spec => []OnlySupportedPaths
<1>1. Inv => OnlySupportedPaths
  BY DEF Inv
<1> QED BY <1>1, Invariance, PTL

(* The counters of the tests always tell the paths that ran.               *)
THEOREM CountersTellPaths == Spec => []CountersMatchPaths
<1>1. Inv => CountersMatchPaths
  BY DEF Inv
<1> QED BY <1>1, Invariance, PTL

-----------------------------------------------------------------------------
(***************************************************************************)
(* The tests that read the counters.                                       *)
(***************************************************************************)
(* The permutations a test does before its assertion, all on its counter.  *)
Awaited(t) == IF t = "incremental_avx512" THEN 6 ELSE 1

(* A test stores first, then counts Awaited permutations, and asserts only *)
(* after them, that it finds no more than these.                           *)
LEMMA CountingBody ==
    ASSUME NEW t \in Counting
    PROVE  LET b == Body(t)
               n == Awaited(t)
               c == CounterOf(t)
           IN  /\ Len(b) \in Nat
               /\ \A i \in 1..Len(b) : b[i].op = "store" => i = 1 /\ b[i].counter = c
               /\ \A i \in 1..Len(b) :
                      i \in 2..(n + 1) => b[i].op = "permute" /\ Counted(b[i].use_avx512) = c
               /\ \A i \in 1..Len(b) : i = 1 => b[i].op = "store"
               /\ \A i \in 1..Len(b) :
                      b[i].op = "assert" => /\ i > n + 1 /\ b[i].counter = c
                                            /\ b[i].least \in Nat /\ b[i].least <= n
<1>1. CASE t = "hash_scalar"
  <2>1. Body(t) = <<StoreZero("scalar"), Permutation(FALSE), AssertAtLeast("scalar", 1)>>
    BY <1>1, CountersAssumption DEF Body, Counting
  <2>2. QED
    BY <1>1, <2>1 DEF Awaited, CounterOf, Counted, StoreZero, Permutation, AssertAtLeast
<1>2. CASE t # "hash_scalar" /\ ~HasAvx512f
  <2>1. Body(t) = <<>>
    BY <1>2, CountersAssumption DEF Body, Counting
  <2>2. QED
    BY <2>1
<1>3. CASE t = "hash_avx512" /\ HasAvx512f
  <2>1. Body(t) = <<StoreZero("avx512"), Permutation(TRUE), AssertAtLeast("avx512", 1),
                    Permutation(FALSE)>>
    BY <1>3, CountersAssumption DEF Body, Counting
  <2>2. QED
    BY <1>3, <2>1 DEF Awaited, CounterOf, Counted, StoreZero, Permutation, AssertAtLeast
<1>4. CASE t = "incremental_avx512" /\ HasAvx512f
  <2> DEFINE S == StoreZero("avx512")
             T == Permutation(TRUE)
             F == Permutation(FALSE)
             A == AssertAtLeast("avx512", 5)
             b == [i \in 1..14 |-> IF i = 1 THEN S ELSE IF i <= 7 THEN T
                                   ELSE IF i <= 13 THEN F ELSE A]
  <2>1. Body(t) = b
    BY <1>4, CountersAssumption DEF Body, Counting
  <2>2. /\ S.op = "store" /\ S.counter = "avx512"
        /\ T.op = "permute" /\ Counted(T.use_avx512) = "avx512" /\ F.op = "permute"
        /\ A.op = "assert" /\ A.counter = "avx512" /\ A.least = 5
    BY <1>4 DEF Counted, StoreZero, Permutation, AssertAtLeast
  <2> HIDE DEF S, T, F, A
  <2>3. Len(b) = 14
    OBVIOUS
  <2>4. /\ b[1] = S /\ b[14] = A
        /\ \A i \in 2..7 : b[i] = T
        /\ \A i \in 8..13 : b[i] = F
    OBVIOUS
  <2> HIDE DEF b
  <2>5. \A i \in 1..14 : i = 1 \/ i \in 2..7 \/ i \in 8..13 \/ i = 14
    OBVIOUS
  <2>6. Awaited(t) = 6 /\ CounterOf(t) = "avx512"
    BY <1>4 DEF Awaited, CounterOf
  <2>7. QED
    BY <2>1, <2>2, <2>3, <2>4, <2>5, <2>6
<1>5. QED
  BY <1>1, <1>2, <1>3, <1>4 DEF Counting

(* The other tests neither store nor assert.                               *)
LEMMA OtherBody ==
    ASSUME NEW t \in Others
    PROVE  Len(Body(t)) \in Nat /\ \A i \in 1..Len(Body(t)) : Body(t)[i].op = "permute"
<1>1. Hashed[t] \in Seq(BOOLEAN) /\ Len(Hashed[t]) \in Nat
  BY CountersAssumption
<1>2. Body(t) = [i \in 1..Len(Hashed[t]) |-> Permutation(Hashed[t][i])]
  BY CountersAssumption DEF Body, Counting
<1>3. Len(Body(t)) = Len(Hashed[t])
  BY <1>1, <1>2
<1>4. QED
  BY <1>1, <1>2, <1>3 DEF Permutation

(* What a test has counted for itself once it has begun: everything it has *)
(* done since its store, up to what it awaits.                             *)
OwnDone(t) == IF done[t] - 1 < Awaited(t) THEN done[t] - 1 ELSE Awaited(t)

TestsTypeOK ==
    /\ counts \in [Counter -> Nat]
    /\ done \in [Tests -> Nat] /\ \A t \in Tests : done[t] <= Len(Body(t))
    /\ own \in [Tests -> [Counter -> Nat]]
    /\ failed \subseteq Counting /\ erased \subseteq Counting

(* The invariant behind the three properties: a test that has begun has    *)
(* counted what it did; one that failed does nothing more, so nothing      *)
(* takes it out of `erased' again; nobody erases the scalar counter.       *)
TestsInv ==
    /\ TestsTypeOK
    /\ CountsOwnCalls
    /\ \A t \in Counting :
           Running(t) => own[t][CounterOf(t)] >= OwnDone(t)
    /\ FailsOnlyIfErased /\ "hash_scalar" \notin erased
    /\ \A t \in failed : Finished(t)
    /\ serial => erased = {}

LEMMA TestsInitInv == TestsInit => TestsInv
<1> SUFFICES ASSUME TestsInit PROVE TestsInv
  OBVIOUS
<1>1. \A t \in Tests : Len(Body(t)) \in Nat
  BY CountingBody, OtherBody DEF Tests
<1>2. TestsTypeOK
  BY <1>1 DEF TestsInit, TestsTypeOK, NoCounts, Counter, Tests
<1>3. \A t \in Counting : ~Running(t)
  BY DEF TestsInit, Running, Tests
<1>4. QED
  BY <1>2, <1>3 DEF TestsInit, TestsInv, CountsOwnCalls, FailsOnlyIfErased

(* The test whose turn it is has an operation left to do.                  *)
LEMMA NextInBody ==
    ASSUME TestsInv, NEW t \in Tests, ~Finished(t)
    PROVE  /\ done[t] \in Nat /\ Len(Body(t)) \in Nat
           /\ done[t] + 1 \in 1..Len(Body(t))
<1>1. Len(Body(t)) \in Nat
  BY CountingBody, OtherBody DEF Tests
<1>2. QED
  BY <1>1 DEF TestsInv, TestsTypeOK, Finished

(* What an operation does to the test that does it, and to the others.     *)
LEMMA AdvanceEffect ==
    ASSUME TestsInv, NEW t \in Tests, ~Finished(t), Advance(t)
    PROVE  /\ done'[t] = done[t] + 1 /\ \A u \in Tests \ {t} : done'[u] = done[u]
           /\ done' \in [Tests -> Nat] /\ \A u \in Tests : done'[u] <= Len(Body(u))
BY NextInBody DEF TestsInv, TestsTypeOK, Advance

(* The facts of a test speak of its own progress and counts only, where    *)
(* the counters do not shrink.                                             *)
LEMMA OtherUnmoved ==
    ASSUME TestsInv, NEW u \in Counting, done'[u] = done[u], own'[u] = own[u]
    PROVE  /\ Running(u)' <=> Running(u)
           /\ Finished(u)' <=> Finished(u)
           /\ Running(u)' => own'[u][CounterOf(u)] >= OwnDone(u)'
BY DEF TestsInv, Running, Finished, OwnDone

LEMMA StoreKeeps ==
    ASSUME TestsInv, NEW t \in Tests, Store(t)
    PROVE  TestsInv'
<1> DEFINE c == CounterOf(t)
<1>1. ~Finished(t) /\ NextOp(t).op = "store" /\ Advance(t)
  BY DEF Store, Turn
<1>2. /\ done[t] \in Nat /\ Len(Body(t)) \in Nat /\ done[t] + 1 \in 1..Len(Body(t))
      /\ done'[t] = done[t] + 1 /\ \A u \in Tests \ {t} : done'[u] = done[u]
      /\ done' \in [Tests -> Nat] /\ \A u \in Tests : done'[u] <= Len(Body(u))
  BY <1>1, NextInBody, AdvanceEffect
<1>3. t \in Counting /\ done[t] = 0 /\ NextOp(t).counter = c /\ c \in Counter
  <2>1. t \in Counting
    BY <1>1, <1>2, OtherBody DEF NextOp, Tests
  <2>2. QED
    BY <1>1, <1>2, <2>1, CountingBody DEF NextOp, CounterOf, Counter
<1>4. /\ counts' = [counts EXCEPT ![c] = 0] /\ own' = [own EXCEPT ![t] = NoCounts]
      /\ erased' = (erased \ {t}) \cup {u \in Counting \ {t} : Running(u) /\ CounterOf(u) = c}
      /\ serial' = serial /\ failed' = failed
  BY <1>3 DEF Store
<1>5. NoCounts \in [Counter -> Nat] /\ \A d \in Counter : NoCounts[d] = 0
  BY DEF NoCounts
<1>6. TestsTypeOK'
  BY <1>2, <1>3, <1>4, <1>5 DEF TestsInv, TestsTypeOK, Tests
<1>7. own'[t] = NoCounts /\ \A u \in Tests \ {t} : own'[u] = own[u]
  BY <1>3, <1>4, <1>5 DEF TestsInv, TestsTypeOK
<1>8. counts'[c] = 0 /\ \A d \in Counter \ {c} : counts'[d] = counts[d]
  BY <1>3, <1>4 DEF TestsInv, TestsTypeOK
<1>9. ASSUME NEW u \in Counting, Running(u)'
      PROVE  /\ own'[u][CounterOf(u)] >= OwnDone(u)'
             /\ u \notin erased' => counts'[CounterOf(u)] >= own'[u][CounterOf(u)]
  <2>1. CASE u = t
    <3>1. own'[t][c] = 0 /\ counts'[c] = 0
      BY <1>3, <1>5, <1>7, <1>8
    <3>2. OwnDone(t)' = 0
      BY <1>2, <1>3 DEF OwnDone, Awaited
    <3>3. QED
      BY <2>1, <3>1, <3>2
  <2>2. CASE u # t
    <3>1. Running(u) /\ own'[u] = own[u] /\ own'[u][CounterOf(u)] >= OwnDone(u)'
      BY <1>2, <1>7, <1>9, <2>2, OtherUnmoved DEF Tests
    <3>2. ASSUME u \notin erased'
          PROVE  counts'[CounterOf(u)] >= own'[u][CounterOf(u)]
      <4>1. u \notin erased /\ CounterOf(u) # c
        BY <1>4, <2>2, <3>1, <3>2
      <4>2. CounterOf(u) \in Counter \ {c}
        BY <4>1 DEF CounterOf, Counter
      <4>3. QED
        BY <1>8, <3>1, <4>1, <4>2 DEF TestsInv, CountsOwnCalls
    <3>3. QED
      BY <3>1, <3>2
  <2>3. QED
    BY <2>1, <2>2
<1>10. t \notin failed
  BY <1>1 DEF TestsInv
<1>11. FailsOnlyIfErased' /\ "hash_scalar" \notin erased'
  <2>1. "hash_scalar" \notin erased'
    BY <1>3, <1>4 DEF TestsInv, CounterOf
  <2>2. QED
    BY <1>4, <1>10, <2>1 DEF TestsInv, FailsOnlyIfErased
<1>12. \A u \in failed' : Finished(u)'
  BY <1>2, <1>4, <1>10 DEF TestsInv, TestsTypeOK, Tests, Finished
<1>13. serial' => erased' = {}
  BY <1>4 DEF TestsInv, Store, Turn, Tests
<1>14. QED
  BY <1>6, <1>9, <1>11, <1>12, <1>13 DEF TestsInv, CountsOwnCalls
LEMMA PermuteInKeeps ==
    ASSUME TestsInv, NEW t \in Tests, PermuteIn(t)
    PROVE  TestsInv'
<1> DEFINE c == Counted(NextOp(t).use_avx512)
<1>1. ~Finished(t) /\ NextOp(t).op = "permute" /\ Advance(t)
  BY DEF PermuteIn, Turn
<1>2. /\ done[t] \in Nat /\ Len(Body(t)) \in Nat /\ done[t] + 1 \in 1..Len(Body(t))
      /\ done'[t] = done[t] + 1 /\ \A u \in Tests \ {t} : done'[u] = done[u]
      /\ done' \in [Tests -> Nat] /\ \A u \in Tests : done'[u] <= Len(Body(u))
  BY <1>1, NextInBody, AdvanceEffect
<1>3. c \in Counter
  BY DEF Counted, Counter
<1>4. /\ counts' = [counts EXCEPT ![c] = @ + 1] /\ own' = [own EXCEPT ![t][c] = @ + 1]
      /\ serial' = serial /\ failed' = failed /\ erased' = erased
  BY DEF PermuteIn
<1> HIDE DEF c
<1>5. TestsTypeOK'
  BY <1>2, <1>3, <1>4 DEF TestsInv, TestsTypeOK
<1>6. /\ own'[t][c] = own[t][c] + 1 /\ own[t][c] \in Nat
      /\ \A d \in Counter \ {c} : own'[t][d] = own[t][d] /\ own[t][d] \in Nat
      /\ \A u \in Tests \ {t} : own'[u] = own[u]
  BY <1>3, <1>4 DEF TestsInv, TestsTypeOK
<1>7. /\ counts'[c] = counts[c] + 1 /\ counts[c] \in Nat
      /\ \A d \in Counter \ {c} : counts'[d] = counts[d] /\ counts[d] \in Nat
  BY <1>3, <1>4 DEF TestsInv, TestsTypeOK
<1>8. ASSUME NEW u \in Counting, Running(u)'
      PROVE  /\ own'[u][CounterOf(u)] >= OwnDone(u)'
             /\ u \notin erased' => counts'[CounterOf(u)] >= own'[u][CounterOf(u)]
  <2> DEFINE d == CounterOf(u)
  <2>0. d \in Counter /\ u \in Tests /\ own[u][d] \in Nat
    BY DEF CounterOf, Counter, Tests, TestsInv, TestsTypeOK
  <2>1. CASE u = t
    <3>1. done[t] # 0
      BY <1>1, <1>2, <2>1, CountingBody DEF NextOp
    <3>2. Running(u)
      BY <1>1, <1>2, <2>1, <3>1 DEF Running
    <3>3. own[u][d] >= OwnDone(u) /\ (u \notin erased => counts[d] >= own[u][d])
      BY <3>2 DEF TestsInv, CountsOwnCalls
    <3>4. CASE c = d
      <4>1. own'[u][d] = own[u][d] + 1 /\ counts'[d] = counts[d] + 1
        BY <1>6, <1>7, <2>1, <3>4
      <4>2. OwnDone(u)' <= OwnDone(u) + 1 /\ OwnDone(u) \in Nat /\ OwnDone(u)' \in Nat
        BY <1>2, <2>1, <3>1 DEF OwnDone, Awaited
      <4>3. counts[d] \in Nat
        BY <1>7, <3>4
      <4>4. QED
        BY <1>4, <2>0, <3>3, <4>1, <4>2, <4>3
    <3>5. CASE c # d
      <4>1. own'[u][d] = own[u][d] /\ counts'[d] = counts[d]
        BY <1>6, <1>7, <2>0, <2>1, <3>5
      <4>2. done[t] + 1 > Awaited(t) + 1
        <5>1. done[t] + 1 \notin 2..(Awaited(t) + 1)
          BY <1>2, <2>1, <3>5, CountingBody DEF NextOp, c
        <5>2. QED
          BY <1>2, <3>1, <5>1 DEF Awaited
      <4>3. OwnDone(u)' = OwnDone(u)
        BY <1>2, <2>1, <4>2 DEF OwnDone, Awaited
      <4>4. QED
        BY <1>4, <3>3, <4>1, <4>3
    <3>6. QED
      BY <3>4, <3>5
  <2>2. CASE u # t
    <3>1. Running(u) /\ own'[u] = own[u] /\ own'[u][d] >= OwnDone(u)'
      BY <1>2, <1>6, <1>8, <2>0, <2>2, OtherUnmoved
    <3>2. u \notin erased => counts[d] >= own[u][d]
      BY <3>1 DEF TestsInv, CountsOwnCalls
    <3>3. counts'[d] >= counts[d] /\ counts[d] \in Nat /\ counts'[d] \in Nat
      BY <1>7, <2>0
    <3>4. QED
      BY <1>4, <2>0, <3>1, <3>2, <3>3
  <2>3. QED
    BY <2>1, <2>2
<1>9. t \notin failed
  BY <1>1 DEF TestsInv
<1>10. \A u \in failed' : Finished(u)'
  BY <1>2, <1>4, <1>9 DEF TestsInv, TestsTypeOK, Tests, Finished
<1>11. FailsOnlyIfErased' /\ "hash_scalar" \notin erased' /\ (serial' => erased' = {})
  BY <1>4 DEF TestsInv, FailsOnlyIfErased
<1>12. QED
  BY <1>5, <1>8, <1>10, <1>11 DEF TestsInv, CountsOwnCalls

(* An assertion comes after all a test awaits: if no one erased it, it is  *)
(* in the counter.                                                         *)
LEMMA AssertionKeeps ==
    ASSUME TestsInv, NEW t \in Tests, Assertion(t)
    PROVE  TestsInv'
<1> DEFINE c == CounterOf(t)
<1>1. ~Finished(t) /\ NextOp(t).op = "assert"
  BY DEF Assertion, Turn
<1>2. /\ done[t] \in Nat /\ Len(Body(t)) \in Nat /\ done[t] + 1 \in 1..Len(Body(t))
  BY <1>1, NextInBody
<1>3. t \in Counting
  BY <1>1, <1>2, OtherBody DEF NextOp, Tests
<1>4. /\ NextOp(t).counter = c /\ NextOp(t).least \in Nat /\ NextOp(t).least <= Awaited(t)
      /\ done[t] + 1 > Awaited(t) + 1
  BY <1>1, <1>2, <1>3, CountingBody DEF NextOp
<1>5. Running(t) /\ OwnDone(t) = Awaited(t)
  BY <1>1, <1>2, <1>4 DEF Running, OwnDone, Awaited
<1>6. c \in Counter /\ counts[c] \in Nat /\ own[t][c] \in Nat
  BY DEF CounterOf, Counter, TestsInv, TestsTypeOK
<1>7. own[t][c] >= Awaited(t) /\ (t \notin erased => counts[c] >= own[t][c])
  BY <1>3, <1>5 DEF TestsInv, CountsOwnCalls
<1>8. UNCHANGED <<serial, counts, own, erased>>
  BY DEF Assertion
<1>9. /\ done' \in [Tests -> Nat] /\ \A u \in Tests : done'[u] <= Len(Body(u))
      /\ \A u \in Tests \ {t} : done'[u] = done[u]
      /\ done'[t] = done[t] + 1 \/ done'[t] = Len(Body(t))
      /\ failed' = failed \/ (failed' = failed \cup {t} /\ t \in erased /\ done'[t] = Len(Body(t)))
  <2>1. CASE Advance(t) /\ UNCHANGED failed
    BY <1>1, <2>1, AdvanceEffect
  <2>2. CASE /\ counts[NextOp(t).counter] < NextOp(t).least
             /\ done' = [done EXCEPT ![t] = Len(Body(t))]
             /\ failed' = failed \cup {t}
    <3>1. t \in erased
      BY <1>4, <1>6, <1>7, <2>2 DEF Awaited
    <3>2. QED
      BY <1>2, <2>2, <3>1 DEF TestsInv, TestsTypeOK
  <2>3. QED
    BY <2>1, <2>2 DEF Assertion
<1>10. TestsTypeOK'
  BY <1>3, <1>8, <1>9 DEF TestsInv, TestsTypeOK
<1>11. ASSUME NEW u \in Counting, Running(u)'
       PROVE  Running(u) /\ own'[u][CounterOf(u)] >= OwnDone(u)'
  <2>1. CASE u = t
    <3>1. OwnDone(t)' = Awaited(t)
      BY <1>2, <1>4, <1>9 DEF OwnDone, Awaited
    <3>2. QED
      BY <1>5, <1>7, <1>8, <2>1, <3>1
  <2>2. CASE u # t
    BY <1>8, <1>9, <1>11, <2>2, OtherUnmoved DEF Tests
  <2>3. QED
    BY <2>1, <2>2
<1>12. CountsOwnCalls'
  BY <1>8, <1>11 DEF TestsInv, CountsOwnCalls
<1>13. t \notin failed
  BY <1>1 DEF TestsInv
<1>14. ASSUME NEW u \in failed'
       PROVE  Finished(u)'
  <2>1. CASE u = t
    BY <1>9, <1>13, <2>1 DEF Finished
  <2>2. CASE u # t
    <3>1. u \in failed /\ u \in Tests
      BY <1>9, <1>14, <2>2 DEF TestsInv, TestsTypeOK, Tests
    <3>2. QED
      BY <1>9, <2>2, <3>1 DEF TestsInv, Finished
  <2>3. QED
    BY <2>1, <2>2
<1>15. FailsOnlyIfErased' /\ "hash_scalar" \notin erased' /\ (serial' => erased' = {})
  BY <1>8, <1>9 DEF TestsInv, FailsOnlyIfErased
<1>16. QED
  BY <1>10, <1>11, <1>12, <1>14, <1>15 DEF TestsInv

LEMMA TestsNextInv == TestsInv /\ [TestsNext]_testVars => TestsInv'
<1>1. TestsInv /\ UNCHANGED testVars => TestsInv'
  BY DEF testVars, TestsInv, TestsTypeOK, CountsOwnCalls, FailsOnlyIfErased, Running, Finished,
         OwnDone
<1>2. QED
  BY <1>1, StoreKeeps, PermuteInKeeps, AssertionKeeps DEF TestsNext

(* Every reachable state of the test program satisfies the invariant.      *)
THEOREM TestsInvariance == TestsSpec => []TestsInv
BY TestsInitInv, TestsNextInv, PTL DEF TestsSpec

(* However many threads count at once, a test whose counter no other one   *)
(* has erased finds its own permutations in it: see CountsOwnCalls.        *)
THEOREM OwnCallsCounted == TestsSpec => []CountsOwnCalls
<1>1. TestsInv => CountsOwnCalls
  BY DEF TestsInv
<1> QED BY <1>1, TestsInvariance, PTL

(* A failing assertion always has a store of another test before it, and   *)
(* the test of the scalar path never fails: see FailsOnlyIfErased.         *)
THEOREM OnlyErasedFail == TestsSpec => []FailsOnlyIfErased
<1>1. TestsInv => FailsOnlyIfErased
  BY DEF TestsInv
<1> QED BY <1>1, TestsInvariance, PTL

(* With one test thread no assertion fails, whatever the other tests hash  *)
(* and in whatever order they run: see AssertionsHoldSerially.             *)
THEOREM SeriallyNoneFails == TestsSpec => []AssertionsHoldSerially
<1>1. TestsInv => AssertionsHoldSerially
  BY DEF TestsInv, FailsOnlyIfErased, AssertionsHoldSerially
<1> QED BY <1>1, TestsInvariance, PTL
=============================================================================
