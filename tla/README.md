# A TLA+ model of sha3-kernel-hasher

This directory models, checks and proves properties of the Rust crate
`sha3-kernel-hasher`: SHA3-512 as a streaming hasher, as a hasher of memory
regions and of byte streams, and as a SIMD batch hasher of many messages.
Paths below are relative to the repository; line numbers are those of the
commit the project was written for.

## 1. Inventory

| Component | Code | State it keeps | Operations |
|---|---|---|---|
| Sponge | `src/lib.rs` `Sha3_512State` | 25 lanes, `pos`, 200-byte `buffer` | `new`, `reset`, `absorb`, `finalize` |
| Single-message API | `src/lib.rs` `Sha3_512Kernel` | a sponge, the configuration, the detected features | `update`, `finalize`, `reset`, `hash`, `hash_memory_region`, digest wrappers |
| Region lists | `src/lib.rs` `hash_memory_regions` | the caller's hasher, a lazy iterator | filter, hash, collect |
| Batch hashing | `src/lib.rs` `hash_many`, `hash_batch_x8`, `hash_batch_x4` | locals of one call | chunk, XOR, permute, squeeze |
| Dispatch | `src/lib.rs` `permute`, `update_config`, `detect_simd_features`; `src/simd_avx512.rs` `keccak_f1600_dispatch` | configuration, features, two test counters | choose a path |
| Permutation | `src/keccak.rs`, `src/simd_avx512.rs`, `src/simd_parallel.rs` | none | Keccak-f[1600] in three layouts |
| Stream reader | `src/io.rs` `Sha3Reader` | source, hasher, staging buffer, byte count | `consume_chunk`, `consume_all`, `finalize` |
| Hex digests | `src/hex.rs` | none | encode, decode, format, serialize, deserialize |
| Constant-time helpers | `src/ct.rs` | none | `ct_eq`, `ct_hash_eq`, `ct_select` |
| Serialization | `src/lib.rs` `state_serde` | four `Option`s while a document is read | `serialize`, `visit_map` |
| Processor state | `src/lib.rs` `kernel_safe` | none: a stub | `save`, `restore` |
| Examples | `examples/kernel.rs`, `examples/large_file_integrity.rs`, `examples/basic.rs` | a generated image, a chunk, digests to compare | display digests, compare three ways of hashing |
| Tooling | `benches/`, `scripts/`, `build.rs`, `performance`, the benchmark example | none | measure, print, detect the driver kit |

How they interact: everything is a call. `Sha3Reader` owns a
`Sha3_512Kernel` and feeds it; the kernel owns a `Sha3_512State`;
`absorb` and `finalize` call `permute`, which dispatches on the configuration
and the CPU. `hash_memory_regions` borrows the caller's hasher for each region
it accepts, and the kernel example zips its answer with the regions.
`hash_many` keeps sponges of its own and never touches the caller's. The crate
is compiled in two ways: with `std`, where `permute` asks the CPU, and with the
`kernel` feature, where another `permute` of the same signature does not, and
`hash_many` is missing. There are no threads, no callbacks and no shared state in the
library (its tests have both: threads of the harness, and two static counters),
so its hard behaviour is elsewhere: byte positions at block
boundaries, buffers that keep old bytes, call orders the documentation only
advises against, lanes of a batch that end at different times, conditions
decided in two places, failed reads in the middle of a loop. `PROJECT.json`
lists each at its line.

What makes each component correct:

- **Sponge, single-message API**: splitting a message over `update` calls does
  not show; `finalize` is genuine exactly once after a reset; what misuse does
  is still determined.
- **Region lists**: one digest per accepted region, of that region's bytes.
- **Batch hashing**: one digest per message, in order, equal to what a lone
  hasher gives, at every width and mix of lengths; every call returns.
- **Dispatch, processor state**: no implementation runs on a CPU that lacks
  its instructions, and the test counters tell which one ran; what `save` took,
  `restore` should bring back (it does not, section 5).
- **Stream reader**: no byte is lost or repeated by short reads, failures and
  retries; `Ok` means the whole stream; the loop ends.
- **Permutation**: the three layouts compute the same function, and the
  scalar one the published answer.
- **Hex, constant-time helpers**: round trips of each form of a digest, and
  agreement with plain equality.
- **Serialization**: nothing but a whole state is loaded, and what was saved
  comes back.
- **Examples**: a digest is shown with its own region as far as the code can
  know; three ways of hashing agree.

## 2. Two views of the Keccak state

**Symbolic, for everything built on the permutation.** The permutation is left
free. A Keccak state is the sequence of bytes absorbed
into it, whole block after whole block, and squeezing returns that sequence
(`Padding.tla`). Two digests of the model are equal exactly when the same
blocks were absorbed in the same order. This is the strongest reading of
"collision-free" and the one that makes errors visible: a block lost, stale,
doubled or out of place always changes the digest. It also makes the
properties independent of what Keccak-f computes. A state permuted without a
new block (the lanes of a batch that have ended) absorbs a block of zeros,
which is what XOR-ing nothing means.

**In bits, for the permutation itself.** `KeccakF` has the real lanes: 25 of
64 bits, the code's tables and all 24 rounds. A lane is the set of the numbers
of its bits that are 1: XOR is symmetric difference, `!b & c` is `c \ b`, a
rotation adds modulo 64, a shift adds and drops what leaves the lane. This is
exact, needs no arithmetic on 64-bit numbers, and lets the equalities be
proved for every state.

**The two joined.** `LaneSponge` says what `absorb` and `finalize` do to lanes of
bits under any permutation, a constant (`Permute`): which block is taken from
where, the XOR of its little-endian words, the bytes that are read at the end. `Kernel`
carries these lanes and the bytes returned beside the symbolic state and the
symbolic digests, and `LanesFollowBlocks` says that the one is always what the other
stands for: `LanesAfter(bytes)` are the lanes some whole blocks leave behind,
`SHA3(msg)` the bytes read after the padded message in one piece. So what is
shown of symbols holds of bytes; only that different digests differ is true of
the symbols alone, which is why the digests stay symbolic beside the bytes.
What remains free, the permutation, is the function `KeccakF1600` of the second view:
every implementation is proved to compute it, and it takes 25 lanes of 64 bits
to 25 lanes of 64 bits. In the batches the join is not carried along but proved
(`BatchesRunOnLanes`).

Sizes are constants: `Rate` (72 in the code), `Word` (8), `BufferLen` (200),
`Wide` and `Narrow` (8 and 4 lanes), `IoBufSize` (8192), `MaxHashSize`
(256 MiB). TLC uses small ones; the proofs hold for all of them that meet the
named assumptions.

## 3. Modules

| Module | Models |
|---|---|
| `Padding` | bytes, the padding rule (`pad_message`), digests |
| `Sponge` | `Sha3_512State`; `absorb` in its three phases `TopUp`, `AbsorbBlocks`, `KeepTail`; `finalize` as `PadBuffer` then one block |
| `LaneSponge` | the same on lanes of bits, for any permutation: packing bytes into lanes, XOR, one permutation per block, reading the digest |
| `IncrementalHash` | abstract: a hasher is the message it stands for |
| `Kernel` | `Sha3_512Kernel`: one action per method, any order; refines `IncrementalHash` |
| `MemoryRegions` | extends `Kernel`: `hash_memory_regions` as an iterator; refines `Kernel` |
| `KernelExample` | extends `MemoryRegions`: the display loop of `examples/kernel.rs` |
| `Paths` | the conditions that choose an implementation, and what each requires |
| `Dispatch` | both builds: configuration changes, permutations, batches, counters, vector registers, `save` and `restore` |
| `ManyHash` | abstract: a list of messages in, their digests out |
| `HashMany` | `hash_many` and the two batch functions; refines `ManyHash` |
| `Reader` | `Sha3Reader` over an external source |
| `LargeFileIntegrity` | extends `Reader`: `examples/large_file_integrity.rs` |
| `KeccakF`, `Keccak` | the tables and steps of `keccak.rs`, and the permutation as a function; a permutation, round by round |
| `KeccakRows` | `keccak_f1600_avx512`: five rows in registers; refines `Keccak` |
| `KeccakBatch` | `keccak_f1600_x8_avx512` and `keccak_f1600_x4_avx2`; each member refines `Keccak` |
| `KeccakPaths` | both, called one after the other |
| `TestCounters` | the tests that read the path counters, as threads of one test program |
| `HexDigest` | `Sha3Digest`: encoding, formatting, `from_hex`, the visitor of its `Deserialize` |
| `Comparison` | `ct_eq`, `ct_hash_eq`, `ct_select` |
| `DigestCheck` | a caller that checks a digest against a text or a document, with both |
| `StateSerde` | `Serialize` and `Deserialize` of `Sha3_512State`, and a program that uses them across restarts |
| `MC...` | instances for TLC |
| `SpongeProofs`, `KernelProofs`, `HashManyProofs`, `ReaderProofs`, `DispatchProofs`, `StateSerdeProofs`, `KeccakProofs`, `DigestCheckProofs` | theorems; `KernelProofs` has those of `Kernel`, `MemoryRegions` and `KernelExample`, `ReaderProofs` those of `Reader` and `LargeFileIntegrity`, `KeccakProofs` those of `KeccakRows`, `KeccakBatch` and `KeccakPaths`, `DispatchProofs` those of `Dispatch` and `TestCounters`, `DigestCheckProofs` those of `HexDigest`, `Comparison` and `DigestCheck` |

**Sponge and Kernel.** A method takes `&mut self`, so a call is one step. The
record fields are the struct's fields; `rate` never changes and is the
constant `Rate`. The array of lanes is there twice: in `sponge.state` as the
blocks absorbed, in `lanes` in bits; `returned` and `output` are the digests of
the last call in the same two forms. `fed` and `finals` are history variables: what was passed
since the hasher was last new, reset or reused, and how often it was finalized
since. `finalize` pads the buffer in place and changes neither `pos` nor the
bytes below it; so does the model, and `IncrementalHash` says what that means
to a caller: the hasher goes on as if it had been fed the padded message and
then its last partial block again (`AfterFinalize`).

**MemoryRegions.** `hash_memory_regions` evaluates its filter lazily, one
region at a time; `HashNext`, `SkipNext` and `Collect` are the turns of the
iterator, and `HashNext` is `Kernel`'s own `HashMemoryRegion`. Memory is a
function from addresses to bytes. Regions the caller marks readable are valid,
as the `unsafe` contract demands; others may point anywhere. Between lists any
method of the same hasher may be called, so one run checks both.

**KernelExample.** `zip` pairs the regions with the digests by position, though
the list of digests has none for a region that was left out; `Show` is a turn of
that loop, `report` what it has shown. `OwnDigestUntilSkipped` says exactly how
far the pairs are right. The rest of the example calls `hash` and `update` as
`Kernel` does.

**HashMany.** `pc` is the place in the code: `chunk` (the `for chunk` loop),
`xor`, `permute` and `squeeze` (a round of a batch). `hash_batch_x8` and
`hash_batch_x4` differ in their width only and are one set of actions. A lane
holds absorbed bytes and a block XORed in but not yet permuted.

**Dispatch.** A CPU is a set of features. The path that runs and the path the
test counters record are two operators because the code decides them in two
places. `build` is the `cfg`: it chooses between the two functions `permute`
and between the two functions `detect_simd_features`. `registers` says whose
values the vector registers hold, which is external: those of the code a driver
interrupted, of the driver, or of the hasher. A vector path overwrites them; the
scalar path may, as the compiler is free to vectorise its loops (`src/keccak.rs:91`)
and SSE2 is part of every x86_64. `saved` is the
`ProcessorState` a driver holds between `save` and `restore`, and the model of
`restore` does what the code does: nothing. `atSave` is a history variable, what
the registers held at the save.

**Reader.** The source is external: a read returns between 1 and `IoBufSize`
bytes while any remain, 0 at the end, or an error. `consume_all` interleaves
nothing, but each turn of its loop is a step, and a failed one leaves the
reader for the caller to use again.

**LargeFileIntegrity.** The three tests of the example one after the other: a
`Sha3Reader`, `hash_reader`, and `update` on chunks. They use the actions of
`Reader`; only the source is another, the synthetic image, whose generator is
turned once per byte and kept across reads. The generator starts from one fixed
seed and nothing else steps it, so its state is the number of its turns;
`Generated`, a constant, is the byte after each of them, whatever xorshift64
computes. `way` is the test that runs, or `other` for a caller of
`Reader` with any source, so that one run checks both.

**Keccak.** One round is one step, in `Keccak`, `KeccakRows` and `KeccakBatch`, so that the refinement
is round by round and not only of the result. The intrinsics are external:
each is one operator that says what it does to a register. `KeccakRows` has
the lanes of padding and the tables of shuffles and masks as the code builds
them. `KeccakBatch` has one text for the two batch permutations, whose steps
correspond line by line; `HasAvx512` chooses between the instructions of the
wide one and the shifts, AND-NOT and XOR of the narrow one. After the last
round the caller XORs a block into the result and permutes again: `CallAgain`
starts over with any of the `Inputs`. `KeccakPaths` lets a caller permute single
states and batches in any order; nothing in the crate runs at the same time, so one
ends before the next begins.

**TestCounters.** A test is the list of what it does to the counters: stores of
0, permutations (one per block, so a body of fixed length), assertions; `done`
is how far it has come. One operation is one step, as each is one atomic access;
they are `Relaxed`, but all that matters is the order on one location. `Others`
are the tests that hash without looking, any number of them, each with a list of
permutations of any configuration (`Hashed`). `serial` is a harness with one
test thread.

**HexDigest, Comparison, DigestCheck.** A turn of a loop is a step. Characters
are their byte values, in sequences a `&str` can hold; the bytes of
`Comparison` are sets of bits, as the lanes of `KeccakF` are. A document is
what a format hands the visitor: the bytes whole (`visit_bytes`) or one number
after another (`visit_seq`), which need not fit a byte. `DigestCheck` adds the
caller, who is the environment: it parses a text or a document and compares what
it got with the digest at hand, or compares other slices.

**StateSerde.** The fields of a `Sha3_512State` are public while `absorb` and
`finalize` are not, so the program the model is of fills a state in, resets it,
saves it, is restarted, and takes up what it loads. A document is a sequence of
entries, a turn of the `while` loop each: a field as it was saved or another
value for it, in any order and number, cut short anywhere, or one entry that is
malformed. `found` is the four `Option`s. `altered` is a history variable: the
state held goes back to an entry that was not saved.

Operators and actions marked "Mutant of" are not part of any specification.
Each is the modelled code with one plausible mistake, and is there to show that
the property it is paired with in `PROJECT.json` notices.

## 4. Runs

| Run | Instance | Shows |
|---|---|---|
| `regions` | rate 4, inputs of 0 to 9 bytes, three lists of up to 4 regions | the single-message API, in any order and between lists of regions, keeps `StandsForWhatWasFed` and `GenuineOnlyWhenFresh` and implements `IncrementalHash`; its lanes of bits and the bytes it returns are those of the recorded blocks (`LanesFollowBlocks`); digests belong to their regions; progress is kept or lost as stated; all digests are shown, as right as stated |
| `regions_doc` | same | violation: not one digest per readable region |
| `hash_many` | rate 2, widths 3, 2 and 1, up to 4 messages of 1 to 3 blocks | order, capture, supported paths; implements `ManyHash`, liveness included |
| `dispatch` | both builds, all 64 CPUs | supported paths only; counters agree |
| `dispatch_doc` | same | violation: the feature flags do not gate the vector paths |
| `restore_doc` | same | violation: a driver's registers are not restored |
| `reader` | rate 2, staging buffer 3, streams of 0 to 7 bytes; images of 0 to 7 bytes but 1 with chunks of 4 | nothing lost or repeated; `Ok` only at the end; the loop ends; the stress test ends with three right digests |
| `keccak` | six states, six batches of 4 (all zero and mixed), 24 rounds of 64-bit lanes, 2628 states | the AVX-512 permutation implements the scalar one and clears its padding; each member of a batch implements it too; a single permutation and a batch agree on an input they share; the known answer of the repository's tests |
| `test_counters` | the three tests that read the counters and one more, which takes both paths, at once or one at a time | a test finds its own calls; it fails only if another erased them, and never with one thread |
| `test_counters_doc` | the same | violation: an assertion fails though the path was taken |
| `digest_check` | 2-byte digests, texts of up to 5 characters, documents of up to 3 elements | each way back undoes its way out and accepts nothing else; comparing agrees with equality; together they accept what was published of the digest and nothing else |
| `state_serde` | 2 lanes, a buffer of 3 bytes, up to 5 entries | exactly whole states are loaded, with the last value of each field; a saved one comes back; only an altered document brings a bad `pos` |

Bounds and why they suffice. What matters to `absorb` is how the input and the
buffered bytes lie relative to a block boundary; `MCMemoryRegions` feeds lengths
0, 1, rate - 1, rate, rate + 1 and two blocks and one into a buffer at every
position, and regions of one block, of the size limit and one past it.
`MaxAbsorbed` (11) bounds the bytes between resets short of three blocks of
four, enough for a top-up, a whole block and a tail, and for update after
finalize. The
bytes include those padding writes (6, 128, 134, 0), so that confusing data
with padding would show. The buffer is longer than the rate, as in the code.
There are three lanes of two bytes, so that a block does not reach the last one and
a digest is shorter than a state, and a permutation (`MCPermute`) that mixes each
lane with its neighbour and moves its bits, so that the order of blocks and a
permutation too many or too few show in the lanes.
In its lists nothing, the first, the middle or everything is left out, for each
of the three reasons; two accepted regions come before the one left out in the
middle, so that their order shows.
`MCHashMany` has messages that end in the first, second and third round, in
full and short chunks of both widths. `MCReader` has a staging buffer that is
no multiple of the rate, so reads end at every position. `MaxFinals` is 2: the
second digest is the first one that is not genuine, further ones differ in
length only. The images end before, at and after the end of a chunk, a block
and the staging buffer. `MaxPermutes` (3) only bounds the counters: two permutations on
either side of a change of configuration are two already. `MaxEntries` (5) is
the four fields and a repeated one; each field has one strange value, a length
that is one short, a `pos` at the rate, a rate of 0. The permutations are
checked at their full size, on a handful of states (the zero state, a single
bit, dense ones); that is a test of tables and indices and not of all inputs,
which is what the proofs are for. The eight-wide batch has no run: its rotation and its ternary logic are
those of the rows, its other steps those of the four-wide batch, and the
theorems cover both. The characters of `MCDigestCheck` are both ends of the
three ranges, the character beyond each, and one that is not ASCII; lengths lie
on both sides of the right one. Its documents are right, short, long, and have
an element that is no byte in a slot and past the last.

`regions`, `hash_many`, `dispatch`, `keccak` and `state_serde` are
checked for deadlock; `reader`, `test_counters` and `digest_check` really stop:
the example is done, the tests are over, the answer is known.

Fairness. `hash_many`, an iteration over regions and `consume_all` are loops
of a running call with nothing to wait for, so a started call goes on: weak
fairness of the loop's turns (`Run`, `Iterate`, `LoopTurn`). The two examples
are straight programs that wait for nothing either: weak fairness of the turns
of the display loop (`Show`) and of the steps of the three tests (`StressTest`).
Nothing is assumed of any other caller. For the reader this assumes that a read returns or
fails; a source that blocks for ever, or never ends, keeps `consume_all` for
ever.

## 5. Findings

- `dispatch_doc`: the docs of `SimdFeatures` say that `avx512_available`
  (F, BW and DQ) and `avx2_available` (AVX2 and BMI2) gate the vector paths
  (`src/lib.rs:265-278`). The gates are AVX-512F and AVX2 alone
  (`src/simd_avx512.rs:324`, `src/lib.rs:620-622`). The implementations need
  no more than that (`OnlySupportedPaths`), so the docs are what is off.
- `regions_doc`: `hash_memory_regions` is documented to return one digest per
  readable region (`src/lib.rs:568`); readable regions that are empty or above
  `MAX_HASH_SIZE` are dropped (`src/lib.rs:572`), and `examples/kernel.rs:59`
  pairs regions with digests by position.
- `restore_doc`: the README offers `save_processor_state` and
  `restore_processor_state` to "a driver that needs to touch SIMD registers around
  *its own* code safely (they wrap `KeSaveExtendedProcessorState`)"
  (`README.md:140-142`, again `262-264`). They wrap nothing: `save` returns zeros
  (`src/lib.rs:1079-1085`) and `restore` is empty (`src/lib.rs:1097-1099`), so
  what a driver leaves in the registers stays there. The property speaks of the
  driver's own code only and assumes nothing of what the hasher does to the
  registers. Comments in the two bodies say that they are stubs.
- `test_counters_doc`: the two tests of the AVX-512 path store 0 to one static
  counter (`src/lib.rs:1367, 1422`), so in the parallel `cargo test` of
  `CONTRIBUTING.md` one can erase the calls the other is about to assert on:
  "must actually invoke the AVX-512 permutation path" (`src/lib.rs:1377`) fails
  although it did. `test_counters` shows that this is the only cause and that
  the scalar test is immune, and that one thread cures it.

Met on the way and not counted as findings, because nothing in the repository
states the opposite of what a run could show, or because it is a wording:

- `examples/kernel.rs:59` shows a region with the digest of a later one once a
  region has been left out (`OwnDigestUntilSkipped` says from where on). The
  lists of the example itself leave none out.
- `src/lib.rs:656-657` says that in kernel mode "SIMD can be enabled via
  PerformanceConfig"; the `permute` of that build ignores the flag
  (`src/lib.rs:236`).
- `examples/kernel.rs:102-107` calls `use_avx512` a no-op; in the `std` build it
  chooses the path (`src/lib.rs:221-232`).
- `StateVisitor` has no `visit_seq`: a state saved by a format that writes no
  keys is refused when it is loaded (`Restart(FALSE)`).
- `visit_map` looks at no relation of `pos` and `rate` (`src/lib.rs:444`), and
  `reset` keeps whatever rate was loaded (`src/lib.rs:906`).
- A document with more than 64 elements is refused by `visit_bytes`; `visit_seq`
  leaves the rest to the format (`src/hex.rs:80, 90`).

## 6. Proofs

All theorems hold for every value of the constants that meets the named
assumptions: `RateAssumption` (the rate is positive), `SpongeAssumption` (the
lanes fill the rate, the buffer holds a block), `LaneAssumption` (a state has the lanes
a block and a digest need), `KernelAssumption` (inputs are
bytes, accepted regions are valid memory), `RegionListAssumption`, `ReaderAssumption`,
`InputAssumption` (the permutation is called with states), `WidthAssumption` (a batch has more
than one lane, the wide one more than the narrow one), `BatchAssumption`,
`DispatchAssumption` (a CPU is a set of features), `CountersAssumption` (the
other tests do a finite number of permutations each), `IntegrityAssumption` (the
generator yields bytes, the chunk is not empty), `HexAssumption`,
`ComparisonAssumption` and `CheckAssumption` (texts, documents and slices are of
octets, a digest has its length), `SerdeAssumption` (the states
a program fills in have whole arrays and a `pos` below the rate).

`PROJECT.json` lists the main theorems. Not listed are types, steps on the way to a
listed one, and theorems of a component whose listed form is about the example that
extends it.

- `SpongeProofs`: `PaddingInjective`; `AbsorbAppends`, that absorbing appends
  to the message a sponge stands for (`MessageOf`) wherever the bytes fall,
  from one lemma per phase (`TopUpCorrect`, `Segment`, `BufferPrefix`);
  `FinalizePads`, that finalizing absorbs exactly the padding of that message;
  `OneShotPads` for `hash`. On lanes of bits, and for any permutation: `AbsorbFollows` and
  `FinalizeFollows`, that from lanes left by whole blocks the code goes to the lanes left
  by the blocks it records; underneath, absorbing bytes in one piece or in two whole-block
  pieces is the same (`BlocksIntoConcat`), and a block is the same whether it is taken
  from the buffer or from the input. `LanesReadBack` is the order of bytes, packed and read.
- `KernelProofs`: `Inv == TypeOK /\ StandsForWhatWasFed` is inductive. Type
  correctness alone is not enough: that the digest is genuine needs the state
  to be whole blocks and the message to be what was fed. The length conjunct
  of `StandsForWhatWasFed` shows that a second `finalize` can never be genuine.
  From it follow `GenuineOnlyWhenFresh` and the refinement of
  `IncrementalHash` (`ImplementsPromise`).
  For lists of regions, `RegionsInv` adds what the iterator has gathered, and
  every step is shown to be a step of `Kernel` or a stutter
  (`RegionsImplementKernel`), so the theorems above carry over
  (`RegionsImplementPromise`); `OneDigestPerAccepted` and `KeepsOrLosesProgress`
  are parts of it. For the example, `PositionsInv` says that the n-th digest is
  of the n-th region as long as none was left out, which gives `ShownRight`.
  Its steps are steps of `Kernel` or stutters too (`ExampleImplementsKernel`),
  so every safety property and the refinement that the run `regions` checks is a
  theorem of the very specification it checks, `ExampleSpec`.
  `LanesFollow` carries `AbsorbFollows` and `FinalizeFollows` through every call order;
  with `FinalizeIsGenuine` it gives `BytesAreGenuine`: the bytes of the first `finalize` since
  a reset are `SHA3` of what was fed, those of `hash` are `SHA3` of its argument.
- `ReaderProofs`: `BlockPerDigest`, that a digest leaves one block more in the
  hasher than was read, is what `HashedWhatWasRead` lacks to be inductive and
  to tell the digest of the stream from all others at its end; with
  `PaddingInjective` it gives `DigestIsOfTheStream`. A digest taken after
  another one and before the end of the stream is left out on purpose: the
  padding and the bytes that follow can spell the rest of the stream (a stream
  that begins with the padding of the empty message, finalized twice at once),
  and `MCReader` has such a stream. `OkAtEnd` is the action property of
  `consume_all`, from the same invariant. For the stress test, `IntegrityInv`
  adds where the image stands: what the source will still deliver is what is left
  of the one stream (`ImageInv`, from which a read of the image is a read of the
  stream, `ReadDelivers`), the third test's hasher stands for what was delivered
  (`UpdateTestInv`), and each digest taken is the stream's. It gives the four
  safety properties for every image, staging buffer and chunk, and
  `AssertionsOfTheExample`, that the example's assertions hold if it ends.
- `DispatchProofs`: `OnlySupportedPaths` and `CountersMatchPaths` are inductive
  with the types. Nothing is proved of the registers: what the code guarantees of
  them is nothing. For the tests that read the counters, `TestsInv` says that a test
  under way has counted for itself what it has done, up to what it awaits
  (`OwnDone`); that the counter is no less, unless it was erased; that a test that
  failed is over, so that nothing un-erases it; and that nobody else stores to
  the scalar counter. `CountingBody` is the one fact about the bodies it needs:
  store first, assert last, on one counter. So the three properties hold beside
  any other tests.
- `DigestCheckProofs`: a loop's result for inputs of any length, by an invariant
  of its turns instead of an induction: `from_hex` has decoded the pairs it has
  passed, all of them digits (`TextInv`); the visitor has taken the elements it
  has passed, all of them bytes (`DocumentInv`); `diff` is zero exactly if the
  bytes compared so far are equal, and the number of turns is how far it is
  (`LoopInv`). Underneath are `NibbleFromAscii` undoing either table, a byte
  being its two nibbles, and that an octet and its set of bits determine each
  other. `Checks` puts them together: the caller's answer is about the bytes, from
  the text to the comparison.
- `StateSerdeProofs`: `FoundInv` says that the `Option`s hold the last value of
  each field of what was read, `ProgramInv` that what is saved is the
  serialized form of a whole state. With `LoadedInv` they give the four
  properties of the run for every number of lanes, content and document.
- `KeccakProofs`: each step on registers is shown to be the scalar step on the lanes unloaded from them (`ThetaOnRows`,
  `RhoPiOnRows`, ...), so a round is a round (`RoundOnRows`, `RoundOnBatch`).
  The facts underneath: the immediate 0xD2 is chi, two shifts rotate for every
  count below 64, XOR folds a column in any order, exactly one mask of pi
  selects each lane. With type correctness these give the refinements for
  every input and every width (`ImplementsKeccak`, `EachIsKeccak`), and that every
  implementation computes the function `KeccakF1600` (`ScalarComputes`, `RowsCompute`,
  `BatchesCompute`; any two of them agree, `ImplementationsAgree`), by the invariant that after n
  rounds the state is the function's n-th (`ScalarAfter`). `KeccakKeepsStates` makes it a
  permutation as the lanes of `LaneSponge` ask for. `PathsRunBoth` carries all of it to
  the specification the run checks. That the
  tables are the right ones is not a theorem: `KnownAnswer` checks it.
- `HashManyProofs`: the inductive invariant adds to `TypeOK` and
  `ResultsInOrder` what each lane holds at each place of a round (`LanesInv`);
  `CapturedInTime` is its part at the loop head. `BatchIsSupported` needs
  `WidthInv`, that the width of a running call is one the CPU was asked for,
  whatever becomes of the configuration. From the invariant follows the
  refinement of `ManyHash`'s safety part (`ImplementsManyHash`).
  `BatchesRunOnLanes` says what the actions of a batch do to the lanes of bits that its
  symbolic lanes stand for (`LanesOf`): zeros at the start, the words of a block XORed in
  or nothing, every lane permuted, those that have ended too; it needs that symbolic lanes are
  whole blocks (`WholeInv`) and that the permutation keeps lanes lanes
  (`PermutesLanes`, a hypothesis, which `KeccakF1600` meets). `ResultBytes` is the result in bytes.

The lanes after n blocks and the state after n rounds are recursive functions. The
library's induction theorems are out of the provers' reach, so the proofs
take the least number at which a statement fails (`LeastElement`, from
`WellFoundedInduction`, and `SetInduction`, which is about sets of numbers instead of
predicates), and a function is unfolded one argument at a time.

Only model-checked: liveness (`EveryDigestShown`, `LoopEnds`, that the stress
test of `StressTestPasses` ends, the fairness part of `HashMany`'s `Promise`),
which needs `ENABLED` and is beyond the prover; and `KnownAnswer`, which is one
long computation. Every other property of the passing runs is a theorem.

## 7. Not modelled

- The derived serde impls of `MemoryRegion`, which are generated code, and the
  text of error messages.
- `basic.rs`, and the parts of `examples/kernel.rs` outside the display loop: one
  call each of what `Kernel` models, and printing.
- Timing (`performance`, `benches/`, the benchmark example), the build script
  and the benchmark scripts: nothing of the hasher's state is in them.
- Opening a file; a source that blocks for ever.
- Memory safety of the raw pointer reads (the `unsafe` contract is an
  assumption of the model) and side channels other than the number of turns of a
  comparison. The secrecy of anything is out of scope.

## 8. Plan

Done: every component of the inventory except the tooling, the theorems above,
the composition of the components that call each other, and the join of the
two views of the state. What is left is small:

1. A hasher of each width in one model: `hash_many` and the region lists are
   alternatives of the same struct, but share only the configuration.
2. `LaneSponge` instantiated with `KeccakF1600` itself. Its lanes count bits from 0 to 63
   and are 25, as those of `KeccakF` are, and `KeccakKeepsStates` is its hypothesis; but no
   run could afford 24 real rounds per block, so the constant stays free.
