# TLA+ models of the ShieldReduce dedup enclave

This directory holds TLA+ models of the deduplication core that runs inside the
SGX enclave (`src/Prototype/src/Enclave/ecallSrc/`), the TLC configurations
that check them, and `PROJECT.json`, which lists the components, runs,
mutants, the mapping from every definition to the lines it models, the
findings and the hazards.

## The system

One enclave serves several upload sessions. Each session's worker thread calls
`Ecall_ProcChunkBatch` for one batch at a time and `Ecall_ProcTailChunkBatch`
at the end of the file (`storeECall.cc`). For the frequency index
(`EcallFreqIndex::ProcessOneBatch`, `ecallFreqIndex.cc`) a batch goes through:

1. decrypt and hash every chunk;
2. under `sketchLck_`: update the Count-Min sketch and estimate each chunk's
   frequency;
3. under `topKIndexLck_`: classify each chunk against the batch-local index
   (`TMP_UNIQUE` / `TMP_DUPLICATE`), then the frequency gate (`freq < minFreq`
   means "cold": `UNIQUE`, ask outside), then heap membership (`DUPLICATE` with
   the heap's address);
4. `Ocall_QueryOutIndex`: the untrusted index answers every `UNIQUE` chunk;
5. super-features, `Ocall_QueryOutBasechunk` (a similar base chunk per new
   chunk) and `LocalChecker` (too many distinct base containers in the batch
   sends all similar chunks to the offline path);
6. the commit loop: duplicates copy their address; a new chunk goes through
   `OfflinedeltaTure` (magic-prefix skip, offline path, an unlocked cache
   lookup, then under `inContainerLck_` `Ocall_getRefContainer` and cache
   insert), `ProcessDeltachunk` (delta only if the container is still cached
   and the delta is smaller) and `ProcessSheUniqueChunk`; every chunk's
   fingerprint goes to the recipe (`UpdateFileRecipe`, sent every
   `sendRecipeBatchSize_` entries);
7. `Ocall_LocalInsert` of the offline (base, new) pairs;
8. under `topKIndexLck_`: refresh the heap with every `UNIQUE`/`DUPLICATE`
   chunk (`CheckIfAddToHeap`, `UpdateInsideIndexFreq`, `AddChunkToHeap`);
9. after the ecall the untrusted side stores each new chunk's address
   (`UpdateIndexStore`) and, for a chunk stored whole and not set aside
   offline, its super-features (`UpdateIndexSF`); the breakdown build does the
   same inline (lines 1389-1425), and that rule is the one modelled.

Shared between sessions: the sketch, the heap, the container cache (inside),
and the outside index, super-feature index and chunk store (outside).

Around the uploads, the enclave's life (`storeECall.cc`): `Ecall_Enclave_Init`
reads `enclaveKey_` (which encrypts every stored chunk) and `indexQueryKey_`
(which encrypts the fingerprints and addresses the outside index holds) from a
sealed key file, or draws both at random when the file is empty.
`Ecall_Enclave_Destroy` writes them to that file, but only after such a first
bootstrap. `Ecall_Init_Upload` creates the index object, which loads the sealed
sketch and top-k heap, and `Ecall_Destroy_Upload` deletes it, sealing them again.

`EcallMeGA` (`ecallMeGA.cc`) is the same pipeline with a per-container count
policy (`MeGAChecker`, `MeGAdeltaTure`) and holds the delta codec
(`EDeltaEncode`, `EDeltaDecode`).

## Modules

| module | models |
|---|---|
| `FreqIndex` | the whole frequency-index pipeline above, with sessions as processes |
| `RecipeService` | the abstract promise to a client session: chunks enter the recipe once and in order, the handed-out part is a growing prefix, the tail batch hands out the rest, the outside index learns only recorded fingerprints |
| `MCFreqIndex` | model values for fingerprints, the sketch's hash table and session symmetry |
| `MeGAIndex` | `EcallMeGA::ProcessOneBatch` and `ProcessTailBatch` with `MeGAChecker`, `MeGALoad`, `MeGAdeltaTure`, `ProcessDeltachunk`, sessions as processes; the enclave stop and start (`PersistDedupIndex`, `LoadDedupIndex`) |
| `MCMeGAIndex` | the same model values for `MeGAIndex` |
| `DeltaCodec` | `EcallMeGA::EDeltaEncode` as a state machine and `EDeltaDecode` as a recursive operator |
| `MCDeltaCodec` | byte values, the sets of input buffers, and chunks at the code's real sizes |
| `SuperFeature` | `getSF2` as recursive operators, and the multi-threaded super-feature step of `ProcessOneBatch` (`param_list`, worker threads, joins, `OutEntrySFGet`) with sessions and threads as processes |
| `MCSuperFeature` | the chunk contents of each session's batch |
| `EnclaveKeys` | the key lifecycle (`Ecall_Enclave_Init`/`Destroy`) across process lifetimes with crashes, composed with upload start/stop and one-chunk steps of the pipeline |

### FreqIndex: state

| variable | code |
|---|---|
| `sketch` | `cmSketch_` counters, `Depth x Width` |
| `heap` | `insideDedupIndex_`: fingerprint -> `[freq, addr]` |
| `cache` | `InContainercache_`, container ids in insertion order |
| `extIndex`, `sfIndex`, `store` | outside index, super-feature index, chunk store |
| `q[s]` | `_inQueryBase` / `outQueryBase` entries of the session's batch |
| `cur[s]`, `pc[s]` | the commit-loop cursor and the session's place in `ProcessOneBatch` |
| `Local_Flag[s]` | the result of `LocalChecker` |
| `slotBase[s]` | `chunkAddr.basechunkHash` of each query slot; the buffer is reused across batches, so the field keeps its old value unless written |
| `inRecipe[s]`, `outRecipe[s]` | `_inRecipe` and the entries sent by `Ocall_UpdateFileRecipe` |
| `deltaIndex`, `localPairs` | pairs sent by `Ocall_UpdateDeltaIndex` and `Ocall_LocalInsert` |
| `seen`, `batches`, `loads` | how often each fingerprint was fed to the sketch; finished batches; container loads of the batch |
| `enclave`, `written`, `restarts` | whether `enclaveBaseObj_` exists (`up`), is inside `PersistDedupIndex` (`destroying`) or is gone (`down`); sealed parts written; restarts so far |
| `sealedSketch`, `sealedHeap`, `sealedSeen` | the sealed files `cm-sketch` and `freq-index` (`None` when absent), and the feed counts the sealed sketch stands for |

### FreqIndex: actions

Each lock-protected loop is one atomic action: `ProcessBatchStart` (hashing is
batch-local, the sketch loop is under `sketchLck_`), `Classify`, `HeapRefresh`
and `LoadRefContainer` (`inContainerLck_`). Steps that touch shared state
without a lock are separate actions so that other sessions can run between
them: `QueryOutIndex`, `QueryOutBasechunk`, `SelectDelta` (the unlocked part of
`OfflinedeltaTure`), `StoreUnique` (`ProcessDeltachunk` re-checks the cache),
`CommitKnown`, `LocalInsert`, `OutIndexUpdate`, `ProcessTailBatch`.

`QueryOutBasechunk` includes `LocalChecker`, which runs `EntryLoad` on every
new chunk of the batch. For each `OUT_DELTA` candidate, `EntryLoad` copies the
base hash into the chunk's slot (`ecallFreqIndex.cc:1555`). This happens
before the commit loop, so the later copies on a cache hit (`CacheHitBase`)
and after a load (`LoadRefContainer`) write the same value again.

Data is abstracted: a chunk is its fingerprint, an address is a position in
`store`, a container is `ChunksPerContainer` consecutive addresses,
similarity is the outside's free choice of any registered base (or none), and
"the delta is smaller" is a free choice in `StoreUnique`. Crypto, LZ4 and
statistics are left out.

Enclave stop and start, between uploads (no batch in flight, no unsent
recipe entries, some session still has a batch to send):

* `PersistPart`: one of the two steps of `PersistDedupIndex`, which
  `~EcallFreqIndex` runs from `Ecall_Destroy_Upload`. The order is
  `PersistOrder`: sketch first, then heap.
* `Crash`: the enclave stops before either step. This is an
  `Ocall_SGX_Exit_Error` on a sealed file that cannot be opened, or a kill.
* `InitUpload`: `Ecall_Init_Upload` builds a new object with an empty sketch,
  heap and cache. `LoadDedupIndex` then reads the sealed sketch
  (`LoadedSketch`), and the sealed heap only when a sketch was read
  (`LoadedHeap`).

Session steps run only while the enclave is `up` (`SessionStep`).

### MeGAIndex

The state and the actions follow `FreqIndex`, with what the MeGA variant does
differently:

* `MeGAChecker` and `MeGALoad` run inside `QueryOutBasechunk`, before the
  commit loop. They count the candidates of the batch per container into
  `MeGA_map[s]`, and they copy `basechunkHash` into `slotBase[s]` for every
  `OUT_DELTA` candidate.
* `MeGASelect` is `MeGAdeltaTure`: the gate `MeGA_Flag` (skip delta unless the
  container's count exceeds `MeGA_THRESOLD`), then a cache hit. The two have
  no magic-prefix check and no lock.
* `MeGALoadRef` is `Ocall_getRefContainer` followed by a cache insert if the
  container is still missing.
* `DecodeBase` is the base read of `ProcessDeltachunk`. If the container has
  been evicted, the code only logs and reads the buffer anyway, so the model
  lets the result be any content.
* `plainBuf` and `scratch` model the object's `plainBaseBuffer_` pointer. The
  one `EcallMeGA` object serves every session, and `ProcessBatchStart`
  (lines 554-558) re-aims that pointer at the caller's client buffer.
  `StoreUnique` encodes against the buffer the pointer names when it runs.
* There is no `UpdateDeltaIndex` or `LocalInsert`. `HeapRefresh` also clears
  `MeGA_map`.
* The enclave stop and start are `EcallMeGA`'s own copies of the FreqIndex
  code (`ecallMeGA.cc` 24-42, 390-488), and they have the same shape:
  * `PersistPart` is one sealed write of `~EcallMeGA` → `PersistDedupIndex`;
  * `Crash` is a stop before either write;
  * `InitUpload` is `EcallMeGA()` → `LoadDedupIndex`, which also starts a
    fresh container cache.

  Session steps run only while the object exists (`SessionStep`).

### RecipeService and the refinement

`RecipeService` is the abstract specification of what a session gets from
the upload ECALLs. It is independent of the index variant. Its state:

* `pending`: the chunks received and not yet recorded;
* `recipe`: the recorded chunks, in order;
* `sent`: how much of the recipe has been handed out;
* `indexed`: the fingerprints the outside index knows;
* `closed`: whether the session has finished.

Its actions are `Upload`, `Record`, `Publish` and `Close`. `Record` may hand
out any longer prefix, as a full buffer does.

`FreqIndex` and `MeGAIndex` each instantiate it with
`Recipe == INSTANCE RecipeService WITH ...`, using this mapping:

* `pending`: the batch's fingerprints from `Ecall_ProcChunkBatch` until the
  commit loop reaches them (`PendingOf`);
* `recipe`: `outRecipe \o inRecipe`;
* `sent`: `Len(outRecipe)`;
* `indexed`: `DOMAIN extIndex`;
* `closed`: `pc = "done"`.

`RecipeRefinement == Recipe!Spec` is checked as a `PROPERTY`. It includes the
abstract fairness: a received batch is recorded. In the two-session runs,
which use symmetry, only the step part `Recipe!SafetySpec` is checked,
because TLC's liveness checking is not sound under symmetry.

### DeltaCodec

One behaviour is one call of `EDeltaEncode(newBuf, baseBuf)`. A buffer is a
sequence of cells:

* a byte is a model value;
* a `DeltaUnit1` (copy) or `DeltaUnit2` (literal) header is a record in its
  first cell, followed by `Pad` cells up to its `sizeof`;
* `Junk` is memory the caller does not own.

`set_flag`, `get_flag`, `set_length` and `get_length` pack the flag and length
with `Bitwise` exactly as the code does, on a word narrowed to `HeaderBits`.

The actions follow the blocks of the function:

* `DetectHeadTail`: head and tail runs, words then bytes, the `> 16` gates and
  the `endSize` clip;
* `EncodeDegenerate`;
* `StartGeneral`;
* the loop head: `LoopExit`, `StartRound`, `SkipRound`;
* `ChunkBaseStep`: one iteration of the `BASE_STEP` loop, with `Chunking_v3`,
  inserts, probing and the hit test;
* probe handling: `ProbeSkip`, `ProbeBegin`, `ProbeUndefined`, `ProbeStep`;
* the lookup: `ChunkInputHit`, `ChunkInputMiss`;
* the match: `MatchVerified` (the fix-up of the pending literal header, then
  forward and backward extension), `MatchHashError`, `MatchNull`;
* `FinishEncode`.

Literal emission, shared by three places in the code, is the `Literal`
operator. The pending literal header in `deltaBuf` is rewritten at
`PendingHeaderPos`, as in the code.

Three helpers are not in the source tree and are modelled from spec 4.7:

* `chunk_gear`: cuts after the first `CutByte`;
* `weakHash`: a piece's length and byte set, so different pieces can collide;
* `htable::lookup`: returns any record inserted under that hash.

`flag_handle_probe`, `probe_match` and `InputLink` start as `Undef`, because
the code declares them without initialisers. Reading `Undef` is a
nondeterministic choice (`ProbeUndefined`): zero, or any probe match with any
probe lengths up to `GarbageLen`.

## SuperFeature

`getSF2` splits a chunk into `FEATURE_NUM` sub-ranges
(`SubchunkIndex`). For each sub-range it hashes the first window byte by
byte (`InitFp`), then rolls the window over the sub-range and keeps the
maximum (`RollMax`: the oldest byte out with `Apower`, the next byte in
except after the last window). It sorts each group of `SF_NUM` consecutive
features and hashes `{feature[j * SF_NUM + i]}` into super-feature `i`
(`GroupSF`). SHA-256 is taken to be collision-free, so a group stands for
its digest. `SF_NUM` is called `SFNUM` because TLA+ reads `SF_` as strong
fairness. The window, feature count and modulus are scaled down (2, 4 and 101,
with base 37), because TLC's integers are 32 bits wide. `SpecSF` is spec
4.4's definition: the maximum of the polynomial hash over every window of a
sub-range, computed directly. On every byte sequence of length 5-9 over
`{0, 1, 2}`, `GetSF2` and `SpecSF` agree. This was checked while the model was built, not by a run.

In the build with `SF_SINGLE_THREAD == 0`, the step runs after
`topKIndexLck_` is released. Each session's actions are:

* `Collect`: push a `Param` per unique chunk onto the file-scope
  `param_list`;
* `Spawn`: split `[0, size)` into three slices (the last one takes the rest)
  and store the new threads in the file-scope `test_pthread[]`;
* `Join`: join `test_pthread[i]` for `i` = 0, 1, 2, whoever's threads they are
  by then;
* `Clear`: `param_list.clear()`, which keeps the storage;
* `OutEntrySFGet`: copy the super-features to the outside query.

A thread (`Work`) runs `getSF2` on `param_list[i]` for its slice, writing
the chunk's `sf` slot. Before a batch writes it, that slot holds `Stale`,
the bytes an earlier batch left there.

## EnclaveKeys

A key is a generation number. `sgx_read_rand` draws one that was never drawn
before (`boots + 1`). The two keys are drawn, read and lost together, so one
generation stands for both. The state:

* `enclave`: `"off"`, `"on"` (after `Ecall_Enclave_Init`), or `"upload"` (an
  index object exists);
* `key`, `firstBootstrap`: the running enclave's keys and flag;
* `keyFile`: the generation in `ENCLAVE_KEY_FILE_NAME`, or `NoKey` while it is
  empty;
* `heap`, `sealedHeap`: the top-k index and its sealed image;
* `extIndex`: the outside index, keyed by the query-key generation and the
  fingerprint, because the enclave queries it with the fingerprint encrypted
  under `indexQueryKey_`;
* `store`: each stored chunk's fingerprint and the key it is encrypted under;
* `recipe`: each address handed to a recipe, with the boot that handed it out.

The actions:

* `Ecall_Enclave_Init`, `Ecall_Enclave_Destroy`, `Ecall_Init_Upload` (loads
  the sealed heap) and `Ecall_Destroy_Upload` (seals it);
* `Crash`: the process stops at any point, and enclave memory (keys, heap) is
  lost;
* `ProcessChunk(f)`: one chunk of `ProcessOneBatch`. A top-k hit copies the
  heap's address. Otherwise an outside hit under the current query key copies
  the outside address. Otherwise the chunk is encrypted under the current key,
  stored and filed outside. The top-k admission (`Admit`) is a free choice,
  because its frequency rule is `FreqIndex`'s.

## Runs

| run | cfg | expect | shows |
|---|---|---|---|
| `freq_single` | `FreqSingle.cfg` | pass | one session, 3 batches of <= 2 chunks, `OFFLINE_THRESHOLD` = 1/2, and one enclave stop (clean, killed, or killed between the two sealed writes) and restart: heap addresses valid, recipes resolvable, sketch never undercounts (also after the restart), delta bases whole, a first occurrence of a heap chunk classified `DUPLICATE` (also after the restart), the pipeline implements `RecipeService` |
| `freq_restart` | `FreqRestart.cfg` | pass | the same session with two enclave stops, each of which may crash between the sealed writes: whatever sketch and heap images `LoadDedupIndex` reads back, heap frequencies stay within the sketch |
| `freq_multi` | `FreqMulti.cfg` | pass | two sessions, 2 batches of 1 chunk each, `OFFLINE_THRESHOLD` = 1, magic fingerprint `f3`: heap addresses and recipes stay valid, and every step is a `RecipeService` step, under all interleavings |
| `keys_crash` | `KeysCrash.cfg` | violation | `DedupRefsDecryptable`: after a stop between an upload and `Ecall_Enclave_Destroy`, a new recipe refers to a chunk encrypted under a lost key |
| `freq_delta_chain` | `FreqDeltaChain.cfg` | violation | `DeltaBaseIsWhole`: a chunk is delta-encoded against a delta chunk |
| `mega_single` | `MeGASingle.cfg` | pass | one MeGA session, 3 batches of <= 2 chunks and two enclave stops and starts (each possibly a crash inside `PersistDedupIndex`): the restored heap stays within the restored sketch, and the pipeline implements `RecipeService` across the restarts |
| `mega_multi` | `MeGAMulti.cfg` | pass | two MeGA sessions: heap addresses, recipes and recorded base hashes stay right despite the unlocked cache (`MeGALoad` copies the hash before the commit loop), and every step is a `RecipeService` step |
| `sf_race` | `SFRace.cfg` | violation | `SFCopiedFresh`: a session hands out super-features left from an earlier batch, because another session cleared `param_list` |
| `mega_scratch` | `MeGAScratch.cfg` | violation | `DeltaEncodedAgainstRecordedBase`: a delta is encoded against another session's base bytes |
| `codec_small` | `CodecSmall.cfg` | pass | every pair of 1..3-byte chunks over 3 byte values, with scaled thresholds: the encoder terminates, its delta decodes to the target, literals are coalesced |
| `codec_real` | `CodecReal.cfg` | pass | the code's own constants on chunks of 18-40 bytes, including every outcome of the uninitialised read: literals are still coalesced |
| `codec_undefined_probe` | `CodecUndefinedProbe.cfg` | violation | `EncodeRoundTrip`: the uninitialised `flag_handle_probe` read ends in a NULL dereference or a wrong delta |

### Properties

* `HeapAddrValid`: every heap entry's address stores that fingerprint.
* `RecipeResolvable`: with no batch in flight, every recipe fingerprint
  resolves through the outside index to a chunk with that fingerprint.
* `SketchNeverUndercounts`: spec section 8's sketch bound. Across a restart it
  is measured against the feeds that the loaded sketch image stands for.
* `HeapFreqWithinSketch`: no heap entry has a frequency above the sketch's
  estimate, across restarts. `Classify` compares fresh estimates with heap
  frequencies. A restored heap newer than the restored sketch would break
  this. It is checked in both variants, because `EcallMeGA` has its own copy
  of the sealing code.
* `RecipeRefinement` / `RecipeStepsRefinement`: the pipeline implements
  `RecipeService`, with fairness (single-session runs) or as steps only
  (two-session runs).
* `DeltaBaseIsWhole`: a delta's base is an earlier chunk stored whole.
* `DeltaRecordsTrueBase` (MeGA, two sessions): the base hash stored in a
  delta's address is its base's, although the container cache is read and
  filled without a lock.
* `ClassifyFindsHeapEntries` (action property): a first occurrence of a heap
  chunk is classified `DUPLICATE`. A restart that restores the heap without
  its sketch would make fresh estimates fall below the heap minimum.
* `DedupRefsDecryptable` (spec 7): every chunk the running enclave hands to a
  recipe, whether new or found as a duplicate, is encrypted under the
  `enclaveKey_` it holds.
* `DeltaEncodedAgainstRecordedBase` (MeGA, `mega_scratch`): a delta was
  encoded against the bytes of the base its address records.
* `SFCopiedFresh` (spec 4.4 and 5): every super-feature that
  `OutEntrySFGet` hands out is `SpecSF` of its chunk, so all workers are
  joined and their output is the batch's own.
* `EncodeRoundTrip` (codec, spec 8): the encoder returns, and `EDeltaDecode`
  of its output against the same base is the target.
* `LiteralsCoalesced` (codec, spec 4.7): the finished delta has no two
  adjacent literal records.
* `Termination` (codec): the encoder's loop ends.

Each property of a passing run is also checked against a mutant of the code
(`PROJECT.json`, "mutants"), and TLC finds the mutant violating it. Examples:

* the header fix-up that forgets `sizeof(DeltaUnit2)` breaks
  `EncodeRoundTrip`;
* a new literal that does not set `flag = 2` breaks `LiteralsCoalesced`;
* a `MeGALoad` that does not copy the base hash breaks `DeltaRecordsTrueBase`;
* an `UpdateFileRecipe` that hands out the buffer as it was before the append
  breaks `RecipeRefinement`, in all four pipeline runs;
* a `PersistDedupIndex` that seals the heap before the sketch breaks
  `HeapFreqWithinSketch` after two restarts, in `freq_restart` and in
  `mega_single`.

### Findings

1. **Keys lost on a crash** (`storeECall.cc:236`, run `keys_crash`). The
   keys are written only by `Ecall_Enclave_Destroy`, but the top-k index is
   sealed by every `Ecall_Destroy_Upload`. The trace has 9 states:
   * first boot: new keys (generation 1);
   * an upload stores `f1` under key 1, admits it to the heap, and seals the heap;
   * the process stops before `Ecall_Enclave_Destroy`, so the key file stays empty;
   * the next boot draws key 2 and loads the sealed heap;
   * `f1` again: a top-k hit hands the recipe the address of a chunk under key 1.

   No file holds key 1 any more. The new recipe and every recipe of the first
   boot refer to chunks that cannot be decrypted. Base decryption for delta
   encoding (`ecallFreqIndex.cc:1743`, `ecallMeGA.cc:1020`) uses the same key.
2. **Delta against a delta** (`ecallFreqIndex.cc:1403`). Two sessions that
   both see a new chunk as unique store it twice. The second copy can be a
   delta, and its `UpdateIndexStore` replaces the index entry of the whole
   copy that `UpdateIndexSF` registered as a base. A later similar chunk is
   then encoded against a delta chunk.

3. **Shared super-feature work list** (`ecallFreqIndex.cc:763`).
   `param_list` and `test_pthread` are file-scope globals, and no lock covers
   them. The trace has 21 states:
   * session 1 pushes its chunk and starts its workers;
   * session 2 pushes its chunk;
   * session 1's workers do their slice, and session 1 joins and clears
     `param_list`;
   * session 2 starts its workers on a size of 0, joins them and copies the
     super-feature slot unchanged, so its chunk goes outside with an earlier
     batch's super-features.

   A session can also join handles that another session has overwritten. It
   then goes on while its own workers still write.
4. **Shared scratch buffers** (`ecallMeGA.cc:556`). `ProcessOneBatch` points
   the single object's `plainBaseBuffer_` at the calling session's buffer. A
   second session that starts a batch between another session's base decode
   (line 1023) and its `ed3_encode` (line 1029) makes that encode read the
   wrong buffer. The stored delta then cannot be restored against its
   recorded base.
5. **Uninitialised probe flag in the encoder** (`ecallMeGA.cc:1996`).
   * What happens: `flag_handle_probe`, `probe_match` and `InputLink` are
     assigned only inside a chunking round. A round runs only when
     `cursor_input/newSize + 0.5 >= cursor_base/baseSize`.
   * When: with a common head of more than 16 bytes, both cursors start at
     `begSize`, so the first iteration skips the round whenever the target is
     more than about twice as long as the head and the base is not much
     longer than the head.
   * Example: a 17-byte head, an 18-byte base and a 40-byte target.
   * Consequence: `if (flag_handle_probe)` reads an uninitialised value. TLC
     shows outcomes where the encoder dereferences the NULL `psDupSubCnk` or
     emits literal bytes past the target.

The frequency gate (`ecallFreqIndex.cc:649`) takes the estimate under
`sketchLck_` and compares it later under `topKIndexLck_`. If another
session's heap refresh runs in between and raises the heap minimum, a chunk
that is in the heap is classified `UNIQUE` and queried outside. With
`ClassifyFindsHeapEntries` as its only property, `FreqMulti.cfg` shows this
in about 370 states. This is not reported as a finding: spec 4.3 prescribes
the same gate ("below threshold ⇒ mark Unique ... never consult Top-K"), and
the outside query still finds the chunk once its first session has indexed
it. `freq_single` checks that the property holds for one session.

An earlier version reported a stale base hash at `ecallFreqIndex.cc:1691`.
Its model left out the copy that `EntryLoad` makes at line 1555, and with
that copy the hash is right. The finding and its run were withdrawn.

Findings 2-4 need two sessions. The single-session runs show that
`DeltaBaseIsWhole` and `ClassifyFindsHeapEntries` do not break without
concurrency.

## Bounds and why they suffice

* 3 fingerprints, and a sketch hash table where row 1 collides `f1`/`f3` and
  row 2 collides `f1`/`f2`: every fingerprint shares a counter with another.
* `K = 1`: the heap is full after the first refresh, so both the "below
  minimum" gate and eviction happen.
* `CacheCap = 1`: a second container evicts the first, so hits, misses and
  evictions between selection and encoding all happen.
* The single-session run has 3 batches, so a base registered in batch 1 can
  serve a delta in batch 2 that becomes a would-be base in batch 3.
  `ChunksPerContainer = 1` gives two distinct containers in a two-chunk
  batch, so `LocalChecker` takes the offline path.
* One enclave restart in the single-session run. It comes after a clean
  stop, after a kill, or after a kill between the two sealed writes. A
  restart with nothing sealed, with only the sketch sealed, or with both
  sealed all occur. A second restart would multiply the liveness check's
  time past the runs' budget. `freq_restart` therefore has two restarts and
  no liveness property: 1.7M states in under a minute. A sealed heap newer
  than the sealed sketch needs one complete stop followed by a stop that
  writes only the first file, so two restarts are the least that can catch
  a swapped write order.
* The two-session run keeps one chunk per batch so that it finishes quickly.
  `OFFLINE_THRESHOLD = 1` keeps delta selection live; with 1/2 a one-chunk
  batch always goes offline.

* MeGA: the single-session run has `CacheCap = 1`, `MeGA_THRESOLD = 1` and
  two restarts, so that a swapped write order in `EcallMeGA`'s own
  `PersistDedupIndex` would show. With its liveness check it reaches 1.0M
  states in about 3 minutes. The other MeGA runs have `MaxRestarts = 0`.
  The two-session run has `MeGA_THRESOLD = 0` and `ChunksPerContainer = 2`,
  so the gate, cache hits, loads and the race to insert all occur.
  `mega_scratch` uses `CacheCap = 2`, so the violation it shows comes from the
  pointer race alone, not from an eviction.
* Codec, `codec_small`: every pair of 1..3-byte buffers over 3 byte values
  (1521 pairs). Every action except the two reachable only through the
  undefined read fires in this run:
  * the degenerate case;
  * rounds that are skipped;
  * probe hits;
  * misses;
  * verified matches with forward and backward extension;
  * weak-hash collisions.

  The constants are scaled so that the thresholds fall inside such short
  buffers: run threshold 1, word size 2, headers of 2 and 1 cells, and
  `BASE_BEGIN`, `BASE_EXPAND`, `BASE_STEP`, `INPUT_TRY` = 1, 2, 2, 2.
* Codec, `codec_real`: the code's own constants (16, 8, 8, 4, 5, 3, 3, 5),
  with the header word narrowed to 16 bits. It runs on three chunk pairs of
  18-40 bytes, one of which reaches the undefined read.

* `keys_crash`: one fingerprint, two boots and three chunk steps. That is
  enough for a store, a seal, a crash and a hit after the next boot.
* `sf_race`: two sessions with one 8-byte chunk each and the code's three
  threads. With a window of 2 and 4 features, every sub-range has exactly
  one window. One chunk per session is enough, because the race loses whole
  pushes.

## Fairness

Each session's worker thread runs its batch to the end (spec section 5), so
every session's steps are weakly fair. There is no fairness between sessions
beyond that. Deadlock is not checked (`CHECK_DEADLOCK FALSE`) because uploads
really do end. The liveness part of `RecipeRefinement` checks instead that
every received chunk reaches the recipe and that the tail batch flushes it.
The three locks are never nested.
A stop that has begun `PersistDedupIndex` finishes it unless it crashes, and
a stopped enclave is started again (`Ecall_Init_Upload`). Both are weakly
fair, and restarts are bounded by `MaxRestarts`.
`EDeltaEncode` is one sequential call, so its `Next` is weakly fair. Its
`done` and `fault` states are final.

## Not modelled (yet)

* `getSF`, which has no caller, and the `TRANSPOSE_M`/`TRANSPOSE_A` tables
  that `getSF2` fills from `mt_n_get` on every call and never reads (spec 4.4
  describes the table as generated once);
* the `EcallMeGA` copies of `getSF2` and of the super-feature step. They are
  identical;
* `GetSF_thread_func_f` copies its `GetSFTask` from the spawning session's
  `ts` vector, and that vector is destroyed when the session returns. The
  model gives each thread its slice when it is spawned;
* the read past the chunk by the first window of a last sub-range shorter
  than the window. Its bytes are never used;
* the breakdown build without locks;
* the statistics file that `Ecall_Init_Upload` reads and
  `Ecall_Destroy_Upload` writes. No property depends on the counters, and
  `Ecall_Destroy_Upload` closes `ENCLAVE_KEY_FILE_NAME` where it opened
  `ENCLAVE_INDEX_INFO_NAME`. What that does is decided by the untrusted file
  layer, which is not under `src/`;
* the statistics counters (`_uniqueChunkNum`, `_logicalChunkNum`,
  `_compressedDataSize`, ...). They belong to the one shared index object
  and are incremented outside every lock (for example `ecallFreqIndex.cc:885`,
  between `topKIndexLck_.unlock()` at 696 and the next lock at 939).
  Concurrent sessions can therefore lose increments, and
  `Ecall_Destroy_Upload` persists the result. Only the statistics are
  affected, and a run to show it would need a slot of its own;
* compression. A chunk that LZ4 cannot shrink is stored raw, and its address
  carries no flag saying so (`enclaveBase.cc:166`). When it serves as a base,
  `ProcessDeltachunk` decodes it as LZ4 anyway. If the raw bytes happen to
  form a valid block, the delta is encoded against the wrong bytes. The
  models' chunks have no bytes, and LZ4 is not under `src/`;
* row-by-row tearing of the sealed sketch: a crash is modelled only between
  whole parts of `PersistDedupIndex`;
* what evicting a container does to a `containerbuffer` pointer saved
  before the eviction. `InContainercache` is not under `src/`. The MeGA
  model treats "the id is cached at decode time" as "the pointer is valid",
  so an eviction followed by a re-insert by another session is not told
  apart;
* `Ecall_Init_Client`/`Ecall_Destroy_Client` (a session-key copy and a
  free) and `Ecall_GetEnclaveInfo` (statistics);
* a key file with only one of the two keys written, left by a stop between
  the two `Ocall_WriteSealedData` calls. What such a file reads back as is
  decided by the untrusted file layer. `EnclaveKeys` writes the file in one
  step;
* in `EnclaveKeys`, the delta path and the heap's frequency rule, which are
  `FreqIndex`'s;
* offline backward processing;
* `ed3_decode`, which has no caller: it overwrites the decoded length with
  1024.

`MeGAdeltaTure` skips delta unless the container's candidate count in the
batch *exceeds* `MeGA_THRESOLD` (`ecallMeGA.cc:1140`), so all hits against
a popular container take delta. Spec 4.6 states the reverse: further hits
skip delta once a container has served more than the reuse count. This was
shown by a run in an earlier version. It gave up its slot to `sf_race`.

`MeGAdeltaTure` also lacks the magic-prefix check that spec 4.6 says
short-circuits both variants. This is recorded from the code, not checked by
a run.

`PROJECT.json` gives the reason for each.

## Plan for later work

1. The codec with the `chunk_gear` cut rule replaced by a gear-style rolling
   rule, and a size property (a delta of disjoint content is the target plus
   one header).
