----------------------------- MODULE FreqIndex -----------------------------
(***************************************************************************)
(* The frequency-index upload pipeline of the enclave (EcallFreqIndex,     *)
(* ProcessOneBatch with IMPACT_OF_TOP_K == 0 and MULTI_CLIENT == 1), run   *)
(* by several client sessions that share the Count-Min sketch, the top-k   *)
(* heap and the container cache, and that reach the untrusted side         *)
(* (external index, super-feature index, chunk store) through OCALLs.      *)
(*                                                                         *)
(* Chunk content is abstracted to its fingerprint; similarity is the       *)
(* untrusted side's choice of a registered base.  Each lock-protected loop *)
(* of the code is one atomic action; steps without a lock are split where  *)
(* another session's step can fall between them.                           *)
(***************************************************************************)
EXTENDS Naturals, Sequences, FiniteSets, FiniteSetsExt, SequencesExt, Functions, TLC

CONSTANTS
    Sessions,            \* client sessions (one enclave worker thread each)
    Fps,                 \* chunk fingerprints
    NoFp,                \* "no base chunk" (NO_DELTA answer of the outside)
    BatchSize,           \* bound: chunks per batch
    MaxBatches,          \* bound: batches each session uploads
    K,                   \* topThreshold_, capacity of the top-k heap
    Depth, Width,        \* Count-Min sketch dimensions
    Hash,                \* Hash[r][f]: column of fingerprint f in row r
    sendRecipeBatchSize, \* Enclave::sendRecipeBatchSize_
    CacheCap,            \* capacity of InContainercache_
    ChunksPerContainer,  \* chunks packed in one storage container
    OffNum, OffDen,      \* OFFLINE_THRESHOLD = OffNum / OffDen
    MagicFps,            \* fingerprints starting with bytes 161,77,140
    Forward_Flag,        \* set by Ecall_Init_Upload for FORWORD
    None,                \* a sealed file that does not exist (size 0)
    MaxRestarts          \* bound: enclave restarts (Destroy_Upload or crash, Init_Upload)

ASSUME K >= 1 /\ CacheCap >= 1 /\ ChunksPerContainer >= 1 /\ OffDen >= 1
ASSUME Hash \in [1..Depth -> [Fps -> 1..Width]] /\ NoFp \notin Fps

VARIABLES
    sketch,      \* cmSketch_ counters
    heap,        \* insideDedupIndex_: fp -> [freq, addr]
    extIndex,    \* outside fp index: fp -> address (UpdateIndexStore)
    sfIndex,     \* fingerprints registered by UpdateIndexSF (delta bases)
    store,       \* chunk store; an address is a position in it
    cache,       \* InContainercache_, container ids in insertion order
    deltaIndex,  \* pairs sent by Ocall_UpdateDeltaIndex
    localPairs,  \* pairs sent by Ocall_LocalInsert (offline delta work)
    pc,          \* position of each session in ProcessOneBatch
    q,           \* in-enclave query entries of the current batch
    cur,         \* commit-loop cursor
    Local_Flag,  \* result of LocalChecker for the current batch
    slotBase,    \* chunkAddr.basechunkHash of each query slot (kept across batches)
    loads,       \* Ocall_getRefContainer calls in the current batch
    inRecipe,    \* sgxClient->_inRecipe (not yet sent)
    outRecipe,   \* recipe entries sent by Ocall_UpdateFileRecipe
    batches,     \* batches each session has finished
    seen,        \* how often each fingerprint was fed to the sketch
    enclave,     \* "up", "destroying" (in PersistDedupIndex) or "down"
    written,     \* parts of PersistDedupIndex written in this destroy
    sealedSketch, sealedHeap, \* the sealed files "cm-sketch" and "freq-index"
    sealedSeen,  \* the feed counts the sealed sketch image stands for
    restarts     \* restarts so far

vars == <<sketch, heap, extIndex, sfIndex, store, cache, deltaIndex, localPairs,
          pc, q, cur, Local_Flag, slotBase, loads, inRecipe, outRecipe, batches, seen,
          enclave, written, sealedSketch, sealedHeap, sealedSeen, restarts>>

persistVars == <<enclave, written, sealedSketch, sealedHeap, sealedSeen, restarts>>

Flags == {"NONE", "UNIQUE", "DUPLICATE", "TMP_UNIQUE", "TMP_DUPLICATE"}
Phases == {"idle", "classify", "queryOut", "queryBase", "commit", "loadRef",
           "store", "localInsert", "heapRefresh", "outUpdate", "done"}
Addr == Nat
Entry == [fp : Fps, flag : Flags, freq : Nat, off : Nat, addr : Addr,
          out : Addr, cand : Fps \cup {NoFp}, caddr : Addr,
          delta : {"NO_DELTA", "DELTA"}, offline : {0, 1}]
StoreRec == [fp : Fps, delta : BOOLEAN, base : Fps \cup {NoFp}, baddr : Addr]

ContainerOf(a) == (a - 1) \div ChunksPerContainer

-----------------------------------------------------------------------------
(* Count-Min sketch (EcallCMSketch) *)

Estimate(sk, f) == Min({sk[r][Hash[r][f]] : r \in 1..Depth})

\* number of the first n chunks of batch b that hash to column c of row r
RowHits(b, r, c, n) == Cardinality({j \in 1..n : Hash[r][b[j].fp] = c})

SketchBatchFirstRow(sk, b) ==
    [r \in 1..Depth |-> [c \in 1..Width |-> sk[r][c] + IF r = 1 THEN RowHits(b, r, c, Len(b)) ELSE 0]]

\* Update then Estimate for every chunk in order, under sketchLck_
SketchBatch(sk, b) == [r \in 1..Depth |-> [c \in 1..Width |-> sk[r][c] + RowHits(b, r, c, Len(b))]]

FreqAfter(sk, b, i) ==
    Min({sk[r][Hash[r][b[i].fp]] + RowHits(b, r, Hash[r][b[i].fp], i) : r \in 1..Depth})

-----------------------------------------------------------------------------
(* Top-k heap (EcallEntryHeap) *)

TopEntry(h) == Min({h[f].freq : f \in DOMAIN h})

HeapSize(h) == Cardinality(DOMAIN h)

Pop(h) == LET m == CHOOSE f \in DOMAIN h : h[f].freq = TopEntry(h)
          IN Restrict(h, DOMAIN h \ {m})

CheckIfAddToHeap(h, freq) == HeapSize(h) < K \/ freq >= TopEntry(h)

AddChunkToHeapNoPop(h, freq, a, f) == (f :> [freq |-> freq, addr |-> a]) @@ h

AddChunkToHeap(h, freq, a, f) ==
    LET h1 == IF HeapSize(h) = K THEN Pop(h) ELSE h
    IN (f :> [freq |-> freq, addr |-> a]) @@ h1

UpdateInsideIndexFreq(h, f, freq) == [h EXCEPT ![f].freq = freq]

\* one iteration of the min-heap refresh loop
RefreshStep(h, e) ==
    IF e.flag \in {"UNIQUE", "DUPLICATE"} /\ CheckIfAddToHeap(h, e.freq)
    THEN IF e.fp \in DOMAIN h THEN UpdateInsideIndexFreq(h, e.fp, e.freq)
         ELSE AddChunkToHeap(h, e.freq, e.addr, e.fp)
    ELSE h

-----------------------------------------------------------------------------
(* Helpers of the batch pipeline *)

\* the chunk at the cursor was unique for the heap and for the outside index
UniqueNew(e) == e.flag = "UNIQUE" /\ e.out = 0

InsertToCache(c, id) ==
    IF id \in ToSet(c) THEN c
    ELSE IF Len(c) = CacheCap THEN Append(Tail(c), id) ELSE Append(c, id)

\* int thresold of LocalChecker (integer truncation of chunkNum * OFFLINE_THRESHOLD)
Threshold(n) == IF Forward_Flag THEN n * 128 ELSE (n * OffNum) \div OffDen

UpdateFileRecipeStale(s, f) ==
    LET r == Append(inRecipe[s], f)
    IN IF Len(r) % sendRecipeBatchSize = 0
       THEN /\ outRecipe' = [outRecipe EXCEPT ![s] = @ \o inRecipe[s]]
            /\ inRecipe' = [inRecipe EXCEPT ![s] = <<>>]
       ELSE /\ inRecipe' = [inRecipe EXCEPT ![s] = r]
            /\ UNCHANGED outRecipe

\* UpdateFileRecipe: append the fingerprint, send the buffer when it is full
UpdateFileRecipe(s, f) ==
    LET r == Append(inRecipe[s], f)
    IN IF Len(r) % sendRecipeBatchSize = 0
       THEN /\ outRecipe' = [outRecipe EXCEPT ![s] = @ \o r]
            /\ inRecipe' = [inRecipe EXCEPT ![s] = <<>>]
       ELSE /\ inRecipe' = [inRecipe EXCEPT ![s] = r]
            /\ UNCHANGED outRecipe

\* the address SavebaseChunk/SavedeltaChunk give the next stored chunk
SaveChunkAddr(st) == Len(st) + 1

\* the entries whose encrypted address goes to UpdateIndexStore
IndexedEntriesWhole(b) == {i \in DOMAIN b : UniqueNew(b[i]) /\ b[i].delta = "NO_DELTA"}

IndexedEntries(b) == {i \in DOMAIN b : UniqueNew(b[i])}

\* the entries whose super-features go to UpdateIndexSF
SFRegisteredAll(e) == TRUE

SFRegistered(e) == e.delta = "NO_DELTA" /\ e.offline = 0

\* OfflinedeltaTure, cache hit: chunkAddr.basechunkHash := the candidate's
\* hash (again: EntryLoad copied it already)
CacheHitBase(s, i, e) == slotBase' = [slotBase EXCEPT ![s][i] = e.cand]

\* ProcessDeltachunk keeps the delta only if the base container is still
\* cached and the encoded delta is smaller than the chunk
DeltaKept(e, smaller) ==
    e.delta = "DELTA" /\ ContainerOf(e.caddr) \in ToSet(cache) /\ smaller

\* end of the commit loop body: next chunk, or leave the loop
NextChunk(s) ==
    /\ cur' = [cur EXCEPT ![s] = @ + 1]
    /\ pc' = [pc EXCEPT ![s] = IF cur[s] = Len(q[s]) THEN "localInsert" ELSE "commit"]

-----------------------------------------------------------------------------
(* Actions of one session *)

\* Ecall_ProcChunkBatch: decrypt and hash the batch, then update the sketch
\* and estimate each chunk's frequency under sketchLck_.
ProcessBatchStart(s) ==
    /\ pc[s] = "idle" /\ batches[s] < MaxBatches
    /\ \E n \in 1..BatchSize, fs \in [1..BatchSize -> Fps] :
         LET b == [i \in 1..n |-> [fp |-> fs[i], flag |-> "NONE", freq |-> 0,
                                   off |-> 0, addr |-> 0, out |-> 0, cand |-> NoFp,
                                   caddr |-> 0, delta |-> "NO_DELTA", offline |-> 0]]
         IN /\ q' = [q EXCEPT ![s] = [i \in 1..n |-> [b[i] EXCEPT !.freq = FreqAfter(sketch, b, i)]]]
            /\ sketch' = SketchBatch(sketch, b)
            /\ seen' = [f \in Fps |-> seen[f] + Cardinality({i \in 1..n : fs[i] = f})]
    /\ pc' = [pc EXCEPT ![s] = "classify"]
    /\ UNCHANGED <<heap, extIndex, sfIndex, store, cache, deltaIndex, localPairs,
                   cur, Local_Flag, slotBase, loads, inRecipe, outRecipe, batches>>

\* The classification loop under topKIndexLck_: the batch-local index first,
\* then the frequency gate against the heap minimum, then heap membership.
Classify(s) ==
    /\ pc[s] = "classify"
    /\ LET b == q[s]
           minFreq == IF HeapSize(heap) = K THEN TopEntry(heap) ELSE 0
           first(i) == Min({j \in 1..i : b[j].fp = b[i].fp})
           last(i) == Max({j \in DOMAIN b : b[j].fp = b[i].fp})
           gate(i) == IF b[i].freq < minFreq \/ b[i].fp \notin DOMAIN heap
                      THEN "UNIQUE" ELSE "DUPLICATE"
       IN q' = [q EXCEPT ![s] = [i \in DOMAIN b |->
                 IF first(i) = i
                 THEN [b[i] EXCEPT !.flag = gate(i), !.freq = b[last(i)].freq,
                                   !.addr = IF gate(i) = "DUPLICATE" THEN heap[b[i].fp].addr ELSE 0]
                 ELSE [b[i] EXCEPT !.flag = IF gate(first(i)) = "UNIQUE"
                                            THEN "TMP_UNIQUE" ELSE "TMP_DUPLICATE",
                                   !.off = first(i)]]]
    /\ pc' = [pc EXCEPT ![s] = "queryOut"]
    /\ UNCHANGED <<sketch, heap, extIndex, sfIndex, store, cache, deltaIndex, localPairs,
                   cur, Local_Flag, slotBase, loads, inRecipe, outRecipe, batches, seen>>

\* Ocall_QueryOutIndex: the outside index answers every UNIQUE entry.
QueryOutIndex(s) ==
    /\ pc[s] = "queryOut"
    /\ q' = [q EXCEPT ![s] = [i \in DOMAIN q[s] |->
              IF q[s][i].flag = "UNIQUE" /\ q[s][i].fp \in DOMAIN extIndex
              THEN [q[s][i] EXCEPT !.out = extIndex[q[s][i].fp]] ELSE q[s][i]]]
    /\ pc' = [pc EXCEPT ![s] = "queryBase"]
    /\ UNCHANGED <<sketch, heap, extIndex, sfIndex, store, cache, deltaIndex, localPairs,
                   cur, Local_Flag, slotBase, loads, inRecipe, outRecipe, batches, seen>>

\* Ocall_QueryOutBasechunk answers each new chunk with a similar registered
\* base or none; LocalChecker then runs EntryLoad on every new chunk, which
\* copies an OUT_DELTA candidate's basechunkHash into the chunk's slot, and
\* counts the distinct base containers of the batch against the threshold.
QueryOutBasechunk(s) ==
    /\ pc[s] = "queryBase"
    /\ LET ids == {i \in DOMAIN q[s] : UniqueNew(q[s][i])}
       IN \E c \in [ids -> {NoFp} \cup sfIndex] :
            LET hits == {i \in ids : c[i] # NoFp}
            IN
            /\ q' = [q EXCEPT ![s] = [i \in DOMAIN q[s] |->
                      IF i \in hits
                      THEN [q[s][i] EXCEPT !.cand = c[i], !.caddr = extIndex[c[i]]]
                      ELSE q[s][i]]]
            /\ slotBase' = [slotBase EXCEPT ![s] =
                  [i \in DOMAIN slotBase[s] |-> IF i \in hits THEN c[i] ELSE slotBase[s][i]]]
            /\ Local_Flag' = [Local_Flag EXCEPT ![s] =
                  Cardinality({ContainerOf(extIndex[c[i]]) : i \in hits})
                    > Threshold(Len(q[s]))]
    /\ cur' = [cur EXCEPT ![s] = 1]
    /\ loads' = [loads EXCEPT ![s] = 0]
    /\ pc' = [pc EXCEPT ![s] = "commit"]
    /\ UNCHANGED <<sketch, heap, extIndex, sfIndex, store, cache, deltaIndex, localPairs,
                   inRecipe, outRecipe, batches, seen>>

CommitKnownNoAddr(s) ==
    /\ pc[s] = "commit"
    /\ LET e == q[s][cur[s]]
       IN /\ ~UniqueNew(e)
          /\ UpdateFileRecipe(s, e.fp)
    /\ NextChunk(s)
    /\ UNCHANGED <<sketch, heap, extIndex, sfIndex, store, cache, deltaIndex, localPairs,
                   q, Local_Flag, slotBase, loads, batches, seen>>

\* Commit of a chunk whose address is already known: a heap duplicate, a
\* batch-local duplicate (address of its first occurrence) or an outside
\* duplicate; the fingerprint goes to the recipe.
CommitKnown(s) ==
    /\ pc[s] = "commit"
    /\ LET e == q[s][cur[s]]
           a == CASE e.flag = "DUPLICATE" -> e.addr
                  [] e.flag \in {"TMP_UNIQUE", "TMP_DUPLICATE"} -> q[s][e.off].addr
                  [] e.flag = "UNIQUE" -> e.out
       IN /\ ~UniqueNew(e)
          \* only an outside duplicate's chunkAddr is rewritten (decrypted)
          /\ q' = IF e.flag = "UNIQUE" THEN [q EXCEPT ![s][cur[s]].addr = a] ELSE q
          /\ UpdateFileRecipe(s, e.fp)
    /\ NextChunk(s)
    /\ UNCHANGED <<sketch, heap, extIndex, sfIndex, store, cache, deltaIndex, localPairs,
                   Local_Flag, slotBase, loads, batches, seen>>

\* OfflinedeltaTure up to inContainerLck_: the magic-prefix skip, the
\* offline (Local_Flag) path, and the unlocked cache lookup.
SelectDelta(s) ==
    /\ pc[s] = "commit"
    /\ LET i == cur[s]
           e == q[s][i]
       IN /\ UniqueNew(e)
          /\ CASE e.fp \in MagicFps ->
                    /\ pc' = [pc EXCEPT ![s] = "store"]
                    /\ UNCHANGED <<q, slotBase>>
               [] Local_Flag[s] /\ e.cand # NoFp ->
                    /\ q' = [q EXCEPT ![s][i].offline = 1]
                    /\ pc' = [pc EXCEPT ![s] = "store"]
                    /\ UNCHANGED slotBase
               [] e.cand # NoFp /\ ContainerOf(e.caddr) \in ToSet(cache) ->
                    /\ q' = [q EXCEPT ![s][i].delta = "DELTA"]
                    /\ CacheHitBase(s, i, e)
                    /\ pc' = [pc EXCEPT ![s] = "store"]
               [] OTHER ->
                    /\ pc' = [pc EXCEPT ![s] = "loadRef"]
                    /\ UNCHANGED <<q, slotBase>>
    /\ UNCHANGED <<sketch, heap, extIndex, sfIndex, store, cache, deltaIndex, localPairs,
                   cur, Local_Flag, loads, inRecipe, outRecipe, batches, seen>>

\* OfflinedeltaTure under inContainerLck_: Ocall_getRefContainer loads the
\* base container, which is cached, and the base hash recorded, only when
\* the cache does not hold it yet.
LoadRefContainer(s) ==
    /\ pc[s] = "loadRef"
    /\ LET i == cur[s]
           e == q[s][i]
           id == ContainerOf(e.caddr)
       IN IF e.cand # NoFp
          THEN /\ loads' = [loads EXCEPT ![s] = @ + 1]
               /\ q' = [q EXCEPT ![s][i].delta = "DELTA"]
               /\ IF id \notin ToSet(cache)
                  THEN /\ cache' = InsertToCache(cache, id)
                       /\ slotBase' = [slotBase EXCEPT ![s][i] = e.cand]
                  ELSE UNCHANGED <<cache, slotBase>>
          ELSE UNCHANGED <<loads, q, cache, slotBase>>
    /\ pc' = [pc EXCEPT ![s] = "store"]
    /\ UNCHANGED <<sketch, heap, extIndex, sfIndex, store, deltaIndex, localPairs,
                   cur, Local_Flag, inRecipe, outRecipe, batches, seen>>

\* ProcessDeltachunk and ProcessSheUniqueChunk: delta-encode against the
\* cached base if it is still cached and the delta is smaller, else store
\* the chunk whole; Ocall_UpdateDeltaIndex for a delta; recipe update.
StoreUnique(s) ==
    /\ pc[s] = "store"
    /\ \E smaller \in BOOLEAN :
         LET i == cur[s]
             e == q[s][i]
             isDelta == DeltaKept(e, smaller)
             rec == [fp |-> e.fp, delta |-> isDelta,
                     base |-> IF isDelta THEN slotBase[s][i] ELSE NoFp,
                     baddr |-> IF isDelta THEN e.caddr ELSE 0]
         IN /\ store' = Append(store, rec)
            /\ q' = [q EXCEPT ![s][i].addr = SaveChunkAddr(store),
                              ![s][i].delta = IF isDelta THEN "DELTA" ELSE "NO_DELTA"]
            /\ deltaIndex' = IF isDelta THEN deltaIndex \cup {<<e.cand, e.fp>>} ELSE deltaIndex
            /\ UpdateFileRecipe(s, e.fp)
    /\ NextChunk(s)
    /\ UNCHANGED <<sketch, heap, extIndex, sfIndex, cache, localPairs,
                   Local_Flag, slotBase, loads, batches, seen>>

\* Ocall_LocalInsert of the (base, new) pairs set aside by the offline path.
LocalInsert(s) ==
    /\ pc[s] = "localInsert"
    /\ localPairs' = IF Local_Flag[s]
                     THEN localPairs \cup {<<q[s][i].cand, q[s][i].fp>> :
                                             i \in {j \in DOMAIN q[s] : q[s][j].offline = 1}}
                     ELSE localPairs
    /\ pc' = [pc EXCEPT ![s] = "heapRefresh"]
    /\ UNCHANGED <<sketch, heap, extIndex, sfIndex, store, cache, deltaIndex,
                   q, cur, Local_Flag, slotBase, loads, inRecipe, outRecipe, batches, seen>>

\* The min-heap refresh loop under topKIndexLck_.
HeapRefresh(s) ==
    /\ pc[s] = "heapRefresh"
    /\ heap' = FoldLeft(RefreshStep, heap, q[s])
    /\ pc' = [pc EXCEPT ![s] = "outUpdate"]
    /\ UNCHANGED <<sketch, extIndex, sfIndex, store, cache, deltaIndex, localPairs,
                   q, cur, Local_Flag, slotBase, loads, inRecipe, outRecipe, batches, seen>>

\* UpdateIndexStore for every new chunk, UpdateIndexSF only for a chunk
\* stored whole and not set aside for offline delta; the batch ends.
OutIndexUpdate(s) ==
    /\ pc[s] = "outUpdate"
    /\ LET new == IndexedEntries(q[s])
           fps == {q[s][i].fp : i \in new}
           addrOf(f) == q[s][CHOOSE i \in new : q[s][i].fp = f].addr
       IN /\ extIndex' = [f \in fps |-> addrOf(f)] @@ extIndex
          /\ sfIndex' = sfIndex \cup {q[s][i].fp : i \in {j \in new : SFRegistered(q[s][j])}}
    /\ batches' = [batches EXCEPT ![s] = @ + 1]
    /\ pc' = [pc EXCEPT ![s] = "idle"]
    /\ UNCHANGED <<sketch, heap, store, cache, deltaIndex, localPairs,
                   q, cur, Local_Flag, slotBase, loads, inRecipe, outRecipe, seen>>

\* Ecall_ProcTailChunkBatch: send what is left of the recipe buffer.
ProcessTailBatch(s) ==
    /\ pc[s] = "idle" /\ batches[s] = MaxBatches
    /\ IF inRecipe[s] # <<>>
       THEN /\ outRecipe' = [outRecipe EXCEPT ![s] = @ \o inRecipe[s]]
            /\ inRecipe' = [inRecipe EXCEPT ![s] = <<>>]
       ELSE UNCHANGED <<inRecipe, outRecipe>>
    /\ pc' = [pc EXCEPT ![s] = "done"]
    /\ UNCHANGED <<sketch, heap, extIndex, sfIndex, store, cache, deltaIndex, localPairs,
                   q, cur, Local_Flag, slotBase, loads, batches, seen>>

-----------------------------------------------------------------------------
(* Enclave stop and start (Ecall_Destroy_Upload / Ecall_Init_Upload with    *)
(* ENABLE_SEALING).  The server stops between uploads: no batch is in       *)
(* flight and no session holds unsent recipe entries.  Only stops that a    *)
(* later batch observes are explored: some session still has one to send.  *)

Quiescent ==
    /\ \A s \in Sessions : (pc[s] = "idle" /\ inRecipe[s] = <<>>) \/ pc[s] = "done"
    /\ \E s \in Sessions : pc[s] = "idle" /\ batches[s] < MaxBatches

ZeroSketch == [r \in 1..Depth |-> [c \in 1..Width |-> 0]]

PersistOrderSwapped == <<"heap", "sketch">>

\* PersistDedupIndex: step-1 seals the sketch, step-2 the min-heap
PersistOrder == <<"sketch", "heap">>

\* ~EcallFreqIndex, from Ecall_Destroy_Upload: one part of PersistDedupIndex
PersistPart ==
    /\ \/ enclave = "up" /\ Quiescent /\ restarts < MaxRestarts
       \/ enclave = "destroying"
    /\ LET part == PersistOrder[written + 1]
       IN IF part = "sketch"
          THEN /\ sealedSketch' = sketch
               /\ sealedSeen' = seen
               /\ UNCHANGED sealedHeap
          ELSE /\ sealedHeap' = heap
               /\ UNCHANGED <<sealedSketch, sealedSeen>>
    /\ written' = written + 1
    /\ enclave' = IF written + 1 = Len(PersistOrder) THEN "down" ELSE "destroying"
    /\ UNCHANGED <<restarts, sketch, heap, extIndex, sfIndex, store, cache, deltaIndex,
                   localPairs, pc, q, cur, Local_Flag, slotBase, loads, inRecipe,
                   outRecipe, batches, seen>>

\* The enclave stops without finishing PersistDedupIndex (Ocall_SGX_Exit_Error
\* on a sealed file that cannot be opened, or the process is killed).
Crash ==
    /\ \/ enclave = "up" /\ Quiescent /\ restarts < MaxRestarts
       \/ enclave = "destroying"
    /\ enclave' = "down"
    /\ UNCHANGED <<written, sealedSketch, sealedHeap, sealedSeen, restarts, sketch, heap,
                   extIndex, sfIndex, store, cache, deltaIndex, localPairs, pc, q, cur,
                   Local_Flag, slotBase, loads, inRecipe, outRecipe, batches, seen>>

\* LoadDedupIndex, step-1: an absent sealed sketch ends the load
LoadedSketch == IF sealedSketch = None THEN ZeroSketch ELSE sealedSketch

\* LoadDedupIndex, step-2: the heap is read only after a sketch was read
LoadedHeap == IF sealedSketch = None \/ sealedHeap = None THEN <<>> ELSE sealedHeap

InitUploadHeapOnly ==
    /\ enclave = "down"
    /\ sketch' = ZeroSketch
    /\ seen' = IF sealedSketch = None THEN [f \in Fps |-> 0] ELSE sealedSeen
    /\ heap' = LoadedHeap
    /\ cache' = <<>>
    /\ enclave' = "up"
    /\ written' = 0
    /\ restarts' = restarts + 1
    /\ UNCHANGED <<sealedSketch, sealedHeap, sealedSeen, extIndex, sfIndex, store,
                   deltaIndex, localPairs, pc, q, cur, Local_Flag, slotBase, loads,
                   inRecipe, outRecipe, batches>>

\* Ecall_Init_Upload: a new EcallFreqIndex with an empty sketch, heap and
\* cache; LoadDedupIndex then reads the sealed sketch and, if that exists,
\* the sealed heap.
InitUpload ==
    /\ enclave = "down"
    /\ sketch' = LoadedSketch
    /\ seen' = IF sealedSketch = None THEN [f \in Fps |-> 0] ELSE sealedSeen
    /\ heap' = LoadedHeap
    /\ cache' = <<>>
    /\ enclave' = "up"
    /\ written' = 0
    /\ restarts' = restarts + 1
    /\ UNCHANGED <<sealedSketch, sealedHeap, sealedSeen, extIndex, sfIndex, store,
                   deltaIndex, localPairs, pc, q, cur, Local_Flag, slotBase, loads,
                   inRecipe, outRecipe, batches>>

-----------------------------------------------------------------------------

Init ==
    /\ sketch = ZeroSketch
    /\ heap = <<>>
    /\ extIndex = <<>>
    /\ sfIndex = {}
    /\ store = <<>>
    /\ cache = <<>>
    /\ deltaIndex = {}
    /\ localPairs = {}
    /\ pc = [s \in Sessions |-> "idle"]
    /\ q = [s \in Sessions |-> <<>>]
    /\ cur = [s \in Sessions |-> 0]
    /\ Local_Flag = [s \in Sessions |-> FALSE]
    /\ slotBase = [s \in Sessions |-> [i \in 1..BatchSize |-> NoFp]]
    /\ loads = [s \in Sessions |-> 0]
    /\ inRecipe = [s \in Sessions |-> <<>>]
    /\ outRecipe = [s \in Sessions |-> <<>>]
    /\ batches = [s \in Sessions |-> 0]
    /\ seen = [f \in Fps |-> 0]
    /\ enclave = "up"
    /\ written = 0
    /\ sealedSketch = None
    /\ sealedHeap = None
    /\ sealedSeen = None
    /\ restarts = 0

\* the ECALLs of one session while the enclave object exists
SessionStep(s) ==
    /\ enclave = "up"
    /\ \/ ProcessBatchStart(s) \/ Classify(s) \/ QueryOutIndex(s)
       \/ QueryOutBasechunk(s) \/ CommitKnown(s) \/ SelectDelta(s)
       \/ LoadRefContainer(s) \/ StoreUnique(s) \/ LocalInsert(s)
       \/ HeapRefresh(s) \/ OutIndexUpdate(s) \/ ProcessTailBatch(s)
    /\ UNCHANGED persistVars

Next ==
    \/ \E s \in Sessions : SessionStep(s)
    \/ PersistPart \/ Crash \/ InitUpload

\* one worker thread per session drives its batch to the end; an enclave
\* that is being destroyed finishes, and a stopped one is started again
Fairness ==
    /\ \A s \in Sessions : WF_vars(SessionStep(s))
    /\ WF_vars(enclave = "destroying" /\ PersistPart)
    /\ WF_vars(InitUpload)

Spec == Init /\ [][Next]_vars /\ Fairness

-----------------------------------------------------------------------------
(* Refinement: the pipeline implements RecipeService.  A batch is pending   *)
(* from Ecall_ProcChunkBatch until the commit loop has passed it; the       *)
(* recipe is what was handed out followed by the in-enclave buffer.         *)

PendingOf(s) ==
    CASE pc[s] \in {"classify", "queryOut", "queryBase"} -> [i \in DOMAIN q[s] |-> q[s][i].fp]
      [] pc[s] \in {"commit", "loadRef", "store"} ->
            [i \in 1..(Len(q[s]) - cur[s] + 1) |-> q[s][cur[s] + i - 1].fp]
      [] OTHER -> <<>>

Recipe == INSTANCE RecipeService WITH
    pending <- [s \in Sessions |-> PendingOf(s)],
    recipe <- [s \in Sessions |-> outRecipe[s] \o inRecipe[s]],
    sent <- [s \in Sessions |-> Len(outRecipe[s])],
    indexed <- DOMAIN extIndex,
    closed <- [s \in Sessions |-> pc[s] = "done"]

\* Every behaviour of the pipeline is one of RecipeService's: the commit loop
\* (CommitKnown, StoreUnique through UpdateFileRecipe) puts each chunk of a
\* batch into the recipe once and in order, a flush hands out a prefix, the
\* tail batch hands out the rest, and UpdateIndexStore only publishes
\* recorded fingerprints; and every received batch is worked off.
RecipeRefinement == Recipe!Spec

\* Every step of the pipeline is a step of RecipeService or leaves its
\* image unchanged: the step part of RecipeRefinement, for runs under symmetry.
RecipeStepsRefinement == Recipe!SafetySpec

-----------------------------------------------------------------------------
(* Properties *)

TypeOK ==
    /\ sketch \in [1..Depth -> [1..Width -> Nat]]
    /\ DOMAIN heap \subseteq Fps /\ HeapSize(heap) <= K /\ \A f \in DOMAIN heap : heap[f] \in [freq : Nat, addr : Addr]
    /\ DOMAIN extIndex \subseteq Fps /\ \A f \in DOMAIN extIndex : extIndex[f] \in Addr
    /\ sfIndex \subseteq DOMAIN extIndex
    /\ store \in Seq(StoreRec)
    /\ cache \in Seq(Nat) /\ Len(cache) <= CacheCap
    /\ pc \in [Sessions -> Phases]
    /\ q \in [Sessions -> Seq(Entry)]
    /\ Local_Flag \in [Sessions -> BOOLEAN]
    /\ slotBase \in [Sessions -> [1..BatchSize -> Fps \cup {NoFp}]]
    /\ inRecipe \in [Sessions -> Seq(Fps)] /\ outRecipe \in [Sessions -> Seq(Fps)]
    /\ enclave \in {"up", "destroying", "down"} /\ written \in 0..Len(PersistOrder)
    /\ sealedSketch \in {None} \cup [1..Depth -> [1..Width -> Nat]]
    /\ restarts \in 0..MaxRestarts

\* Every heap entry's address (copied into the recipe of any later heap
\* DUPLICATE) is a stored chunk with that fingerprint: the refresh loop
\* admits only UNIQUE/DUPLICATE entries, whose chunkAddr is a real address.
HeapAddrValid ==
    \A f \in DOMAIN heap : heap[f].addr \in 1..Len(store) /\ store[heap[f].addr].fp = f

\* When no batch is in flight, every fingerprint a session has put in its
\* file recipe (sent or buffered) resolves through the outside index to a
\* stored chunk of that fingerprint, so the file can be restored.
RecipeResolvable ==
    (\A s \in Sessions : pc[s] \in {"idle", "done"}) =>
        \A s \in Sessions : \A f \in ToSet(outRecipe[s] \o inRecipe[s]) :
            f \in DOMAIN extIndex /\ extIndex[f] \in 1..Len(store)
            /\ store[extIndex[f]].fp = f

\* The Count-Min sketch never reports less than the number of times a
\* fingerprint was fed to it (the Update/Estimate loop of ProcessOneBatch).
SketchNeverUndercounts == \A f \in Fps : Estimate(sketch, f) >= seen[f]

\* A chunk held in the top-k heap is never sent to the outside index by the
\* frequency gate: its first occurrence in a batch is classified DUPLICATE
\* (the heap frequency never exceeds the sketch's later estimate).
ClassifyFindsHeapEntries ==
    [][\A s \in Sessions :
         (pc[s] = "classify" /\ pc'[s] = "queryOut") =>
            \A i \in DOMAIN q[s] :
               (q[s][i].fp \in DOMAIN heap /\ \A j \in 1..(i-1) : q[s][j].fp # q[s][i].fp)
                  => q'[s][i].flag = "DUPLICATE"]_vars

\* A delta chunk is encoded against a chunk stored whole: the base chosen
\* through UpdateIndexSF and the outside index is never itself a delta.
DeltaBaseIsWhole ==
    \A a \in 1..Len(store) : store[a].delta =>
        store[a].baddr \in 1..(a-1) /\ ~store[store[a].baddr].delta

\* No chunk in the top-k heap carries a frequency above the sketch's current
\* estimate for it, across enclave restarts: Classify compares a batch's
\* fresh estimates with heap frequencies, which is sound only if both come
\* from one sketch history; PersistDedupIndex seals the sketch before the
\* heap, so a stop between the two never pairs an older sketch with a newer
\* heap when LoadDedupIndex reads them back.
HeapFreqWithinSketch == \A f \in DOMAIN heap : heap[f].freq <= Estimate(sketch, f)

=============================================================================
