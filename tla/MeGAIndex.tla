----------------------------- MODULE MeGAIndex -----------------------------
(***************************************************************************)
(* The MeGA-style upload pipeline of the enclave (EcallMeGA::ProcessOne-   *)
(* Batch, MULTI_CLIENT == 1), run by several client sessions that share    *)
(* the sketch, the top-k heap, the container cache and the one EcallMeGA   *)
(* object that Ecall_Init_Upload creates.                                  *)
(*                                                                         *)
(* It differs from FreqIndex in the delta selection: MeGAChecker counts,   *)
(* before the commit loop, how many chunks of the batch have a base in     *)
(* each container, and MeGAdeltaTure skips delta for a container whose     *)
(* count does not exceed MeGA_THRESOLD; the container cache is read and    *)
(* filled without inContainerLck_; there is no magic-prefix skip, no       *)
(* offline path and no Ocall_UpdateDeltaIndex.  ProcessDeltachunk works in *)
(* the object's scratch buffers, whose pointers ProcessOneBatch re-aims at *)
(* the calling client's buffers on every batch.                            *)
(***************************************************************************)
EXTENDS Naturals, Sequences, FiniteSets, FiniteSetsExt, SequencesExt, Functions, TLC

CONSTANTS
    Sessions,            \* client sessions (one enclave worker thread each)
    Fps,                 \* chunk fingerprints
    NoFp,                \* "no base chunk"; also the content of a buffer holding no chunk
    BatchSize,           \* bound: chunks per batch
    MaxBatches,          \* bound: batches each session uploads
    K,                   \* topThreshold_
    Depth, Width, Hash,  \* Count-Min sketch
    sendRecipeBatchSize, \* Enclave::sendRecipeBatchSize_
    CacheCap,            \* capacity of InContainercache_
    ChunksPerContainer,  \* chunks packed in one storage container
    MeGA_THRESOLD,       \* reuse count of MeGAdeltaTure
    None,                \* a sealed file that does not exist (size 0)
    MaxRestarts          \* bound: enclave restarts (Destroy_Upload or crash, Init_Upload)

ASSUME K >= 1 /\ CacheCap >= 1 /\ ChunksPerContainer >= 1 /\ MeGA_THRESOLD \in Nat
ASSUME Hash \in [1..Depth -> [Fps -> 1..Width]] /\ NoFp \notin Fps

VARIABLES
    sketch, heap, extIndex, sfIndex, store, cache,
    pc,          \* position of each session in ProcessOneBatch
    q,           \* in-enclave query entries of the current batch
    cur,         \* commit-loop cursor
    MeGA_map,    \* per-batch container id -> candidates counted by MeGAChecker
    slotBase,    \* chunkAddr.basechunkHash of each query slot (kept across batches)
    scratch,     \* client whose buffers plainBaseBuffer_ etc. of the shared object point to
    plainBuf,    \* content of each client's plainBaseBuffer_
    inRecipe, outRecipe, batches,
    enclave,     \* "up", "destroying" (in PersistDedupIndex) or "down"
    written,     \* parts of PersistDedupIndex written in this destroy
    sealedSketch, sealedHeap, \* the sealed files "cm-sketch" and "freq-index"
    restarts     \* restarts so far

persistVars == <<enclave, written, sealedSketch, sealedHeap, restarts>>

vars == <<sketch, heap, extIndex, sfIndex, store, cache, pc, q, cur, MeGA_map,
          slotBase, scratch, plainBuf, inRecipe, outRecipe, batches, persistVars>>

Flags == {"NONE", "UNIQUE", "DUPLICATE", "TMP_UNIQUE", "TMP_DUPLICATE"}
DeltaFlags == {"NO_DELTA", "OUT_DELTA", "DELTA"}
Phases == {"idle", "classify", "queryOut", "queryBase", "commit", "loadRef",
           "decode", "store", "heapRefresh", "outUpdate", "done"}
Addr == Nat
Entry == [fp : Fps, flag : Flags, freq : Nat, off : Nat, addr : Addr,
          out : Addr, cand : Fps \cup {NoFp}, caddr : Addr, delta : DeltaFlags]
\* enc: the chunk whose bytes the delta was encoded against
StoreRec == [fp : Fps, delta : BOOLEAN, base : Fps \cup {NoFp}, baddr : Addr,
             enc : Fps \cup {NoFp}]

ContainerOf(a) == (a - 1) \div ChunksPerContainer

-----------------------------------------------------------------------------
(* Sketch and top-k heap: the EcallMeGA copies of the EcallFreqIndex code *)

Estimate(sk, f) == Min({sk[r][Hash[r][f]] : r \in 1..Depth})

RowHits(b, r, c, n) == Cardinality({j \in 1..n : Hash[r][b[j].fp] = c})

SketchBatch(sk, b) == [r \in 1..Depth |-> [c \in 1..Width |-> sk[r][c] + RowHits(b, r, c, Len(b))]]

FreqAfter(sk, b, i) ==
    Min({sk[r][Hash[r][b[i].fp]] + RowHits(b, r, Hash[r][b[i].fp], i) : r \in 1..Depth})

TopEntry(h) == Min({h[f].freq : f \in DOMAIN h})

HeapSize(h) == Cardinality(DOMAIN h)

Pop(h) == LET m == CHOOSE f \in DOMAIN h : h[f].freq = TopEntry(h)
          IN Restrict(h, DOMAIN h \ {m})

CheckIfAddToHeap(h, freq) == HeapSize(h) < K \/ freq >= TopEntry(h)

AddChunkToHeapNoPop(h, freq, a, f) == (f :> [freq |-> freq, addr |-> a]) @@ h

AddChunkToHeap(h, freq, a, f) ==
    LET h1 == IF HeapSize(h) = K THEN Pop(h) ELSE h
    IN (f :> [freq |-> freq, addr |-> a]) @@ h1

UpdateInsideIndexFreq(h, f, freq) == [h EXCEPT ![f].freq = freq]

RefreshStep(h, e) ==
    IF e.flag \in {"UNIQUE", "DUPLICATE"} /\ CheckIfAddToHeap(h, e.freq)
    THEN IF e.fp \in DOMAIN h THEN UpdateInsideIndexFreq(h, e.fp, e.freq)
         ELSE AddChunkToHeap(h, e.freq, e.addr, e.fp)
    ELSE h

-----------------------------------------------------------------------------
(* Helpers of the batch pipeline *)

UniqueNew(e) == e.flag = "UNIQUE" /\ e.out = 0

InsertToCache(c, id) ==
    IF id \in ToSet(c) THEN c
    ELSE IF Len(c) = CacheCap THEN Append(Tail(c), id) ELSE Append(c, id)

UpdateFileRecipeStale(s, f) ==
    LET r == Append(inRecipe[s], f)
    IN IF Len(r) % sendRecipeBatchSize = 0
       THEN /\ outRecipe' = [outRecipe EXCEPT ![s] = @ \o inRecipe[s]]
            /\ inRecipe' = [inRecipe EXCEPT ![s] = <<>>]
       ELSE /\ inRecipe' = [inRecipe EXCEPT ![s] = r]
            /\ UNCHANGED outRecipe

UpdateFileRecipe(s, f) ==
    LET r == Append(inRecipe[s], f)
    IN IF Len(r) % sendRecipeBatchSize = 0
       THEN /\ outRecipe' = [outRecipe EXCEPT ![s] = @ \o r]
            /\ inRecipe' = [inRecipe EXCEPT ![s] = <<>>]
       ELSE /\ inRecipe' = [inRecipe EXCEPT ![s] = r]
            /\ UNCHANGED outRecipe

SaveChunkAddr(st) == Len(st) + 1

IndexedEntriesWhole(b) == {i \in DOMAIN b : UniqueNew(b[i]) /\ b[i].delta # "DELTA"}

IndexedEntries(b) == {i \in DOMAIN b : UniqueNew(b[i])}

\* MeGALoad for the candidates of a batch: basechunkHash := the candidate
MeGALoadNoBaseCopy(sb, b, ids) == sb

MeGALoad(sb, b, ids) == [i \in DOMAIN sb |-> IF i \in ids THEN b[i].cand ELSE sb[i]]

\* MeGAChecker: per container, the number of candidates of the batch
MeGAChecker(b, ids) ==
    LET cs == {ContainerOf(b[i].caddr) : i \in ids}
    IN [c \in cs |-> Cardinality({i \in ids : ContainerOf(b[i].caddr) = c})]

\* MeGA_Flag of MeGAdeltaTure: true unless the count exceeds MeGA_THRESOLD
MeGA_Flag(m, c) == ~(c \in DOMAIN m /\ m[c] > MeGA_THRESOLD)

NextChunk(s) ==
    /\ cur' = [cur EXCEPT ![s] = @ + 1]
    /\ pc' = [pc EXCEPT ![s] = IF cur[s] = Len(q[s]) THEN "heapRefresh" ELSE "commit"]

-----------------------------------------------------------------------------
(* Actions of one session *)

\* Ecall_ProcChunkBatch: aim the object's scratch-buffer pointers at this
\* client's buffers, hash the batch, update the sketch and estimate each
\* chunk's frequency under sketchLck_.
ProcessBatchStart(s) ==
    /\ pc[s] = "idle" /\ batches[s] < MaxBatches
    /\ \E n \in 1..BatchSize, fs \in [1..BatchSize -> Fps] :
         LET b == [i \in 1..n |-> [fp |-> fs[i], flag |-> "NONE", freq |-> 0, off |-> 0,
                                   addr |-> 0, out |-> 0, cand |-> NoFp, caddr |-> 0,
                                   delta |-> "NO_DELTA"]]
         IN /\ q' = [q EXCEPT ![s] = [i \in 1..n |-> [b[i] EXCEPT !.freq = FreqAfter(sketch, b, i)]]]
            /\ sketch' = SketchBatch(sketch, b)
    /\ scratch' = s
    /\ pc' = [pc EXCEPT ![s] = "classify"]
    /\ UNCHANGED <<heap, extIndex, sfIndex, store, cache, cur, MeGA_map, slotBase,
                   plainBuf, inRecipe, outRecipe, batches>>

\* The classification loop under topKIndexLck_ (same code as EcallFreqIndex).
Classify(s) ==
    /\ pc[s] = "classify"
    /\ LET b == q[s]
           minFreq == IF HeapSize(heap) = K THEN TopEntry(heap) ELSE 0
           first(i) == Min({j \in 1..i : b[j].fp = b[i].fp})
           last(i) == Max({j \in DOMAIN b : b[j].fp = b[i].fp})
           gate(i) == IF b[i].freq < minFreq \/ b[i].fp \notin DOMAIN heap
                      THEN "UNIQUE" ELSE "DUPLICATE"
       IN q' = [q EXCEPT ![s] = [i \in DOMAIN b |->
                 IF first(i) = i
                 THEN [b[i] EXCEPT !.flag = gate(i), !.freq = b[last(i)].freq,
                                   !.addr = IF gate(i) = "DUPLICATE" THEN heap[b[i].fp].addr ELSE 0]
                 ELSE [b[i] EXCEPT !.flag = IF gate(first(i)) = "UNIQUE"
                                            THEN "TMP_UNIQUE" ELSE "TMP_DUPLICATE",
                                   !.off = first(i)]]]
    /\ pc' = [pc EXCEPT ![s] = "queryOut"]
    /\ UNCHANGED <<sketch, heap, extIndex, sfIndex, store, cache, cur, MeGA_map, slotBase,
                   scratch, plainBuf, inRecipe, outRecipe, batches>>

\* Ocall_QueryOutIndex when the batch has UNIQUE entries.
QueryOutIndex(s) ==
    /\ pc[s] = "queryOut"
    /\ q' = [q EXCEPT ![s] = [i \in DOMAIN q[s] |->
              IF q[s][i].flag = "UNIQUE" /\ q[s][i].fp \in DOMAIN extIndex
              THEN [q[s][i] EXCEPT !.out = extIndex[q[s][i].fp]] ELSE q[s][i]]]
    /\ pc' = [pc EXCEPT ![s] = "queryBase"]
    /\ UNCHANGED <<sketch, heap, extIndex, sfIndex, store, cache, cur, MeGA_map, slotBase,
                   scratch, plainBuf, inRecipe, outRecipe, batches>>

\* Super-features of the new chunks (OutEntrySFGet: NO_DELTA), then
\* Ocall_QueryOutBasechunk marks OUT_DELTA the chunks with a similar
\* registered base, then MeGAChecker/MeGALoad copy each candidate's base
\* hash into its slot and count the candidates per container.
QueryOutBasechunk(s) ==
    /\ pc[s] = "queryBase"
    /\ LET ids == {i \in DOMAIN q[s] : UniqueNew(q[s][i])}
       IN \E c \in [ids -> {NoFp} \cup sfIndex] :
            LET hits == {i \in ids : c[i] # NoFp}
                b == [i \in DOMAIN q[s] |->
                       IF i \in hits
                       THEN [q[s][i] EXCEPT !.cand = c[i], !.caddr = extIndex[c[i]],
                                            !.delta = "OUT_DELTA"]
                       ELSE q[s][i]]
            IN /\ q' = [q EXCEPT ![s] = b]
               /\ slotBase' = [slotBase EXCEPT ![s] = MeGALoad(@, b, hits)]
               /\ MeGA_map' = [MeGA_map EXCEPT ![s] = MeGAChecker(b, hits)]
    /\ cur' = [cur EXCEPT ![s] = 1]
    /\ pc' = [pc EXCEPT ![s] = "commit"]
    /\ UNCHANGED <<sketch, heap, extIndex, sfIndex, store, cache, scratch, plainBuf,
                   inRecipe, outRecipe, batches>>

CommitKnownNoAddr(s) ==
    /\ pc[s] = "commit"
    /\ ~UniqueNew(q[s][cur[s]])
    /\ UpdateFileRecipe(s, q[s][cur[s]].fp)
    /\ NextChunk(s)
    /\ UNCHANGED <<sketch, heap, extIndex, sfIndex, store, cache, q, MeGA_map, slotBase,
                   scratch, plainBuf, batches>>

\* Commit of a heap, batch-local or outside duplicate: recipe update; an
\* outside duplicate's chunkAddr is decrypted into the entry.
CommitKnown(s) ==
    /\ pc[s] = "commit"
    /\ LET e == q[s][cur[s]]
       IN /\ ~UniqueNew(e)
          /\ q' = IF e.flag = "UNIQUE" THEN [q EXCEPT ![s][cur[s]].addr = e.out] ELSE q
          /\ UpdateFileRecipe(s, e.fp)
    /\ NextChunk(s)
    /\ UNCHANGED <<sketch, heap, extIndex, sfIndex, store, cache, MeGA_map, slotBase,
                   scratch, plainBuf, batches>>

\* MeGAdeltaTure up to Ocall_getRefContainer, with no lock: a chunk without
\* a candidate, or whose base container is not counted above MeGA_THRESOLD,
\* is stored whole; a cached base container makes it DELTA.
MeGASelect(s) ==
    /\ pc[s] = "commit"
    /\ LET i == cur[s]
           e == q[s][i]
       IN /\ UniqueNew(e)
          /\ CASE e.delta # "OUT_DELTA" \/ MeGA_Flag(MeGA_map[s], ContainerOf(e.caddr)) ->
                    /\ q' = [q EXCEPT ![s][i].delta = "NO_DELTA"]
                    /\ pc' = [pc EXCEPT ![s] = "store"]
                    /\ UNCHANGED slotBase
               [] ContainerOf(e.caddr) \in ToSet(cache) ->
                    /\ q' = [q EXCEPT ![s][i].delta = "DELTA"]
                    /\ slotBase' = [slotBase EXCEPT ![s][i] = e.cand]
                    /\ pc' = [pc EXCEPT ![s] = "decode"]
               [] OTHER ->
                    /\ pc' = [pc EXCEPT ![s] = "loadRef"]
                    /\ UNCHANGED <<q, slotBase>>
    /\ UNCHANGED <<sketch, heap, extIndex, sfIndex, store, cache, cur, MeGA_map,
                   scratch, plainBuf, inRecipe, outRecipe, batches>>

MeGALoadRefNoInsert(s) ==
    /\ pc[s] = "loadRef"
    /\ q' = [q EXCEPT ![s][cur[s]].delta = "DELTA"]
    /\ pc' = [pc EXCEPT ![s] = "decode"]
    /\ UNCHANGED <<sketch, heap, extIndex, sfIndex, store, cache, cur, MeGA_map, slotBase,
                   scratch, plainBuf, inRecipe, outRecipe, batches>>

\* The rest of MeGAdeltaTure: Ocall_getRefContainer loads the container
\* (DELTA); it is inserted into the cache, and the base hash copied, only
\* if the cache does not hold it by now.
MeGALoadRef(s) ==
    /\ pc[s] = "loadRef"
    /\ LET i == cur[s]
           e == q[s][i]
           id == ContainerOf(e.caddr)
       IN /\ q' = [q EXCEPT ![s][i].delta = "DELTA"]
          /\ IF id \notin ToSet(cache)
             THEN /\ cache' = InsertToCache(cache, id)
                  /\ slotBase' = [slotBase EXCEPT ![s][i] = e.cand]
             ELSE UNCHANGED <<cache, slotBase>>
    /\ pc' = [pc EXCEPT ![s] = "decode"]
    /\ UNCHANGED <<sketch, heap, extIndex, sfIndex, store, cur, MeGA_map,
                   scratch, plainBuf, inRecipe, outRecipe, batches>>

\* ProcessDeltachunk up to LZ4_decompress_safe: the base chunk is read from
\* containerbuffer into the buffers plainBaseBuffer_ points to.  If the
\* container has been evicted meanwhile the code only logs and reads the
\* stale buffer anyway: its content is undefined (the base or other bytes).
DecodeBase(s) ==
    /\ pc[s] = "decode"
    /\ LET e == q[s][cur[s]]
       IN \E got \in IF ContainerOf(e.caddr) \in ToSet(cache) THEN {e.cand} ELSE {e.cand, NoFp} :
             plainBuf' = [plainBuf EXCEPT ![scratch] = got]
    /\ pc' = [pc EXCEPT ![s] = "store"]
    /\ UNCHANGED <<sketch, heap, extIndex, sfIndex, store, cache, q, cur, MeGA_map,
                   slotBase, scratch, inRecipe, outRecipe, batches>>

\* The rest of ProcessDeltachunk (ed3_encode against plainBaseBuffer_, fall
\* back to NO_DELTA if not smaller), ProcessSheUniqueChunk, recipe update.
StoreUnique(s) ==
    /\ pc[s] = "store"
    /\ \E smaller \in BOOLEAN :
         LET i == cur[s]
             e == q[s][i]
             isDelta == e.delta = "DELTA" /\ smaller
             rec == [fp |-> e.fp, delta |-> isDelta,
                     base |-> IF isDelta THEN slotBase[s][i] ELSE NoFp,
                     baddr |-> IF isDelta THEN e.caddr ELSE 0,
                     enc |-> IF isDelta THEN plainBuf[scratch] ELSE NoFp]
         IN /\ store' = Append(store, rec)
            /\ q' = [q EXCEPT ![s][i].addr = SaveChunkAddr(store),
                              ![s][i].delta = IF isDelta THEN "DELTA" ELSE "NO_DELTA"]
            /\ UpdateFileRecipe(s, e.fp)
    /\ NextChunk(s)
    /\ UNCHANGED <<sketch, heap, extIndex, sfIndex, cache, MeGA_map, slotBase,
                   scratch, plainBuf, batches>>

\* The min-heap refresh loop under topKIndexLck_; MeGA_map is dropped.
HeapRefresh(s) ==
    /\ pc[s] = "heapRefresh"
    /\ heap' = FoldLeft(RefreshStep, heap, q[s])
    /\ MeGA_map' = [MeGA_map EXCEPT ![s] = <<>>]
    /\ pc' = [pc EXCEPT ![s] = "outUpdate"]
    /\ UNCHANGED <<sketch, extIndex, sfIndex, store, cache, q, cur, slotBase,
                   scratch, plainBuf, inRecipe, outRecipe, batches>>

\* The untrusted side files every new chunk's address under its fingerprint
\* and the super-features of each chunk stored whole.
OutIndexUpdate(s) ==
    /\ pc[s] = "outUpdate"
    /\ LET new == IndexedEntries(q[s])
           fps == {q[s][i].fp : i \in new}
           addrOf(f) == q[s][CHOOSE i \in new : q[s][i].fp = f].addr
       IN /\ extIndex' = [f \in fps |-> addrOf(f)] @@ extIndex
          /\ sfIndex' = sfIndex \cup {q[s][i].fp : i \in {j \in new : q[s][j].delta = "NO_DELTA"}}
    /\ batches' = [batches EXCEPT ![s] = @ + 1]
    /\ pc' = [pc EXCEPT ![s] = "idle"]
    /\ UNCHANGED <<sketch, heap, store, cache, q, cur, MeGA_map, slotBase,
                   scratch, plainBuf, inRecipe, outRecipe>>

\* Ecall_ProcTailChunkBatch: send what is left of the recipe buffer.
ProcessTailBatch(s) ==
    /\ pc[s] = "idle" /\ batches[s] = MaxBatches
    /\ IF inRecipe[s] # <<>>
       THEN /\ outRecipe' = [outRecipe EXCEPT ![s] = @ \o inRecipe[s]]
            /\ inRecipe' = [inRecipe EXCEPT ![s] = <<>>]
       ELSE UNCHANGED <<inRecipe, outRecipe>>
    /\ pc' = [pc EXCEPT ![s] = "done"]
    /\ UNCHANGED <<sketch, heap, extIndex, sfIndex, store, cache, q, cur, MeGA_map,
                   slotBase, scratch, plainBuf, batches>>

-----------------------------------------------------------------------------
(* Enclave stop and start with ENABLE_SEALING: Ecall_Destroy_Upload deletes *)
(* the EcallMeGA object, whose destructor runs PersistDedupIndex, and       *)
(* Ecall_Init_Upload creates a new one, whose constructor runs              *)
(* LoadDedupIndex.  The server stops between uploads: no batch is in        *)
(* flight and no session holds unsent recipe entries.  Only stops that a    *)
(* later batch observes are explored: some session still has one to send.  *)

Quiescent ==
    /\ \A s \in Sessions : (pc[s] = "idle" /\ inRecipe[s] = <<>>) \/ pc[s] = "done"
    /\ \E s \in Sessions : pc[s] = "idle" /\ batches[s] < MaxBatches

ZeroSketch == [r \in 1..Depth |-> [c \in 1..Width |-> 0]]

PersistOrderSwapped == <<"heap", "sketch">>

\* PersistDedupIndex: step-1 seals the sketch, step-2 the min-heap
PersistOrder == <<"sketch", "heap">>

\* ~EcallMeGA: one sealed file of PersistDedupIndex
PersistPart ==
    /\ \/ enclave = "up" /\ Quiescent /\ restarts < MaxRestarts
       \/ enclave = "destroying"
    /\ IF PersistOrder[written + 1] = "sketch"
       THEN sealedSketch' = sketch /\ UNCHANGED sealedHeap
       ELSE sealedHeap' = heap /\ UNCHANGED sealedSketch
    /\ written' = written + 1
    /\ enclave' = IF written + 1 = Len(PersistOrder) THEN "down" ELSE "destroying"
    /\ UNCHANGED <<restarts, sketch, heap, extIndex, sfIndex, store, cache, pc, q, cur,
                   MeGA_map, slotBase, scratch, plainBuf, inRecipe, outRecipe, batches>>

\* The enclave stops without finishing PersistDedupIndex (Ocall_SGX_Exit_Error
\* on a sealed file that cannot be opened, or the process is killed).
Crash ==
    /\ \/ enclave = "up" /\ Quiescent /\ restarts < MaxRestarts
       \/ enclave = "destroying"
    /\ enclave' = "down"
    /\ UNCHANGED <<written, sealedSketch, sealedHeap, restarts, sketch, heap, extIndex,
                   sfIndex, store, cache, pc, q, cur, MeGA_map, slotBase, scratch,
                   plainBuf, inRecipe, outRecipe, batches>>

\* LoadDedupIndex, step-1: an absent sealed sketch ends the load
LoadedSketch == IF sealedSketch = None THEN ZeroSketch ELSE sealedSketch

\* LoadDedupIndex, step-2: the heap is read only after a sketch was read
LoadedHeap == IF sealedSketch = None \/ sealedHeap = None THEN <<>> ELSE sealedHeap

InitUploadHeapOnly ==
    /\ enclave = "down"
    /\ sketch' = ZeroSketch /\ heap' = LoadedHeap /\ cache' = <<>>
    /\ enclave' = "up" /\ written' = 0 /\ restarts' = restarts + 1
    /\ UNCHANGED <<sealedSketch, sealedHeap, extIndex, sfIndex, store, pc, q, cur,
                   MeGA_map, slotBase, scratch, plainBuf, inRecipe, outRecipe, batches>>

\* Ecall_Init_Upload: EcallMeGA() builds an empty sketch, heap and container
\* cache, then LoadDedupIndex reads the sealed sketch and, if that exists,
\* the sealed heap.
InitUpload ==
    /\ enclave = "down"
    /\ sketch' = LoadedSketch /\ heap' = LoadedHeap /\ cache' = <<>>
    /\ enclave' = "up" /\ written' = 0 /\ restarts' = restarts + 1
    /\ UNCHANGED <<sealedSketch, sealedHeap, extIndex, sfIndex, store, pc, q, cur,
                   MeGA_map, slotBase, scratch, plainBuf, inRecipe, outRecipe, batches>>

-----------------------------------------------------------------------------

Init ==
    /\ sketch = ZeroSketch
    /\ heap = <<>> /\ extIndex = <<>> /\ sfIndex = {} /\ store = <<>> /\ cache = <<>>
    /\ pc = [s \in Sessions |-> "idle"]
    /\ q = [s \in Sessions |-> <<>>]
    /\ cur = [s \in Sessions |-> 0]
    /\ MeGA_map = [s \in Sessions |-> <<>>]
    /\ slotBase = [s \in Sessions |-> [i \in 1..BatchSize |-> NoFp]]
    /\ scratch \in Sessions
    /\ plainBuf = [s \in Sessions |-> NoFp]
    /\ inRecipe = [s \in Sessions |-> <<>>]
    /\ outRecipe = [s \in Sessions |-> <<>>]
    /\ batches = [s \in Sessions |-> 0]
    /\ enclave = "up" /\ written = 0 /\ restarts = 0
    /\ sealedSketch = None /\ sealedHeap = None

\* the ECALLs of one session while the EcallMeGA object exists
SessionStep(s) ==
    /\ enclave = "up"
    /\ \/ ProcessBatchStart(s) \/ Classify(s) \/ QueryOutIndex(s)
       \/ QueryOutBasechunk(s) \/ CommitKnown(s) \/ MeGASelect(s)
       \/ MeGALoadRef(s) \/ DecodeBase(s) \/ StoreUnique(s)
       \/ HeapRefresh(s) \/ OutIndexUpdate(s) \/ ProcessTailBatch(s)
    /\ UNCHANGED persistVars

Next ==
    \/ \E s \in Sessions : SessionStep(s)
    \/ PersistPart \/ Crash \/ InitUpload

\* one worker thread per session drives its batch to the end; an enclave
\* that is being destroyed finishes, and a stopped one is started again
Fairness ==
    /\ \A s \in Sessions : WF_vars(SessionStep(s))
    /\ WF_vars(enclave = "destroying" /\ PersistPart)
    /\ WF_vars(InitUpload)

Spec == Init /\ [][Next]_vars /\ Fairness

-----------------------------------------------------------------------------
(* Refinement: the MeGA pipeline implements RecipeService under the same    *)
(* mapping as FreqIndex; the decode step of the commit loop keeps the chunk *)
(* at the cursor pending.                                                   *)

PendingOf(s) ==
    CASE pc[s] \in {"classify", "queryOut", "queryBase"} -> [i \in DOMAIN q[s] |-> q[s][i].fp]
      [] pc[s] \in {"commit", "loadRef", "decode", "store"} ->
            [i \in 1..(Len(q[s]) - cur[s] + 1) |-> q[s][cur[s] + i - 1].fp]
      [] OTHER -> <<>>

Recipe == INSTANCE RecipeService WITH
    pending <- [s \in Sessions |-> PendingOf(s)],
    recipe <- [s \in Sessions |-> outRecipe[s] \o inRecipe[s]],
    sent <- [s \in Sessions |-> Len(outRecipe[s])],
    indexed <- DOMAIN extIndex,
    closed <- [s \in Sessions |-> pc[s] = "done"]

\* Every behaviour of the MeGA pipeline is one of RecipeService's: each chunk
\* of a batch enters the recipe once and in order through UpdateFileRecipe,
\* flushes hand out a prefix, the tail batch the rest, UpdateIndexStore only
\* publishes recorded fingerprints, and every received batch is worked off.
RecipeRefinement == Recipe!Spec

\* Every step of the MeGA pipeline is a step of RecipeService or leaves its
\* image unchanged: the step part of RecipeRefinement, for runs under symmetry.
RecipeStepsRefinement == Recipe!SafetySpec

-----------------------------------------------------------------------------
(* Properties *)

TypeOK ==
    /\ sketch \in [1..Depth -> [1..Width -> Nat]]
    /\ DOMAIN heap \subseteq Fps /\ HeapSize(heap) <= K
    /\ \A f \in DOMAIN heap : heap[f] \in [freq : Nat, addr : Addr]
    /\ DOMAIN extIndex \subseteq Fps /\ sfIndex \subseteq DOMAIN extIndex
    /\ store \in Seq(StoreRec)
    /\ cache \in Seq(Nat) /\ Len(cache) <= CacheCap
    /\ pc \in [Sessions -> Phases] /\ q \in [Sessions -> Seq(Entry)]
    /\ scratch \in Sessions /\ plainBuf \in [Sessions -> Fps \cup {NoFp}]
    /\ slotBase \in [Sessions -> [1..BatchSize -> Fps \cup {NoFp}]]
    /\ inRecipe \in [Sessions -> Seq(Fps)] /\ outRecipe \in [Sessions -> Seq(Fps)]
    /\ enclave \in {"up", "destroying", "down"} /\ written \in 0..Len(PersistOrder)
    /\ restarts \in 0..MaxRestarts

\* Every heap entry's address (copied into the recipe of a later heap
\* DUPLICATE) is a stored chunk with that fingerprint.
HeapAddrValid ==
    \A f \in DOMAIN heap : heap[f].addr \in 1..Len(store) /\ store[heap[f].addr].fp = f

\* When no batch is in flight, every fingerprint in a session's file recipe
\* resolves through the outside index to a stored chunk of that fingerprint.
RecipeResolvable ==
    (\A s \in Sessions : pc[s] \in {"idle", "done"}) =>
        \A s \in Sessions : \A f \in ToSet(outRecipe[s] \o inRecipe[s]) :
            f \in DOMAIN extIndex /\ extIndex[f] \in 1..Len(store)
            /\ store[extIndex[f]].fp = f

\* The base hash recorded in a delta chunk's address names the chunk at the
\* base address it was selected against (MeGALoad copies it for every
\* candidate before the commit loop, whatever the cache race does later).
DeltaRecordsTrueBase ==
    \A a \in 1..Len(store) : store[a].delta => store[a].base = store[store[a].baddr].fp

\* A delta chunk was encoded against the bytes of the base it records, so
\* it decodes on restore: ProcessDeltachunk read the base from a cached
\* container into the calling client's plainBaseBuffer_.
DeltaEncodedAgainstRecordedBase ==
    \A a \in 1..Len(store) : store[a].delta => store[a].enc = store[a].base

\* Across enclave restarts, every top-k entry's frequency (the sketch estimate
\* when HeapRefresh admitted it) is at most the current sketch estimate of
\* its fingerprint: LoadDedupIndex restores the heap only together with the
\* sketch, and a stop inside PersistDedupIndex leaves a sealed sketch at least
\* as new as the sealed heap, so Classify's minFreq gate never compares a
\* fresh estimate against frequencies the sketch has forgotten.
HeapFreqWithinSketch == \A f \in DOMAIN heap : heap[f].freq <= Estimate(sketch, f)

====
