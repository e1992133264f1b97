----------------------------- MODULE EnclaveKeys -----------------------------
(***************************************************************************)
(* The enclave's key lifecycle (storeECall.cc) across process lifetimes,   *)
(* composed with the parts of the deduplication index that outlive an      *)
(* upload:                                                                 *)
(*                                                                         *)
(*  - Ecall_Enclave_Init reads enclaveKey_ and indexQueryKey_ from the     *)
(*    sealed key file, or draws both with sgx_read_rand when the file is   *)
(*    empty (first bootstrap);                                             *)
(*  - Ecall_Enclave_Destroy writes the two keys to the key file, but only  *)
(*    on a first bootstrap;                                                *)
(*  - every Ecall_Destroy_Upload seals the top-k index (PersistDedupIndex  *)
(*    in ~EcallFreqIndex), every Ecall_Init_Upload loads it back;          *)
(*  - a unique chunk is encrypted under enclaveKey_ and stored, its        *)
(*    fingerprint sent to the outside index encrypted under               *)
(*    indexQueryKey_; a duplicate is found in the top-k index (a plain     *)
(*    address) or in the outside index (queried with the encrypted         *)
(*    fingerprint).                                                        *)
(*                                                                         *)
(* A key is a generation number: sgx_read_rand draws one never drawn       *)
(* before.  The two keys are drawn, read and lost together, so one         *)
(* generation stands for both.  The batch pipeline is FreqIndex's; here a  *)
(* chunk is one step, and the top-k admission rule is a free choice.       *)
(***************************************************************************)
EXTENDS Naturals, Sequences, FiniteSets, TLC

CONSTANTS
    Fps,          \* chunk fingerprints
    NoKey,        \* the key file is empty (readFileSize == 0)
    MaxBoots,     \* bound: Ecall_Enclave_Init calls
    MaxChunks     \* bound: chunks processed over the whole behaviour

VARIABLES
    enclave,         \* "off", "on" (Enclave_Init done), "upload" (an index object exists)
    key,             \* generation of enclaveKey_ / indexQueryKey_ in the running enclave
    firstBootstrap,  \* Enclave::firstBootstrap_
    keyFile,         \* ENCLAVE_KEY_FILE_NAME: the generation it holds, or NoKey
    boots,           \* Enclave_Init calls so far; also the last generation drawn
    heap,            \* insideDedupIndex_: fp -> address
    sealedHeap,      \* the sealed "freq-index" file
    extIndex,        \* outside index: <<query-key generation, fp>> -> address
    store,           \* stored chunks: [fp, key it is encrypted under]
    recipe           \* addresses handed to file recipes: <<boot, address>>

vars == <<enclave, key, firstBootstrap, keyFile, boots, heap, sealedHeap,
          extIndex, store, recipe>>

Key == 1..MaxBoots

Init ==
    /\ enclave = "off"
    /\ key = NoKey
    /\ firstBootstrap = FALSE
    /\ keyFile = NoKey
    /\ boots = 0
    /\ heap = <<>>
    /\ sealedHeap = <<>>
    /\ extIndex = <<>>
    /\ store = <<>>
    /\ recipe = {}

\* Ecall_Enclave_Init: an empty key file means a first bootstrap and fresh
\* random keys; otherwise both keys are read from the file.
Ecall_Enclave_Init ==
    /\ enclave = "off"
    /\ boots < MaxBoots
    /\ boots' = boots + 1
    /\ IF keyFile = NoKey
       THEN /\ firstBootstrap' = TRUE
            /\ key' = boots + 1
       ELSE /\ firstBootstrap' = FALSE
            /\ key' = keyFile
    /\ enclave' = "on"
    /\ UNCHANGED <<keyFile, heap, sealedHeap, extIndex, store, recipe>>

\* Ecall_Enclave_Destroy: the keys are persisted only on a first bootstrap.
Ecall_Enclave_Destroy ==
    /\ enclave = "on"
    /\ keyFile' = IF firstBootstrap THEN key ELSE keyFile
    /\ enclave' = "off"
    /\ key' = NoKey
    /\ UNCHANGED <<firstBootstrap, boots, heap, sealedHeap, extIndex, store, recipe>>

\* Ecall_Init_Upload: a new EcallFreqIndex whose constructor loads the
\* sealed top-k index.
Ecall_Init_Upload ==
    /\ enclave = "on"
    /\ heap' = sealedHeap
    /\ enclave' = "upload"
    /\ UNCHANGED <<key, firstBootstrap, keyFile, boots, sealedHeap, extIndex, store, recipe>>

\* Ecall_Destroy_Upload: ~EcallFreqIndex seals the top-k index.
Ecall_Destroy_Upload ==
    /\ enclave = "upload"
    /\ sealedHeap' = heap
    /\ heap' = <<>>
    /\ enclave' = "on"
    /\ UNCHANGED <<key, firstBootstrap, keyFile, boots, extIndex, store, recipe>>

\* The process stops (killed, or Ocall_SGX_Exit_Error): enclave memory,
\* keys included, is gone; sealed files, the store and the outside index stay.
Crash ==
    /\ enclave # "off"
    /\ enclave' = "off"
    /\ key' = NoKey
    /\ heap' = <<>>
    /\ UNCHANGED <<firstBootstrap, keyFile, boots, sealedHeap, extIndex, store, recipe>>

\* HeapRefresh admits a chunk of the batch with its address, or does not.
Admit(f, a) == heap' \in {heap, (f :> a) @@ heap}

\* One chunk through ProcessOneBatch: the top-k index first, then the
\* outside index under the current query key, else ProcessSheUniqueChunk
\* encrypts it under the current enclave key and UpdateIndexStore files it.
ProcessChunk(f) ==
    /\ enclave = "upload"
    /\ Len(store) + Cardinality(recipe) < MaxChunks
    /\ LET qk == <<key, f>>
           a == CASE f \in DOMAIN heap -> heap[f]
                  [] qk \in DOMAIN extIndex -> extIndex[qk]
                  [] OTHER -> Len(store) + 1
       IN /\ IF f \notin DOMAIN heap /\ qk \notin DOMAIN extIndex
             THEN /\ store' = Append(store, [fp |-> f, key |-> key])
                  /\ extIndex' = (qk :> a) @@ extIndex
             ELSE UNCHANGED <<store, extIndex>>
          /\ IF f \in DOMAIN heap THEN UNCHANGED heap ELSE Admit(f, a)
          /\ recipe' = recipe \cup {<<boots, a>>}
    /\ UNCHANGED <<enclave, key, firstBootstrap, keyFile, boots, sealedHeap>>

Next ==
    \/ Ecall_Enclave_Init \/ Ecall_Enclave_Destroy
    \/ Ecall_Init_Upload \/ Ecall_Destroy_Upload \/ Crash
    \/ \E f \in Fps : ProcessChunk(f)

Spec == Init /\ [][Next]_vars

-----------------------------------------------------------------------------
(* Properties                                                              *)

TypeOK ==
    /\ enclave \in {"off", "on", "upload"}
    /\ key \in Key \cup {NoKey} /\ keyFile \in Key \cup {NoKey}
    /\ boots \in 0..MaxBoots
    /\ \A i \in DOMAIN store : store[i].fp \in Fps /\ store[i].key \in Key

\* Spec 7: a dedup decision never affects whether the data can be
\* reconstructed.  Every stored chunk that the running enclave hands to a
\* file recipe, as a new chunk or as a duplicate found in the top-k or the
\* outside index, is encrypted under the enclaveKey_ this enclave holds.
DedupRefsDecryptable ==
    enclave = "upload" =>
        \A r \in recipe : r[1] = boots => store[r[2]].key = key

=============================================================================
