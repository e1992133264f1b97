---------------------------- MODULE SuperFeature ----------------------------
(***************************************************************************)
(* The super-feature step of EcallFreqIndex::ProcessOneBatch in the build  *)
(* with SF_SINGLE_THREAD == 0 and MULTI_CLIENT == 1, after the top-k lock  *)
(* has been released:                                                      *)
(*                                                                         *)
(*  - every unique chunk of the batch is pushed onto the file-scope vector *)
(*    param_list;                                                          *)
(*  - thread_num worker threads (GetSF_thread_func_f) are started on equal *)
(*    slices of it, their handles stored in the file-scope test_pthread[]; *)
(*  - the session joins test_pthread[0..2], clears param_list and copies   *)
(*    the super-features into the outside query (OutEntrySFGet).           *)
(*                                                                         *)
(* param_list and test_pthread are shared by every session and no lock     *)
(* covers them.  A worker runs getSF2, modelled below by what it computes  *)
(* on small byte sequences with scaled-down window, feature count and      *)
(* modulus.  The SHA-256 digest of a group of features is compared only    *)
(* for equality and is taken to be collision-free, so a group stands for   *)
(* its digest.                                                             *)
(***************************************************************************)
EXTENDS Naturals, Integers, Sequences, FiniteSets, FiniteSetsExt, Functions, TLC

CONSTANTS
    Sessions,       \* client sessions running ProcessOneBatch concurrently
    Chunks,         \* Chunks[s]: contents of the unique chunks of s's batch
    NumThreads,     \* thread_num
    WINDOW_SIZE,    \* rolling-hash window
    FEATURE_NUM,    \* sub-ranges (features) per chunk
    SFNUM,          \* SF_NUM (a name cannot start with SF_): super-features per chunk
    A, MOD,         \* rolling-hash base and modulus
    Stale           \* super-feature bytes left in a query slot by an earlier batch

Threads == 0..NumThreads - 1

\* a worker thread: the one started as test_pthread[i] by session s
ThreadIds == Sessions \X Threads

-----------------------------------------------------------------------------
(* getSF2                                                                  *)

\* ptr[j]; a read past the chunk (the first window of a last sub-range
\* shorter than WINDOW_SIZE) is never used, whatever it returns
Ptr(c, j) == IF j < Len(c) THEN c[j + 1] ELSE 0

SubchunkIndex(n, i) == (n * i) \div FEATURE_NUM

RECURSIVE APowerLoop(_)
APowerLoop(i) == IF i = 0 THEN 1 ELSE (APowerLoop(i - 1) * A) % MOD

Apower == APowerLoop(WINDOW_SIZE - 1)

\* the first window of a sub-range, hashed byte by byte
RECURSIVE InitFp(_, _, _, _)
InitFp(c, j, e, fp) ==
    IF j >= e THEN fp ELSE InitFp(c, j + 1, e, (fp * A + Ptr(c, j)) % MOD)

\* for (j = s; j < e - WINDOW_SIZE + 1; ++j): keep the maximum, roll the
\* oldest byte out and, except after the last window, the next byte in
RECURSIVE RollMax(_, _, _, _, _)
RollMax(c, j, last, fp, feat) ==
    IF j > last THEN feat
    ELSE LET rolled == fp - ((Ptr(c, j) * Apower) % MOD)
             fp1 == IF rolled < 0 THEN rolled + MOD ELSE rolled  \* fp < MOD: one pass
             fp2 == IF j # last
                    THEN (fp1 * A + Ptr(c, j + WINDOW_SIZE)) % MOD
                    ELSE fp1
         IN RollMax(c, j + 1, last, fp2, IF fp > feat THEN fp ELSE feat)

Feature(c, i) ==
    LET s == SubchunkIndex(Len(c), i)
        e == SubchunkIndex(Len(c), i + 1)
    IN RollMax(c, s, e - WINDOW_SIZE, InitFp(c, s, s + WINDOW_SIZE, 0), 0)

\* std::sort of each run of SF_NUM consecutive features, then super-feature
\* i is the group {feature[j * SF_NUM + i]} handed to GenerateHash
GroupSF(F) ==
    LET sorted(g) == SortSeq([k \in 1..SFNUM |-> F[g * SFNUM + k - 1]], <)
    IN [i \in 1..SFNUM |->
          [j \in 1..FEATURE_NUM \div SFNUM |-> sorted(j - 1)[i]]]

GetSF2(c) == GroupSF([i \in 0..FEATURE_NUM - 1 |-> Feature(c, i)])

\* spec 4.4: the maximum of the polynomial hash over every window of each
\* sub-range, 0 if it has none
WindowHash(c, p) ==
    SumFunction([k \in 0..WINDOW_SIZE - 1 |->
                   c[p + k + 1] * ((A ^ (WINDOW_SIZE - 1 - k)) % MOD)]) % MOD

SpecFeature(c, i) ==
    LET starts == SubchunkIndex(Len(c), i)..(SubchunkIndex(Len(c), i + 1) - WINDOW_SIZE)
    IN IF starts = {} THEN 0 ELSE Max({WindowHash(c, p) : p \in starts})

SpecSF(c) == GroupSF([i \in 0..FEATURE_NUM - 1 |-> SpecFeature(c, i)])

-----------------------------------------------------------------------------
VARIABLES
    pc,           \* where each session is in the super-feature step
    paramBuf,     \* the storage of param_list: entries <<s, k>>
    paramSize,    \* param_list.size(); clear() keeps the storage
    testPthread,  \* test_pthread[]: the handles the sessions join
    worker,       \* each started thread: its slice and its cursor
    joinIdx,      \* next test_pthread slot the session joins
    sf,           \* inQueryEntry->superfeature of each chunk
    out           \* outQueryEntry->superfeature of each chunk

vars == <<pc, paramBuf, paramSize, testPthread, worker, joinIdx, sf, out>>

NoThread == <<>>

Init ==
    /\ pc = [s \in Sessions |-> "collect"]
    /\ paramBuf = <<>>
    /\ paramSize = 0
    /\ testPthread = [i \in Threads |-> NoThread]
    /\ worker = [t \in ThreadIds |-> [state |-> "none", next |-> 0, end |-> 0]]
    /\ joinIdx = [s \in Sessions |-> 0]
    /\ sf = [s \in Sessions |-> [k \in DOMAIN Chunks[s] |-> Stale]]
    /\ out = [s \in Sessions |-> [k \in DOMAIN Chunks[s] |-> Stale]]

\* the loop over the batch pushes one Param per unique chunk
Collect(s) ==
    LET n == Len(Chunks[s])
    IN /\ pc[s] = "collect"
       /\ paramBuf' = [i \in 1..Max({Len(paramBuf), paramSize + n}) |->
                         IF i > paramSize /\ i <= paramSize + n
                         THEN <<s, i - paramSize>> ELSE paramBuf[i]]
       /\ paramSize' = paramSize + n
       /\ pc' = [pc EXCEPT ![s] = "spawn"]
       /\ UNCHANGED <<testPthread, worker, joinIdx, sf, out>>

\* block_len = size / thread_num; the last thread also takes the rest
Spawn(s) ==
    LET blockLen == paramSize \div NumThreads
        slice(i) == [state |-> "run", next |-> blockLen * i,
                     end |-> IF i = NumThreads - 1 /\ paramSize % NumThreads # 0
                             THEN paramSize ELSE blockLen * (i + 1)]
    IN /\ pc[s] = "spawn"
       /\ worker' = [t \in ThreadIds |->
                       IF t[1] = s THEN slice(t[2]) ELSE worker[t]]
       /\ testPthread' = [i \in Threads |-> <<s, i>>]
       /\ pc' = [pc EXCEPT ![s] = "join"]
       /\ UNCHANGED <<paramBuf, paramSize, joinIdx, sf, out>>

\* GetSF_thread_func_f: param_list[i] for i in [begin, end); an index past
\* a size another session has cleared reads the entry still in storage
Work(t) ==
    /\ worker[t].state = "run"
    /\ IF worker[t].next < worker[t].end
       THEN LET e == paramBuf[worker[t].next + 1]
            IN /\ sf' = [sf EXCEPT ![e[1]][e[2]] = GetSF2(Chunks[e[1]][e[2]])]
               /\ worker' = [worker EXCEPT ![t].next = @ + 1]
       ELSE /\ worker' = [worker EXCEPT ![t].state = "done"]
            /\ UNCHANGED sf
    /\ UNCHANGED <<pc, paramBuf, paramSize, testPthread, joinIdx, out>>

\* pthread_join(test_pthread[i]) for i = 0..thread_num-1, whichever
\* session's thread the slot holds by then
Join(s) ==
    /\ pc[s] = "join"
    /\ worker[testPthread[joinIdx[s]]].state = "done"
    /\ joinIdx' = [joinIdx EXCEPT ![s] = @ + 1]
    /\ pc' = [pc EXCEPT ![s] = IF joinIdx[s] = NumThreads - 1 THEN "clear" ELSE "join"]
    /\ UNCHANGED <<paramBuf, paramSize, testPthread, worker, sf, out>>

Clear(s) ==
    /\ pc[s] = "clear"
    /\ paramSize' = 0
    /\ pc' = [pc EXCEPT ![s] = "copy"]
    /\ UNCHANGED <<paramBuf, testPthread, worker, joinIdx, sf, out>>

\* OutEntrySFGet copies each unique chunk's super-features outside
OutEntrySFGet(s) ==
    /\ pc[s] = "copy"
    /\ out' = [out EXCEPT ![s] = sf[s]]
    /\ pc' = [pc EXCEPT ![s] = "done"]
    /\ UNCHANGED <<paramBuf, paramSize, testPthread, worker, joinIdx, sf>>

Next ==
    \/ \E s \in Sessions :
          Collect(s) \/ Spawn(s) \/ Join(s) \/ Clear(s) \/ OutEntrySFGet(s)
    \/ \E t \in ThreadIds : Work(t)

Spec == Init /\ [][Next]_vars

-----------------------------------------------------------------------------
(* Properties                                                              *)

\* Spec 4.4 and 5: the workers' output per chunk is batch-local and all of
\* them are joined before delta selection, so every super-feature that
\* OutEntrySFGet hands out is the extractor's value for that chunk.
SFCopiedFresh ==
    \A s \in Sessions : pc[s] = "done" =>
        \A k \in DOMAIN Chunks[s] : out[s][k] = SpecSF(Chunks[s][k])

=============================================================================
