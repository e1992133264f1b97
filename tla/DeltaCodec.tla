----------------------------- MODULE DeltaCodec -----------------------------
(***************************************************************************)
(* The Edelta codec of the MeGA index (ecallMeGA.cc): EcallMeGA::          *)
(* EDeltaEncode as a state machine, one action per block of its main loop, *)
(* and EcallMeGA::EDeltaDecode as a recursive operator.                    *)
(*                                                                         *)
(* Buffers are sequences of cells.  A byte is a model value of Bytes; a    *)
(* copy header (DeltaUnit1) or literal header (DeltaUnit2) is a record in  *)
(* its first cell followed by Pad cells up to its sizeof; Junk is memory   *)
(* the writer does not own (past the end of newBuf, or never written).     *)
(* The header word packs a flag bit above the length exactly as set_flag / *)
(* set_length do, with the word narrowed to HeaderBits bits.               *)
(*                                                                         *)
(* chunk_gear, rolling_gear_v3, weakHash and htable are not part of the    *)
(* source tree: the content-defined chunker cuts after the first CutByte,  *)
(* the weak hash is the piece's length and byte set (so unequal pieces may *)
(* collide), and a lookup returns any record inserted under that hash.     *)
(***************************************************************************)
EXTENDS Naturals, Sequences, FiniteSets, FiniteSetsExt, SequencesExt, Bitwise

CONSTANTS
    Bytes,              \* the byte alphabet (model values)
    CutByte,            \* the byte after which chunk_gear cuts
    Junk, Pad, NULL, Undef,
    Targets, Bases,     \* the newBuf and baseBuf the encoder is called with
    MinRun,             \* the 16 of "begSize > 16" / "endSize > 16"
    WordSize,           \* the 8 of the uint64_t word comparisons
    SizeofDeltaUnit1, SizeofDeltaUnit2,
    HeaderBits,         \* width of the flag_length word
    BASE_BEGIN, BASE_EXPAND, BASE_STEP, INPUT_TRY,
    GarbageLen          \* bound on a length read from uninitialised InputLink

VARIABLES newBuf, baseBuf, pc, begSize, endSize, beg, end,
          deltaBuf, deltaLen, record1, record2, flag,
          cursor_base, cursor_input, inputPos, table,
          flag_chunk, flag_handle_probe, probe_match, InputLink,
          psDupSubCnk, length, step, chunk_number, probe

vars == <<newBuf, baseBuf, pc, begSize, endSize, beg, end, deltaBuf, deltaLen,
          record1, record2, flag, cursor_base, cursor_input, inputPos, table,
          flag_chunk, flag_handle_probe, probe_match, InputLink, psDupSubCnk,
          length, step, chunk_number, probe>>

newSize == Len(newBuf)
baseSize == Len(baseBuf)

\* buf[p], 0-based; memory past the buffer is not the caller's data.
At(buf, p) == IF 0 <= p /\ p < Len(buf) THEN buf[p + 1] ELSE Junk
Slice(buf, p, n) == [k \in 1..n |-> At(buf, p + k - 1)]
\* memcpy(buf + p, cells, Len(cells))
WriteAt(buf, p, cells) ==
    [i \in 1..Max({Len(buf), p + Len(cells)}) |->
        IF p < i /\ i <= p + Len(cells) THEN cells[i - p]
        ELSE IF i <= Len(buf) THEN buf[i] ELSE Junk]

(* flag=0 for a copy, 1 for a literal, in the top bit of flag_length *)
FlagBit == 2^(HeaderBits - 1)
LenMask == FlagBit - 1
set_flag(fl, f) == IF f = 0 THEN fl & LenMask ELSE fl | FlagBit
get_flag(fl) == fl & FlagBit
set_length(fl, len) == len | (fl & FlagBit)
get_length(fl) == fl & LenMask

Unit1(r) == <<[fl |-> r.fl, nOffset |-> r.nOffset]>> \o
            [k \in 1..SizeofDeltaUnit1 - 1 |-> Pad]
Unit2(fl) == <<[fl |-> fl]>> \o [k \in 1..SizeofDeltaUnit2 - 1 |-> Pad]
IsHeader(c) == c \notin Bytes \cup {Junk, Pad}

\* chunk_gear(buf + from, n): length of the next content-defined piece.
ChunkGear(buf, from, n) ==
    IF n <= 0 THEN 0
    ELSE LET cuts == {k \in 1..n : At(buf, from + k - 1) = CutByte}
         IN IF cuts = {} THEN n ELSE Min(cuts)
WeakHash(s) == <<Len(s), Range(s)>>
Lookup(t, h) == {r \in t : r.nHash = h}

\* Chunking_v3(baseBuf + c, len, n, BaseLink + numBase) after the
\* "nOffset += cursor_base" fix-up: n pieces, zero-length once exhausted.
RECURSIVE Chunking_v3(_, _, _)
Chunking_v3(c, len, n) ==
    IF n = 0 THEN <<>>
    ELSE LET l == ChunkGear(baseBuf, c, len)
         IN <<[nOffset |-> c, nLength |-> l,
               nHash |-> WeakHash(Slice(baseBuf, c, l))]>>
            \o Chunking_v3(c + l, len - l, n - 1)

\* The INPUT_TRY probe pieces chunked from cursor c of the input.
RECURSIVE ProbeLinks(_, _)
ProbeLinks(c, n) ==
    IF n = 0 THEN <<>>
    ELSE LET l == ChunkGear(newBuf, c, newSize - c - endSize)
         IN <<[nLength |-> l, nHash |-> WeakHash(Slice(newBuf, c, l))]>>
            \o ProbeLinks(c + l, n - 1)

(* Head and tail detection: 8-byte words first, then single bytes. *)
RECURSIVE HeadWords(_), HeadBytes(_), TailWords(_), TailBytes(_)
HeadWords(b) ==
    IF b + WordSize - 1 < baseSize /\ b + WordSize - 1 < newSize
       /\ Slice(baseBuf, b, WordSize) = Slice(newBuf, b, WordSize)
    THEN HeadWords(b + WordSize) ELSE b
HeadBytes(b) ==
    IF b < baseSize /\ b < newSize /\ At(baseBuf, b) = At(newBuf, b)
    THEN HeadBytes(b + 1) ELSE b
TailWords(e) ==
    IF e + WordSize - 1 < baseSize /\ e + WordSize - 1 < newSize
       /\ Slice(baseBuf, baseSize - e - WordSize, WordSize)
          = Slice(newBuf, newSize - e - WordSize, WordSize)
    THEN TailWords(e + WordSize) ELSE e
TailBytes(e) ==
    IF e < baseSize /\ e < newSize
       /\ At(baseBuf, baseSize - e - 1) = At(newBuf, newSize - e - 1)
    THEN TailBytes(e + 1) ELSE e

(* Greedy forward extension of a match, bounded by the stripped tail. *)
RECURSIVE FwdWords(_, _, _), FwdBytes(_, _, _)
FwdWords(bo, ci, j) ==
    IF bo + j + WordSize - 1 < baseSize - endSize
       /\ ci + j + WordSize - 1 < newSize - endSize
       /\ Slice(baseBuf, bo + j, WordSize) = Slice(newBuf, ci + j, WordSize)
    THEN FwdWords(bo, ci, j + WordSize) ELSE j
FwdBytes(bo, ci, j) ==
    IF bo + j < baseSize - endSize /\ ci + j < newSize - endSize
       /\ At(baseBuf, bo + j) = At(newBuf, ci + j)
    THEN FwdBytes(bo, ci, j + 1) ELSE j

(* Backward extension into the pending literal of length l. *)
RECURSIVE BackExtend(_, _, _, _)
BackExtend(o, ip, l, k) ==
    IF k + 1 <= o /\ k + 1 <= l /\ At(baseBuf, o - (k + 1)) = At(newBuf, ip - (k + 1))
    THEN BackExtend(o, ip, l, k + 1) ELSE k

(* Emitting a literal of len input bytes at inputPos: appended to the
   pending DeltaUnit2 when the last record is one (flag = 2), whose header
   is then only fixed up in memory later; otherwise a new DeltaUnit2. *)
Literal(len) ==
    IF flag = 2
    THEN [buf |-> WriteAt(deltaBuf, deltaLen, Slice(newBuf, inputPos, len)),
          dl |-> deltaLen + len,
          r2 |-> set_length(record2, get_length(record2) + len)]
    ELSE LET r2 == set_length(record2, len)
         IN [buf |-> WriteAt(deltaBuf, deltaLen,
                             Unit2(r2) \o Slice(newBuf, inputPos, len)),
             dl |-> deltaLen + SizeofDeltaUnit2 + len,
             r2 |-> r2]
\* Mutant: a new literal record that does not mark itself as pending.
EmitLiteralNoFlag(len) ==
    LET L == Literal(len)
    IN deltaBuf' = L.buf /\ deltaLen' = L.dl /\ record2' = L.r2 /\ flag' = flag
EmitLiteral(len) ==
    LET L == Literal(len)
    IN deltaBuf' = L.buf /\ deltaLen' = L.dl /\ record2' = L.r2 /\ flag' = 2

\* Mutant: the header fix-up forgets the header's own size.
PendingHeaderPosNoUnit == deltaLen - get_length(record2)

\* The position of the pending DeltaUnit2 header.
PendingHeaderPos == deltaLen - get_length(record2) - SizeofDeltaUnit2

-----------------------------------------------------------------------------
Init ==
    /\ newBuf \in Targets
    /\ baseBuf \in Bases
    /\ pc = "detect"
    /\ begSize = 0 /\ endSize = 0 /\ beg = FALSE /\ end = FALSE
    /\ deltaBuf = <<>> /\ deltaLen = 0
    /\ record1 = [fl |-> 0, nOffset |-> 0] /\ record2 = 0 /\ flag = 0
    /\ cursor_base = 0 /\ cursor_input = 0 /\ inputPos = 0
    /\ table = {}
    /\ flag_chunk = 1
    /\ flag_handle_probe = Undef /\ probe_match = Undef /\ InputLink = Undef
    /\ psDupSubCnk = NULL
    /\ length = 0 /\ step = 0 /\ chunk_number = 0 /\ probe = 0

\* Head/tail detection, the "> 16" gates and the clip of endSize.
DetectHeadTail ==
    /\ pc = "detect"
    /\ LET b0 == HeadBytes(HeadWords(0))
           bs == IF b0 > MinRun THEN b0 ELSE 0
           e0 == TailBytes(TailWords(0))
           e1 == IF bs + e0 > newSize THEN newSize - bs ELSE e0
           es == IF e1 > MinRun THEN e1 ELSE 0
       IN /\ begSize' = bs /\ beg' = (b0 > MinRun)
          /\ endSize' = es /\ end' = (e1 > MinRun)
          /\ pc' = IF bs + es >= baseSize THEN "degenerate" ELSE "general"
    /\ UNCHANGED <<newBuf, baseBuf, deltaBuf, deltaLen, record1, record2, flag,
                   cursor_base, cursor_input, inputPos, table, flag_chunk,
                   flag_handle_probe, probe_match, InputLink, psDupSubCnk,
                   length, step, chunk_number, probe>>

\* Head and tail cover the base: copy, literal middle, copy.
EncodeDegenerate ==
    /\ pc = "degenerate"
    /\ LET mid == newSize - begSize - endSize
           p1 == IF beg
                 THEN Unit1([fl |-> set_length(set_flag(record1.fl, 0), begSize),
                             nOffset |-> 0])
                 ELSE <<>>
           p2 == IF mid > 0
                 THEN Unit2(set_length(set_flag(record2, 1), mid))
                      \o Slice(newBuf, begSize, mid)
                 ELSE <<>>
           p3 == IF end
                 THEN Unit1([fl |-> set_length(set_flag(record1.fl, 0), endSize),
                             nOffset |-> baseSize - endSize])
                 ELSE <<>>
       IN /\ deltaBuf' = WriteAt(deltaBuf, 0, p1 \o p2 \o p3)
          /\ deltaLen' = Len(p1 \o p2 \o p3)
    /\ pc' = "done"
    /\ UNCHANGED <<newBuf, baseBuf, begSize, endSize, beg, end, record1,
                   record2, flag, cursor_base, cursor_input, inputPos, table,
                   flag_chunk, flag_handle_probe, probe_match, InputLink,
                   psDupSubCnk, length, step, chunk_number, probe>>

\* Set-up of the general path and the copy of the head.  flag_handle_probe,
\* probe_match and InputLink are declared without an initialiser.
StartGeneral ==
    /\ pc = "general"
    /\ LET r1 == [fl |-> IF beg THEN set_length(set_flag(0, 0), begSize)
                         ELSE set_flag(0, 0),
                  nOffset |-> 0]
       IN /\ record1' = r1
          /\ deltaBuf' = IF beg THEN WriteAt(deltaBuf, 0, Unit1(r1)) ELSE deltaBuf
          /\ deltaLen' = IF beg THEN SizeofDeltaUnit1 ELSE 0
          /\ flag' = IF beg THEN 1 ELSE 0
    /\ record2' = set_flag(0, 1)
    /\ cursor_base' = begSize /\ cursor_input' = begSize /\ inputPos' = begSize
    /\ flag_chunk' = 1
    /\ psDupSubCnk' = NULL
    /\ pc' = "loop"
    /\ UNCHANGED <<newBuf, baseBuf, begSize, endSize, beg, end, table,
                   flag_handle_probe, probe_match, InputLink, length, step,
                   chunk_number, probe>>

\* Round-local state the loop head does not touch.
RoundVars == <<table, flag_chunk, flag_handle_probe, probe_match, InputLink,
               psDupSubCnk, length, step, chunk_number, probe>>
Fixed == <<newBuf, baseBuf, begSize, endSize, beg, end>>
Output == <<deltaBuf, deltaLen, record1, record2, flag>>

\* Mutant: the loop leaves only once inputPos passes the tail.
LoopExitOffByOne ==
    /\ pc = "loop"
    /\ ~(inputPos <= newSize - endSize)
    /\ pc' = "finish"
    /\ UNCHANGED <<Fixed, Output, cursor_base, cursor_input, inputPos, RoundVars>>

\* while (inputPos < newSize - endSize) fails: leave the loop.
LoopExit ==
    /\ pc = "loop"
    /\ ~(inputPos < newSize - endSize)
    /\ pc' = "finish"
    /\ UNCHANGED <<Fixed, Output, cursor_base, cursor_input, inputPos, RoundVars>>

\* (cursor_input / newSize) + 0.5 >= (cursor_base / baseSize), cleared of
\* the divisions.
BaseBehind ==
    2 * cursor_input * baseSize + newSize * baseSize >= 2 * cursor_base * newSize

\* The base is not exhausted and lags the input: start a chunking round.
StartRound ==
    /\ pc = "loop"
    /\ inputPos < newSize - endSize
    /\ flag_chunk = 1 /\ BaseBehind
    /\ flag_handle_probe' = 1
    /\ probe_match' = INPUT_TRY
    /\ chunk_number' = BASE_BEGIN
    /\ step' = 0
    /\ pc' = "chunkBase"
    /\ UNCHANGED <<Fixed, Output, cursor_base, cursor_input, inputPos, table,
                   flag_chunk, InputLink, psDupSubCnk, length, probe>>

\* No chunking round in this iteration.
SkipRound ==
    /\ pc = "loop"
    /\ inputPos < newSize - endSize
    /\ ~(flag_chunk = 1 /\ BaseBehind)
    /\ pc' = "handleProbe"
    /\ UNCHANGED <<Fixed, Output, cursor_base, cursor_input, inputPos, RoundVars>>

\* One iteration i = step of the BASE_STEP loop: chunk chunk_number pieces
\* of the base and insert them until a zero-length one, then look the
\* probe pieces of the input up (chunking them first when i = 0, and only
\* up to the first hit); a hit or an exhausted base ends the round.
ChunkBaseStep ==
    /\ pc = "chunkBase"
    /\ LET pieces == Chunking_v3(cursor_base, baseSize - endSize - cursor_base,
                                 chunk_number)
           zeros == {j \in 1..chunk_number : pieces[j].nLength = 0}
           firstZero == IF zeros = {} THEN chunk_number + 1 ELSE Min(zeros)
           table2 == table \cup {pieces[j] : j \in 1..firstZero - 1}
           fc == IF zeros = {} THEN flag_chunk ELSE 0
           numBytes == FoldSeq(LAMBDA p, acc : p.nLength + acc, 0, pieces)
           fresh == ProbeLinks(cursor_input, INPUT_TRY)
           links == IF step = 0 THEN [j \in 0..INPUT_TRY - 1 |-> fresh[j + 1]]
                    ELSE InputLink
           found == {j \in 0..INPUT_TRY - 1 : Lookup(table2, links[j].nHash) # {}}
           hit == IF found = {} THEN INPUT_TRY ELSE Min(found)
       IN /\ table' = table2
          /\ flag_chunk' = fc
          /\ cursor_base' = cursor_base + numBytes
          /\ chunk_number' = chunk_number * BASE_EXPAND
          /\ InputLink' = IF step = 0
                          THEN [j \in 0..INPUT_TRY - 1 |->
                                  IF j <= hit THEN links[j]
                                  ELSE IF InputLink = Undef THEN Undef
                                  ELSE InputLink[j]]
                          ELSE InputLink
          /\ IF hit < INPUT_TRY
             THEN /\ probe_match' = hit
                  /\ psDupSubCnk' \in Lookup(table2, links[hit].nHash)
             ELSE /\ psDupSubCnk' = NULL
                  /\ UNCHANGED probe_match
          /\ step' = step + 1
          /\ pc' = IF hit < INPUT_TRY \/ fc = 0 \/ step + 1 = BASE_STEP
                   THEN "handleProbe" ELSE "chunkBase"
    /\ UNCHANGED <<Fixed, Output, cursor_input, inputPos, flag_handle_probe,
                   length, probe>>

\* if (flag_handle_probe) is false.
ProbeSkip ==
    /\ pc = "handleProbe"
    /\ flag_handle_probe = 0
    /\ pc' = "chunkInput"
    /\ UNCHANGED <<Fixed, Output, cursor_base, cursor_input, inputPos, RoundVars>>

\* if (flag_handle_probe) is true.
ProbeBegin ==
    /\ pc = "handleProbe"
    /\ flag_handle_probe = 1
    /\ probe' = 0
    /\ pc' = "probe"
    /\ UNCHANGED <<Fixed, Output, cursor_base, cursor_input, inputPos, table,
                   flag_chunk, flag_handle_probe, probe_match, InputLink,
                   psDupSubCnk, length, step, chunk_number>>

\* The first iteration skipped the round, so flag_handle_probe was never
\* assigned: the read yields whatever the stack holds.  Zero skips the
\* probe handling; anything else handles INPUT_TRY probes whose lengths and
\* probe_match are as uninitialised as the flag.
ProbeUndefined ==
    /\ pc = "handleProbe"
    /\ flag_handle_probe = Undef
    /\ \/ /\ pc' = "chunkInput"
          /\ UNCHANGED <<probe_match, InputLink, probe>>
       \/ /\ \E lens \in [0..INPUT_TRY - 1 -> 0..GarbageLen],
                pm \in 0..INPUT_TRY :
                /\ InputLink' = [j \in 0..INPUT_TRY - 1 |->
                                   [nLength |-> lens[j], nHash |-> Undef]]
                /\ probe_match' = pm
          /\ probe' = 0
          /\ pc' = "probe"
    /\ UNCHANGED <<Fixed, Output, cursor_base, cursor_input, inputPos, table,
                   flag_chunk, flag_handle_probe, psDupSubCnk, length, step,
                   chunk_number>>

\* Iteration i = probe of the probe-handling loop: the probe that hit goes
\* to the match check, the others become literal bytes.
ProbeStep ==
    /\ pc = "probe"
    /\ LET len == InputLink[probe].nLength
       IN /\ length' = len
          /\ cursor_input' = len + inputPos
          /\ IF probe = probe_match
             THEN /\ flag_handle_probe' = 0
                  /\ pc' = "match"
                  /\ UNCHANGED <<Output, inputPos, probe>>
             ELSE /\ EmitLiteral(len)
                  /\ inputPos' = len + inputPos
                  /\ IF probe + 1 = INPUT_TRY
                     THEN /\ flag_handle_probe' = 0
                          /\ pc' = "chunkInput"
                          /\ UNCHANGED probe
                     ELSE /\ probe' = probe + 1
                          /\ pc' = "probe"
                          /\ UNCHANGED flag_handle_probe
                  /\ UNCHANGED record1
    /\ UNCHANGED <<Fixed, cursor_base, table, flag_chunk, probe_match,
                   InputLink, psDupSubCnk, step, chunk_number>>

\* Chunk the next input piece and look its weak hash up.
NextPiece == ChunkGear(newBuf, inputPos, newSize - inputPos - endSize)

\* Mutant: the match candidate is the input piece's own record.
ChunkInputHitSelf ==
    /\ pc = "chunkInput"
    /\ LET len == NextPiece
           h == WeakHash(Slice(newBuf, inputPos, len))
       IN /\ Lookup(table, h) # {}
          /\ psDupSubCnk' = [nLength |-> len, nHash |-> h]
          /\ length' = len
          /\ cursor_input' = inputPos + len
    /\ pc' = "match"
    /\ UNCHANGED <<Fixed, Output, cursor_base, inputPos, table, flag_chunk,
                   flag_handle_probe, probe_match, InputLink, step,
                   chunk_number, probe>>

ChunkInputHit ==
    /\ pc = "chunkInput"
    /\ LET len == NextPiece
           hits == Lookup(table, WeakHash(Slice(newBuf, inputPos, len)))
       IN /\ hits # {}
          /\ psDupSubCnk' \in hits
          /\ length' = len
          /\ cursor_input' = inputPos + len
    /\ pc' = "match"
    /\ UNCHANGED <<Fixed, Output, cursor_base, inputPos, table, flag_chunk,
                   flag_handle_probe, probe_match, InputLink, step,
                   chunk_number, probe>>

\* A miss appends the piece to the literal run.
ChunkInputMiss ==
    /\ pc = "chunkInput"
    /\ LET len == NextPiece
       IN /\ Lookup(table, WeakHash(Slice(newBuf, inputPos, len))) = {}
          /\ psDupSubCnk' = NULL
          /\ length' = len
          /\ cursor_input' = inputPos + len
          /\ EmitLiteral(len)
          /\ inputPos' = inputPos + len
    /\ pc' = "loop"
    /\ UNCHANGED <<Fixed, record1, cursor_base, table, flag_chunk,
                   flag_handle_probe, probe_match, InputLink, step,
                   chunk_number, probe>>

\* length == psDupSubCnk->nLength && memcmp(...) == 0
Verified ==
    /\ length = psDupSubCnk.nLength
    /\ Slice(newBuf, inputPos, length) = Slice(baseBuf, psDupSubCnk.nOffset, length)

\* A verified match: fix up the pending literal header, extend forward,
\* extend backward into the pending literal (shrinking or dropping it), and
\* emit the copy record.
MatchVerified ==
    /\ pc = "match"
    /\ psDupSubCnk # NULL
    /\ Verified
    /\ LET o == psDupSubCnk.nOffset
           buf1 == IF flag = 2 THEN WriteAt(deltaBuf, PendingHeaderPos, Unit2(record2))
                   ELSE deltaBuf
           j == FwdBytes(o + length, cursor_input, FwdWords(o + length, cursor_input, 0))
           ci == cursor_input + j
           r1 == [fl |-> set_length(record1.fl, ci - inputPos), nOffset |-> o]
           k == IF flag = 2 THEN BackExtend(o, inputPos, get_length(record2), 0) ELSE 0
           r2 == IF k > 0 THEN set_length(record2, get_length(record2) - k) ELSE record2
           dl1 == IF k > 0 THEN PendingHeaderPos ELSE deltaLen
           keep == k > 0 /\ get_length(r2) > 0
           buf2 == IF keep THEN WriteAt(buf1, dl1, Unit2(r2)) ELSE buf1
           dl2 == IF keep THEN dl1 + SizeofDeltaUnit2 + get_length(r2) ELSE dl1
           r1k == IF k > 0
                  THEN [fl |-> set_length(r1.fl, get_length(r1.fl) + k), nOffset |-> o - k]
                  ELSE r1
       IN /\ deltaBuf' = WriteAt(buf2, dl2, Unit1(r1k))
          /\ deltaLen' = dl2 + SizeofDeltaUnit1
          /\ record1' = r1k
          /\ record2' = r2
          /\ cursor_input' = ci
          /\ inputPos' = ci
          /\ cursor_base' = IF o + length + j > cursor_base THEN o + length + j
                            ELSE cursor_base
    /\ flag' = 1
    /\ pc' = "loop"
    /\ UNCHANGED <<Fixed, RoundVars>>

\* handle_hash_error: the hash hit but the bytes differ.
MatchHashError ==
    /\ pc = "match"
    /\ psDupSubCnk # NULL
    /\ ~Verified
    /\ EmitLiteral(length)
    /\ inputPos' = cursor_input
    /\ pc' = "loop"
    /\ UNCHANGED <<Fixed, record1, cursor_base, cursor_input, RoundVars>>

\* goto match with psDupSubCnk still NULL: the dereference faults.
MatchNull ==
    /\ pc = "match"
    /\ psDupSubCnk = NULL
    /\ pc' = "fault"
    /\ UNCHANGED <<Fixed, Output, cursor_base, cursor_input, inputPos, RoundVars>>

\* After the loop: fix up a pending literal header, copy the tail, and
\* ResetTable.
FinishEncode ==
    /\ pc = "finish"
    /\ LET buf1 == IF flag = 2 THEN WriteAt(deltaBuf, PendingHeaderPos, Unit2(record2))
                   ELSE deltaBuf
           r1 == [fl |-> set_length(record1.fl, endSize), nOffset |-> baseSize - endSize]
       IN /\ deltaBuf' = IF end THEN WriteAt(buf1, deltaLen, Unit1(r1)) ELSE buf1
          /\ deltaLen' = IF end THEN deltaLen + SizeofDeltaUnit1 ELSE deltaLen
          /\ record1' = IF end THEN r1 ELSE record1
    /\ table' = {}
    /\ pc' = "done"
    /\ UNCHANGED <<Fixed, record2, flag, cursor_base, cursor_input, inputPos,
                   flag_chunk, flag_handle_probe, probe_match, InputLink,
                   psDupSubCnk, length, step, chunk_number, probe>>

Next ==
    \/ DetectHeadTail \/ EncodeDegenerate \/ StartGeneral
    \/ LoopExit \/ StartRound \/ SkipRound \/ ChunkBaseStep
    \/ ProbeSkip \/ ProbeBegin \/ ProbeUndefined \/ ProbeStep
    \/ ChunkInputHit \/ ChunkInputMiss
    \/ MatchVerified \/ MatchHashError \/ MatchNull
    \/ FinishEncode

\* EDeltaEncode is one sequential call: every enabled step is taken.
Spec == Init /\ [][Next]_vars /\ WF_vars(Next)

-----------------------------------------------------------------------------
(* EDeltaDecode: replay the records from readLength 0.  The loop is a
   do-while: one record is read before readLength is compared with
   deltaSize.  A cell that is not a header yields bytes nobody wrote. *)
RECURSIVE DecodeFrom(_, _, _, _, _)
DecodeFrom(d, size, base, rl, out) ==
    LET c == At(d, rl)
    IN IF ~IsHeader(c) THEN out \o <<Junk>>
       ELSE LET L == get_length(c.fl)
                isCopy == get_flag(c.fl) = 0
                o2 == out \o (IF isCopy THEN Slice(base, c.nOffset, L)
                              ELSE Slice(d, rl + SizeofDeltaUnit2, L))
                r2 == IF isCopy THEN rl + SizeofDeltaUnit1
                      ELSE rl + SizeofDeltaUnit2 + L
            IN IF r2 >= size THEN o2 ELSE DecodeFrom(d, size, base, r2, o2)

EDeltaDecode(d, size, base) == DecodeFrom(d, size, base, 0, <<>>)

\* The instruction kinds of a delta stream, in order.
RECURSIVE Kinds(_, _, _)
Kinds(d, size, rl) ==
    LET c == At(d, rl)
    IN IF ~IsHeader(c) THEN <<"bad">>
       ELSE LET isCopy == get_flag(c.fl) = 0
                r2 == IF isCopy THEN rl + SizeofDeltaUnit1
                      ELSE rl + SizeofDeltaUnit2 + get_length(c.fl)
            IN <<IF isCopy THEN "copy" ELSE "literal">>
               \o (IF r2 >= size THEN <<>> ELSE Kinds(d, size, r2))

-----------------------------------------------------------------------------
Cell == Bytes \cup {Junk, Pad} \cup [fl : Nat, nOffset : Nat] \cup [fl : Nat]

TypeOK ==
    /\ pc \in {"detect", "degenerate", "general", "loop", "chunkBase",
               "handleProbe", "probe", "chunkInput", "match", "finish",
               "done", "fault"}
    /\ deltaBuf \in Seq(Cell)
    /\ deltaLen \in Nat
    /\ flag \in {0, 1, 2}
    /\ record1 \in [fl : Nat, nOffset : Nat] /\ record2 \in Nat
    /\ {cursor_base, cursor_input, inputPos, begSize, endSize} \subseteq Nat
    /\ flag_handle_probe \in {0, 1, Undef}
    /\ psDupSubCnk \in {NULL} \cup [nOffset : Nat, nLength : Nat, nHash : Nat \X SUBSET Bytes]

\* Round trip (spec 8): EDeltaEncode returns, and EDeltaDecode of the
\* deltaBuf/deltaSize it produced against the same base gives back newBuf.
EncodeRoundTrip ==
    /\ pc # "fault"
    /\ pc = "done" => EDeltaDecode(deltaBuf, deltaLen, baseBuf) = newBuf

\* Coalescing (spec 4.7): consecutive unmatched pieces of the input, from
\* probes, misses and hash errors alike, extend the pending DeltaUnit2
\* instead of starting a new one, so no two literal records are adjacent
\* in the finished stream.
LiteralsCoalesced ==
    pc = "done" /\ deltaLen > 0 =>
        LET ks == Kinds(deltaBuf, deltaLen, 0)
        IN \A i \in 1..Len(ks) - 1 : ~(ks[i] = "literal" /\ ks[i + 1] = "literal")

\* EDeltaEncode always returns (or faults): every loop iteration consumes
\* input and the chunking rounds stop when the base is exhausted.
Termination == <>(pc \in {"done", "fault"})
====
