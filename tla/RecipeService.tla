--------------------------- MODULE RecipeService ---------------------------
(***************************************************************************)
(* What the upload pipeline promises a client session, whatever index     *)
(* variant (EcallFreqIndex, EcallMeGA) runs behind Ecall_ProcChunkBatch:    *)
(*                                                                         *)
(*  - the chunks of every uploaded batch enter the file recipe one by one, *)
(*    each exactly once and in the order they arrived;                     *)
(*  - the part of the recipe handed out by Ocall_UpdateFileRecipe is a     *)
(*    prefix of it that only grows;                                        *)
(*  - Ecall_ProcTailChunkBatch hands out the rest and closes the session;  *)
(*  - the outside fingerprint index only learns fingerprints that some     *)
(*    session has already put in its recipe.                               *)
(*                                                                         *)
(* The detailed modules FreqIndex and MeGAIndex implement this module      *)
(* under the mapping in their "Refinement" sections.                       *)
(***************************************************************************)
EXTENDS Naturals, Sequences, SequencesExt

CONSTANTS
    Sessions,   \* client sessions
    Fps,        \* chunk fingerprints
    BatchSize   \* bound: chunks per batch

VARIABLES
    pending,    \* chunks of the current batch not yet in the recipe
    recipe,     \* the session's file recipe, in arrival order
    sent,       \* length of the prefix of recipe handed out so far
    indexed,    \* fingerprints the outside index knows
    closed      \* the tail batch has been processed

avars == <<pending, recipe, sent, indexed, closed>>

Batches == {b \in BoundedSeq(Fps, BatchSize) : b # <<>>}

Init ==
    /\ pending = [s \in Sessions |-> <<>>]
    /\ recipe = [s \in Sessions |-> <<>>]
    /\ sent = [s \in Sessions |-> 0]
    /\ indexed = {}
    /\ closed = [s \in Sessions |-> FALSE]

\* Ecall_ProcChunkBatch receives a batch.
Upload(s) ==
    /\ ~closed[s] /\ pending[s] = <<>>
    /\ \E b \in Batches : pending' = [pending EXCEPT ![s] = b]
    /\ UNCHANGED <<recipe, sent, indexed, closed>>

\* UpdateFileRecipe appends the next chunk; a full buffer is handed out,
\* so the sent prefix may grow up to the new end of the recipe.
Record(s) ==
    /\ pending[s] # <<>>
    /\ pending' = [pending EXCEPT ![s] = Tail(@)]
    /\ recipe' = [recipe EXCEPT ![s] = Append(@, Head(pending[s]))]
    /\ \E n \in sent[s]..Len(recipe'[s]) : sent' = [sent EXCEPT ![s] = n]
    /\ UNCHANGED <<indexed, closed>>

\* UpdateIndexStore publishes fingerprints of the session's recipe.
Publish(s) ==
    /\ \E F \in SUBSET ToSet(recipe[s]) : indexed' = indexed \cup F
    /\ UNCHANGED <<pending, recipe, sent, closed>>

\* Ecall_ProcTailChunkBatch hands out the rest of the recipe.
Close(s) ==
    /\ ~closed[s] /\ pending[s] = <<>>
    /\ sent' = [sent EXCEPT ![s] = Len(recipe[s])]
    /\ closed' = [closed EXCEPT ![s] = TRUE]
    /\ UNCHANGED <<pending, recipe, indexed>>

Next == \E s \in Sessions : Upload(s) \/ Record(s) \/ Publish(s) \/ Close(s)

\* a batch that has been received is worked off
Fairness == \A s \in Sessions : WF_avars(Record(s))

SafetySpec == Init /\ [][Next]_avars

Spec == SafetySpec /\ Fairness

=============================================================================
