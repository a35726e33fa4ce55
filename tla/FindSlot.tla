------------------------------ MODULE FindSlot ------------------------------
(***************************************************************************)
(* The search loop of llama_kv_cache::find_slot (llama-kv-cache.cpp) for   *)
(* one stream, with its uint32_t arithmetic.  find_slot is const, so the   *)
(* set of usable cells does not change while it runs.  The search covers   *)
(* the first csize cells: all of them, or with kv-tail those that the      *)
(* expert pool can hold just now (kv_tail_cap, external).                  *)
(***************************************************************************)
EXTENDS KVCells

CONSTANTS
    U32,            \* 2^32; any power of two well above NCells behaves the same
    KvTail,         \* kv_tail_on
    HeadBeyondCap   \* the cap may have fallen below the head

ASSUME FindSlotAssumption ==
    /\ U32 \in Nat /\ U32 > 4 * NCells
    /\ KvTail \in BOOLEAN /\ HeadBeyondCap \in BOOLEAN

VARIABLES
    usable,     \* the cells that can take a token
    csize,
    start,      \* head_cur when the loop is entered
    zone,       \* kv-tail: the cells below zone are covered by the pool
    n_tokens,
    cont,       \* the slot must be contiguous
    head_cur,
    n_tested,
    idxs,
    pc          \* "begin", "loop", or how the search ended

vars == <<usable, csize, start, zone, n_tokens, cont, head_cur, n_tested, idxs, pc>>

input == <<usable, csize, start, zone, n_tokens, cont>>

Init ==
    /\ usable \in SUBSET Cells
    /\ csize \in (IF KvTail THEN 0 .. NCells ELSE {NCells})
    /\ zone \in (IF KvTail THEN 0 .. NCells ELSE {NCells})
    /\ start \in 0 .. NCells
    /\ HeadBeyondCap \/ start <= csize
    /\ n_tokens \in 1 .. NCells
    /\ cont \in BOOLEAN
    /\ head_cur = start /\ n_tested = 0 /\ idxs = <<>>
    /\ pc = "begin"

n_test == IF cont THEN n_tokens ELSE 1

\* n_tokens > csize: an empty result at once.
Begin ==
    /\ pc = "begin"
    /\ pc' = IF n_tokens > csize THEN "none" ELSE "loop"
    /\ UNCHANGED <<input, head_cur, n_tested, idxs>>

\* Mutant: the whole cache counts as tested, not the rest of it.
Bug_Wrap ==
    /\ pc = "loop"
    /\ head_cur + n_test > csize
    /\ n_tested' = (n_tested + csize) % U32
    /\ head_cur' = 0
    /\ UNCHANGED <<input, idxs, pc>>

\* No room for n_test cells before the end: back to cell 0.  The difference
\* is unsigned.
Wrap ==
    /\ pc = "loop"
    /\ head_cur + n_test > csize
    /\ n_tested' = (n_tested + csize - head_cur) % U32
    /\ head_cur' = 0
    /\ UNCHANGED <<input, idxs, pc>>

\* The cells the inner loop looks at: one, or for a contiguous slot those up to
\* the first that is not usable.
Looked ==
    Min({k \in 1 .. n_test : cont /\ head_cur + k - 1 \notin usable} \cup {n_test})

\* The usable ones among them, all but a last one that is not, behind those found
\* before.
Found ==
    LET n == IF head_cur + Looked - 1 \in usable THEN Looked ELSE Looked - 1
    IN  idxs \o [k \in 1 .. n |-> head_cur + k - 1]

\* kv-tail: a slot that the pool's zone does not cover is refused at the end.
Verdict(found) ==
    IF KvTail /\ Max(Range(found)) >= zone THEN "refused" ELSE "found"

\* Mutants: the cells looked at are not counted; a failed contiguous try leaves
\* its cells behind.
Bug_TestUncounted ==
    /\ pc = "loop"
    /\ head_cur + n_test <= csize
    /\ head_cur' = head_cur + Looked
    /\ n_tested' = n_tested
    /\ idxs' = IF cont /\ Len(Found) # n_tokens THEN <<>> ELSE Found
    /\ pc' = IF Len(Found) = n_tokens THEN Verdict(Found)
             ELSE IF n_tested' >= csize THEN "none" ELSE "loop"
    /\ UNCHANGED input

\* One round of the outer loop that looks at cells.
Test ==
    /\ pc = "loop"
    /\ head_cur + n_test <= csize
    /\ head_cur' = head_cur + Looked
    /\ n_tested' = (n_tested + Looked) % U32
    /\ idxs' = IF cont /\ Len(Found) # n_tokens THEN <<>> ELSE Found
    /\ pc' = IF Len(Found) = n_tokens THEN Verdict(Found)
             ELSE IF n_tested' >= csize THEN "none" ELSE "loop"
    /\ UNCHANGED input

Next == Begin \/ Wrap \/ Test

\* The loop runs to its end: nothing in it waits.
Spec == Init /\ [][Next]_vars /\ WF_vars(Next)

-----------------------------------------------------------------------------
(* The reference: which slots there are. *)

InReach == {i \in usable : i < csize}

\* The contiguous slots.
Runs == {h \in 0 .. (csize - n_tokens) : h .. (h + n_tokens - 1) \subseteq usable}

\* What find_slot returns is what KVCache takes it to return: the first usable
\* cells in the order of the search, none of them twice; or with cont a run of
\* usable cells.
SlotFound ==
    pc \in {"found", "refused"} =>
      /\ Len(idxs) = n_tokens
      /\ IF cont THEN \E h \in Runs : idxs = [k \in 1 .. n_tokens |-> h + k - 1]
                 ELSE IsSlot(InReach, start, idxs)

\* "return empty slot_info on failure" (llama-kv-cache.h:226): the search gives
\* up only when there is no slot, wherever it starts.  The head "is not part
\* of the KV state and it's only used to speed-up the find_slot() method"
\* (llama-kv-cache.h:321).
NoSlotMissed ==
    pc = "none" => IF cont THEN Runs = {} ELSE Cardinality(InReach) < n_tokens

\* The search is exact: the slot it finds is the one KVCache means, and it misses none.
SearchExact == SlotFound /\ NoSlotMissed

\* The search ends: the loop has no bound of its own and counts on n_tested.
Ends == <>(pc \in {"none", "found", "refused"})
=============================================================================
