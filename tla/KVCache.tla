------------------------------ MODULE KVCache ------------------------------
(***************************************************************************)
(* llama_kv_cache (src/src/llama-kv-cache.cpp) as llama_context::decode    *)
(* and the llama_memory_* / llama_state_seq_* calls drive it.  The cache   *)
(* is single threaded: between two calls "phase" is "idle", and a decode   *)
(* call runs                                                               *)
(*                                                                         *)
(*   idle -> prepare -> restore -> decode -> idle                          *)
(*                                                                         *)
(* with no other call in between.  "prepare" and "restore" are the two     *)
(* loops of prepare(), one step per ubatch; "decode" is the loop over the  *)
(* ubatches in llama_context::decode.                                      *)
(*                                                                         *)
(* kv[t][i] is what the K/V buffers of stream t hold for cell i: the token *)
(* whose K and V were written there and the position its K is rotated to.  *)
(***************************************************************************)
EXTENDS KVCells

CONSTANTS
    NStream,      \* 1 (unified cache) or NSeqs (one stream per sequence)
    NSwa,         \* n_swa
    SwaType,      \* "none", "standard", "chunked" or "symmetric"
    NUbatch,      \* n_ubatch: tokens of one ubatch
    MaxPos,       \* bound: largest position the clients reach
    MaxBatch,     \* bound: tokens of one batch
    MaxShift,     \* bound: shift of one cell before a decode
    MaxCopies,    \* bound: stream copies queued before a decode
    Calls,        \* the calls clients make between two decode calls
    Shifts,       \* the shifts they pass to seq_add
    Divs,         \* the divisors they pass to seq_div
    SharedTokens, \* they put one token in several sequences
    EditMiddle,   \* they remove or move ranges that are not a suffix
    StateIoAny,   \* they save or restore with an update still queued
    KShiftFails,  \* the K-shift graph may fail
    Failures      \* how the computation of a ubatch may fail

ASSUME CacheAssumption ==
    /\ NStream \in {1, NSeqs}
    /\ NSwa \in Nat /\ NUbatch \in Nat \ {0}
    /\ SwaType \in {"none", "standard", "chunked", "symmetric"}
    /\ SwaType # "none" => NSwa > 0
    /\ MaxPos \in Nat /\ MaxBatch \in Nat /\ MaxCopies \in Nat /\ MaxShift \in Nat
    /\ Calls \subseteq {"clear", "rm", "rm_any", "cp", "keep", "add", "div", "state"}
    /\ Shifts \subseteq Int /\ Divs \subseteq Nat \ {0}
    /\ SharedTokens \in BOOLEAN /\ EditMiddle \in BOOLEAN /\ StateIoAny \in BOOLEAN
    /\ KShiftFails \in BOOLEAN /\ Failures \subseteq {"fatal", "refused", "oom"}

VARIABLES
    v_cells,      \* stream -> cells object
    v_heads,      \* stream -> where the next search starts
    sc_info,      \* queued stream copies <<src, dst>>
    kv,           \* stream -> cell -> K/V content
    phase,
    ubatches,     \* the ubatches of the running decode call
    sinfos,       \* the slots prepare() has found for them
    states,       \* prepare()'s recovery stack
    done,         \* ubatches computed so far
    did_optimize, \* the decode call has retried once
    saved,        \* the last sequence state written by state_write
    before        \* what v_cells was when prepare() was entered

vars == <<v_cells, v_heads, sc_info, kv, phase, ubatches, sinfos, states, done,
          did_optimize, saved, before>>

call == <<phase, ubatches, sinfos, states, done, did_optimize, before>>

Streams == 0 .. (NStream - 1)
seq_to_stream(s) == IF NStream = 1 THEN 0 ELSE s

\* K/V content that no token wrote, or that a failed computation left behind.
Garbage == [tok |-> NoTok, rope |-> -1]
Content == [tok : Tokens \cup {NoTok}, rope : Int]
Token   == [pos : Nat, tok : Tokens \cup {NoTok}, seqs : (SUBSET Seqs) \ {{}}]

lo(p0) == IF p0 < 0 THEN 0 ELSE p0

\* The cells whose position is in [p0, p1); a negative p1 stands for
\* numeric_limits<llama_pos>::max(), above every position.
InRange(c, p0, p1) ==
    {i \in Cells : IF p1 < 0 THEN c.pos[i] >= lo(p0) ELSE pos_in(c, i, lo(p0), p1)}
With(c, s) == {i \in Cells : s \in c.seq[i]}

\* "If we freed up a slot, set head to it so searching can start there."
HeadAfter(head, freed) ==
    IF freed # {} /\ Min(freed) < head THEN Min(freed) ELSE head

Freed(c, d) == {i \in Cells : ~is_empty(c, i) /\ is_empty(d, i)}

-----------------------------------------------------------------------------
(* Sliding window (llama_hparams::is_masked_swa). *)

is_masked_swa(p0, p1) ==
    CASE SwaType = "none"      -> FALSE
      [] SwaType = "standard"  -> p1 - p0 >= NSwa
      [] SwaType = "chunked"   -> p0 < (p1 \div NSwa) * NSwa
      [] SwaType = "symmetric" -> \/ p1 - p0 < -(NSwa \div 2)
                                  \/ p1 - p0 > NSwa \div 2

-----------------------------------------------------------------------------
(* find_slot(ubatch, cont = false): what its loop, module FindSlot, returns *)
(* when the whole cache may be searched.                                   *)

\* Mutant: the window of the token after next.
Bug_can_use(c, i) ==
    \/ is_empty(c, i)
    \/ /\ Cardinality(c.seq[i]) = 1
       /\ is_masked_swa(c.pos[i], seq_pos_max(c, seq_get(c, i)) + 2)

\* Can the cell take a new token: it is empty, or its only sequence can no
\* longer attend to it.
can_use(c, i) ==
    \/ is_empty(c, i)
    \/ /\ Cardinality(c.seq[i]) = 1
       /\ is_masked_swa(c.pos[i], seq_pos_max(c, seq_get(c, i)) + 1)

Usable(c) == {i \in Cells : can_use(c, i)}

\* Where the search starts.
head_cur(c, head, n) == IF head > Cardinality(c.used) + 2 * n THEN 0 ELSE head

\* The slots of n tokens: one, or none when too few cells are usable.
SlotsIn(c, head, n) ==
    LET h == head_cur(c, head, n)
    IN  {idxs \in [1 .. n -> Cells] : IsSlot(Usable(c), h, idxs)}

\* A ubatch maps each of its streams to its tokens; a slot_info maps the same
\* streams to cell indices.  No slot_info: an empty result.
find_slot(ub) ==
    LET slots == [t \in DOMAIN ub |-> SlotsIn(v_cells[t], v_heads[t], Len(ub[t]))]
    IN  {si \in [DOMAIN ub -> UNION Range(slots)] :
           \A t \in DOMAIN ub : si[t] \in slots[t]}

-----------------------------------------------------------------------------
(* apply_ubatch *)

\* The token that idxs puts in each of its cells.
At(idxs, toks) ==
    [i \in Range(idxs) |-> toks[CHOOSE k \in DOMAIN idxs : idxs[k] = i]]

\* Mutant: one seq_pos_max_rm for all sequences.
Bug_Overwritten(c, I, s) == {c.pos[i] : i \in I}

\* The positions of s that the slot overwrites; seq_pos_max_rm[s] is the
\* largest.
Overwritten(c, I, s) == {c.pos[i] : i \in {j \in I : s \in c.seq[j]}}

\* Mutant: no purge.
Bug_ApplyCells(c, idxs, toks) ==
    place(rm(c, {i \in Range(idxs) : ~is_empty(c, i)}), At(idxs, toks))

\* The cells of one stream after the tokens are placed: overwritten cells are
\* removed, the tokens placed, and every position of a sequence up to the
\* largest one overwritten is purged.
ApplyCells(c, idxs, toks) ==
    LET I == {i \in Range(idxs) : ~is_empty(c, i)}
        d == place(rm(c, I), At(idxs, toks))
        R == {r \in Cells \X Seqs :
                /\ r[2] \in d.seq[r[1]]
                /\ \E p \in Overwritten(c, I, r[2]) : d.pos[r[1]] <= p}
    IN  seq_rm(d, R)

\* Mutant: the head one cell further than the end of the slot.
Bug_ApplyHead(idxs, toks) == idxs[Len(toks)] + 2

ApplyHead(idxs, toks) == idxs[Len(toks)] + 1

apply_cells(si, ub) ==
    [t \in Streams |-> IF t \in DOMAIN si THEN ApplyCells(v_cells[t], si[t], ub[t])
                                          ELSE v_cells[t]]
apply_heads(si, ub) ==
    [t \in Streams |-> IF t \in DOMAIN si THEN ApplyHead(si[t], ub[t])
                                          ELSE v_heads[t]]

-----------------------------------------------------------------------------
(* Calls that edit the cache, made between two decode calls. *)

\* No decode call is running, and clients make this call.
Idle(c) == phase = "idle" /\ c \in Calls

\* The pairs that seq_rm(s, p0, p1) visits in the cells c.
SeqRange(c, s, p0, p1) == (InRange(c, p0, p1) \cap With(c, s)) \X {s}

clear(data) ==
    /\ Idle("clear")
    /\ v_cells' = [t \in Streams |-> reset]
    /\ v_heads' = [t \in Streams |-> 0]
    /\ kv' = IF data THEN [t \in Streams |-> [i \in Cells |-> Garbage]] ELSE kv
    /\ UNCHANGED <<sc_info, call, saved>>

SeqRm(s, p0, p1) ==
    LET t == seq_to_stream(s)
        d == seq_rm(v_cells[t], SeqRange(v_cells[t], s, p0, p1))
    IN  /\ Idle("rm")
        /\ EditMiddle \/ p1 < 0
        /\ v_cells' = [v_cells EXCEPT ![t] = d]
        /\ v_heads' = [v_heads EXCEPT ![t] = HeadAfter(@, Freed(v_cells[t], d))]
        /\ UNCHANGED <<sc_info, kv, call, saved>>

\* seq_id == -1: match any sequence.
SeqRmAny(p0, p1) ==
    LET d == [t \in Streams |-> rm(v_cells[t], InRange(v_cells[t], p0, p1))]
    IN  /\ Idle("rm_any")
        /\ EditMiddle \/ p1 < 0
        /\ v_cells' = d
        /\ v_heads' = [t \in Streams |-> HeadAfter(v_heads[t], Freed(v_cells[t], d[t]))]
        /\ UNCHANGED <<sc_info, kv, call, saved>>

\* seq_cp within one stream: the cells are shared, no data moves.
SeqCp(src, dst, p0, p1) ==
    LET t == seq_to_stream(src)
    IN  /\ Idle("cp")
        /\ src # dst /\ t = seq_to_stream(dst)
        /\ EditMiddle \/ (lo(p0) = 0 /\ p1 < 0 /\ With(v_cells[t], dst) = {})
        /\ v_cells' = [v_cells EXCEPT ![t] =
                         seq_add(@, InRange(@, p0, p1) \cap With(@, src), dst)]
        /\ UNCHANGED <<v_heads, sc_info, kv, call, saved>>

\* Mutant: the shift that is still queued is not taken along.
Bug_CopyCells(c, src, dst) ==
    place(reset, [i \in With(c, src) |->
                    [pos |-> c.pos[i], tok |-> c.tok[i], seqs |-> {dst}]])

\* Mutant: the copied cells keep their sequence ids.
Bug_CopyCellsIds(c, src, dst) ==
    place(reset, [i \in With(c, src) |->
                    [pos |-> c.pos[i], tok |-> c.tok[i], seqs |-> c.seq[i]]])

\* The cells of a stream copy.  The code places each cell at its position
\* without the queued shift and then shifts it, so that the shift is queued in
\* the new stream too.
CopyCells(c, src, dst) ==
    LET I == With(c, src)
    IN  [place(reset, [i \in I |-> [pos |-> c.pos[i], tok |-> c.tok[i], seqs |-> {dst}]])
           EXCEPT !.shift = [i \in Cells |-> IF i \in I THEN c.shift[i] ELSE 0],
                  !.has_shift = \E i \in I : c.shift[i] # 0]

\* seq_cp across streams, full range only: the buffer copy is queued.
SeqCpStream(src, dst) ==
    LET t == seq_to_stream(src)
        u == seq_to_stream(dst)
    IN  /\ Idle("cp")
        /\ t # u
        /\ Len(sc_info) < MaxCopies
        /\ sc_info' = Append(sc_info, <<t, u>>)
        /\ v_cells' = [v_cells EXCEPT ![u] = CopyCells(v_cells[t], src, dst)]
        /\ v_heads' = [v_heads EXCEPT ![u] = v_heads[t]]
        /\ UNCHANGED <<kv, call, saved>>

SeqKeep(s) ==
    LET t == seq_to_stream(s)
        d == seq_keep(v_cells[t], s)
    IN  /\ Idle("keep")
        /\ v_cells' = [v_cells EXCEPT ![t] = d]
        /\ v_heads' = [v_heads EXCEPT ![t] = HeadAfter(@, Freed(v_cells[t], d))]
        /\ UNCHANGED <<sc_info, kv, call, saved>>

\* Bound on what clients do before the next decode call.
ShiftsBounded(c) == \A i \in Cells : c.pos[i] <= MaxPos /\ c.shift[i] \in -MaxShift .. MaxShift

\* seq_add: head goes to the first cell freed, or to the start of the cache.
SeqAdd(s, p0, p1, shift) ==
    LET t == seq_to_stream(s)
        I == InRange(v_cells[t], p0, p1) \cap With(v_cells[t], s)
        d == pos_add(v_cells[t], I, shift)
        f == Freed(v_cells[t], d)
    IN  /\ Idle("add")
        /\ shift # 0 /\ lo(p0) # p1
        /\ EditMiddle \/ (lo(p0) = 0 /\ p1 < 0)
        /\ ShiftsBounded(d)
        /\ v_cells' = [v_cells EXCEPT ![t] = d]
        /\ v_heads' = [v_heads EXCEPT ![t] = IF f # {} THEN Min(f) ELSE 0]
        /\ UNCHANGED <<sc_info, kv, call, saved>>

SeqDiv(s, p0, p1, d) ==
    LET t == seq_to_stream(s)
        e == pos_div(v_cells[t], InRange(v_cells[t], p0, p1) \cap With(v_cells[t], s), d)
    IN  /\ Idle("div")
        /\ d # 1 /\ lo(p0) # p1
        /\ EditMiddle \/ (lo(p0) = 0 /\ p1 < 0)
        /\ ShiftsBounded(e)
        /\ v_cells' = [v_cells EXCEPT ![t] = e]
        /\ UNCHANGED <<v_heads, sc_info, kv, call, saved>>

-----------------------------------------------------------------------------
(* The queued updates: stream copies and K-shift (init_update, update). *)

get_has_shift == \E t \in Streams : v_cells[t].has_shift
UpdatePending == get_has_shift \/ sc_info # <<>>

\* h[k][t] is the stream whose data stream t holds after the first k of the
\* copies in q.
CopyHistories(q) ==
    {h \in [0 .. Len(q) -> [Streams -> Streams]] :
        /\ h[0] = [t \in Streams |-> t]
        /\ \A k \in 1 .. Len(q) : h[k] = [h[k - 1] EXCEPT ![q[k][2]] = h[k - 1][q[k][1]]]}

\* The buffers once the queued copies are done, in the order of the queue.
AfterCopies ==
    LET h == CHOOSE g \in CopyHistories(sc_info) : TRUE
    IN  [t \in Streams |-> kv[h[Len(sc_info)][t]]]

\* build_graph_shift: the K of every cell that is not empty is rotated by its
\* shift (set_input_k_shift).
Rotated(b) ==
    [t \in Streams |-> [i \in Cells |->
        IF is_empty(v_cells[t], i) THEN b[t][i]
        ELSE [b[t][i] EXCEPT !.rope = @ + v_cells[t].shift[i]]]]

\* memory_update: ok says whether the K-shift graph could be allocated.  When
\* it could not, the error is logged, the shifts stay queued and the decode
\* call goes on; the copies are done and forgotten either way.
memory_update(ok) ==
    /\ ok \/ (KShiftFails /\ get_has_shift)
    /\ sc_info' = <<>>
    /\ kv' = IF ok /\ get_has_shift THEN Rotated(AfterCopies) ELSE AfterCopies
    /\ v_cells' = IF ok /\ get_has_shift
                  THEN [t \in Streams |-> reset_shift(v_cells[t])] ELSE v_cells

-----------------------------------------------------------------------------
(* The batch of a decode call and its ubatches (llama_batch_allocr). *)

\* The position of the n-th token of sequence s: positions go on from the
\* largest one in the cache.
NextPos(s) == seq_pos_max(v_cells[seq_to_stream(s)], s) + 1

\* n_stream == 1: a batch is a sequence b of the sequence sets of its tokens;
\* split_simple cuts it in ubatches of n_ubatch tokens.
Before(b, k, s) == Cardinality({j \in 1 .. (k - 1) : s \in b[j]})

\* Positions are consecutive, and sequences that share a token have the same
\* first and last position in the cache.
Admissible(b) ==
    \A k \in DOMAIN b : \A s, u \in b[k] :
        /\ NextPos(s) + Before(b, k, s) = NextPos(u) + Before(b, k, u)
        /\ seq_pos_max(v_cells[0], s) = seq_pos_max(v_cells[0], u)
        /\ seq_pos_min(v_cells[0], s) = seq_pos_min(v_cells[0], u)
        /\ NextPos(s) + Before(b, k, s) <= MaxPos

BatchTokens(b, tok) ==
    [k \in DOMAIN b |-> [pos |-> NextPos(Min(b[k])) + Before(b, k, Min(b[k])),
                         tok |-> tok, seqs |-> b[k]]]

split_simple(b, tok) ==
    LET toks == BatchTokens(b, tok)
    IN  [k \in 1 .. ((Len(b) + NUbatch - 1) \div NUbatch) |->
           [t \in Streams |-> SubSeq(toks, (k - 1) * NUbatch + 1,
                                     Min({k * NUbatch, Len(b)}))]]

\* n_stream > 1: a batch gives each sequence a number n[s] of tokens;
\* split_equal takes, from the first sequence with tokens left, the run of
\* consecutive sequences that have tokens left, and as many tokens of each as
\* all of them have and n_ubatch allows (at least one).
First(n) == Min({s \in DOMAIN n : n[s] > 0})
EqualRun(n) ==
    {s \in DOMAIN n : s >= First(n) /\ s <= First(n) + NUbatch
                      /\ \A u \in First(n) .. s : n[u] > 0}
EqualRows(n) ==
    Min({n[s] : s \in EqualRun(n)}
        \cup {Max({1, NUbatch \div Cardinality(EqualRun(n))})})

\* What is left after k ubatches.
Left(n) ==
    LET f[k \in 0 .. MaxBatch] ==
          IF k = 0 THEN n
          ELSE IF \A s \in DOMAIN n : f[k - 1][s] = 0 THEN f[k - 1]
          ELSE [s \in DOMAIN n |-> IF s \in EqualRun(f[k - 1])
                                   THEN f[k - 1][s] - EqualRows(f[k - 1])
                                   ELSE f[k - 1][s]]
    IN  f

split_equal(n, tok) ==
    LET left == Left(n)
    IN  [k \in {j \in 1 .. MaxBatch : \E s \in DOMAIN n : left[j - 1][s] > 0} |->
          [t \in EqualRun(left[k - 1]) |->
            [j \in 1 .. EqualRows(left[k - 1]) |->
               [pos |-> NextPos(t) + n[t] - left[k - 1][t] + j - 1,
                tok |-> tok, seqs |-> {t}]]]]

\* The batches clients submit.
UnifiedBatches ==
    {b \in UNION {[1 .. n -> (SUBSET Seqs) \ {{}}] : n \in 1 .. MaxBatch} :
        /\ Admissible(b)
        /\ SharedTokens \/ \A k \in DOMAIN b : Cardinality(b[k]) = 1}

StreamBatches ==
    {n \in [Seqs -> 0 .. MaxBatch] :
        /\ SumFunction(n) \in 1 .. MaxBatch
        /\ \A s \in Seqs : n[s] > 0 => NextPos(s) + n[s] - 1 <= MaxPos}

Splits(tok) == IF NStream = 1 THEN {split_simple(b, tok) : b \in UnifiedBatches}
                              ELSE {split_equal(n, tok) : n \in StreamBatches}

-----------------------------------------------------------------------------
(* A decode call. *)

\* A ubatch maps each of its streams to its tokens; find_slot asserts that
\* every one of them belongs to the stream's sequence, and init_batch stops at
\* a ubatch without tokens.
UbatchOK(ub) ==
    /\ \E T \in SUBSET Streams : ub \in [T -> Seq(Token)]
    /\ \A t \in DOMAIN ub : ub[t] # <<>>
    /\ \A t \in DOMAIN ub : \A k \in DOMAIN ub[t] : \A s \in ub[t][k].seqs : seq_to_stream(s) = t

\* decode rejects an empty batch.
UbatchesOK(ubs) ==
    /\ ubs \in Seq(Range(ubs)) /\ ubs # <<>>
    /\ \A k \in DOMAIN ubs : UbatchOK(ubs[k])

\* decode, up to and including the first memory_update.
DecodeBegin(ubs, ok) ==
    /\ phase = "idle"
    /\ UbatchesOK(ubs)
    /\ memory_update(ok)
    /\ phase' = "prepare"
    /\ ubatches' = ubs
    /\ did_optimize' = FALSE
    /\ before' = v_cells'
    /\ UNCHANGED <<v_heads, sinfos, states, done, saved>>

\* One round of prepare()'s first loop: find a slot for the next ubatch, keep
\* the rows it covers, place the ubatch.
PrepareUbatch ==
    LET ub == ubatches[Len(sinfos) + 1]
    IN  /\ phase = "prepare"
        /\ Len(sinfos) < Len(ubatches)
        /\ \E si \in find_slot(ub) :
             /\ sinfos' = Append(sinfos, si)
             /\ states' = Append(states,
                  [heads |-> v_heads,
                   rows  |-> [t \in DOMAIN si |-> cp(v_cells[t], Range(si[t]))]])
             /\ v_cells' = apply_cells(si, ub)
             /\ v_heads' = apply_heads(si, ub)
        /\ UNCHANGED <<sc_info, kv, phase, ubatches, done, did_optimize, saved, before>>

\* The first loop ends: every ubatch has a slot, or the next one has none.
PrepareEnd ==
    /\ phase = "prepare"
    /\ Len(sinfos) < Len(ubatches) => find_slot(ubatches[Len(sinfos) + 1]) = {}
    /\ phase' = "restore"
    /\ UNCHANGED <<v_cells, v_heads, sc_info, kv, ubatches, sinfos, states, done,
                   did_optimize, saved, before>>

\* One round of prepare()'s second loop.  The heads are restored from
\* v_heads_old[s] where s counts the streams of the slot from 0.
RestoreUbatch ==
    LET st == Last(states)
        T  == DOMAIN st.rows
        nth(t) == Cardinality({u \in T : u < t})
    IN  /\ phase = "restore"
        /\ states # <<>>
        /\ states' = Front(states)
        /\ v_cells' = [t \in Streams |-> IF t \in T THEN set(v_cells[t], st.rows[t])
                                                    ELSE v_cells[t]]
        /\ v_heads' = [t \in Streams |-> IF t \in T THEN st.heads[nth(t)] ELSE v_heads[t]]
        /\ UNCHANGED <<sc_info, kv, phase, ubatches, sinfos, done, did_optimize,
                       saved, before>>

NoBefore == [t \in Streams |-> reset]

\* Back to idle, with the call's variables cleared.
CallEnds ==
    /\ phase' = "idle"
    /\ ubatches' = <<>> /\ sinfos' = <<>> /\ states' = <<>> /\ done' = 0
    /\ did_optimize' = FALSE
    /\ before' = NoBefore

Prepared == phase = "restore" /\ states = <<>>

\* prepare() found every slot.
PrepareSucceeds ==
    /\ Prepared
    /\ Len(sinfos) = Len(ubatches)
    /\ phase' = "decode"
    /\ UNCHANGED <<v_cells, v_heads, sc_info, kv, ubatches, sinfos, states, done,
                   did_optimize, saved, before>>

\* output_reserve fails and decode returns -2, before any ubatch is applied.
ReserveFails ==
    /\ phase = "decode" /\ done = 0
    /\ Failures # {}
    /\ CallEnds
    /\ UNCHANGED <<v_cells, v_heads, sc_info, kv, saved>>

\* FAILED_PREPARE: one retry when memory_update(true) had something to do.
PrepareRetries(ok) ==
    /\ Prepared
    /\ Len(sinfos) < Len(ubatches)
    /\ ~did_optimize /\ UpdatePending
    /\ memory_update(ok)
    /\ did_optimize' = TRUE
    /\ phase' = "prepare"
    /\ sinfos' = <<>>
    /\ before' = v_cells'
    /\ UNCHANGED <<v_heads, ubatches, states, done, saved>>

\* FAILED_PREPARE: decode returns 1.
PrepareFails ==
    /\ Prepared
    /\ Len(sinfos) < Len(ubatches)
    /\ did_optimize \/ ~UpdatePending
    /\ CallEnds
    /\ UNCHANGED <<v_cells, v_heads, sc_info, kv, saved>>

\* The buffers after the K/V of a ubatch were written, or after its computation
\* stopped somewhere.
Written(si, ub, ok) ==
    [t \in Streams |-> [i \in Cells |->
        IF t \in DOMAIN si /\ i \in Range(si[t])
        THEN IF ok THEN LET x == At(si[t], ub[t])[i] IN [tok |-> x.tok, rope |-> x.pos]
                   ELSE Garbage
        ELSE kv[t][i]]]

\* process_ubatch succeeds: apply, compute, go on to the next ubatch.
DecodeUbatch ==
    LET k == done + 1
    IN  /\ phase = "decode"
        /\ v_cells' = apply_cells(sinfos[k], ubatches[k])
        /\ v_heads' = apply_heads(sinfos[k], ubatches[k])
        /\ kv' = Written(sinfos[k], ubatches[k], TRUE)
        /\ IF k = Len(ubatches) THEN CallEnds
           ELSE done' = k /\ UNCHANGED <<phase, ubatches, sinfos, states, did_optimize, before>>
        /\ UNCHANGED <<sc_info, saved>>

\* seq_rm(s, from[s], -1) for every s of DOMAIN from, on every stream.
RemoveFrom(cells, from) ==
    [t \in Streams |->
        seq_rm(cells[t], UNION {SeqRange(cells[t], s, from[s], -1) :
                                  s \in {u \in DOMAIN from : seq_to_stream(u) = t}})]

UbTokens(ub) == UNION {Range(ub[t]) : t \in DOMAIN ub}

\* Mutant: the last position of each sequence.
Bug_FailedFrom(ub) ==
    [s \in {Min(x.seqs) : x \in UbTokens(ub)} |->
        Max({x.pos : x \in {y \in UbTokens(ub) : Min(y.seqs) = s}})]

\* The first position of each sequence that a failed ubatch takes back: only
\* the first sequence id of each token is looked at (clients list the ids in
\* increasing order).
FailedFrom(ub) ==
    [s \in {Min(x.seqs) : x \in UbTokens(ub)} |->
        Min({x.pos : x \in {y \in UbTokens(ub) : Min(y.seqs) = s}})]

\* Mutant: only the ubatch that failed.
Bug_CallFrom == FailedFrom(ubatches[done + 1])

\* call_pos_min: the first position of each sequence of the whole batch.
CallFrom ==
    LET toks == UNION {UbTokens(ubatches[k]) : k \in DOMAIN ubatches}
    IN  [s \in UNION {x.seqs : x \in toks} |->
           Min({x.pos : x \in {y \in toks : s \in y.seqs}})]

\* process_ubatch fails after the ubatch was applied, and decode returns:
\*   fatal    an error or 2 (aborted): the positions of the ubatch are removed;
\*   refused  1, the pool has no room for the graph: likewise;
\*   oom      1, out of memory on the device: the whole call is taken back.
DecodeFails(how) ==
    LET k == done + 1
        placed == apply_cells(sinfos[k], ubatches[k])
        heads == apply_heads(sinfos[k], ubatches[k])
        d == RemoveFrom(placed, IF how = "oom" THEN CallFrom
                                ELSE FailedFrom(ubatches[k]))
    IN  /\ how \in Failures
        /\ phase = "decode"
        /\ v_cells' = d
        /\ v_heads' = [t \in Streams |-> HeadAfter(heads[t], Freed(placed[t], d[t]))]
        /\ kv' = Written(sinfos[k], ubatches[k], FALSE)
        /\ CallEnds
        /\ UNCHANGED <<sc_info, saved>>

-----------------------------------------------------------------------------
(* Saving and restoring one sequence (state_write, state_read). *)

StateIoGuard == Idle("state") /\ (StateIoAny \/ ~UpdatePending)

\* The cells of s that its last position can still attend to, in cell order:
\* their metadata and what the buffers hold for them.
StateSave(s) ==
    LET t == seq_to_stream(s)
        c == v_cells[t]
        I == {i \in With(c, s) : ~is_masked_swa(c.pos[i], seq_pos_max(c, s))}
    IN  /\ StateIoGuard
        /\ I # {}
        /\ \E idxs \in [1 .. Cardinality(I) -> I] :
             /\ \A j, k \in DOMAIN idxs : j < k => idxs[j] < idxs[k]
             /\ saved' = [k \in DOMAIN idxs |->
                            [pos |-> c.pos[idxs[k]], tok |-> c.tok[idxs[k]],
                             data |-> kv[t][idxs[k]]]]
        /\ UNCHANGED <<v_cells, v_heads, sc_info, kv, call>>

\* The saved cells as the tokens of a ubatch of sequence s.
SavedTokens(s) ==
    [k \in DOMAIN saved |-> [pos |-> saved[k].pos, tok |-> saved[k].tok, seqs |-> {s}]]

\* The stream of s once the old content of s is removed, as state_read_meta
\* and state_clear leave it.
Emptied(s) ==
    LET c == v_cells[seq_to_stream(s)] IN seq_rm(c, SeqRange(c, s, -1, -1))
EmptiedHead(s) ==
    LET t == seq_to_stream(s) IN HeadAfter(v_heads[t], Freed(v_cells[t], Emptied(s)))

RestoreSlots(s) == SlotsIn(Emptied(s), EmptiedHead(s), Len(saved))

\* state_read of one sequence: the old content goes, the saved cells take a
\* slot of their own and the data is written there.
StateRestore(s) ==
    LET t == seq_to_stream(s)
    IN  /\ StateIoGuard
        /\ saved # <<>>
        /\ \E idxs \in RestoreSlots(s) :
             /\ v_cells' = [v_cells EXCEPT ![t] =
                              ApplyCells(Emptied(s), idxs, SavedTokens(s))]
             /\ v_heads' = [v_heads EXCEPT ![t] = ApplyHead(idxs, saved)]
             /\ kv' = [kv EXCEPT ![t] = [i \in Cells |->
                         IF i \in Range(idxs) THEN At(idxs, saved)[i].data ELSE kv[t][i]]]
        /\ UNCHANGED <<sc_info, call, saved>>

\* state_read fails: no slot, or the data ends early after the slot was taken.
\* state_clear removes the sequence and zeroes the data of the slot.
StateRestoreFails(s) ==
    LET t == seq_to_stream(s)
        Cleared(c, head, I) ==
            LET d == seq_rm(c, SeqRange(c, s, -1, -1))
            IN  /\ v_cells' = [v_cells EXCEPT ![t] = d]
                /\ v_heads' = [v_heads EXCEPT ![t] = HeadAfter(head, Freed(c, d))]
                /\ kv' = [kv EXCEPT ![t] = [i \in Cells |->
                            IF i \in I THEN Garbage ELSE kv[t][i]]]
    IN  /\ StateIoGuard
        /\ saved # <<>>
        /\ \/ /\ RestoreSlots(s) = {}
              /\ Cleared(v_cells[t], v_heads[t], {})
           \/ \E idxs \in RestoreSlots(s) :
                Cleared(ApplyCells(Emptied(s), idxs, SavedTokens(s)),
                        ApplyHead(idxs, saved), Range(idxs))
        /\ UNCHANGED <<sc_info, call, saved>>

-----------------------------------------------------------------------------
Init ==
    /\ v_cells = [t \in Streams |-> reset]
    /\ v_heads = [t \in Streams |-> 0]
    /\ sc_info = <<>>
    /\ kv = [t \in Streams |-> [i \in Cells |-> Garbage]]
    /\ phase = "idle"
    /\ ubatches = <<>> /\ sinfos = <<>> /\ states = <<>> /\ done = 0
    /\ did_optimize = FALSE
    /\ saved = <<>>
    /\ before = NoBefore

Bounds == -1 .. MaxPos     \* the range ends clients pass

Edit ==
    \/ \E data \in BOOLEAN : clear(data)
    \/ \E s \in Seqs, p0, p1 \in Bounds : SeqRm(s, p0, p1)
    \/ \E p0, p1 \in Bounds : SeqRmAny(p0, p1)
    \/ \E s, u \in Seqs, p0, p1 \in Bounds : SeqCp(s, u, p0, p1)
    \/ \E s, u \in Seqs : SeqCpStream(s, u)
    \/ \E s \in Seqs : SeqKeep(s)
    \/ \E s \in Seqs, p0, p1 \in Bounds, d \in Shifts : SeqAdd(s, p0, p1, d)
    \/ \E s \in Seqs, p0, p1 \in Bounds, d \in Divs : SeqDiv(s, p0, p1, d)

Decode ==
    \/ /\ phase = "idle"
       /\ \E tok \in Tokens : \E ubs \in Splits(tok), ok \in BOOLEAN : DecodeBegin(ubs, ok)
    \/ PrepareUbatch
    \/ PrepareEnd
    \/ RestoreUbatch
    \/ PrepareSucceeds
    \/ \E ok \in BOOLEAN : PrepareRetries(ok)
    \/ PrepareFails
    \/ ReserveFails
    \/ DecodeUbatch
    \/ \E how \in Failures : DecodeFails(how)

StateIo ==
    \E s \in Seqs : StateSave(s) \/ StateRestore(s) \/ StateRestoreFails(s)

Next == Edit \/ Decode \/ StateIo

Spec == Init /\ [][Next]_vars

-----------------------------------------------------------------------------
(* Properties *)

\* Type invariant: a search head stays a cell index or n_cells, every cell has
\* the fields of a llama_kv_cells row, and queued copies name streams.
TypeOK ==
    /\ v_cells \in [Streams -> CellsType]
    /\ v_heads \in [Streams -> 0 .. NCells]
    /\ sc_info \in Seq(Streams \X Streams)
    /\ kv \in [Streams -> [Cells -> Content]]
    /\ phase \in {"idle", "prepare", "restore", "decode"}
    /\ done \in Nat /\ did_optimize \in BOOLEAN

\* After any sequence of calls, and at every step inside a decode call, the
\* indexes "used" and "seq_pos" of every stream agree with its cells.  They
\* are kept by hand in nine methods of llama_kv_cells and are all that
\* find_slot, get_n_kv and seq_pos_min/max look at.
IndexesAgree == \A t \in Streams : CellsOK(v_cells[t])

\* A cell of a stream carries only sequences that seq_to_stream maps to the
\* stream: seq_rm, seq_keep and seq_pos_max look for a sequence nowhere else,
\* so a cell that broke this could never be freed by its sequence.
StreamsSeparate ==
    \A t \in Streams : \A i \in Cells : \A s \in v_cells[t].seq[i] : seq_to_stream(s) = t

\* What attention will read is what the metadata says: once the queued stream
\* copies and shifts are done, the K of every occupied cell is that of the
\* cell's token, rotated to the cell's position.  This is the promise behind
\* the lazy updates ("the buffer copy will be performed during the next
\* update", llama-kv-cache.cpp:795; "this array accumulates any applied shifts
\* to the pos array", llama-kv-cells.h:504).
DataMatchesCells ==
    phase \in {"idle", "decode"} =>
      LET b == AfterCopies
      IN  \A t \in Streams : \A i \in Cells :
            ~is_empty(v_cells[t], i) =>
               /\ b[t][i].tok = v_cells[t].tok[i]
               /\ b[t][i].rope + v_cells[t].shift[i] = v_cells[t].pos[i]

\* Every sequence has all the positions between its first and its last.
NoGaps(cells) ==
    \A s \in Seqs :
      LET c == cells[seq_to_stream(s)]
      IN  c.seq_pos[s] # {} =>
            SeqPositions(c, s) = seq_pos_min(c, s) .. seq_pos_max(c, s)

\* "all positions between [pos_min, pos_max] for each sequence will be present
\* in the cache" (apply_ubatch, llama-kv-cache.cpp:1461): after every call, in
\* a cache without a window and for clients that only cut suffixes and move
\* whole sequences.
NoHoles == phase = "idle" => NoGaps(v_cells)

\* The same in a cache with any window, where a slot may reuse cells: a decode
\* call that succeeds leaves no hole where there was none.  The rehearsal purges
\* sequences and its undoing puts back only the cells of the slots, so the
\* second pass must purge again all that the rehearsal has thinned out.  A call
\* that retried rehearsed twice: what it found the second time is not what the
\* batch was split for.
SuccessLeavesNoHoles ==
    [][DecodeUbatch /\ done + 1 = Len(ubatches) /\ ~did_optimize /\ NoGaps(before)
         => NoGaps(v_cells')]_vars

\* What the sequences hold: per sequence, its positions and their tokens.
Contents(cells) ==
    [s \in Seqs |-> LET c == cells[seq_to_stream(s)]
                    IN  {<<c.pos[i], c.tok[i]>> : i \in With(c, s)}]

\* A decode call that returns 1 leaves the memory as it found it, so that the
\* caller can retry with a smaller batch: "Upon other return values, the memory
\* state is restored to the state before this call" (include/llama.h:1013).
\* 1 is returned when prepare() finds no slot after placing some ubatches, when
\* the pool refuses a graph, and when the device runs out of memory.
ReturnsOne == PrepareFails \/ DecodeFails("refused") \/ DecodeFails("oom")

ReturnOneRestores == [][ReturnsOne => Contents(v_cells') = Contents(before)]_vars

\* Sequence s keeps cell i of stream t.
StillThere(t, i, s) == s \in v_cells'[t].seq[i] /\ v_cells'[t].pos[i] = v_cells[t].pos[i]

\* The position after the last one that s has, or had when the call was entered:
\* the rehearsal may have purged that one and not given it back.
NextOf(t, s) ==
    LET then == seq_pos_max(before[t], s)
        now  == seq_pos_max(v_cells[t], s)
    IN  (IF then > now THEN then ELSE now) + 1

VisibleKept ==
    \A t \in Streams : \A i \in Cells : \A s \in v_cells[t].seq[i] :
        ~is_masked_swa(v_cells[t].pos[i], seq_pos_max(v_cells[t], s) + 1) => StillThere(t, i, s)

VisibleToNextKept ==
    \A t \in Streams : \A i \in Cells : \A s \in v_cells[t].seq[i] :
        ~is_masked_swa(v_cells[t].pos[i], NextOf(t, s)) => StillThere(t, i, s)

\* Placing a ubatch, in the rehearsal or for real, never takes a cell that the
\* next token of any sequence could still attend to: a slot reuses only cells
\* outside the window of the one sequence they belong to, and the purge stays
\* below them.
SlotsTakeNothingVisible ==
    [][(PrepareUbatch => VisibleKept) /\ (DecodeUbatch => VisibleToNextKept)]_vars

\* A ubatch that was computed is in the cache: every token has a cell of its
\* own in each of its sequences, at its position.  The purge that follows the
\* placement must not reach it.
Holders(c, x) == {i \in Cells : c.pos[i] = x.pos /\ c.tok[i] = x.tok /\ x.seqs \subseteq c.seq[i]}

UbatchStored ==
    [][DecodeUbatch =>
         \A t \in DOMAIN ubatches[done + 1] : \A k \in DOMAIN ubatches[done + 1][t] :
            Holders(v_cells'[t], ubatches[done + 1][t][k]) # {}]_vars

\* "the last ubatch failed or was aborted -> remove all positions of that
\* ubatch from the memory module" (llama-context.cpp:3971): afterwards no
\* sequence of the ubatch holds one of its positions.
FailedUbatchRemoved ==
    [][DecodeFails("fatal") =>
         \A t \in DOMAIN ubatches[done + 1] : \A k \in DOMAIN ubatches[done + 1][t] :
            LET x == ubatches[done + 1][t][k]
            IN  \A s \in x.seqs : x.pos \notin SeqPositions(v_cells'[t], s)]_vars
=============================================================================
