--------------------------- MODULE KVCacheProofs ---------------------------
(***************************************************************************)
(* The indexes of every stream agree with its cells, every cell stays in   *)
(* the stream of its sequences, and the K in the buffers is that of the    *)
(* cells, in every state of KVCache: for any number of cells, sequences and*)
(* streams, any sliding window, and any sequence of calls, failures and    *)
(* retries.                                                                *)
(*                                                                         *)
(* Then the slots of a decode call: what they take from a sequence, that   *)
(* computed tokens are stored, what a call that returns 1 or succeeds      *)
(* leaves, and that sequences have no holes.                               *)
(***************************************************************************)
EXTENDS KVCache, KVCellsProofs, FiniteSetTheorems, SequenceTheorems, NaturalsInduction,
        WellFoundedInduction

\* A well-formed cells object of stream t.
StreamOK(c, t) ==
    /\ c \in CellsType
    /\ CellsOK(c)
    /\ \A i \in Cells : \A s \in c.seq[i] : seq_to_stream(s) = t

-----------------------------------------------------------------------------
(* What the operators on cells do to the sequences and shifts of a cell.   *)

\* Every sequence has a stream.
LEMMA StreamOfSeq == ASSUME NEW s \in Seqs PROVE seq_to_stream(s) \in Streams
BY CellsAssumption, CacheAssumption DEF seq_to_stream, Seqs, Streams

\* A cell that carries a sequence has a position.
LEMMA OccupiedNotEmpty ==
    ASSUME NEW c \in CellsType, CellsOK(c), NEW s, NEW i \in With(c, s)
    PROVE  c.pos[i] # -1 /\ c.pos[i] \in Nat
BY DEF With, CellsOK, EmptyOK, CellsType

\* rm empties the cells of I and leaves the others alone.
LEMMA RmEffect ==
    ASSUME NEW c \in CellsType, NEW I \in SUBSET Cells, NEW i \in Cells
    PROVE  /\ rm(c, I).pos[i] = IF i \in I THEN -1 ELSE c.pos[i]
           /\ rm(c, I).seq[i] = IF i \in I THEN {} ELSE c.seq[i]
           /\ rm(c, I).shift[i] = IF i \in I THEN 0 ELSE c.shift[i]
BY DEF rm, Blank, Fill

\* seq_rm gives no cell a new sequence and queues no shift.
LEMMA SeqRmEffect ==
    ASSUME NEW c \in CellsType, NEW R, NEW i \in Cells
    PROVE  /\ seq_rm(c, R).seq[i] \subseteq c.seq[i]
           /\ c.shift[i] = 0 => seq_rm(c, R).shift[i] = 0
BY DEF seq_rm, Blank, Fill, CellsType

\* seq_keep gives no cell a new sequence.
LEMMA SeqKeepEffect ==
    ASSUME NEW c \in CellsType, NEW s \in Seqs, NEW i \in Cells
    PROVE  seq_keep(c, s).seq[i] \subseteq c.seq[i]
BY DEF seq_keep, Blank, Fill, CellsType

\* seq_add gives a cell no sequence but s.
LEMMA SeqAddEffect ==
    ASSUME NEW c \in CellsType, NEW I \in SUBSET Cells, NEW s \in Seqs, NEW i \in Cells
    PROVE  seq_add(c, I, s).seq[i] \subseteq c.seq[i] \cup {s}
BY DEF seq_add, CellsType

\* pos_add gives no cell a new sequence.
LEMMA PosAddEffect ==
    ASSUME NEW c \in CellsType, NEW I \in SUBSET Cells, NEW d \in Int, NEW i \in Cells
    PROVE  pos_add(c, I, d).seq[i] \subseteq c.seq[i]
<1> DEFINE gone == {j \in I : c.pos[j] + d < 0}
<1>1. pos_add(c, I, d).seq = Fill(c.seq, gone, {})
  BY DEF pos_add, Indexed, Moved, CellsType
<1> QED BY <1>1 DEF Fill

\* pos_div leaves the sequences of the cells alone.
LEMMA PosDivEffect ==
    ASSUME NEW c \in CellsType, NEW I \in SUBSET Cells, NEW d \in Int
    PROVE  pos_div(c, I, d).seq = c.seq
BY DEF pos_div, Indexed, Moved, CellsType

-----------------------------------------------------------------------------
(* Placing tokens: apply_ubatch on one stream.                             *)

\* Tokens of stream t.
TokensOK(toks, t) ==
    /\ toks \in Seq(Token)
    /\ \A k \in DOMAIN toks : \A s \in toks[k].seqs : seq_to_stream(s) = t

\* The rows apply_ubatch writes have the types place expects.
LEMMA AtType ==
    ASSUME NEW toks \in Seq(Token), NEW idxs \in [1 .. Len(toks) -> Cells]
    PROVE  /\ Range(idxs) \in SUBSET Cells
           /\ At(idxs, toks) \in [Range(idxs) -> PlaceRow]
           /\ \A i \in Range(idxs) : \E k \in DOMAIN toks : At(idxs, toks)[i] = toks[k]
<1>1. Range(idxs) \in SUBSET Cells
  BY DEF Range
<1>2. ASSUME NEW i \in Range(idxs)
      PROVE  \E k \in DOMAIN toks : At(idxs, toks)[i] = toks[k]
  <2>1. \E k \in DOMAIN idxs : idxs[k] = i
    BY DEF Range
  <2>2. PICK k \in DOMAIN idxs : k = CHOOSE j \in DOMAIN idxs : idxs[j] = i
    BY <2>1
  <2>3. DOMAIN idxs = DOMAIN toks
    OBVIOUS
  <2> QED BY <2>2, <2>3 DEF At
<1>3. \A k \in DOMAIN toks : toks[k] \in PlaceRow
  <2>1. Token = PlaceRow
    BY DEF Token, PlaceRow
  <2> QED BY <2>1
<1>4. At(idxs, toks) \in [Range(idxs) -> PlaceRow]
  <2>1. \A i \in Range(idxs) : At(idxs, toks)[i] \in PlaceRow
    BY <1>2, <1>3
  <2>2. At(idxs, toks) = [i \in Range(idxs) |-> At(idxs, toks)[i]]
    BY DEF At
  <2> QED BY <2>1, <2>2
<1> QED BY <1>1, <1>2, <1>4

\* apply_ubatch on one stream keeps it well formed.
LEMMA ApplyCellsOK ==
    ASSUME NEW t \in Streams, NEW c, StreamOK(c, t),
           NEW toks, TokensOK(toks, t), NEW idxs \in [1 .. Len(toks) -> Cells]
    PROVE  /\ StreamOK(ApplyCells(c, idxs, toks), t)
           /\ \A i \in Cells : c.shift[i] = 0 \/ i \in Range(idxs) =>
                ApplyCells(c, idxs, toks).shift[i] = 0
<1> DEFINE J == Range(idxs)
           I == {i \in J : ~is_empty(c, i)}
           b == rm(c, I)
           d == place(b, At(idxs, toks))
           R == {r \in Cells \X Seqs :
                   /\ r[2] \in d.seq[r[1]]
                   /\ \E p \in Overwritten(c, I, r[2]) : d.pos[r[1]] <= p}
<1>1. ApplyCells(c, idxs, toks) = seq_rm(d, R)
  BY DEF ApplyCells
<1>2. toks \in Seq(Token) /\ c \in CellsType /\ CellsOK(c)
  BY DEF TokensOK, StreamOK
<1>3. /\ J \in SUBSET Cells /\ At(idxs, toks) \in [J -> PlaceRow]
      /\ \A i \in J : \E k \in DOMAIN toks : At(idxs, toks)[i] = toks[k]
  BY <1>2, AtType
<1>4. I \in SUBSET Cells
  BY <1>3
<1>5. b \in CellsType /\ CellsOK(b)
  BY <1>2, <1>4, RmOK
<1>6. \A i \in Cells :
        /\ b.seq[i] \subseteq c.seq[i]
        /\ b.shift[i] = IF i \in I THEN 0 ELSE c.shift[i]
        /\ i \in J => b.pos[i] = -1
  <2> TAKE i \in Cells
  <2>1. /\ b.pos[i] = IF i \in I THEN -1 ELSE c.pos[i]
        /\ b.seq[i] = IF i \in I THEN {} ELSE c.seq[i]
        /\ b.shift[i] = IF i \in I THEN 0 ELSE c.shift[i]
    BY <1>2, <1>4, RmEffect
  <2> QED BY <2>1 DEF is_empty
<1>7. \A i \in J : b.shift[i] = 0
  <2> TAKE i \in J
  <2>1. i \in Cells /\ b.pos[i] = -1
    BY <1>3, <1>6
  <2> QED BY <1>5, <2>1 DEF CellsOK, ShiftOK
<1> HIDE DEF b, I, J
<1>8. /\ d \in CellsType /\ CellsOK(d) /\ d.shift = b.shift
      /\ \A i \in Cells : d.seq[i] = IF i \in J THEN At(idxs, toks)[i].seqs ELSE b.seq[i]
  <2>1. \A i \in J : b.pos[i] = -1
    BY <1>3, <1>6
  <2> DEFINE at == At(idxs, toks)
  <2>2. at \in [J -> PlaceRow]
    BY <1>3
  <2> HIDE DEF at
  <2>3. /\ place(b, at) \in CellsType /\ CellsOK(place(b, at)) /\ place(b, at).shift = b.shift
        /\ \A i \in Cells :
             /\ place(b, at).pos[i] = IF i \in J THEN at[i].pos ELSE b.pos[i]
             /\ place(b, at).seq[i] = IF i \in J THEN at[i].seqs ELSE b.seq[i]
    <3>1. J \in SUBSET Cells
      BY <1>3
    <3> QED BY <1>5, <2>1, <2>2, <3>1, PlaceOK
  <2> QED BY <2>3 DEF at
<1> HIDE DEF d, R
<1>9. seq_rm(d, R) \in CellsType /\ CellsOK(seq_rm(d, R))
  BY <1>8, SeqRmOK
<1>10. \A i \in Cells : \A s \in seq_rm(d, R).seq[i] : seq_to_stream(s) = t
  <2> SUFFICES ASSUME NEW i \in Cells, NEW s \in d.seq[i] PROVE seq_to_stream(s) = t
    BY <1>8, SeqRmEffect
  <2>1. CASE i \in J
    <3>1. PICK k \in DOMAIN toks : At(idxs, toks)[i] = toks[k]
      BY <1>3, <2>1
    <3> QED BY <1>8, <2>1, <3>1 DEF TokensOK
  <2>2. CASE i \notin J
    BY <1>6, <1>8, <2>2 DEF StreamOK
  <2> QED BY <2>1, <2>2
<1>11. \A i \in Cells : c.shift[i] = 0 \/ i \in J => seq_rm(d, R).shift[i] = 0
  <2> TAKE i \in Cells
  <2>1. c.shift[i] = 0 \/ i \in J => d.shift[i] = 0
    BY <1>6, <1>7, <1>8
  <2> QED BY <1>8, <2>1, SeqRmEffect
<1> QED BY <1>1, <1>9, <1>10, <1>11 DEF StreamOK, J

\* The cells of a stream copy.
LEMMA CopyCellsOK ==
    ASSUME NEW t \in Streams, NEW c, StreamOK(c, t), NEW src \in Seqs, NEW dst \in Seqs
    PROVE  StreamOK(CopyCells(c, src, dst), seq_to_stream(dst))
<1> DEFINE I == With(c, src)
           at == [i \in I |-> [pos |-> c.pos[i], tok |-> c.tok[i], seqs |-> {dst}]]
           d == place(reset, at)
           sh == [i \in Cells |-> IF i \in I THEN c.shift[i] ELSE 0]
           hs == \E i \in I : c.shift[i] # 0
           e == [d EXCEPT !.shift = sh, !.has_shift = hs]
<1>1. I \in SUBSET Cells /\ c \in CellsType /\ CellsOK(c)
  BY DEF With, StreamOK
<1>2. at \in [I -> PlaceRow]
  <2>1. \A i \in I : c.pos[i] \in Nat /\ c.tok[i] \in Tokens \cup {NoTok}
    BY <1>1, OccupiedNotEmpty DEF CellsType
  <2>2. {dst} \in (SUBSET Seqs) \ {{}}
    OBVIOUS
  <2> HIDE DEF I
  <2> QED BY <2>1, <2>2 DEF PlaceRow
<1>3. reset \in CellsType /\ CellsOK(reset) /\ \A i \in Cells : reset.pos[i] = -1
                                             /\ reset.seq[i] = {}
  BY ResetOK DEF reset
<1>4. \A i \in I : at[i].pos \in Nat /\ at[i].seqs = {dst}
  BY <1>1, OccupiedNotEmpty
<1> HIDE DEF at, I
<1>5. /\ d \in CellsType /\ CellsOK(d)
      /\ \A i \in Cells : /\ d.pos[i] = IF i \in I THEN at[i].pos ELSE reset.pos[i]
                          /\ d.seq[i] = IF i \in I THEN at[i].seqs ELSE reset.seq[i]
  <2>1. \A i \in I : reset.pos[i] = -1
    BY <1>1, <1>3
  <2> QED BY <1>1, <1>2, <1>3, <2>1, PlaceOK
<1>6. CopyCells(c, src, dst) = e
  BY DEF CopyCells, at, I
<1> HIDE DEF d
<1>7. sh \in [Cells -> Int] /\ hs \in BOOLEAN
  BY <1>1 DEF CellsType
<1>8. e \in CellsType
  <2> HIDE DEF sh, hs
  <2> QED BY <1>5, <1>7 DEF CellsType
<1>9. /\ e.pos = d.pos /\ e.seq = d.seq /\ e.used = d.used /\ e.seq_pos = d.seq_pos
      /\ e.shift = sh /\ e.has_shift = hs
  BY <1>5 DEF CellsType
<1> HIDE DEF e
<1>10. UsedOK(e) /\ EmptyOK(e) /\ SeqPosOK(e)
  BY <1>5, <1>9 DEF CellsOK, UsedOK, EmptyOK, SeqPosOK, Entries
<1>11. ShiftOK(e)
  <2> SUFFICES ASSUME NEW i \in Cells
               PROVE  /\ e.pos[i] = -1 => e.shift[i] = 0
                      /\ e.shift[i] # 0 => e.has_shift
    BY DEF ShiftOK
  <2>1. e.pos[i] = -1 => e.shift[i] = 0
    BY <1>4, <1>5, <1>9
  <2>2. e.shift[i] # 0 => e.has_shift
    BY <1>9
  <2> QED BY <2>1, <2>2
<1>12. \A i \in Cells : \A s \in e.seq[i] : s = dst
  BY <1>3, <1>4, <1>5, <1>9
<1> QED BY <1>6, <1>8, <1>10, <1>11, <1>12 DEF StreamOK, CellsOK

-----------------------------------------------------------------------------
(* The inductive invariant.                                                *)

CellsInv(cells) ==
    /\ cells \in [Streams -> CellsType]
    /\ \A t \in Streams : StreamOK(cells[t], t)

\* The slots fit their ubatches.
SinfoOK(si, ub) ==
    /\ DOMAIN si = DOMAIN ub
    /\ \A t \in DOMAIN ub : si[t] \in [1 .. Len(ub[t]) -> Cells]

\* A recovery entry holds well-formed rows of cells that have no shift now:
\* set() does not restore shift.
StateOK(st, cells) ==
    /\ DOMAIN st.rows \subseteq Streams
    /\ \A t \in DOMAIN st.rows :
         /\ DOMAIN st.rows[t] \in SUBSET Cells
         /\ RowsOK(st.rows[t], DOMAIN st.rows[t])
         /\ \A i \in DOMAIN st.rows[t] :
              /\ cells[t].shift[i] = 0
              /\ \A s \in st.rows[t][i].seqs : seq_to_stream(s) = t

IsSeq(q) == q \in Seq(Range(q))

CallInv ==
    /\ phase \in {"idle", "prepare", "restore", "decode"}
    /\ phase # "idle" => UbatchesOK(ubatches)
    /\ IsSeq(sinfos) /\ IsSeq(states) /\ done \in Nat
    /\ phase \in {"idle", "decode"} => states = <<>>
    /\ phase # "decode" => done = 0
    /\ phase = "idle" => sinfos = <<>>
    /\ phase # "idle" => /\ Len(sinfos) <= Len(ubatches)
                         /\ \A k \in DOMAIN sinfos : SinfoOK(sinfos[k], ubatches[k])
    /\ phase = "decode" => Len(sinfos) = Len(ubatches) /\ done < Len(ubatches)

StackInv == \A k \in DOMAIN states : StateOK(states[k], v_cells)

SavedInv ==
    /\ IsSeq(saved)
    /\ \A k \in DOMAIN saved : saved[k].pos \in Nat /\ saved[k].tok \in Tokens \cup {NoTok}

IInv == CellsInv(v_cells) /\ CallInv /\ StackInv /\ SavedInv

-----------------------------------------------------------------------------
(* Steps between two decode calls.                                         *)

\* Replacing the cells of one stream keeps the others well formed.
LEMMA OneStream ==
    ASSUME NEW cells, CellsInv(cells), NEW t \in Streams, NEW d, StreamOK(d, t)
    PROVE  CellsInv([cells EXCEPT ![t] = d])
BY DEF CellsInv, StreamOK

\* What the provers need to know of the empty sequence.
LEMMA EmptyQueue ==
    ASSUME NEW q, q = <<>>
    PROVE  IsSeq(q) /\ Len(q) = 0 /\ \A k : k \notin DOMAIN q
<1>1. \A S : q \in Seq(S)
  OBVIOUS
<1>2. Len(q) = 0
  OBVIOUS
<1>3. \A k : k \notin DOMAIN q
  OBVIOUS
<1>4. IsSeq(q)
  BY <1>1 DEF IsSeq
<1> QED BY <1>2, <1>3, <1>4

\* A call that leaves the decode variables alone only has to keep the cells.
LEMMA IdleStep ==
    ASSUME IInv, phase = "idle", UNCHANGED call, SavedInv', CellsInv(v_cells)'
    PROVE  IInv'
<1>1. CallInv'
  BY DEF IInv, CallInv, call, UbatchesOK, UbatchOK, SinfoOK, IsSeq
<1>2. StackInv'
  BY EmptyQueue DEF IInv, CallInv, StackInv, call
<1> QED BY <1>1, <1>2 DEF IInv

\* The saved state stays well formed while nobody touches it.
LEMMA SavedSame == ASSUME IInv, UNCHANGED saved PROVE SavedInv'
BY DEF IInv, SavedInv, IsSeq

\* seq_rm keeps a stream well formed.
LEMMA SeqRmStream ==
    ASSUME NEW t, NEW c, StreamOK(c, t), NEW R
    PROVE  StreamOK(seq_rm(c, R), t)
<1>1. seq_rm(c, R) \in CellsType /\ CellsOK(seq_rm(c, R))
  BY SeqRmOK DEF StreamOK
<1>2. \A i \in Cells : seq_rm(c, R).seq[i] \subseteq c.seq[i]
  BY SeqRmEffect DEF StreamOK
<1> QED BY <1>1, <1>2 DEF StreamOK

\* rm keeps a stream well formed.
LEMMA RmStream ==
    ASSUME NEW t, NEW c, StreamOK(c, t), NEW I \in SUBSET Cells
    PROVE  StreamOK(rm(c, I), t)
BY RmOK, RmEffect DEF StreamOK

\* Empty cells are well formed for any stream.
LEMMA ResetStream == ASSUME NEW t PROVE StreamOK(reset, t)
<1>1. \A i \in Cells : reset.seq[i] = {}
  BY DEF reset
<1> QED BY <1>1, ResetOK DEF StreamOK

\* The cells of a range are cells.
LEMMA InRangeType == ASSUME NEW c, NEW p0, NEW p1 PROVE InRange(c, p0, p1) \in SUBSET Cells
BY DEF InRange

\* Every call made between two decode calls keeps the inductive invariant.
LEMMA EditKeeps == ASSUME IInv, Edit PROVE IInv'
<1>0. CellsInv(v_cells)
  BY DEF IInv
<1>1. ASSUME NEW data \in BOOLEAN, clear(data) PROVE IInv'
  <2>1. CellsInv(v_cells)'
    BY <1>1, ResetStream, ResetOK DEF clear, CellsInv
  <2> QED BY <1>1, <2>1, IdleStep, SavedSame DEF clear, Idle
<1>2. ASSUME NEW s \in Seqs, NEW p0 \in Bounds, NEW p1 \in Bounds, SeqRm(s, p0, p1)
      PROVE  IInv'
  <2> DEFINE t == seq_to_stream(s)
             d == seq_rm(v_cells[t], SeqRange(v_cells[t], s, p0, p1))
  <2>1. t \in Streams
    BY StreamOfSeq
  <2>2. StreamOK(d, t)
    BY <1>0, <2>1, SeqRmStream DEF CellsInv
  <2>3. v_cells' = [v_cells EXCEPT ![t] = d] /\ phase = "idle" /\ UNCHANGED call /\ UNCHANGED saved
    BY <1>2 DEF SeqRm, Idle
  <2> HIDE DEF t, d
  <2>4. CellsInv(v_cells)'
    BY <1>0, <2>1, <2>2, <2>3, OneStream
  <2> QED BY <2>3, <2>4, IdleStep, SavedSame
<1>3. ASSUME NEW p0 \in Bounds, NEW p1 \in Bounds, SeqRmAny(p0, p1) PROVE IInv'
  <2>1. \A t \in Streams : StreamOK(rm(v_cells[t], InRange(v_cells[t], p0, p1)), t)
    BY <1>0, InRangeType, RmStream DEF CellsInv
  <2>2. /\ v_cells' = [t \in Streams |-> rm(v_cells[t], InRange(v_cells[t], p0, p1))]
        /\ phase = "idle" /\ UNCHANGED call /\ UNCHANGED saved
    BY <1>3 DEF SeqRmAny, Idle
  <2>3. CellsInv(v_cells)'
    BY <2>1, <2>2 DEF CellsInv, StreamOK
  <2> QED BY <2>2, <2>3, IdleStep, SavedSame
<1>4. ASSUME NEW s \in Seqs, NEW u \in Seqs, NEW p0 \in Bounds, NEW p1 \in Bounds,
             SeqCp(s, u, p0, p1)
      PROVE  IInv'
  <2> DEFINE t == seq_to_stream(s)
             c == v_cells[t]
             I == InRange(c, p0, p1) \cap With(c, s)
             d == seq_add(c, I, u)
  <2>1. t \in Streams
    BY StreamOfSeq
  <2>2. StreamOK(c, t)
    BY <1>0, <2>1 DEF CellsInv
  <2>3. /\ v_cells' = [v_cells EXCEPT ![t] = d] /\ seq_to_stream(u) = t
        /\ phase = "idle" /\ UNCHANGED call /\ UNCHANGED saved
    BY <1>0, <1>4, <2>1 DEF SeqCp, Idle, CellsInv
  <2> HIDE DEF c, t
  <2>4. I \in SUBSET Cells
    BY InRangeType
  <2>5. \A i \in I : c.pos[i] # -1
    BY <2>2, OccupiedNotEmpty DEF StreamOK
  <2> HIDE DEF I
  <2>6. d \in CellsType /\ CellsOK(d)
    BY <2>2, <2>4, <2>5, SeqAddOK DEF StreamOK
  <2>7. \A i \in Cells : d.seq[i] \subseteq c.seq[i] \cup {u}
    BY <2>2, <2>4, SeqAddEffect DEF StreamOK
  <2> HIDE DEF d
  <2>8. StreamOK(d, t)
    BY <2>2, <2>3, <2>6, <2>7 DEF StreamOK
  <2>9. CellsInv(v_cells)'
    BY <1>0, <2>1, <2>3, <2>8, OneStream
  <2> QED BY <2>3, <2>9, IdleStep, SavedSame
<1>5. ASSUME NEW s \in Seqs, NEW u \in Seqs, SeqCpStream(s, u) PROVE IInv'
  <2> DEFINE t == seq_to_stream(u)
             d == CopyCells(v_cells[seq_to_stream(s)], s, u)
  <2>1. t \in Streams /\ seq_to_stream(s) \in Streams
    BY StreamOfSeq
  <2>2. StreamOK(d, t)
    BY <1>0, <2>1, CopyCellsOK DEF CellsInv
  <2>3. v_cells' = [v_cells EXCEPT ![t] = d] /\ phase = "idle" /\ UNCHANGED call /\ UNCHANGED saved
    BY <1>5 DEF SeqCpStream, Idle
  <2> HIDE DEF t, d
  <2>4. CellsInv(v_cells)'
    BY <1>0, <2>1, <2>2, <2>3, OneStream
  <2> QED BY <2>3, <2>4, IdleStep, SavedSame
<1>6. ASSUME NEW s \in Seqs, SeqKeep(s) PROVE IInv'
  <2> DEFINE t == seq_to_stream(s)
             d == seq_keep(v_cells[t], s)
  <2>1. t \in Streams
    BY StreamOfSeq
  <2>2. StreamOK(v_cells[t], t)
    BY <1>0, <2>1 DEF CellsInv
  <2>3. StreamOK(d, t)
    BY <2>2, SeqKeepOK, SeqKeepEffect DEF StreamOK
  <2>4. v_cells' = [v_cells EXCEPT ![t] = d] /\ phase = "idle" /\ UNCHANGED call /\ UNCHANGED saved
    BY <1>6 DEF SeqKeep, Idle
  <2> HIDE DEF t, d
  <2>5. CellsInv(v_cells)'
    BY <1>0, <2>1, <2>3, <2>4, OneStream
  <2> QED BY <2>4, <2>5, IdleStep, SavedSame
<1>7. ASSUME NEW s \in Seqs, NEW p0 \in Bounds, NEW p1 \in Bounds, NEW n \in Shifts,
             SeqAdd(s, p0, p1, n)
      PROVE  IInv'
  <2> DEFINE t == seq_to_stream(s)
             c == v_cells[t]
             I == InRange(c, p0, p1) \cap With(c, s)
             d == pos_add(c, I, n)
  <2>1. t \in Streams /\ n \in Int
    BY StreamOfSeq, CacheAssumption
  <2>2. StreamOK(c, t)
    BY <1>0, <2>1 DEF CellsInv
  <2>3. v_cells' = [v_cells EXCEPT ![t] = d] /\ phase = "idle" /\ UNCHANGED call /\ UNCHANGED saved
    BY <1>7 DEF SeqAdd, Idle
  <2> HIDE DEF c, t
  <2>4. I \in SUBSET Cells
    BY InRangeType
  <2>5. \A i \in I : c.pos[i] # -1
    BY <2>2, OccupiedNotEmpty DEF StreamOK
  <2> HIDE DEF I
  <2>6. d \in CellsType /\ CellsOK(d)
    BY <2>1, <2>2, <2>4, <2>5, PosAddOK DEF StreamOK
  <2>7. \A i \in Cells : d.seq[i] \subseteq c.seq[i]
    BY <2>1, <2>2, <2>4, PosAddEffect DEF StreamOK
  <2> HIDE DEF d
  <2>8. StreamOK(d, t)
    BY <2>2, <2>6, <2>7 DEF StreamOK
  <2>9. CellsInv(v_cells)'
    BY <1>0, <2>1, <2>3, <2>8, OneStream
  <2> QED BY <2>3, <2>9, IdleStep, SavedSame
<1>8. ASSUME NEW s \in Seqs, NEW p0 \in Bounds, NEW p1 \in Bounds, NEW n \in Divs,
             SeqDiv(s, p0, p1, n)
      PROVE  IInv'
  <2> DEFINE t == seq_to_stream(s)
             c == v_cells[t]
             I == InRange(c, p0, p1) \cap With(c, s)
             d == pos_div(c, I, n)
  <2>1. t \in Streams /\ n \in Nat \ {0}
    BY StreamOfSeq, CacheAssumption
  <2>2. StreamOK(c, t)
    BY <1>0, <2>1 DEF CellsInv
  <2>3. v_cells' = [v_cells EXCEPT ![t] = d] /\ phase = "idle" /\ UNCHANGED call /\ UNCHANGED saved
    BY <1>8 DEF SeqDiv, Idle
  <2> HIDE DEF c, t
  <2>4. I \in SUBSET Cells
    BY InRangeType
  <2>5. \A i \in I : c.pos[i] # -1
    BY <2>2, OccupiedNotEmpty DEF StreamOK
  <2> HIDE DEF I
  <2>6. d \in CellsType /\ CellsOK(d)
    BY <2>1, <2>2, <2>4, <2>5, PosDivOK DEF StreamOK
  <2>7. d.seq = c.seq
    BY <2>1, <2>2, <2>4, PosDivEffect DEF StreamOK
  <2> HIDE DEF d
  <2>8. StreamOK(d, t)
    BY <2>2, <2>6, <2>7 DEF StreamOK
  <2>9. CellsInv(v_cells)'
    BY <1>0, <2>1, <2>3, <2>8, OneStream
  <2> QED BY <2>3, <2>9, IdleStep, SavedSame
<1> QED BY <1>1, <1>2, <1>3, <1>4, <1>5, <1>6, <1>7, <1>8 DEF Edit

-----------------------------------------------------------------------------
(* Steps of a decode call.                                                 *)

\* memory_update keeps the cells, done or failed.
LEMMA UpdateCells ==
    ASSUME CellsInv(v_cells), NEW ok, memory_update(ok)
    PROVE  CellsInv(v_cells)'
<1>1. CASE v_cells' = v_cells
  BY <1>1 DEF CellsInv
<1>2. CASE v_cells' = [t \in Streams |-> reset_shift(v_cells[t])]
  <2>1. \A t \in Streams : StreamOK(reset_shift(v_cells[t]), t)
    <3> TAKE t \in Streams
    <3>1. StreamOK(v_cells[t], t)
      BY DEF CellsInv
    <3>2. reset_shift(v_cells[t]) \in CellsType /\ CellsOK(reset_shift(v_cells[t]))
      BY <3>1, ResetShiftOK DEF StreamOK
    <3>3. reset_shift(v_cells[t]).seq = v_cells[t].seq
      BY <3>1 DEF reset_shift, StreamOK, CellsType
    <3> QED BY <3>1, <3>2, <3>3 DEF StreamOK
  <2> QED BY <1>2, <2>1 DEF CellsInv, StreamOK
<1> QED BY <1>1, <1>2 DEF memory_update

\* The tokens of a ubatch for a stream belong to that stream.
LEMMA UbatchTokens ==
    ASSUME NEW ub, UbatchOK(ub), NEW t \in DOMAIN ub
    PROVE  t \in Streams /\ TokensOK(ub[t], t)
BY DEF UbatchOK, TokensOK

\* apply_ubatch on every stream of a slot.
LEMMA ApplyAll ==
    ASSUME CellsInv(v_cells), NEW ub, UbatchOK(ub), NEW si, SinfoOK(si, ub)
    PROVE  /\ CellsInv(apply_cells(si, ub))
           /\ \A t \in Streams, i \in Cells :
                v_cells[t].shift[i] = 0 => apply_cells(si, ub)[t].shift[i] = 0
           /\ \A t \in DOMAIN si : \A i \in Range(si[t]) :
                apply_cells(si, ub)[t].shift[i] = 0
<1>1. ASSUME NEW t \in DOMAIN si
      PROVE  /\ t \in Streams /\ Range(si[t]) \in SUBSET Cells
             /\ apply_cells(si, ub)[t] = ApplyCells(v_cells[t], si[t], ub[t])
             /\ StreamOK(apply_cells(si, ub)[t], t)
             /\ \A i \in Cells : v_cells[t].shift[i] = 0 \/ i \in Range(si[t]) =>
                  apply_cells(si, ub)[t].shift[i] = 0
  <2>1. t \in DOMAIN ub /\ si[t] \in [1 .. Len(ub[t]) -> Cells]
    BY DEF SinfoOK
  <2>2. t \in Streams /\ TokensOK(ub[t], t)
    BY <2>1, UbatchTokens
  <2>3. StreamOK(v_cells[t], t)
    BY <2>2 DEF CellsInv
  <2>4. apply_cells(si, ub)[t] = ApplyCells(v_cells[t], si[t], ub[t])
    BY <2>2 DEF apply_cells
  <2>5. Range(si[t]) \in SUBSET Cells
    BY <2>1 DEF Range
  <2> QED BY <2>1, <2>2, <2>3, <2>4, <2>5, ApplyCellsOK
<1>2. ASSUME NEW t \in Streams, t \notin DOMAIN si
      PROVE  apply_cells(si, ub)[t] = v_cells[t] /\ StreamOK(apply_cells(si, ub)[t], t)
  BY <1>2 DEF apply_cells, CellsInv
<1>3. \A t \in Streams : StreamOK(apply_cells(si, ub)[t], t)
  BY <1>1, <1>2
<1>4. apply_cells(si, ub) \in [Streams -> CellsType]
  <2>1. apply_cells(si, ub) = [t \in Streams |-> apply_cells(si, ub)[t]]
    BY DEF apply_cells
  <2> QED BY <1>3, <2>1 DEF StreamOK
<1>5. \A t \in Streams, i \in Cells :
        v_cells[t].shift[i] = 0 => apply_cells(si, ub)[t].shift[i] = 0
  BY <1>1, <1>2
<1>6. \A t \in DOMAIN si : \A i \in Range(si[t]) : apply_cells(si, ub)[t].shift[i] = 0
  BY <1>1
<1> QED BY <1>3, <1>4, <1>5, <1>6 DEF CellsInv

\* A slot that find_slot returns has a cell for every token of the ubatch.
LEMMA FindSlotFits ==
    ASSUME NEW ub, NEW si \in find_slot(ub)
    PROVE  SinfoOK(si, ub)
<1>1. DOMAIN si = DOMAIN ub /\ \A t \in DOMAIN ub : si[t] \in SlotsIn(v_cells[t], v_heads[t], Len(ub[t]))
  BY DEF find_slot
<1>2. \A c, h, n : SlotsIn(c, h, n) \subseteq [1 .. n -> Cells]
  BY DEF SlotsIn
<1> QED BY <1>1, <1>2 DEF SinfoOK

\* What the provers need to know of Append, Front and Last.
LEMMA SeqFacts ==
    ASSUME NEW q, IsSeq(q)
    PROVE  /\ Len(q) \in Nat /\ DOMAIN q = 1 .. Len(q)
           /\ \A x : /\ IsSeq(Append(q, x)) /\ Len(Append(q, x)) = Len(q) + 1
                     /\ \A k \in 1 .. Len(q) : Append(q, x)[k] = q[k]
                     /\ Append(q, x)[Len(q) + 1] = x
           /\ q # <<>> => /\ Len(q) > 0 /\ Last(q) = q[Len(q)]
                          /\ IsSeq(Front(q)) /\ Len(Front(q)) = Len(q) - 1
                          /\ \A k \in 1 .. (Len(q) - 1) : Front(q)[k] = q[k]
<1> DEFINE S == Range(q)
<1>1. q \in Seq(S)
  BY DEF IsSeq
<1>2. Len(q) \in Nat /\ DOMAIN q = 1 .. Len(q)
  BY <1>1
<1>3. ASSUME NEW x
      PROVE  /\ IsSeq(Append(q, x)) /\ Len(Append(q, x)) = Len(q) + 1
             /\ \A k \in 1 .. Len(q) : Append(q, x)[k] = q[k]
             /\ Append(q, x)[Len(q) + 1] = x
  <2> DEFINE a == Append(q, x)
  <2>1. q \in Seq(S \cup {x})
    BY <1>1
  <2>2. a \in Seq(S \cup {x}) /\ Len(a) = Len(q) + 1
    BY <2>1
  <2>3. \A k \in 1 .. Len(q) : a[k] = q[k]
    BY <2>1
  <2>4. a[Len(q) + 1] = x
    BY <2>1
  <2> HIDE DEF a
  <2>5. a \in [1 .. Len(a) -> Range(a)]
    BY <2>2 DEF Range
  <2>6. IsSeq(a)
    BY <1>2, <2>2, <2>5 DEF IsSeq
  <2> QED BY <2>2, <2>3, <2>4, <2>6 DEF a
<1>4. ASSUME q # <<>>
      PROVE  /\ Len(q) > 0 /\ Last(q) = q[Len(q)]
             /\ IsSeq(Front(q)) /\ Len(Front(q)) = Len(q) - 1
             /\ \A k \in 1 .. (Len(q) - 1) : Front(q)[k] = q[k]
  <2>1. Len(q) > 0
    BY <1>1, <1>4
  <2> DEFINE f == SubSeq(q, 1, Len(q) - 1)
  <2>2. f \in Seq(S) /\ Len(f) = Len(q) - 1
    <3> HIDE DEF S
    <3>1. \A k \in 1 .. (Len(q) - 1) : q[k] \in S
      BY <1>1, <2>1
    <3>2. 1 \in Int /\ Len(q) - 1 \in Int /\ (1 <= Len(q) - 1 \/ Len(q) - 1 = 0)
      BY <1>2, <2>1
    <3> QED BY <1>2, <3>1, <3>2, SubSeqProperties
  <2>3. \A k \in 1 .. (Len(q) - 1) : f[k] = q[k]
    BY <1>1, <2>1
  <2> HIDE DEF f
  <2>4. f \in [1 .. Len(f) -> Range(f)]
    BY <2>2 DEF Range
  <2>5. IsSeq(f)
    BY <1>2, <2>2, <2>4 DEF IsSeq
  <2>6. Front(q) = f /\ Last(q) = q[Len(q)]
    BY DEF Front, Last, f
  <2> QED BY <2>1, <2>2, <2>3, <2>5, <2>6
<1> QED BY <1>2, <1>3, <1>4

\* The end of a decode call keeps the invariant if the cells are well formed.
LEMMA CallEndsOK ==
    ASSUME IInv, CallEnds, CellsInv(v_cells)', UNCHANGED saved
    PROVE  IInv'
<1>1. IsSeq(sinfos)' /\ IsSeq(states)'
  BY EmptyQueue DEF CallEnds
<1>2. StackInv'
  BY EmptyQueue DEF CallEnds, StackInv
<1>3. CallInv'
  BY <1>1 DEF CallEnds, CallInv
<1> QED BY <1>2, <1>3, SavedSame DEF IInv

\* Starting a decode call keeps the invariant.
LEMMA DecodeBeginKeeps ==
    ASSUME IInv, NEW ubs, NEW ok, DecodeBegin(ubs, ok)
    PROVE  IInv'
<1>1. CellsInv(v_cells)'
  BY UpdateCells DEF IInv, DecodeBegin
<1>2. /\ phase = "idle" /\ phase' = "prepare" /\ ubatches' = ubs /\ UbatchesOK(ubs)
      /\ sinfos' = sinfos /\ states' = states /\ done' = done /\ UNCHANGED saved
  BY DEF DecodeBegin
<1>3. sinfos = <<>> /\ states = <<>> /\ done = 0 /\ IsSeq(sinfos) /\ IsSeq(states)
  BY <1>2 DEF IInv, CallInv
<1>4. IsSeq(ubs) /\ Len(ubs) \in Nat
  BY <1>2, SeqFacts DEF UbatchesOK, IsSeq
<1>5. CallInv'
  BY <1>2, <1>3, <1>4, EmptyQueue DEF CallInv
<1>6. StackInv'
  BY <1>2, <1>3, EmptyQueue DEF StackInv
<1> QED BY <1>1, <1>2, <1>5, <1>6, SavedSame DEF IInv

\* The ubatches of a running call.
LEMMA CurrentUbatch ==
    ASSUME IInv, phase # "idle"
    PROVE  /\ IsSeq(ubatches) /\ Len(ubatches) \in Nat /\ DOMAIN ubatches = 1 .. Len(ubatches)
           /\ \A k \in DOMAIN ubatches : UbatchOK(ubatches[k])
           /\ Len(ubatches) > 0
<1>1. UbatchesOK(ubatches) /\ IsSeq(ubatches) /\ ubatches # <<>>
  BY DEF IInv, CallInv, UbatchesOK, IsSeq
<1> QED BY <1>1, SeqFacts DEF UbatchesOK

\* prepare()'s first loop pushes a recovery record that set can put back.
LEMMA PrepareUbatchKeeps ==
    ASSUME IInv, PrepareUbatch
    PROVE  IInv'
<1> DEFINE n == Len(sinfos)
           ub == ubatches[n + 1]
<1>1. /\ phase = "prepare" /\ phase' = phase /\ ubatches' = ubatches /\ done' = done
      /\ UNCHANGED saved /\ n < Len(ubatches)
  BY DEF PrepareUbatch
<1>2. PICK si \in find_slot(ub) :
        /\ sinfos' = Append(sinfos, si)
        /\ states' = Append(states,
             [heads |-> v_heads,
              rows  |-> [t \in DOMAIN si |-> cp(v_cells[t], Range(si[t]))]])
        /\ v_cells' = apply_cells(si, ub)
  BY DEF PrepareUbatch
<1> DEFINE st == [heads |-> v_heads,
                  rows  |-> [t \in DOMAIN si |-> cp(v_cells[t], Range(si[t]))]]
<1>3. /\ IsSeq(ubatches) /\ Len(ubatches) \in Nat /\ DOMAIN ubatches = 1 .. Len(ubatches)
      /\ \A k \in DOMAIN ubatches : UbatchOK(ubatches[k])
  BY <1>1, CurrentUbatch
<1>4. /\ CellsInv(v_cells) /\ IsSeq(sinfos) /\ IsSeq(states) /\ done = 0
      /\ \A k \in DOMAIN sinfos : SinfoOK(sinfos[k], ubatches[k])
      /\ \A k \in DOMAIN states : StateOK(states[k], v_cells)
  BY <1>1 DEF IInv, CallInv, StackInv
<1>5. /\ n \in Nat /\ DOMAIN sinfos = 1 .. n
      /\ IsSeq(sinfos') /\ Len(sinfos') = n + 1 /\ DOMAIN sinfos' = 1 .. (n + 1)
      /\ sinfos'[n + 1] = si /\ \A k \in 1 .. n : sinfos'[k] = sinfos[k]
  BY <1>2, <1>4, SeqFacts
<1>6. UbatchOK(ub)
  BY <1>1, <1>3, <1>5
<1>7. SinfoOK(si, ub)
  BY FindSlotFits
<1> DEFINE new == apply_cells(si, ub)
<1>8. /\ CellsInv(new)
      /\ \A t \in Streams, i \in Cells : v_cells[t].shift[i] = 0 => new[t].shift[i] = 0
      /\ \A t \in DOMAIN si : \A i \in Range(si[t]) : new[t].shift[i] = 0
  BY <1>4, <1>6, <1>7, ApplyAll
<1>9. CellsInv(v_cells)'
  BY <1>2, <1>8
<1>10. \A k \in DOMAIN sinfos' : SinfoOK(sinfos'[k], ubatches[k])
  BY <1>4, <1>5, <1>7
<1> DEFINE m == Len(states)
<1>11. /\ m \in Nat /\ DOMAIN states = 1 .. m
       /\ IsSeq(states') /\ Len(states') = m + 1 /\ DOMAIN states' = 1 .. (m + 1)
       /\ states'[m + 1] = st /\ \A k \in 1 .. m : states'[k] = states[k]
  BY <1>2, <1>4, SeqFacts
<1>12. StateOK(st, new)
  <2>1. DOMAIN st.rows = DOMAIN si
    OBVIOUS
  <2>2. ASSUME NEW t \in DOMAIN si
        PROVE  /\ t \in Streams
               /\ DOMAIN st.rows[t] \in SUBSET Cells
               /\ RowsOK(st.rows[t], DOMAIN st.rows[t])
               /\ \A i \in DOMAIN st.rows[t] :
                    /\ new[t].shift[i] = 0
                    /\ \A s \in st.rows[t][i].seqs : seq_to_stream(s) = t
    <3> DEFINE I == Range(si[t])
               c == v_cells[t]
    <3>1. t \in Streams /\ si[t] \in [1 .. Len(ub[t]) -> Cells]
      BY <1>6, <1>7, UbatchTokens DEF SinfoOK
    <3>2. I \in SUBSET Cells
      BY <3>1 DEF Range
    <3>3. StreamOK(c, t)
      BY <1>4, <3>1 DEF CellsInv
    <3>4. st.rows[t] = cp(c, I)
      OBVIOUS
    <3>5. \A i \in I : new[t].shift[i] = 0
      BY <1>8
    <3> HIDE DEF st, I, c, new
    <3>6. RowsOK(cp(c, I), I) /\ DOMAIN cp(c, I) = I
      BY <3>2, <3>3, CpOK DEF StreamOK, cp
    <3>7. \A i \in I : \A s \in cp(c, I)[i].seqs : seq_to_stream(s) = t
      BY <3>2, <3>3 DEF cp, StreamOK
    <3> QED BY <3>1, <3>2, <3>4, <3>5, <3>6, <3>7
  <2> HIDE DEF st, new
  <2> QED BY <2>1, <2>2 DEF StateOK
<1> HIDE DEF st, new
<1>13. \A k \in 1 .. m : StateOK(states[k], new)
  <2> SUFFICES ASSUME NEW k \in 1 .. m PROVE StateOK(states[k], new)
    OBVIOUS
  <2>1. StateOK(states[k], v_cells)
    BY <1>4, <1>11
  <2> QED BY <1>8, <2>1 DEF StateOK
<1>14. StackInv'
  BY <1>2, <1>11, <1>12, <1>13 DEF StackInv, new
<1>15. Len(sinfos') <= Len(ubatches)
  BY <1>1, <1>3, <1>5
<1>16. CallInv'
  <2>1. (phase # "idle" => UbatchesOK(ubatches))'
    BY <1>1 DEF IInv, CallInv, UbatchesOK, UbatchOK
  <2> QED BY <1>1, <1>4, <1>5, <1>10, <1>11, <1>15, <2>1 DEF CallInv
<1> QED BY <1>1, <1>9, <1>14, <1>16, SavedSame DEF IInv

\* prepare()'s second loop pops records in reverse order and keeps the invariant.
LEMMA RestoreUbatchKeeps ==
    ASSUME IInv, RestoreUbatch
    PROVE  IInv'
<1> DEFINE st == Last(states)
           T  == DOMAIN st.rows
           n  == Len(states)
<1>1. /\ phase = "restore" /\ phase' = phase /\ ubatches' = ubatches /\ done' = done
      /\ sinfos' = sinfos /\ UNCHANGED saved /\ states # <<>> /\ states' = Front(states)
      /\ v_cells' = [t \in Streams |-> IF t \in T THEN set(v_cells[t], st.rows[t])
                                                  ELSE v_cells[t]]
  BY DEF RestoreUbatch
<1>2. /\ CellsInv(v_cells) /\ IsSeq(states)
      /\ \A k \in DOMAIN states : StateOK(states[k], v_cells)
  BY DEF IInv, CallInv, StackInv
<1>3. /\ n \in Nat /\ n > 0 /\ DOMAIN states = 1 .. n /\ st = states[n]
      /\ IsSeq(states') /\ DOMAIN states' = 1 .. (n - 1)
      /\ \A k \in 1 .. (n - 1) : states'[k] = states[k]
  BY <1>1, <1>2, SeqFacts
<1>4. StateOK(st, v_cells)
  BY <1>2, <1>3
<1> HIDE DEF st
<1>5. ASSUME NEW t \in Streams
      PROVE  StreamOK(v_cells'[t], t) /\ v_cells'[t].shift = v_cells[t].shift
  <2>0. StreamOK(v_cells[t], t)
    BY <1>2 DEF CellsInv
  <2>1. CASE t \in T
    <3> DEFINE c == v_cells[t]
               rows == st.rows[t]
               I == DOMAIN rows
    <3>1. /\ I \in SUBSET Cells /\ RowsOK(rows, I)
          /\ \A i \in I : c.shift[i] = 0
          /\ \A i \in I : \A s \in rows[i].seqs : seq_to_stream(s) = t
      BY <1>4, <2>1 DEF StateOK
    <3>2. v_cells'[t] = set(c, rows)
      BY <1>1, <2>1
    <3>3. c \in CellsType /\ CellsOK(c)
      BY <2>0 DEF StreamOK
    <3> HIDE DEF c, rows, I
    <3>4. /\ set(c, rows) \in CellsType
          /\ CellsOK(set(c, rows))
          /\ set(c, rows).shift = c.shift
          /\ \A i \in Cells : set(c, rows).seq[i] = IF i \in I THEN rows[i].seqs ELSE c.seq[i]
      BY <3>1, <3>3, SetOK
    <3>5. \A i \in Cells : \A s \in set(c, rows).seq[i] : seq_to_stream(s) = t
      BY <2>0, <3>1, <3>4 DEF StreamOK, c
    <3> QED BY <3>2, <3>4, <3>5 DEF StreamOK, c
  <2>2. CASE t \notin T
    BY <1>1, <2>0, <2>2
  <2> QED BY <2>1, <2>2
<1>6. CellsInv(v_cells)'
  <2>1. v_cells' \in [Streams -> CellsType]
    <3>1. v_cells' = [t \in Streams |-> v_cells'[t]]
      BY <1>1
    <3> QED BY <1>5, <3>1 DEF StreamOK
  <2> QED BY <1>5, <2>1 DEF CellsInv
<1>7. StackInv'
  <2> SUFFICES ASSUME NEW k \in 1 .. (n - 1) PROVE StateOK(states[k], v_cells')
    BY <1>3 DEF StackInv
  <2>1. StateOK(states[k], v_cells)
    BY <1>2, <1>3
  <2> QED BY <1>5, <2>1 DEF StateOK
<1>8. CallInv'
  BY <1>1, <1>3 DEF IInv, CallInv, UbatchesOK, UbatchOK, SinfoOK, IsSeq
<1> QED BY <1>1, <1>6, <1>7, <1>8, SavedSame DEF IInv

\* The clean-up after a failure keeps the cells well formed.
LEMMA RemoveFromOK ==
    ASSUME NEW cells, CellsInv(cells), NEW from
    PROVE  CellsInv(RemoveFrom(cells, from))
<1>1. \A t \in Streams : StreamOK(RemoveFrom(cells, from)[t], t)
  BY SeqRmStream DEF CellsInv, RemoveFrom
<1>2. RemoveFrom(cells, from) = [t \in Streams |-> RemoveFrom(cells, from)[t]]
  BY DEF RemoveFrom
<1> QED BY <1>1, <1>2 DEF CellsInv, StreamOK

\* The ubatch a "decode" step works on, applied.
LEMMA CurrentApplied ==
    ASSUME IInv, phase = "decode"
    PROVE  /\ CellsInv(apply_cells(sinfos[done + 1], ubatches[done + 1]))
           /\ done + 1 <= Len(ubatches)
<1>1. /\ IsSeq(ubatches) /\ Len(ubatches) \in Nat /\ DOMAIN ubatches = 1 .. Len(ubatches)
      /\ \A k \in DOMAIN ubatches : UbatchOK(ubatches[k])
  BY CurrentUbatch
<1>2. /\ CellsInv(v_cells) /\ IsSeq(sinfos) /\ done \in Nat
      /\ Len(sinfos) = Len(ubatches) /\ done < Len(ubatches)
      /\ \A k \in DOMAIN sinfos : SinfoOK(sinfos[k], ubatches[k])
  BY DEF IInv, CallInv
<1>3. DOMAIN sinfos = 1 .. Len(sinfos)
  BY <1>2, SeqFacts
<1>4. UbatchOK(ubatches[done + 1]) /\ SinfoOK(sinfos[done + 1], ubatches[done + 1])
  BY <1>1, <1>2, <1>3
<1> QED BY <1>1, <1>2, <1>4, ApplyAll

\* Every step of a decode call keeps the inductive invariant.
LEMMA DecodeKeeps == ASSUME IInv, Decode PROVE IInv'
<1>1. ASSUME NEW ubs, NEW ok, DecodeBegin(ubs, ok) PROVE IInv'
  BY <1>1, DecodeBeginKeeps
<1>2. ASSUME PrepareEnd PROVE IInv'
  <2>1. CallInv'
    BY <1>2 DEF PrepareEnd, IInv, CallInv, UbatchesOK, UbatchOK, SinfoOK, IsSeq
  <2>2. StackInv' /\ CellsInv(v_cells)'
    BY <1>2 DEF PrepareEnd, IInv, StackInv, StateOK, CellsInv
  <2> QED BY <1>2, <2>1, <2>2, SavedSame DEF PrepareEnd, IInv
<1>3. ASSUME PrepareSucceeds PROVE IInv'
  <2>1. Len(ubatches) \in Nat /\ Len(ubatches) > 0 /\ done = 0
    BY <1>3, CurrentUbatch DEF PrepareSucceeds, Prepared, IInv, CallInv
  <2>2. CallInv'
    BY <1>3, <2>1 DEF PrepareSucceeds, Prepared, IInv, CallInv, UbatchesOK, UbatchOK, SinfoOK, IsSeq
  <2>3. StackInv' /\ CellsInv(v_cells)'
    BY <1>3 DEF PrepareSucceeds, IInv, StackInv, StateOK, CellsInv
  <2> QED BY <1>3, <2>2, <2>3, SavedSame DEF PrepareSucceeds, IInv
<1>4. ASSUME NEW ok, PrepareRetries(ok) PROVE IInv'
  <2>1. CellsInv(v_cells)'
    BY <1>4, UpdateCells DEF IInv, PrepareRetries
  <2>2. /\ phase = "restore" /\ phase' = "prepare" /\ ubatches' = ubatches /\ done' = done
        /\ UNCHANGED saved /\ states = <<>> /\ states' = states /\ sinfos' = <<>>
    BY <1>4 DEF PrepareRetries, Prepared
  <2>3. Len(ubatches) \in Nat
    BY <2>2, CurrentUbatch
  <2>4. StackInv'
    BY <2>2, EmptyQueue DEF StackInv
  <2>5. IsSeq(sinfos') /\ Len(sinfos') = 0 /\ \A k : k \notin DOMAIN sinfos'
    BY <2>2, EmptyQueue
  <2>6. CallInv'
    BY <2>2, <2>3, <2>5 DEF IInv, CallInv, UbatchesOK, UbatchOK, IsSeq
  <2> QED BY <2>1, <2>2, <2>4, <2>6, SavedSame DEF IInv
<1>5. ASSUME PrepareFails PROVE IInv'
  <2>1. CellsInv(v_cells)'
    BY <1>5 DEF PrepareFails, IInv, CellsInv
  <2> QED BY <1>5, <2>1, CallEndsOK DEF PrepareFails
<1>8. ASSUME ReserveFails PROVE IInv'
  <2>1. CellsInv(v_cells)'
    BY <1>8 DEF ReserveFails, IInv, CellsInv
  <2> QED BY <1>8, <2>1, CallEndsOK DEF ReserveFails
<1>6. ASSUME DecodeUbatch PROVE IInv'
  <2>1. phase = "decode"
    BY <1>6 DEF DecodeUbatch
  <2>2. CellsInv(apply_cells(sinfos[done + 1], ubatches[done + 1])) /\ done + 1 <= Len(ubatches)
    BY <2>1, CurrentApplied
  <2>3. CellsInv(v_cells)' /\ UNCHANGED saved
    BY <1>6, <2>2 DEF DecodeUbatch
  <2>4. CASE CallEnds
    BY <2>3, <2>4, CallEndsOK
  <2>5. CASE /\ done + 1 # Len(ubatches) /\ done' = done + 1
             /\ UNCHANGED <<phase, ubatches, sinfos, states, did_optimize, before>>
    <3>1. Len(ubatches) \in Nat /\ done \in Nat
      BY <2>1, CurrentUbatch DEF IInv, CallInv
    <3>2. done' \in Nat /\ done' < Len(ubatches)
      BY <2>2, <2>5, <3>1
    <3>3. CallInv'
      BY <2>1, <2>5, <3>2 DEF IInv, CallInv, UbatchesOK, UbatchOK, SinfoOK, IsSeq
    <3>4. StackInv'
      BY <2>1, <2>5, EmptyQueue DEF IInv, CallInv, StackInv
    <3> QED BY <2>3, <3>3, <3>4, SavedSame DEF IInv
  <2> QED BY <1>6, <2>4, <2>5 DEF DecodeUbatch
<1>7. ASSUME NEW how \in Failures, DecodeFails(how) PROVE IInv'
  <2>1. phase = "decode"
    BY <1>7 DEF DecodeFails
  <2> DEFINE placed == apply_cells(sinfos[done + 1], ubatches[done + 1])
             from == IF how = "oom" THEN CallFrom ELSE FailedFrom(ubatches[done + 1])
  <2>2. CellsInv(placed)
    BY <2>1, CurrentApplied
  <2>3. v_cells' = RemoveFrom(placed, from) /\ CallEnds /\ UNCHANGED saved
    BY <1>7 DEF DecodeFails
  <2> HIDE DEF placed, from
  <2>4. CellsInv(v_cells)'
    BY <2>2, <2>3, RemoveFromOK
  <2> QED BY <2>3, <2>4, CallEndsOK
<1> QED BY <1>1, <1>2, <1>3, <1>4, <1>5, <1>6, <1>7, <1>8, PrepareUbatchKeeps, RestoreUbatchKeeps
        DEF Decode

-----------------------------------------------------------------------------
(* Saving and restoring a sequence.                                        *)

\* Saving and restoring a sequence keep the inductive invariant.
LEMMA StateIoKeeps == ASSUME IInv, StateIo PROVE IInv'
<1>0. CellsInv(v_cells) /\ SavedInv
  BY DEF IInv
<1>1. ASSUME NEW s \in Seqs, StateSave(s) PROVE IInv'
  <2> DEFINE t == seq_to_stream(s)
             c == v_cells[t]
             I == {i \in With(c, s) : ~is_masked_swa(c.pos[i], seq_pos_max(c, s))}
             n == Cardinality(I)
  <2>1. /\ phase = "idle" /\ UNCHANGED call /\ v_cells' = v_cells
        /\ \E idxs \in [1 .. n -> I] :
             saved' = [k \in DOMAIN idxs |-> [pos |-> c.pos[idxs[k]], tok |-> c.tok[idxs[k]],
                                              data |-> kv[t][idxs[k]]]]
    BY <1>1 DEF StateSave, StateIoGuard, Idle
  <2>2. PICK idxs \in [1 .. n -> I] :
          saved' = [k \in 1 .. n |-> [pos |-> c.pos[idxs[k]], tok |-> c.tok[idxs[k]],
                                      data |-> kv[t][idxs[k]]]]
    BY <2>1
  <2>3. t \in Streams
    BY StreamOfSeq
  <2>4. c \in CellsType /\ CellsOK(c)
    BY <1>0, <2>3 DEF CellsInv, StreamOK
  <2> HIDE DEF c, t
  <2>5. n \in Nat
    <3>1. IsFiniteSet(Cells)
      <4>1. 0 \in Int /\ NCells - 1 \in Int
        BY CellsAssumption
      <4> QED BY <4>1, FS_Interval DEF Cells
    <3>2. I \in SUBSET Cells
      BY DEF With
    <3> QED BY <3>1, <3>2, FS_Subset, FS_CardinalityType
  <2>6. \A i \in I : c.pos[i] \in Nat /\ c.tok[i] \in Tokens \cup {NoTok}
    BY <2>4, OccupiedNotEmpty DEF CellsType, With
  <2> HIDE DEF I, n
  <2>7. /\ DOMAIN saved' = 1 .. n
        /\ \A k \in 1 .. n : saved'[k].pos \in Nat /\ saved'[k].tok \in Tokens \cup {NoTok}
    BY <2>2, <2>6
  <2>8. saved' \in Seq(Range(saved'))
    <3> DEFINE q == saved'
    <3>1. q \in [1 .. n -> Range(q)]
      BY <2>2 DEF Range
    <3> HIDE DEF q
    <3>2. q \in Seq(Range(q))
      BY <2>5, <3>1
    <3> QED BY <3>2 DEF q
  <2>9. SavedInv'
    BY <2>7, <2>8 DEF SavedInv, IsSeq
  <2>10. CellsInv(v_cells)'
    BY <1>0, <2>1 DEF CellsInv
  <2> QED BY <2>1, <2>9, <2>10, IdleStep
<1>2. ASSUME NEW s \in Seqs
      PROVE  LET t == seq_to_stream(s)
             IN  /\ t \in Streams /\ StreamOK(v_cells[t], t) /\ StreamOK(Emptied(s), t)
                 /\ \A idxs \in RestoreSlots(s) :
                      StreamOK(ApplyCells(Emptied(s), idxs, SavedTokens(s)), t)
  <2> DEFINE t == seq_to_stream(s)
  <2>1. t \in Streams
    BY StreamOfSeq
  <2>2. StreamOK(v_cells[t], t)
    BY <1>0, <2>1 DEF CellsInv
  <2>3. StreamOK(Emptied(s), t)
    BY <2>2, SeqRmStream DEF Emptied
  <2>4. Len(saved) \in Nat /\ DOMAIN saved = 1 .. Len(saved)
    BY <1>0, SeqFacts DEF SavedInv
  <2>5. SavedTokens(s) \in [1 .. Len(saved) -> Token]
    <3>1. {s} \in (SUBSET Seqs) \ {{}}
      OBVIOUS
    <3> QED BY <1>0, <2>4, <3>1 DEF SavedTokens, SavedInv, Token
  <2>6. SavedTokens(s) \in Seq(Token) /\ Len(SavedTokens(s)) = Len(saved)
    BY <2>4, <2>5
  <2>7. TokensOK(SavedTokens(s), t)
    BY <2>4, <2>6 DEF TokensOK, SavedTokens
  <2>8. ASSUME NEW idxs \in RestoreSlots(s)
        PROVE  StreamOK(ApplyCells(Emptied(s), idxs, SavedTokens(s)), t)
    <3>1. idxs \in [1 .. Len(SavedTokens(s)) -> Cells]
      BY <2>6 DEF RestoreSlots, SlotsIn
    <3> HIDE DEF t
    <3> QED BY <2>1, <2>3, <2>7, <3>1, ApplyCellsOK
  <2> QED BY <2>1, <2>2, <2>3, <2>8
<1>3. ASSUME NEW s \in Seqs, StateRestore(s) PROVE IInv'
  <2> DEFINE t == seq_to_stream(s)
  <2>1. PICK idxs \in RestoreSlots(s) :
          v_cells' = [v_cells EXCEPT ![t] = ApplyCells(Emptied(s), idxs, SavedTokens(s))]
    BY <1>3 DEF StateRestore
  <2>2. phase = "idle" /\ UNCHANGED call /\ UNCHANGED saved
    BY <1>3 DEF StateRestore, StateIoGuard, Idle
  <2> DEFINE d == ApplyCells(Emptied(s), idxs, SavedTokens(s))
  <2>3. t \in Streams /\ StreamOK(d, t)
    BY <1>2
  <2>4. v_cells' = [v_cells EXCEPT ![t] = d]
    BY <2>1
  <2> HIDE DEF t, d
  <2>5. CellsInv(v_cells)'
    BY <1>0, <2>3, <2>4, OneStream
  <2> QED BY <2>2, <2>5, IdleStep, SavedSame
<1>4. ASSUME NEW s \in Seqs, StateRestoreFails(s) PROVE IInv'
  <2> DEFINE t == seq_to_stream(s)
             Dropped(c) == seq_rm(c, SeqRange(c, s, -1, -1))
  <2>1. phase = "idle" /\ UNCHANGED call /\ UNCHANGED saved
    BY <1>4 DEF StateRestoreFails, StateIoGuard, Idle
  <2>2. \/ v_cells' = [v_cells EXCEPT ![t] = Dropped(v_cells[t])]
        \/ \E idxs \in RestoreSlots(s) :
             v_cells' = [v_cells EXCEPT ![t] =
                           Dropped(ApplyCells(Emptied(s), idxs, SavedTokens(s)))]
    BY <1>4 DEF StateRestoreFails
  <2>3. \E c : StreamOK(c, t) /\ v_cells' = [v_cells EXCEPT ![t] = Dropped(c)]
    BY <1>2, <2>2
  <2>4. PICK c : StreamOK(c, t) /\ v_cells' = [v_cells EXCEPT ![t] = Dropped(c)]
    BY <2>3
  <2> DEFINE d == Dropped(c)
  <2>5. StreamOK(d, t)
    BY <2>4, SeqRmStream
  <2>6. t \in Streams /\ v_cells' = [v_cells EXCEPT ![t] = d]
    BY <2>4, StreamOfSeq
  <2> HIDE DEF t, d, Dropped
  <2>7. CellsInv(v_cells)'
    BY <1>0, <2>5, <2>6, OneStream
  <2> QED BY <2>1, <2>7, IdleStep, SavedSame
<1> QED BY <1>1, <1>3, <1>4 DEF StateIo

-----------------------------------------------------------------------------
\* The empty cache satisfies the inductive invariant.
LEMMA InitHolds == ASSUME Init PROVE IInv
<1>1. CellsInv(v_cells)
  BY ResetStream, ResetOK DEF Init, CellsInv
<1>2. CallInv
  BY EmptyQueue DEF Init, CallInv
<1>3. StackInv /\ SavedInv
  BY EmptyQueue DEF Init, StackInv, SavedInv
<1> QED BY <1>1, <1>2, <1>3 DEF IInv

\* A stuttering step keeps the inductive invariant.
LEMMA StutterKeeps == ASSUME IInv, UNCHANGED vars PROVE IInv'
<1>1. CellsInv(v_cells)' /\ StackInv' /\ SavedInv'
  BY DEF vars, IInv, CellsInv, StackInv, StateOK, SavedInv, IsSeq
<1>2. CallInv'
  BY DEF vars, IInv, CallInv, UbatchesOK, UbatchOK, SinfoOK, IsSeq
<1> QED BY <1>1, <1>2 DEF IInv

\* The inductive invariant holds in every state of the cache.
THEOREM Inductive == Spec => []IInv
<1>1. Init => IInv
  BY InitHolds
<1>2. IInv /\ [Next]_vars => IInv'
  BY EditKeeps, DecodeKeeps, StateIoKeeps, StutterKeeps DEF Next
<1> QED BY <1>1, <1>2, PTL DEF Spec

\* After any calls, failures and retries the indexes "used" and "seq_pos" of
\* every llama_kv_cells object agree with its cells.
THEOREM IndexesAlwaysAgree == Spec => []IndexesAgree
<1>1. IInv => IndexesAgree
  BY DEF IInv, CellsInv, StreamOK, IndexesAgree
<1> QED BY <1>1, Inductive, PTL

\* No cell ever carries a sequence of another stream.
THEOREM StreamsStaySeparate == Spec => []StreamsSeparate
<1>1. IInv => StreamsSeparate
  BY DEF IInv, CellsInv, StreamOK, StreamsSeparate
<1> QED BY <1>1, Inductive, PTL

-----------------------------------------------------------------------------
(* Types: heads, buffers, queued copies.                                   *)

Heads == [Streams -> 0 .. NCells]

\* The queued copies have exactly one history; and a decode call has none
\* left after its memory_update.
OneHistory(q) == \E h \in CopyHistories(q) : \A g \in CopyHistories(q) : g = h

TypeInv ==
    /\ v_heads \in Heads
    /\ sc_info \in Seq(Streams \X Streams)
    /\ kv \in [Streams -> [Cells -> Content]]
    /\ did_optimize \in BOOLEAN
    /\ \A k \in DOMAIN states : states[k].heads \in Heads
    /\ \A k \in DOMAIN saved : saved[k].data \in Content
    /\ OneHistory(sc_info)
    /\ phase # "idle" => sc_info = <<>>

\* A set of naturals that is not empty has a least element.
LEMMA MinOf ==
    ASSUME NEW S \in SUBSET Nat, S # {}
    PROVE  Min(S) \in S /\ \A j \in S : Min(S) <= j
<1> DEFINE R == {ss \in Nat \X Nat : ss[1] < ss[2]}
<1>1. IsWellFoundedOn(R, Nat)
  BY NatLessThanWellFounded, Zenon DEF OpToRel
<1>2. PICK m \in S : \A j \in S : ~(<<j, m>> \in R)
  <2> HIDE DEF R
  <2> QED BY <1>1, WFMin
<1>3. ASSUME NEW j \in S PROVE m <= j
  <2>1. j \in Nat /\ m \in Nat /\ ~(<<j, m>> \in R)
    BY <1>2
  <2> QED BY <2>1
<1>4. \E n \in S : \A j \in S : n <= j
  BY <1>3
<1> QED BY <1>4 DEF Min

\* A head moved to the first freed cell is a cell.
LEMMA HeadAfterType ==
    ASSUME NEW head \in 0 .. NCells, NEW freed \in SUBSET Cells
    PROVE  /\ HeadAfter(head, freed) \in 0 .. NCells
           /\ (IF freed # {} THEN Min(freed) ELSE 0) \in 0 .. NCells
<1>1. NCells \in Nat
  BY CellsAssumption
<1>2. CASE freed # {}
  <2> DEFINE m == Min(freed)
  <2>0. Cells \subseteq 0 .. NCells /\ 0 .. NCells \subseteq Nat
    BY <1>1 DEF Cells
  <2>1. m \in freed
    BY <1>2, <2>0, MinOf
  <2> HIDE DEF m
  <2>2. m \in 0 .. NCells
    BY <2>0, <2>1
  <2> QED BY <1>2, <2>2 DEF HeadAfter, m
<1>3. CASE freed = {}
  BY <1>1, <1>3 DEF HeadAfter
<1> QED BY <1>2, <1>3

LEMMA FreedType == ASSUME NEW c, NEW d PROVE Freed(c, d) \in SUBSET Cells
BY DEF Freed

\* The head behind a slot that is not empty.
LEMMA ApplyHeadType ==
    ASSUME NEW toks, Len(toks) \in Nat \ {0}, NEW idxs \in [1 .. Len(toks) -> Cells]
    PROVE  ApplyHead(idxs, toks) \in 0 .. NCells
<1>1. idxs[Len(toks)] \in Cells
  OBVIOUS
<1> QED BY <1>1, CellsAssumption DEF ApplyHead, Cells

\* apply_ubatch on every stream of a slot leaves heads.
LEMMA ApplyHeadsType ==
    ASSUME v_heads \in Heads, NEW ub, UbatchOK(ub), NEW si, SinfoOK(si, ub)
    PROVE  apply_heads(si, ub) \in Heads
<1>1. ASSUME NEW t \in DOMAIN si PROVE ApplyHead(si[t], ub[t]) \in 0 .. NCells
  <2>1. t \in DOMAIN ub /\ si[t] \in [1 .. Len(ub[t]) -> Cells] /\ ub[t] # <<>>
    BY DEF SinfoOK, UbatchOK
  <2>2. ub[t] \in Seq(Token)
    BY <2>1, UbatchTokens DEF TokensOK
  <2>3. Len(ub[t]) \in Nat \ {0}
    BY <2>1, <2>2
  <2> QED BY <2>1, <2>3, ApplyHeadType
<1> QED BY <1>1 DEF apply_heads, Heads

\* What a ubatch writes has the type of the buffers.
LEMMA WrittenType ==
    ASSUME kv \in [Streams -> [Cells -> Content]], NEW ub, UbatchOK(ub),
           NEW si, SinfoOK(si, ub), NEW ok \in BOOLEAN
    PROVE  Written(si, ub, ok) \in [Streams -> [Cells -> Content]]
<1>1. Garbage \in Content
  BY DEF Garbage, Content
<1>2. ASSUME NEW t \in DOMAIN si, NEW i \in Range(si[t])
      PROVE  [tok |-> At(si[t], ub[t])[i].tok, rope |-> At(si[t], ub[t])[i].pos] \in Content
  <2>1. t \in DOMAIN ub /\ si[t] \in [1 .. Len(ub[t]) -> Cells]
    BY DEF SinfoOK
  <2>2. ub[t] \in Seq(Token)
    BY <2>1, UbatchTokens DEF TokensOK
  <2>3. PICK k \in DOMAIN ub[t] : At(si[t], ub[t])[i] = ub[t][k]
    BY <2>1, <2>2, AtType
  <2>4. ub[t][k] \in Token
    BY <2>2, <2>3
  <2> QED BY <2>3, <2>4 DEF Token, Content
<1>3. ASSUME NEW t \in Streams, NEW i \in Cells
      PROVE  (IF t \in DOMAIN si /\ i \in Range(si[t])
              THEN IF ok THEN LET x == At(si[t], ub[t])[i] IN [tok |-> x.tok, rope |-> x.pos]
                         ELSE Garbage
              ELSE kv[t][i]) \in Content
  BY <1>1, <1>2
<1> QED BY <1>3 DEF Written

\* The one history of an empty queue.
LEMMA EmptyHistory ==
    ASSUME NEW q, q = <<>>
    PROVE  /\ OneHistory(q)
           /\ (CHOOSE g \in CopyHistories(q) : TRUE)[Len(q)] = [t \in Streams |-> t]
<1> DEFINE id == [t \in Streams |-> t]
           e == [k \in 0 .. 0 |-> id]
           H == CopyHistories(q)
<1>1. Len(q) = 0
  OBVIOUS
<1>2. \A h : h \in H <=> h \in [0 .. 0 -> [Streams -> Streams]] /\ h[0] = id
  BY <1>1 DEF CopyHistories
<1>3. e \in H
  <2>1. e[0] = id /\ e \in [0 .. 0 -> [Streams -> Streams]]
    OBVIOUS
  <2> HIDE DEF H
  <2> QED BY <1>2, <2>1
<1>4. ASSUME NEW g \in H PROVE g = e /\ g[0] = id
  <2>1. g \in [0 .. 0 -> [Streams -> Streams]] /\ g[0] = id
    BY <1>2
  <2>2. \A k \in 0 .. 0 : g[k] = e[k]
    BY <2>1
  <2> HIDE DEF H
  <2> QED BY <2>1, <2>2
<1>5. OneHistory(q)
  BY <1>3, <1>4 DEF OneHistory
<1>6. (CHOOSE g \in H : TRUE)[0] = id
  <2> HIDE DEF H
  <2>1. (CHOOSE g \in H : TRUE) \in H
    BY <1>3
  <2> QED BY <1>4, <2>1
<1> QED BY <1>1, <1>5, <1>6

\* With nothing queued the buffers are final.
LEMMA NoCopies ==
    ASSUME sc_info = <<>>, kv \in [Streams -> [Cells -> Content]]
    PROVE  AfterCopies = kv
<1> DEFINE h == CHOOSE g \in CopyHistories(sc_info) : TRUE
<1>1. h[Len(sc_info)] = [t \in Streams |-> t]
  BY EmptyHistory
<1>2. AfterCopies = [t \in Streams |-> kv[h[Len(sc_info)][t]]]
  BY DEF AfterCopies
<1> HIDE DEF h
<1> QED BY <1>1, <1>2

\* The histories of p are those of q with a copy from t to u at the end.
OneMore(p, q, t, u) ==
    \A h \in CopyHistories(p), g \in CopyHistories(q) : \A r \in Streams :
        h[Len(p)][r] = IF r = u THEN g[Len(q)][t] ELSE g[Len(q)][r]

\* One more copy: the histories of the longer queue are those of the shorter
\* one with a last entry.
LEMMA CopyAppended ==
    ASSUME NEW q \in Seq(Streams \X Streams), OneHistory(q),
           NEW t \in Streams, NEW u \in Streams, NEW p, p = Append(q, <<t, u>>)
    PROVE  OneHistory(p) /\ OneMore(p, q, t, u)
<1> DEFINE n == Len(q)
           H == CopyHistories(q)
<1>1. /\ n \in Nat /\ Len(p) = n + 1 /\ p[n + 1][1] = t /\ p[n + 1][2] = u
      /\ \A k \in 1 .. n : p[k] = q[k]
  <2>1. p[n + 1] = <<t, u>> /\ n \in Nat /\ Len(p) = n + 1 /\ \A k \in 1 .. n : p[k] = q[k]
    OBVIOUS
  <2> QED BY <2>1
<1>2. PICK e \in H : \A g \in H : g = e
  BY DEF OneHistory
<1>3. /\ e \in [0 .. n -> [Streams -> Streams]] /\ e[0] = [r \in Streams |-> r]
      /\ \A k \in 1 .. n : e[k] = [e[k - 1] EXCEPT ![q[k][2]] = e[k - 1][q[k][1]]]
  BY <1>2 DEF CopyHistories
<1> DEFINE last == [e[n] EXCEPT ![u] = e[n][t]]
           f == [k \in 0 .. (n + 1) |-> IF k = n + 1 THEN last ELSE e[k]]
<1> HIDE DEF n, H
<1>4. ASSUME NEW h \in CopyHistories(p) PROVE h = f
  <2>1. /\ h \in [0 .. (n + 1) -> [Streams -> Streams]] /\ h[0] = [r \in Streams |-> r]
        /\ \A k \in 1 .. (n + 1) : h[k] = [h[k - 1] EXCEPT ![p[k][2]] = h[k - 1][p[k][1]]]
    BY <1>1 DEF CopyHistories
  <2> DEFINE r == [k \in 0 .. n |-> h[k]]
  <2>2. r \in [0 .. n -> [Streams -> Streams]] /\ r[0] = [w \in Streams |-> w]
    BY <1>1, <2>1
  <2>3. ASSUME NEW k \in 1 .. n
        PROVE  r[k] = [r[k - 1] EXCEPT ![q[k][2]] = r[k - 1][q[k][1]]]
    <3>1. k \in 1 .. (n + 1) /\ k \in 0 .. n /\ k - 1 \in 0 .. n /\ p[k] = q[k]
      BY <1>1
    <3>2. h[k] = [h[k - 1] EXCEPT ![q[k][2]] = h[k - 1][q[k][1]]]
      BY <2>1, <3>1
    <3>3. r[k] = h[k] /\ r[k - 1] = h[k - 1]
      BY <3>1
    <3> HIDE DEF r
    <3> QED BY <3>2, <3>3
  <2> HIDE DEF r
  <2>4. r \in H
    BY <2>2, <2>3 DEF CopyHistories, H, n
  <2>5. r = e
    BY <1>2, <2>4
  <2>6. \A k \in 0 .. n : h[k] = e[k]
    BY <2>5 DEF r
  <2>7. h[n + 1] = last
    <3>1. n + 1 \in 1 .. (n + 1) /\ (n + 1) - 1 = n /\ n \in 0 .. n
      BY <1>1
    <3>2. h[n + 1] = [h[n] EXCEPT ![u] = h[n][t]]
      BY <1>1, <2>1, <3>1
    <3> QED BY <2>6, <3>1, <3>2
  <2>8. \A k \in 0 .. (n + 1) : h[k] = f[k]
    <3> HIDE DEF last
    <3> QED BY <1>1, <2>6, <2>7
  <2> HIDE DEF f
  <2>9. f = [k \in 0 .. (n + 1) |-> f[k]]
    BY DEF f
  <2> QED BY <2>1, <2>8, <2>9
<1>5. f \in CopyHistories(p)
  <2>0. last \in [Streams -> Streams]
    <3>1. e[n] \in [Streams -> Streams]
      BY <1>1, <1>3
    <3> QED BY <3>1
  <2>1. f \in [0 .. (n + 1) -> [Streams -> Streams]] /\ f[0] = [r \in Streams |-> r]
    <3> HIDE DEF last
    <3> QED BY <1>1, <1>3, <2>0
  <2>2. ASSUME NEW k \in 1 .. (n + 1)
        PROVE  f[k] = [f[k - 1] EXCEPT ![p[k][2]] = f[k - 1][p[k][1]]]
    <3>1. f[k - 1] = e[k - 1]
      BY <1>1
    <3>2. CASE k = n + 1
      <4>1. f[k] = last /\ k - 1 = n
        BY <1>1, <3>2
      <4> QED BY <1>1, <3>1, <3>2, <4>1
    <3>3. CASE k # n + 1
      <4>1. k \in 1 .. n /\ p[k] = q[k]
        BY <1>1, <3>3
      <4>2. f[k] = e[k]
        BY <1>1, <3>3
      <4> QED BY <1>3, <3>1, <4>1, <4>2
    <3> QED BY <3>2, <3>3
  <2> HIDE DEF f
  <2> QED BY <1>1, <2>1, <2>2 DEF CopyHistories
<1>6. OneHistory(p)
  <2> HIDE DEF f
  <2> QED BY <1>4, <1>5 DEF OneHistory
<1>7. ASSUME NEW h \in CopyHistories(p), NEW g \in CopyHistories(q), NEW r \in Streams
      PROVE  h[Len(p)][r] = IF r = u THEN g[Len(q)][t] ELSE g[Len(q)][r]
  <2>1. g = e
    BY <1>2 DEF H
  <2>2. h = f
    BY <1>4
  <2>3. f[n + 1] = last
    BY <1>1
  <2>4. e[n] \in [Streams -> Streams]
    BY <1>1, <1>3
  <2>5. last[r] = IF r = u THEN e[n][t] ELSE e[n][r]
    BY <2>4
  <2> HIDE DEF f, last
  <2> QED BY <1>1, <2>1, <2>2, <2>3, <2>5 DEF n
<1> QED BY <1>6, <1>7 DEF OneMore

\* The buffers the queued copies will leave.
LEMMA AfterCopiesType ==
    ASSUME TypeInv
    PROVE  /\ AfterCopies \in [Streams -> [Cells -> Content]]
           /\ \E h \in CopyHistories(sc_info) :
                /\ h[Len(sc_info)] \in [Streams -> Streams]
                /\ AfterCopies = [t \in Streams |-> kv[h[Len(sc_info)][t]]]
<1> DEFINE h == CHOOSE g \in CopyHistories(sc_info) : TRUE
<1>1. h \in CopyHistories(sc_info)
  BY DEF TypeInv, OneHistory
<1>2. AfterCopies = [t \in Streams |-> kv[h[Len(sc_info)][t]]]
  BY DEF AfterCopies
<1> HIDE DEF h
<1>3. Len(sc_info) \in 0 .. Len(sc_info)
  BY DEF TypeInv
<1>4. h[Len(sc_info)] \in [Streams -> Streams]
  BY <1>1, <1>3 DEF CopyHistories
<1>5. AfterCopies \in [Streams -> [Cells -> Content]]
  BY <1>2, <1>4 DEF TypeInv
<1> QED BY <1>1, <1>2, <1>4, <1>5

\* A call between two decode calls that queues no copy and saves nothing.
LEMMA TypeIdleStep ==
    ASSUME TypeInv, UNCHANGED <<sc_info, call, saved>>, v_heads' \in Heads,
           kv' \in [Streams -> [Cells -> Content]]
    PROVE  TypeInv'
BY DEF TypeInv, call, OneHistory

\* Replacing the head of one stream.
LEMMA OneHead ==
    ASSUME v_heads \in Heads, NEW t \in Streams, NEW h \in 0 .. NCells
    PROVE  [v_heads EXCEPT ![t] = h] \in Heads /\ v_heads[t] \in 0 .. NCells
BY DEF Heads

\* Replacing the buffers of one stream.
LEMMA OneBuffer ==
    ASSUME NEW b \in [Streams -> [Cells -> Content]], NEW t \in Streams,
           NEW x \in [Cells -> Content]
    PROVE  [b EXCEPT ![t] = x] \in [Streams -> [Cells -> Content]]
OBVIOUS

\* Every call made between two decode calls keeps the types.
LEMMA EditTypes == ASSUME IInv, TypeInv, Edit PROVE TypeInv'
<1>0. v_heads \in Heads /\ kv \in [Streams -> [Cells -> Content]]
  BY DEF TypeInv
<1>1. ASSUME NEW data \in BOOLEAN, clear(data) PROVE TypeInv'
  <2>1. UNCHANGED <<sc_info, call, saved>>
    BY <1>1 DEF clear
  <2>2. v_heads' \in Heads
    BY <1>1, CellsAssumption DEF clear, Heads
  <2>3. kv' \in [Streams -> [Cells -> Content]]
    BY <1>0, <1>1 DEF clear, Garbage, Content
  <2> QED BY <2>1, <2>2, <2>3, TypeIdleStep
<1>2. ASSUME NEW s \in Seqs, NEW p0 \in Bounds, NEW p1 \in Bounds, SeqRm(s, p0, p1)
      PROVE  TypeInv'
  <2> DEFINE t == seq_to_stream(s)
             d == seq_rm(v_cells[t], SeqRange(v_cells[t], s, p0, p1))
             f == Freed(v_cells[t], d)
  <2>1. t \in Streams /\ f \in SUBSET Cells
    BY StreamOfSeq, FreedType
  <2>2. v_heads' = [v_heads EXCEPT ![t] = HeadAfter(v_heads[t], f)]
    BY <1>0, <1>2, <2>1 DEF SeqRm, Heads
  <2>3. UNCHANGED <<sc_info, call, saved>> /\ kv' = kv
    BY <1>2 DEF SeqRm
  <2> HIDE DEF t, f
  <2>4. v_heads[t] \in 0 .. NCells
    BY <1>0, <2>1 DEF Heads
  <2>5. HeadAfter(v_heads[t], f) \in 0 .. NCells
    BY <2>1, <2>4, HeadAfterType
  <2>6. v_heads' \in Heads
    BY <1>0, <2>1, <2>2, <2>5, OneHead
  <2> QED BY <1>0, <2>3, <2>6, TypeIdleStep
<1>3. ASSUME NEW p0 \in Bounds, NEW p1 \in Bounds, SeqRmAny(p0, p1) PROVE TypeInv'
  <2> DEFINE d == [t \in Streams |-> rm(v_cells[t], InRange(v_cells[t], p0, p1))]
  <2>1. /\ v_heads' = [t \in Streams |-> HeadAfter(v_heads[t], Freed(v_cells[t], d[t]))]
        /\ UNCHANGED <<sc_info, call, saved>> /\ kv' = kv
    BY <1>3 DEF SeqRmAny
  <2> HIDE DEF d
  <2>2. \A t \in Streams : HeadAfter(v_heads[t], Freed(v_cells[t], d[t])) \in 0 .. NCells
    BY <1>0, FreedType, HeadAfterType DEF Heads
  <2>3. v_heads' \in Heads
    BY <2>1, <2>2 DEF Heads
  <2> QED BY <1>0, <2>1, <2>3, TypeIdleStep
<1>4. ASSUME NEW s \in Seqs, NEW u \in Seqs, NEW p0 \in Bounds, NEW p1 \in Bounds,
             SeqCp(s, u, p0, p1)
      PROVE  TypeInv'
  BY <1>0, <1>4, TypeIdleStep DEF SeqCp
<1>5. ASSUME NEW s \in Seqs, NEW u \in Seqs, SeqCpStream(s, u) PROVE TypeInv'
  <2> DEFINE t == seq_to_stream(s)
             w == seq_to_stream(u)
  <2>1. t \in Streams /\ w \in Streams
    BY StreamOfSeq
  <2>2. /\ sc_info' = Append(sc_info, <<t, w>>) /\ v_heads' = [v_heads EXCEPT ![w] = v_heads[t]]
        /\ UNCHANGED <<kv, call, saved>> /\ phase = "idle"
    BY <1>5 DEF SeqCpStream, Idle
  <2> HIDE DEF t, w
  <2>3. v_heads' \in Heads
    BY <1>0, <2>1, <2>2 DEF Heads
  <2>4. sc_info \in Seq(Streams \X Streams) /\ OneHistory(sc_info)
    BY DEF TypeInv
  <2>5. sc_info' \in Seq(Streams \X Streams)
    BY <2>1, <2>2, <2>4
  <2>6. OneHistory(sc_info')
    BY <2>1, <2>2, <2>4, CopyAppended
  <2>7. OneHistory(sc_info)'
    BY <2>6 DEF OneHistory
  <2> QED BY <1>0, <2>2, <2>3, <2>5, <2>7 DEF TypeInv, call
<1>6. ASSUME NEW s \in Seqs, SeqKeep(s) PROVE TypeInv'
  <2> DEFINE t == seq_to_stream(s)
             f == Freed(v_cells[t], seq_keep(v_cells[t], s))
  <2>1. t \in Streams /\ f \in SUBSET Cells
    BY StreamOfSeq, FreedType
  <2>2. v_heads' = [v_heads EXCEPT ![t] = HeadAfter(v_heads[t], f)]
    BY <1>0, <1>6, <2>1 DEF SeqKeep, Heads
  <2>3. UNCHANGED <<sc_info, call, saved>> /\ kv' = kv
    BY <1>6 DEF SeqKeep
  <2> HIDE DEF t, f
  <2>4. v_heads[t] \in 0 .. NCells
    BY <1>0, <2>1 DEF Heads
  <2>5. HeadAfter(v_heads[t], f) \in 0 .. NCells
    BY <2>1, <2>4, HeadAfterType
  <2>6. v_heads' \in Heads
    BY <1>0, <2>1, <2>2, <2>5, OneHead
  <2> QED BY <1>0, <2>3, <2>6, TypeIdleStep
<1>7. ASSUME NEW s \in Seqs, NEW p0 \in Bounds, NEW p1 \in Bounds, NEW n \in Shifts,
             SeqAdd(s, p0, p1, n)
      PROVE  TypeInv'
  <2> DEFINE t == seq_to_stream(s)
             I == InRange(v_cells[t], p0, p1) \cap With(v_cells[t], s)
             f == Freed(v_cells[t], pos_add(v_cells[t], I, n))
  <2>1. t \in Streams /\ f \in SUBSET Cells
    BY StreamOfSeq, FreedType
  <2>2. v_heads' = [v_heads EXCEPT ![t] = IF f # {} THEN Min(f) ELSE 0]
    BY <1>7 DEF SeqAdd
  <2>3. UNCHANGED <<sc_info, call, saved>> /\ kv' = kv
    BY <1>7 DEF SeqAdd
  <2> HIDE DEF t, f
  <2>4. (IF f # {} THEN Min(f) ELSE 0) \in 0 .. NCells
    BY <2>1, HeadAfterType, CellsAssumption
  <2>5. v_heads' \in Heads
    BY <1>0, <2>1, <2>2, <2>4, OneHead
  <2> QED BY <1>0, <2>3, <2>5, TypeIdleStep
<1>8. ASSUME NEW s \in Seqs, NEW p0 \in Bounds, NEW p1 \in Bounds, NEW n \in Divs,
             SeqDiv(s, p0, p1, n)
      PROVE  TypeInv'
  BY <1>0, <1>8, TypeIdleStep DEF SeqDiv
<1> QED BY <1>1, <1>2, <1>3, <1>4, <1>5, <1>6, <1>7, <1>8 DEF Edit

\* memory_update leaves typed buffers and no queued copy.
LEMMA UpdateTypes ==
    ASSUME IInv, TypeInv, NEW ok, memory_update(ok)
    PROVE  /\ kv' \in [Streams -> [Cells -> Content]]
           /\ sc_info' = <<>>
           /\ OneHistory(sc_info)'
<1>1. AfterCopies \in [Streams -> [Cells -> Content]]
  BY AfterCopiesType
<1>2. Rotated(AfterCopies) \in [Streams -> [Cells -> Content]]
  <2> DEFINE b == AfterCopies
  <2>1. b \in [Streams -> [Cells -> Content]]
    BY <1>1
  <2> HIDE DEF b
  <2>2. ASSUME NEW t \in Streams, NEW i \in Cells
        PROVE  (IF is_empty(v_cells[t], i) THEN b[t][i]
                ELSE [b[t][i] EXCEPT !.rope = @ + v_cells[t].shift[i]]) \in Content
    <3>1. v_cells[t] \in CellsType
      BY DEF IInv, CellsInv
    <3>2. v_cells[t].shift[i] \in Int
      BY <3>1 DEF CellsType
    <3>3. b[t][i] \in Content
      BY <2>1
    <3> QED BY <3>2, <3>3 DEF Content
  <2>3. Rotated(b) \in [Streams -> [Cells -> Content]]
    BY <2>2 DEF Rotated
  <2> QED BY <2>3 DEF b
<1>3. kv' \in [Streams -> [Cells -> Content]] /\ sc_info' = <<>>
  BY <1>1, <1>2 DEF memory_update
<1>4. OneHistory(sc_info')
  BY <1>3, EmptyHistory
<1>5. OneHistory(sc_info)'
  BY <1>4 DEF OneHistory
<1> QED BY <1>3, <1>5

\* The place of a stream among the streams of a slot is a stream index.
LEMMA NthType ==
    ASSUME NEW T \in SUBSET Streams, NEW t \in T
    PROVE  Cardinality({u \in T : u < t}) \in Streams
<1> DEFINE B == {u \in T : u < t}
<1>1. NStream \in Nat \ {0}
  BY CellsAssumption, CacheAssumption
<1>2. t \in Nat /\ t < NStream
  BY <1>1 DEF Streams
<1>3. B \subseteq 0 .. (t - 1)
  <2> SUFFICES ASSUME NEW u \in T, u < t PROVE u \in 0 .. (t - 1)
    OBVIOUS
  <2>1. u \in Nat
    BY <1>1 DEF Streams
  <2> QED BY <1>2, <2>1
<1>4. IsFiniteSet(0 .. (t - 1)) /\ Cardinality(0 .. (t - 1)) = t
  <2>1. 0 \in Int /\ t - 1 \in Int /\ (0 <= t - 1 \/ t = 0)
    BY <1>2
  <2>2. Cardinality(0 .. (t - 1)) = IF 0 > t - 1 THEN 0 ELSE t - 1 - 0 + 1
    BY <2>1, FS_Interval
  <2>3. IsFiniteSet(0 .. (t - 1))
    BY <2>1, FS_Interval
  <2> QED BY <1>2, <2>2, <2>3
<1> HIDE DEF B
<1>5. IsFiniteSet(B) /\ Cardinality(B) <= t
  BY <1>3, <1>4, FS_Subset
<1>6. Cardinality(B) \in Nat
  BY <1>5, FS_CardinalityType
<1> QED BY <1>1, <1>2, <1>5, <1>6 DEF Streams, B

\* The end of a decode call.
LEMMA TypeCallEnds ==
    ASSUME TypeInv, CallEnds, UNCHANGED <<sc_info, saved>>, v_heads' \in Heads,
           kv' \in [Streams -> [Cells -> Content]]
    PROVE  TypeInv'
<1>1. \A k \in DOMAIN states' : states'[k].heads \in Heads
  BY EmptyQueue DEF CallEnds
<1> QED BY <1>1 DEF TypeInv, CallEnds, OneHistory

\* The ubatch a "decode" step works on, and its slot.
LEMMA CurrentOK ==
    ASSUME IInv, phase = "decode"
    PROVE  /\ UbatchOK(ubatches[done + 1])
           /\ SinfoOK(sinfos[done + 1], ubatches[done + 1])
           /\ done + 1 \in DOMAIN ubatches
<1>1. /\ IsSeq(ubatches) /\ Len(ubatches) \in Nat /\ DOMAIN ubatches = 1 .. Len(ubatches)
      /\ \A k \in DOMAIN ubatches : UbatchOK(ubatches[k])
  BY CurrentUbatch
<1>2. /\ IsSeq(sinfos) /\ done \in Nat
      /\ Len(sinfos) = Len(ubatches) /\ done < Len(ubatches)
      /\ \A k \in DOMAIN sinfos : SinfoOK(sinfos[k], ubatches[k])
  BY DEF IInv, CallInv
<1>3. DOMAIN sinfos = 1 .. Len(sinfos)
  BY <1>2, SeqFacts
<1> QED BY <1>1, <1>2, <1>3

\* Every step of a decode call keeps the types.
LEMMA DecodeTypes == ASSUME IInv, TypeInv, Decode PROVE TypeInv'
<1>0. /\ v_heads \in Heads /\ kv \in [Streams -> [Cells -> Content]]
      /\ \A k \in DOMAIN states : states[k].heads \in Heads
  BY DEF TypeInv
<1>1. ASSUME NEW ubs, NEW ok, DecodeBegin(ubs, ok) PROVE TypeInv'
  <2>1. /\ memory_update(ok) /\ phase' = "prepare" /\ did_optimize' = FALSE
        /\ UNCHANGED <<v_heads, states, saved>>
    BY <1>1 DEF DecodeBegin
  <2>2. kv' \in [Streams -> [Cells -> Content]] /\ sc_info' = <<>> /\ OneHistory(sc_info)'
    BY <2>1, UpdateTypes
  <2>3. sc_info' \in Seq(Streams \X Streams)
    BY <2>2
  <2> QED BY <2>1, <2>2, <2>3 DEF TypeInv
<1>2. ASSUME PrepareUbatch PROVE TypeInv'
  <2> DEFINE n == Len(sinfos)
             ub == ubatches[n + 1]
  <2>1. /\ phase = "prepare" /\ n < Len(ubatches)
        /\ UNCHANGED <<sc_info, kv, phase, did_optimize, saved>>
    BY <1>2 DEF PrepareUbatch
  <2>2. PICK si \in find_slot(ub) :
          /\ states' = Append(states,
               [heads |-> v_heads,
                rows  |-> [t \in DOMAIN si |-> cp(v_cells[t], Range(si[t]))]])
          /\ v_heads' = apply_heads(si, ub)
    BY <1>2 DEF PrepareUbatch
  <2>3. n \in Nat
    BY SeqFacts DEF IInv, CallInv
  <2>4. UbatchOK(ub)
    BY <2>1, <2>3, CurrentUbatch
  <2>5. v_heads' \in Heads
    BY <1>0, <2>2, <2>4, FindSlotFits, ApplyHeadsType
  <2>6. \A k \in DOMAIN states' : states'[k].heads \in Heads
    <3> DEFINE st == [heads |-> v_heads,
                      rows  |-> [t \in DOMAIN si |-> cp(v_cells[t], Range(si[t]))]]
    <3>1. st.heads = v_heads
      OBVIOUS
    <3>2. states' = Append(states, st)
      BY <2>2
    <3> HIDE DEF st
    <3>3. /\ DOMAIN states = 1 .. Len(states) /\ Len(states) \in Nat
          /\ DOMAIN states' = 1 .. (Len(states) + 1)
          /\ \A k \in 1 .. Len(states) : states'[k] = states[k]
          /\ states'[Len(states) + 1] = st
      BY <3>2, SeqFacts DEF IInv, CallInv
    <3> QED BY <1>0, <3>1, <3>3
  <2> QED BY <2>1, <2>5, <2>6 DEF TypeInv, OneHistory
<1>3. ASSUME PrepareEnd \/ PrepareSucceeds PROVE TypeInv'
  <2>1. /\ UNCHANGED <<v_heads, sc_info, kv, states, did_optimize, saved>>
        /\ phase # "idle"
    BY <1>3 DEF PrepareEnd, PrepareSucceeds, Prepared
  <2> QED BY <2>1 DEF TypeInv, OneHistory
<1>4. ASSUME RestoreUbatch PROVE TypeInv'
  <2> DEFINE st == Last(states)
             T == DOMAIN st.rows
             nth(t) == Cardinality({u \in T : u < t})
             n == Len(states)
  <2>1. /\ states # <<>> /\ states' = Front(states)
        /\ v_heads' = [t \in Streams |-> IF t \in T THEN st.heads[nth(t)] ELSE v_heads[t]]
        /\ UNCHANGED <<sc_info, kv, phase, did_optimize, saved>>
    BY <1>4 DEF RestoreUbatch
  <2>2. /\ n \in Nat /\ n > 0 /\ DOMAIN states = 1 .. n /\ st = states[n]
        /\ DOMAIN states' = 1 .. (n - 1)
        /\ \A k \in 1 .. (n - 1) : states'[k] = states[k]
    BY <2>1, SeqFacts DEF IInv, CallInv
  <2>3. st.heads \in Heads /\ T \in SUBSET Streams
    BY <1>0, <2>2 DEF IInv, StackInv, StateOK
  <2>4. \A t \in T : nth(t) \in Streams
    BY <2>3, NthType
  <2> HIDE DEF T, st, nth
  <2>5. v_heads' \in Heads
    BY <1>0, <2>1, <2>3, <2>4 DEF Heads
  <2>6. \A k \in DOMAIN states' : states'[k].heads \in Heads
    BY <1>0, <2>2
  <2> QED BY <2>1, <2>5, <2>6 DEF TypeInv, OneHistory
<1>5. ASSUME NEW ok, PrepareRetries(ok) PROVE TypeInv'
  <2>1. /\ memory_update(ok) /\ phase' = "prepare" /\ did_optimize' = TRUE
        /\ UNCHANGED <<v_heads, states, saved>>
    BY <1>5 DEF PrepareRetries
  <2>2. kv' \in [Streams -> [Cells -> Content]] /\ sc_info' = <<>> /\ OneHistory(sc_info)'
    BY <2>1, UpdateTypes
  <2>3. sc_info' \in Seq(Streams \X Streams)
    BY <2>2
  <2> QED BY <2>1, <2>2, <2>3 DEF TypeInv
<1>6. ASSUME PrepareFails \/ ReserveFails PROVE TypeInv'
  <2>1. CallEnds /\ UNCHANGED <<v_heads, sc_info, kv, saved>>
    BY <1>6 DEF PrepareFails, ReserveFails
  <2> QED BY <1>0, <2>1, TypeCallEnds
<1>7. ASSUME DecodeUbatch PROVE TypeInv'
  <2> DEFINE ub == ubatches[done + 1]
             si == sinfos[done + 1]
  <2>1. /\ phase = "decode" /\ v_heads' = apply_heads(si, ub) /\ kv' = Written(si, ub, TRUE)
        /\ UNCHANGED <<sc_info, saved>>
    BY <1>7 DEF DecodeUbatch
  <2>2. UbatchOK(ub) /\ SinfoOK(si, ub)
    BY <2>1, CurrentOK
  <2> HIDE DEF ub, si
  <2>3. v_heads' \in Heads /\ kv' \in [Streams -> [Cells -> Content]]
    BY <1>0, <2>1, <2>2, ApplyHeadsType, WrittenType
  <2>4. CASE CallEnds
    BY <2>1, <2>3, <2>4, TypeCallEnds
  <2>5. CASE UNCHANGED <<phase, ubatches, sinfos, states, did_optimize, before>>
    BY <2>1, <2>3, <2>5 DEF TypeInv, OneHistory
  <2> QED BY <1>7, <2>4, <2>5 DEF DecodeUbatch
<1>8. ASSUME NEW how \in Failures, DecodeFails(how) PROVE TypeInv'
  <2> DEFINE ub == ubatches[done + 1]
             si == sinfos[done + 1]
             placed == apply_cells(si, ub)
             heads == apply_heads(si, ub)
  <2>1. /\ phase = "decode" /\ kv' = Written(si, ub, FALSE) /\ CallEnds
        /\ v_heads' = [t \in Streams |-> HeadAfter(heads[t], Freed(placed[t], v_cells'[t]))]
        /\ UNCHANGED <<sc_info, saved>>
    BY <1>8 DEF DecodeFails
  <2>2. UbatchOK(ub) /\ SinfoOK(si, ub)
    BY <2>1, CurrentOK
  <2>3. heads \in Heads /\ kv' \in [Streams -> [Cells -> Content]]
    BY <1>0, <2>1, <2>2, ApplyHeadsType, WrittenType
  <2> HIDE DEF heads, placed
  <2>4. \A t \in Streams : HeadAfter(heads[t], Freed(placed[t], v_cells'[t])) \in 0 .. NCells
    BY <2>3, FreedType, HeadAfterType DEF Heads
  <2>5. v_heads' \in Heads
    BY <2>1, <2>4 DEF Heads
  <2> QED BY <2>1, <2>3, <2>5, TypeCallEnds
<1> QED BY <1>1, <1>2, <1>3, <1>4, <1>5, <1>6, <1>7, <1>8 DEF Decode

\* The tokens a restore places, and a slot for them.
LEMMA SavedTokensOK ==
    ASSUME IInv, NEW s \in Seqs
    PROVE  /\ Len(saved) \in Nat /\ DOMAIN saved = 1 .. Len(saved)
           /\ TokensOK(SavedTokens(s), seq_to_stream(s))
           /\ Len(SavedTokens(s)) = Len(saved)
           /\ \A idxs \in RestoreSlots(s) : idxs \in [1 .. Len(saved) -> Cells]
<1>1. Len(saved) \in Nat /\ DOMAIN saved = 1 .. Len(saved)
  BY SeqFacts DEF IInv, SavedInv
<1>2. SavedTokens(s) \in [1 .. Len(saved) -> Token]
  <2>1. {s} \in (SUBSET Seqs) \ {{}}
    OBVIOUS
  <2> QED BY <1>1, <2>1 DEF IInv, SavedTokens, SavedInv, Token
<1>3. SavedTokens(s) \in Seq(Token) /\ Len(SavedTokens(s)) = Len(saved)
  BY <1>1, <1>2
<1>4. TokensOK(SavedTokens(s), seq_to_stream(s))
  BY <1>1, <1>3 DEF TokensOK, SavedTokens
<1>5. \A idxs \in RestoreSlots(s) : idxs \in [1 .. Len(saved) -> Cells]
  BY DEF RestoreSlots, SlotsIn
<1> QED BY <1>1, <1>3, <1>4, <1>5

\* Saving and restoring a sequence keep the types.
LEMMA StateIoTypes == ASSUME IInv, TypeInv, StateIo PROVE TypeInv'
<1>0. /\ v_heads \in Heads /\ kv \in [Streams -> [Cells -> Content]]
      /\ \A k \in DOMAIN saved : saved[k].data \in Content
  BY DEF TypeInv
<1>1. ASSUME NEW s \in Seqs, StateSave(s) PROVE TypeInv'
  <2> DEFINE t == seq_to_stream(s)
             c == v_cells[t]
             I == {i \in With(c, s) : ~is_masked_swa(c.pos[i], seq_pos_max(c, s))}
             n == Cardinality(I)
  <2>1. PICK idxs \in [1 .. n -> I] :
          saved' = [k \in DOMAIN idxs |-> [pos |-> c.pos[idxs[k]], tok |-> c.tok[idxs[k]],
                                           data |-> kv[t][idxs[k]]]]
    BY <1>1 DEF StateSave
  <2>2. UNCHANGED <<v_cells, v_heads, sc_info, kv, call>>
    BY <1>1 DEF StateSave
  <2>3. t \in Streams /\ I \in SUBSET Cells
    BY StreamOfSeq DEF With
  <2> HIDE DEF t, I, n, c
  <2>4. \A k \in DOMAIN saved' : saved'[k].data \in Content
    BY <1>0, <2>1, <2>3
  <2> QED BY <2>2, <2>4 DEF TypeInv, call, OneHistory
<1>2. ASSUME NEW s \in Seqs, saved # <<>>, NEW idxs \in RestoreSlots(s)
      PROVE  /\ ApplyHead(idxs, saved) \in 0 .. NCells
             /\ \A i \in Range(idxs) : At(idxs, saved)[i].data \in Content
  <2>1. /\ Len(saved) \in Nat /\ DOMAIN saved = 1 .. Len(saved)
        /\ idxs \in [1 .. Len(saved) -> Cells]
    BY SavedTokensOK
  <2>2. Len(saved) \in Nat \ {0}
    BY <1>2, <2>1 DEF IInv, SavedInv, IsSeq
  <2>3. ApplyHead(idxs, saved) \in 0 .. NCells
    BY <2>1, <2>2, ApplyHeadType
  <2>4. ASSUME NEW i \in Range(idxs) PROVE At(idxs, saved)[i].data \in Content
    <3>1. \E k \in DOMAIN idxs : idxs[k] = i
      BY DEF Range
    <3>2. PICK k \in DOMAIN idxs : k = CHOOSE j \in DOMAIN idxs : idxs[j] = i
      BY <3>1
    <3>3. At(idxs, saved)[i] = saved[k]
      BY <3>2 DEF At
    <3> QED BY <1>0, <2>1, <3>2, <3>3
  <2> QED BY <2>3, <2>4
<1>3. ASSUME NEW s \in Seqs, StateRestore(s) PROVE TypeInv'
  <2> DEFINE t == seq_to_stream(s)
  <2>1. saved # <<>> /\ UNCHANGED <<sc_info, call, saved>>
    BY <1>3 DEF StateRestore
  <2>2. PICK idxs \in RestoreSlots(s) :
          /\ v_heads' = [v_heads EXCEPT ![t] = ApplyHead(idxs, saved)]
          /\ kv' = [kv EXCEPT ![t] = [i \in Cells |->
                      IF i \in Range(idxs) THEN At(idxs, saved)[i].data ELSE kv[t][i]]]
    BY <1>3 DEF StateRestore
  <2>3. t \in Streams
    BY StreamOfSeq
  <2> HIDE DEF t
  <2>4. v_heads' \in Heads
    BY <1>0, <1>2, <2>1, <2>2, <2>3, OneHead
  <2> DEFINE x == [i \in Cells |-> IF i \in Range(idxs) THEN At(idxs, saved)[i].data
                                                        ELSE kv[t][i]]
  <2>5. x \in [Cells -> Content]
    <3>1. \A i \in Range(idxs) : At(idxs, saved)[i].data \in Content
      BY <1>2, <2>1
    <3> QED BY <1>0, <2>3, <3>1
  <2>6. kv' = [kv EXCEPT ![t] = x]
    BY <2>2
  <2> HIDE DEF x
  <2>7. kv' \in [Streams -> [Cells -> Content]]
    BY <1>0, <2>3, <2>5, <2>6, OneBuffer
  <2> QED BY <2>1, <2>4, <2>7, TypeIdleStep
<1>4. ASSUME NEW s \in Seqs, StateRestoreFails(s) PROVE TypeInv'
  <2> DEFINE t == seq_to_stream(s)
             Cleared(c, head, I) ==
               LET d == seq_rm(c, SeqRange(c, s, -1, -1))
               IN  /\ v_cells' = [v_cells EXCEPT ![t] = d]
                   /\ v_heads' = [v_heads EXCEPT ![t] = HeadAfter(head, Freed(c, d))]
                   /\ kv' = [kv EXCEPT ![t] = [i \in Cells |->
                               IF i \in I THEN Garbage ELSE kv[t][i]]]
  <2>1. saved # <<>> /\ UNCHANGED <<sc_info, call, saved>>
    BY <1>4 DEF StateRestoreFails
  <2>2. t \in Streams
    BY StreamOfSeq
  <2>3. ASSUME NEW c, NEW head \in 0 .. NCells, NEW I, Cleared(c, head, I) PROVE TypeInv'
    <3> DEFINE d == seq_rm(c, SeqRange(c, s, -1, -1))
               h == HeadAfter(head, Freed(c, d))
               x == [i \in Cells |-> IF i \in I THEN Garbage ELSE kv[t][i]]
    <3>1. v_heads' = [v_heads EXCEPT ![t] = h] /\ kv' = [kv EXCEPT ![t] = x]
      BY <2>3
    <3>2. h \in 0 .. NCells
      BY FreedType, HeadAfterType
    <3>3. x \in [Cells -> Content]
      <4>1. Garbage \in Content
        BY DEF Garbage, Content
      <4> QED BY <1>0, <2>2, <4>1
    <3> HIDE DEF h, x, t
    <3>4. v_heads' \in Heads /\ kv' \in [Streams -> [Cells -> Content]]
      BY <1>0, <2>2, <3>1, <3>2, <3>3, OneHead, OneBuffer
    <3> QED BY <2>1, <3>4, TypeIdleStep
  <2>4. v_heads[t] \in 0 .. NCells
    BY <1>0, <2>2 DEF Heads
  <2>5. \/ Cleared(v_cells[t], v_heads[t], {})
        \/ \E idxs \in RestoreSlots(s) :
             Cleared(ApplyCells(Emptied(s), idxs, SavedTokens(s)),
                     ApplyHead(idxs, saved), Range(idxs))
    BY <1>4 DEF StateRestoreFails
  <2> HIDE DEF Cleared
  <2> QED BY <1>2, <2>1, <2>3, <2>4, <2>5
<1> QED BY <1>1, <1>3, <1>4 DEF StateIo

\* The types of the empty cache.
LEMMA TypeInit == ASSUME Init PROVE TypeInv
<1>1. sc_info = <<>> /\ \A k : k \notin DOMAIN states /\ k \notin DOMAIN saved
  BY EmptyQueue DEF Init
<1>2. OneHistory(sc_info)
  BY <1>1, EmptyHistory
<1>3. sc_info \in Seq(Streams \X Streams)
  BY <1>1
<1>4. v_heads \in Heads
  BY CellsAssumption DEF Init, Heads
<1>5. kv \in [Streams -> [Cells -> Content]]
  BY DEF Init, Garbage, Content
<1> QED BY <1>1, <1>2, <1>3, <1>4, <1>5 DEF Init, TypeInv

\* Every step keeps the cells well formed and the types.
LEMMA Keeps == ASSUME IInv, TypeInv, [Next]_vars PROVE IInv' /\ TypeInv'
<1>1. IInv'
  BY EditKeeps, DecodeKeeps, StateIoKeeps, StutterKeeps DEF Next
<1>2. CASE UNCHANGED vars
  BY <1>1, <1>2 DEF vars, TypeInv, OneHistory
<1> QED BY <1>1, <1>2, EditTypes, DecodeTypes, StateIoTypes DEF Next

\* The heads, buffers, copies and saved data have their types in every state.
THEOREM TypesInductive == Spec => [](IInv /\ TypeInv)
<1>1. Init => IInv /\ TypeInv
  BY InitHolds, TypeInit
<1>2. IInv /\ TypeInv /\ [Next]_vars => IInv' /\ TypeInv'
  BY Keeps
<1> QED BY <1>1, <1>2, PTL DEF Spec

\* The types hold in every state of the cache.
THEOREM CacheTyped == Spec => []TypeOK
<1>1. IInv /\ TypeInv => TypeOK
  BY DEF IInv, CellsInv, CallInv, TypeInv, TypeOK, Heads
<1> QED BY <1>1, TypesInductive, PTL

-----------------------------------------------------------------------------
(* What the buffers hold.                                                  *)

\* The calls under which the buffers follow the cells.  Each of the four is
\* needed: pos_div records its shift with the wrong sign; a save or restore
\* reads and writes the buffers without the updates still queued; a slot over
\* a cell whose K-shift failed loses the shift, which set() does not restore;
\* and a failed ubatch is removed from the first sequence of a token only.
DataCalls ==
    /\ "div" \notin Calls
    /\ ~StateIoAny
    /\ KShiftFails => SwaType = "none"
    /\ SharedTokens => Failures \subseteq {"oom"}

\* The content x is the token tok at position pos once it is shifted.
Matches(x, pos, tok, shift) == pos # -1 => x.tok = tok /\ x.rope + shift = pos

CellMatches(x, c, i) == Matches(x, c.pos[i], c.tok[i], c.shift[i])

\* A recovery record has a row of cell i of stream t.
InRow(st, t, i) == t \in DOMAIN st.rows /\ i \in DOMAIN st.rows[t]

\* Between calls.
IdleData == \A t \in Streams, i \in Cells : CellMatches(AfterCopies[t][i], v_cells[t], i)

\* In a call: a cell that no record covers matches as it is, a cell that some
\* record covers matches as the lowest of these has it.
CallData ==
    /\ \A t \in Streams, i \in Cells :
         (\A k \in DOMAIN states : ~InRow(states[k], t, i)) => CellMatches(kv[t][i], v_cells[t], i)
    /\ \A k \in DOMAIN states, t \in Streams, i \in Cells :
         InRow(states[k], t, i) /\ (\A j \in DOMAIN states : j < k => ~InRow(states[j], t, i))
           => Matches(kv[t][i], states[k].rows[t][i].pos, states[k].rows[t][i].tok, 0)

\* The shifts were applied when the call began.
NoShift == \A t \in Streams, i \in Cells : v_cells[t].shift[i] = 0

\* Without shared tokens every token has one sequence.
Unshared(ubs) ==
    \A k \in DOMAIN ubs : \A t \in DOMAIN ubs[k] : \A j \in DOMAIN ubs[k][t] :
        \E s \in Seqs : ubs[k][t][j].seqs = {s}

DataInv ==
    /\ phase = "idle" => IdleData
    /\ phase # "idle" => CallData
    /\ phase # "idle" /\ ~KShiftFails => NoShift
    /\ phase # "idle" /\ ~SharedTokens => Unshared(ubatches)
    /\ \A k \in DOMAIN saved : /\ saved[k].data.tok = saved[k].tok
                               /\ saved[k].data.rope = saved[k].pos

\* d has some of the tokens of c, where c has them.
Shrinks(c, d) ==
    \A i \in Cells : \/ d.pos[i] = -1
                     \/ d.pos[i] = c.pos[i] /\ d.tok[i] = c.tok[i] /\ d.shift[i] = c.shift[i]

\* The methods that take tokens out, or give them another sequence.
LEMMA TakingOut ==
    ASSUME NEW c \in CellsType
    PROVE  /\ \A I \in SUBSET Cells : Shrinks(c, rm(c, I))
           /\ \A R : Shrinks(c, seq_rm(c, R))
           /\ \A s \in Seqs : Shrinks(c, seq_keep(c, s))
           /\ \A I \in SUBSET Cells, s \in Seqs : Shrinks(c, seq_add(c, I, s))
<1>2. ASSUME NEW I \in SUBSET Cells PROVE Shrinks(c, rm(c, I))
  BY DEF rm, Blank, Fill, Shrinks
<1>3. ASSUME NEW R PROVE Shrinks(c, seq_rm(c, R))
  BY DEF seq_rm, Blank, Fill, Shrinks, CellsType
<1>4. ASSUME NEW s \in Seqs PROVE Shrinks(c, seq_keep(c, s))
  BY DEF seq_keep, Blank, Fill, Shrinks, CellsType
<1>5. ASSUME NEW I \in SUBSET Cells, NEW s \in Seqs PROVE Shrinks(c, seq_add(c, I, s))
  BY DEF seq_add, Shrinks, CellsType
<1> QED BY <1>2, <1>3, <1>4, <1>5

\* seq_rm empties a cell that loses all its sequences.
LEMMA SeqRmEmpties ==
    ASSUME NEW c \in CellsType, CellsOK(c), NEW R, NEW i \in Cells,
           \A s \in c.seq[i] : <<i, s>> \in R
    PROVE  seq_rm(c, R).pos[i] = -1
<1> DEFINE left == [j \in Cells |-> c.seq[j] \ {s \in Seqs : <<j, s>> \in R}]
           gone == {j \in Cells : c.seq[j] # {} /\ left[j] = {}}
<1>1. seq_rm(c, R).pos = Fill(c.pos, gone, -1)
  BY DEF seq_rm, Blank, CellsType
<1>2. left[i] = {}
  BY DEF CellsType
<1>3. i \in gone \/ c.pos[i] = -1
  BY <1>2 DEF CellsOK, EmptyOK
<1> HIDE DEF gone
<1> QED BY <1>1, <1>3 DEF Fill

\* A position and its queued shift move together.
LEMMA PosAddData ==
    ASSUME NEW c \in CellsType, NEW I \in SUBSET Cells, NEW d \in Int, NEW i \in Cells
    PROVE  \/ pos_add(c, I, d).pos[i] = -1
           \/ /\ pos_add(c, I, d).tok[i] = c.tok[i] /\ i \in I
              /\ pos_add(c, I, d).pos[i] = c.pos[i] + d
              /\ pos_add(c, I, d).shift[i] = c.shift[i] + d
           \/ /\ pos_add(c, I, d).tok[i] = c.tok[i] /\ i \notin I
              /\ pos_add(c, I, d).pos[i] = c.pos[i]
              /\ pos_add(c, I, d).shift[i] = c.shift[i]
<1> DEFINE gone == {j \in I : c.pos[j] + d < 0}
           add(f, none) == [j \in Cells |-> IF j \in gone THEN none
                                            ELSE IF j \in I THEN f[j] + d ELSE f[j]]
<1>1. /\ pos_add(c, I, d).pos = add(c.pos, -1)
      /\ pos_add(c, I, d).shift = add(c.shift, 0)
      /\ pos_add(c, I, d).tok = c.tok
  BY DEF pos_add, Indexed, Moved, CellsType
<1> HIDE DEF gone
<1> QED BY <1>1

\* A placed token is in its cell.
LEMMA PlaceData ==
    ASSUME NEW c \in CellsType, NEW at, NEW i \in Cells
    PROVE  /\ place(c, at).pos[i] = IF i \in DOMAIN at THEN at[i].pos ELSE c.pos[i]
           /\ place(c, at).tok[i] = IF i \in DOMAIN at THEN at[i].tok ELSE c.tok[i]
           /\ place(c, at).seq[i] = IF i \in DOMAIN at THEN at[i].seqs ELSE c.seq[i]
           /\ place(c, at).shift = c.shift
BY DEF place, Indexed, CellsType

\* The cells of a stream copy are those of the source.
LEMMA CopyCellsData ==
    ASSUME NEW c \in CellsType, NEW src \in Seqs, NEW dst \in Seqs
    PROVE  Shrinks(c, CopyCells(c, src, dst))
<1> DEFINE I == With(c, src)
           at == [i \in I |-> [pos |-> c.pos[i], tok |-> c.tok[i], seqs |-> {dst}]]
           d == place(reset, at)
           e == [d EXCEPT !.shift = [i \in Cells |-> IF i \in I THEN c.shift[i] ELSE 0],
                          !.has_shift = \E i \in I : c.shift[i] # 0]
<1>1. CopyCells(c, src, dst) = e
  BY DEF CopyCells
<1>2. /\ e.pos = d.pos /\ e.tok = d.tok
      /\ e.shift = [i \in Cells |-> IF i \in I THEN c.shift[i] ELSE 0]
  BY DEF place, Indexed, reset
<1>3. ASSUME NEW i \in Cells
      PROVE  /\ d.pos[i] = IF i \in I THEN c.pos[i] ELSE -1
             /\ i \in I => d.tok[i] = c.tok[i]
  BY ResetOK, PlaceData DEF reset
<1> HIDE DEF e, d, at
<1> QED BY <1>1, <1>2, <1>3 DEF Shrinks

\* apply_ubatch: the cells of the slot hold their tokens or, purged, nothing;
\* the other cells hold what they held or nothing.
LEMMA ApplyCellsData ==
    ASSUME NEW t \in Streams, NEW c, StreamOK(c, t),
           NEW toks, TokensOK(toks, t), NEW idxs \in [1 .. Len(toks) -> Cells],
           NEW i \in Cells
    PROVE  LET d == ApplyCells(c, idxs, toks)
               x == At(idxs, toks)[i]
           IN  /\ i \notin Range(idxs) =>
                    \/ d.pos[i] = -1
                    \/ /\ d.pos[i] = c.pos[i] /\ d.tok[i] = c.tok[i]
                       /\ d.shift[i] = c.shift[i]
               /\ i \in Range(idxs) =>
                    /\ d.seq[i] \subseteq x.seqs
                    /\ d.pos[i] = -1 \/ (d.pos[i] = x.pos /\ d.tok[i] = x.tok)
                    /\ d.shift[i] = 0
<1> DEFINE J == Range(idxs)
           I == {j \in J : ~is_empty(c, j)}
           b == rm(c, I)
           d == place(b, At(idxs, toks))
           R == {r \in Cells \X Seqs :
                   /\ r[2] \in d.seq[r[1]]
                   /\ \E p \in Overwritten(c, I, r[2]) : d.pos[r[1]] <= p}
<1>1. ApplyCells(c, idxs, toks) = seq_rm(d, R)
  BY DEF ApplyCells
<1>2. toks \in Seq(Token) /\ c \in CellsType /\ CellsOK(c)
  BY DEF TokensOK, StreamOK
<1>3. J \in SUBSET Cells /\ At(idxs, toks) \in [J -> PlaceRow]
  BY <1>2, AtType
<1>4. b \in CellsType /\ CellsOK(b)
  BY <1>2, <1>3, RmOK
<1>5. i \in J => ApplyCells(c, idxs, toks).shift[i] = 0
  BY ApplyCellsOK
<1>6. \A j \in J : b.pos[j] = -1
  <2> TAKE j \in J
  <2>1. j \in Cells /\ I \in SUBSET Cells
    BY <1>3
  <2>2. b.pos[j] = IF j \in I THEN -1 ELSE c.pos[j]
    BY <1>2, <2>1, RmEffect
  <2> QED BY <2>2 DEF is_empty
<1>7. i \notin J => b.pos[i] = c.pos[i] /\ b.tok[i] = c.tok[i] /\ b.shift[i] = c.shift[i]
  BY DEF rm, Blank, Fill
<1> HIDE DEF b, I, J
<1>8. d \in CellsType
  <2> DEFINE at == At(idxs, toks)
  <2>1. at \in [J -> PlaceRow] /\ J \in SUBSET Cells
    BY <1>3
  <2> HIDE DEF at
  <2>2. place(b, at) \in CellsType
    BY <1>4, <1>6, <2>1, PlaceOK
  <2> QED BY <2>2 DEF at
<1>9. /\ d.pos[i] = IF i \in J THEN At(idxs, toks)[i].pos ELSE b.pos[i]
      /\ d.tok[i] = IF i \in J THEN At(idxs, toks)[i].tok ELSE b.tok[i]
      /\ d.seq[i] = IF i \in J THEN At(idxs, toks)[i].seqs ELSE b.seq[i]
      /\ d.shift = b.shift
  <2> DEFINE at == At(idxs, toks)
  <2>1. DOMAIN at = J
    BY <1>3
  <2> HIDE DEF at
  <2>2. /\ place(b, at).pos[i] = IF i \in J THEN at[i].pos ELSE b.pos[i]
        /\ place(b, at).tok[i] = IF i \in J THEN at[i].tok ELSE b.tok[i]
        /\ place(b, at).seq[i] = IF i \in J THEN at[i].seqs ELSE b.seq[i]
        /\ place(b, at).shift = b.shift
    BY <1>4, <2>1, PlaceData
  <2> QED BY <2>2 DEF at
<1> HIDE DEF d, R
<1>10. Shrinks(d, seq_rm(d, R)) /\ seq_rm(d, R).seq[i] \subseteq d.seq[i]
  BY <1>8, TakingOut, SeqRmEffect
<1>11. \/ seq_rm(d, R).pos[i] = -1
       \/ /\ seq_rm(d, R).pos[i] = d.pos[i] /\ seq_rm(d, R).tok[i] = d.tok[i]
          /\ seq_rm(d, R).shift[i] = d.shift[i]
  BY <1>10 DEF Shrinks
<1>12. CASE i \in J
  BY <1>1, <1>5, <1>9, <1>10, <1>11, <1>12 DEF J
<1>13. CASE i \notin J
  BY <1>1, <1>7, <1>9, <1>11, <1>13 DEF J
<1> QED BY <1>12, <1>13

\* set puts the rows back.
LEMMA SetData ==
    ASSUME NEW c \in CellsType, NEW rows, NEW i \in Cells
    PROVE  /\ set(c, rows).pos[i] = IF i \in DOMAIN rows THEN rows[i].pos ELSE c.pos[i]
           /\ set(c, rows).tok[i] = IF i \in DOMAIN rows THEN rows[i].tok ELSE c.tok[i]
           /\ set(c, rows).shift[i] = c.shift[i]
BY DEF set, Indexed, CellsType

\* Fewer tokens still match.
LEMMA ShrinksMatch ==
    ASSUME NEW c, NEW d, Shrinks(c, d), NEW x, NEW i \in Cells, CellMatches(x, c, i)
    PROVE  CellMatches(x, d, i)
BY DEF Shrinks, CellMatches, Matches

\* Nothing changes for the streams a call leaves alone.
LEMMA OneShrinks ==
    ASSUME v_cells \in [Streams -> CellsType], NEW t \in Streams, NEW d,
           Shrinks(v_cells[t], d), v_cells' = [v_cells EXCEPT ![t] = d]
    PROVE  \A u \in Streams : Shrinks(v_cells[u], v_cells'[u])
BY DEF Shrinks

\* A call between two decode calls, with the buffers it leaves.
LEMMA DataIdleStep ==
    ASSUME DataInv, phase = "idle", UNCHANGED <<call, saved>>, IdleData'
    PROVE  DataInv'
BY DEF DataInv, call

\* A call between two decode calls that only takes tokens out.
LEMMA DataShrinkStep ==
    ASSUME DataInv, phase = "idle", UNCHANGED <<sc_info, kv, call, saved>>,
           \A t \in Streams : Shrinks(v_cells[t], v_cells'[t])
    PROVE  DataInv'
<1>1. AfterCopies' = AfterCopies
  BY DEF AfterCopies
<1>2. ASSUME NEW t \in Streams, NEW i \in Cells
      PROVE  CellMatches(AfterCopies'[t][i], v_cells'[t], i)
  <2> DEFINE x == AfterCopies[t][i]
  <2>1. CellMatches(x, v_cells[t], i)
    BY DEF DataInv, IdleData
  <2> HIDE DEF x
  <2>2. CellMatches(x, v_cells'[t], i)
    BY <2>1, ShrinksMatch
  <2> QED BY <1>1, <2>2 DEF x
<1>3. IdleData'
  BY <1>2 DEF IdleData, CellMatches, Matches
<1> QED BY <1>3, DataIdleStep

\* Every call made between two decode calls keeps the data in step.
LEMMA EditData == ASSUME DataCalls, IInv, TypeInv, DataInv, Edit PROVE DataInv'
<1>0. /\ v_cells \in [Streams -> CellsType] /\ CellsInv(v_cells)
      /\ AfterCopies \in [Streams -> [Cells -> Content]]
  BY AfterCopiesType DEF IInv, CellsInv
<1>1. ASSUME NEW data \in BOOLEAN, clear(data) PROVE DataInv'
  <2>1. phase = "idle" /\ UNCHANGED <<call, saved>> /\ v_cells' = [t \in Streams |-> reset]
    BY <1>1 DEF clear, Idle
  <2>2. \A t \in Streams, i \in Cells : v_cells'[t].pos[i] = -1
    BY <2>1 DEF reset
  <2>3. IdleData'
    BY <2>2 DEF IdleData, CellMatches, Matches
  <2> QED BY <2>1, <2>3, DataIdleStep
<1>2. ASSUME NEW s \in Seqs, NEW p0 \in Bounds, NEW p1 \in Bounds, SeqRm(s, p0, p1)
      PROVE  DataInv'
  <2> DEFINE t == seq_to_stream(s)
             d == seq_rm(v_cells[t], SeqRange(v_cells[t], s, p0, p1))
  <2>1. t \in Streams
    BY StreamOfSeq
  <2>2. Shrinks(v_cells[t], d)
    BY <1>0, <2>1, TakingOut
  <2>3. /\ v_cells' = [v_cells EXCEPT ![t] = d] /\ phase = "idle"
        /\ UNCHANGED <<sc_info, kv, call, saved>>
    BY <1>2 DEF SeqRm, Idle
  <2> HIDE DEF t, d
  <2> QED BY <1>0, <2>1, <2>2, <2>3, OneShrinks, DataShrinkStep
<1>3. ASSUME NEW p0 \in Bounds, NEW p1 \in Bounds, SeqRmAny(p0, p1) PROVE DataInv'
  <2>1. \A t \in Streams : Shrinks(v_cells[t], rm(v_cells[t], InRange(v_cells[t], p0, p1)))
    BY <1>0, InRangeType, TakingOut
  <2>2. /\ v_cells' = [t \in Streams |-> rm(v_cells[t], InRange(v_cells[t], p0, p1))]
        /\ phase = "idle" /\ UNCHANGED <<sc_info, kv, call, saved>>
    BY <1>3 DEF SeqRmAny, Idle
  <2>3. \A t \in Streams : Shrinks(v_cells[t], v_cells'[t])
    BY <2>1, <2>2
  <2> QED BY <2>2, <2>3, DataShrinkStep
<1>4. ASSUME NEW s \in Seqs, NEW u \in Seqs, NEW p0 \in Bounds, NEW p1 \in Bounds,
             SeqCp(s, u, p0, p1)
      PROVE  DataInv'
  <2> DEFINE t == seq_to_stream(s)
             c == v_cells[t]
             I == InRange(c, p0, p1) \cap With(c, s)
             d == seq_add(c, I, u)
  <2>1. t \in Streams
    BY StreamOfSeq
  <2>2. I \in SUBSET Cells
    BY InRangeType
  <2>3. Shrinks(v_cells[t], d)
    BY <1>0, <2>1, <2>2, TakingOut
  <2>4. /\ v_cells' = [v_cells EXCEPT ![t] = d] /\ phase = "idle"
        /\ UNCHANGED <<sc_info, kv, call, saved>>
    BY <1>0, <1>4, <2>1 DEF SeqCp, Idle
  <2> HIDE DEF t, d
  <2> QED BY <1>0, <2>1, <2>3, <2>4, OneShrinks, DataShrinkStep
<1>5. ASSUME NEW s \in Seqs, NEW u \in Seqs, SeqCpStream(s, u) PROVE DataInv'
  <2> DEFINE t == seq_to_stream(s)
             w == seq_to_stream(u)
             d == CopyCells(v_cells[t], s, u)
  <2>1. t \in Streams /\ w \in Streams
    BY StreamOfSeq
  <2>2. Shrinks(v_cells[t], d)
    BY <1>0, <2>1, CopyCellsData
  <2>3. /\ sc_info' = Append(sc_info, <<t, w>>) /\ v_cells' = [v_cells EXCEPT ![w] = d]
        /\ phase = "idle" /\ UNCHANGED <<kv, call, saved>>
    BY <1>5 DEF SeqCpStream, Idle
  <2> HIDE DEF t, w, d
  <2>4. PICK g \in CopyHistories(sc_info) :
          /\ g[Len(sc_info)] \in [Streams -> Streams]
          /\ AfterCopies = [r \in Streams |-> kv[g[Len(sc_info)][r]]]
    BY AfterCopiesType
  <2> DEFINE h == CHOOSE e \in CopyHistories(sc_info') : TRUE
  <2>5. h \in CopyHistories(sc_info')
    <3>1. OneHistory(sc_info')
      BY <2>1, <2>3, CopyAppended DEF TypeInv
    <3> QED BY <3>1 DEF OneHistory
  <2>6. AfterCopies' = [r \in Streams |-> kv[h[Len(sc_info')][r]]]
    <3>1. CopyHistories(sc_info)' = CopyHistories(sc_info')
      BY DEF CopyHistories
    <3> QED BY <2>3 DEF AfterCopies, CopyHistories
  <2> HIDE DEF h
  <2>7. \A r \in Streams : h[Len(sc_info')][r] = IF r = w THEN g[Len(sc_info)][t]
                                                         ELSE g[Len(sc_info)][r]
    <3>1. sc_info \in Seq(Streams \X Streams) /\ OneHistory(sc_info)
      BY DEF TypeInv
    <3>2. OneMore(sc_info', sc_info, t, w)
      BY <2>1, <2>3, <3>1, CopyAppended
    <3> QED BY <2>4, <2>5, <3>2 DEF OneMore
  <2>8. /\ AfterCopies'[w] = AfterCopies[t]
        /\ \A r \in Streams : r # w => AfterCopies'[r] = AfterCopies[r]
    BY <2>1, <2>4, <2>6, <2>7
  <2>9. ASSUME NEW r \in Streams, NEW i \in Cells
        PROVE  CellMatches(AfterCopies'[r][i], v_cells'[r], i)
    <3>1. CASE r = w
      <4> DEFINE x == AfterCopies[t][i]
      <4>1. CellMatches(x, v_cells[t], i)
        BY <2>1, <2>3 DEF DataInv, IdleData
      <4>2. v_cells'[r] = d
        BY <1>0, <2>3, <3>1
      <4>3. AfterCopies'[r][i] = x
        BY <2>8, <3>1
      <4> HIDE DEF x
      <4> QED BY <2>2, <4>1, <4>2, <4>3, ShrinksMatch
    <3>2. CASE r # w
      <4>1. CellMatches(AfterCopies[r][i], v_cells[r], i)
        BY <2>3 DEF DataInv, IdleData
      <4>2. v_cells'[r] = v_cells[r] /\ AfterCopies'[r] = AfterCopies[r]
        BY <1>0, <2>3, <2>8, <3>2
      <4> QED BY <4>1, <4>2
    <3> QED BY <3>1, <3>2
  <2>10. IdleData'
    BY <2>9 DEF IdleData, CellMatches, Matches
  <2> QED BY <2>3, <2>10, DataIdleStep
<1>6. ASSUME NEW s \in Seqs, SeqKeep(s) PROVE DataInv'
  <2> DEFINE t == seq_to_stream(s)
             d == seq_keep(v_cells[t], s)
  <2>1. t \in Streams
    BY StreamOfSeq
  <2>2. Shrinks(v_cells[t], d)
    BY <1>0, <2>1, TakingOut
  <2>3. /\ v_cells' = [v_cells EXCEPT ![t] = d] /\ phase = "idle"
        /\ UNCHANGED <<sc_info, kv, call, saved>>
    BY <1>6 DEF SeqKeep, Idle
  <2> HIDE DEF t, d
  <2> QED BY <1>0, <2>1, <2>2, <2>3, OneShrinks, DataShrinkStep
<1>7. ASSUME NEW s \in Seqs, NEW p0 \in Bounds, NEW p1 \in Bounds, NEW n \in Shifts,
             SeqAdd(s, p0, p1, n)
      PROVE  DataInv'
  <2> DEFINE t == seq_to_stream(s)
             c == v_cells[t]
             I == InRange(c, p0, p1) \cap With(c, s)
             d == pos_add(c, I, n)
  <2>1. t \in Streams /\ n \in Int /\ I \in SUBSET Cells
    BY StreamOfSeq, InRangeType, CacheAssumption
  <2>2. /\ v_cells' = [v_cells EXCEPT ![t] = d] /\ phase = "idle"
        /\ UNCHANGED <<sc_info, kv, call, saved>>
    BY <1>7 DEF SeqAdd, Idle
  <2>3. c \in CellsType /\ CellsOK(c)
    BY <1>0, <2>1 DEF CellsInv, StreamOK
  <2>4. \A i \in I : c.pos[i] # -1
    BY <2>3, OccupiedNotEmpty
  <2>5. AfterCopies' = AfterCopies
    BY <2>2 DEF AfterCopies
  <2>6. ASSUME NEW i \in Cells PROVE CellMatches(AfterCopies[t][i], d, i)
    <3> DEFINE x == AfterCopies[t][i]
    <3>1. CellMatches(x, c, i) /\ x.rope \in Int
      BY <1>0, <2>1, <2>2 DEF DataInv, IdleData, Content
    <3>2. c.shift[i] \in Int /\ c.pos[i] \in Int
      BY <2>3 DEF CellsType
    <3>3. \/ d.pos[i] = -1
          \/ /\ d.tok[i] = c.tok[i] /\ i \in I
             /\ d.pos[i] = c.pos[i] + n /\ d.shift[i] = c.shift[i] + n
          \/ /\ d.tok[i] = c.tok[i] /\ i \notin I
             /\ d.pos[i] = c.pos[i] /\ d.shift[i] = c.shift[i]
      BY <2>1, <2>3, PosAddData
    <3> HIDE DEF x, d, c, I
    <3>4. i \in I => c.pos[i] # -1
      BY <2>4
    <3>5. CellMatches(x, d, i)
      BY <2>1, <3>1, <3>2, <3>3, <3>4 DEF CellMatches, Matches
    <3> QED BY <3>5 DEF x
  <2> HIDE DEF t, d
  <2>7. ASSUME NEW r \in Streams, NEW i \in Cells
        PROVE  CellMatches(AfterCopies'[r][i], v_cells'[r], i)
    <3>1. CASE r = t
      <4>1. v_cells'[r] = d
        BY <1>0, <2>2, <3>1
      <4> QED BY <2>5, <2>6, <3>1, <4>1
    <3>2. CASE r # t
      <4>1. v_cells'[r] = v_cells[r]
        BY <1>0, <2>2, <3>2
      <4>2. CellMatches(AfterCopies[r][i], v_cells[r], i)
        BY <2>2 DEF DataInv, IdleData
      <4> QED BY <2>5, <4>1, <4>2
    <3> QED BY <3>1, <3>2
  <2>8. IdleData'
    BY <2>7 DEF IdleData, CellMatches, Matches
  <2> QED BY <2>2, <2>8, DataIdleStep
<1>8. ASSUME NEW s \in Seqs, NEW p0 \in Bounds, NEW p1 \in Bounds, NEW n \in Divs,
             SeqDiv(s, p0, p1, n)
      PROVE  DataInv'
  BY <1>8 DEF SeqDiv, Idle, DataCalls
<1> QED BY <1>1, <1>2, <1>3, <1>4, <1>5, <1>6, <1>7, <1>8 DEF Edit

\* Every cell matches the buffers as they are.
AllMatch == \A t \in Streams, i \in Cells : CellMatches(kv[t][i], v_cells[t], i)

\* With nothing queued and no record on the stack that is what DataInv says.
LEMMA NothingQueued ==
    ASSUME IInv, TypeInv, DataInv, phase # "idle", states = <<>>
    PROVE  AllMatch /\ IdleData
<1>1. AllMatch
  BY EmptyQueue DEF DataInv, CallData, AllMatch
<1>2. AfterCopies = kv
  BY NoCopies DEF TypeInv
<1> QED BY <1>1, <1>2 DEF AllMatch, IdleData

\* A step inside a call that leaves the stack empty.
LEMMA DataNoRecords ==
    ASSUME states' = <<>>, AllMatch', phase' # "idle", UNCHANGED saved, DataInv,
           ~KShiftFails => NoShift', ~SharedTokens => Unshared(ubatches')
    PROVE  DataInv'
<1>1. CallData'
  BY EmptyQueue DEF CallData, AllMatch
<1>2. (~SharedTokens => Unshared(ubatches))'
  BY DEF Unshared
<1> QED BY <1>1, <1>2 DEF DataInv

\* The end of a decode call.
LEMMA DataCallEnds ==
    ASSUME CallEnds, AllMatch', sc_info' = <<>>, UNCHANGED saved, DataInv,
           kv' \in [Streams -> [Cells -> Content]]
    PROVE  DataInv'
<1> DEFINE h == CHOOSE e \in CopyHistories(sc_info') : TRUE
<1>1. h[Len(sc_info')] = [t \in Streams |-> t]
  BY EmptyHistory
<1>2. AfterCopies' = [t \in Streams |-> kv'[h[Len(sc_info')][t]]]
  BY DEF AfterCopies, CopyHistories
<1> HIDE DEF h
<1>3. AfterCopies' = kv'
  BY <1>1, <1>2
<1>4. IdleData'
  BY <1>3 DEF AllMatch, IdleData
<1> QED BY <1>4 DEF DataInv, CallEnds

\* memory_update brings the buffers to what the queue promised.
LEMMA UpdateData ==
    ASSUME IInv, TypeInv, IdleData, NEW ok, memory_update(ok)
    PROVE  AllMatch' /\ (~KShiftFails => NoShift')
<1>0. /\ AfterCopies \in [Streams -> [Cells -> Content]]
      /\ \A t \in Streams : v_cells[t] \in CellsType /\ CellsOK(v_cells[t])
  BY AfterCopiesType DEF IInv, CellsInv, StreamOK
<1>1. CASE ok /\ get_has_shift
  <2>1. /\ kv' = Rotated(AfterCopies)
        /\ v_cells' = [t \in Streams |-> reset_shift(v_cells[t])]
    BY <1>1 DEF memory_update
  <2>2. \A t \in Streams, i \in Cells :
          /\ v_cells'[t].pos = v_cells[t].pos /\ v_cells'[t].tok = v_cells[t].tok
          /\ v_cells'[t].shift[i] = 0
    BY <1>0, <2>1 DEF reset_shift, CellsType
  <2>3. ASSUME NEW t \in Streams, NEW i \in Cells
        PROVE  CellMatches(kv'[t][i], v_cells'[t], i)
    <3> DEFINE x == AfterCopies[t][i]
    <3>1. CellMatches(x, v_cells[t], i) /\ x \in Content
      BY <1>0 DEF IdleData
    <3>2. v_cells[t].shift[i] \in Int /\ v_cells[t].pos[i] \in Int
      BY <1>0 DEF CellsType
    <3>3. kv'[t][i] = IF is_empty(v_cells[t], i) THEN x
                      ELSE [x EXCEPT !.rope = @ + v_cells[t].shift[i]]
      BY <2>1 DEF Rotated
    <3> HIDE DEF x
    <3>4. CASE is_empty(v_cells[t], i)
      BY <2>2, <3>4 DEF is_empty, CellMatches, Matches
    <3>5. CASE ~is_empty(v_cells[t], i)
      <4>1. kv'[t][i].tok = x.tok /\ kv'[t][i].rope = x.rope + v_cells[t].shift[i]
        BY <3>1, <3>3, <3>5 DEF Content
      <4>2. x.rope \in Int
        BY <3>1 DEF Content
      <4> QED BY <2>2, <3>1, <3>2, <4>1, <4>2 DEF CellMatches, Matches
    <3> QED BY <3>4, <3>5
  <2>4. AllMatch'
    BY <2>3 DEF AllMatch, CellMatches, Matches
  <2>5. NoShift'
    BY <2>2 DEF NoShift
  <2> QED BY <2>4, <2>5
<1>2. CASE ~(ok /\ get_has_shift)
  <2>1. kv' = AfterCopies /\ v_cells' = v_cells
    BY <1>2 DEF memory_update
  <2>2. AllMatch'
    BY <2>1 DEF AllMatch, IdleData
  <2>3. ASSUME ~KShiftFails PROVE NoShift'
    <3>1. ~get_has_shift
      BY <1>2, <2>3 DEF memory_update
    <3>2. \A t \in Streams : ~v_cells[t].has_shift
      BY <3>1 DEF get_has_shift
    <3>3. \A t \in Streams, i \in Cells : v_cells[t].shift[i] = 0
      BY <1>0, <3>2 DEF CellsOK, ShiftOK
    <3> QED BY <2>1, <3>3 DEF NoShift
  <2> QED BY <2>2, <2>3
<1> QED BY <1>1, <1>2

\* The tokens of split_simple's ubatches are those of the batch.
LEMMA SimpleTokens ==
    ASSUME NEW tok, NEW b \in UnifiedBatches,
           NEW k \in DOMAIN split_simple(b, tok), NEW t \in DOMAIN split_simple(b, tok)[k],
           NEW j \in DOMAIN split_simple(b, tok)[k][t]
    PROVE  \E m \in DOMAIN b : /\ split_simple(b, tok)[k][t][j] = BatchTokens(b, tok)[m]
                               /\ b[m] \in (SUBSET Seqs) \ {{}} /\ m \in Nat
                               /\ (k - 1) * NUbatch < m /\ m <= k * NUbatch
<1> DEFINE ubs == split_simple(b, tok)
<1>2. PICK n \in 1 .. MaxBatch : b \in [1 .. n -> (SUBSET Seqs) \ {{}}]
  BY DEF UnifiedBatches
<1>3. n \in Nat /\ NUbatch \in Nat \ {0}
  BY CacheAssumption
<1>4. Len(b) = n /\ DOMAIN b = 1 .. n
  BY <1>2, <1>3
<1> DEFINE toks == BatchTokens(b, tok)
           lo1 == (k - 1) * NUbatch + 1
           hi1 == Min({k * NUbatch, Len(b)})
<1>5. k \in Nat \ {0} /\ ubs[k][t] = SubSeq(toks, lo1, hi1)
  <2>1. k \in 1 .. ((Len(b) + NUbatch - 1) \div NUbatch)
    BY DEF split_simple
  <2>2. k \in Nat \ {0}
    BY <2>1
  <2>3. ubs[k][t] = SubSeq(toks, lo1, hi1)
    BY DEF split_simple
  <2> QED BY <2>2, <2>3
<1>6. lo1 \in Nat \ {0} /\ k * NUbatch \in Nat
  BY <1>3, <1>5
<1>7. hi1 \in Nat /\ hi1 <= n /\ hi1 <= k * NUbatch
  <2>1. {k * NUbatch, n} \in SUBSET Nat /\ {k * NUbatch, n} # {}
    BY <1>3, <1>6
  <2> QED BY <1>4, <2>1, MinOf
<1>8. toks \in Seq(Range(toks)) /\ Len(toks) = n
  <2>1. toks \in [1 .. n -> Range(toks)]
    BY <1>4 DEF BatchTokens, Range
  <2> HIDE DEF toks
  <2> QED BY <1>3, <2>1
<1>9. j \in DOMAIN ubs[k][t]
  OBVIOUS
<1> HIDE DEF toks, lo1, hi1, ubs
<1>10. PICK m \in 1 .. n : ubs[k][t][j] = toks[m] /\ (k - 1) * NUbatch < m /\ m <= k * NUbatch
  <2> DEFINE q == SubSeq(toks, lo1, hi1)
  <2>1. q = [i \in 1 .. (hi1 - lo1 + 1) |-> toks[i + lo1 - 1]]
    BY <1>6, <1>7, <1>8
  <2>2. j \in 1 .. (hi1 - lo1 + 1) /\ ubs[k][t][j] = toks[j + lo1 - 1]
    BY <1>5, <1>9, <2>1
  <2>3. /\ j + lo1 - 1 \in 1 .. n /\ (k - 1) * NUbatch < j + lo1 - 1
        /\ j + lo1 - 1 <= k * NUbatch
    <3> DEFINE y == (k - 1) * NUbatch
               z == k * NUbatch
    <3>1. y \in Nat /\ lo1 = y + 1 /\ z \in Nat /\ hi1 <= z
      BY <1>3, <1>5, <1>6, <1>7 DEF lo1
    <3> HIDE DEF y, z
    <3>2. j + lo1 - 1 \in 1 .. n /\ y < j + lo1 - 1 /\ j + lo1 - 1 <= z
      BY <1>3, <1>6, <1>7, <2>2, <3>1
    <3> QED BY <3>2 DEF y, z
  <2> QED BY <2>2, <2>3
<1>11. m \in DOMAIN b /\ b[m] \in (SUBSET Seqs) \ {{}} /\ m \in Nat
  BY <1>2, <1>3, <1>4
<1> QED BY <1>10, <1>11 DEF ubs, toks

\* Without shared tokens the ubatches of a batch have tokens of one sequence.
LEMMA SplitsUnshared ==
    ASSUME ~SharedTokens, NEW tok, NEW ubs \in Splits(tok), UbatchesOK(ubs)
    PROVE  Unshared(ubs)
<1> SUFFICES ASSUME NEW k \in DOMAIN ubs, NEW t \in DOMAIN ubs[k], NEW j \in DOMAIN ubs[k][t]
             PROVE  \E s \in Seqs : ubs[k][t][j].seqs = {s}
  BY DEF Unshared
<1>0. ubs[k][t][j] \in Token
  <2>1. UbatchOK(ubs[k])
    BY DEF UbatchesOK
  <2>2. ubs[k][t] \in Seq(Token)
    BY <2>1, UbatchTokens DEF TokensOK
  <2> QED BY <2>2
<1>1. CASE NStream # 1
  <2>1. PICK n \in StreamBatches : ubs = split_equal(n, tok)
    BY <1>1 DEF Splits
  <2>2. ubs[k][t][j].seqs = {t}
    BY <2>1 DEF split_equal
  <2>3. t \in Seqs
    BY <1>0, <2>2 DEF Token
  <2> QED BY <2>2, <2>3
<1>2. CASE NStream = 1
  <2>1. PICK b \in UnifiedBatches : ubs = split_simple(b, tok)
    BY <1>2 DEF Splits
  <2>2. PICK m \in DOMAIN b : ubs[k][t][j] = BatchTokens(b, tok)[m] /\ b[m] \in SUBSET Seqs
    BY <2>1, SimpleTokens
  <2>3. ubs[k][t][j].seqs = b[m]
    BY <2>2 DEF BatchTokens
  <2>4. Cardinality(b[m]) = 1
    BY DEF UnifiedBatches
  <2>5. IsFiniteSet(b[m])
    <3>1. 0 \in Int /\ NSeqs - 1 \in Int
      BY CellsAssumption
    <3>2. IsFiniteSet(Seqs)
      BY <3>1, FS_Interval DEF Seqs
    <3> QED BY <2>2, <3>2, FS_Subset
  <2>6. \E s : b[m] = {s}
    BY <2>4, <2>5, FS_Singleton
  <2> QED BY <2>2, <2>3, <2>6
<1> QED BY <1>1, <1>2

\* A slot takes no cell that holds a token whose shift is still queued.
LEMMA SlotsUnshifted ==
    ASSUME DataCalls, IInv, DataInv, phase # "idle", NEW ub, UbatchOK(ub),
           NEW si \in find_slot(ub), NEW t \in DOMAIN si, NEW i \in Range(si[t])
    PROVE  v_cells[t].shift[i] = 0
<1>1. /\ DOMAIN si = DOMAIN ub
      /\ \A u \in DOMAIN ub : si[u] \in SlotsIn(v_cells[u], v_heads[u], Len(ub[u]))
  BY DEF find_slot
<1>2. t \in Streams
  BY <1>1, UbatchTokens
<1>3. StreamOK(v_cells[t], t)
  BY <1>2 DEF IInv, CellsInv
<1>4. i \in Cells /\ i \in Usable(v_cells[t])
  BY <1>1 DEF SlotsIn, IsSlot, Range, Usable
<1>5. CASE is_empty(v_cells[t], i)
  BY <1>3, <1>4, <1>5 DEF StreamOK, CellsOK, ShiftOK, is_empty
<1>6. CASE ~is_empty(v_cells[t], i)
  <2>1. is_masked_swa(v_cells[t].pos[i], seq_pos_max(v_cells[t], seq_get(v_cells[t], i)) + 1)
    BY <1>4, <1>6 DEF Usable, can_use
  <2>2. SwaType # "none"
    BY <2>1 DEF is_masked_swa
  <2>3. NoShift
    BY <2>2 DEF DataCalls, DataInv
  <2> QED BY <1>2, <1>4, <2>3 DEF NoShift
<1> QED BY <1>5, <1>6

\* What apply_ubatch does to one cell of one stream.
LEMMA ApplyOne ==
    ASSUME IInv, NEW ub, UbatchOK(ub), NEW si, SinfoOK(si, ub),
           NEW t \in Streams, NEW i \in Cells
    PROVE  LET d == apply_cells(si, ub)[t]
               c == v_cells[t]
               x == At(si[t], ub[t])[i]
           IN  /\ ~(t \in DOMAIN si /\ i \in Range(si[t])) =>
                    \/ d.pos[i] = -1
                    \/ /\ d.pos[i] = c.pos[i] /\ d.tok[i] = c.tok[i]
                       /\ d.shift[i] = c.shift[i]
               /\ t \in DOMAIN si /\ i \in Range(si[t]) =>
                    /\ d.seq[i] \subseteq x.seqs
                    /\ d.pos[i] = -1 \/ (d.pos[i] = x.pos /\ d.tok[i] = x.tok)
                    /\ d.shift[i] = 0
<1>1. CASE t \in DOMAIN si
  <2>1. t \in DOMAIN ub /\ si[t] \in [1 .. Len(ub[t]) -> Cells]
    BY <1>1 DEF SinfoOK
  <2>2. TokensOK(ub[t], t)
    BY <2>1, UbatchTokens
  <2>3. StreamOK(v_cells[t], t)
    BY DEF IInv, CellsInv
  <2>4. apply_cells(si, ub)[t] = ApplyCells(v_cells[t], si[t], ub[t])
    BY <1>1 DEF apply_cells
  <2> QED BY <1>1, <2>1, <2>2, <2>3, <2>4, ApplyCellsData
<1>2. CASE t \notin DOMAIN si
  <2>1. apply_cells(si, ub)[t] = v_cells[t]
    BY <1>2 DEF apply_cells
  <2> QED BY <1>2, <2>1
<1> QED BY <1>1, <1>2

\* apply_ubatch queues no shift.
LEMMA ApplyUnshifted ==
    ASSUME IInv, NEW ub, UbatchOK(ub), NEW si, SinfoOK(si, ub), NoShift,
           v_cells' = apply_cells(si, ub)
    PROVE  NoShift'
<1>1. \A t \in Streams, i \in Cells :
        v_cells[t].shift[i] = 0 => apply_cells(si, ub)[t].shift[i] = 0
  BY ApplyAll DEF IInv
<1> QED BY <1>1 DEF NoShift

\* A round of prepare()'s first loop: the record it pushes covers the slot.
LEMMA PrepareUbatchData ==
    ASSUME DataCalls, IInv, DataInv, PrepareUbatch
    PROVE  DataInv'
<1> DEFINE n == Len(sinfos)
           ub == ubatches[n + 1]
           m == Len(states)
<1>1. /\ phase = "prepare" /\ phase' = phase /\ ubatches' = ubatches
      /\ UNCHANGED <<saved, kv>> /\ n < Len(ubatches)
  BY DEF PrepareUbatch
<1>2. PICK si \in find_slot(ub) :
        /\ states' = Append(states,
             [heads |-> v_heads,
              rows  |-> [t \in DOMAIN si |-> cp(v_cells[t], Range(si[t]))]])
        /\ v_cells' = apply_cells(si, ub)
  BY DEF PrepareUbatch
<1> DEFINE st == [heads |-> v_heads,
                  rows  |-> [t \in DOMAIN si |-> cp(v_cells[t], Range(si[t]))]]
<1>3. UbatchOK(ub) /\ SinfoOK(si, ub)
  <2>1. n \in Nat
    BY SeqFacts DEF IInv, CallInv
  <2>2. n + 1 \in DOMAIN ubatches
    BY <1>1, <2>1, CurrentUbatch
  <2> QED BY <1>1, <2>2, CurrentUbatch, FindSlotFits
<1>4. /\ m \in Nat /\ DOMAIN states = 1 .. m
      /\ DOMAIN states' = 1 .. (m + 1)
      /\ states'[m + 1] = st /\ \A k \in 1 .. m : states'[k] = states[k]
  <2>1. IsSeq(states) /\ states' = Append(states, st)
    BY <1>2 DEF IInv, CallInv
  <2> HIDE DEF st
  <2> QED BY <2>1, SeqFacts
<1>5. /\ DOMAIN st.rows = DOMAIN si
      /\ \A t \in DOMAIN si : /\ DOMAIN st.rows[t] = Range(si[t])
                              /\ \A i \in Range(si[t]) :
                                   /\ st.rows[t][i].pos = v_cells[t].pos[i]
                                   /\ st.rows[t][i].tok = v_cells[t].tok[i]
  BY DEF cp
<1> HIDE DEF st, ub, n, m
<1>6. /\ \A k \in 1 .. m : \A t, i : InRow(states'[k], t, i) <=> InRow(states[k], t, i)
      /\ \A t, i : InRow(states'[m + 1], t, i) <=> t \in DOMAIN si /\ i \in Range(si[t])
  BY <1>4, <1>5 DEF InRow
<1>7. /\ \A t \in Streams, i \in Cells :
           (\A k \in 1 .. m : ~InRow(states[k], t, i)) => CellMatches(kv[t][i], v_cells[t], i)
      /\ \A k \in 1 .. m, t \in Streams, i \in Cells :
           InRow(states[k], t, i) /\ (\A j \in 1 .. m : j < k => ~InRow(states[j], t, i))
             => Matches(kv[t][i], states[k].rows[t][i].pos, states[k].rows[t][i].tok, 0)
  BY <1>1, <1>4 DEF DataInv, CallData
<1>8. ASSUME NEW t \in Streams, NEW i \in Cells, \A k \in 1 .. (m + 1) : ~InRow(states'[k], t, i)
      PROVE  CellMatches(kv[t][i], v_cells'[t], i)
  <2>1. m + 1 \in 1 .. (m + 1) /\ \A k \in 1 .. m : k \in 1 .. (m + 1)
    BY <1>4
  <2>2. ~(t \in DOMAIN si /\ i \in Range(si[t])) /\ \A k \in 1 .. m : ~InRow(states[k], t, i)
    BY <1>6, <1>8, <2>1
  <2>3. CellMatches(kv[t][i], v_cells[t], i)
    BY <1>7, <2>2
  <2>4. \/ v_cells'[t].pos[i] = -1
        \/ /\ v_cells'[t].pos[i] = v_cells[t].pos[i] /\ v_cells'[t].tok[i] = v_cells[t].tok[i]
           /\ v_cells'[t].shift[i] = v_cells[t].shift[i]
    BY <1>2, <1>3, <2>2, ApplyOne
  <2> QED BY <2>3, <2>4 DEF CellMatches, Matches
<1>9. ASSUME NEW k \in 1 .. (m + 1), NEW t \in Streams, NEW i \in Cells,
             InRow(states'[k], t, i), \A j \in 1 .. (m + 1) : j < k => ~InRow(states'[j], t, i)
      PROVE  Matches(kv[t][i], states'[k].rows[t][i].pos, states'[k].rows[t][i].tok, 0)
  <2>1. \A j \in 1 .. m : j < k => ~InRow(states[j], t, i)
    BY <1>4, <1>6, <1>9
  <2>2. CASE k \in 1 .. m
    BY <1>4, <1>6, <1>7, <1>9, <2>1, <2>2
  <2>3. CASE k = m + 1
    <3>1. t \in DOMAIN si /\ i \in Range(si[t])
      BY <1>6, <1>9, <2>3
    <3>2. CellMatches(kv[t][i], v_cells[t], i)
      BY <1>4, <1>7, <2>1, <2>3
    <3>3. v_cells[t].shift[i] = 0
      BY <1>1, <1>3, <3>1, SlotsUnshifted
    <3>4. states'[k].rows[t][i].pos = v_cells[t].pos[i] /\ states'[k].rows[t][i].tok = v_cells[t].tok[i]
      BY <1>4, <1>5, <2>3, <3>1
    <3> QED BY <3>2, <3>3, <3>4 DEF CellMatches, Matches
  <2> QED BY <1>4, <2>2, <2>3
<1>10. CallData'
  <2>1. /\ \A t \in Streams, i \in Cells :
             (\A k \in DOMAIN states' : ~InRow(states'[k], t, i)) => CellMatches(kv'[t][i], v_cells'[t], i)
        /\ \A k \in DOMAIN states', t \in Streams, i \in Cells :
             InRow(states'[k], t, i) /\ (\A j \in DOMAIN states' : j < k => ~InRow(states'[j], t, i))
               => Matches(kv'[t][i], states'[k].rows[t][i].pos, states'[k].rows[t][i].tok, 0)
    BY <1>1, <1>4, <1>8, <1>9
  <2> QED BY <2>1 DEF CallData, CellMatches, Matches
<1>11. (~KShiftFails => NoShift)'
  BY <1>1, <1>2, <1>3, ApplyUnshifted DEF DataInv
<1>12. (~SharedTokens => Unshared(ubatches))'
  BY <1>1 DEF DataInv, Unshared
<1> QED BY <1>1, <1>10, <1>11, <1>12 DEF DataInv

\* A round of prepare()'s second loop: the top record goes back into its cells.
LEMMA RestoreUbatchData ==
    ASSUME IInv, DataInv, RestoreUbatch
    PROVE  DataInv'
<1> DEFINE st == Last(states)
           T == DOMAIN st.rows
           n == Len(states)
<1>1. /\ phase = "restore" /\ UNCHANGED <<phase, kv, ubatches, saved>>
      /\ states # <<>> /\ states' = Front(states)
      /\ v_cells' = [t \in Streams |-> IF t \in T THEN set(v_cells[t], st.rows[t])
                                                  ELSE v_cells[t]]
  BY DEF RestoreUbatch
<1>2. /\ n \in Nat /\ n > 0 /\ DOMAIN states = 1 .. n /\ st = states[n]
      /\ DOMAIN states' = 1 .. (n - 1)
      /\ \A k \in 1 .. (n - 1) : states'[k] = states[k]
  BY <1>1, SeqFacts DEF IInv, CallInv
<1>3. StateOK(st, v_cells) /\ CellsInv(v_cells)
  BY <1>2 DEF IInv, StackInv
<1> HIDE DEF st, n
<1>4. ASSUME NEW t \in Streams, NEW i \in Cells
      PROVE  /\ InRow(states[n], t, i) => /\ v_cells'[t].pos[i] = st.rows[t][i].pos
                                  /\ v_cells'[t].tok[i] = st.rows[t][i].tok
                                  /\ v_cells'[t].shift[i] = 0
             /\ ~InRow(states[n], t, i) => /\ v_cells'[t].pos[i] = v_cells[t].pos[i]
                                   /\ v_cells'[t].tok[i] = v_cells[t].tok[i]
             /\ v_cells'[t].shift[i] = v_cells[t].shift[i]
  <2>1. v_cells[t] \in CellsType
    BY <1>3 DEF CellsInv
  <2>2. CASE t \in T
    <3> DEFINE rows == st.rows[t]
    <3>1. v_cells'[t] = set(v_cells[t], rows)
      BY <1>1, <2>2
    <3>2. i \in DOMAIN rows => v_cells[t].shift[i] = 0
      BY <1>3, <2>2 DEF StateOK
    <3>3. InRow(states[n], t, i) <=> i \in DOMAIN rows
      BY <1>2, <2>2 DEF InRow
    <3> HIDE DEF rows
    <3>4. /\ set(v_cells[t], rows).pos[i] = IF i \in DOMAIN rows THEN rows[i].pos ELSE v_cells[t].pos[i]
          /\ set(v_cells[t], rows).tok[i] = IF i \in DOMAIN rows THEN rows[i].tok ELSE v_cells[t].tok[i]
          /\ set(v_cells[t], rows).shift[i] = v_cells[t].shift[i]
      BY <2>1, SetData
    <3> QED BY <3>1, <3>2, <3>3, <3>4 DEF rows
  <2>3. CASE t \notin T
    <3>1. v_cells'[t] = v_cells[t] /\ ~InRow(states[n], t, i)
      BY <1>1, <1>2, <2>3 DEF InRow
    <3> QED BY <3>1
  <2> QED BY <2>2, <2>3
<1>5. \A k \in 1 .. (n - 1) : \A t, i : InRow(states'[k], t, i) <=> InRow(states[k], t, i)
  BY <1>2 DEF InRow
<1>6. /\ \A t \in Streams, i \in Cells :
           (\A k \in 1 .. n : ~InRow(states[k], t, i)) => CellMatches(kv[t][i], v_cells[t], i)
      /\ \A k \in 1 .. n, t \in Streams, i \in Cells :
           InRow(states[k], t, i) /\ (\A j \in 1 .. n : j < k => ~InRow(states[j], t, i))
             => Matches(kv[t][i], states[k].rows[t][i].pos, states[k].rows[t][i].tok, 0)
  BY <1>1, <1>2 DEF DataInv, CallData
<1>7. n \in 1 .. n /\ \A k \in 1 .. n : k = n \/ k \in 1 .. (n - 1)
  BY <1>2
<1>8. ASSUME NEW t \in Streams, NEW i \in Cells, \A k \in 1 .. (n - 1) : ~InRow(states'[k], t, i)
      PROVE  CellMatches(kv[t][i], v_cells'[t], i)
  <2>1. \A k \in 1 .. (n - 1) : ~InRow(states[k], t, i)
    BY <1>5, <1>8
  <2>2. CASE InRow(states[n], t, i)
    <3>1. \A j \in 1 .. n : j < n => ~InRow(states[j], t, i)
      BY <1>2, <1>7, <2>1
    <3>2. Matches(kv[t][i], st.rows[t][i].pos, st.rows[t][i].tok, 0)
      BY <1>2, <1>6, <1>7, <2>2, <3>1
    <3> QED BY <1>4, <2>2, <3>2 DEF CellMatches
  <2>3. CASE ~InRow(states[n], t, i)
    <3>1. CellMatches(kv[t][i], v_cells[t], i)
      BY <1>6, <1>7, <2>1, <2>3
    <3> QED BY <1>4, <2>3, <3>1 DEF CellMatches
  <2> QED BY <2>2, <2>3
<1>9. ASSUME NEW k \in 1 .. (n - 1), NEW t \in Streams, NEW i \in Cells,
             InRow(states'[k], t, i), \A j \in 1 .. (n - 1) : j < k => ~InRow(states'[j], t, i)
      PROVE  Matches(kv[t][i], states'[k].rows[t][i].pos, states'[k].rows[t][i].tok, 0)
  <2>1. k \in 1 .. n /\ InRow(states[k], t, i) /\ states'[k] = states[k]
    BY <1>2, <1>5, <1>9
  <2>2. \A j \in 1 .. n : j < k => ~InRow(states[j], t, i)
    BY <1>2, <1>5, <1>7, <1>9
  <2> QED BY <1>6, <2>1, <2>2
<1>10. CallData'
  <2>1. /\ \A t \in Streams, i \in Cells :
             (\A k \in DOMAIN states' : ~InRow(states'[k], t, i)) => CellMatches(kv'[t][i], v_cells'[t], i)
        /\ \A k \in DOMAIN states', t \in Streams, i \in Cells :
             InRow(states'[k], t, i) /\ (\A j \in DOMAIN states' : j < k => ~InRow(states'[j], t, i))
               => Matches(kv'[t][i], states'[k].rows[t][i].pos, states'[k].rows[t][i].tok, 0)
    BY <1>1, <1>2, <1>8, <1>9
  <2> QED BY <2>1 DEF CallData, CellMatches, Matches
<1>11. (~KShiftFails => NoShift)'
  BY <1>1, <1>4 DEF DataInv, NoShift
<1>12. (~SharedTokens => Unshared(ubatches))'
  BY <1>1 DEF DataInv, Unshared
<1> QED BY <1>1, <1>10, <1>11, <1>12 DEF DataInv

\* The tokens of a well-formed ubatch.
LEMMA UbTokensType ==
    ASSUME NEW ub, UbatchOK(ub)
    PROVE  /\ UbTokens(ub) \subseteq Token
           /\ \A t \in DOMAIN ub : \A k \in DOMAIN ub[t] : ub[t][k] \in UbTokens(ub)
<1>1. \A t \in DOMAIN ub : ub[t] \in Seq(Token)
  BY UbatchTokens DEF TokensOK
<1>2. \A t \in DOMAIN ub : Range(ub[t]) \subseteq Token
  BY <1>1 DEF Range
<1> QED BY <1>2 DEF UbTokens, Range

\* The clean-up starts at or below every token of the ubatch.
CleansUp(from, ub) ==
    \A x \in UbTokens(ub) : \A s \in x.seqs :
        s \in DOMAIN from /\ from[s] \in Nat /\ from[s] <= x.pos

\* call_pos_min covers every ubatch of the call.
LEMMA CallFromCleansUp ==
    ASSUME IInv, phase # "idle", NEW k \in DOMAIN ubatches
    PROVE  CleansUp(CallFrom, ubatches[k])
<1> DEFINE toks == UNION {UbTokens(ubatches[j]) : j \in DOMAIN ubatches}
           P(s) == {x.pos : x \in {y \in toks : s \in y.seqs}}
<1>1. \A j \in DOMAIN ubatches : UbTokens(ubatches[j]) \subseteq Token
  BY CurrentUbatch, UbTokensType
<1>2. toks \subseteq Token /\ UbTokens(ubatches[k]) \subseteq toks
  BY <1>1
<1>3. CallFrom = [s \in UNION {x.seqs : x \in toks} |-> Min(P(s))]
  BY DEF CallFrom
<1> HIDE DEF toks
<1> SUFFICES ASSUME NEW x \in UbTokens(ubatches[k]), NEW s \in x.seqs
             PROVE  s \in DOMAIN CallFrom /\ CallFrom[s] \in Nat /\ CallFrom[s] <= x.pos
  BY DEF CleansUp
<1>4. x \in toks
  BY <1>2
<1>5. P(s) \in SUBSET Nat /\ x.pos \in P(s)
  BY <1>2, <1>4 DEF Token
<1>6. s \in UNION {y.seqs : y \in toks}
  BY <1>4
<1> HIDE DEF P
<1>7. Min(P(s)) \in Nat /\ Min(P(s)) <= x.pos
  BY <1>5, MinOf
<1> QED BY <1>3, <1>6, <1>7

\* The clean-up of one failed ubatch covers it when no token is shared.
LEMMA FailedFromCleansUp ==
    ASSUME NEW ub, UbatchOK(ub),
           \A t \in DOMAIN ub : \A j \in DOMAIN ub[t] : \E s \in Seqs : ub[t][j].seqs = {s}
    PROVE  CleansUp(FailedFrom(ub), ub)
<1> DEFINE toks == UbTokens(ub)
           P(s) == {x.pos : x \in {y \in toks : Min(y.seqs) = s}}
<1>1. toks \subseteq Token
  BY UbTokensType
<1>2. \A x \in toks : \E s \in Seqs : x.seqs = {s}
  BY DEF UbTokens, Range
<1>3. FailedFrom(ub) = [s \in {Min(x.seqs) : x \in toks} |-> Min(P(s))]
  BY DEF FailedFrom
<1> HIDE DEF toks
<1> SUFFICES ASSUME NEW x \in toks, NEW s \in x.seqs
             PROVE  /\ s \in DOMAIN FailedFrom(ub) /\ FailedFrom(ub)[s] \in Nat
                    /\ FailedFrom(ub)[s] <= x.pos
  BY DEF CleansUp, toks
<1>4. x.seqs = {s} /\ s \in Nat
  <2>1. x.seqs = {s} /\ s \in Seqs
    BY <1>2
  <2> QED BY <2>1 DEF Seqs
<1>5. Min(x.seqs) = s
  <2>1. {s} \in SUBSET Nat /\ {s} # {}
    BY <1>4
  <2>2. Min({s}) \in {s}
    BY <2>1, MinOf
  <2> QED BY <1>4, <2>2
<1>6. P(s) \in SUBSET Nat /\ x.pos \in P(s) /\ s \in {Min(y.seqs) : y \in toks}
  <2>1. \A y \in toks : y.pos \in Nat
    BY <1>1 DEF Token
  <2> QED BY <1>5, <2>1
<1> HIDE DEF P
<1>7. Min(P(s)) \in Nat /\ Min(P(s)) <= x.pos
  BY <1>6, MinOf
<1> QED BY <1>3, <1>6, <1>7

\* After the clean-up nothing of the failed ubatch is left in its slot.
LEMMA CleanUpEmpties ==
    ASSUME IInv, NEW ub, UbatchOK(ub), NEW si, SinfoOK(si, ub),
           NEW from, CleansUp(from, ub),
           NEW t \in DOMAIN si, NEW i \in Range(si[t])
    PROVE  RemoveFrom(apply_cells(si, ub), from)[t].pos[i] = -1
<1> DEFINE d == apply_cells(si, ub)
           x == At(si[t], ub[t])[i]
           R == UNION {SeqRange(d[t], s, from[s], -1) :
                         s \in {u \in DOMAIN from : seq_to_stream(u) = t}}
<1>1. /\ t \in DOMAIN ub /\ si[t] \in [1 .. Len(ub[t]) -> Cells]
      /\ t \in Streams /\ TokensOK(ub[t], t)
  BY UbatchTokens DEF SinfoOK
<1>2. i \in Cells
  BY <1>1 DEF Range
<1>3. PICK k \in DOMAIN ub[t] : x = ub[t][k]
  BY <1>1, AtType DEF TokensOK
<1>4. x \in UbTokens(ub) /\ x.pos \in Nat
  <2>1. x \in UbTokens(ub) /\ UbTokens(ub) \subseteq Token
    BY <1>1, <1>3, UbTokensType
  <2> QED BY <2>1 DEF Token
<1>5. d[t].seq[i] \subseteq x.seqs /\ (d[t].pos[i] = -1 \/ d[t].pos[i] = x.pos)
  BY <1>1, <1>2, ApplyOne
<1>6. StreamOK(d[t], t) /\ RemoveFrom(d, from)[t] = seq_rm(d[t], R)
  <2>1. CellsInv(d)
    BY ApplyAll DEF IInv
  <2> QED BY <1>1, <2>1 DEF CellsInv, RemoveFrom
<1> HIDE DEF d, x
<1>7. ASSUME NEW s \in d[t].seq[i] PROVE <<i, s>> \in R
  <2>1. s \in DOMAIN from /\ from[s] \in Nat /\ from[s] <= x.pos
    BY <1>4, <1>5 DEF CleansUp
  <2>2. seq_to_stream(s) = t
    BY <1>2, <1>6 DEF StreamOK
  <2>3. d[t].pos[i] = x.pos
    BY <1>2, <1>5, <1>6 DEF StreamOK, CellsOK, EmptyOK
  <2>4. i \in InRange(d[t], from[s], -1) /\ i \in With(d[t], s)
    BY <1>2, <1>4, <2>1, <2>3 DEF InRange, With, lo
  <2>5. <<i, s>> \in SeqRange(d[t], s, from[s], -1)
    BY <2>4 DEF SeqRange
  <2> QED BY <2>1, <2>2, <2>5
<1> HIDE DEF R
<1>8. seq_rm(d[t], R).pos[i] = -1
  BY <1>2, <1>6, <1>7, SeqRmEmpties DEF StreamOK
<1> QED BY <1>6, <1>8 DEF d

\* A ubatch that was computed is in the buffers.
LEMMA DecodeUbatchData ==
    ASSUME IInv, TypeInv, TypeInv', DataInv, DecodeUbatch
    PROVE  DataInv'
<1> DEFINE ub == ubatches[done + 1]
           si == sinfos[done + 1]
<1>1. /\ phase = "decode" /\ kv' = Written(si, ub, TRUE) /\ v_cells' = apply_cells(si, ub)
      /\ UNCHANGED <<sc_info, saved>>
  BY DEF DecodeUbatch
<1>2. UbatchOK(ub) /\ SinfoOK(si, ub)
  BY <1>1, CurrentOK
<1>3. states = <<>> /\ sc_info = <<>> /\ AllMatch
  BY <1>1, NothingQueued DEF IInv, CallInv, TypeInv
<1> HIDE DEF ub, si
<1>4. ASSUME NEW t \in Streams, NEW i \in Cells
      PROVE  CellMatches(kv'[t][i], v_cells'[t], i)
  <2> DEFINE x == At(si[t], ub[t])[i]
  <2>1. CASE t \in DOMAIN si /\ i \in Range(si[t])
    <3>1. kv'[t][i] = [tok |-> x.tok, rope |-> x.pos]
      BY <1>1, <2>1 DEF Written
    <3>2. x.pos \in Int
      <4>1. t \in DOMAIN ub /\ si[t] \in [1 .. Len(ub[t]) -> Cells] /\ TokensOK(ub[t], t)
        BY <1>2, <2>1, UbatchTokens DEF SinfoOK
      <4>2. PICK k \in DOMAIN ub[t] : x = ub[t][k]
        BY <2>1, <4>1, AtType DEF TokensOK
      <4>3. x \in UbTokens(ub) /\ UbTokens(ub) \subseteq Token
        BY <1>2, <4>1, <4>2, UbTokensType
      <4> QED BY <4>3 DEF Token
    <3>3. /\ v_cells'[t].pos[i] = -1 \/ (v_cells'[t].pos[i] = x.pos /\ v_cells'[t].tok[i] = x.tok)
          /\ v_cells'[t].shift[i] = 0
      BY <1>1, <1>2, <2>1, ApplyOne
    <3> HIDE DEF x
    <3> QED BY <3>1, <3>2, <3>3 DEF CellMatches, Matches
  <2>2. CASE ~(t \in DOMAIN si /\ i \in Range(si[t]))
    <3>1. kv'[t][i] = kv[t][i]
      BY <1>1, <2>2 DEF Written
    <3>2. \/ v_cells'[t].pos[i] = -1
          \/ /\ v_cells'[t].pos[i] = v_cells[t].pos[i] /\ v_cells'[t].tok[i] = v_cells[t].tok[i]
             /\ v_cells'[t].shift[i] = v_cells[t].shift[i]
      BY <1>1, <1>2, <2>2, ApplyOne
    <3>3. CellMatches(kv[t][i], v_cells[t], i)
      BY <1>3 DEF AllMatch
    <3> QED BY <3>1, <3>2, <3>3 DEF CellMatches, Matches
  <2> QED BY <2>1, <2>2
<1>5. AllMatch'
  BY <1>4 DEF AllMatch, CellMatches, Matches
<1>6. CASE CallEnds
  BY <1>1, <1>3, <1>5, <1>6, DataCallEnds DEF TypeInv
<1>7. CASE UNCHANGED <<phase, ubatches, sinfos, states, did_optimize, before>>
  <2>1. ~KShiftFails => NoShift'
    BY <1>1, <1>2, ApplyUnshifted DEF DataInv
  <2>2. ~SharedTokens => Unshared(ubatches')
    BY <1>1, <1>7 DEF DataInv
  <2> QED BY <1>1, <1>3, <1>5, <1>7, <2>1, <2>2, DataNoRecords
<1> QED BY <1>6, <1>7 DEF DecodeUbatch

\* What a failed ubatch left in the buffers belongs to no cell any more.
LEMMA DecodeFailsData ==
    ASSUME DataCalls, IInv, TypeInv, TypeInv', DataInv, NEW how \in Failures, DecodeFails(how)
    PROVE  DataInv'
<1> DEFINE ub == ubatches[done + 1]
           si == sinfos[done + 1]
           from == IF how = "oom" THEN CallFrom ELSE FailedFrom(ub)
           placed == apply_cells(si, ub)
<1>1. /\ phase = "decode" /\ kv' = Written(si, ub, FALSE) /\ v_cells' = RemoveFrom(placed, from)
      /\ CallEnds /\ UNCHANGED <<sc_info, saved>>
  BY DEF DecodeFails
<1>2. UbatchOK(ub) /\ SinfoOK(si, ub) /\ done + 1 \in DOMAIN ubatches
  BY <1>1, CurrentOK
<1>3. states = <<>> /\ sc_info = <<>> /\ AllMatch
  BY <1>1, NothingQueued DEF IInv, CallInv, TypeInv
<1>4. CleansUp(from, ub)
  <2>1. CASE how = "oom"
    BY <1>1, <1>2, <2>1, CallFromCleansUp
  <2>2. CASE how # "oom"
    <3>1. ~SharedTokens
      BY <2>2 DEF DataCalls
    <3>2. Unshared(ubatches)
      BY <1>1, <3>1 DEF DataInv
    <3>3. \A t \in DOMAIN ub : \A j \in DOMAIN ub[t] : \E s \in Seqs : ub[t][j].seqs = {s}
      BY <1>2, <3>2 DEF Unshared
    <3> QED BY <1>2, <2>2, <3>3, FailedFromCleansUp
  <2> QED BY <2>1, <2>2
<1> HIDE DEF ub, si, from
<1>5. ASSUME NEW t \in Streams, NEW i \in Cells
      PROVE  CellMatches(kv'[t][i], v_cells'[t], i)
  <2>1. CASE t \in DOMAIN si /\ i \in Range(si[t])
    <3>1. v_cells'[t].pos[i] = -1
      BY <1>1, <1>2, <1>4, <2>1, CleanUpEmpties
    <3> QED BY <3>1 DEF CellMatches, Matches
  <2>2. CASE ~(t \in DOMAIN si /\ i \in Range(si[t]))
    <3>1. kv'[t][i] = kv[t][i]
      BY <1>1, <2>2 DEF Written
    <3>2. \/ placed[t].pos[i] = -1
          \/ /\ placed[t].pos[i] = v_cells[t].pos[i] /\ placed[t].tok[i] = v_cells[t].tok[i]
             /\ placed[t].shift[i] = v_cells[t].shift[i]
      BY <1>2, <2>2, ApplyOne
    <3>3. CellMatches(kv[t][i], v_cells[t], i)
      BY <1>3 DEF AllMatch
    <3>4. placed[t] \in CellsType
      BY <1>2, ApplyAll DEF IInv, CellsInv
    <3> HIDE DEF placed
    <3>5. Shrinks(placed[t], v_cells'[t])
      BY <1>1, <3>4, TakingOut DEF RemoveFrom
    <3>6. \/ v_cells'[t].pos[i] = -1
          \/ /\ v_cells'[t].pos[i] = placed[t].pos[i] /\ v_cells'[t].tok[i] = placed[t].tok[i]
             /\ v_cells'[t].shift[i] = placed[t].shift[i]
      BY <3>5 DEF Shrinks
    <3> QED BY <3>1, <3>2, <3>3, <3>6 DEF CellMatches, Matches
  <2> QED BY <2>1, <2>2
<1>6. AllMatch'
  BY <1>5 DEF AllMatch, CellMatches, Matches
<1> QED BY <1>1, <1>3, <1>6, DataCallEnds DEF TypeInv

\* Every step of a decode call keeps the data in step.
LEMMA DecodeData == ASSUME DataCalls, IInv, TypeInv, TypeInv', DataInv, Decode PROVE DataInv'
<1>1. ASSUME NEW tok \in Tokens, NEW ubs \in Splits(tok), NEW ok, phase = "idle",
             DecodeBegin(ubs, ok)
      PROVE  DataInv'
  <2>1. /\ memory_update(ok) /\ phase' = "prepare" /\ ubatches' = ubs /\ UbatchesOK(ubs)
        /\ UNCHANGED <<states, saved>>
    BY <1>1 DEF DecodeBegin
  <2>2. states' = <<>> /\ IdleData
    BY <1>1, <2>1 DEF IInv, CallInv, DataInv
  <2>3. AllMatch' /\ (~KShiftFails => NoShift')
    BY <2>1, <2>2, UpdateData
  <2>4. ~SharedTokens => Unshared(ubatches')
    BY <2>1, SplitsUnshared
  <2> QED BY <2>1, <2>2, <2>3, <2>4, DataNoRecords
<1>2. ASSUME PrepareEnd \/ PrepareSucceeds PROVE DataInv'
  <2>1. /\ UNCHANGED <<v_cells, kv, ubatches, states, saved>>
        /\ phase # "idle" /\ phase' # "idle"
    BY <1>2 DEF PrepareEnd, PrepareSucceeds, Prepared
  <2>2. CallData'
    BY <2>1 DEF DataInv, CallData
  <2>3. (~KShiftFails => NoShift)' /\ (~SharedTokens => Unshared(ubatches))'
    BY <2>1 DEF DataInv, NoShift, Unshared
  <2> QED BY <2>1, <2>2, <2>3 DEF DataInv
<1>3. ASSUME NEW ok, PrepareRetries(ok) PROVE DataInv'
  <2>1. /\ memory_update(ok) /\ phase = "restore" /\ phase' = "prepare" /\ states = <<>>
        /\ UNCHANGED <<ubatches, states, saved>>
    BY <1>3 DEF PrepareRetries, Prepared
  <2>2. IdleData
    BY <2>1, NothingQueued
  <2>3. AllMatch' /\ (~KShiftFails => NoShift')
    BY <2>1, <2>2, UpdateData
  <2>4. ~SharedTokens => Unshared(ubatches')
    BY <2>1 DEF DataInv
  <2> QED BY <2>1, <2>3, <2>4, DataNoRecords
<1>4. ASSUME PrepareFails \/ ReserveFails PROVE DataInv'
  <2>1. CallEnds /\ UNCHANGED <<v_cells, sc_info, kv, saved>> /\ phase # "idle" /\ states = <<>>
    BY <1>4 DEF PrepareFails, ReserveFails, Prepared, IInv, CallInv
  <2>2. AllMatch /\ sc_info = <<>>
    BY <2>1, NothingQueued DEF TypeInv
  <2>3. AllMatch'
    BY <2>1, <2>2 DEF AllMatch
  <2> QED BY <2>1, <2>2, <2>3, DataCallEnds DEF TypeInv
<1> QED BY <1>1, <1>2, <1>3, <1>4, PrepareUbatchData, RestoreUbatchData, DecodeUbatchData,
           DecodeFailsData
        DEF Decode

\* A restored sequence: the tokens, their slot and the cells it leaves.
LEMMA RestoredCell ==
    ASSUME IInv, DataInv, NEW s \in Seqs, NEW idxs \in RestoreSlots(s), NEW i \in Cells
    PROVE  LET c == v_cells[seq_to_stream(s)]
               d == ApplyCells(Emptied(s), idxs, SavedTokens(s))
               x == At(idxs, saved)[i].data
           IN  /\ i \notin Range(idxs) =>
                    \/ d.pos[i] = -1
                    \/ /\ d.pos[i] = c.pos[i] /\ d.tok[i] = c.tok[i]
                       /\ d.shift[i] = c.shift[i]
               /\ i \in Range(idxs) =>
                    /\ d.seq[i] \subseteq {s}
                    /\ d.pos[i] = -1 \/ (d.pos[i] = x.rope /\ d.tok[i] = x.tok)
                    /\ d.shift[i] = 0
<1> DEFINE t == seq_to_stream(s)
           e == Emptied(s)
           d == ApplyCells(e, idxs, SavedTokens(s))
<1>1. t \in Streams /\ StreamOK(v_cells[t], t)
  BY StreamOfSeq DEF IInv, CellsInv
<1>2. StreamOK(e, t) /\ Shrinks(v_cells[t], e)
  BY <1>1, SeqRmStream, TakingOut DEF Emptied, StreamOK
<1>3. /\ Len(saved) \in Nat /\ DOMAIN saved = 1 .. Len(saved)
      /\ TokensOK(SavedTokens(s), t) /\ Len(SavedTokens(s)) = Len(saved)
      /\ idxs \in [1 .. Len(saved) -> Cells]
  BY SavedTokensOK
<1> HIDE DEF e, t
<1>4. /\ i \notin Range(idxs) =>
           \/ d.pos[i] = -1
           \/ /\ d.pos[i] = e.pos[i] /\ d.tok[i] = e.tok[i]
              /\ d.shift[i] = e.shift[i]
      /\ i \in Range(idxs) =>
           /\ d.seq[i] \subseteq At(idxs, SavedTokens(s))[i].seqs
           /\ \/ d.pos[i] = -1
              \/ /\ d.pos[i] = At(idxs, SavedTokens(s))[i].pos
                 /\ d.tok[i] = At(idxs, SavedTokens(s))[i].tok
           /\ d.shift[i] = 0
  BY <1>1, <1>2, <1>3, ApplyCellsData
<1>5. ASSUME i \in Range(idxs)
      PROVE  LET y == At(idxs, SavedTokens(s))[i]
                 x == At(idxs, saved)[i].data
             IN  y.seqs = {s} /\ y.pos = x.rope /\ y.tok = x.tok
  <2>1. \E k \in DOMAIN idxs : idxs[k] = i
    BY <1>5 DEF Range
  <2>2. PICK k \in DOMAIN idxs : k = CHOOSE j \in DOMAIN idxs : idxs[j] = i
    BY <2>1
  <2>3. At(idxs, SavedTokens(s))[i] = SavedTokens(s)[k] /\ At(idxs, saved)[i] = saved[k]
    BY <1>5, <2>2 DEF At
  <2>4. k \in DOMAIN saved
    BY <1>3, <2>2
  <2>5. SavedTokens(s)[k] = [pos |-> saved[k].pos, tok |-> saved[k].tok, seqs |-> {s}]
    BY <2>4 DEF SavedTokens
  <2>6. saved[k].data.tok = saved[k].tok /\ saved[k].data.rope = saved[k].pos
    BY <2>4 DEF DataInv
  <2> QED BY <2>3, <2>5, <2>6
<1>6. \/ e.pos[i] = -1
      \/ /\ e.pos[i] = v_cells[t].pos[i] /\ e.tok[i] = v_cells[t].tok[i]
         /\ e.shift[i] = v_cells[t].shift[i]
  BY <1>2 DEF Shrinks
<1> HIDE DEF d
<1>7. CASE i \in Range(idxs)
  BY <1>4, <1>5, <1>7 DEF d, e, t
<1>8. CASE i \notin Range(idxs)
  BY <1>4, <1>6, <1>8 DEF d, e, t
<1> QED BY <1>7, <1>8

\* Without a queued update the buffers are final and no cell has a shift.
LEMMA NothingPending ==
    ASSUME DataCalls, IInv, TypeInv, DataInv, StateIoGuard
    PROVE  phase = "idle" /\ sc_info = <<>> /\ NoShift /\ AllMatch
<1>1. phase = "idle" /\ sc_info = <<>> /\ ~get_has_shift
  BY DEF StateIoGuard, Idle, UpdatePending, DataCalls
<1>2. NoShift
  <2>1. \A t \in Streams : ~v_cells[t].has_shift /\ CellsOK(v_cells[t])
    BY <1>1 DEF get_has_shift, IInv, CellsInv, StreamOK
  <2> QED BY <2>1 DEF NoShift, CellsOK, ShiftOK
<1>3. AfterCopies = kv
  BY <1>1, NoCopies DEF TypeInv
<1>4. AllMatch
  BY <1>1, <1>3 DEF DataInv, IdleData, AllMatch
<1> QED BY <1>1, <1>2, <1>4

\* With nothing queued, buffers that match are all an idle step has to leave.
LEMMA DataIdleMatch ==
    ASSUME DataInv, phase = "idle", UNCHANGED call, UNCHANGED saved, sc_info' = <<>>, AllMatch',
           kv' \in [Streams -> [Cells -> Content]]
    PROVE  DataInv'
<1> DEFINE h == CHOOSE e \in CopyHistories(sc_info') : TRUE
<1>1. h[Len(sc_info')] = [t \in Streams |-> t]
  BY EmptyHistory
<1>2. AfterCopies' = [t \in Streams |-> kv'[h[Len(sc_info')][t]]]
  BY DEF AfterCopies, CopyHistories
<1> HIDE DEF h
<1>3. AfterCopies' = kv'
  BY <1>1, <1>2
<1>4. IdleData'
  BY <1>3 DEF AllMatch, IdleData
<1> QED BY <1>4, DataIdleStep

\* A whole range of a sequence is all its cells.
LEMMA WholeRange ==
    ASSUME NEW c \in CellsType, CellsOK(c), NEW s, NEW i \in Cells, c.seq[i] \subseteq {s}
    PROVE  \A u \in c.seq[i] : <<i, u>> \in SeqRange(c, s, -1, -1)
<1> SUFFICES ASSUME s \in c.seq[i] PROVE <<i, s>> \in SeqRange(c, s, -1, -1)
  OBVIOUS
<1>1. i \in With(c, s)
  BY DEF With
<1>2. c.pos[i] \in Nat
  BY <1>1, OccupiedNotEmpty
<1>3. i \in InRange(c, -1, -1)
  BY <1>2 DEF InRange, lo
<1> QED BY <1>1, <1>3 DEF SeqRange

\* A saved sequence carries the data of its cells.
LEMMA StateSaveData ==
    ASSUME DataCalls, IInv, TypeInv, DataInv, NEW s \in Seqs, StateSave(s)
    PROVE  DataInv'
<1> DEFINE t == seq_to_stream(s)
           c == v_cells[t]
           I == {i \in With(c, s) : ~is_masked_swa(c.pos[i], seq_pos_max(c, s))}
           n == Cardinality(I)
<1>1. PICK idxs \in [1 .. n -> I] :
        saved' = [k \in DOMAIN idxs |-> [pos |-> c.pos[idxs[k]], tok |-> c.tok[idxs[k]],
                                         data |-> kv[t][idxs[k]]]]
  BY DEF StateSave
<1>2. StateIoGuard /\ UNCHANGED <<v_cells, v_heads, sc_info, kv, call>>
  BY DEF StateSave
<1>3. phase = "idle" /\ NoShift /\ AllMatch
  BY <1>2, NothingPending
<1>4. t \in Streams /\ I \in SUBSET Cells
  BY StreamOfSeq DEF With
<1>5. c \in CellsType /\ CellsOK(c)
  BY <1>4 DEF IInv, CellsInv, StreamOK
<1>6. \A i \in I : c.pos[i] # -1
  BY <1>5, OccupiedNotEmpty
<1>7. \A i \in I : kv[t][i].tok = c.tok[i] /\ kv[t][i].rope = c.pos[i]
  <2>1. ASSUME NEW i \in I PROVE kv[t][i].tok = c.tok[i] /\ kv[t][i].rope + 0 = c.pos[i]
    BY <1>3, <1>4, <1>6 DEF AllMatch, CellMatches, Matches, NoShift
  <2>2. \A i \in I : kv[t][i].rope \in Int
    BY <1>4 DEF TypeInv, Content
  <2> QED BY <2>1, <2>2
<1> HIDE DEF t, c, I, n
<1>8. \A k \in DOMAIN saved' : /\ saved'[k].data.tok = saved'[k].tok
                               /\ saved'[k].data.rope = saved'[k].pos
  BY <1>1, <1>7
<1>9. AfterCopies' = AfterCopies
  BY <1>2 DEF AfterCopies
<1>10. IdleData'
  BY <1>2, <1>3, <1>9 DEF DataInv, IdleData
<1> QED BY <1>2, <1>3, <1>8, <1>10 DEF DataInv, call

\* The data written with a restored sequence is that of its cells.
LEMMA StateRestoreData ==
    ASSUME DataCalls, IInv, TypeInv, TypeInv', DataInv, NEW s \in Seqs, StateRestore(s)
    PROVE  DataInv'
<1> DEFINE t == seq_to_stream(s)
<1>1. PICK idxs \in RestoreSlots(s) :
        /\ v_cells' = [v_cells EXCEPT ![t] = ApplyCells(Emptied(s), idxs, SavedTokens(s))]
        /\ kv' = [kv EXCEPT ![t] = [i \in Cells |->
                    IF i \in Range(idxs) THEN At(idxs, saved)[i].data ELSE kv[t][i]]]
  BY DEF StateRestore
<1>2. StateIoGuard /\ UNCHANGED <<sc_info, call, saved>>
  BY DEF StateRestore
<1>3. phase = "idle" /\ sc_info = <<>> /\ AllMatch
  BY <1>2, NothingPending
<1>4. t \in Streams /\ v_cells \in [Streams -> CellsType]
      /\ kv \in [Streams -> [Cells -> Content]] /\ kv' \in [Streams -> [Cells -> Content]]
  BY StreamOfSeq DEF IInv, CellsInv, TypeInv
<1> DEFINE d == ApplyCells(Emptied(s), idxs, SavedTokens(s))
<1>5. ASSUME NEW i \in Cells
      PROVE  CellMatches(kv'[t][i], d, i)
  <2>1. kv'[t][i] = IF i \in Range(idxs) THEN At(idxs, saved)[i].data ELSE kv[t][i]
    BY <1>1, <1>4
  <2>2. kv'[t][i].rope \in Int
    BY <1>4 DEF Content
  <2> DEFINE x == At(idxs, saved)[i].data
  <2>3. CASE i \in Range(idxs)
    <3>1. d.shift[i] = 0 /\ (d.pos[i] = -1 \/ (d.pos[i] = x.rope /\ d.tok[i] = x.tok))
      BY <2>3, RestoredCell
    <3>2. kv'[t][i] = x
      BY <2>1, <2>3
    <3> HIDE DEF d, x, t
    <3> QED BY <2>2, <3>1, <3>2 DEF CellMatches, Matches
  <2>4. CASE i \notin Range(idxs)
    <3>1. \/ d.pos[i] = -1
          \/ /\ d.pos[i] = v_cells[t].pos[i] /\ d.tok[i] = v_cells[t].tok[i]
             /\ d.shift[i] = v_cells[t].shift[i]
      BY <2>4, RestoredCell
    <3>2. kv'[t][i] = kv[t][i]
      BY <2>1, <2>4
    <3>3. CellMatches(kv[t][i], v_cells[t], i)
      BY <1>3, <1>4 DEF AllMatch
    <3> HIDE DEF d, t
    <3> QED BY <3>1, <3>2, <3>3 DEF CellMatches, Matches
  <2> QED BY <2>3, <2>4
<1>6. v_cells' = [v_cells EXCEPT ![t] = d]
  BY <1>1
<1>7. \A u \in Streams : u # t => kv'[u] = kv[u]
  BY <1>1, <1>4
<1> HIDE DEF d, t
<1>8. ASSUME NEW u \in Streams, NEW i \in Cells PROVE CellMatches(kv'[u][i], v_cells'[u], i)
  <2>1. CASE u = t
    BY <1>4, <1>5, <1>6, <2>1
  <2>2. CASE u # t
    BY <1>3, <1>4, <1>6, <1>7, <2>2 DEF AllMatch
  <2> QED BY <2>1, <2>2
<1>9. AllMatch'
  BY <1>8 DEF AllMatch, CellMatches, Matches
<1> QED BY <1>2, <1>3, <1>4, <1>9, DataIdleMatch

\* A restore that fails leaves no cell over the data it cleared.
LEMMA StateRestoreFailsData ==
    ASSUME DataCalls, IInv, TypeInv, TypeInv', DataInv, NEW s \in Seqs, StateRestoreFails(s)
    PROVE  DataInv'
<1> DEFINE t == seq_to_stream(s)
           Dropped(c) == seq_rm(c, SeqRange(c, s, -1, -1))
           Kept(I) == [i \in Cells |-> IF i \in I THEN Garbage ELSE kv[t][i]]
           Placed(idxs) == ApplyCells(Emptied(s), idxs, SavedTokens(s))
<1>1. \/ /\ v_cells' = [v_cells EXCEPT ![t] = Dropped(v_cells[t])]
         /\ kv' = [kv EXCEPT ![t] = Kept({})]
      \/ \E idxs \in RestoreSlots(s) :
           /\ v_cells' = [v_cells EXCEPT ![t] = Dropped(Placed(idxs))]
           /\ kv' = [kv EXCEPT ![t] = Kept(Range(idxs))]
  BY DEF StateRestoreFails
<1>2. StateIoGuard /\ UNCHANGED <<sc_info, call, saved>>
  BY DEF StateRestoreFails
<1>3. phase = "idle" /\ sc_info = <<>> /\ AllMatch
  BY <1>2, NothingPending
<1>4. /\ t \in Streams /\ v_cells \in [Streams -> CellsType] /\ StreamOK(v_cells[t], t)
      /\ kv \in [Streams -> [Cells -> Content]] /\ kv' \in [Streams -> [Cells -> Content]]
  BY StreamOfSeq DEF IInv, CellsInv, TypeInv
<1>5. ASSUME NEW d, NEW x,
             v_cells' = [v_cells EXCEPT ![t] = d], kv' = [kv EXCEPT ![t] = x],
             \A i \in Cells : CellMatches(x[i], d, i)
      PROVE  DataInv'
  <2> HIDE DEF t
  <2>1. ASSUME NEW u \in Streams, NEW i \in Cells
        PROVE  CellMatches(kv'[u][i], v_cells'[u], i)
    <3>1. CASE u = t
      BY <1>4, <1>5, <3>1
    <3>2. CASE u # t
      BY <1>3, <1>4, <1>5, <3>2 DEF AllMatch
    <3> QED BY <3>1, <3>2
  <2>2. AllMatch'
    BY <2>1 DEF AllMatch, CellMatches, Matches
  <2> QED BY <1>2, <1>3, <1>4, <2>2, DataIdleMatch
<1>6. ASSUME NEW i \in Cells PROVE CellMatches(kv[t][i], v_cells[t], i)
  BY <1>3, <1>4 DEF AllMatch
<1>7. CASE /\ v_cells' = [v_cells EXCEPT ![t] = Dropped(v_cells[t])]
           /\ kv' = [kv EXCEPT ![t] = Kept({})]
  <2> DEFINE d == Dropped(v_cells[t])
             x == Kept({})
  <2>1. Shrinks(v_cells[t], d)
    BY <1>4, TakingOut
  <2>2. \A i \in Cells : x[i] = kv[t][i]
    OBVIOUS
  <2>3. v_cells' = [v_cells EXCEPT ![t] = d] /\ kv' = [kv EXCEPT ![t] = x]
    BY <1>7
  <2> HIDE DEF d, x, t
  <2>4. \A i \in Cells : CellMatches(x[i], d, i)
    BY <1>6, <2>1, <2>2, ShrinksMatch
  <2> QED BY <1>5, <2>3, <2>4
<1>8. ASSUME NEW idxs \in RestoreSlots(s),
             v_cells' = [v_cells EXCEPT ![t] = Dropped(Placed(idxs))],
             kv' = [kv EXCEPT ![t] = Kept(Range(idxs))]
      PROVE  DataInv'
  <2> DEFINE c == Placed(idxs)
             d == Dropped(c)
             x == Kept(Range(idxs))
  <2>1. StreamOK(c, t)
    <3>1. StreamOK(Emptied(s), t)
      BY <1>4, SeqRmStream DEF Emptied
    <3>2. TokensOK(SavedTokens(s), t) /\ idxs \in [1 .. Len(SavedTokens(s)) -> Cells]
      BY SavedTokensOK
    <3> HIDE DEF t
    <3> QED BY <1>4, <3>1, <3>2, ApplyCellsOK
  <2>2. Shrinks(c, d)
    BY <2>1, TakingOut DEF StreamOK
  <2>3. ASSUME NEW i \in Cells, i \in Range(idxs) PROVE d.pos[i] = -1
    <3>1. c.seq[i] \subseteq {s}
      BY <2>3, RestoredCell
    <3> HIDE DEF c
    <3>2. \A u \in c.seq[i] : <<i, u>> \in SeqRange(c, s, -1, -1)
      BY <2>1, <3>1, WholeRange DEF StreamOK
    <3> QED BY <2>1, <3>2, SeqRmEmpties DEF StreamOK
  <2>4. ASSUME NEW i \in Cells, i \notin Range(idxs)
        PROVE  CellMatches(kv[t][i], d, i)
    <3>1. \/ c.pos[i] = -1
          \/ /\ c.pos[i] = v_cells[t].pos[i] /\ c.tok[i] = v_cells[t].tok[i]
             /\ c.shift[i] = v_cells[t].shift[i]
      BY <2>4, RestoredCell
    <3> HIDE DEF c, d, t
    <3>2. CellMatches(kv[t][i], c, i)
      BY <1>6, <3>1 DEF CellMatches, Matches
    <3> QED BY <2>2, <3>2, ShrinksMatch
  <2>5. v_cells' = [v_cells EXCEPT ![t] = d] /\ kv' = [kv EXCEPT ![t] = x]
    BY <1>8
  <2>6. \A i \in Cells : i \notin Range(idxs) => x[i] = kv[t][i]
    OBVIOUS
  <2> HIDE DEF d, x, t
  <2>7. ASSUME NEW i \in Cells PROVE CellMatches(x[i], d, i)
    <3>1. CASE i \in Range(idxs)
      BY <2>3, <3>1 DEF CellMatches, Matches
    <3>2. CASE i \notin Range(idxs)
      BY <2>4, <2>6, <3>2
    <3> QED BY <3>1, <3>2
  <2> QED BY <1>5, <2>5, <2>7
<1> HIDE DEF t, Dropped, Kept, Placed
<1> QED BY <1>1, <1>7, <1>8

\* The data invariant holds of the empty cache and survives a stutter.
LEMMA DataInit == ASSUME Init PROVE DataInv
<1>1. \A k : k \notin DOMAIN saved
  BY EmptyQueue DEF Init
<1>2. \A t \in Streams, i \in Cells : v_cells[t].pos[i] = -1
  BY DEF Init, reset
<1>3. IdleData
  BY <1>2 DEF IdleData, CellMatches, Matches
<1> QED BY <1>1, <1>3 DEF Init, DataInv

LEMMA DataStutter == ASSUME DataInv, UNCHANGED vars PROVE DataInv'
<1>1. AfterCopies' = AfterCopies
  BY DEF vars, AfterCopies
<1>2. UNCHANGED <<v_cells, kv, phase, ubatches, states, saved>>
  BY DEF vars
<1>3. phase = "idle" => IdleData'
  BY <1>1, <1>2 DEF DataInv, IdleData
<1>4. phase # "idle" => CallData'
  BY <1>2 DEF DataInv, CallData
<1>5. (phase # "idle" /\ ~KShiftFails => NoShift)'
  BY <1>2 DEF DataInv, NoShift
<1>6. (phase # "idle" /\ ~SharedTokens => Unshared(ubatches))'
  BY <1>2 DEF DataInv, Unshared
<1> QED BY <1>2, <1>3, <1>4, <1>5, <1>6 DEF DataInv

\* The inductive invariant of the buffers, in every state of the cache.
THEOREM DataInductive == Spec => [](DataCalls => DataInv)
<1>1. Init => IInv /\ TypeInv /\ DataInv
  BY InitHolds, TypeInit, DataInit
<1>2. IInv /\ TypeInv /\ (DataCalls => DataInv) /\ [Next]_vars
        => IInv' /\ TypeInv' /\ (DataCalls => DataInv)'
  <2> SUFFICES ASSUME IInv, TypeInv, DataCalls => DataInv, [Next]_vars
               PROVE  IInv' /\ TypeInv' /\ (DataCalls => DataInv')
    BY DEF DataCalls
  <2>1. IInv' /\ TypeInv'
    BY Keeps
  <2>2. ASSUME DataCalls, Edit PROVE DataInv'
    BY <2>2, EditData
  <2>3. ASSUME DataCalls, Decode PROVE DataInv'
    BY <2>1, <2>3, DecodeData
  <2>4. ASSUME DataCalls, StateIo PROVE DataInv'
    BY <2>1, <2>4, StateSaveData, StateRestoreData, StateRestoreFailsData DEF StateIo
  <2>5. ASSUME DataCalls, UNCHANGED vars PROVE DataInv'
    BY <2>5, DataStutter
  <2> QED BY <2>1, <2>2, <2>3, <2>4, <2>5 DEF Next
<1> QED BY <1>1, <1>2, PTL DEF Spec

\* Once the queued copies and shifts are done, the K of every occupied cell is
\* that of the cell's token at the cell's position.
THEOREM DataAlwaysMatches == Spec => [](DataCalls => DataMatchesCells)
<1>1. IInv /\ TypeInv /\ DataInv => DataMatchesCells
  <2> SUFFICES ASSUME IInv, TypeInv, DataInv, phase \in {"idle", "decode"}
               PROVE  \A t \in Streams : \A i \in Cells :
                        ~is_empty(v_cells[t], i) =>
                           /\ AfterCopies[t][i].tok = v_cells[t].tok[i]
                           /\ AfterCopies[t][i].rope + v_cells[t].shift[i] = v_cells[t].pos[i]
    BY DEF DataMatchesCells
  <2>1. phase = "decode" => states = <<>>
    BY DEF IInv, CallInv
  <2>2. IdleData
    BY <2>1, NothingQueued DEF DataInv
  <2> QED BY <2>2 DEF IdleData, CellMatches, Matches, is_empty
<1>2. Spec => [](IInv /\ TypeInv)
  BY TypesInductive
<1> QED BY <1>1, <1>2, DataInductive, PTL

-----------------------------------------------------------------------------
(* What a failed ubatch leaves behind.                                     *)

\* After the clean-up no sequence of the ubatch holds one of its positions.
LEMMA CleanUpRemoves ==
    ASSUME NEW cells, CellsInv(cells), NEW ub, UbatchOK(ub), NEW from, CleansUp(from, ub),
           NEW t \in DOMAIN ub, NEW k \in DOMAIN ub[t], NEW s \in ub[t][k].seqs
    PROVE  ub[t][k].pos \notin SeqPositions(RemoveFrom(cells, from)[t], s)
<1> DEFINE x == ub[t][k]
           R == UNION {SeqRange(cells[t], u, from[u], -1) :
                         u \in {v \in DOMAIN from : seq_to_stream(v) = t}}
           d == seq_rm(cells[t], R)
<1>1. t \in Streams /\ TokensOK(ub[t], t)
  BY UbatchTokens
<1>2. /\ x \in UbTokens(ub) /\ x.pos \in Nat /\ s \in Seqs
      /\ seq_to_stream(s) = t
  <2>1. x \in Token
    BY <1>1 DEF TokensOK
  <2>2. x \in UbTokens(ub)
    BY DEF UbTokens, Range
  <2> QED BY <1>1, <2>1, <2>2 DEF Token, TokensOK
<1>3. s \in DOMAIN from /\ from[s] \in Nat /\ from[s] <= x.pos
  BY <1>2 DEF CleansUp
<1>4. StreamOK(cells[t], t) /\ RemoveFrom(cells, from)[t] = d
  BY <1>1 DEF CellsInv, RemoveFrom
<1>5. StreamOK(d, t) /\ Shrinks(cells[t], d)
  BY <1>4, SeqRmStream, TakingOut DEF StreamOK
<1>6. ASSUME NEW i \in Cells, s \in d.seq[i], d.pos[i] = x.pos PROVE FALSE
  <2>1. s \in cells[t].seq[i] /\ <<i, s>> \notin R
    <3>1. d.seq[i] = cells[t].seq[i] \ {u \in Seqs : <<i, u>> \in R}
      BY <1>4 DEF seq_rm, Blank, Fill, StreamOK, CellsType
    <3> HIDE DEF R, d
    <3> QED BY <1>2, <1>6, <3>1
  <2>2. cells[t].pos[i] = x.pos
    <3> HIDE DEF d
    <3> QED BY <1>2, <1>5, <1>6 DEF Shrinks
  <2>3. i \in InRange(cells[t], from[s], -1) /\ i \in With(cells[t], s)
    BY <1>2, <1>3, <2>1, <2>2 DEF InRange, With, lo
  <2>4. <<i, s>> \in SeqRange(cells[t], s, from[s], -1)
    BY <2>3 DEF SeqRange
  <2>5. <<i, s>> \in R
    BY <1>2, <1>3, <2>4
  <2> QED BY <2>1, <2>5
<1> HIDE DEF d, x
<1>7. x.pos \notin SeqPositions(d, s)
  BY <1>2, <1>5, <1>6 DEF SeqPositions, StreamOK, CellsOK, SeqPosOK, Entries
<1> QED BY <1>4, <1>7 DEF x

\* The batches of a call, when clients share no tokens.
BatchInv == phase # "idle" => Unshared(ubatches)

\* Calls made between two decode calls leave the decode variables alone.
LEMMA CallAlone == ASSUME Edit \/ StateIo PROVE UNCHANGED call
<1>1. ASSUME Edit PROVE UNCHANGED call
  <2>1. \A data : clear(data) => UNCHANGED call
    BY DEF clear
  <2>2. \A s, p0, p1 : SeqRm(s, p0, p1) => UNCHANGED call
    BY DEF SeqRm
  <2>3. \A p0, p1 : SeqRmAny(p0, p1) => UNCHANGED call
    BY DEF SeqRmAny
  <2>4. \A s, u, p0, p1 : SeqCp(s, u, p0, p1) => UNCHANGED call
    BY DEF SeqCp
  <2>5. \A s, u : SeqCpStream(s, u) => UNCHANGED call
    BY DEF SeqCpStream
  <2>6. \A s : SeqKeep(s) => UNCHANGED call
    BY DEF SeqKeep
  <2>7. \A s, p0, p1, d : SeqAdd(s, p0, p1, d) => UNCHANGED call
    BY DEF SeqAdd
  <2>8. \A s, p0, p1, d : SeqDiv(s, p0, p1, d) => UNCHANGED call
    BY DEF SeqDiv
  <2> QED BY <1>1, <2>1, <2>2, <2>3, <2>4, <2>5, <2>6, <2>7, <2>8 DEF Edit
<1>2. ASSUME StateIo PROVE UNCHANGED call
  <2>1. \A s : StateSave(s) => UNCHANGED call
    BY DEF StateSave
  <2>2. \A s : StateRestore(s) => UNCHANGED call
    BY DEF StateRestore
  <2>3. \A s : StateRestoreFails(s) => UNCHANGED call
    BY DEF StateRestoreFails
  <2> QED BY <1>2, <2>1, <2>2, <2>3 DEF StateIo
<1> QED BY <1>1, <1>2

\* A step either leaves the ubatches, ends the call or starts one.
LEMMA BatchKeeps ==
    ASSUME ~SharedTokens, IInv, BatchInv, [Next]_vars
    PROVE  BatchInv'
<1>1. ASSUME UNCHANGED <<phase, ubatches>> \/ phase' = "idle" PROVE BatchInv'
  BY <1>1 DEF BatchInv, Unshared
<1>2. ASSUME phase # "idle", UNCHANGED ubatches PROVE BatchInv'
  BY <1>2 DEF BatchInv, Unshared
<1>3. ASSUME NEW tok \in Tokens, NEW ubs \in Splits(tok), NEW ok, DecodeBegin(ubs, ok)
      PROVE  BatchInv'
  <2>1. ubatches' = ubs /\ UbatchesOK(ubs)
    BY <1>3 DEF DecodeBegin
  <2>2. Unshared(ubatches')
    BY <2>1, SplitsUnshared
  <2> QED BY <2>2 DEF BatchInv, Unshared
<1>4. CASE Edit \/ StateIo \/ UNCHANGED vars
  <2>1. UNCHANGED <<phase, ubatches>>
    BY <1>4, CallAlone DEF call, vars
  <2> QED BY <1>1, <2>1
<1>5. CASE PrepareUbatch \/ PrepareEnd \/ RestoreUbatch \/ PrepareSucceeds
  BY <1>2, <1>5 DEF PrepareUbatch, PrepareEnd, RestoreUbatch, PrepareSucceeds, Prepared
<1>6. ASSUME NEW ok, PrepareRetries(ok) PROVE BatchInv'
  BY <1>2, <1>6 DEF PrepareRetries, Prepared
<1>7. CASE PrepareFails \/ ReserveFails \/ \E how \in Failures : DecodeFails(how)
  BY <1>1, <1>7 DEF PrepareFails, ReserveFails, DecodeFails, CallEnds
<1>8. CASE DecodeUbatch
  <2>1. phase' = "idle" \/ UNCHANGED <<phase, ubatches>>
    BY <1>8 DEF DecodeUbatch, CallEnds
  <2> QED BY <1>1, <2>1
<1> QED BY <1>3, <1>4, <1>5, <1>6, <1>7, <1>8 DEF Next, Decode

\* A ubatch that failed leaves none of its positions in its sequences, when no
\* token of the batch belongs to several sequences (only the first sequence of
\* a token is cleaned up).
THEOREM FailedUbatchIsRemoved ==
    ASSUME ~SharedTokens
    PROVE  Spec => FailedUbatchRemoved
<1> DEFINE Gone == \A t \in DOMAIN ubatches[done + 1] : \A k \in DOMAIN ubatches[done + 1][t] :
                      LET x == ubatches[done + 1][t][k]
                      IN  \A s \in x.seqs : x.pos \notin SeqPositions(v_cells'[t], s)
<1>1. Init => IInv /\ BatchInv
  BY InitHolds DEF Init, BatchInv
<1>2. IInv /\ BatchInv /\ [Next]_vars => IInv' /\ BatchInv'
  BY BatchKeeps, EditKeeps, DecodeKeeps, StateIoKeeps, StutterKeeps DEF Next
<1>3. ASSUME IInv, BatchInv, DecodeFails("fatal") PROVE Gone
  <2> DEFINE ub == ubatches[done + 1]
             si == sinfos[done + 1]
             placed == apply_cells(si, ub)
  <2>1. phase = "decode" /\ v_cells' = RemoveFrom(placed, FailedFrom(ub))
    BY <1>3 DEF DecodeFails
  <2>2. UbatchOK(ub) /\ SinfoOK(si, ub) /\ done + 1 \in DOMAIN ubatches
    BY <1>3, <2>1, CurrentOK
  <2>3. CellsInv(placed)
    BY <1>3, <2>2, ApplyAll DEF IInv
  <2>4. CleansUp(FailedFrom(ub), ub)
    <3>1. \A t \in DOMAIN ub : \A j \in DOMAIN ub[t] : \E s \in Seqs : ub[t][j].seqs = {s}
      BY <1>3, <2>1, <2>2 DEF BatchInv, Unshared
    <3> QED BY <2>2, <3>1, FailedFromCleansUp
  <2> HIDE DEF ub, placed
  <2>5. \A t \in DOMAIN ub : \A k \in DOMAIN ub[t] : \A s \in ub[t][k].seqs :
          ub[t][k].pos \notin SeqPositions(v_cells'[t], s)
    BY <2>1, <2>2, <2>3, <2>4, CleanUpRemoves
  <2> QED BY <2>5 DEF ub
<1>4. IInv /\ BatchInv => (DecodeFails("fatal") => Gone)
  BY <1>3
<1> HIDE DEF Gone
<1>5. IInv /\ BatchInv /\ [Next]_vars => [DecodeFails("fatal") => Gone]_vars
  BY <1>4
<1>6. Spec => [][DecodeFails("fatal") => Gone]_vars
  BY <1>1, <1>2, <1>5, PTL DEF Spec
<1> QED BY <1>6 DEF FailedUbatchRemoved, Gone

-----------------------------------------------------------------------------
(* The slots of a call, when the cache has no window.                      *)

\* Cell i of the slot belongs to stream t.
InSlot(si, t, i) == t \in DOMAIN si /\ i \in Range(si[t])

\* Cell i holds the token x; c and d hold the same in cell i.
Holds(c, i, x) == c.pos[i] = x.pos /\ c.tok[i] = x.tok /\ c.seq[i] = x.seqs
SameRow(c, d, i) == c.pos[i] = d.pos[i] /\ c.tok[i] = d.tok[i] /\ c.seq[i] = d.seq[i]
SameCell(c, d, i) == \/ SameRow(c, d, i)
                     \/ c.seq[i] = {} /\ d.seq[i] = {}

\* Removing no sequence changes no row.
LEMMA SeqRmNothing ==
    ASSUME NEW c \in CellsType, NEW R, NEW i \in Cells, \A s \in c.seq[i] : <<i, s>> \notin R
    PROVE  SameRow(seq_rm(c, R), c, i)
<1> DEFINE left == [j \in Cells |-> c.seq[j] \ {s \in Seqs : <<j, s>> \in R}]
           gone == {j \in Cells : c.seq[j] # {} /\ left[j] = {}}
<1>1. /\ seq_rm(c, R).pos = Fill(c.pos, gone, -1)
      /\ seq_rm(c, R).tok = Fill(c.tok, gone, NoTok)
      /\ seq_rm(c, R).seq = Fill(left, gone, {})
  BY DEF seq_rm, Blank, CellsType
<1>2. left[i] = c.seq[i]
  OBVIOUS
<1>3. i \notin gone
  BY <1>2
<1> HIDE DEF left, gone
<1> QED BY <1>1, <1>2, <1>3 DEF Fill, SameRow

\* apply_ubatch on empty cells purges nothing.
LEMMA ApplyFresh ==
    ASSUME NEW t \in Streams, NEW c, StreamOK(c, t),
           NEW toks, TokensOK(toks, t), NEW idxs \in [1 .. Len(toks) -> Cells],
           \A j \in Range(idxs) : c.pos[j] = -1,
           NEW i \in Cells
    PROVE  LET d == ApplyCells(c, idxs, toks)
           IN  /\ i \in Range(idxs) => Holds(d, i, At(idxs, toks)[i])
               /\ i \notin Range(idxs) => SameRow(d, c, i)
<1> DEFINE J == Range(idxs)
           at == At(idxs, toks)
           b == rm(c, {})
           d == place(b, at)
<1>1. toks \in Seq(Token) /\ c \in CellsType /\ CellsOK(c)
  BY DEF TokensOK, StreamOK
<1>2. J \in SUBSET Cells /\ at \in [J -> PlaceRow] /\ DOMAIN at = J
  BY <1>1, AtType
<1>3. ApplyCells(c, idxs, toks) = seq_rm(d, {})
  <2> DEFINE I == {j \in J : ~is_empty(c, j)}
             e == place(rm(c, I), at)
             R == {r \in Cells \X Seqs :
                     /\ r[2] \in e.seq[r[1]]
                     /\ \E p \in Overwritten(c, I, r[2]) : e.pos[r[1]] <= p}
  <2>1. ApplyCells(c, idxs, toks) = seq_rm(e, R)
    BY DEF ApplyCells
  <2>2. I = {}
    BY DEF is_empty
  <2>3. \A s : Overwritten(c, {}, s) = {}
    BY DEF Overwritten
  <2>4. R = {}
    <3> HIDE DEF e, I
    <3> QED BY <2>2, <2>3
  <2> HIDE DEF R, I
  <2> QED BY <2>1, <2>2, <2>4
<1>4. b \in CellsType /\ CellsOK(b)
  <2>1. {} \in SUBSET Cells /\ \A j \in {} : c.pos[j] # -1
    OBVIOUS
  <2> QED BY <1>1, <2>1, RmOK
<1>5. SameRow(b, c, i) /\ \A j \in J : b.pos[j] = -1
  BY <1>2 DEF rm, Blank, Fill, SameRow
<1> HIDE DEF b, at
<1>6. d \in CellsType
  BY <1>2, <1>4, <1>5, PlaceOK
<1>7. /\ d.pos[i] = IF i \in J THEN at[i].pos ELSE b.pos[i]
      /\ d.tok[i] = IF i \in J THEN at[i].tok ELSE b.tok[i]
      /\ d.seq[i] = IF i \in J THEN at[i].seqs ELSE b.seq[i]
  BY <1>2, <1>4, PlaceData
<1> HIDE DEF d
<1>8. SameRow(seq_rm(d, {}), d, i)
  BY <1>6, SeqRmNothing
<1>9. CASE i \in J
  BY <1>3, <1>7, <1>8, <1>9 DEF Holds, SameRow, at
<1>10. CASE i \notin J
  BY <1>3, <1>5, <1>7, <1>8, <1>10 DEF SameRow
<1> QED BY <1>9, <1>10

\* The same for every stream of a ubatch.
LEMMA ApplyFreshAll ==
    ASSUME CellsInv(v_cells), NEW ub, UbatchOK(ub), NEW si, SinfoOK(si, ub),
           \A u \in Streams, j \in Cells : InSlot(si, u, j) => v_cells[u].pos[j] = -1,
           NEW t \in Streams, NEW i \in Cells
    PROVE  LET d == apply_cells(si, ub)[t]
           IN  /\ InSlot(si, t, i) => Holds(d, i, At(si[t], ub[t])[i])
               /\ ~InSlot(si, t, i) => SameRow(d, v_cells[t], i)
<1>1. CASE t \in DOMAIN si
  <2>1. t \in DOMAIN ub /\ si[t] \in [1 .. Len(ub[t]) -> Cells]
    BY <1>1 DEF SinfoOK
  <2>2. TokensOK(ub[t], t)
    BY <2>1, UbatchTokens
  <2>3. StreamOK(v_cells[t], t)
    BY DEF CellsInv
  <2>4. apply_cells(si, ub)[t] = ApplyCells(v_cells[t], si[t], ub[t])
    BY <1>1 DEF apply_cells
  <2>5. \A j \in Range(si[t]) : v_cells[t].pos[j] = -1
    BY <1>1, <2>1 DEF InSlot, Range
  <2>6. /\ i \in Range(si[t]) => Holds(ApplyCells(v_cells[t], si[t], ub[t]), i, At(si[t], ub[t])[i])
        /\ i \notin Range(si[t]) => SameRow(ApplyCells(v_cells[t], si[t], ub[t]), v_cells[t], i)
    BY <2>1, <2>2, <2>3, <2>5, ApplyFresh
  <2> QED BY <1>1, <2>4, <2>6 DEF InSlot
<1>2. CASE t \notin DOMAIN si
  BY <1>2 DEF apply_cells, InSlot, SameRow
<1> QED BY <1>1, <1>2

\* A slot has usable cells, each once.
LEMMA SlotUsable ==
    ASSUME v_heads \in Heads, NEW ub, UbatchOK(ub), NEW si \in find_slot(ub), NEW t \in DOMAIN si
    PROVE  /\ t \in Streams
           /\ \A i \in Range(si[t]) : i \in Cells /\ can_use(v_cells[t], i)
           /\ \A a, b \in DOMAIN si[t] : si[t][a] = si[t][b] => a = b
<1>1. /\ DOMAIN si = DOMAIN ub
      /\ \A u \in DOMAIN ub : si[u] \in SlotsIn(v_cells[u], v_heads[u], Len(ub[u]))
  BY DEF find_slot
<1>2. t \in Streams /\ ub[t] \in Seq(Token)
  BY <1>1, UbatchTokens DEF TokensOK
<1> DEFINE n == Len(ub[t])
           h == head_cur(v_cells[t], v_heads[t], n)
<1>3. si[t] \in [1 .. n -> Cells] /\ IsSlot(Usable(v_cells[t]), h, si[t]) /\ n \in Nat
  BY <1>1, <1>2 DEF SlotsIn
<1>4. h \in Nat
  BY <1>2 DEF head_cur, Heads
<1> HIDE DEF n, h
<1>5. ASSUME NEW i \in Range(si[t]) PROVE i \in Cells /\ can_use(v_cells[t], i)
  BY <1>3 DEF IsSlot, Range, Usable
<1>6. ASSUME NEW a \in DOMAIN si[t], NEW b \in DOMAIN si[t], si[t][a] = si[t][b] PROVE a = b
  <2>1. a \in 1 .. n /\ b \in 1 .. n /\ si[t][a] \in Nat /\ NCells \in Nat
    BY <1>3, CellsAssumption DEF Cells
  <2>2. Rank(h, si[t][a]) \in Int
    BY <1>4, <2>1 DEF Rank
  <2>3. /\ a < b => Rank(h, si[t][a]) < Rank(h, si[t][b])
        /\ b < a => Rank(h, si[t][b]) < Rank(h, si[t][a])
    BY <1>3 DEF IsSlot
  <2> QED BY <1>6, <2>1, <2>2, <2>3
<1> QED BY <1>2, <1>5, <1>6

\* Without a window they are empty.
LEMMA FreshSlot ==
    ASSUME SwaType = "none", v_heads \in Heads, NEW ub, UbatchOK(ub), NEW si \in find_slot(ub),
           NEW t \in DOMAIN si
    PROVE  /\ t \in Streams
           /\ \A i \in Range(si[t]) : i \in Cells /\ v_cells[t].pos[i] = -1
           /\ \A a, b \in DOMAIN si[t] : si[t][a] = si[t][b] => a = b
BY SlotUsable DEF can_use, is_masked_swa, is_empty

\* How many of the ubatches are in place: rehearsed, or computed.
Here == IF phase = "decode" THEN done ELSE Len(states)

\* The slots of a call do not meet, and each has its cells once.
SlotsApart ==
    /\ \A j, k \in DOMAIN sinfos : \A t \in Streams, i \in Cells :
         InSlot(sinfos[j], t, i) /\ InSlot(sinfos[k], t, i) => j = k
    /\ \A k \in DOMAIN sinfos : \A t \in DOMAIN sinfos[k] : \A a, b \in DOMAIN sinfos[k][t] :
         sinfos[k][t][a] = sinfos[k][t][b] => a = b

\* They were empty when the call was entered.
SlotsWereFree ==
    \A k \in DOMAIN sinfos : \A t \in Streams, i \in Cells :
        InSlot(sinfos[k], t, i) => before[t].seq[i] = {}

\* Outside the slots of the ubatches in place the cells are what they were.
Untouched ==
    \A t \in Streams, i \in Cells :
        (\A k \in DOMAIN sinfos : k <= Here => ~InSlot(sinfos[k], t, i))
          => SameCell(v_cells[t], before[t], i)

\* Inside they hold the tokens.
InPlace ==
    \A k \in DOMAIN sinfos : \A t \in Streams, i \in Cells :
        k <= Here /\ InSlot(sinfos[k], t, i)
          => Holds(v_cells[t], i, At(sinfos[k][t], ubatches[k][t])[i])

\* The recovery records have the cells of the slots, empty.
RecordsFree ==
    /\ phase = "restore" => Len(states) <= Len(sinfos)
    /\ phase = "prepare" => Len(states) = Len(sinfos)
    /\ \A k \in DOMAIN states : \A t \in Streams, i \in Cells :
         /\ InRow(states[k], t, i) <=> InSlot(sinfos[k], t, i)
         /\ InRow(states[k], t, i) => /\ states[k].rows[t][i].pos = -1
                                      /\ states[k].rows[t][i].seqs = {}

SlotInv == phase # "idle" => SlotsApart /\ SlotsWereFree /\ Untouched /\ InPlace /\ RecordsFree

\* A call that has no slot yet.
LEMMA SlotsBegin ==
    ASSUME sinfos' = <<>>, states' = <<>>, phase' = "prepare", before' = v_cells'
    PROVE  SlotInv'
<1>1. /\ \A k : k \notin DOMAIN sinfos' /\ k \notin DOMAIN states'
      /\ Len(states') = 0 /\ Len(sinfos') = 0
  BY EmptyQueue
<1>2. SlotsApart' /\ SlotsWereFree' /\ InPlace'
  BY <1>1 DEF SlotsApart, SlotsWereFree, InPlace
<1>3. Untouched'
  BY DEF Untouched, SameCell, SameRow
<1>4. RecordsFree'
  BY <1>1 DEF RecordsFree
<1> QED BY <1>2, <1>3, <1>4 DEF SlotInv

\* A step that only changes the phase.
LEMMA SlotsKept ==
    ASSUME IInv, SlotInv, phase # "idle", UNCHANGED <<v_cells, ubatches, sinfos, states, done, before>>,
           \/ phase = "prepare" /\ phase' = "restore"
           \/ phase = "restore" /\ phase' = "decode" /\ states = <<>>
           \/ phase' = phase
    PROVE  SlotInv'
<1>1. Here' = Here
  <2>1. phase = "restore" /\ states = <<>> => Here = 0 /\ done = 0
    BY EmptyQueue DEF Here, IInv, CallInv
  <2> QED BY <2>1 DEF Here
<1>2. SlotsApart' /\ SlotsWereFree'
  BY DEF SlotInv, SlotsApart, SlotsWereFree
<1>3. Untouched'
  BY <1>1 DEF SlotInv, Untouched
<1>4. InPlace'
  BY <1>1 DEF SlotInv, InPlace
<1>5. RecordsFree'
  <2>1. IsSeq(sinfos) /\ Len(sinfos) \in Nat
    BY SeqFacts DEF IInv, CallInv
  <2> QED BY <2>1 DEF SlotInv, RecordsFree
<1> QED BY <1>2, <1>3, <1>4, <1>5 DEF SlotInv

\* A token in place has a position.
LEMMA InPlaceOccupied ==
    ASSUME IInv, phase # "idle", InPlace, NEW k \in DOMAIN sinfos, k <= Here,
           NEW t \in Streams, NEW i \in Cells, InSlot(sinfos[k], t, i)
    PROVE  v_cells[t].pos[i] # -1
<1> DEFINE ub == ubatches[k]
           si == sinfos[k]
           x == At(si[t], ub[t])[i]
<1>1. v_cells[t].pos[i] = x.pos
  BY DEF InPlace, Holds
<1>2. SinfoOK(si, ub) /\ UbatchOK(ub)
  <2>1. IsSeq(sinfos) /\ Len(sinfos) <= Len(ubatches) /\ SinfoOK(si, ub)
    BY DEF IInv, CallInv
  <2>2. k \in DOMAIN ubatches
    BY <2>1, SeqFacts, CurrentUbatch
  <2> QED BY <2>1, <2>2, CurrentUbatch
<1> HIDE DEF ub, si
<1>3. t \in DOMAIN ub /\ si[t] \in [1 .. Len(ub[t]) -> Cells] /\ i \in Range(si[t])
  BY <1>2 DEF InSlot, SinfoOK, si
<1>4. ub[t] \in Seq(Token)
  BY <1>2, <1>3, UbatchTokens DEF TokensOK
<1>5. PICK j \in DOMAIN ub[t] : x = ub[t][j]
  BY <1>3, <1>4, AtType
<1>6. x \in Token
  BY <1>4, <1>5
<1> HIDE DEF x
<1> QED BY <1>1, <1>6 DEF Token

\* A rehearsed ubatch: its slot was empty, so it meets no other.
LEMMA PrepareUbatchSlots ==
    ASSUME SwaType = "none", IInv, TypeInv, SlotInv, PrepareUbatch
    PROVE  SlotInv'
<1> DEFINE n == Len(sinfos)
           ub == ubatches[n + 1]
<1>1. /\ phase = "prepare" /\ phase' = "prepare" /\ ubatches' = ubatches /\ before' = before
      /\ n < Len(ubatches)
  BY DEF PrepareUbatch
<1>2. PICK si \in find_slot(ub) :
        /\ sinfos' = Append(sinfos, si)
        /\ states' = Append(states,
             [heads |-> v_heads,
              rows  |-> [t \in DOMAIN si |-> cp(v_cells[t], Range(si[t]))]])
        /\ v_cells' = apply_cells(si, ub)
  BY DEF PrepareUbatch
<1> DEFINE st == [heads |-> v_heads,
                  rows  |-> [t \in DOMAIN si |-> cp(v_cells[t], Range(si[t]))]]
<1>3. /\ SlotsApart /\ SlotsWereFree /\ Untouched /\ InPlace /\ RecordsFree
      /\ Len(states) = n
  BY <1>1 DEF SlotInv, RecordsFree
<1>4. /\ n \in Nat /\ DOMAIN sinfos = 1 .. n /\ DOMAIN states = 1 .. n
      /\ DOMAIN sinfos' = 1 .. (n + 1) /\ DOMAIN states' = 1 .. (n + 1)
      /\ sinfos'[n + 1] = si /\ states'[n + 1] = st
      /\ \A k \in 1 .. n : sinfos'[k] = sinfos[k] /\ states'[k] = states[k]
      /\ Len(states') = n + 1 /\ Len(sinfos') = n + 1
  <2>1. IsSeq(sinfos) /\ IsSeq(states) /\ states' = Append(states, st)
    BY <1>2 DEF IInv, CallInv
  <2> HIDE DEF st
  <2> QED BY <1>2, <1>3, <2>1, SeqFacts
<1>5. UbatchOK(ub) /\ SinfoOK(si, ub)
  <2>1. n + 1 \in DOMAIN ubatches
    BY <1>1, <1>4, CurrentUbatch
  <2> QED BY <1>1, <2>1, CurrentUbatch, FindSlotFits
<1>6. Here = n /\ Here' = n + 1
  BY <1>1, <1>3, <1>4 DEF Here
<1>7. /\ \A t \in Streams, i \in Cells : InSlot(si, t, i) => v_cells[t].pos[i] = -1
      /\ \A t \in DOMAIN si : \A a, b \in DOMAIN si[t] : si[t][a] = si[t][b] => a = b
  <2>1. v_heads \in Heads
    BY DEF TypeInv
  <2> HIDE DEF ub
  <2> QED BY <1>5, <2>1, FreshSlot DEF InSlot
<1>8. /\ DOMAIN st.rows = DOMAIN si
      /\ \A t \in DOMAIN si : /\ DOMAIN st.rows[t] = Range(si[t])
                              /\ \A i \in Range(si[t]) :
                                   /\ st.rows[t][i].pos = v_cells[t].pos[i]
                                   /\ st.rows[t][i].seqs = v_cells[t].seq[i]
  BY DEF cp
<1> HIDE DEF st, ub, n
<1>9. CellsInv(v_cells) /\ \A t \in Streams, i \in Cells :
         v_cells[t].pos[i] = -1 <=> v_cells[t].seq[i] = {}
  BY DEF IInv, CellsInv, StreamOK, CellsOK, EmptyOK
<1>10. ASSUME NEW t \in Streams, NEW i \in Cells, InSlot(si, t, i)
       PROVE  /\ \A k \in 1 .. n : ~InSlot(sinfos[k], t, i)
              /\ before[t].seq[i] = {} /\ v_cells[t].seq[i] = {} /\ v_cells[t].pos[i] = -1
  <2>1. v_cells[t].pos[i] = -1 /\ v_cells[t].seq[i] = {}
    BY <1>7, <1>9, <1>10
  <2>2. \A k \in 1 .. n : ~InSlot(sinfos[k], t, i)
    BY <1>1, <1>3, <1>4, <1>6, <2>1, InPlaceOccupied
  <2>3. SameCell(v_cells[t], before[t], i)
    BY <1>3, <1>4, <2>2 DEF Untouched
  <2> QED BY <2>1, <2>2, <2>3 DEF SameCell, SameRow
<1>11. SlotsApart'
  <2>1. ASSUME NEW j \in 1 .. (n + 1), NEW k \in 1 .. (n + 1), NEW t \in Streams, NEW i \in Cells,
               InSlot(sinfos'[j], t, i), InSlot(sinfos'[k], t, i)
        PROVE  j = k
    <3>1. CASE j \in 1 .. n /\ k \in 1 .. n
      BY <1>3, <1>4, <2>1, <3>1 DEF SlotsApart
    <3>2. CASE j = n + 1 \/ k = n + 1
      BY <1>4, <1>10, <2>1, <3>2
    <3> QED BY <1>4, <3>1, <3>2
  <2>2. ASSUME NEW k \in 1 .. (n + 1), NEW t \in DOMAIN sinfos'[k],
               NEW a \in DOMAIN sinfos'[k][t], NEW b \in DOMAIN sinfos'[k][t],
               sinfos'[k][t][a] = sinfos'[k][t][b]
        PROVE  a = b
    <3>1. CASE k \in 1 .. n
      BY <1>3, <1>4, <2>2, <3>1 DEF SlotsApart
    <3>2. CASE k = n + 1
      BY <1>4, <1>7, <2>2, <3>2
    <3> QED BY <1>4, <3>1, <3>2
  <2> QED BY <1>4, <2>1, <2>2 DEF SlotsApart, InSlot
<1>12. SlotsWereFree'
  <2>1. ASSUME NEW k \in 1 .. (n + 1), NEW t \in Streams, NEW i \in Cells, InSlot(sinfos'[k], t, i)
        PROVE  before[t].seq[i] = {}
    <3>1. CASE k \in 1 .. n
      BY <1>3, <1>4, <2>1, <3>1 DEF SlotsWereFree
    <3>2. CASE k = n + 1
      BY <1>4, <1>10, <2>1, <3>2
    <3> QED BY <1>4, <3>1, <3>2
  <2> QED BY <1>1, <1>4, <2>1 DEF SlotsWereFree, InSlot
<1>13. ASSUME NEW t \in Streams, NEW i \in Cells
       PROVE  /\ InSlot(si, t, i) => Holds(v_cells'[t], i, At(si[t], ub[t])[i])
              /\ ~InSlot(si, t, i) => SameRow(v_cells'[t], v_cells[t], i)
  BY <1>2, <1>5, <1>7, <1>9, ApplyFreshAll
<1>14. Untouched'
  <2>1. ASSUME NEW t \in Streams, NEW i \in Cells,
               \A k \in 1 .. (n + 1) : k <= n + 1 => ~InSlot(sinfos'[k], t, i)
        PROVE  SameCell(v_cells'[t], before[t], i)
    <3>1. ~InSlot(si, t, i) /\ \A k \in 1 .. n : ~InSlot(sinfos[k], t, i)
      BY <1>4, <2>1
    <3>2. SameCell(v_cells[t], before[t], i)
      BY <1>3, <1>4, <3>1 DEF Untouched
    <3> QED BY <1>13, <3>1, <3>2 DEF SameCell, SameRow
  <2> QED BY <1>1, <1>4, <1>6, <2>1 DEF Untouched, InSlot, SameCell, SameRow
<1>15. InPlace'
  <2>1. ASSUME NEW k \in 1 .. (n + 1), NEW t \in Streams, NEW i \in Cells, InSlot(sinfos'[k], t, i)
        PROVE  Holds(v_cells'[t], i, At(sinfos'[k][t], ubatches'[k][t])[i])
    <3>1. CASE k = n + 1
      BY <1>1, <1>4, <1>13, <2>1, <3>1 DEF ub, n
    <3>2. CASE k \in 1 .. n
      <4>1. InSlot(sinfos[k], t, i) /\ ~InSlot(si, t, i)
        BY <1>4, <1>10, <2>1, <3>2
      <4>2. Holds(v_cells[t], i, At(sinfos[k][t], ubatches[k][t])[i])
        BY <1>3, <1>4, <1>6, <3>2, <4>1 DEF InPlace
      <4>3. sinfos'[k] = sinfos[k] /\ SameRow(v_cells'[t], v_cells[t], i)
        BY <1>4, <1>13, <3>2, <4>1
      <4> QED BY <1>1, <4>2, <4>3 DEF Holds, SameRow
    <3> QED BY <1>4, <3>1, <3>2
  <2> QED BY <1>4, <2>1 DEF InPlace
<1>16. RecordsFree'
  <2>1. ASSUME NEW k \in 1 .. (n + 1), NEW t \in Streams, NEW i \in Cells
        PROVE  /\ InRow(states'[k], t, i) <=> InSlot(sinfos'[k], t, i)
               /\ InRow(states'[k], t, i) => /\ states'[k].rows[t][i].pos = -1
                                             /\ states'[k].rows[t][i].seqs = {}
    <3>1. CASE k \in 1 .. n
      BY <1>3, <1>4, <3>1 DEF RecordsFree
    <3>2. CASE k = n + 1
      <4>1. InRow(st, t, i) <=> InSlot(si, t, i)
        BY <1>8 DEF InRow, InSlot
      <4> QED BY <1>4, <1>8, <1>10, <3>2, <4>1 DEF InSlot
    <3> QED BY <1>4, <3>1, <3>2
  <2> QED BY <1>1, <1>4, <2>1 DEF RecordsFree, InRow, InSlot
<1> QED BY <1>11, <1>12, <1>14, <1>15, <1>16 DEF SlotInv

\* An undone ubatch: its cells are empty again.
LEMMA RestoreUbatchSlots ==
    ASSUME IInv, SlotInv, RestoreUbatch
    PROVE  SlotInv'
<1> DEFINE m == Len(states)
           st == states[m]
           T == DOMAIN st.rows
<1>1. /\ phase = "restore" /\ phase' = phase /\ states # <<>> /\ states' = Front(states)
      /\ UNCHANGED <<ubatches, sinfos, done, before>>
      /\ v_cells' = [t \in Streams |-> IF t \in DOMAIN Last(states).rows
                                       THEN set(v_cells[t], Last(states).rows[t]) ELSE v_cells[t]]
  BY DEF RestoreUbatch
<1>2. /\ m \in Nat /\ m > 0 /\ DOMAIN states = 1 .. m /\ Last(states) = st
      /\ DOMAIN states' = 1 .. (m - 1) /\ Len(states') = m - 1
      /\ \A k \in 1 .. (m - 1) : states'[k] = states[k]
  <2>1. IsSeq(states)
    BY DEF IInv, CallInv
  <2> QED BY <1>1, <2>1, SeqFacts
<1>3. /\ SlotsApart /\ SlotsWereFree /\ Untouched /\ InPlace /\ RecordsFree
      /\ m <= Len(sinfos) /\ Here = m /\ Here' = m - 1
  BY <1>1, <1>2 DEF SlotInv, RecordsFree, Here
<1>4. Len(sinfos) \in Nat /\ DOMAIN sinfos = 1 .. Len(sinfos) /\ m \in DOMAIN sinfos
  BY <1>2, <1>3, SeqFacts DEF IInv, CallInv
<1> HIDE DEF st, m, T
<1>5. ASSUME NEW t \in Streams, NEW i \in Cells
      PROVE  /\ InSlot(sinfos[m], t, i) => v_cells'[t].seq[i] = {}
             /\ ~InSlot(sinfos[m], t, i) => SameRow(v_cells'[t], v_cells[t], i)
  <2>1. /\ InRow(st, t, i) <=> InSlot(sinfos[m], t, i)
        /\ InRow(st, t, i) => st.rows[t][i].seqs = {}
    BY <1>2, <1>3 DEF RecordsFree, st
  <2>2. v_cells[t] \in CellsType
    BY DEF IInv, CellsInv
  <2>3. CASE t \in DOMAIN st.rows
    <3>1. v_cells'[t] = set(v_cells[t], st.rows[t])
      BY <1>1, <1>2, <2>3
    <3> DEFINE rows == st.rows[t]
    <3>2. /\ set(v_cells[t], rows).pos[i] = IF i \in DOMAIN rows THEN rows[i].pos
                                                                 ELSE v_cells[t].pos[i]
          /\ set(v_cells[t], rows).tok[i] = IF i \in DOMAIN rows THEN rows[i].tok
                                                                 ELSE v_cells[t].tok[i]
          /\ set(v_cells[t], rows).seq[i] = IF i \in DOMAIN rows THEN rows[i].seqs
                                                                 ELSE v_cells[t].seq[i]
      <4> HIDE DEF rows
      <4> QED BY <2>2 DEF set, Indexed, CellsType
    <3> QED BY <2>1, <2>3, <3>1, <3>2 DEF InRow, SameRow
  <2>4. CASE t \notin DOMAIN st.rows
    BY <1>1, <1>2, <2>1, <2>4 DEF InRow, SameRow
  <2> QED BY <2>3, <2>4
<1>6. SlotsApart' /\ SlotsWereFree'
  BY <1>1, <1>3 DEF SlotsApart, SlotsWereFree
<1>7. Untouched'
  <2>1. ASSUME NEW t \in Streams, NEW i \in Cells,
               \A k \in DOMAIN sinfos : k <= m - 1 => ~InSlot(sinfos[k], t, i)
        PROVE  SameCell(v_cells'[t], before[t], i)
    <3>1. CASE InSlot(sinfos[m], t, i)
      BY <1>3, <1>4, <1>5, <3>1 DEF SlotsWereFree, SameCell
    <3>2. CASE ~InSlot(sinfos[m], t, i)
      <4>1. \A k \in DOMAIN sinfos : k <= m => ~InSlot(sinfos[k], t, i)
        BY <1>2, <1>4, <2>1, <3>2
      <4>2. SameCell(v_cells[t], before[t], i)
        BY <1>3, <4>1 DEF Untouched
      <4> QED BY <1>5, <3>2, <4>2 DEF SameCell, SameRow
    <3> QED BY <3>1, <3>2
  <2>2. \A t \in Streams, i \in Cells :
          (\A k \in DOMAIN sinfos' : k <= Here' => ~InSlot(sinfos'[k], t, i))
            => SameCell(v_cells'[t], before'[t], i)
    BY <1>1, <1>3, <2>1
  <2> QED BY <2>2 DEF Untouched
<1>8. InPlace'
  <2>1. ASSUME NEW k \in DOMAIN sinfos, NEW t \in Streams, NEW i \in Cells,
               k <= m - 1, InSlot(sinfos[k], t, i)
        PROVE  Holds(v_cells'[t], i, At(sinfos'[k][t], ubatches'[k][t])[i])
    <3>1. ~InSlot(sinfos[m], t, i)
      BY <1>2, <1>3, <1>4, <2>1 DEF SlotsApart
    <3>2. Holds(v_cells[t], i, At(sinfos[k][t], ubatches[k][t])[i])
      BY <1>2, <1>3, <1>4, <2>1 DEF InPlace
    <3> QED BY <1>1, <1>5, <3>1, <3>2 DEF Holds, SameRow
  <2>2. \A k \in DOMAIN sinfos' : \A t \in Streams, i \in Cells :
          k <= Here' /\ InSlot(sinfos'[k], t, i)
            => Holds(v_cells'[t], i, At(sinfos'[k][t], ubatches'[k][t])[i])
    BY <1>1, <1>3, <2>1
  <2> QED BY <2>2 DEF InPlace
<1>9. RecordsFree'
  <2>1. \A k \in 1 .. (m - 1) : k \in DOMAIN states
    BY <1>2
  <2>2. \A k \in DOMAIN states' : \A t \in Streams, i \in Cells :
         /\ InRow(states'[k], t, i) <=> InSlot(sinfos'[k], t, i)
         /\ InRow(states'[k], t, i) => /\ states'[k].rows[t][i].pos = -1
                                       /\ states'[k].rows[t][i].seqs = {}
    BY <1>1, <1>2, <1>3, <2>1 DEF RecordsFree
  <2>3. phase' = "restore" /\ Len(states') <= Len(sinfos')
    BY <1>1, <1>2, <1>3, <1>4
  <2> QED BY <2>2, <2>3 DEF RecordsFree
<1> QED BY <1>6, <1>7, <1>8, <1>9 DEF SlotInv

\* The slot of the next ubatch is still empty when it is computed.
LEMMA NextSlotFree ==
    ASSUME IInv, SlotInv, phase = "decode"
    PROVE  \A t \in Streams, i \in Cells :
              InSlot(sinfos[done + 1], t, i) => v_cells[t].pos[i] = -1
<1>1. /\ SlotsApart /\ SlotsWereFree /\ Untouched /\ Here = done
      /\ done \in Nat /\ done + 1 \in DOMAIN sinfos /\ DOMAIN sinfos = 1 .. Len(sinfos)
  <2>1. IsSeq(sinfos) /\ done \in Nat /\ Len(sinfos) = Len(ubatches) /\ done < Len(ubatches)
    BY DEF IInv, CallInv
  <2> QED BY <2>1, SeqFacts DEF SlotInv, Here
<1> SUFFICES ASSUME NEW t \in Streams, NEW i \in Cells, InSlot(sinfos[done + 1], t, i)
             PROVE  v_cells[t].pos[i] = -1
  OBVIOUS
<1>2. \A k \in DOMAIN sinfos : k <= done => ~InSlot(sinfos[k], t, i)
  <2> SUFFICES ASSUME NEW k \in DOMAIN sinfos, k <= done, InSlot(sinfos[k], t, i) PROVE FALSE
    OBVIOUS
  <2>1. k = done + 1
    BY <1>1 DEF SlotsApart
  <2> QED BY <1>1, <2>1
<1>3. SameCell(v_cells[t], before[t], i) /\ before[t].seq[i] = {}
  BY <1>1, <1>2 DEF Untouched, SlotsWereFree
<1>4. v_cells[t].seq[i] = {}
  BY <1>3 DEF SameCell, SameRow
<1> QED BY <1>4 DEF IInv, CellsInv, StreamOK, CellsOK, EmptyOK

\* What the next ubatch makes of the cells.
LEMMA NextPlaced ==
    ASSUME IInv, SlotInv, phase = "decode", NEW t \in Streams, NEW i \in Cells
    PROVE  LET ub == ubatches[done + 1]
               si == sinfos[done + 1]
               d == apply_cells(si, ub)[t]
           IN  /\ InSlot(si, t, i) => Holds(d, i, At(si[t], ub[t])[i])
               /\ ~InSlot(si, t, i) => SameRow(d, v_cells[t], i)
<1> DEFINE ub == ubatches[done + 1]
           si == sinfos[done + 1]
<1>1. UbatchOK(ub) /\ SinfoOK(si, ub)
  BY CurrentOK
<1>2. \A u \in Streams, j \in Cells : InSlot(si, u, j) => v_cells[u].pos[j] = -1
  BY NextSlotFree
<1>3. CellsInv(v_cells)
  BY DEF IInv
<1> HIDE DEF ub, si
<1>4. LET d == apply_cells(si, ub)[t]
      IN  /\ InSlot(si, t, i) => Holds(d, i, At(si[t], ub[t])[i])
          /\ ~InSlot(si, t, i) => SameRow(d, v_cells[t], i)
  BY <1>1, <1>2, <1>3, ApplyFreshAll
<1> QED BY <1>4 DEF ub, si

\* A computed ubatch: one more in place.
LEMMA DecodeUbatchSlots ==
    ASSUME IInv, SlotInv, DecodeUbatch
    PROVE  SlotInv'
<1> DEFINE k0 == done + 1
<1>1. phase = "decode" /\ v_cells' = apply_cells(sinfos[k0], ubatches[k0])
  BY DEF DecodeUbatch
<1>2. CASE CallEnds
  BY <1>2 DEF CallEnds, SlotInv
<1>3. CASE done' = k0 /\ UNCHANGED <<phase, ubatches, sinfos, states, did_optimize, before>>
  <2>1. /\ SlotsApart /\ SlotsWereFree /\ Untouched /\ InPlace /\ RecordsFree
        /\ Here = done /\ Here' = k0 /\ phase' = "decode"
        /\ done \in Nat /\ k0 \in DOMAIN sinfos /\ DOMAIN sinfos = 1 .. Len(sinfos)
    <3>1. IsSeq(sinfos) /\ done \in Nat /\ Len(sinfos) = Len(ubatches) /\ done < Len(ubatches)
      BY <1>1 DEF IInv, CallInv
    <3> QED BY <1>1, <1>3, <3>1, SeqFacts DEF SlotInv, Here
  <2>2. ASSUME NEW t \in Streams, NEW i \in Cells
        PROVE  /\ InSlot(sinfos[k0], t, i) =>
                    Holds(v_cells'[t], i, At(sinfos[k0][t], ubatches[k0][t])[i])
               /\ ~InSlot(sinfos[k0], t, i) => SameRow(v_cells'[t], v_cells[t], i)
    BY <1>1, NextPlaced
  <2> HIDE DEF k0
  <2>3. SlotsApart' /\ SlotsWereFree'
    BY <1>3, <2>1 DEF SlotsApart, SlotsWereFree
  <2>4. RecordsFree'
    BY <1>3, <2>1 DEF RecordsFree
  <2>5. Untouched'
    <3>1. ASSUME NEW t \in Streams, NEW i \in Cells,
                 \A k \in DOMAIN sinfos : k <= k0 => ~InSlot(sinfos[k], t, i)
          PROVE  SameCell(v_cells'[t], before[t], i)
      <4>1. ~InSlot(sinfos[k0], t, i) /\ \A k \in DOMAIN sinfos : k <= done => ~InSlot(sinfos[k], t, i)
        BY <2>1, <3>1 DEF k0
      <4>2. SameCell(v_cells[t], before[t], i)
        BY <2>1, <4>1 DEF Untouched
      <4> QED BY <2>2, <4>1, <4>2 DEF SameCell, SameRow
    <3>2. \A t \in Streams, i \in Cells :
            (\A k \in DOMAIN sinfos' : k <= Here' => ~InSlot(sinfos'[k], t, i))
              => SameCell(v_cells'[t], before'[t], i)
      BY <1>3, <2>1, <3>1
    <3> QED BY <3>2 DEF Untouched
  <2>6. InPlace'
    <3>1. ASSUME NEW k \in DOMAIN sinfos, NEW t \in Streams, NEW i \in Cells,
                 k <= k0, InSlot(sinfos[k], t, i)
          PROVE  Holds(v_cells'[t], i, At(sinfos'[k][t], ubatches'[k][t])[i])
      <4>1. CASE k = k0
        BY <1>3, <2>2, <3>1, <4>1
      <4>2. CASE k # k0
        <5>1. k <= done /\ ~InSlot(sinfos[k0], t, i)
          BY <2>1, <3>1, <4>2 DEF SlotsApart, k0
        <5>2. Holds(v_cells[t], i, At(sinfos[k][t], ubatches[k][t])[i])
          BY <2>1, <3>1, <5>1 DEF InPlace
        <5> QED BY <1>3, <2>2, <5>1, <5>2 DEF Holds, SameRow
      <4> QED BY <4>1, <4>2
    <3>2. \A k \in DOMAIN sinfos' : \A t \in Streams, i \in Cells :
            k <= Here' /\ InSlot(sinfos'[k], t, i)
              => Holds(v_cells'[t], i, At(sinfos'[k][t], ubatches'[k][t])[i])
      BY <1>3, <2>1, <3>1
    <3> QED BY <3>2 DEF InPlace
  <2> QED BY <2>3, <2>4, <2>5, <2>6 DEF SlotInv
<1> QED BY <1>2, <1>3 DEF DecodeUbatch

\* Those calls are made only between two decode calls.
LEMMA IdleCalls == ASSUME Edit \/ StateIo PROVE phase = "idle"
<1>1. ASSUME Edit PROVE phase = "idle"
  <2>1. \A data : clear(data) => phase = "idle"
    BY DEF clear, Idle
  <2>2. \A s, p0, p1 : SeqRm(s, p0, p1) => phase = "idle"
    BY DEF SeqRm, Idle
  <2>3. \A p0, p1 : SeqRmAny(p0, p1) => phase = "idle"
    BY DEF SeqRmAny, Idle
  <2>4. \A s, u, p0, p1 : SeqCp(s, u, p0, p1) => phase = "idle"
    BY DEF SeqCp, Idle
  <2>5. \A s, u : SeqCpStream(s, u) => phase = "idle"
    BY DEF SeqCpStream, Idle
  <2>6. \A s : SeqKeep(s) => phase = "idle"
    BY DEF SeqKeep, Idle
  <2>7. \A s, p0, p1, d : SeqAdd(s, p0, p1, d) => phase = "idle"
    BY DEF SeqAdd, Idle
  <2>8. \A s, p0, p1, d : SeqDiv(s, p0, p1, d) => phase = "idle"
    BY DEF SeqDiv, Idle
  <2> QED BY <1>1, <2>1, <2>2, <2>3, <2>4, <2>5, <2>6, <2>7, <2>8 DEF Edit
<1>2. ASSUME StateIo PROVE phase = "idle"
  BY <1>2 DEF StateIo, StateSave, StateRestore, StateRestoreFails, StateIoGuard, Idle
<1> QED BY <1>1, <1>2

\* Every step keeps the slots apart and the cells outside them untouched.
LEMMA SlotsKeep ==
    ASSUME SwaType = "none", IInv, TypeInv, SlotInv, [Next]_vars
    PROVE  SlotInv'
<1>1. CASE Edit \/ StateIo
  <2>1. UNCHANGED call /\ phase = "idle"
    BY <1>1, CallAlone, IdleCalls
  <2> QED BY <2>1 DEF SlotInv, call
<1>2. CASE UNCHANGED vars
  <2>1. phase = "idle" => SlotInv'
    BY <1>2 DEF SlotInv, vars
  <2>2. phase # "idle" => SlotInv'
    BY <1>2, SlotsKept DEF vars
  <2> QED BY <2>1, <2>2
<1>3. ASSUME NEW ubs, NEW ok, DecodeBegin(ubs, ok) PROVE SlotInv'
  <2>1. sinfos' = <<>> /\ states' = <<>> /\ phase' = "prepare" /\ before' = v_cells'
    BY <1>3 DEF DecodeBegin, IInv, CallInv
  <2> QED BY <2>1, SlotsBegin
<1>4. ASSUME NEW ok, PrepareRetries(ok) PROVE SlotInv'
  <2>1. sinfos' = <<>> /\ states' = <<>> /\ phase' = "prepare" /\ before' = v_cells'
    BY <1>4 DEF PrepareRetries, Prepared
  <2> QED BY <2>1, SlotsBegin
<1>5. CASE PrepareEnd \/ PrepareSucceeds
  BY <1>5, SlotsKept DEF PrepareEnd, PrepareSucceeds, Prepared
<1>6. CASE PrepareFails \/ ReserveFails \/ \E how \in Failures : DecodeFails(how)
  <2>1. phase' = "idle"
    BY <1>6 DEF PrepareFails, ReserveFails, DecodeFails, CallEnds
  <2> QED BY <2>1 DEF SlotInv
<1> QED BY <1>1, <1>2, <1>3, <1>4, <1>5, <1>6, PrepareUbatchSlots, RestoreUbatchSlots,
           DecodeUbatchSlots
        DEF Next, Decode

\* The inductive invariant of the slots.
THEOREM SlotsInductive ==
    ASSUME SwaType = "none"
    PROVE  Spec => [](IInv /\ TypeInv /\ SlotInv)
<1>1. Init => IInv /\ TypeInv /\ SlotInv
  BY InitHolds, TypeInit DEF Init, SlotInv
<1>2. IInv /\ TypeInv /\ SlotInv /\ [Next]_vars => IInv' /\ TypeInv' /\ SlotInv'
  BY Keeps, SlotsKeep
<1> QED BY <1>1, <1>2, PTL DEF Spec

\* A rehearsed or computed ubatch takes no cell that some sequence still has.
LEMMA NothingTaken ==
    ASSUME SwaType = "none", IInv, TypeInv, SlotInv, PrepareUbatch \/ DecodeUbatch
    PROVE  VisibleKept /\ VisibleToNextKept
<1>1. \A t \in Streams, i \in Cells : v_cells[t].pos[i] = -1 <=> v_cells[t].seq[i] = {}
  BY DEF IInv, CellsInv, StreamOK, CellsOK, EmptyOK
<1>2. ASSUME NEW t \in Streams, NEW i \in Cells, v_cells[t].seq[i] # {}
      PROVE  SameRow(v_cells'[t], v_cells[t], i)
  <2>1. CASE DecodeUbatch
    <3>1. phase = "decode" /\ v_cells' = apply_cells(sinfos[done + 1], ubatches[done + 1])
      BY <2>1 DEF DecodeUbatch
    <3>2. ~InSlot(sinfos[done + 1], t, i)
      BY <1>1, <1>2, <3>1, NextSlotFree
    <3> QED BY <3>1, <3>2, NextPlaced
  <2>2. CASE PrepareUbatch
    <3> DEFINE n == Len(sinfos)
               ub == ubatches[n + 1]
    <3>1. PICK si \in find_slot(ub) : v_cells' = apply_cells(si, ub)
      BY <2>2 DEF PrepareUbatch
    <3>2. UbatchOK(ub) /\ SinfoOK(si, ub)
      <4>1. n \in Nat /\ n < Len(ubatches) /\ phase = "prepare"
        BY <2>2, SeqFacts DEF IInv, CallInv, PrepareUbatch
      <4>2. n + 1 \in DOMAIN ubatches
        BY <4>1, CurrentUbatch
      <4> QED BY <4>1, <4>2, CurrentUbatch, FindSlotFits
    <3>3. v_heads \in Heads /\ CellsInv(v_cells)
      BY DEF TypeInv, IInv
    <3> HIDE DEF ub
    <3>4. \A u \in Streams, j \in Cells : InSlot(si, u, j) => v_cells[u].pos[j] = -1
      BY <3>2, <3>3, FreshSlot DEF InSlot
    <3>5. ~InSlot(si, t, i)
      BY <1>1, <1>2, <3>4
    <3> QED BY <3>1, <3>2, <3>3, <3>4, <3>5, ApplyFreshAll
  <2> QED BY <2>1, <2>2
<1>3. ASSUME NEW t \in Streams, NEW i \in Cells, NEW s \in v_cells[t].seq[i]
      PROVE  StillThere(t, i, s)
  BY <1>2 DEF SameRow, StillThere
<1> QED BY <1>3 DEF VisibleKept, VisibleToNextKept

\* Without a window no slot, rehearsed or real, takes a cell from a sequence.
THEOREM SlotsTakeNothing ==
    ASSUME SwaType = "none"
    PROVE  Spec => SlotsTakeNothingVisible
<1>1. IInv /\ TypeInv /\ SlotInv
        => [(PrepareUbatch => VisibleKept) /\ (DecodeUbatch => VisibleToNextKept)]_vars
  BY NothingTaken
<1>2. Spec => [][(PrepareUbatch => VisibleKept) /\ (DecodeUbatch => VisibleToNextKept)]_vars
  BY <1>1, SlotsInductive, PTL
<1> QED BY <1>2 DEF SlotsTakeNothingVisible

-----------------------------------------------------------------------------
(* A call that returns 1.                                                  *)

\* The cells of a sequence have a last one.
LEMMA LastOf ==
    ASSUME NEW c \in CellsType, CellsOK(c), NEW s \in Seqs, NEW i \in With(c, s)
    PROVE  /\ seq_pos_max(c, s) \in Nat /\ c.pos[i] <= seq_pos_max(c, s)
           /\ \E m \in With(c, s) : c.pos[m] = seq_pos_max(c, s)
<1> DEFINE W == With(c, s)
           Above(j) == {k \in W : c.pos[k] > c.pos[j]}
           N == {Cardinality(Above(j)) : j \in W}
<1>1. IsFiniteSet(W) /\ W \in SUBSET Cells
  <2>1. 0 \in Int /\ NCells - 1 \in Int
    BY CellsAssumption
  <2>2. IsFiniteSet(Cells)
    BY <2>1, FS_Interval DEF Cells
  <2>3. W \in SUBSET Cells
    BY DEF With
  <2> QED BY <2>2, <2>3, FS_Subset
<1>2. \A j \in W : c.pos[j] \in Nat
  BY OccupiedNotEmpty
<1>3. SeqPositions(c, s) = {c.pos[j] : j \in W} /\ c.seq_pos[s] # {}
  <2>1. c.seq_pos[s] = {<<c.pos[j], j>> : j \in W}
    BY DEF CellsOK, SeqPosOK, Entries, With
  <2>2. i \in W
    OBVIOUS
  <2> HIDE DEF W
  <2>3. c.seq_pos[s] # {}
    BY <2>1, <2>2
  <2>4. SeqPositions(c, s) = {e[1] : e \in c.seq_pos[s]}
    BY DEF SeqPositions
  <2>5. \A e \in c.seq_pos[s] : \E j \in W : e[1] = c.pos[j]
    BY <2>1
  <2>6. \A j \in W : \E e \in c.seq_pos[s] : e[1] = c.pos[j]
    <3> TAKE j \in W
    <3>1. <<c.pos[j], j>> \in c.seq_pos[s]
      BY <2>1
    <3> QED BY <3>1
  <2>7. {e[1] : e \in c.seq_pos[s]} = {c.pos[j] : j \in W}
    <3> DEFINE E == c.seq_pos[s]
    <3> HIDE DEF E
    <3>1. (\A e \in E : \E j \in W : e[1] = c.pos[j])
          /\ (\A j \in W : \E e \in E : e[1] = c.pos[j])
      BY <2>5, <2>6 DEF E
    <3>2. {e[1] : e \in E} = {c.pos[j] : j \in W}
      BY <3>1
    <3> QED BY <3>2 DEF E
  <2> QED BY <2>3, <2>4, <2>7
<1> HIDE DEF W
<1>4. \A j \in W : IsFiniteSet(Above(j)) /\ Cardinality(Above(j)) \in Nat
  <2> TAKE j \in W
  <2>1. Above(j) \in SUBSET W
    OBVIOUS
  <2> HIDE DEF Above
  <2> QED BY <1>1, <2>1, FS_Subset, FS_CardinalityType
<1>5. N \in SUBSET Nat /\ N # {}
  BY <1>4 DEF W
<1>6. Min(N) \in N /\ \A k \in N : Min(N) <= k
  <2> HIDE DEF N
  <2> QED BY <1>5, MinOf
<1>7. PICK m \in W : \A k \in W : Cardinality(Above(m)) <= Cardinality(Above(k))
  BY <1>6
<1>8. \A k \in W : c.pos[k] <= c.pos[m]
  <2> SUFFICES ASSUME NEW k \in W, c.pos[k] > c.pos[m] PROVE FALSE
    BY <1>2
  <2>1. Above(k) \in SUBSET Above(m) /\ k \in Above(m) /\ k \notin Above(k)
    BY <1>2
  <2>2. IsFiniteSet(Above(m)) /\ Cardinality(Above(m)) \in Nat /\ Cardinality(Above(k)) \in Nat
        /\ Cardinality(Above(m)) <= Cardinality(Above(k))
    BY <1>4, <1>7
  <2> HIDE DEF Above
  <2>3. Cardinality(Above(k)) <= Cardinality(Above(m))
        /\ (Cardinality(Above(k)) = Cardinality(Above(m)) => Above(k) = Above(m))
    BY <2>1, <2>2, FS_Subset
  <2> QED BY <2>1, <2>2, <2>3
<1>9. \E x \in SeqPositions(c, s) : \A y \in SeqPositions(c, s) : x >= y
  <2>1. \A y \in SeqPositions(c, s) : c.pos[m] >= y
    BY <1>2, <1>3, <1>8
  <2> QED BY <1>3, <2>1
<1>10. Max(SeqPositions(c, s)) \in SeqPositions(c, s)
       /\ \A y \in SeqPositions(c, s) : Max(SeqPositions(c, s)) >= y
  BY <1>9 DEF Max
<1>11. seq_pos_max(c, s) = Max(SeqPositions(c, s))
  BY <1>3 DEF seq_pos_max
<1>12. c.pos[i] \in SeqPositions(c, s) /\ SeqPositions(c, s) \in SUBSET Nat
  BY <1>2, <1>3 DEF W
<1>13. \E k \in With(c, s) : c.pos[k] = seq_pos_max(c, s)
  BY <1>3, <1>10, <1>11 DEF W
<1> QED BY <1>10, <1>11, <1>12, <1>13

\* The next position of a sequence is above all it has, and the first that is.
LEMMA NextIsAbove ==
    ASSUME CellsInv(v_cells), NEW s \in Seqs
    PROVE  /\ NextPos(s) \in Nat
           /\ \A i \in With(v_cells[seq_to_stream(s)], s) :
                v_cells[seq_to_stream(s)].pos[i] < NextPos(s)
           /\ \A q \in Nat :
                (\A i \in With(v_cells[seq_to_stream(s)], s) :
                    v_cells[seq_to_stream(s)].pos[i] < q) => NextPos(s) <= q
<1> DEFINE c == v_cells[seq_to_stream(s)]
<1>1. c \in CellsType /\ CellsOK(c)
  BY StreamOfSeq DEF CellsInv, StreamOK
<1>2. NextPos(s) = seq_pos_max(c, s) + 1
  BY DEF NextPos
<1> HIDE DEF c
<1>3. \A i \in With(c, s) : c.pos[i] \in Nat
  BY <1>1, OccupiedNotEmpty
<1>4. CASE With(c, s) = {}
  <2>1. c.seq_pos[s] = {}
    BY <1>1, <1>4 DEF CellsOK, SeqPosOK, Entries, With
  <2>2. seq_pos_max(c, s) = -1
    BY <2>1 DEF seq_pos_max
  <2> QED BY <1>2, <1>4, <2>2 DEF c
<1>5. CASE With(c, s) # {}
  <2>1. \A i \in With(c, s) : seq_pos_max(c, s) \in Nat /\ c.pos[i] <= seq_pos_max(c, s)
    BY <1>1, LastOf
  <2>2. \E m \in With(c, s) : c.pos[m] = seq_pos_max(c, s)
    BY <1>1, <1>5, LastOf
  <2> QED BY <1>2, <1>3, <1>5, <2>1, <2>2 DEF c
<1> QED BY <1>4, <1>5


\* One ubatch of split_equal takes no more of a sequence than it has left.
LEMMA EqualRowsOK ==
    ASSUME NEW g \in [Seqs -> Nat], NEW u \in Seqs, g[u] > 0
    PROVE  /\ EqualRun(g) \subseteq Seqs
           /\ EqualRows(g) \in Nat
           /\ \A s \in EqualRun(g) : EqualRows(g) <= g[s]
<1> DEFINE P == {s \in DOMAIN g : g[s] > 0}
           E == EqualRun(g)
           x == NUbatch \div Cardinality(E)
           top == Max({1, x})
           S == {g[s] : s \in E} \cup {top}
<1>1. NUbatch \in Nat \ {0} /\ NSeqs \in Nat /\ Seqs \in SUBSET Nat /\ DOMAIN g = Seqs
  BY CacheAssumption, CellsAssumption DEF Seqs
<1>2. First(g) \in P
  <2>1. P \in SUBSET Nat /\ P # {}
    BY <1>1
  <2>2. First(g) = Min(P)
    BY DEF First
  <2> HIDE DEF P
  <2> QED BY <2>1, <2>2, MinOf
<1>3. E \in SUBSET Seqs /\ First(g) \in E
  <2>1. First(g) \in Seqs /\ First(g) \in Nat /\ g[First(g)] > 0
    BY <1>1, <1>2
  <2>2. \A v \in First(g) .. First(g) : v = First(g)
    BY <2>1
  <2> QED BY <1>1, <2>1, <2>2 DEF EqualRun
<1> HIDE DEF E
<1>4. Cardinality(E) \in Nat \ {0}
  <2>1. 0 \in Int /\ NSeqs - 1 \in Int
    BY CellsAssumption
  <2>2. IsFiniteSet(Seqs)
    BY <2>1, FS_Interval DEF Seqs
  <2>3. IsFiniteSet(E)
    BY <1>3, <2>2, FS_Subset
  <2>4. Cardinality(E) \in Nat /\ (Cardinality(E) = 0 <=> E = {})
    BY <2>3, FS_CardinalityType, FS_EmptySet
  <2> QED BY <1>3, <2>4
<1>5. x \in Nat
  BY <1>1, <1>4
<1> HIDE DEF x
<1>6. top \in Nat
  <2>1. \E a \in {1, x} : \A c \in {1, x} : a >= c
    BY <1>5
  <2>2. Max({1, x}) \in {1, x}
    BY <2>1 DEF Max
  <2> QED BY <1>5, <2>2
<1> HIDE DEF top
<1>7. S \in SUBSET Nat /\ S # {}
  BY <1>3, <1>6
<1>8. EqualRows(g) = Min(S)
  BY DEF EqualRows, E, top, x
<1> HIDE DEF S
<1>9. Min(S) \in Nat /\ \A c \in S : Min(S) <= c
  BY <1>7, MinOf
<1>10. \A s \in E : g[s] \in S
  BY DEF S
<1> QED BY <1>3, <1>8, <1>9, <1>10 DEF E

\* What one ubatch of split_equal leaves.
LeftNext(g) ==
    IF \A s \in Seqs : g[s] = 0 THEN g
    ELSE [s \in Seqs |-> IF s \in EqualRun(g) THEN g[s] - EqualRows(g) ELSE g[s]]

\* A ubatch takes no more than there is.
LEMMA LeftNextBelow ==
    ASSUME NEW g \in [Seqs -> Nat]
    PROVE  LeftNext(g) \in [Seqs -> Nat] /\ \A s \in Seqs : LeftNext(g)[s] <= g[s]
<1>1. CASE \A s \in Seqs : g[s] = 0
  BY <1>1 DEF LeftNext
<1>2. ASSUME NEW u \in Seqs, g[u] # 0
      PROVE  LeftNext(g) \in [Seqs -> Nat] /\ \A s \in Seqs : LeftNext(g)[s] <= g[s]
  <2>1. g[u] > 0
    BY <1>2
  <2>2. /\ EqualRun(g) \subseteq Seqs /\ EqualRows(g) \in Nat
        /\ \A s \in EqualRun(g) : EqualRows(g) <= g[s]
    BY <2>1, EqualRowsOK
  <2>3. LeftNext(g) = [s \in Seqs |-> IF s \in EqualRun(g) THEN g[s] - EqualRows(g) ELSE g[s]]
    BY <1>2 DEF LeftNext
  <2> QED BY <2>2, <2>3
<1> QED BY <1>1, <1>2

\* The recursion of Left has a solution.
LEMMA LeftIs ==
    ASSUME NEW n \in [Seqs -> Nat]
    PROVE  /\ Left(n)[0] = n
           /\ \A k \in 1 .. MaxBatch : Left(n)[k] = LeftNext(Left(n)[k - 1])
<1> DEFINE Body(g, k) == IF k = 0 THEN n ELSE LeftNext(g[k - 1])
           Good(m) == \E g : g = [k \in 0 .. m |-> Body(g, k)]
           Bad == {m \in Nat : ~Good(m)}
<1>1. Bad = {}
  <2> SUFFICES ASSUME Bad # {} PROVE FALSE
    OBVIOUS
  <2>1. PICK m \in Bad : \A j \in Bad : m <= j
    <3>1. Bad \in SUBSET Nat
      OBVIOUS
    <3> HIDE DEF Bad
    <3>2. Min(Bad) \in Bad /\ \A j \in Bad : Min(Bad) <= j
      BY <3>1, MinOf
    <3> QED BY <3>2
  <2>2. m \in Nat /\ ~Good(m)
    OBVIOUS
  <2>3. CASE m = 0
    <3> DEFINE h == [k \in 0 .. 0 |-> n]
    <3>1. h = [k \in 0 .. 0 |-> Body(h, k)]
      <4>1. \A k \in 0 .. 0 : Body(h, k) = n
        OBVIOUS
      <4> HIDE DEF Body
      <4> QED BY <4>1
    <3> HIDE DEF Body
    <3> QED BY <2>2, <2>3, <3>1
  <2>4. CASE m # 0
    <3>1. m - 1 \in Nat /\ m - 1 < m
      BY <2>2, <2>4
    <3>2. Good(m - 1)
      <4> HIDE DEF Good
      <4>1. m - 1 \notin Bad
        BY <2>1, <2>2, <3>1
      <4> QED BY <3>1, <4>1
    <3>3. PICK g : g = [k \in 0 .. (m - 1) |-> Body(g, k)]
      BY <3>2
    <3> DEFINE h == [k \in 0 .. m |-> IF k = m THEN LeftNext(g[m - 1]) ELSE g[k]]
    <3>4. \A k \in 0 .. m : h[k] = Body(h, k)
      <4> TAKE k \in 0 .. m
      <4>1. CASE k = m
        <5>1. h[k] = LeftNext(g[m - 1]) /\ h[k - 1] = g[m - 1]
          BY <2>2, <2>4, <4>1
        <5> HIDE DEF h
        <5> QED BY <2>4, <4>1, <5>1
      <4>2. CASE k # m /\ k # 0
        <5>1. k \in 0 .. (m - 1) /\ h[k] = g[k] /\ h[k - 1] = g[k - 1]
          BY <2>2, <4>2
        <5>2. g[k] = Body(g, k)
          <6> HIDE DEF Body
          <6> QED BY <3>3, <5>1
        <5> HIDE DEF h
        <5> QED BY <4>2, <5>1, <5>2
      <4>3. CASE k = 0
        <5>1. k \in 0 .. (m - 1) /\ h[k] = g[k]
          BY <2>2, <2>4, <4>3
        <5>2. g[k] = Body(g, k)
          <6> HIDE DEF Body
          <6> QED BY <3>3, <5>1
        <5> HIDE DEF h
        <5> QED BY <4>3, <5>1, <5>2
      <4> QED BY <4>1, <4>2, <4>3
    <3>5. h = [k \in 0 .. m |-> Body(h, k)]
      <4>1. h = [k \in 0 .. m |-> h[k]]
        OBVIOUS
      <4> HIDE DEF h, Body
      <4> QED BY <3>4, <4>1
    <3> HIDE DEF h, Body
    <3> QED BY <2>2, <3>5
  <2> QED BY <2>3, <2>4
<1>2. MaxBatch \in Nat
  BY CacheAssumption
<1>3. Good(MaxBatch)
  <2> HIDE DEF Good
  <2> QED BY <1>1, <1>2
<1>4. Left(n) = [k \in 0 .. MaxBatch |-> Body(Left(n), k)]
  <2> DEFINE L == CHOOSE g : g = [k \in 0 .. MaxBatch |->
          IF k = 0 THEN n
          ELSE IF \A s \in DOMAIN n : g[k - 1][s] = 0 THEN g[k - 1]
          ELSE [s \in DOMAIN n |-> IF s \in EqualRun(g[k - 1])
                                   THEN g[k - 1][s] - EqualRows(g[k - 1])
                                   ELSE g[k - 1][s]]]
  <2>1. Left(n) = L
    BY DEF Left
  <2>2. DOMAIN n = Seqs
    OBVIOUS
  <2>3. L = CHOOSE g : g = [k \in 0 .. MaxBatch |-> Body(g, k)]
    BY <2>2 DEF LeftNext
  <2> HIDE DEF L, Body
  <2> QED BY <1>3, <2>1, <2>3
<1>5. \A k \in 0 .. MaxBatch : Left(n)[k] = Body(Left(n), k)
  <2> HIDE DEF Body
  <2> QED BY <1>4
<1> QED BY <1>2, <1>5

\* What is left is never more than there was.
LEMMA LeftBelow ==
    ASSUME NEW n \in [Seqs -> Nat], NEW k \in 0 .. MaxBatch
    PROVE  Left(n)[k] \in [Seqs -> Nat] /\ \A s \in Seqs : Left(n)[k][s] <= n[s]
<1> DEFINE OK(m) == Left(n)[m] \in [Seqs -> Nat] /\ \A s \in Seqs : Left(n)[m][s] <= n[s]
           Bad == {m \in 0 .. MaxBatch : ~OK(m)}
<1>0. MaxBatch \in Nat
  BY CacheAssumption
<1>1. Bad = {}
  <2> SUFFICES ASSUME Bad # {} PROVE FALSE
    OBVIOUS
  <2>1. PICK m \in Bad : \A j \in Bad : m <= j
    <3>1. Bad \in SUBSET Nat
      BY <1>0
    <3> HIDE DEF Bad
    <3>2. Min(Bad) \in Bad /\ \A j \in Bad : Min(Bad) <= j
      BY <3>1, MinOf
    <3> QED BY <3>2
  <2>2. m \in 0 .. MaxBatch /\ ~OK(m)
    OBVIOUS
  <2>3. m # 0
    <3>1. OK(0)
      BY LeftIs
    <3> QED BY <2>2, <3>1
  <2>4. m \in 1 .. MaxBatch /\ m - 1 \in 0 .. MaxBatch /\ m - 1 < m
    BY <1>0, <2>2, <2>3
  <2>5. OK(m - 1)
    <3> HIDE DEF OK
    <3>1. m - 1 \notin Bad
      BY <1>0, <2>1, <2>4
    <3> QED BY <2>4, <3>1
  <2> DEFINE g == Left(n)[m - 1]
  <2>6. g \in [Seqs -> Nat] /\ (\A s \in Seqs : g[s] <= n[s]) /\ Left(n)[m] = LeftNext(g)
    BY <2>4, <2>5, LeftIs
  <2> HIDE DEF g
  <2>7. LeftNext(g) \in [Seqs -> Nat] /\ \A s \in Seqs : LeftNext(g)[s] <= g[s]
    BY <2>6, LeftNextBelow
  <2>8. OK(m)
    BY <2>6, <2>7
  <2> QED BY <2>2, <2>8
<1> QED BY <1>1


\* The tokens of a batch come after everything their sequences have.
After(ubs, cells) ==
    \A k \in DOMAIN ubs : \A t \in DOMAIN ubs[k] : \A j \in DOMAIN ubs[k][t] :
      \A s \in ubs[k][t][j].seqs : \A i \in With(cells[t], s) :
        cells[t].pos[i] < ubs[k][t][j].pos

LEMMA SplitsAfter ==
    ASSUME CellsInv(v_cells), NEW tok, NEW ubs \in Splits(tok), UbatchesOK(ubs)
    PROVE  After(ubs, v_cells)
<1> SUFFICES ASSUME NEW k \in DOMAIN ubs, NEW t \in DOMAIN ubs[k], NEW j \in DOMAIN ubs[k][t],
                    NEW s \in ubs[k][t][j].seqs
             PROVE  \A i \in With(v_cells[t], s) : v_cells[t].pos[i] < ubs[k][t][j].pos
  BY DEF After
<1> DEFINE x == ubs[k][t][j]
<1>1. x \in Token /\ s \in Seqs /\ seq_to_stream(s) = t
  <2>1. UbatchOK(ubs[k])
    BY DEF UbatchesOK
  <2>2. ubs[k][t] \in Seq(Token)
    BY <2>1, UbatchTokens DEF TokensOK
  <2>3. x \in Token
    BY <2>2
  <2> QED BY <2>1, <2>3 DEF UbatchOK, Token
<1>2. /\ NextPos(s) \in Nat
      /\ \A i \in With(v_cells[t], s) : v_cells[t].pos[i] \in Nat /\ v_cells[t].pos[i] < NextPos(s)
  <2>1. v_cells[t] \in CellsType /\ CellsOK(v_cells[t])
    BY <1>1, StreamOfSeq DEF CellsInv, StreamOK
  <2> QED BY <1>1, <2>1, NextIsAbove, OccupiedNotEmpty
<1>3. x.pos \in Nat
  BY <1>1 DEF Token
<1>4. CASE NStream = 1
  <2>1. PICK b \in UnifiedBatches : ubs = split_simple(b, tok)
    BY <1>4 DEF Splits
  <2>2. PICK m \in DOMAIN b : /\ x = BatchTokens(b, tok)[m]
                              /\ b[m] \in (SUBSET Seqs) \ {{}} /\ m \in Nat
    BY <2>1, SimpleTokens
  <2> DEFINE u == Min(b[m])
  <2>3. x.pos = NextPos(u) + Before(b, m, u) /\ x.seqs = b[m]
    BY <2>2 DEF BatchTokens
  <2>4. u \in b[m]
    <3>1. b[m] \in SUBSET Nat /\ b[m] # {}
      BY <2>2, CellsAssumption DEF Seqs
    <3> QED BY <3>1, MinOf
  <2>5. s \in b[m]
    BY <2>3
  <2>6. Admissible(b)
    BY DEF UnifiedBatches
  <2>7. NextPos(s) + Before(b, m, s) = NextPos(u) + Before(b, m, u)
    <3> HIDE DEF u
    <3> QED BY <2>4, <2>5, <2>6 DEF Admissible
  <2>8. Before(b, m, s) \in Nat
    <3> DEFINE B == {l \in 1 .. (m - 1) : s \in b[l]}
    <3>1. IsFiniteSet(1 .. (m - 1)) /\ B \in SUBSET (1 .. (m - 1))
      BY <2>2, FS_Interval
    <3>2. Before(b, m, s) = Cardinality(B)
      BY DEF Before
    <3> HIDE DEF B
    <3>3. IsFiniteSet(B)
      BY <3>1, FS_Subset
    <3> QED BY <3>2, <3>3, FS_CardinalityType
  <2>9. NextPos(s) <= x.pos
    BY <1>2, <2>3, <2>7, <2>8
  <2> QED BY <1>2, <1>3, <2>9
<1>5. CASE NStream # 1
  <2>1. PICK n \in StreamBatches : ubs = split_equal(n, tok)
    BY <1>5 DEF Splits
  <2> DEFINE left == Left(n)
  <2>2. /\ k \in 1 .. MaxBatch
        /\ \E u \in DOMAIN n : left[k - 1][u] > 0
        /\ t \in EqualRun(left[k - 1])
        /\ j \in 1 .. EqualRows(left[k - 1])
        /\ x = [pos |-> NextPos(t) + n[t] - left[k - 1][t] + j - 1, tok |-> tok, seqs |-> {t}]
    BY <2>1 DEF split_equal
  <2>3. MaxBatch \in Nat
    BY CacheAssumption
  <2>4. n \in [Seqs -> Nat]
    BY <2>3 DEF StreamBatches
  <2>5. k - 1 \in 0 .. MaxBatch
    BY <2>2, <2>3
  <2>6. left[k - 1] \in [Seqs -> Nat] /\ \A u \in Seqs : left[k - 1][u] <= n[u]
    BY <2>4, <2>5, LeftBelow
  <2> HIDE DEF left
  <2>7. PICK u \in Seqs : left[k - 1][u] > 0
    BY <2>2, <2>4
  <2>8. t \in Seqs /\ EqualRows(left[k - 1]) \in Nat
    BY <2>2, <2>6, <2>7, EqualRowsOK
  <2>9. s = t /\ x.pos = NextPos(t) + n[t] - left[k - 1][t] + j - 1
    BY <2>2
  <2>10. j \in Nat /\ j >= 1 /\ n[t] \in Nat /\ left[k - 1][t] \in Nat /\ left[k - 1][t] <= n[t]
    BY <2>2, <2>4, <2>6, <2>8
  <2>11. NextPos(s) <= x.pos
    BY <1>2, <2>9, <2>10
  <2> QED BY <1>2, <1>3, <2>11
<1> QED BY <1>4, <1>5


\* Cells that hold the same hold the same sequences.
LEMMA SameContents ==
    ASSUME NEW c, NEW d, \A t \in Streams, i \in Cells : SameCell(c[t], d[t], i)
    PROVE  Contents(c) = Contents(d)
<1>1. ASSUME NEW s \in Seqs
      PROVE  LET t == seq_to_stream(s)
             IN  {<<c[t].pos[i], c[t].tok[i]>> : i \in With(c[t], s)}
                   = {<<d[t].pos[i], d[t].tok[i]>> : i \in With(d[t], s)}
  <2> DEFINE t == seq_to_stream(s)
  <2>1. t \in Streams
    BY StreamOfSeq
  <2> HIDE DEF t
  <2>2. With(c[t], s) = With(d[t], s)
    BY <2>1 DEF With, SameCell, SameRow
  <2>3. \A i \in With(d[t], s) : c[t].pos[i] = d[t].pos[i] /\ c[t].tok[i] = d[t].tok[i]
    BY <2>1 DEF With, SameCell, SameRow
  <2>4. {<<c[t].pos[i], c[t].tok[i]>> : i \in With(c[t], s)}
          = {<<d[t].pos[i], d[t].tok[i]>> : i \in With(d[t], s)}
    <3> DEFINE W == With(d[t], s)
    <3> HIDE DEF W
    <3>1. {<<c[t].pos[i], c[t].tok[i]>> : i \in W} = {<<d[t].pos[i], d[t].tok[i]>> : i \in W}
      BY <2>3 DEF W
    <3> QED BY <2>2, <3>1 DEF W
  <2> QED BY <2>4 DEF t
<1> QED BY <1>1 DEF Contents

\* Once the rehearsal is undone every cell holds what it held.
LEMMA RehearsalUndone ==
    ASSUME IInv, SlotInv, Prepared
    PROVE  \A t \in Streams, i \in Cells : SameCell(v_cells[t], before[t], i)
<1>1. Untouched /\ Here = 0 /\ DOMAIN sinfos = 1 .. Len(sinfos) /\ Len(sinfos) \in Nat
  <2>1. phase = "restore" /\ Len(states) = 0 /\ IsSeq(sinfos)
    BY EmptyQueue DEF Prepared, IInv, CallInv
  <2> QED BY <2>1, SeqFacts DEF SlotInv, Here
<1>2. \A k \in DOMAIN sinfos : ~(k <= Here)
  BY <1>1
<1> QED BY <1>1, <1>2 DEF Untouched

\* memory_update changes no row.
LEMMA UpdateRows ==
    ASSUME CellsInv(v_cells), NEW ok, memory_update(ok)
    PROVE  \A t \in Streams, i \in Cells : SameRow(v_cells'[t], v_cells[t], i)
<1> SUFFICES ASSUME NEW t \in Streams, NEW i \in Cells PROVE SameRow(v_cells'[t], v_cells[t], i)
  OBVIOUS
<1>1. CASE v_cells' = v_cells
  BY <1>1 DEF SameRow
<1>2. CASE v_cells' = [u \in Streams |-> reset_shift(v_cells[u])]
  <2>1. v_cells'[t] = reset_shift(v_cells[t]) /\ v_cells[t] \in CellsType
    BY <1>2 DEF CellsInv, StreamOK
  <2> QED BY <2>1 DEF reset_shift, CellsType, SameRow
<1> QED BY <1>1, <1>2 DEF memory_update

\* Tokens that come after the cells come after cells that hold the same.
LEMMA AfterSame ==
    ASSUME NEW ubs, UbatchesOK(ubs), NEW c, NEW d, After(ubs, c),
           \A t \in Streams, i \in Cells : SameCell(d[t], c[t], i)
    PROVE  After(ubs, d)
<1> SUFFICES ASSUME NEW k \in DOMAIN ubs, NEW t \in DOMAIN ubs[k], NEW j \in DOMAIN ubs[k][t],
                    NEW s \in ubs[k][t][j].seqs, NEW i \in With(d[t], s)
             PROVE  d[t].pos[i] < ubs[k][t][j].pos
  BY DEF After
<1>1. t \in Streams /\ i \in Cells
  BY UbatchTokens DEF UbatchesOK, With
<1>2. i \in With(c[t], s) /\ d[t].pos[i] = c[t].pos[i]
  BY <1>1 DEF With, SameCell, SameRow
<1> QED BY <1>2 DEF After

\* The tokens of the batch come after what was in the cache when the call was
\* entered.
AfterInv == phase # "idle" => After(ubatches, before)

LEMMA AfterKeeps ==
    ASSUME IInv, SlotInv, AfterInv, [Next]_vars
    PROVE  AfterInv'
<1>1. CASE Edit \/ StateIo
  <2>1. UNCHANGED call /\ phase = "idle"
    BY <1>1, CallAlone, IdleCalls
  <2> QED BY <2>1 DEF AfterInv, call
<1>2. CASE UNCHANGED <<phase, ubatches, before>>
  BY <1>2 DEF AfterInv
<1>3. ASSUME NEW tok, NEW ubs \in Splits(tok), NEW ok, DecodeBegin(ubs, ok) PROVE AfterInv'
  <2>1. UbatchesOK(ubs) /\ memory_update(ok) /\ ubatches' = ubs /\ before' = v_cells'
    BY <1>3 DEF DecodeBegin
  <2>2. CellsInv(v_cells)
    BY DEF IInv
  <2>3. After(ubs, v_cells)
    BY <2>1, <2>2, SplitsAfter
  <2>4. \A t \in Streams, i \in Cells : SameCell(v_cells'[t], v_cells[t], i)
    BY <2>1, <2>2, UpdateRows DEF SameCell
  <2>5. After(ubs, v_cells')
    BY <2>1, <2>3, <2>4, AfterSame
  <2>6. After(ubatches', before')
    BY <2>1, <2>5
  <2> QED BY <2>6 DEF AfterInv
<1>4. ASSUME NEW ok, PrepareRetries(ok) PROVE AfterInv'
  <2>1. /\ Prepared /\ memory_update(ok) /\ ubatches' = ubatches /\ before' = v_cells'
        /\ phase # "idle"
    BY <1>4 DEF PrepareRetries, Prepared
  <2>2. UbatchesOK(ubatches) /\ CellsInv(v_cells)
    BY <2>1 DEF IInv, CallInv
  <2>3. \A t \in Streams, i \in Cells : SameCell(v_cells[t], before[t], i)
    BY <2>1, RehearsalUndone
  <2>4. \A t \in Streams, i \in Cells : SameRow(v_cells'[t], v_cells[t], i)
    BY <2>1, <2>2, UpdateRows
  <2>5. \A t \in Streams, i \in Cells : SameCell(v_cells'[t], before[t], i)
    BY <2>3, <2>4 DEF SameCell, SameRow
  <2>6. After(ubatches, before)
    BY <2>1 DEF AfterInv
  <2>7. After(ubatches, v_cells')
    BY <2>2, <2>5, <2>6, AfterSame
  <2>8. After(ubatches', before')
    BY <2>1, <2>7
  <2> QED BY <2>8 DEF AfterInv
<1>5. CASE PrepareUbatch \/ PrepareEnd \/ RestoreUbatch \/ PrepareSucceeds
  BY <1>5 DEF PrepareUbatch, PrepareEnd, RestoreUbatch, PrepareSucceeds, Prepared, AfterInv
<1>6. CASE DecodeUbatch
  BY <1>6 DEF DecodeUbatch, CallEnds, AfterInv
<1>7. CASE PrepareFails \/ ReserveFails \/ \E how \in Failures : DecodeFails(how)
  <2>1. phase' = "idle"
    BY <1>7 DEF PrepareFails, ReserveFails, DecodeFails, CallEnds
  <2> QED BY <2>1 DEF AfterInv
<1> QED BY <1>1, <1>2, <1>3, <1>4, <1>5, <1>6, <1>7 DEF Next, Decode, vars, call


\* call_pos_min is above everything the sequence had before the call.
LEMMA CallFromAfter ==
    ASSUME IInv, AfterInv, phase # "idle", NEW s \in DOMAIN CallFrom,
           NEW i \in With(before[seq_to_stream(s)], s)
    PROVE  CallFrom[s] \in Nat /\ before[seq_to_stream(s)].pos[i] < CallFrom[s]
<1> DEFINE toks == UNION {UbTokens(ubatches[j]) : j \in DOMAIN ubatches}
           P == {x.pos : x \in {y \in toks : s \in y.seqs}}
<1>1. \A k \in DOMAIN ubatches : UbTokens(ubatches[k]) \subseteq Token
  BY CurrentUbatch, UbTokensType
<1>2. toks \subseteq Token
  BY <1>1
<1>3. CallFrom = [u \in UNION {x.seqs : x \in toks} |->
                    Min({x.pos : x \in {y \in toks : u \in y.seqs}})]
  BY DEF CallFrom
<1>4. \A x \in toks : \E k \in DOMAIN ubatches : \E t \in DOMAIN ubatches[k] :
         \E j \in DOMAIN ubatches[k][t] : x = ubatches[k][t][j]
  BY DEF UbTokens, Range
<1> HIDE DEF toks
<1>5. PICK y \in toks : s \in y.seqs
  BY <1>3
<1>6. P \in SUBSET Nat /\ P # {} /\ CallFrom[s] = Min(P)
  BY <1>2, <1>3, <1>5 DEF Token
<1>7. Min(P) \in P
  <2> HIDE DEF P
  <2> QED BY <1>6, MinOf
<1>8. PICK x \in toks : s \in x.seqs /\ CallFrom[s] = x.pos
  BY <1>6, <1>7
<1>9. PICK k \in DOMAIN ubatches : \E t \in DOMAIN ubatches[k] :
         \E j \in DOMAIN ubatches[k][t] : x = ubatches[k][t][j]
  BY <1>4
<1>10. PICK t \in DOMAIN ubatches[k] : \E j \in DOMAIN ubatches[k][t] : x = ubatches[k][t][j]
  BY <1>9
<1>11. t = seq_to_stream(s)
  <2>1. UbatchOK(ubatches[k])
    BY CurrentUbatch
  <2> QED BY <1>8, <1>10, <2>1 DEF UbatchOK
<1>12. before[t].pos[i] < x.pos
  BY <1>8, <1>10, <1>11 DEF AfterInv, After
<1> QED BY <1>6, <1>7, <1>8, <1>11, <1>12

\* A call that runs out of device memory takes back all it placed, and only
\* that.
LEMMA OomRestores ==
    ASSUME IInv, SlotInv, AfterInv, DecodeFails("oom"), NEW t \in Streams, NEW i \in Cells
    PROVE  SameCell(v_cells'[t], before[t], i)
<1> DEFINE k0 == done + 1
           placed == apply_cells(sinfos[k0], ubatches[k0])
           R == UNION {SeqRange(placed[t], s, CallFrom[s], -1) :
                         s \in {u \in DOMAIN CallFrom : seq_to_stream(u) = t}}
<1>1. phase = "decode" /\ v_cells' = RemoveFrom(placed, CallFrom)
  BY DEF DecodeFails
<1>2. v_cells'[t] = seq_rm(placed[t], R)
  BY <1>1 DEF RemoveFrom
<1>3. CellsInv(placed) /\ CellsInv(v_cells')
  <2>1. UbatchOK(ubatches[k0]) /\ SinfoOK(sinfos[k0], ubatches[k0]) /\ CellsInv(v_cells)
    BY <1>1, CurrentOK DEF IInv
  <2>2. CellsInv(placed)
    BY <2>1, ApplyAll
  <2> HIDE DEF placed
  <2> QED BY <1>1, <2>2, RemoveFromOK
<1>4. StreamOK(placed[t], t) /\ StreamOK(v_cells'[t], t) /\ StreamOK(v_cells[t], t)
  BY <1>3 DEF CellsInv, IInv
<1>5. /\ InSlot(sinfos[k0], t, i) =>
           Holds(placed[t], i, At(sinfos[k0][t], ubatches[k0][t])[i])
      /\ ~InSlot(sinfos[k0], t, i) => SameRow(placed[t], v_cells[t], i)
  BY <1>1, NextPlaced
<1>6. /\ SlotsApart /\ SlotsWereFree /\ Untouched /\ InPlace /\ Here = done
      /\ done \in Nat /\ k0 \in DOMAIN sinfos /\ DOMAIN sinfos = 1 .. Len(sinfos)
      /\ DOMAIN sinfos = DOMAIN ubatches
  <2>1. /\ IsSeq(sinfos) /\ IsSeq(ubatches) /\ done \in Nat
        /\ Len(sinfos) = Len(ubatches) /\ done < Len(ubatches)
    BY <1>1 DEF IInv, CallInv, UbatchesOK, IsSeq
  <2> QED BY <1>1, <2>1, SeqFacts DEF SlotInv, Here
<1> HIDE DEF placed
<1>7. ASSUME NEW k \in DOMAIN sinfos, k <= k0, InSlot(sinfos[k], t, i)
      PROVE  SameCell(v_cells'[t], before[t], i)
  <2> DEFINE x == At(sinfos[k][t], ubatches[k][t])[i]
  <2>1. Holds(placed[t], i, x)
    <3>1. CASE k = k0
      BY <1>5, <1>7, <3>1
    <3>2. CASE k # k0
      <4>1. k <= done /\ ~InSlot(sinfos[k0], t, i)
        BY <1>6, <1>7, <3>2 DEF SlotsApart
      <4>2. Holds(v_cells[t], i, x)
        BY <1>6, <1>7, <4>1 DEF InPlace
      <4> HIDE DEF x
      <4> QED BY <1>5, <4>1, <4>2 DEF Holds, SameRow
    <3> QED BY <3>1, <3>2
  <2>2. x \in UbTokens(ubatches[k]) /\ x.pos \in Nat
    <3>1. UbatchOK(ubatches[k]) /\ SinfoOK(sinfos[k], ubatches[k])
      BY <1>1, <1>6, CurrentUbatch DEF IInv, CallInv
    <3>2. /\ t \in DOMAIN ubatches[k] /\ TokensOK(ubatches[k][t], t)
          /\ sinfos[k][t] \in [1 .. Len(ubatches[k][t]) -> Cells]
      BY <1>7, <3>1, UbatchTokens DEF SinfoOK, InSlot
    <3>3. PICK j \in DOMAIN ubatches[k][t] : x = ubatches[k][t][j]
      BY <1>7, <3>2, AtType DEF TokensOK, InSlot
    <3>4. x \in UbTokens(ubatches[k]) /\ UbTokens(ubatches[k]) \subseteq Token
      BY <3>1, <3>2, <3>3, UbTokensType
    <3> QED BY <3>4 DEF Token
  <2>3. CleansUp(CallFrom, ubatches[k])
    BY <1>1, <1>6, CallFromCleansUp
  <2> HIDE DEF x
  <2>4. ASSUME NEW s \in placed[t].seq[i] PROVE <<i, s>> \in R
    <3>1. s \in DOMAIN CallFrom /\ CallFrom[s] \in Nat /\ CallFrom[s] <= x.pos
      BY <2>1, <2>2, <2>3 DEF CleansUp, Holds
    <3>2. seq_to_stream(s) = t
      BY <1>4 DEF StreamOK
    <3>3. i \in InRange(placed[t], CallFrom[s], -1) /\ i \in With(placed[t], s)
      BY <2>1, <2>2, <3>1 DEF InRange, With, lo, Holds
    <3>4. <<i, s>> \in SeqRange(placed[t], s, CallFrom[s], -1)
      BY <3>3 DEF SeqRange
    <3> QED BY <3>1, <3>2, <3>4
  <2> HIDE DEF R
  <2>5. v_cells'[t].pos[i] = -1
    BY <1>2, <1>4, <2>4, SeqRmEmpties DEF StreamOK
  <2>6. v_cells'[t].seq[i] = {}
    BY <1>4, <2>5 DEF StreamOK, CellsOK, EmptyOK
  <2>7. before[t].seq[i] = {}
    BY <1>6, <1>7 DEF SlotsWereFree
  <2> QED BY <2>6, <2>7 DEF SameCell
<1>8. ASSUME \A k \in DOMAIN sinfos : k <= k0 => ~InSlot(sinfos[k], t, i)
      PROVE  SameCell(v_cells'[t], before[t], i)
  <2>1. ~InSlot(sinfos[k0], t, i) /\ \A k \in DOMAIN sinfos : k <= done => ~InSlot(sinfos[k], t, i)
    BY <1>6, <1>8
  <2>2. SameRow(placed[t], v_cells[t], i) /\ SameCell(v_cells[t], before[t], i)
    BY <1>5, <1>6, <2>1 DEF Untouched
  <2>3. SameCell(placed[t], before[t], i)
    BY <2>2 DEF SameCell, SameRow
  <2>4. ASSUME NEW s \in placed[t].seq[i], <<i, s>> \in R PROVE FALSE
    <3>1. PICK u \in DOMAIN CallFrom : /\ seq_to_stream(u) = t
                                       /\ <<i, s>> \in SeqRange(placed[t], u, CallFrom[u], -1)
      BY <2>4
    <3>2. u = s
      BY <3>1 DEF SeqRange
    <3>3. i \in InRange(placed[t], CallFrom[s], -1)
      BY <3>1, <3>2 DEF SeqRange
    <3>4. i \in With(before[t], s) /\ placed[t].pos[i] = before[t].pos[i]
      BY <2>3, <2>4 DEF SameCell, SameRow, With
    <3>5. CallFrom[s] \in Nat /\ placed[t].pos[i] < CallFrom[s]
      BY <1>1, <3>1, <3>2, <3>4, CallFromAfter
    <3>6. placed[t].pos[i] \in Int
      BY <1>4 DEF StreamOK, CellsType
    <3> QED BY <3>3, <3>5, <3>6 DEF InRange, lo
  <2>5. placed[t] \in CellsType
    BY <1>4 DEF StreamOK
  <2> HIDE DEF R
  <2>6. SameRow(v_cells'[t], placed[t], i)
    BY <1>2, <2>4, <2>5, SeqRmNothing
  <2> QED BY <2>3, <2>6 DEF SameCell, SameRow
<1> QED BY <1>7, <1>8

\* Without a window, and when the pool refuses no graph, a decode call that
\* returns 1 leaves every sequence as it was: the rehearsal is undone cell by
\* cell, and what runs out of device memory is removed from the first position
\* of the whole batch on, which is above all the sequence had.
THEOREM ReturnOneIsRestored ==
    ASSUME SwaType = "none", "refused" \notin Failures
    PROVE  Spec => ReturnOneRestores
<1> DEFINE Restored == Contents(v_cells') = Contents(before)
<1>1. Init => AfterInv
  BY DEF Init, AfterInv
<1>2. IInv /\ TypeInv /\ SlotInv /\ AfterInv /\ [Next]_vars => AfterInv'
  BY AfterKeeps
<1>3. IInv /\ SlotInv /\ AfterInv => (ReturnsOne => Restored)
  <2> SUFFICES ASSUME IInv, SlotInv, AfterInv, ReturnsOne PROVE Restored
    OBVIOUS
  <2>1. CASE PrepareFails
    <3>1. v_cells' = v_cells /\ Prepared
      BY <2>1 DEF PrepareFails
    <3>2. \A t \in Streams, i \in Cells : SameCell(v_cells'[t], before[t], i)
      BY <3>1, RehearsalUndone
    <3> QED BY <3>2, SameContents
  <2>2. CASE DecodeFails("oom")
    <3>1. \A t \in Streams, i \in Cells : SameCell(v_cells'[t], before[t], i)
      BY <2>2, OomRestores
    <3> QED BY <3>1, SameContents
  <2>3. ~DecodeFails("refused")
    BY DEF DecodeFails
  <2> QED BY <2>1, <2>2, <2>3 DEF ReturnsOne
<1> HIDE DEF Restored
<1>4. IInv /\ TypeInv /\ SlotInv /\ AfterInv => [ReturnsOne => Restored]_vars
  BY <1>3
<1>5. Spec => [][ReturnsOne => Restored]_vars
  BY <1>1, <1>2, <1>4, SlotsInductive, PTL DEF Spec
<1> QED BY <1>5 DEF ReturnOneRestores, Restored

-----------------------------------------------------------------------------
(* Sequences without holes.                                                *)

\* The positions of s have no gap.
Gapless(c, s) ==
    \A i, j \in With(c, s), q \in Nat :
        c.pos[i] <= q /\ q <= c.pos[j] => \E k \in With(c, s) : c.pos[k] = q

Whole(cells) == \A t \in Streams, s \in Seqs : Gapless(cells[t], s)

\* Sequence s has a token at position q among the first k ubatches.
Submitted(ubs, k, t, s, q) ==
    \E l \in DOMAIN ubs :
        /\ l <= k /\ t \in DOMAIN ubs[l]
        /\ \E m \in DOMAIN ubs[l][t] : s \in ubs[l][t][m].seqs /\ ubs[l][t][m].pos = q

\* The tokens of a batch go on from what their sequences have, one position
\* after the other and in the order of the ubatches.
Consecutive(ubs, cells) ==
    \A k \in DOMAIN ubs : \A t \in DOMAIN ubs[k] : \A j \in DOMAIN ubs[k][t] :
      \A s \in ubs[k][t][j].seqs, q \in Nat :
        q < ubs[k][t][j].pos /\ (\A i \in With(cells[t], s) : cells[t].pos[i] < q)
          => Submitted(ubs, k, t, s, q)

\* The tokens of s before the k-th, one by one: every smaller number of them
\* was reached at some token of s.
LEMMA BeforeReached ==
    ASSUME NEW n \in Nat, NEW b \in [1 .. n -> SUBSET Seqs], NEW k \in 1 .. n, NEW s,
           NEW c \in Nat, c < Before(b, k, s)
    PROVE  \E m \in 1 .. n : m < k /\ s \in b[m] /\ Before(b, m, s) = c
<1> DEFINE B(m) == {j \in 1 .. (m - 1) : s \in b[j]}
           M == {m \in 1 .. n : m <= k /\ Before(b, m, s) > c}
<1>1. ASSUME NEW m \in 1 .. n
      PROVE  IsFiniteSet(B(m)) /\ Before(b, m, s) = Cardinality(B(m)) /\ Before(b, m, s) \in Nat
  <2>1. m - 1 \in Int /\ 1 \in Int
    OBVIOUS
  <2>2. IsFiniteSet(1 .. (m - 1)) /\ B(m) \in SUBSET (1 .. (m - 1))
    BY <2>1, FS_Interval
  <2>3. Before(b, m, s) = Cardinality(B(m))
    BY DEF Before
  <2> HIDE DEF B
  <2>4. IsFiniteSet(B(m))
    BY <2>2, FS_Subset
  <2> QED BY <2>3, <2>4, FS_CardinalityType
<1>2. PICK m \in M : \A j \in M : m <= j
  <2>1. M \in SUBSET Nat /\ k \in M
    OBVIOUS
  <2> HIDE DEF M
  <2> QED BY <2>1, MinOf
<1>3. m \in 1 .. n /\ m <= k /\ Before(b, m, s) > c /\ m \in Nat
  OBVIOUS
<1>4. m # 1
  <2> SUFFICES ASSUME m = 1 PROVE FALSE
    OBVIOUS
  <2>1. B(m) = {}
    OBVIOUS
  <2>2. Cardinality(B(m)) = 0
    <3> HIDE DEF B
    <3> QED BY <2>1, FS_EmptySet
  <2> HIDE DEF B
  <2> QED BY <1>1, <1>3, <2>2
<1> DEFINE p == m - 1
<1>5. p \in 1 .. n /\ p < m /\ p < k
  BY <1>3, <1>4
<1>6. p \notin M
  <2> HIDE DEF M
  <2> QED BY <1>2, <1>3, <1>5
<1>7. Before(b, p, s) <= c
  <2>1. Before(b, p, s) \in Nat
    <3> HIDE DEF B, p
    <3> QED BY <1>1, <1>5
  <2>2. ~(Before(b, p, s) > c)
    <3> HIDE DEF p
    <3> QED BY <1>5, <1>6
  <2> HIDE DEF p
  <2> QED BY <2>1, <2>2
<1>8. B(m) = IF s \in b[p] THEN B(p) \cup {p} ELSE B(p)
  <2>1. 1 .. (m - 1) = (1 .. (p - 1)) \cup {p}
    BY <1>3, <1>5
  <2> HIDE DEF p
  <2> QED BY <2>1
<1>9. p \notin B(p)
  BY <1>5
<1>10. /\ IsFiniteSet(B(p)) /\ Before(b, p, s) = Cardinality(B(p)) /\ Cardinality(B(p)) \in Nat
       /\ Before(b, m, s) = Cardinality(B(m)) /\ Cardinality(B(m)) \in Nat
  <2> HIDE DEF B, p
  <2> QED BY <1>1, <1>3, <1>5
<1> HIDE DEF B, M, p
<1>11. s \in b[p]
  BY <1>3, <1>7, <1>8, <1>10
<1>12. Cardinality(B(m)) = Cardinality(B(p)) + 1
  BY <1>8, <1>9, <1>10, <1>11, FS_AddElement
<1> QED BY <1>3, <1>5, <1>7, <1>10, <1>11, <1>12

\* The ubatches up to the k-th have the first k * n_ubatch tokens of the batch.
LEMMA SimpleReached ==
    ASSUME NEW tok, NEW b \in UnifiedBatches, NEW k \in DOMAIN split_simple(b, tok),
           NEW t \in Streams, NEW m \in DOMAIN b, m <= k * NUbatch
    PROVE  \E l \in DOMAIN split_simple(b, tok) :
              /\ l <= k /\ t \in DOMAIN split_simple(b, tok)[l]
              /\ \E j \in DOMAIN split_simple(b, tok)[l][t] :
                    split_simple(b, tok)[l][t][j] = BatchTokens(b, tok)[m]
<1> DEFINE ubs == split_simple(b, tok)
           toks == BatchTokens(b, tok)
           L == {l \in Nat : m <= l * NUbatch}
<1>1. PICK n \in 1 .. MaxBatch : b \in [1 .. n -> (SUBSET Seqs) \ {{}}]
  BY DEF UnifiedBatches
<1>2. n \in Nat /\ NUbatch \in Nat \ {0} /\ Len(b) = n /\ DOMAIN b = 1 .. n
  BY <1>1, CacheAssumption
<1> DEFINE last == (Len(b) + NUbatch - 1) \div NUbatch
<1>3. /\ DOMAIN ubs = 1 .. last
      /\ \A l \in 1 .. last : ubs[l] = [u \in Streams |->
            SubSeq(toks, (l - 1) * NUbatch + 1, Min({l * NUbatch, Len(b)}))]
  BY DEF split_simple
<1>4. last \in Int /\ k \in 1 .. last
  <2>1. last \in Int
    BY <1>2
  <2> HIDE DEF last, ubs
  <2> QED BY <1>3, <2>1 DEF ubs
<1> HIDE DEF last, ubs
<1>5. m \in Nat \ {0} /\ m <= n
  BY <1>2
<1>6. PICK l \in L : \A x \in L : l <= x
  <2>1. L \in SUBSET Nat /\ k \in L
    BY <1>4
  <2> HIDE DEF L
  <2> QED BY <2>1, MinOf
<1>7. l \in Nat /\ m <= l * NUbatch /\ l <= k
  <2>1. k \in L
    BY <1>4
  <2> QED BY <1>6, <2>1
<1>8. l # 0
  BY <1>2, <1>5, <1>7
<1> DEFINE lo1 == (l - 1) * NUbatch + 1
           hi1 == Min({l * NUbatch, Len(b)})
<1>9. l - 1 \in Nat /\ (l - 1) * NUbatch < m
  <2>1. l - 1 \in Nat /\ l - 1 < l
    BY <1>7, <1>8
  <2>2. l - 1 \notin L
    <3> HIDE DEF L
    <3> QED BY <1>6, <1>7, <2>1
  <2>3. (l - 1) * NUbatch \in Nat
    BY <1>2, <2>1
  <2> QED BY <1>5, <2>1, <2>2, <2>3
<1>10. lo1 \in Nat \ {0} /\ lo1 <= m /\ l * NUbatch \in Nat
  <2>1. (l - 1) * NUbatch \in Nat /\ l * NUbatch \in Nat
    BY <1>2, <1>7, <1>9
  <2> DEFINE z == (l - 1) * NUbatch
  <2>2. z \in Nat /\ z < m /\ lo1 = z + 1
    BY <1>9, <2>1
  <2> HIDE DEF z, lo1
  <2> QED BY <1>5, <2>1, <2>2
<1>11. hi1 \in Nat /\ m <= hi1 /\ hi1 <= n
  <2> DEFINE z == l * NUbatch
  <2>1. {z, n} \in SUBSET Nat /\ {z, n} # {} /\ m <= z /\ hi1 = Min({z, n})
    BY <1>2, <1>7, <1>10
  <2> HIDE DEF z, hi1
  <2>2. hi1 \in {z, n} /\ hi1 <= n
    BY <2>1, MinOf
  <2> QED BY <1>2, <1>5, <2>1, <2>2
<1>12. l \in DOMAIN ubs /\ ubs[l][t] = SubSeq(toks, lo1, hi1) /\ DOMAIN ubs[l] = Streams
  <2>1. l \in 1 .. last
    BY <1>4, <1>7, <1>8
  <2> HIDE DEF toks
  <2> QED BY <1>3, <2>1
<1>13. toks \in Seq(Range(toks)) /\ Len(toks) = n
  <2>1. toks \in [1 .. n -> Range(toks)]
    BY <1>2 DEF BatchTokens, Range
  <2> HIDE DEF toks
  <2> QED BY <1>2, <2>1
<1> HIDE DEF toks, lo1, hi1
<1>14. SubSeq(toks, lo1, hi1) = [i \in 1 .. (hi1 - lo1 + 1) |-> toks[i + lo1 - 1]]
  BY <1>10, <1>11, <1>13
<1> DEFINE j == m - lo1 + 1
<1>15. j \in 1 .. (hi1 - lo1 + 1) /\ j + lo1 - 1 = m
  BY <1>5, <1>10, <1>11
<1> HIDE DEF j
<1>16. j \in DOMAIN ubs[l][t] /\ ubs[l][t][j] = toks[m]
  BY <1>12, <1>14, <1>15
<1> QED BY <1>7, <1>12, <1>16 DEF ubs, toks

\* The ubatches up to the k-th take the tokens of a sequence one by one.
LEMMA EqualReached ==
    ASSUME NEW n \in [Seqs -> Nat], NEW k \in 1 .. MaxBatch, NEW t \in Seqs, NEW c \in Nat,
           c < n[t] - Left(n)[k][t]
    PROVE  \E l \in 1 .. MaxBatch :
              /\ l <= k /\ t \in EqualRun(Left(n)[l - 1]) /\ Left(n)[l - 1][t] > 0
              /\ c - (n[t] - Left(n)[l - 1][t]) + 1 \in 1 .. EqualRows(Left(n)[l - 1])
<1> DEFINE left == Left(n)
           L == {l \in 0 .. MaxBatch : c < n[t] - left[l][t]}
<1>1. MaxBatch \in Nat /\ k \in 0 .. MaxBatch
  BY CacheAssumption
<1>2. \A l \in 0 .. MaxBatch : left[l] \in [Seqs -> Nat]
  BY LeftBelow
<1>3. left[0] = n /\ \A l \in 1 .. MaxBatch : left[l] = LeftNext(left[l - 1])
  BY LeftIs
<1> HIDE DEF left
<1>4. PICK l \in L : \A x \in L : l <= x
  <2>1. L \in SUBSET Nat /\ k \in L
    BY <1>1 DEF left
  <2> HIDE DEF L
  <2> QED BY <2>1, MinOf
<1>5. l \in 0 .. MaxBatch /\ l <= k /\ c < n[t] - left[l][t]
  <2>1. k \in L
    BY <1>1 DEF left
  <2> QED BY <1>4, <2>1
<1>6. l # 0
  BY <1>3, <1>5
<1>7. l \in 1 .. MaxBatch /\ l - 1 \in 0 .. MaxBatch /\ l - 1 < l
  BY <1>1, <1>5, <1>6
<1> DEFINE g == left[l - 1]
<1>8. ~(c < n[t] - g[t])
  <2>1. l - 1 \notin L
    <3> HIDE DEF L, g
    <3> QED BY <1>1, <1>4, <1>7
  <2> QED BY <1>7, <2>1
<1>9. g \in [Seqs -> Nat] /\ left[l] = LeftNext(g) /\ left[l] \in [Seqs -> Nat]
  BY <1>2, <1>3, <1>5, <1>7
<1> HIDE DEF g
<1>10. g[t] \in Nat /\ left[l][t] \in Nat /\ n[t] \in Nat /\ left[l][t] < g[t]
  BY <1>5, <1>8, <1>9
<1>11. t \in EqualRun(g) /\ left[l][t] = g[t] - EqualRows(g)
  <2>1. ~(\A s \in Seqs : g[s] = 0)
    BY <1>10
  <2>2. left[l][t] = IF t \in EqualRun(g) THEN g[t] - EqualRows(g) ELSE g[t]
    BY <1>9, <2>1 DEF LeftNext
  <2> QED BY <1>10, <2>2
<1>12. EqualRows(g) \in Nat
  BY <1>9, <1>10, EqualRowsOK
<1>13. c - (n[t] - g[t]) + 1 \in 1 .. EqualRows(g)
  BY <1>5, <1>8, <1>10, <1>11, <1>12
<1> QED BY <1>5, <1>7, <1>10, <1>11, <1>13 DEF g, left

\* The tokens of every batch are consecutive.
LEMMA SplitsConsecutive ==
    ASSUME CellsInv(v_cells), NEW tok, NEW ubs \in Splits(tok), UbatchesOK(ubs)
    PROVE  Consecutive(ubs, v_cells)
<1> SUFFICES ASSUME NEW k \in DOMAIN ubs, NEW t \in DOMAIN ubs[k], NEW j \in DOMAIN ubs[k][t],
                    NEW s \in ubs[k][t][j].seqs, NEW q \in Nat, q < ubs[k][t][j].pos,
                    \A i \in With(v_cells[t], s) : v_cells[t].pos[i] < q
             PROVE  Submitted(ubs, k, t, s, q)
  BY DEF Consecutive
<1> DEFINE x == ubs[k][t][j]
<1>1. x \in Token /\ s \in Seqs /\ seq_to_stream(s) = t /\ t \in Streams
  <2>1. UbatchOK(ubs[k])
    BY DEF UbatchesOK
  <2>2. ubs[k][t] \in Seq(Token) /\ t \in Streams
    BY <2>1, UbatchTokens DEF TokensOK
  <2>3. x \in Token
    BY <2>2
  <2> QED BY <2>1, <2>2, <2>3 DEF UbatchOK, Token
<1>2. NextPos(s) \in Nat /\ NextPos(s) <= q
  BY <1>1, NextIsAbove
<1>3. x.pos \in Nat
  BY <1>1 DEF Token
<1> DEFINE c == q - NextPos(s)
<1>4. c \in Nat /\ c < x.pos - NextPos(s) /\ q = NextPos(s) + c
  BY <1>2, <1>3
<1> HIDE DEF c
<1>5. CASE NStream = 1
  <2>1. PICK b \in UnifiedBatches : ubs = split_simple(b, tok)
    BY <1>5 DEF Splits
  <2>2. PICK m \in DOMAIN b : /\ x = BatchTokens(b, tok)[m]
                              /\ b[m] \in (SUBSET Seqs) \ {{}} /\ m \in Nat
                              /\ m <= k * NUbatch
    BY <2>1, SimpleTokens
  <2> HIDE DEF x
  <2>3. /\ Admissible(b)
        /\ \E n \in 1 .. MaxBatch : b \in [1 .. n -> (SUBSET Seqs) \ {{}}]
    BY DEF UnifiedBatches
  <2>4. PICK n \in 1 .. MaxBatch : b \in [1 .. n -> (SUBSET Seqs) \ {{}}]
    BY <2>3
  <2>5. n \in Nat /\ DOMAIN b = 1 .. n /\ b \in [1 .. n -> SUBSET Seqs] /\ NUbatch \in Nat
    BY <2>4, CacheAssumption
  <2>6. ASSUME NEW a \in DOMAIN b, s \in b[a]
        PROVE  /\ BatchTokens(b, tok)[a].pos = NextPos(s) + Before(b, a, s)
               /\ BatchTokens(b, tok)[a].seqs = b[a]
    <3> DEFINE u == Min(b[a])
    <3>1. BatchTokens(b, tok)[a].pos = NextPos(u) + Before(b, a, u)
          /\ BatchTokens(b, tok)[a].seqs = b[a]
      BY DEF BatchTokens
    <3>2. u \in b[a]
      <4>1. b[a] \in SUBSET Nat /\ b[a] # {}
        BY <2>4, <2>5, <2>6, CellsAssumption DEF Seqs
      <4> QED BY <4>1, MinOf
    <3> HIDE DEF u
    <3>3. NextPos(s) + Before(b, a, s) = NextPos(u) + Before(b, a, u)
      BY <2>3, <2>6, <3>2 DEF Admissible
    <3> QED BY <3>1, <3>3
  <2>7. s \in b[m]
    BY <2>2 DEF BatchTokens, x
  <2>8. x.pos = NextPos(s) + Before(b, m, s) /\ Before(b, m, s) \in Nat
    <3>1. x.pos = NextPos(s) + Before(b, m, s)
      BY <2>2, <2>6, <2>7
    <3> DEFINE B == {l \in 1 .. (m - 1) : s \in b[l]}
    <3>2. IsFiniteSet(1 .. (m - 1)) /\ B \in SUBSET (1 .. (m - 1))
      <4>1. m \in Nat
        BY <2>2
      <4>2. 1 \in Int /\ m - 1 \in Int
        BY <4>1
      <4> QED BY <4>2, FS_Interval
    <3>3. Before(b, m, s) = Cardinality(B)
      BY DEF Before
    <3> HIDE DEF B
    <3>4. IsFiniteSet(B)
      BY <3>2, FS_Subset
    <3> QED BY <3>1, <3>3, <3>4, FS_CardinalityType
  <2>9. c < Before(b, m, s)
    BY <1>2, <1>4, <2>8
  <2>10. PICK a \in 1 .. n : a < m /\ s \in b[a] /\ Before(b, a, s) = c
    <3>1. m \in 1 .. n
      BY <2>5
    <3> QED BY <1>4, <2>5, <2>9, <3>1, BeforeReached
  <2>11. /\ BatchTokens(b, tok)[a].pos = q /\ s \in BatchTokens(b, tok)[a].seqs
    BY <1>4, <2>5, <2>6, <2>10
  <2>12. a \in DOMAIN b /\ a <= k * NUbatch
    <3>1. k \in Int
      BY <2>1 DEF split_simple
    <3> DEFINE z == k * NUbatch
    <3>2. z \in Int /\ m <= z
      BY <2>2, <2>5, <3>1
    <3> HIDE DEF z
    <3>3. a <= z
      BY <2>2, <2>5, <2>10, <3>2
    <3> QED BY <2>5, <3>3 DEF z
  <2>13. PICK l \in DOMAIN ubs : /\ l <= k /\ t \in DOMAIN ubs[l]
                                 /\ \E y \in DOMAIN ubs[l][t] : ubs[l][t][y] = BatchTokens(b, tok)[a]
    BY <1>1, <2>1, <2>12, SimpleReached
  <2> QED BY <2>11, <2>13 DEF Submitted
<1>6. CASE NStream # 1
  <2>1. PICK n \in StreamBatches : ubs = split_equal(n, tok)
    BY <1>6 DEF Splits
  <2> DEFINE left == Left(n)
             K == {y \in 1 .. MaxBatch : \E u \in DOMAIN n : left[y - 1][u] > 0}
             P(y, z) == NextPos(t) + n[t] - left[y - 1][t] + z - 1
  <2>2. /\ DOMAIN ubs = K
        /\ \A y \in K : /\ DOMAIN ubs[y] = EqualRun(left[y - 1])
                        /\ t \in EqualRun(left[y - 1]) =>
                             ubs[y][t] = [z \in 1 .. EqualRows(left[y - 1]) |->
                                 [pos |-> P(y, z), tok |-> tok, seqs |-> {t}]]
    BY <2>1 DEF split_equal
  <2>3. MaxBatch \in Nat
    BY CacheAssumption
  <2>4. n \in [Seqs -> Nat]
    BY <2>3 DEF StreamBatches
  <2>5. k \in K /\ k \in 1 .. MaxBatch /\ k - 1 \in 0 .. MaxBatch /\ k \in 0 .. MaxBatch
    BY <2>2, <2>3
  <2>6. left[k - 1] \in [Seqs -> Nat] /\ left[k] \in [Seqs -> Nat] /\ left[k] = LeftNext(left[k - 1])
    BY <2>4, <2>5, LeftBelow, LeftIs
  <2>7. PICK u \in Seqs : left[k - 1][u] > 0
    BY <2>4, <2>5
  <2> HIDE DEF K, P
  <2> HIDE DEF left
  <2>8. t \in EqualRun(left[k - 1]) /\ j \in 1 .. EqualRows(left[k - 1]) /\ x.pos = P(k, j) /\ s = t
    <3>1. /\ t \in EqualRun(left[k - 1])
          /\ ubs[k][t] = [z \in 1 .. EqualRows(left[k - 1]) |->
                            [pos |-> P(k, z), tok |-> tok, seqs |-> {t}]]
      BY <2>2, <2>5
    <3>2. j \in 1 .. EqualRows(left[k - 1])
      BY <3>1
    <3>3. x = [pos |-> P(k, j), tok |-> tok, seqs |-> {t}]
      BY <3>1, <3>2
    <3> QED BY <3>1, <3>2, <3>3
  <2> HIDE DEF x
  <2>9. t \in Seqs /\ EqualRows(left[k - 1]) \in Nat /\ EqualRows(left[k - 1]) <= left[k - 1][t]
    BY <2>6, <2>7, <2>8, EqualRowsOK
  <2>10. left[k][t] = left[k - 1][t] - EqualRows(left[k - 1])
    <3>1. ~(\A v \in Seqs : left[k - 1][v] = 0)
      BY <2>7
    <3> QED BY <2>6, <2>8, <2>9, <3>1 DEF LeftNext
  <2>11. c < n[t] - left[k][t]
    BY <1>2, <1>4, <2>4, <2>6, <2>8, <2>9, <2>10 DEF P
  <2>12. PICK l \in 1 .. MaxBatch :
            /\ l <= k /\ t \in EqualRun(left[l - 1]) /\ left[l - 1][t] > 0
            /\ c - (n[t] - left[l - 1][t]) + 1 \in 1 .. EqualRows(left[l - 1])
    BY <1>4, <2>4, <2>5, <2>9, <2>11, EqualReached DEF left
  <2> DEFINE m == c - (n[t] - left[l - 1][t]) + 1
  <2>13. l \in K
    BY <2>4, <2>9, <2>12 DEF K
  <2>14. left[l - 1][t] \in Nat
    <3>1. l - 1 \in 0 .. MaxBatch
      BY <2>3
    <3>2. left[l - 1] \in [Seqs -> Nat]
      BY <2>4, <3>1, LeftBelow DEF left
    <3> QED BY <2>9, <3>2
  <2>15. P(l, m) = q
    BY <1>2, <1>4, <2>4, <2>8, <2>9, <2>14 DEF P
  <2>16. m \in 1 .. EqualRows(left[l - 1])
    BY <2>12
  <2> HIDE DEF m
  <2>17. /\ l \in DOMAIN ubs /\ t \in DOMAIN ubs[l] /\ m \in DOMAIN ubs[l][t]
         /\ ubs[l][t][m] = [pos |-> q, tok |-> tok, seqs |-> {t}]
    BY <2>2, <2>12, <2>13, <2>15, <2>16
  <2>18. s \in ubs[l][t][m].seqs /\ ubs[l][t][m].pos = q
    BY <2>8, <2>17
  <2> QED BY <2>12, <2>17, <2>18 DEF Submitted
<1> QED BY <1>5, <1>6

\* Whether sequences have holes, and tokens go on from them, depends on the
\* rows only.
LEMMA WithSame ==
    ASSUME NEW c, NEW d, \A i \in Cells : SameCell(d, c, i), NEW s
    PROVE  With(d, s) = With(c, s) /\ \A i \in With(c, s) : d.pos[i] = c.pos[i]
BY DEF With, SameCell, SameRow

LEMMA WholeSame ==
    ASSUME NEW c, NEW d, Whole(c), \A t \in Streams, i \in Cells : SameCell(d[t], c[t], i)
    PROVE  Whole(d)
<1> SUFFICES ASSUME NEW t \in Streams, NEW s \in Seqs PROVE Gapless(d[t], s)
  BY DEF Whole
<1>1. Gapless(c[t], s)
  BY DEF Whole
<1>2. With(d[t], s) = With(c[t], s) /\ \A i \in With(c[t], s) : d[t].pos[i] = c[t].pos[i]
  BY WithSame
<1> QED BY <1>1, <1>2 DEF Gapless

LEMMA ConsecutiveSame ==
    ASSUME NEW ubs, UbatchesOK(ubs), NEW c, NEW d, Consecutive(ubs, c),
           \A t \in Streams, i \in Cells : SameCell(d[t], c[t], i)
    PROVE  Consecutive(ubs, d)
<1> SUFFICES ASSUME NEW k \in DOMAIN ubs, NEW t \in DOMAIN ubs[k], NEW j \in DOMAIN ubs[k][t],
                    NEW s \in ubs[k][t][j].seqs, NEW q \in Nat, q < ubs[k][t][j].pos,
                    \A i \in With(d[t], s) : d[t].pos[i] < q
             PROVE  Submitted(ubs, k, t, s, q)
  BY DEF Consecutive
<1>1. t \in Streams
  BY UbatchTokens DEF UbatchesOK
<1>2. With(d[t], s) = With(c[t], s) /\ \A i \in With(c[t], s) : d[t].pos[i] = c[t].pos[i]
  BY <1>1, WithSame
<1> QED BY <1>2 DEF Consecutive

\* Sequence s of d has the cells of K, where it has them in c, and no others.
Cut(c, d, s, K) == With(d, s) = K /\ \A i \in K : d.pos[i] = c.pos[i]

\* A sequence that keeps all its cells below some position has no hole.
LEMMA CutGapless ==
    ASSUME NEW c \in CellsType, NEW d, NEW s, NEW K \in SUBSET With(c, s), Gapless(c, s),
           Cut(c, d, s, K),
           \A i \in K, j \in With(c, s) : c.pos[j] <= c.pos[i] => j \in K
    PROVE  Gapless(d, s)
<1> SUFFICES ASSUME NEW i \in With(d, s), NEW j \in With(d, s), NEW q \in Nat,
                    d.pos[i] <= q, q <= d.pos[j]
             PROVE  \E k \in With(d, s) : d.pos[k] = q
  BY DEF Gapless
<1>1. i \in K /\ j \in K /\ c.pos[i] <= q /\ q <= c.pos[j]
  BY DEF Cut
<1>2. PICK k \in With(c, s) : c.pos[k] = q
  BY <1>1 DEF Gapless
<1>3. k \in K
  BY <1>1, <1>2
<1> QED BY <1>2, <1>3 DEF Cut

\* What seq_rm leaves of a sequence.
LEMMA SeqRmCut ==
    ASSUME NEW c \in CellsType, NEW R, NEW s \in Seqs
    PROVE  Cut(c, seq_rm(c, R), s, {i \in With(c, s) : <<i, s>> \notin R})
<1> DEFINE left == [j \in Cells |-> c.seq[j] \ {u \in Seqs : <<j, u>> \in R}]
           gone == {j \in Cells : c.seq[j] # {} /\ left[j] = {}}
           d == seq_rm(c, R)
<1>1. /\ d.pos = Fill(c.pos, gone, -1)
      /\ d.seq = Fill(left, gone, {})
  BY DEF seq_rm, Blank, CellsType
<1> HIDE DEF d
<1>2. ASSUME NEW i \in Cells
      PROVE  /\ s \in d.seq[i] <=> s \in c.seq[i] /\ <<i, s>> \notin R
             /\ s \in d.seq[i] => d.pos[i] = c.pos[i]
  <2>1. s \in left[i] <=> s \in c.seq[i] /\ <<i, s>> \notin R
    OBVIOUS
  <2>2. s \in left[i] => i \notin gone
    OBVIOUS
  <2>3. i \in gone => left[i] = {}
    OBVIOUS
  <2> HIDE DEF left, gone
  <2> QED BY <1>1, <2>1, <2>2, <2>3 DEF Fill
<1> QED BY <1>2 DEF Cut, With, d

\* Removing the positions of some sequences from given ones on leaves no hole.
LEMMA RemoveWhole ==
    ASSUME NEW cells, CellsInv(cells), Whole(cells), NEW from,
           \A u \in DOMAIN from : from[u] \in Int
    PROVE  Whole(RemoveFrom(cells, from))
<1> SUFFICES ASSUME NEW t \in Streams, NEW s \in Seqs PROVE Gapless(RemoveFrom(cells, from)[t], s)
  BY DEF Whole
<1> DEFINE c == cells[t]
           R == UNION {SeqRange(c, u, from[u], -1) : u \in {v \in DOMAIN from : seq_to_stream(v) = t}}
           K == {i \in With(c, s) : <<i, s>> \notin R}
<1>1. RemoveFrom(cells, from)[t] = seq_rm(c, R)
  BY DEF RemoveFrom
<1>2. c \in CellsType /\ CellsOK(c) /\ Gapless(c, s)
  BY DEF CellsInv, StreamOK, Whole
<1> HIDE DEF c
<1>3. Cut(c, seq_rm(c, R), s, K)
  BY <1>2, SeqRmCut
<1>4. ASSUME NEW i \in K, NEW j \in With(c, s), c.pos[j] <= c.pos[i], <<j, s>> \in R PROVE FALSE
  <2>1. PICK u \in DOMAIN from : seq_to_stream(u) = t /\ <<j, s>> \in SeqRange(c, u, from[u], -1)
    BY <1>4
  <2>2. u = s /\ j \in InRange(c, from[s], -1)
    BY <2>1 DEF SeqRange
  <2>3. c.pos[i] \in Nat /\ c.pos[j] \in Nat /\ i \in Cells
    BY <1>2, OccupiedNotEmpty DEF With
  <2>4. c.pos[j] >= lo(from[s]) /\ from[s] \in Int
    BY <2>1, <2>2 DEF InRange
  <2>5. c.pos[i] >= lo(from[s])
    BY <1>4, <2>3, <2>4 DEF lo
  <2>6. i \in InRange(c, from[s], -1)
    BY <2>3, <2>5 DEF InRange
  <2>7. <<i, s>> \in SeqRange(c, s, from[s], -1)
    BY <2>6 DEF SeqRange
  <2>8. <<i, s>> \in R
    BY <2>1, <2>2, <2>7
  <2> QED BY <2>8
<1>5. \A i \in K, j \in With(c, s) : c.pos[j] <= c.pos[i] => j \in K
  BY <1>4
<1>6. K \in SUBSET With(c, s)
  OBVIOUS
<1> HIDE DEF K, R
<1> QED BY <1>1, <1>2, <1>3, <1>5, <1>6, CutGapless

\* The saved positions have no gap.
SavedWhole ==
    \A a, b \in DOMAIN saved, q \in Nat :
        saved[a].pos <= q /\ q <= saved[b].pos => \E m \in DOMAIN saved : saved[m].pos = q

HolesInv ==
    /\ phase = "idle" => Whole(v_cells)
    /\ phase # "idle" => Whole(before) /\ Consecutive(ubatches, before)
    /\ SavedWhole

\* The cells of a stream once the next ubatch is placed: those that the
\* sequence had, and one for each token computed so far.
LEMMA PlacedCells ==
    ASSUME IInv, SlotInv, phase = "decode", NEW t \in Streams, NEW s \in Seqs
    PROVE  LET d == apply_cells(sinfos[done + 1], ubatches[done + 1])[t]
           IN  /\ \A i \in With(d, s) :
                    \/ i \in With(before[t], s) /\ d.pos[i] = before[t].pos[i]
                    \/ \E k \in DOMAIN ubatches :
                         /\ k <= done + 1 /\ t \in DOMAIN ubatches[k]
                         /\ \E j \in DOMAIN ubatches[k][t] :
                              s \in ubatches[k][t][j].seqs /\ d.pos[i] = ubatches[k][t][j].pos
               /\ \A i \in With(before[t], s) : i \in With(d, s) /\ d.pos[i] = before[t].pos[i]
               /\ \A q : Submitted(ubatches, done + 1, t, s, q) => \E i \in With(d, s) : d.pos[i] = q
<1> DEFINE k0 == done + 1
           d == apply_cells(sinfos[k0], ubatches[k0])[t]
<1>1. /\ SlotsApart /\ SlotsWereFree /\ Untouched /\ InPlace /\ Here = done
      /\ done \in Nat /\ k0 \in DOMAIN sinfos /\ DOMAIN sinfos = 1 .. Len(sinfos)
      /\ DOMAIN sinfos = DOMAIN ubatches
  <2>1. /\ IsSeq(sinfos) /\ IsSeq(ubatches) /\ done \in Nat
        /\ Len(sinfos) = Len(ubatches) /\ done < Len(ubatches)
    BY DEF IInv, CallInv, UbatchesOK, IsSeq
  <2> QED BY <2>1, SeqFacts DEF SlotInv, Here
<1>2. \A i \in Cells : /\ InSlot(sinfos[k0], t, i) =>
                            Holds(d, i, At(sinfos[k0][t], ubatches[k0][t])[i])
                       /\ ~InSlot(sinfos[k0], t, i) => SameRow(d, v_cells[t], i)
  BY NextPlaced
<1>3. \A k \in DOMAIN sinfos : UbatchOK(ubatches[k]) /\ SinfoOK(sinfos[k], ubatches[k])
  BY <1>1, CurrentUbatch DEF IInv, CallInv
<1> HIDE DEF d
<1>4. ASSUME NEW k \in DOMAIN sinfos, k <= k0, NEW i \in Cells, InSlot(sinfos[k], t, i)
      PROVE  Holds(d, i, At(sinfos[k][t], ubatches[k][t])[i])
  <2> DEFINE x == At(sinfos[k][t], ubatches[k][t])[i]
  <2>1. CASE k = k0
    BY <1>2, <1>4, <2>1
  <2>2. CASE k # k0
    <3>1. k <= done /\ ~InSlot(sinfos[k0], t, i)
      BY <1>1, <1>4, <2>2 DEF SlotsApart
    <3>2. Holds(v_cells[t], i, x)
      BY <1>1, <1>4, <3>1 DEF InPlace
    <3> HIDE DEF x
    <3>3. Holds(d, i, x)
      BY <1>2, <3>1, <3>2 DEF Holds, SameRow
    <3> QED BY <3>3 DEF x
  <2> QED BY <2>1, <2>2
<1>5. ASSUME NEW i \in Cells, \A k \in DOMAIN sinfos : k <= k0 => ~InSlot(sinfos[k], t, i)
      PROVE  SameCell(d, before[t], i)
  <2>1. ~InSlot(sinfos[k0], t, i) /\ \A k \in DOMAIN sinfos : k <= done => ~InSlot(sinfos[k], t, i)
    BY <1>1, <1>5
  <2>2. SameRow(d, v_cells[t], i) /\ SameCell(v_cells[t], before[t], i)
    BY <1>1, <1>2, <2>1 DEF Untouched
  <2> QED BY <2>2 DEF SameCell, SameRow
<1>6. ASSUME NEW i \in With(d, s)
      PROVE  \/ i \in With(before[t], s) /\ d.pos[i] = before[t].pos[i]
             \/ \E k \in DOMAIN ubatches :
                  /\ k <= k0 /\ t \in DOMAIN ubatches[k]
                  /\ \E j \in DOMAIN ubatches[k][t] :
                       s \in ubatches[k][t][j].seqs /\ d.pos[i] = ubatches[k][t][j].pos
  <2>1. i \in Cells /\ s \in d.seq[i]
    BY DEF With
  <2>2. CASE \A k \in DOMAIN sinfos : k <= k0 => ~InSlot(sinfos[k], t, i)
    <3>1. SameCell(d, before[t], i)
      BY <1>5, <2>1, <2>2
    <3> QED BY <2>1, <3>1 DEF SameCell, SameRow, With
  <2>3. ASSUME NEW k \in DOMAIN sinfos, k <= k0, InSlot(sinfos[k], t, i)
        PROVE  \E j \in DOMAIN ubatches[k][t] :
                  /\ s \in ubatches[k][t][j].seqs /\ d.pos[i] = ubatches[k][t][j].pos
                  /\ t \in DOMAIN ubatches[k]
    <3>1. /\ t \in DOMAIN ubatches[k] /\ TokensOK(ubatches[k][t], t)
          /\ sinfos[k][t] \in [1 .. Len(ubatches[k][t]) -> Cells]
      BY <1>3, <2>3, UbatchTokens DEF SinfoOK, InSlot
    <3>2. PICK j \in DOMAIN ubatches[k][t] : At(sinfos[k][t], ubatches[k][t])[i] = ubatches[k][t][j]
      BY <2>3, <3>1, AtType DEF TokensOK, InSlot
    <3>3. Holds(d, i, ubatches[k][t][j])
      BY <1>4, <2>1, <2>3, <3>2
    <3> QED BY <2>1, <3>1, <3>3 DEF Holds
  <2> QED BY <1>1, <2>2, <2>3
<1>7. ASSUME NEW i \in With(before[t], s)
      PROVE  i \in With(d, s) /\ d.pos[i] = before[t].pos[i]
  <2>1. i \in Cells /\ before[t].seq[i] # {}
    BY DEF With
  <2>2. \A k \in DOMAIN sinfos : k <= k0 => ~InSlot(sinfos[k], t, i)
    BY <1>1, <2>1 DEF SlotsWereFree
  <2>3. SameCell(d, before[t], i)
    BY <1>5, <2>1, <2>2
  <2> QED BY <2>1, <2>3 DEF SameCell, SameRow, With
<1>8. ASSUME NEW q, Submitted(ubatches, k0, t, s, q)
      PROVE  \E i \in With(d, s) : d.pos[i] = q
  <2>1. PICK l \in DOMAIN sinfos :
           /\ l <= k0 /\ t \in DOMAIN ubatches[l]
           /\ \E m \in DOMAIN ubatches[l][t] : s \in ubatches[l][t][m].seqs /\ ubatches[l][t][m].pos = q
    BY <1>1, <1>8 DEF Submitted
  <2>2. PICK m \in DOMAIN ubatches[l][t] : s \in ubatches[l][t][m].seqs /\ ubatches[l][t][m].pos = q
    BY <2>1
  <2> DEFINE si == sinfos[l]
             toks == ubatches[l][t]
             i == si[t][m]
  <2>3. /\ t \in DOMAIN si /\ toks \in Seq(Token) /\ si[t] \in [1 .. Len(toks) -> Cells]
        /\ m \in DOMAIN si[t]
    BY <1>3, <2>1, <2>2, UbatchTokens DEF SinfoOK, TokensOK
  <2>4. i \in Cells /\ i \in Range(si[t]) /\ InSlot(si, t, i)
    BY <2>3 DEF Range, InSlot
  <2>5. At(si[t], toks)[i] = toks[m]
    <3>1. PICK j \in DOMAIN si[t] : j = CHOOSE a \in DOMAIN si[t] : si[t][a] = i
      BY <2>3
    <3>2. si[t][j] = i
      BY <2>3, <3>1
    <3>3. j = m
      BY <1>1, <2>3, <3>2 DEF SlotsApart
    <3> HIDE DEF i
    <3> QED BY <2>4, <3>1, <3>3 DEF At
  <2> HIDE DEF i
  <2>6. Holds(d, i, toks[m])
    BY <1>4, <2>1, <2>4, <2>5
  <2>7. i \in With(d, s) /\ d.pos[i] = q
    BY <2>2, <2>4, <2>6 DEF Holds, With
  <2> QED BY <2>7
<1> QED BY <1>6, <1>7, <1>8 DEF d

\* The ubatches computed so far leave no hole.
LEMMA PlacedWhole ==
    ASSUME IInv, SlotInv, AfterInv, HolesInv, phase = "decode"
    PROVE  Whole(apply_cells(sinfos[done + 1], ubatches[done + 1]))
<1> SUFFICES ASSUME NEW t \in Streams, NEW s \in Seqs
             PROVE  Gapless(apply_cells(sinfos[done + 1], ubatches[done + 1])[t], s)
  BY DEF Whole
<1> DEFINE d == apply_cells(sinfos[done + 1], ubatches[done + 1])[t]
           New(i) == \E k \in DOMAIN ubatches :
                        /\ k <= done + 1 /\ t \in DOMAIN ubatches[k]
                        /\ \E j \in DOMAIN ubatches[k][t] :
                             s \in ubatches[k][t][j].seqs /\ d.pos[i] = ubatches[k][t][j].pos
<1>1. /\ \A i \in With(d, s) :
           (i \in With(before[t], s) /\ d.pos[i] = before[t].pos[i]) \/ New(i)
      /\ \A i \in With(before[t], s) : i \in With(d, s) /\ d.pos[i] = before[t].pos[i]
      /\ \A q : Submitted(ubatches, done + 1, t, s, q) => \E i \in With(d, s) : d.pos[i] = q
  BY PlacedCells
<1>2. Gapless(before[t], s) /\ Consecutive(ubatches, before) /\ After(ubatches, before)
  BY DEF HolesInv, AfterInv, Whole
<1>3. StreamOK(d, t)
  BY CurrentApplied DEF CellsInv
<1> HIDE DEF d
<1>4. \A i \in With(d, s) : d.pos[i] \in Nat
  BY <1>3, OccupiedNotEmpty DEF StreamOK
<1>5. ASSUME NEW i \in With(d, s), New(i), NEW m \in With(before[t], s)
      PROVE  before[t].pos[m] < d.pos[i]
  BY <1>2, <1>5 DEF After
<1> SUFFICES ASSUME NEW i \in With(d, s), NEW j \in With(d, s), NEW q \in Nat,
                    d.pos[i] <= q, q <= d.pos[j]
             PROVE  \E k \in With(d, s) : d.pos[k] = q
  BY DEF Gapless, d
<1>6. ASSUME NEW m \in With(before[t], s), ~(before[t].pos[m] < q)
      PROVE  \E k \in With(d, s) : d.pos[k] = q
  <2>1. d.pos[m] = before[t].pos[m] /\ m \in With(d, s)
    BY <1>1
  <2>2. before[t].pos[m] \in Nat /\ q <= before[t].pos[m] /\ d.pos[i] \in Nat
    BY <1>4, <1>6, <2>1
  <2>3. ~New(i)
    <3> HIDE DEF New
    <3>1. New(i) => before[t].pos[m] < d.pos[i]
      BY <1>5
    <3> QED BY <2>2, <3>1
  <2>4. i \in With(before[t], s) /\ d.pos[i] = before[t].pos[i]
    <3> HIDE DEF New
    <3> QED BY <1>1, <2>3
  <2>5. PICK k \in With(before[t], s) : before[t].pos[k] = q
    BY <1>2, <2>2, <2>4 DEF Gapless
  <2> QED BY <1>1, <2>5
<1>7. ASSUME \A m \in With(before[t], s) : before[t].pos[m] < q
      PROVE  \E k \in With(d, s) : d.pos[k] = q
  <2>1. New(j)
    <3>1. ~(j \in With(before[t], s) /\ d.pos[j] = before[t].pos[j])
      BY <1>4, <1>7
    <3> HIDE DEF New
    <3> QED BY <1>1, <3>1
  <2>2. CASE d.pos[j] = q
    BY <2>2
  <2>3. CASE d.pos[j] # q
    <3>1. q < d.pos[j]
      BY <1>4, <2>3
    <3>2. PICK k \in DOMAIN ubatches :
             /\ k <= done + 1 /\ t \in DOMAIN ubatches[k]
             /\ \E a \in DOMAIN ubatches[k][t] :
                  s \in ubatches[k][t][a].seqs /\ d.pos[j] = ubatches[k][t][a].pos
      BY <2>1
    <3>3. Submitted(ubatches, k, t, s, q)
      BY <1>2, <1>7, <3>1, <3>2 DEF Consecutive
    <3>4. Submitted(ubatches, done + 1, t, s, q)
      <4>1. DOMAIN ubatches = 1 .. Len(ubatches) /\ Len(ubatches) \in Nat /\ done \in Nat
        BY CurrentUbatch DEF IInv, CallInv
      <4> QED BY <3>2, <3>3, <4>1 DEF Submitted
    <3> QED BY <1>1, <3>4
  <2> QED BY <2>2, <2>3
<1> QED BY <1>6, <1>7

\* What a failed ubatch or call removes starts at a position.
LEMMA FromIsPos ==
    ASSUME IInv, phase = "decode"
    PROVE  /\ \A s \in DOMAIN FailedFrom(ubatches[done + 1]) : FailedFrom(ubatches[done + 1])[s] \in Int
           /\ \A s \in DOMAIN CallFrom : CallFrom[s] \in Int
<1> DEFINE ub == ubatches[done + 1]
           toks == UNION {UbTokens(ubatches[j]) : j \in DOMAIN ubatches}
<1>1. \A k \in DOMAIN ubatches : UbTokens(ubatches[k]) \subseteq Token
  BY CurrentUbatch, UbTokensType
<1>2. UbTokens(ub) \subseteq Token
  BY <1>1, CurrentOK
<1>3. toks \subseteq Token
  BY <1>1
<1>4. ASSUME NEW X \in SUBSET Token, X # {} PROVE Min({x.pos : x \in X}) \in Int
  <2> DEFINE P == {x.pos : x \in X}
  <2>1. P \in SUBSET Nat /\ P # {}
    BY <1>4 DEF Token
  <2> HIDE DEF P
  <2>2. Min(P) \in P /\ P \subseteq Nat
    BY <2>1, MinOf
  <2>3. Min(P) \in Nat
    BY <2>2
  <2> QED BY <2>3 DEF P
<1>5. ASSUME NEW s \in DOMAIN FailedFrom(ub) PROVE FailedFrom(ub)[s] \in Int
  <2> DEFINE X == {y \in UbTokens(ub) : Min(y.seqs) = s}
  <2>1. X \in SUBSET Token /\ X # {} /\ FailedFrom(ub)[s] = Min({x.pos : x \in X})
    BY <1>2 DEF FailedFrom
  <2> HIDE DEF X
  <2> QED BY <1>4, <2>1
<1>6. ASSUME NEW s \in DOMAIN CallFrom PROVE CallFrom[s] \in Int
  <2> DEFINE X == {y \in toks : s \in y.seqs}
  <2>1. CallFrom = [u \in UNION {x.seqs : x \in toks} |->
                      Min({x.pos : x \in {y \in toks : u \in y.seqs}})]
    BY DEF CallFrom
  <2> HIDE DEF toks
  <2>2. X \in SUBSET Token /\ X # {} /\ CallFrom[s] = Min({x.pos : x \in X})
    BY <1>3, <2>1
  <2> HIDE DEF X
  <2> QED BY <1>4, <2>2
<1> QED BY <1>5, <1>6

\* Every step of a decode call leaves no hole.
LEMMA DecodeWhole ==
    ASSUME IInv, SlotInv, AfterInv, HolesInv, Decode
    PROVE  HolesInv'
<1>0. saved' = saved
  BY DEF Decode, DecodeBegin, PrepareUbatch, PrepareEnd, RestoreUbatch, PrepareSucceeds,
         PrepareRetries, PrepareFails, ReserveFails, DecodeUbatch, DecodeFails
<1>1. SavedWhole'
  BY <1>0 DEF HolesInv, SavedWhole
<1>2. ASSUME phase # "idle", phase' # "idle", UNCHANGED <<ubatches, before>> PROVE HolesInv'
  BY <1>1, <1>2 DEF HolesInv
<1>3. ASSUME phase' = "idle", Whole(v_cells') PROVE HolesInv'
  BY <1>1, <1>3 DEF HolesInv
<1>4. ASSUME NEW tok, NEW ubs \in Splits(tok), NEW ok, DecodeBegin(ubs, ok) PROVE HolesInv'
  <2>1. /\ UbatchesOK(ubs) /\ memory_update(ok) /\ ubatches' = ubs /\ before' = v_cells'
        /\ phase = "idle" /\ phase' = "prepare"
    BY <1>4 DEF DecodeBegin
  <2>2. CellsInv(v_cells) /\ Whole(v_cells)
    BY <2>1 DEF IInv, HolesInv
  <2>3. Consecutive(ubs, v_cells)
    BY <2>1, <2>2, SplitsConsecutive
  <2>4. \A t \in Streams, i \in Cells : SameCell(v_cells'[t], v_cells[t], i)
    BY <2>1, <2>2, UpdateRows DEF SameCell
  <2>5. Consecutive(ubs, v_cells') /\ Whole(v_cells')
    BY <2>1, <2>2, <2>3, <2>4, ConsecutiveSame, WholeSame
  <2>6. Consecutive(ubatches', before') /\ Whole(before')
    BY <2>1, <2>5
  <2> QED BY <1>1, <2>1, <2>6 DEF HolesInv
<1>5. ASSUME NEW ok, PrepareRetries(ok) PROVE HolesInv'
  <2>1. /\ Prepared /\ memory_update(ok) /\ ubatches' = ubatches /\ before' = v_cells'
        /\ phase # "idle" /\ phase' = "prepare"
    BY <1>5 DEF PrepareRetries, Prepared
  <2>2. UbatchesOK(ubatches) /\ CellsInv(v_cells)
    BY <2>1 DEF IInv, CallInv
  <2>3. \A t \in Streams, i \in Cells : SameCell(v_cells[t], before[t], i)
    BY <2>1, RehearsalUndone
  <2>4. \A t \in Streams, i \in Cells : SameRow(v_cells'[t], v_cells[t], i)
    BY <2>1, <2>2, UpdateRows
  <2>5. \A t \in Streams, i \in Cells : SameCell(v_cells'[t], before[t], i)
    BY <2>3, <2>4 DEF SameCell, SameRow
  <2>6. Consecutive(ubatches, before) /\ Whole(before)
    BY <2>1 DEF HolesInv
  <2>7. Consecutive(ubatches, v_cells') /\ Whole(v_cells')
    BY <2>2, <2>5, <2>6, ConsecutiveSame, WholeSame
  <2>8. Consecutive(ubatches', before') /\ Whole(before')
    BY <2>1, <2>7
  <2> QED BY <1>1, <2>1, <2>8 DEF HolesInv
<1>6. CASE PrepareUbatch \/ PrepareEnd \/ RestoreUbatch \/ PrepareSucceeds
  BY <1>2, <1>6 DEF PrepareUbatch, PrepareEnd, RestoreUbatch, PrepareSucceeds, Prepared
<1>7. CASE PrepareFails
  <2>1. v_cells' = v_cells /\ Prepared /\ phase' = "idle" /\ phase # "idle"
    BY <1>7 DEF PrepareFails, CallEnds, Prepared
  <2>2. \A t \in Streams, i \in Cells : SameCell(v_cells'[t], before[t], i)
    BY <2>1, RehearsalUndone
  <2>3. Whole(before)
    BY <2>1 DEF HolesInv
  <2>4. Whole(v_cells')
    BY <2>2, <2>3, WholeSame
  <2> QED BY <1>3, <2>1, <2>4
<1>8. CASE ReserveFails
  <2>1. v_cells' = v_cells /\ phase = "decode" /\ done = 0 /\ phase' = "idle"
    BY <1>8 DEF ReserveFails, CallEnds
  <2>2. Untouched /\ Here = 0 /\ DOMAIN sinfos = 1 .. Len(sinfos) /\ Len(sinfos) \in Nat
    <3>1. IsSeq(sinfos)
      BY DEF IInv, CallInv
    <3> QED BY <2>1, <3>1, SeqFacts DEF SlotInv, Here
  <2>3. \A k \in DOMAIN sinfos : ~(k <= Here)
    BY <2>2
  <2>4. \A t \in Streams, i \in Cells : SameCell(v_cells'[t], before[t], i)
    BY <2>1, <2>2, <2>3 DEF Untouched
  <2>5. Whole(before)
    BY <2>1 DEF HolesInv
  <2>6. Whole(v_cells')
    BY <2>4, <2>5, WholeSame
  <2> QED BY <1>3, <2>1, <2>6
<1>9. CASE DecodeUbatch
  <2>1. /\ phase = "decode" /\ v_cells' = apply_cells(sinfos[done + 1], ubatches[done + 1])
        /\ phase' = "idle" \/ UNCHANGED <<phase, ubatches, before>>
    BY <1>9 DEF DecodeUbatch, CallEnds
  <2>2. Whole(v_cells')
    BY <2>1, PlacedWhole
  <2> QED BY <1>2, <1>3, <2>1, <2>2
<1>10. ASSUME NEW how \in Failures, DecodeFails(how) PROVE HolesInv'
  <2> DEFINE placed == apply_cells(sinfos[done + 1], ubatches[done + 1])
             from == IF how = "oom" THEN CallFrom ELSE FailedFrom(ubatches[done + 1])
  <2>1. phase = "decode" /\ v_cells' = RemoveFrom(placed, from) /\ phase' = "idle"
    BY <1>10 DEF DecodeFails, CallEnds
  <2>2. CellsInv(placed) /\ Whole(placed)
    BY <2>1, CurrentApplied, PlacedWhole
  <2>3. \A s \in DOMAIN from : from[s] \in Int
    BY <2>1, FromIsPos
  <2> HIDE DEF placed, from
  <2>4. Whole(v_cells')
    BY <2>1, <2>2, <2>3, RemoveWhole
  <2> QED BY <1>3, <2>1, <2>4
<1> QED BY <1>4, <1>5, <1>6, <1>7, <1>8, <1>9, <1>10 DEF Decode

\* Dividing positions without a gap leaves no gap.
LEMMA DivBetween ==
    ASSUME NEW a \in Nat, NEW b \in Nat, NEW q \in Nat, NEW d \in Nat \ {0},
           a \div d <= q, q <= b \div d, a \div d # q
    PROVE  q * d \in Nat /\ a <= q * d /\ q * d <= b /\ (q * d) \div d = q
<1> DEFINE x == a \div d
           y == b \div d
           r == a % d
           w == b % d
<1>1. x \in Int /\ r \in 0 .. (d - 1) /\ a = d * x + r
  OBVIOUS
<1>2. y \in Int /\ w \in 0 .. (d - 1) /\ b = d * y + w
  OBVIOUS
<1> HIDE DEF x, y, r, w
<1>3. x < q /\ q <= y
  BY <1>1 DEF x, y
<1>4. d * x + d <= d * q /\ d * q <= d * y
  <2>1. x + 1 <= q
    BY <1>1, <1>3
  <2>2. d * (x + 1) <= d * q
    BY <1>1, <2>1
  <2>3. d * (x + 1) = d * x + d
    BY <1>1
  <2>4. d * q <= d * y
    BY <1>2, <1>3
  <2> QED BY <2>2, <2>3, <2>4
<1>5. q * d = d * q /\ d * q \in Nat /\ d * x \in Int /\ d * y \in Int
  BY <1>1, <1>2
<1>6. a <= q * d /\ q * d <= b
  <2> DEFINE u == d * x
             v == d * y
             z == d * q
  <2>1. u \in Int /\ v \in Int /\ z \in Nat /\ u + d <= z /\ z <= v /\ a = u + r /\ b = v + w
    BY <1>1, <1>2, <1>4, <1>5
  <2> HIDE DEF u, v, z
  <2>2. a <= z /\ z <= b
    BY <1>1, <1>2, <2>1
  <2> QED BY <1>5, <2>2 DEF z
<1>7. (q * d) \div d = q
  OBVIOUS
<1> QED BY <1>5, <1>6, <1>7

\* The calls under which sequences get no holes: clients cut suffixes and move
\* whole sequences, and seq_add and seq_div, which move a cell for all its
\* sequences, are not used on a cache that shares cells.
WholeCalls ==
    /\ ~EditMiddle
    /\ NStream = NSeqs \/ Calls \cap {"add", "div"} = {}

\* With a stream for each sequence no two sequences meet.
LEMMA OwnStream ==
    ASSUME NStream = NSeqs, NEW s \in Seqs, NEW u \in Seqs, seq_to_stream(s) = seq_to_stream(u)
    PROVE  s = u
BY CellsAssumption DEF seq_to_stream, Seqs

\* A sequence that has no cell has no hole.
LEMMA NoneGapless == ASSUME NEW c, NEW s, With(c, s) = {} PROVE Gapless(c, s)
BY DEF Gapless

\* A sequence that keeps its cells has no new hole.
LEMMA SameGapless ==
    ASSUME NEW c, NEW d, NEW s, Gapless(c, s), Cut(c, d, s, With(c, s))
    PROVE  Gapless(d, s)
BY DEF Gapless, Cut

\* Replacing the cells of one stream.
LEMMA OneWhole ==
    ASSUME v_cells \in [Streams -> CellsType], Whole(v_cells), NEW t \in Streams, NEW d,
           \A s \in Seqs : Gapless(d, s), v_cells' = [v_cells EXCEPT ![t] = d]
    PROVE  Whole(v_cells')
<1> SUFFICES ASSUME NEW u \in Streams, NEW s \in Seqs PROVE Gapless(v_cells'[u], s)
  BY DEF Whole
<1>1. CASE u = t
  <2>1. v_cells'[u] = d
    BY <1>1
  <2> QED BY <2>1
<1>2. CASE u # t
  <2>1. v_cells'[u] = v_cells[u]
    BY <1>2
  <2> QED BY <2>1 DEF Whole
<1> QED BY <1>1, <1>2

\* seq_rm of a sequence from a position on.
LEMMA SuffixGapless ==
    ASSUME NEW c \in CellsType, CellsOK(c), NEW s \in Seqs, NEW p0 \in Int, NEW p1 \in Int, p1 < 0,
           NEW u \in Seqs, Gapless(c, u)
    PROVE  Gapless(seq_rm(c, SeqRange(c, s, p0, p1)), u)
<1> DEFINE R == SeqRange(c, s, p0, p1)
           K == {i \in With(c, u) : <<i, u>> \notin R}
<1>1. Cut(c, seq_rm(c, R), u, K)
  BY SeqRmCut
<1>2. ASSUME NEW i \in K, NEW j \in With(c, u), c.pos[j] <= c.pos[i], <<j, u>> \in R PROVE FALSE
  <2>1. u = s /\ j \in InRange(c, p0, p1)
    BY <1>2 DEF SeqRange
  <2>2. c.pos[i] \in Nat /\ c.pos[j] \in Nat /\ i \in Cells /\ c.pos[j] >= lo(p0)
    BY <2>1, OccupiedNotEmpty DEF With, InRange
  <2>3. i \in InRange(c, p0, p1)
    BY <1>2, <2>2 DEF InRange, lo
  <2>4. <<i, u>> \in R
    BY <2>1, <2>3 DEF SeqRange
  <2> QED BY <2>4
<1>3. \A i \in K, j \in With(c, u) : c.pos[j] <= c.pos[i] => j \in K
  BY <1>2
<1>4. K \in SUBSET With(c, u)
  OBVIOUS
<1> HIDE DEF K, R
<1>5. Gapless(seq_rm(c, R), u)
  BY <1>1, <1>3, <1>4, CutGapless
<1> QED BY <1>5 DEF R

\* rm of every cell from a position on.
LEMMA RmAnyGapless ==
    ASSUME NEW c \in CellsType, CellsOK(c), NEW p0 \in Int, NEW p1 \in Int, p1 < 0,
           NEW u \in Seqs, Gapless(c, u)
    PROVE  Gapless(rm(c, InRange(c, p0, p1)), u)
<1> DEFINE I == InRange(c, p0, p1)
           K == With(c, u) \ I
           d == rm(c, I)
<1>1. \A i \in Cells : /\ d.pos[i] = IF i \in I THEN -1 ELSE c.pos[i]
                       /\ d.seq[i] = IF i \in I THEN {} ELSE c.seq[i]
  BY InRangeType, RmEffect
<1> HIDE DEF d
<1>2. Cut(c, d, u, K)
  BY <1>1 DEF Cut, With
<1>3. ASSUME NEW i \in K, NEW j \in With(c, u), c.pos[j] <= c.pos[i], j \in I PROVE FALSE
  <2>1. c.pos[i] \in Nat /\ c.pos[j] \in Nat /\ i \in Cells /\ c.pos[j] >= lo(p0)
    BY <1>3, OccupiedNotEmpty DEF With, InRange
  <2>2. i \in I
    BY <1>3, <2>1 DEF InRange, lo
  <2> QED BY <2>2
<1>4. \A i \in K, j \in With(c, u) : c.pos[j] <= c.pos[i] => j \in K
  BY <1>3
<1>5. K \in SUBSET With(c, u)
  OBVIOUS
<1> HIDE DEF K
<1> QED BY <1>2, <1>4, <1>5, CutGapless DEF d

\* A whole sequence given to one that has nothing.
LEMMA CopyGapless ==
    ASSUME NEW c \in CellsType, CellsOK(c), NEW s \in Seqs, NEW dst \in Seqs, With(c, dst) = {},
           NEW p0 \in Int, lo(p0) = 0, NEW p1 \in Int, p1 < 0,
           NEW u \in Seqs, \A v \in Seqs : Gapless(c, v)
    PROVE  Gapless(seq_add(c, InRange(c, p0, p1) \cap With(c, s), dst), u)
<1> DEFINE I == InRange(c, p0, p1) \cap With(c, s)
           d == seq_add(c, I, dst)
<1>1. I = With(c, s)
  <2>1. \A i \in With(c, s) : i \in Cells /\ c.pos[i] \in Nat
    BY OccupiedNotEmpty DEF With
  <2>2. With(c, s) \subseteq InRange(c, p0, p1)
    BY <2>1 DEF InRange
  <2> QED BY <2>2
<1>2. d.pos = c.pos /\ \A i \in Cells : d.seq[i] = IF i \in I THEN c.seq[i] \cup {dst} ELSE c.seq[i]
  BY DEF seq_add, CellsType
<1> HIDE DEF d, I
<1>3. CASE u # dst
  <2>1. Cut(c, d, u, With(c, u))
    BY <1>2, <1>3 DEF Cut, With
  <2> QED BY <2>1, SameGapless DEF d, I
<1>4. CASE u = dst
  <2>1. With(d, u) = With(c, s)
    BY <1>1, <1>2, <1>4 DEF With
  <2>2. Gapless(c, s)
    OBVIOUS
  <2>3. Gapless(d, u)
    BY <1>2, <2>1, <2>2 DEF Gapless
  <2> QED BY <2>3 DEF d, I
<1> QED BY <1>3, <1>4

\* A sequence copied to a stream of its own.
LEMMA CopyCellsGapless ==
    ASSUME NEW c \in CellsType, CellsOK(c), NEW s \in Seqs, NEW dst \in Seqs, Gapless(c, s),
           NEW u \in Seqs
    PROVE  Gapless(CopyCells(c, s, dst), u)
<1> DEFINE I == With(c, s)
           at == [i \in I |-> [pos |-> c.pos[i], tok |-> c.tok[i], seqs |-> {dst}]]
           d == place(reset, at)
           e == [d EXCEPT !.shift = [i \in Cells |-> IF i \in I THEN c.shift[i] ELSE 0],
                          !.has_shift = \E i \in I : c.shift[i] # 0]
<1>1. CopyCells(c, s, dst) = e
  BY DEF CopyCells
<1>2. e.pos = d.pos /\ e.seq = d.seq
  BY DEF place, Indexed, reset
<1>3. ASSUME NEW i \in Cells
      PROVE  /\ d.pos[i] = IF i \in I THEN c.pos[i] ELSE -1
             /\ d.seq[i] = IF i \in I THEN {dst} ELSE {}
  <2>1. reset \in CellsType /\ reset.pos[i] = -1 /\ reset.seq[i] = {}
    BY ResetOK DEF reset
  <2>2. DOMAIN at = I /\ (i \in I => at[i].pos = c.pos[i] /\ at[i].seqs = {dst})
    OBVIOUS
  <2> HIDE DEF at, I
  <2>3. ASSUME NEW r \in CellsType
        PROVE  /\ place(r, at).pos[i] = IF i \in DOMAIN at THEN at[i].pos ELSE r.pos[i]
               /\ place(r, at).seq[i] = IF i \in DOMAIN at THEN at[i].seqs ELSE r.seq[i]
    BY PlaceData
  <2>4. /\ d.pos[i] = IF i \in DOMAIN at THEN at[i].pos ELSE reset.pos[i]
        /\ d.seq[i] = IF i \in DOMAIN at THEN at[i].seqs ELSE reset.seq[i]
    BY <2>1, <2>3
  <2> QED BY <2>1, <2>2, <2>4
<1>4. I \in SUBSET Cells
  BY DEF With
<1> HIDE DEF e, d, at
<1>5. CASE u = dst
  <2>1. With(e, u) = I /\ \A i \in I : e.pos[i] = c.pos[i]
    BY <1>2, <1>3, <1>4, <1>5 DEF With
  <2>2. Gapless(e, u)
    BY <2>1 DEF Gapless
  <2> QED BY <1>1, <2>2
<1>6. CASE u # dst
  <2>1. With(e, u) = {}
    BY <1>2, <1>3, <1>6 DEF With
  <2> QED BY <1>1, <2>1, NoneGapless
<1> QED BY <1>5, <1>6

\* seq_keep.
LEMMA KeepGapless ==
    ASSUME NEW c \in CellsType, NEW s \in Seqs, Gapless(c, s), NEW u \in Seqs
    PROVE  Gapless(seq_keep(c, s), u)
<1> DEFINE d == seq_keep(c, s)
<1>1. ASSUME NEW i \in Cells
      PROVE  /\ s \in c.seq[i] => d.seq[i] = {s} /\ d.pos[i] = c.pos[i]
             /\ s \notin c.seq[i] => d.seq[i] = {}
  <2> DEFINE kept == {j \in Cells : s \in c.seq[j]}
             gone == {j \in Cells : s \notin c.seq[j] /\ c.seq[j] # {}}
  <2>1. /\ d.pos = Fill(c.pos, gone, -1)
        /\ d.seq = Fill(Fill(c.seq, kept, {s}), gone, {})
    BY DEF seq_keep, Blank, CellsType
  <2> QED BY <2>1 DEF Fill
<1> HIDE DEF d
<1>2. CASE u = s
  <2>1. Cut(c, d, s, With(c, s))
    BY <1>1 DEF Cut, With
  <2> QED BY <1>2, <2>1, SameGapless DEF d
<1>3. CASE u # s
  <2>1. With(d, u) = {}
    BY <1>1, <1>3 DEF With
  <2> QED BY <2>1, NoneGapless DEF d
<1> QED BY <1>2, <1>3

\* seq_add of a whole sequence that shares no cell.
LEMMA MovedGapless ==
    ASSUME NEW c \in CellsType, CellsOK(c), NEW s \in Seqs, \A i \in Cells : c.seq[i] \subseteq {s},
           Gapless(c, s), NEW I, I = With(c, s), NEW d \in Int, NEW u \in Seqs
    PROVE  Gapless(pos_add(c, I, d), u)
<1> DEFINE gone == {j \in I : c.pos[j] + d < 0}
           e == pos_add(c, I, d)
           add(f, none) == [j \in Cells |-> IF j \in gone THEN none
                                            ELSE IF j \in I THEN f[j] + d ELSE f[j]]
<1>1. e.pos = add(c.pos, -1) /\ e.seq = Fill(c.seq, gone, {})
  BY DEF pos_add, Indexed, Moved, CellsType
<1>2. I \in SUBSET Cells /\ \A i \in I : c.pos[i] \in Nat
  BY OccupiedNotEmpty DEF With
<1>3. \A i \in Cells : /\ i \in With(e, s) <=> i \in I /\ c.pos[i] + d >= 0
                       /\ i \in With(e, s) => e.pos[i] = c.pos[i] + d
  <2>1. \A i \in Cells : e.seq[i] = IF i \in gone THEN {} ELSE c.seq[i]
    <3> HIDE DEF gone, add
    <3> QED BY <1>1 DEF Fill
  <2>2. \A i \in Cells : i \in With(e, s) <=> i \in I /\ i \notin gone
    <3> HIDE DEF gone
    <3> QED BY <2>1 DEF With
  <2>3. \A i \in Cells : i \in gone <=> i \in I /\ ~(c.pos[i] + d >= 0)
    BY <1>2
  <2> HIDE DEF gone
  <2> QED BY <1>1, <2>2, <2>3
<1>4. \A v \in Seqs : v # s => With(e, v) = {}
  <2>1. \A i \in Cells : e.seq[i] \subseteq c.seq[i]
    <3> HIDE DEF gone, add
    <3> QED BY <1>1 DEF Fill
  <2> QED BY <2>1 DEF With
<1> HIDE DEF e
<1>5. Gapless(e, s)
  <2> SUFFICES ASSUME NEW i \in With(e, s), NEW j \in With(e, s), NEW q \in Nat,
                      e.pos[i] <= q, q <= e.pos[j]
               PROVE  \E k \in With(e, s) : e.pos[k] = q
    BY DEF Gapless
  <2>1. /\ i \in I /\ j \in I /\ c.pos[i] + d >= 0
        /\ e.pos[i] = c.pos[i] + d /\ e.pos[j] = c.pos[j] + d
    BY <1>3 DEF With
  <2>2. q - d \in Nat /\ c.pos[i] <= q - d /\ q - d <= c.pos[j]
    BY <1>2, <2>1
  <2>3. PICK k \in With(c, s) : c.pos[k] = q - d
    BY <2>1, <2>2 DEF Gapless
  <2>4. k \in With(e, s) /\ e.pos[k] = q
    BY <1>2, <1>3, <2>3
  <2> QED BY <2>4
<1> QED BY <1>4, <1>5, NoneGapless DEF e

\* seq_div of a whole sequence that shares no cell.
LEMMA DividedGapless ==
    ASSUME NEW c \in CellsType, CellsOK(c), NEW s \in Seqs, \A i \in Cells : c.seq[i] \subseteq {s},
           Gapless(c, s), NEW I, I = With(c, s), NEW d \in Nat \ {0}, NEW u \in Seqs
    PROVE  Gapless(pos_div(c, I, d), u)
<1> DEFINE e == pos_div(c, I, d)
<1>1. I \in SUBSET Cells /\ \A i \in I : c.pos[i] \in Nat
  BY OccupiedNotEmpty DEF With
<1>2. e.seq = c.seq /\ \A i \in I : e.pos[i] = c.pos[i] \div d
  <2>1. e.pos = [i \in Cells |-> IF i \in I THEN c.pos[i] \div d ELSE c.pos[i]]
    BY DEF pos_div, Indexed, Moved, CellsType
  <2>2. e.seq = c.seq
    BY <1>1, PosDivEffect
  <2> HIDE DEF e
  <2> QED BY <1>1, <2>1, <2>2
<1>3. \A v : With(e, v) = With(c, v)
  BY <1>2 DEF With
<1> HIDE DEF e
<1>4. CASE u # s
  <2>1. With(c, u) = {}
    BY <1>4 DEF With
  <2> QED BY <1>3, <2>1, NoneGapless DEF e
<1>5. Gapless(e, s)
  <2> SUFFICES ASSUME NEW i \in With(e, s), NEW j \in With(e, s), NEW q \in Nat,
                      e.pos[i] <= q, q <= e.pos[j], e.pos[i] # q
               PROVE  \E k \in With(e, s) : e.pos[k] = q
    BY DEF Gapless
  <2> DEFINE a == c.pos[i]
             b == c.pos[j]
             p == q * d
  <2>1. i \in I /\ j \in I /\ a \in Nat /\ b \in Nat /\ e.pos[i] = a \div d /\ e.pos[j] = b \div d
    BY <1>1, <1>2, <1>3
  <2> HIDE DEF a, b
  <2>2. p \in Nat /\ a <= p /\ p <= b /\ p \div d = q
    BY <2>1, DivBetween
  <2> HIDE DEF p
  <2>3. PICK k \in With(c, s) : c.pos[k] = p
    BY <2>1, <2>2 DEF Gapless, a, b
  <2>4. k \in With(e, s) /\ e.pos[k] = q
    BY <1>2, <1>3, <2>2, <2>3
  <2> QED BY <2>4
<1> QED BY <1>4, <1>5 DEF e

\* A call made between two decode calls.
LEMMA WholeIdleStep ==
    ASSUME HolesInv, phase = "idle", UNCHANGED <<call, saved>>, Whole(v_cells')
    PROVE  HolesInv'
BY DEF HolesInv, SavedWhole, call

\* Every call made between two decode calls leaves no hole.
LEMMA EditWhole ==
    ASSUME WholeCalls, IInv, HolesInv, Edit
    PROVE  HolesInv'
<1>1. /\ phase = "idle" /\ UNCHANGED call /\ Whole(v_cells)
      /\ v_cells \in [Streams -> CellsType]
      /\ \A t \in Streams : StreamOK(v_cells[t], t)
  BY IdleCalls, CallAlone DEF HolesInv, IInv, CellsInv
<1>2. ASSUME NEW t \in Streams PROVE /\ v_cells[t] \in CellsType /\ CellsOK(v_cells[t])
                                     /\ \A s \in Seqs : Gapless(v_cells[t], s)
  BY <1>1 DEF StreamOK, Whole
<1>3. ASSUME NEW t \in Streams, NEW d, \A s \in Seqs : Gapless(d, s),
             v_cells' = [v_cells EXCEPT ![t] = d], saved' = saved
      PROVE  HolesInv'
  BY <1>1, <1>3, OneWhole, WholeIdleStep
<1>4. ASSUME NEW data \in BOOLEAN, clear(data) PROVE HolesInv'
  <2>1. v_cells' = [t \in Streams |-> reset] /\ saved' = saved
    BY <1>4 DEF clear
  <2>2. \A s : With(reset, s) = {}
    BY DEF With, reset
  <2>3. Whole(v_cells')
    BY <2>1, <2>2, NoneGapless DEF Whole
  <2> QED BY <1>1, <2>1, <2>3, WholeIdleStep
<1>5. ASSUME NEW s \in Seqs, NEW p0 \in Bounds, NEW p1 \in Bounds, SeqRm(s, p0, p1)
      PROVE  HolesInv'
  <2> DEFINE t == seq_to_stream(s)
             d == seq_rm(v_cells[t], SeqRange(v_cells[t], s, p0, p1))
  <2>1. t \in Streams /\ p0 \in Int /\ p1 \in Int /\ p1 < 0
    BY <1>5, StreamOfSeq, CacheAssumption DEF SeqRm, WholeCalls, Bounds
  <2>2. v_cells' = [v_cells EXCEPT ![t] = d] /\ saved' = saved
    BY <1>5 DEF SeqRm
  <2> HIDE DEF t
  <2>3. \A u \in Seqs : Gapless(d, u)
    BY <1>2, <2>1, SuffixGapless
  <2> QED BY <1>3, <2>1, <2>2, <2>3
<1>6. ASSUME NEW p0 \in Bounds, NEW p1 \in Bounds, SeqRmAny(p0, p1) PROVE HolesInv'
  <2>1. p0 \in Int /\ p1 \in Int /\ p1 < 0
    BY <1>6, CacheAssumption DEF SeqRmAny, WholeCalls, Bounds
  <2>2. /\ v_cells' = [t \in Streams |-> rm(v_cells[t], InRange(v_cells[t], p0, p1))]
        /\ saved' = saved
    BY <1>6 DEF SeqRmAny
  <2>3. ASSUME NEW t \in Streams, NEW u \in Seqs
        PROVE  Gapless(rm(v_cells[t], InRange(v_cells[t], p0, p1)), u)
    BY <1>2, <2>1, RmAnyGapless
  <2>4. Whole(v_cells')
    BY <2>2, <2>3 DEF Whole
  <2> QED BY <1>1, <2>2, <2>4, WholeIdleStep
<1>7. ASSUME NEW s \in Seqs, NEW u \in Seqs, NEW p0 \in Bounds, NEW p1 \in Bounds,
             SeqCp(s, u, p0, p1)
      PROVE  HolesInv'
  <2> DEFINE t == seq_to_stream(s)
             c == v_cells[t]
             d == seq_add(c, InRange(c, p0, p1) \cap With(c, s), u)
  <2>1. /\ t \in Streams /\ p0 \in Int /\ p1 \in Int /\ p1 < 0 /\ lo(p0) = 0
        /\ With(c, u) = {}
    BY <1>7, StreamOfSeq, CacheAssumption DEF SeqCp, WholeCalls, Bounds
  <2>2. v_cells' = [v_cells EXCEPT ![t] = d] /\ saved' = saved
    BY <1>1, <1>7, <2>1 DEF SeqCp
  <2>3. c \in CellsType /\ CellsOK(c) /\ \A v \in Seqs : Gapless(c, v)
    BY <1>2, <2>1
  <2> HIDE DEF t, c
  <2>4. \A v \in Seqs : Gapless(d, v)
    BY <2>1, <2>3, CopyGapless
  <2> HIDE DEF d
  <2> QED BY <1>3, <2>1, <2>2, <2>4
<1>8. ASSUME NEW s \in Seqs, NEW u \in Seqs, SeqCpStream(s, u) PROVE HolesInv'
  <2> DEFINE t == seq_to_stream(u)
             c == v_cells[seq_to_stream(s)]
             d == CopyCells(c, s, u)
  <2>1. t \in Streams /\ seq_to_stream(s) \in Streams
    BY StreamOfSeq
  <2>2. v_cells' = [v_cells EXCEPT ![t] = d] /\ saved' = saved
    BY <1>8 DEF SeqCpStream
  <2>3. c \in CellsType /\ CellsOK(c) /\ Gapless(c, s)
    BY <1>2, <2>1
  <2> HIDE DEF t, c
  <2>4. \A v \in Seqs : Gapless(d, v)
    BY <2>3, CopyCellsGapless
  <2> HIDE DEF d
  <2> QED BY <1>3, <2>1, <2>2, <2>4
<1>9. ASSUME NEW s \in Seqs, SeqKeep(s) PROVE HolesInv'
  <2> DEFINE t == seq_to_stream(s)
             d == seq_keep(v_cells[t], s)
  <2>1. t \in Streams
    BY StreamOfSeq
  <2>2. v_cells' = [v_cells EXCEPT ![t] = d] /\ saved' = saved
    BY <1>9 DEF SeqKeep
  <2> HIDE DEF t
  <2>3. \A v \in Seqs : Gapless(d, v)
    BY <1>2, <2>1, KeepGapless
  <2> QED BY <1>3, <2>1, <2>2, <2>3
\* Moving calls: the stream is the sequence's own, and they move all of it.
<1>10. ASSUME NEW s \in Seqs, NEW p0 \in Bounds, NEW p1 \in Bounds, lo(p0) = 0, p1 < 0,
              NStream = NSeqs
       PROVE  LET c == v_cells[seq_to_stream(s)]
              IN  /\ c \in CellsType /\ CellsOK(c) /\ Gapless(c, s)
                  /\ \A i \in Cells : c.seq[i] \subseteq {s}
                  /\ InRange(c, p0, p1) \cap With(c, s) = With(c, s)
  <2> DEFINE t == seq_to_stream(s)
             c == v_cells[t]
  <2>1. t \in Streams
    BY StreamOfSeq
  <2>2. StreamOK(c, t) /\ c \in CellsType /\ CellsOK(c) /\ Gapless(c, s)
    BY <1>1, <1>2, <2>1
  <2>3. ASSUME NEW i \in Cells, NEW v \in c.seq[i] PROVE v = s
    <3>1. v \in Seqs /\ seq_to_stream(v) = seq_to_stream(s)
      <4> HIDE DEF c
      <4> QED BY <2>2 DEF StreamOK, CellsType
    <3> QED BY <1>10, <3>1, OwnStream
  <2> HIDE DEF c
  <2>4. With(c, s) \subseteq InRange(c, p0, p1)
    <3>1. \A i \in With(c, s) : i \in Cells /\ c.pos[i] \in Nat
      BY <2>2, OccupiedNotEmpty DEF With
    <3> QED BY <1>10, <3>1 DEF InRange
  <2> QED BY <2>2, <2>3, <2>4 DEF c
<1>11. ASSUME NEW s \in Seqs, NEW p0 \in Bounds, NEW p1 \in Bounds, NEW n \in Shifts,
              SeqAdd(s, p0, p1, n)
       PROVE  HolesInv'
  <2> DEFINE t == seq_to_stream(s)
             c == v_cells[t]
             I == InRange(c, p0, p1) \cap With(c, s)
             d == pos_add(c, I, n)
  <2>1. /\ t \in Streams /\ n \in Int
    BY StreamOfSeq, CacheAssumption
  <2>2. lo(p0) = 0 /\ p1 < 0 /\ NStream = NSeqs
    BY <1>11 DEF SeqAdd, WholeCalls, Idle
  <2>3. v_cells' = [v_cells EXCEPT ![t] = d] /\ saved' = saved
    BY <1>11 DEF SeqAdd
  <2>4. /\ c \in CellsType /\ CellsOK(c) /\ Gapless(c, s)
        /\ \A i \in Cells : c.seq[i] \subseteq {s}
        /\ I = With(c, s)
    BY <1>10, <2>2
  <2> HIDE DEF t, c, I
  <2>5. \A v \in Seqs : Gapless(d, v)
    BY <2>1, <2>4, MovedGapless
  <2> HIDE DEF d
  <2> QED BY <1>3, <2>1, <2>3, <2>5
<1>12. ASSUME NEW s \in Seqs, NEW p0 \in Bounds, NEW p1 \in Bounds, NEW n \in Divs,
              SeqDiv(s, p0, p1, n)
       PROVE  HolesInv'
  <2> DEFINE t == seq_to_stream(s)
             c == v_cells[t]
             I == InRange(c, p0, p1) \cap With(c, s)
             d == pos_div(c, I, n)
  <2>1. /\ t \in Streams /\ n \in Nat \ {0}
    BY StreamOfSeq, CacheAssumption
  <2>2. lo(p0) = 0 /\ p1 < 0 /\ NStream = NSeqs
    BY <1>12 DEF SeqDiv, WholeCalls, Idle
  <2>3. v_cells' = [v_cells EXCEPT ![t] = d] /\ saved' = saved
    BY <1>12 DEF SeqDiv
  <2>4. /\ c \in CellsType /\ CellsOK(c) /\ Gapless(c, s)
        /\ \A i \in Cells : c.seq[i] \subseteq {s}
        /\ I = With(c, s)
    BY <1>10, <2>2
  <2> HIDE DEF t, c, I
  <2>5. \A v \in Seqs : Gapless(d, v)
    BY <2>1, <2>4, DividedGapless
  <2> HIDE DEF d
  <2> QED BY <1>3, <2>1, <2>3, <2>5
<1> QED BY <1>4, <1>5, <1>6, <1>7, <1>8, <1>9, <1>11, <1>12 DEF Edit

\* Numbers in increasing order, as many as the set has, are all of it.
LEMMA IncreasingIsAll ==
    ASSUME NEW I \in SUBSET Cells, NEW idxs \in [1 .. Cardinality(I) -> I],
           \A j, k \in DOMAIN idxs : j < k => idxs[j] < idxs[k]
    PROVE  \A i \in I : \E k \in DOMAIN idxs : idxs[k] = i
<1> DEFINE n == Cardinality(I)
           S == 1 .. n
<1>1. IsFiniteSet(I) /\ n \in Nat
  <2>1. 0 \in Int /\ NCells - 1 \in Int
    BY CellsAssumption
  <2>2. IsFiniteSet(Cells)
    BY <2>1, FS_Interval DEF Cells
  <2> QED BY <2>2, FS_Subset, FS_CardinalityType
<1>2. idxs \in [S -> I] /\ I \in SUBSET Int
  BY CellsAssumption DEF Cells
<1>3. Cardinality(S) = Cardinality(I)
  <2> HIDE DEF n
  <2>1. Cardinality(1 .. n) = n
    BY <1>1, FS_Interval
  <2> QED BY <2>1 DEF n
<1> HIDE DEF n
<1>4. \A a, b \in S : idxs[a] = idxs[b] => a = b
  <2> SUFFICES ASSUME NEW a \in S, NEW b \in S, idxs[a] = idxs[b], a # b PROVE FALSE
    OBVIOUS
  <2>1. a \in Nat /\ b \in Nat
    BY <1>1
  <2>2. idxs[a] \in Int /\ idxs[b] \in Int /\ a \in DOMAIN idxs /\ b \in DOMAIN idxs
    <3> HIDE DEF S
    <3> QED BY <1>2
  <2>3. (a < b => idxs[a] < idxs[b]) /\ (b < a => idxs[b] < idxs[a])
    BY <2>2
  <2> HIDE DEF S
  <2> QED BY <2>1, <2>2, <2>3
<1>5. idxs \in Injection(S, I)
  BY <1>2, <1>4 DEF Injection, IsInjective
<1>6. idxs \in Surjection(S, I)
  <2> HIDE DEF S
  <2> QED BY <1>1, <1>3, <1>5, FS_Injection
<1> QED BY <1>2, <1>6 DEF Surjection

\* A saved sequence has no hole.
LEMMA StateSaveWhole ==
    ASSUME SwaType = "none", IInv, HolesInv, NEW s \in Seqs, StateSave(s)
    PROVE  HolesInv'
<1> DEFINE t == seq_to_stream(s)
           c == v_cells[t]
           I == {i \in With(c, s) : ~is_masked_swa(c.pos[i], seq_pos_max(c, s))}
<1>1. PICK idxs \in [1 .. Cardinality(I) -> I] :
        /\ \A j, k \in DOMAIN idxs : j < k => idxs[j] < idxs[k]
        /\ saved' = [k \in DOMAIN idxs |-> [pos |-> c.pos[idxs[k]], tok |-> c.tok[idxs[k]],
                                            data |-> kv[t][idxs[k]]]]
  BY DEF StateSave
<1>2. UNCHANGED <<v_cells, call>> /\ phase = "idle"
  BY DEF StateSave, StateIoGuard, Idle
<1>3. t \in Streams /\ Gapless(c, s)
  BY <1>2, StreamOfSeq DEF HolesInv, Whole
<1>4. I = With(c, s) /\ I \in SUBSET Cells
  BY DEF is_masked_swa, With
<1> HIDE DEF c, t, I
<1>5. \A i \in I : \E k \in DOMAIN idxs : idxs[k] = i
  BY <1>1, <1>4, IncreasingIsAll
<1>6. DOMAIN saved' = DOMAIN idxs /\ \A k \in DOMAIN idxs : idxs[k] \in I /\ saved'[k].pos = c.pos[idxs[k]]
  BY <1>1
<1>7. SavedWhole'
  <2> SUFFICES ASSUME NEW a \in DOMAIN saved', NEW b \in DOMAIN saved', NEW q \in Nat,
                      saved'[a].pos <= q, q <= saved'[b].pos
               PROVE  \E m \in DOMAIN saved' : saved'[m].pos = q
    BY DEF SavedWhole
  <2>1. PICK k \in With(c, s) : c.pos[k] = q
    BY <1>3, <1>4, <1>6 DEF Gapless
  <2>2. PICK m \in DOMAIN idxs : idxs[m] = k
    BY <1>4, <1>5, <2>1
  <2> QED BY <1>6, <2>1, <2>2
<1> QED BY <1>2, <1>7 DEF HolesInv, call

\* A restored sequence has the saved positions, the others what they had.
LEMMA RestoredGapless ==
    ASSUME SwaType = "none", IInv, TypeInv, HolesInv, phase = "idle", NEW s \in Seqs,
           NEW idxs \in RestoreSlots(s), NEW u \in Seqs
    PROVE  Gapless(ApplyCells(Emptied(s), idxs, SavedTokens(s)), u)
<1> DEFINE t == seq_to_stream(s)
           c == v_cells[t]
           e == Emptied(s)
           h == EmptiedHead(s)
           n == Len(saved)
           toks == SavedTokens(s)
           d == ApplyCells(e, idxs, toks)
           R == SeqRange(c, s, -1, -1)
<1>1. t \in Streams /\ StreamOK(c, t) /\ c \in CellsType /\ CellsOK(c) /\ Gapless(c, u)
  BY StreamOfSeq DEF IInv, CellsInv, StreamOK, HolesInv, Whole
<1>2. e = seq_rm(c, R) /\ StreamOK(e, t)
  BY <1>1, SeqRmStream DEF Emptied
<1>3. n \in Nat /\ DOMAIN saved = 1 .. n /\ TokensOK(toks, t) /\ Len(toks) = n
      /\ idxs \in [1 .. n -> Cells]
  BY SavedTokensOK
<1>4. h \in Nat
  <2>1. v_heads[t] \in 0 .. NCells
    BY <1>1 DEF TypeInv, Heads
  <2>2. HeadAfter(v_heads[t], Freed(c, e)) \in 0 .. NCells
    BY <2>1, FreedType, HeadAfterType
  <2> QED BY <2>2 DEF EmptiedHead
<1> DEFINE hc == head_cur(e, h, n)
<1>5. IsSlot(Usable(e), hc, idxs) /\ hc \in Nat
  BY <1>4 DEF RestoreSlots, SlotsIn, head_cur
<1> HIDE DEF t, c, e, h, n, toks, hc
<1>6. ASSUME NEW i \in Range(idxs) PROVE i \in Cells /\ e.pos[i] = -1
  <2>1. i \in Cells /\ can_use(e, i)
    BY <1>3, <1>5 DEF IsSlot, Range, Usable
  <2> QED BY <2>1 DEF can_use, is_masked_swa, is_empty
<1>7. ASSUME NEW a \in DOMAIN idxs, NEW b \in DOMAIN idxs, idxs[a] = idxs[b] PROVE a = b
  <2>1. a \in 1 .. n /\ b \in 1 .. n /\ idxs[a] \in Nat /\ NCells \in Nat
    BY <1>3, CellsAssumption DEF Cells
  <2>2. Rank(hc, idxs[a]) \in Int
    BY <1>5, <2>1 DEF Rank
  <2>3. /\ a < b => Rank(hc, idxs[a]) < Rank(hc, idxs[b])
        /\ b < a => Rank(hc, idxs[b]) < Rank(hc, idxs[a])
    BY <1>3, <1>5 DEF IsSlot
  <2> QED BY <1>3, <1>7, <2>1, <2>2, <2>3
<1>8. ASSUME NEW i \in Cells
      PROVE  /\ i \in Range(idxs) => Holds(d, i, At(idxs, toks)[i])
             /\ i \notin Range(idxs) => SameRow(d, e, i)
  BY <1>1, <1>2, <1>3, <1>6, ApplyFresh
<1>9. ASSUME NEW a \in DOMAIN idxs
      PROVE  /\ idxs[a] \in Cells /\ d.seq[idxs[a]] = {s} /\ d.pos[idxs[a]] = saved[a].pos
  <2> DEFINE i == idxs[a]
  <2>1. i \in Cells /\ i \in Range(idxs)
    BY <1>3 DEF Range
  <2>2. PICK j \in DOMAIN idxs : j = CHOOSE b \in DOMAIN idxs : idxs[b] = i
    OBVIOUS
  <2>3. idxs[j] = i
    BY <2>2
  <2>4. j = a
    BY <1>7, <2>3
  <2>5. At(idxs, toks)[i] = toks[a]
    <3> HIDE DEF i
    <3> QED BY <2>1, <2>2, <2>4 DEF At
  <2>6. toks[a] = [pos |-> saved[a].pos, tok |-> saved[a].tok, seqs |-> {s}]
    BY <1>3 DEF toks, SavedTokens
  <2> HIDE DEF i, d
  <2>7. Holds(d, i, toks[a])
    BY <1>8, <2>1, <2>5
  <2>8. d.seq[i] = {s} /\ d.pos[i] = saved[a].pos
    BY <2>6, <2>7 DEF Holds
  <2> QED BY <2>1, <2>8 DEF i
<1>10. With(e, s) = {}
  <2>1. \A i \in With(c, s) : <<i, s>> \in R
    <3> TAKE i \in With(c, s)
    <3>1. i \in Cells /\ c.pos[i] \in Nat
      BY <1>1, OccupiedNotEmpty DEF With
    <3>2. i \in InRange(c, -1, -1)
      BY <3>1 DEF InRange, lo
    <3> QED BY <3>2 DEF SeqRange
  <2>2. With(e, s) = {i \in With(c, s) : <<i, s>> \notin R}
    BY <1>1, <1>2, SeqRmCut DEF Cut
  <2> QED BY <2>1, <2>2
<1>11. \A i \in Range(idxs) : \E a \in DOMAIN idxs : idxs[a] = i
  BY DEF Range
<1>12. CASE u = s
  <2>1. \A i \in With(d, s) : \E a \in DOMAIN idxs : idxs[a] = i
    <3> HIDE DEF d
    <3> QED BY <1>8, <1>10, <1>11 DEF With, SameRow
  <2>2. \A a \in DOMAIN idxs : idxs[a] \in With(d, s) /\ d.pos[idxs[a]] = saved[a].pos
    <3> HIDE DEF d
    <3> QED BY <1>9 DEF With
  <2>3. DOMAIN idxs = DOMAIN saved
    BY <1>3
  <2> HIDE DEF d
  <2> SUFFICES ASSUME NEW i \in With(d, s), NEW j \in With(d, s), NEW q \in Nat,
                      d.pos[i] <= q, q <= d.pos[j]
               PROVE  \E k \in With(d, s) : d.pos[k] = q
    BY <1>12 DEF Gapless, d, e, toks
  <2>4. PICK a \in DOMAIN saved : d.pos[i] = saved[a].pos
    BY <2>1, <2>2, <2>3
  <2>5. PICK b \in DOMAIN saved : d.pos[j] = saved[b].pos
    BY <2>1, <2>2, <2>3
  <2>6. PICK m \in DOMAIN saved : saved[m].pos = q
    BY <2>4, <2>5 DEF HolesInv, SavedWhole
  <2> QED BY <2>2, <2>3, <2>6
<1>13. CASE u # s
  <2>1. Cut(c, e, u, With(c, u))
    <3>1. \A i \in With(c, u) : <<i, u>> \notin R
      BY <1>13 DEF SeqRange
    <3>2. Cut(c, e, u, {i \in With(c, u) : <<i, u>> \notin R})
      BY <1>1, <1>2, SeqRmCut
    <3>3. {i \in With(c, u) : <<i, u>> \notin R} = With(c, u)
      BY <3>1
    <3> QED BY <3>2, <3>3
  <2>2. ASSUME NEW i \in Cells
        PROVE  (u \in d.seq[i] <=> u \in e.seq[i]) /\ (u \in e.seq[i] => d.pos[i] = e.pos[i])
    <3>1. CASE i \notin Range(idxs)
      BY <1>8, <3>1 DEF SameRow
    <3>2. CASE i \in Range(idxs)
      <4>1. u \notin d.seq[i]
        BY <1>9, <1>11, <1>13, <3>2
      <4>2. e.seq[i] = {}
        BY <1>2, <1>6, <3>2 DEF StreamOK, CellsType, CellsOK, EmptyOK
      <4> QED BY <4>1, <4>2
    <3> QED BY <3>1, <3>2
  <2>3. Cut(c, d, u, With(c, u))
    <3> HIDE DEF d
    <3> QED BY <2>1, <2>2 DEF Cut, With
  <2> HIDE DEF d
  <2> QED BY <1>1, <2>3, SameGapless DEF d, e, toks
<1> QED BY <1>12, <1>13

\* Saving and restoring a sequence, and failing to, leave no hole.
LEMMA StateIoWhole ==
    ASSUME SwaType = "none", IInv, TypeInv, HolesInv, StateIo
    PROVE  HolesInv'
<1>1. ASSUME NEW s \in Seqs, StateRestore(s) PROVE HolesInv'
  <2> DEFINE t == seq_to_stream(s)
  <2>1. phase = "idle" /\ UNCHANGED <<call, saved>>
    BY <1>1 DEF StateRestore, StateIoGuard, Idle
  <2>2. PICK idxs \in RestoreSlots(s) :
          v_cells' = [v_cells EXCEPT ![t] = ApplyCells(Emptied(s), idxs, SavedTokens(s))]
    BY <1>1 DEF StateRestore
  <2> DEFINE d == ApplyCells(Emptied(s), idxs, SavedTokens(s))
  <2>3. /\ t \in Streams /\ v_cells \in [Streams -> CellsType] /\ Whole(v_cells)
        /\ \A u \in Seqs : Gapless(d, u) /\ v_cells' = [v_cells EXCEPT ![t] = d]
    BY <2>1, <2>2, StreamOfSeq, RestoredGapless DEF IInv, CellsInv, HolesInv
  <2>4. v_cells' = [v_cells EXCEPT ![t] = d]
    BY <2>2
  <2> HIDE DEF t, d
  <2>5. Whole(v_cells')
    BY <2>3, <2>4, OneWhole
  <2> QED BY <2>1, <2>5, WholeIdleStep
<1>2. ASSUME NEW s \in Seqs, StateRestoreFails(s) PROVE HolesInv'
  <2> DEFINE t == seq_to_stream(s)
             Dropped(c) == seq_rm(c, SeqRange(c, s, -1, -1))
             Good(c) == c \in CellsType /\ CellsOK(c) /\ \A u \in Seqs : Gapless(c, u)
  <2>1. phase = "idle" /\ UNCHANGED <<call, saved>>
    BY <1>2 DEF StateRestoreFails, StateIoGuard, Idle
  <2>2. \/ v_cells' = [v_cells EXCEPT ![t] = Dropped(v_cells[t])]
        \/ \E idxs \in RestoreSlots(s) :
             v_cells' = [v_cells EXCEPT ![t] =
                           Dropped(ApplyCells(Emptied(s), idxs, SavedTokens(s)))]
    BY <1>2 DEF StateRestoreFails
  <2>3. t \in Streams /\ v_cells \in [Streams -> CellsType] /\ Whole(v_cells)
    BY <2>1, StreamOfSeq DEF IInv, CellsInv, HolesInv
  <2>4. Good(v_cells[t])
    BY <2>3 DEF IInv, CellsInv, StreamOK, Whole
  <2>5. ASSUME NEW idxs \in RestoreSlots(s)
        PROVE  Good(ApplyCells(Emptied(s), idxs, SavedTokens(s)))
    <3>1. StreamOK(Emptied(s), t)
      BY <2>3, SeqRmStream DEF Emptied, IInv, CellsInv
    <3>2. TokensOK(SavedTokens(s), t) /\ idxs \in [1 .. Len(SavedTokens(s)) -> Cells]
      BY SavedTokensOK
    <3> HIDE DEF t
    <3>3. StreamOK(ApplyCells(Emptied(s), idxs, SavedTokens(s)), t)
      BY <2>3, <3>1, <3>2, ApplyCellsOK
    <3> QED BY <2>1, <3>3, RestoredGapless DEF StreamOK
  <2> HIDE DEF Good, Dropped, t
  <2>6. PICK c : Good(c) /\ v_cells' = [v_cells EXCEPT ![t] = Dropped(c)]
    BY <2>2, <2>4, <2>5
  <2> DEFINE d == Dropped(c)
  <2>7. \A u \in Seqs : Gapless(d, u)
    BY <2>6, SuffixGapless DEF Good, Dropped
  <2>8. v_cells' = [v_cells EXCEPT ![t] = d]
    BY <2>6
  <2> HIDE DEF d
  <2>9. Whole(v_cells')
    BY <2>3, <2>7, <2>8, OneWhole
  <2> QED BY <2>1, <2>9, WholeIdleStep
<1> QED BY <1>1, <1>2, StateSaveWhole DEF StateIo

\* No step makes a hole.
LEMMA HolesKeep ==
    ASSUME SwaType = "none", WholeCalls, IInv, TypeInv, SlotInv, AfterInv, HolesInv, [Next]_vars
    PROVE  HolesInv'
<1>1. CASE UNCHANGED vars
  <2>1. UNCHANGED <<v_cells, call, saved>>
    BY <1>1 DEF vars, call
  <2> QED BY <2>1 DEF HolesInv, SavedWhole, call
<1> QED BY <1>1, EditWhole, DecodeWhole, StateIoWhole DEF Next

LEMMA HolesInit == Init => HolesInv
<1> SUFFICES ASSUME Init PROVE HolesInv
  OBVIOUS
<1>1. \A s : With(reset, s) = {}
  BY DEF With, reset
<1>2. Whole(v_cells)
  BY <1>1, NoneGapless DEF Init, Whole
<1>3. DOMAIN saved = {}
  BY EmptyQueue DEF Init
<1> QED BY <1>2, <1>3 DEF Init, HolesInv, SavedWhole

\* The index of positions of a sequence lists those of its cells.
LEMMA PositionsOf ==
    ASSUME NEW c \in CellsType, CellsOK(c), NEW s \in Seqs
    PROVE  /\ \A p : p \in SeqPositions(c, s) <=> \E i \in With(c, s) : c.pos[i] = p
           /\ c.seq_pos[s] = {} <=> With(c, s) = {}
<1> DEFINE W == With(c, s)
           E == c.seq_pos[s]
<1>1. E = {<<c.pos[j], j>> : j \in W}
  BY DEF CellsOK, SeqPosOK, Entries, With
<1>2. \A p : p \in SeqPositions(c, s) <=> \E e \in E : e[1] = p
  BY DEF SeqPositions
<1> HIDE DEF W, E
<1>3. \A j \in W : \E e \in E : e[1] = c.pos[j]
  <2> TAKE j \in W
  <2>1. <<c.pos[j], j>> \in E
    BY <1>1
  <2> QED BY <2>1
<1>4. \A e \in E : \E j \in W : e[1] = c.pos[j]
  BY <1>1
<1>5. E = {} <=> W = {}
  BY <1>3, <1>4
<1> QED BY <1>2, <1>3, <1>4, <1>5 DEF W, E

\* A sequence without a gap has every position between its first and its last.
LEMMA GaplessInterval ==
    ASSUME NEW c \in CellsType, CellsOK(c), NEW s \in Seqs, Gapless(c, s), c.seq_pos[s] # {}
    PROVE  SeqPositions(c, s) = seq_pos_min(c, s) .. seq_pos_max(c, s)
<1> DEFINE P == SeqPositions(c, s)
           a == seq_pos_min(c, s)
           b == seq_pos_max(c, s)
<1>1. /\ \A p : p \in P <=> \E i \in With(c, s) : c.pos[i] = p
      /\ With(c, s) # {}
  BY PositionsOf
<1>2. \A i \in With(c, s) : c.pos[i] \in Nat
  BY OccupiedNotEmpty
<1>3. P \in SUBSET Nat /\ P # {}
  <2> HIDE DEF P
  <2> QED BY <1>1, <1>2
<1>4. a \in P /\ \A p \in P : a <= p
  <2>1. a = Min(P)
    BY DEF seq_pos_min
  <2> HIDE DEF P, a
  <2> QED BY <1>3, <2>1, MinOf
<1>5. b \in P /\ \A p \in P : p <= b
  <2>1. \A i \in With(c, s) : /\ seq_pos_max(c, s) \in Nat /\ c.pos[i] <= seq_pos_max(c, s)
                              /\ \E m \in With(c, s) : c.pos[m] = seq_pos_max(c, s)
    BY LastOf
  <2> HIDE DEF P
  <2> QED BY <1>1, <2>1
<1> HIDE DEF P, a, b
<1>6. \A q \in Nat : a <= q /\ q <= b => q \in P
  BY <1>1, <1>4, <1>5 DEF Gapless
<1>7. P = a .. b
  <2>1. a \in Nat /\ b \in Nat
    BY <1>3, <1>4, <1>5
  <2>2. \A p \in P : p \in a .. b
    BY <1>3, <1>4, <1>5, <2>1
  <2>3. \A p \in a .. b : p \in P
    BY <1>6, <2>1
  <2> QED BY <2>2, <2>3
<1> QED BY <1>7 DEF P, a, b

\* In a cache without a window every sequence has all the positions between
\* its first and its last after every call, as apply_ubatch says
\* (llama-kv-cache.cpp:1461): for clients that remove suffixes, copy whole
\* sequences to empty ones and, when every sequence has a stream of its own,
\* move whole sequences; whatever fails or is retried in between.
THEOREM SequencesHaveNoHoles ==
    ASSUME SwaType = "none", WholeCalls
    PROVE  Spec => []NoHoles
<1>1. Init => AfterInv /\ HolesInv
  BY HolesInit DEF Init, AfterInv
<1>2. IInv /\ TypeInv /\ SlotInv /\ AfterInv /\ HolesInv /\ [Next]_vars => AfterInv' /\ HolesInv'
  BY AfterKeeps, HolesKeep
<1>3. IInv /\ HolesInv => NoHoles
  <2> SUFFICES ASSUME IInv, HolesInv, phase = "idle", NEW s \in Seqs,
                      v_cells[seq_to_stream(s)].seq_pos[s] # {}
               PROVE  LET c == v_cells[seq_to_stream(s)]
                      IN  SeqPositions(c, s) = seq_pos_min(c, s) .. seq_pos_max(c, s)
    BY DEF NoHoles, NoGaps
  <2> DEFINE t == seq_to_stream(s)
             c == v_cells[t]
  <2>1. t \in Streams
    BY StreamOfSeq
  <2>2. c \in CellsType /\ CellsOK(c) /\ Gapless(c, s)
    BY <2>1 DEF IInv, CellsInv, StreamOK, HolesInv, Whole
  <2> QED BY <2>2, GaplessInterval
<1>4. SwaType = "none"
  OBVIOUS
<1> QED BY <1>1, <1>2, <1>3, SlotsInductive, PTL DEF Spec


-----------------------------------------------------------------------------
(* The slots of a call, for every window.                                  *)

\* Some cell of I has sequence s at position p or above.
Reaches(c, I, s, p) == \E j \in I : s \in c.seq[j] /\ p <= c.pos[j]

\* apply_ubatch, cell by cell: a slot's cell has the sequences of its token, the
\* others what they had, but no sequence at or below a position overwritten.
LEMMA ApplyRow ==
    ASSUME NEW t \in Streams, NEW c, StreamOK(c, t),
           NEW toks, TokensOK(toks, t), NEW idxs \in [1 .. Len(toks) -> Cells],
           NEW i \in Cells, NEW s \in Seqs
    PROVE  LET d == ApplyCells(c, idxs, toks)
               J == Range(idxs)
               x == At(idxs, toks)[i]
           IN  /\ i \in J => /\ s \in d.seq[i] <=> s \in x.seqs /\ ~Reaches(c, J, s, x.pos)
                             /\ s \in d.seq[i] => d.pos[i] = x.pos
               /\ i \notin J => /\ s \in d.seq[i] <=> s \in c.seq[i] /\ ~Reaches(c, J, s, c.pos[i])
                                /\ s \in d.seq[i] => d.pos[i] = c.pos[i]
<1> DEFINE J == Range(idxs)
           at == At(idxs, toks)
           I == {j \in J : ~is_empty(c, j)}
           b == rm(c, I)
           d == place(b, at)
           R == {r \in Cells \X Seqs :
                   /\ r[2] \in d.seq[r[1]]
                   /\ \E p \in Overwritten(c, I, r[2]) : d.pos[r[1]] <= p}
<1>1. ApplyCells(c, idxs, toks) = seq_rm(d, R)
  BY DEF ApplyCells
<1>2. toks \in Seq(Token) /\ c \in CellsType /\ CellsOK(c)
  BY DEF TokensOK, StreamOK
<1>3. J \in SUBSET Cells /\ at \in [J -> PlaceRow] /\ DOMAIN at = J
  BY <1>2, AtType
<1>4. b \in CellsType /\ CellsOK(b)
  BY <1>2, <1>3, RmOK
<1>5. \A j \in J : b.pos[j] = -1
  <2> TAKE j \in J
  <2>1. j \in Cells /\ I \in SUBSET Cells
    BY <1>3
  <2>2. b.pos[j] = IF j \in I THEN -1 ELSE c.pos[j]
    BY <1>2, <2>1, RmEffect
  <2> QED BY <2>2 DEF is_empty
<1>6. i \notin J => b.pos[i] = c.pos[i] /\ b.seq[i] = c.seq[i]
  BY DEF rm, Blank, Fill
<1>7. \A p : (\E o \in Overwritten(c, I, s) : p <= o) <=> Reaches(c, J, s, p)
  <2>1. \A j \in J : s \in c.seq[j] => j \in I
    BY <1>2, <1>3 DEF CellsOK, EmptyOK, is_empty
  <2>2. \A j \in I : j \in J
    OBVIOUS
  <2> HIDE DEF I, J
  <2> QED BY <2>1, <2>2 DEF Overwritten, Reaches
<1> HIDE DEF b, I, J, at
<1>8. d \in CellsType
  BY <1>3, <1>4, <1>5, PlaceOK
<1>9. /\ d.pos[i] = IF i \in J THEN at[i].pos ELSE b.pos[i]
      /\ d.seq[i] = IF i \in J THEN at[i].seqs ELSE b.seq[i]
  BY <1>3, <1>4, PlaceData
<1> HIDE DEF d
<1>10. s \in d.seq[i] => (<<i, s>> \in R <=> Reaches(c, J, s, d.pos[i]))
  BY <1>7
<1> HIDE DEF R
<1>11. /\ s \in seq_rm(d, R).seq[i] <=> s \in d.seq[i] /\ <<i, s>> \notin R
       /\ s \in seq_rm(d, R).seq[i] => seq_rm(d, R).pos[i] = d.pos[i]
  BY <1>8, SeqRmCut DEF Cut, With
<1>12. CASE i \in J
  BY <1>1, <1>9, <1>10, <1>11, <1>12 DEF J, at
<1>13. CASE i \notin J
  BY <1>1, <1>6, <1>9, <1>10, <1>11, <1>13 DEF J
<1> QED BY <1>12, <1>13


\* What is at or below a masked position is masked.
LEMMA MaskedBelow ==
    ASSUME NEW p \in Int, NEW q \in Int, NEW m \in Int, p <= q, q <= m, is_masked_swa(q, m + 1)
    PROVE  is_masked_swa(p, m + 1)
<1>1. NSwa \in Nat /\ NSwa \div 2 \in Nat
  BY CacheAssumption
<1>2. CASE SwaType = "none"
  BY <1>2 DEF is_masked_swa
<1>3. CASE SwaType = "standard"
  BY <1>1, <1>3 DEF is_masked_swa
<1>4. CASE SwaType = "chunked"
  <2>1. NSwa \in Nat \ {0}
    BY <1>4, CacheAssumption
  <2> DEFINE z == ((m + 1) \div NSwa) * NSwa
  <2>2. z \in Int
    BY <2>1
  <2>3. \A x : is_masked_swa(x, m + 1) <=> x < z
    BY <1>4 DEF is_masked_swa
  <2> HIDE DEF z
  <2> QED BY <2>2, <2>3
<1>5. CASE SwaType = "symmetric"
  <2> DEFINE z == NSwa \div 2
  <2>1. \A x \in Int : is_masked_swa(x, m + 1) <=> (m + 1 - x < -z \/ m + 1 - x > z)
    BY <1>1, <1>5 DEF is_masked_swa
  <2> HIDE DEF z
  <2>2. z \in Nat
    BY <1>1 DEF z
  <2> QED BY <2>1, <2>2
<1> QED BY <1>2, <1>3, <1>4, <1>5, CacheAssumption

\* A cell that a slot takes from a sequence is outside the window of its next
\* token.
LEMMA TakenIsMasked ==
    ASSUME NEW c \in CellsType, CellsOK(c), NEW j \in Cells, can_use(c, j), NEW s \in c.seq[j]
    PROVE  is_masked_swa(c.pos[j], seq_pos_max(c, s) + 1)
<1>1. c.seq[j] \in SUBSET Seqs /\ ~is_empty(c, j)
  BY DEF CellsType, CellsOK, EmptyOK, is_empty
<1>2. IsFiniteSet(c.seq[j])
  <2>1. 0 \in Int /\ NSeqs - 1 \in Int
    BY CellsAssumption
  <2>2. IsFiniteSet(Seqs)
    BY <2>1, FS_Interval DEF Seqs
  <2> QED BY <1>1, <2>2, FS_Subset
<1>3. Cardinality(c.seq[j]) = 1 /\ is_masked_swa(c.pos[j], seq_pos_max(c, seq_get(c, j)) + 1)
  BY <1>1 DEF can_use
<1>4. c.seq[j] = {s}
  <2>1. \E u : c.seq[j] = {u}
    BY <1>2, <1>3, FS_Singleton
  <2> QED BY <2>1
<1>5. seq_get(c, j) = s
  BY <1>1, <1>4 DEF seq_get
<1> QED BY <1>3, <1>5

\* A rehearsed ubatch takes no cell that the next token of a sequence could
\* attend to, and its purge reaches none.
LEMMA RehearsedTakesMasked ==
    ASSUME IInv, TypeInv, PrepareUbatch
    PROVE  VisibleKept
<1> DEFINE ub == ubatches[Len(sinfos) + 1]
<1>1. PICK si \in find_slot(ub) : v_cells' = apply_cells(si, ub)
  BY DEF PrepareUbatch
<1>2. UbatchOK(ub) /\ SinfoOK(si, ub) /\ v_heads \in Heads /\ CellsInv(v_cells)
  <2>1. Len(sinfos) \in Nat /\ Len(sinfos) < Len(ubatches) /\ phase = "prepare"
    BY SeqFacts DEF IInv, CallInv, PrepareUbatch
  <2>2. Len(sinfos) + 1 \in DOMAIN ubatches
    BY <2>1, CurrentUbatch
  <2> QED BY <2>1, <2>2, CurrentUbatch, FindSlotFits DEF TypeInv, IInv
<1> HIDE DEF ub
<1> SUFFICES ASSUME NEW t \in Streams, NEW i \in Cells, NEW s \in v_cells[t].seq[i],
                    ~is_masked_swa(v_cells[t].pos[i], seq_pos_max(v_cells[t], s) + 1)
             PROVE  s \in v_cells'[t].seq[i] /\ v_cells'[t].pos[i] = v_cells[t].pos[i]
  BY DEF VisibleKept, StillThere
<1> DEFINE c == v_cells[t]
<1>3. StreamOK(c, t) /\ c \in CellsType /\ CellsOK(c)
  BY <1>2 DEF CellsInv, StreamOK
<1> HIDE DEF c
<1>4. CASE t \notin DOMAIN si
  BY <1>1, <1>4 DEF apply_cells, c
<1>5. CASE t \in DOMAIN si
  <2> DEFINE J == Range(si[t])
  <2>1. \A j \in J : j \in Cells /\ can_use(c, j)
    BY <1>2, <1>5, SlotUsable DEF c
  <2>2. s \in Seqs /\ i \in With(c, s) /\ s \in c.seq[i] /\ c.pos[i] \in Int
    BY <1>3 DEF CellsType, With, c
  <2>3. ASSUME NEW j \in J, s \in c.seq[j] PROVE ~(c.pos[i] <= c.pos[j])
    <3>1. j \in With(c, s) /\ c.pos[j] \in Int
      BY <1>3, <2>1, <2>3 DEF With, CellsType
    <3>2. seq_pos_max(c, s) \in Int /\ c.pos[j] <= seq_pos_max(c, s)
      BY <1>3, <2>2, <3>1, LastOf
    <3>3. is_masked_swa(c.pos[j], seq_pos_max(c, s) + 1)
      BY <1>3, <2>1, <2>3, TakenIsMasked
    <3> QED BY <2>2, <3>1, <3>2, <3>3, MaskedBelow DEF c
  <2>4. ~Reaches(c, J, s, c.pos[i]) /\ i \notin J
    BY <2>2, <2>3 DEF Reaches
  <2>5. apply_cells(si, ub)[t] = ApplyCells(c, si[t], ub[t])
    BY <1>5 DEF apply_cells, c
  <2>6. TokensOK(ub[t], t) /\ si[t] \in [1 .. Len(ub[t]) -> Cells]
    BY <1>2, <1>5, UbatchTokens DEF SinfoOK
  <2>7. /\ s \in ApplyCells(c, si[t], ub[t]).seq[i]
        /\ ApplyCells(c, si[t], ub[t]).pos[i] = c.pos[i]
    BY <1>3, <2>2, <2>4, <2>6, ApplyRow
  <2> QED BY <1>1, <2>5, <2>7 DEF c
<1> QED BY <1>4, <1>5

\* The slot search and the purge of apply_ubatch, for every window: a rehearsed
\* ubatch takes no cell from a sequence whose next token could attend to it.
THEOREM RehearsalTakesNothingVisible == Spec => [][PrepareUbatch => VisibleKept]_vars
<1>1. IInv /\ TypeInv => [PrepareUbatch => VisibleKept]_vars
  BY RehearsedTakesMasked
<1>2. Spec => [](IInv /\ TypeInv)
  BY TypesInductive
<1> QED BY <1>1, <1>2, PTL


\* A token of an earlier ubatch has a smaller position in every sequence that it
\* shares with the later one.
Ascending(ubs) ==
    \A k, l \in DOMAIN ubs : k < l =>
      \A t \in DOMAIN ubs[k] \cap DOMAIN ubs[l] :
        \A a \in DOMAIN ubs[k][t], b \in DOMAIN ubs[l][t] :
          \A s \in ubs[k][t][a].seqs \cap ubs[l][t][b].seqs : ubs[k][t][a].pos < ubs[l][t][b].pos

\* Each token of s counts.
LEMMA BeforeGrows ==
    ASSUME NEW n \in Nat, NEW b \in [1 .. n -> SUBSET Seqs], NEW k \in 1 .. n, NEW l \in 1 .. n,
           k < l, NEW s, s \in b[k]
    PROVE  /\ Before(b, k, s) \in Nat /\ Before(b, l, s) \in Nat
           /\ Before(b, k, s) < Before(b, l, s)
<1> DEFINE B(m) == {j \in 1 .. (m - 1) : s \in b[j]}
<1>1. ASSUME NEW m \in 1 .. n
      PROVE  IsFiniteSet(B(m)) /\ Before(b, m, s) = Cardinality(B(m)) /\ Before(b, m, s) \in Nat
  <2>1. m - 1 \in Int /\ 1 \in Int
    OBVIOUS
  <2>2. IsFiniteSet(1 .. (m - 1)) /\ B(m) \in SUBSET (1 .. (m - 1))
    BY <2>1, FS_Interval
  <2>3. Before(b, m, s) = Cardinality(B(m))
    BY DEF Before
  <2> HIDE DEF B
  <2>4. IsFiniteSet(B(m))
    BY <2>2, FS_Subset
  <2> QED BY <2>3, <2>4, FS_CardinalityType
<1>2. B(k) \in SUBSET B(l) /\ k \in B(l) /\ k \notin B(k)
  OBVIOUS
<1> HIDE DEF B
<1>3. Cardinality(B(k)) <= Cardinality(B(l)) /\ (Cardinality(B(k)) = Cardinality(B(l)) => B(k) = B(l))
  BY <1>1, <1>2, FS_Subset
<1> QED BY <1>1, <1>2, <1>3

\* What is left never grows.
LEMMA LeftDecreases ==
    ASSUME NEW n \in [Seqs -> Nat], NEW k \in 0 .. MaxBatch, NEW l \in 0 .. MaxBatch, k <= l,
           NEW s \in Seqs
    PROVE  Left(n)[l][s] <= Left(n)[k][s]
<1> DEFINE left == Left(n)
           Bad == {m \in 0 .. MaxBatch : k <= m /\ ~(left[m][s] <= left[k][s])}
<1>0. MaxBatch \in Nat
  BY CacheAssumption
<1>1. \A m \in 0 .. MaxBatch : left[m] \in [Seqs -> Nat]
  BY LeftBelow
<1>2. \A m \in 1 .. MaxBatch : left[m] = LeftNext(left[m - 1])
  BY LeftIs
<1> HIDE DEF left
<1>3. Bad = {}
  <2> SUFFICES ASSUME Bad # {} PROVE FALSE
    OBVIOUS
  <2>1. PICK m \in Bad : \A j \in Bad : m <= j
    <3>1. Bad \in SUBSET Nat
      BY <1>0
    <3> HIDE DEF Bad
    <3> QED BY <3>1, MinOf
  <2>2. m \in 0 .. MaxBatch /\ k <= m /\ ~(left[m][s] <= left[k][s])
    OBVIOUS
  <2>3. m # k
    BY <1>1, <2>2
  <2>4. m \in 1 .. MaxBatch /\ m - 1 \in 0 .. MaxBatch /\ k <= m - 1 /\ m - 1 < m
    BY <1>0, <2>2, <2>3
  <2>5. left[m - 1][s] <= left[k][s]
    <3>1. m - 1 \notin Bad
      <4> HIDE DEF Bad
      <4> QED BY <1>0, <2>1, <2>2, <2>4
    <3> QED BY <2>4, <3>1
  <2> DEFINE g == left[m - 1]
  <2>6. g \in [Seqs -> Nat] /\ left[m] = LeftNext(g)
    BY <1>1, <1>2, <2>4
  <2> HIDE DEF g
  <2>7. LeftNext(g)[s] <= g[s] /\ LeftNext(g)[s] \in Nat
    BY <2>6, LeftNextBelow
  <2>8. left[k][s] \in Nat /\ g[s] \in Nat /\ g[s] <= left[k][s]
    BY <1>1, <2>5, <2>6 DEF g
  <2> QED BY <2>2, <2>6, <2>7, <2>8
<1>4. l \notin Bad
  BY <1>3
<1> QED BY <1>4 DEF left

\* The ubatches of every batch go up in position.
LEMMA SplitsAscending ==
    ASSUME CellsInv(v_cells), NEW tok, NEW ubs \in Splits(tok), UbatchesOK(ubs)
    PROVE  Ascending(ubs)
<1> SUFFICES ASSUME NEW k \in DOMAIN ubs, NEW l \in DOMAIN ubs, k < l,
                    NEW t \in DOMAIN ubs[k] \cap DOMAIN ubs[l],
                    NEW a \in DOMAIN ubs[k][t], NEW e \in DOMAIN ubs[l][t],
                    NEW s \in ubs[k][t][a].seqs \cap ubs[l][t][e].seqs
             PROVE  ubs[k][t][a].pos < ubs[l][t][e].pos
  BY DEF Ascending
<1> DEFINE x == ubs[k][t][a]
           y == ubs[l][t][e]
<1>1. x \in Token /\ y \in Token /\ s \in Seqs
  <2>1. ubs[k][t] \in Seq(Token) /\ ubs[l][t] \in Seq(Token)
    BY UbatchTokens DEF UbatchesOK, TokensOK
  <2>2. x \in Token /\ y \in Token
    BY <2>1
  <2> QED BY <2>2 DEF Token
<1>2. NextPos(s) \in Nat
  BY <1>1, NextIsAbove
<1>3. CASE NStream = 1
  <2>1. PICK b \in UnifiedBatches : ubs = split_simple(b, tok)
    BY <1>3 DEF Splits
  <2>2. PICK m \in DOMAIN b : x = BatchTokens(b, tok)[m] /\ m <= k * NUbatch
    BY <2>1, SimpleTokens
  <2>3. PICK p \in DOMAIN b : y = BatchTokens(b, tok)[p] /\ (l - 1) * NUbatch < p
    BY <2>1, SimpleTokens
  <2>4. Admissible(b) /\ \E n \in 1 .. MaxBatch : b \in [1 .. n -> (SUBSET Seqs) \ {{}}]
    BY DEF UnifiedBatches
  <2>5. PICK n \in 1 .. MaxBatch : b \in [1 .. n -> (SUBSET Seqs) \ {{}}]
    BY <2>4
  <2>6. /\ n \in Nat /\ DOMAIN b = 1 .. n /\ b \in [1 .. n -> SUBSET Seqs]
        /\ NUbatch \in Nat /\ k \in Nat /\ l \in Nat
    <3>1. k \in Nat /\ l \in Nat
      BY <2>1 DEF split_simple
    <3> QED BY <2>5, <3>1, CacheAssumption
  <2> HIDE DEF x, y
  <2>7. m < p
    <3> DEFINE z == l - 1 - k
    <3>1. z \in Nat /\ l - 1 = k + z
      BY <2>6
    <3> HIDE DEF z
    <3>2. (l - 1) * NUbatch = k * NUbatch + z * NUbatch
      BY <2>6, <3>1
    <3>3. k * NUbatch \in Nat /\ z * NUbatch \in Nat
      BY <2>6, <3>1
    <3> DEFINE f == k * NUbatch
               g == z * NUbatch
    <3>4. f \in Nat /\ g \in Nat /\ m <= f /\ f + g < p
      BY <2>2, <2>3, <3>2, <3>3
    <3> HIDE DEF f, g
    <3> QED BY <2>6, <3>4
  <2>8. ASSUME NEW q \in DOMAIN b, s \in b[q]
        PROVE  BatchTokens(b, tok)[q].pos = NextPos(s) + Before(b, q, s)
    <3> DEFINE u == Min(b[q])
    <3>1. BatchTokens(b, tok)[q].pos = NextPos(u) + Before(b, q, u)
      BY DEF BatchTokens
    <3>2. u \in b[q]
      <4>1. b[q] \in SUBSET Nat /\ b[q] # {}
        BY <2>5, <2>6, <2>8, CellsAssumption DEF Seqs
      <4> QED BY <4>1, MinOf
    <3> HIDE DEF u
    <3>3. NextPos(s) + Before(b, q, s) = NextPos(u) + Before(b, q, u)
      BY <2>4, <2>8, <3>2 DEF Admissible
    <3> QED BY <3>1, <3>3
  <2>9. s \in b[m] /\ s \in b[p]
    BY <2>2, <2>3 DEF BatchTokens, x, y
  <2>10. x.pos = NextPos(s) + Before(b, m, s) /\ y.pos = NextPos(s) + Before(b, p, s)
    BY <2>2, <2>3, <2>8, <2>9
  <2>11. /\ Before(b, m, s) \in Nat /\ Before(b, p, s) \in Nat
         /\ Before(b, m, s) < Before(b, p, s)
    BY <2>6, <2>7, <2>9, BeforeGrows
  <2>12. x.pos < y.pos
    BY <1>2, <2>10, <2>11
  <2> QED BY <2>12 DEF x, y
<1>4. CASE NStream # 1
  <2>1. PICK n \in StreamBatches : ubs = split_equal(n, tok)
    BY <1>4 DEF Splits
  <2> DEFINE left == Left(n)
  <2>2. /\ k \in 1 .. MaxBatch /\ l \in 1 .. MaxBatch
        /\ \E u \in DOMAIN n : left[k - 1][u] > 0
        /\ \E u \in DOMAIN n : left[l - 1][u] > 0
        /\ t \in EqualRun(left[k - 1]) /\ t \in EqualRun(left[l - 1])
        /\ a \in 1 .. EqualRows(left[k - 1]) /\ e \in 1 .. EqualRows(left[l - 1])
        /\ x.pos = NextPos(t) + n[t] - left[k - 1][t] + a - 1 /\ x.seqs = {t}
        /\ y.pos = NextPos(t) + n[t] - left[l - 1][t] + e - 1
    BY <2>1 DEF split_equal
  <2>3. MaxBatch \in Nat
    BY CacheAssumption
  <2>4. n \in [Seqs -> Nat]
    BY <2>3 DEF StreamBatches
  <2>5. k - 1 \in 0 .. MaxBatch /\ l - 1 \in 0 .. MaxBatch /\ k \in 0 .. MaxBatch /\ k <= l - 1
    BY <2>2, <2>3
  <2>6. /\ left[k - 1] \in [Seqs -> Nat] /\ left[l - 1] \in [Seqs -> Nat]
        /\ left[k] \in [Seqs -> Nat] /\ left[k] = LeftNext(left[k - 1])
    BY <2>2, <2>4, <2>5, LeftBelow, LeftIs
  <2> HIDE DEF left
  <2>7. PICK u \in Seqs : left[k - 1][u] > 0
    BY <2>2, <2>4
  <2>8. PICK v \in Seqs : left[l - 1][v] > 0
    BY <2>2, <2>4
  <2>9. t \in Seqs /\ EqualRows(left[k - 1]) \in Nat /\ EqualRows(left[k - 1]) <= left[k - 1][t]
    BY <2>2, <2>6, <2>7, EqualRowsOK
  <2>10. EqualRows(left[l - 1]) \in Nat
    BY <2>6, <2>8, EqualRowsOK
  <2>11. left[k][t] = left[k - 1][t] - EqualRows(left[k - 1])
    <3>1. ~(\A w \in Seqs : left[k - 1][w] = 0)
      BY <2>7
    <3> QED BY <2>2, <2>6, <2>9, <3>1 DEF LeftNext
  <2>12. left[l - 1][t] <= left[k][t]
    BY <2>4, <2>5, <2>9, LeftDecreases DEF left
  <2>13. NextPos(t) \in Nat /\ n[t] \in Nat /\ left[k - 1][t] \in Nat /\ left[l - 1][t] \in Nat
    BY <1>2, <2>2, <2>4, <2>6, <2>9
  <2> HIDE DEF x, y
  <2>14. x.pos < y.pos
    BY <2>2, <2>9, <2>10, <2>11, <2>12, <2>13
  <2> QED BY <2>14 DEF x, y
<1> QED BY <1>3, <1>4


\* What cell i would hold after n ubatches if no sequence were ever purged: the
\* token of the last slot that took it, or what it held before the call.
Held(b, ubs, sis, n, t, i, s, p) ==
    \/ /\ \A j \in 1 .. n : ~InSlot(sis[j], t, i)
       /\ s \in b[t].seq[i] /\ p = b[t].pos[i]
    \/ \E k \in 1 .. n :
         /\ InSlot(sis[k], t, i)
         /\ \A j \in (k + 1) .. n : ~InSlot(sis[j], t, i)
         /\ s \in At(sis[k][t], ubs[k][t])[i].seqs
         /\ p = At(sis[k][t], ubs[k][t])[i].pos

\* The m-th slot takes a cell that would hold s at p or above: every position
\* of s up to p is then purged.
Taken(b, ubs, sis, m, t, s, p) ==
    \E x \in Cells, r \in Nat :
        InSlot(sis[m], t, x) /\ Held(b, ubs, sis, m - 1, t, x, s, r) /\ p <= r

\* Why cell i has lost s, at p, by the n-th ubatch: some slot takes s at p or
\* above, and before another takes cell i.
Lost(b, ubs, sis, n, t, i, s, p) ==
    \E m \in 1 .. Len(sis) :
        /\ Taken(b, ubs, sis, m, t, s, p)
        /\ \A j \in (n + 1) .. Len(sis) : InSlot(sis[j], t, i) => m < j

\* The row is what cell i would hold after n ubatches, less what is lost.
Faithful(b, ubs, sis, n, t, i, pos, seqs) ==
    /\ \A s \in seqs : Held(b, ubs, sis, n, t, i, s, pos)
    /\ \A s \in Seqs, p \in Nat :
         Held(b, ubs, sis, n, t, i, s, p) /\ s \notin seqs => Lost(b, ubs, sis, n, t, i, s, p)

\* A call: slots for the first ubatches, each with its cells once, and tokens
\* that go up from what is in the cache.
CallOK(b, ubs, sis) ==
    /\ UbatchesOK(ubs) /\ IsSeq(sis) /\ Len(sis) <= Len(ubs)
    /\ \A k \in DOMAIN sis : SinfoOK(sis[k], ubs[k])
    /\ \A k \in DOMAIN sis : \A t \in DOMAIN sis[k] : \A a, c \in DOMAIN sis[k][t] :
         sis[k][t][a] = sis[k][t][c] => a = c
    /\ After(ubs, b) /\ Ascending(ubs)

\* What a cell would hold before the first ubatch, ...
LEMMA HeldZero ==
    ASSUME NEW b, NEW ubs, NEW sis, NEW t, NEW i, NEW s, NEW p
    PROVE  Held(b, ubs, sis, 0, t, i, s, p) <=> s \in b[t].seq[i] /\ p = b[t].pos[i]
BY DEF Held

\* ... after a ubatch whose slot takes it, ...
LEMMA HeldNew ==
    ASSUME NEW b, NEW ubs, NEW sis, NEW n \in Nat, NEW t, NEW i, InSlot(sis[n + 1], t, i),
           NEW s, NEW p
    PROVE  Held(b, ubs, sis, n + 1, t, i, s, p) <=>
             /\ s \in At(sis[n + 1][t], ubs[n + 1][t])[i].seqs
             /\ p = At(sis[n + 1][t], ubs[n + 1][t])[i].pos
<1>1. n + 1 \in 1 .. (n + 1) /\ \A j \in (n + 1 + 1) .. (n + 1) : FALSE
  OBVIOUS
<1>2. \A k \in 1 .. (n + 1) : k # n + 1 => n + 1 \in (k + 1) .. (n + 1)
  OBVIOUS
<1> QED BY <1>1, <1>2 DEF Held

\* ... and after a ubatch whose slot does not.
LEMMA HeldOld ==
    ASSUME NEW b, NEW ubs, NEW sis, NEW n \in Nat, NEW t, NEW i, ~InSlot(sis[n + 1], t, i),
           NEW s, NEW p
    PROVE  Held(b, ubs, sis, n + 1, t, i, s, p) <=> Held(b, ubs, sis, n, t, i, s, p)
<1>1. \A j \in 1 .. (n + 1) : j \in 1 .. n \/ j = n + 1
  OBVIOUS
<1>2. \A j \in 1 .. n : j \in 1 .. (n + 1)
  OBVIOUS
<1>3. \A k \in 1 .. (n + 1) : \A j \in (k + 1) .. (n + 1) : j \in (k + 1) .. n \/ j = n + 1
  OBVIOUS
<1>4. \A k \in 1 .. (n + 1) : \A j \in (k + 1) .. n : j \in (k + 1) .. (n + 1)
  OBVIOUS
<1> QED BY <1>1, <1>2, <1>3, <1>4 DEF Held

\* Later slots do not matter.
LEMMA HeldAppend ==
    ASSUME NEW b, NEW ubs, NEW sis, NEW q, NEW n \in Nat, \A k \in 1 .. n : q[k] = sis[k],
           NEW t, NEW i, NEW s, NEW p
    PROVE  Held(b, ubs, q, n, t, i, s, p) <=> Held(b, ubs, sis, n, t, i, s, p)
<1>1. \A k \in 1 .. n : \A j \in (k + 1) .. n : j \in 1 .. n
  OBVIOUS
<1> QED BY <1>1 DEF Held

\* A sequence is in a cell at one position.
LEMMA HeldUnique ==
    ASSUME NEW b, NEW ubs, NEW sis, NEW n \in Nat, NEW t, NEW i, NEW s, NEW p, NEW q,
           Held(b, ubs, sis, n, t, i, s, p), Held(b, ubs, sis, n, t, i, s, q)
    PROVE  p = q
<1>1. \A k, l \in 1 .. n : k = l \/ l \in (k + 1) .. n \/ k \in (l + 1) .. n
  OBVIOUS
<1> QED BY <1>1 DEF Held

\* The slot of a later ubatch that is the first to take a cell takes from it
\* what it would hold now.
LEMMA HeldUntil ==
    ASSUME NEW b, NEW ubs, NEW sis, NEW n \in Nat, NEW l \in Nat, n <= l,
           NEW t, NEW i, NEW s, NEW p, Held(b, ubs, sis, n, t, i, s, p)
    PROVE  \/ Held(b, ubs, sis, l, t, i, s, p)
           \/ \E m \in (n + 1) .. l : InSlot(sis[m], t, i) /\ Held(b, ubs, sis, m - 1, t, i, s, p)
<1> DEFINE Bad == {m \in Nat : n <= m /\ m <= l /\ ~Held(b, ubs, sis, m, t, i, s, p)}
<1>1. CASE Bad = {}
  BY <1>1
<1>2. CASE Bad # {}
  <2>1. PICK m \in Bad : \A j \in Bad : m <= j
    <3>1. Bad \in SUBSET Nat
      OBVIOUS
    <3> HIDE DEF Bad
    <3> QED BY <1>2, <3>1, MinOf
  <2>2. m \in Nat /\ n <= m /\ m <= l /\ ~Held(b, ubs, sis, m, t, i, s, p) /\ m # n
    OBVIOUS
  <2> DEFINE a == m - 1
  <2>3. a \in Nat /\ a + 1 = m /\ n <= a /\ a <= l /\ a < m
    BY <2>2
  <2>4. a \notin Bad
    <3> HIDE DEF Bad, a
    <3> QED BY <2>1, <2>2, <2>3
  <2>5. Held(b, ubs, sis, a, t, i, s, p)
    <3> HIDE DEF a
    <3> QED BY <2>3, <2>4
  <2>6. InSlot(sis[m], t, i)
    <3> HIDE DEF a
    <3> QED BY <2>2, <2>3, <2>5, HeldOld
  <2> QED BY <2>2, <2>5, <2>6
<1> QED BY <1>1, <1>2

\* A token in a slot.
LEMMA SlotToken ==
    ASSUME NEW b, NEW ubs, NEW sis, CallOK(b, ubs, sis), NEW k \in DOMAIN sis, NEW t, NEW i,
           InSlot(sis[k], t, i)
    PROVE  /\ t \in Streams /\ i \in Cells /\ t \in DOMAIN ubs[k] /\ k \in DOMAIN ubs
           /\ At(sis[k][t], ubs[k][t])[i] \in Token
           /\ \E j \in DOMAIN ubs[k][t] : At(sis[k][t], ubs[k][t])[i] = ubs[k][t][j]
<1>1. /\ IsSeq(ubs) /\ IsSeq(sis) /\ Len(sis) <= Len(ubs) /\ SinfoOK(sis[k], ubs[k])
      /\ \A l \in DOMAIN ubs : UbatchOK(ubs[l])
  BY DEF CallOK, UbatchesOK, IsSeq
<1>2. k \in DOMAIN ubs
  BY <1>1, SeqFacts
<1>3. /\ t \in DOMAIN ubs[k] /\ sis[k][t] \in [1 .. Len(ubs[k][t]) -> Cells] /\ i \in Range(sis[k][t])
  BY <1>1 DEF InSlot, SinfoOK
<1>4. t \in Streams /\ ubs[k][t] \in Seq(Token)
  BY <1>1, <1>2, <1>3, UbatchTokens DEF TokensOK
<1>5. PICK j \in DOMAIN ubs[k][t] : At(sis[k][t], ubs[k][t])[i] = ubs[k][t][j]
  BY <1>3, <1>4, AtType
<1>6. i \in Cells /\ ubs[k][t][j] \in Token
  BY <1>3, <1>4 DEF Range
<1> QED BY <1>2, <1>3, <1>4, <1>5, <1>6

\* What a cell would hold lies below the tokens of every later ubatch.
LEMMA HeldBelow ==
    ASSUME NEW b, NEW ubs, NEW sis, CallOK(b, ubs, sis), NEW n \in Nat, n <= Len(sis),
           NEW t \in Streams, NEW i \in Cells, NEW s, NEW p, Held(b, ubs, sis, n, t, i, s, p),
           NEW l \in DOMAIN ubs, n < l, t \in DOMAIN ubs[l], NEW e \in DOMAIN ubs[l][t],
           s \in ubs[l][t][e].seqs
    PROVE  p < ubs[l][t][e].pos
<1>1. IsSeq(sis) /\ After(ubs, b) /\ Ascending(ubs)
  BY DEF CallOK
<1>2. Len(sis) \in Nat /\ DOMAIN sis = 1 .. Len(sis)
  BY <1>1, SeqFacts
<1>3. CASE s \in b[t].seq[i] /\ p = b[t].pos[i]
  BY <1>1, <1>3 DEF After, With
<1>4. ASSUME NEW k \in 1 .. n, InSlot(sis[k], t, i), s \in At(sis[k][t], ubs[k][t])[i].seqs,
             p = At(sis[k][t], ubs[k][t])[i].pos
      PROVE  p < ubs[l][t][e].pos
  <2>1. k \in DOMAIN sis
    BY <1>2
  <2>2. PICK j \in DOMAIN ubs[k][t] : At(sis[k][t], ubs[k][t])[i] = ubs[k][t][j]
    BY <1>4, <2>1, SlotToken
  <2>3. k \in DOMAIN ubs /\ t \in DOMAIN ubs[k]
    BY <1>4, <2>1, SlotToken
  <2>4. l \in Nat /\ k < l
    <3>1. l \in 1 .. Len(ubs) /\ Len(ubs) \in Nat
      BY SeqFacts DEF CallOK, UbatchesOK, IsSeq
    <3> QED BY <3>1
  <2> QED BY <1>1, <1>4, <2>2, <2>3, <2>4 DEF Ascending
<1> QED BY <1>3, <1>4 DEF Held

\* Positions that cells would hold are positions.
LEMMA HeldNat ==
    ASSUME NEW b, CellsInv(b), NEW ubs, NEW sis, CallOK(b, ubs, sis), NEW n \in Nat, n <= Len(sis),
           NEW t \in Streams, NEW i \in Cells, NEW s, NEW p, Held(b, ubs, sis, n, t, i, s, p)
    PROVE  p \in Nat /\ s \in Seqs
<1>1. Len(sis) \in Nat /\ DOMAIN sis = 1 .. Len(sis)
  BY SeqFacts DEF CallOK
<1>2. CASE s \in b[t].seq[i] /\ p = b[t].pos[i]
  <2>1. b[t] \in CellsType /\ CellsOK(b[t]) /\ i \in With(b[t], s)
    BY <1>2 DEF CellsInv, StreamOK, With
  <2>2. s \in Seqs
    BY <1>2, <2>1 DEF CellsType
  <2> QED BY <1>2, <2>1, <2>2, OccupiedNotEmpty
<1>3. ASSUME NEW k \in 1 .. n, InSlot(sis[k], t, i), s \in At(sis[k][t], ubs[k][t])[i].seqs,
             p = At(sis[k][t], ubs[k][t])[i].pos
      PROVE  p \in Nat /\ s \in Seqs
  <2>1. k \in DOMAIN sis
    BY <1>1
  <2>2. At(sis[k][t], ubs[k][t])[i] \in Token
    BY <1>3, <2>1, SlotToken
  <2> QED BY <1>3, <2>2 DEF Token
<1> QED BY <1>2, <1>3 DEF Held


\* Every cell holds what it would hold after n ubatches, or less.
NoneExtra(b, ubs, sis, n, cells) ==
    \A t \in Streams, i \in Cells : \A s \in cells[t].seq[i] :
        Held(b, ubs, sis, n, t, i, s, cells[t].pos[i])

\* apply_ubatch with the next slot: it holds its tokens, since all that it
\* overwrites lies below them; any other cell keeps its sequences except those
\* that the slot takes at or above its position.
LEMMA ApplyNext ==
    ASSUME CellsInv(v_cells), NEW b, CellsInv(b), NEW ubs, NEW sis, CallOK(b, ubs, sis),
           NEW n \in Nat, n + 1 \in DOMAIN sis, NoneExtra(b, ubs, sis, n, v_cells),
           NEW t \in Streams, NEW i \in Cells, NEW s \in Seqs
    PROVE  LET d == apply_cells(sis[n + 1], ubs[n + 1])[t]
               c == v_cells[t]
               x == At(sis[n + 1][t], ubs[n + 1][t])[i]
           IN  /\ InSlot(sis[n + 1], t, i) => /\ s \in d.seq[i] <=> s \in x.seqs
                                              /\ s \in d.seq[i] => d.pos[i] = x.pos
               /\ ~InSlot(sis[n + 1], t, i) =>
                    /\ s \in d.seq[i] => s \in c.seq[i] /\ d.pos[i] = c.pos[i]
                    /\ s \in c.seq[i] /\ s \notin d.seq[i] =>
                         Taken(b, ubs, sis, n + 1, t, s, c.pos[i])
               /\ InSlot(sis[n + 1], t, i) /\ s \in c.seq[i] =>
                    \A j \in Cells : s \in d.seq[j] => c.pos[i] < d.pos[j]
<1> DEFINE k0 == n + 1
           si == sis[k0]
           ub == ubs[k0]
           d == apply_cells(si, ub)[t]
           c == v_cells[t]
<1>1. /\ IsSeq(sis) /\ IsSeq(ubs) /\ Len(sis) <= Len(ubs) /\ SinfoOK(si, ub)
      /\ \A l \in DOMAIN ubs : UbatchOK(ubs[l])
  BY DEF CallOK, UbatchesOK, IsSeq
<1>2. /\ DOMAIN sis = 1 .. Len(sis) /\ Len(sis) \in Nat /\ n <= Len(sis) /\ k0 \in DOMAIN ubs
      /\ UbatchOK(ub)
  BY <1>1, SeqFacts
<1>3. StreamOK(c, t) /\ c \in CellsType
  BY DEF CellsInv, StreamOK
<1>4. CASE t \notin DOMAIN si
  <2>1. d = c
    BY <1>4 DEF apply_cells
  <2> QED BY <1>4, <2>1 DEF InSlot
<1>5. CASE t \in DOMAIN si
  <2> DEFINE J == Range(si[t])
  <2>1. d = ApplyCells(c, si[t], ub[t])
    BY <1>5 DEF apply_cells
  <2>2. /\ t \in DOMAIN ub /\ TokensOK(ub[t], t) /\ ub[t] \in Seq(Token)
        /\ si[t] \in [1 .. Len(ub[t]) -> Cells]
    BY <1>1, <1>2, <1>5, UbatchTokens DEF SinfoOK, TokensOK
  <2>3. \A j \in Cells : InSlot(si, t, j) <=> j \in J
    BY <1>5 DEF InSlot
  <2>4. J \in SUBSET Cells
    BY <2>2 DEF Range
  <2> HIDE DEF d, si, ub, k0
  <2>5. ASSUME NEW j \in Cells
        PROVE  LET x == At(si[t], ub[t])[j]
               IN  /\ j \in J => /\ s \in d.seq[j] <=> s \in x.seqs /\ ~Reaches(c, J, s, x.pos)
                                 /\ s \in d.seq[j] => d.pos[j] = x.pos
                   /\ j \notin J => /\ s \in d.seq[j] <=> s \in c.seq[j] /\ ~Reaches(c, J, s, c.pos[j])
                                    /\ s \in d.seq[j] => d.pos[j] = c.pos[j]
    BY <1>3, <2>1, <2>2, ApplyRow
  <2>6. ASSUME NEW j \in J, s \in c.seq[j]
        PROVE  c.pos[j] \in Nat /\ Held(b, ubs, sis, n, t, j, s, c.pos[j])
    <3>1. j \in Cells
      BY <2>4
    <3>2. Held(b, ubs, sis, n, t, j, s, c.pos[j])
      BY <2>6, <3>1 DEF NoneExtra
    <3> QED BY <1>2, <3>1, <3>2, HeldNat
  <2>7. ASSUME NEW j \in J, s \in At(si[t], ub[t])[j].seqs
        PROVE  ~Reaches(c, J, s, At(si[t], ub[t])[j].pos)
    <3> DEFINE x == At(si[t], ub[t])[j]
    <3>1. PICK e \in DOMAIN ub[t] : x = ub[t][e]
      BY <2>2, AtType
    <3>2. x.pos \in Nat
      <4>1. x \in Token
        BY <2>2, <3>1
      <4> HIDE DEF x
      <4> QED BY <4>1 DEF Token
    <3>3. ASSUME NEW a \in J, s \in c.seq[a] PROVE c.pos[a] < x.pos
      <4>1. Held(b, ubs, sis, n, t, a, s, c.pos[a]) /\ a \in Cells
        BY <2>4, <2>6, <3>3
      <4>2. n < k0 /\ t \in DOMAIN ubs[k0] /\ e \in DOMAIN ubs[k0][t] /\ s \in ubs[k0][t][e].seqs
        BY <2>2, <2>7, <3>1 DEF k0, ub
      <4>3. c.pos[a] < ubs[k0][t][e].pos
        BY <1>2, <4>1, <4>2, HeldBelow
      <4> QED BY <3>1, <4>3 DEF ub
    <3> HIDE DEF x
    <3>4. ~Reaches(c, J, s, x.pos)
      BY <2>6, <3>2, <3>3 DEF Reaches
    <3> QED BY <3>4 DEF x
  <2>8. i \in J => /\ s \in d.seq[i] <=> s \in At(si[t], ub[t])[i].seqs
                   /\ s \in d.seq[i] => d.pos[i] = At(si[t], ub[t])[i].pos
    BY <2>5, <2>7
  <2>9. i \notin J => (s \in d.seq[i] => s \in c.seq[i] /\ d.pos[i] = c.pos[i])
    BY <2>5
  <2>10. ASSUME i \notin J, s \in c.seq[i], s \notin d.seq[i]
         PROVE  Taken(b, ubs, sis, k0, t, s, c.pos[i])
    <3>1. Reaches(c, J, s, c.pos[i])
      BY <2>5, <2>10
    <3>2. PICK a \in J : s \in c.seq[a] /\ c.pos[i] <= c.pos[a]
      BY <3>1 DEF Reaches
    <3>3. c.pos[a] \in Nat /\ Held(b, ubs, sis, n, t, a, s, c.pos[a]) /\ a \in Cells /\ InSlot(sis[k0], t, a)
      BY <2>3, <2>4, <2>6, <3>2 DEF si
    <3>4. k0 - 1 = n
      BY DEF k0
    <3> QED BY <3>2, <3>3, <3>4 DEF Taken
  <2>11. ASSUME i \in J, s \in c.seq[i], NEW j \in Cells, s \in d.seq[j]
         PROVE  c.pos[i] < d.pos[j]
    <3>1. c.pos[i] \in Nat
      BY <2>6, <2>11
    <3>2. ~Reaches(c, J, s, d.pos[j])
      BY <2>5, <2>11
    <3>3. d.pos[j] \in Int
      <4>1. StreamOK(d, t)
        BY <1>3, <2>1, <2>2, ApplyCellsOK
      <4> QED BY <4>1 DEF StreamOK, CellsType
    <3> QED BY <2>11, <3>1, <3>2, <3>3 DEF Reaches
  <2> QED BY <2>3, <2>8, <2>9, <2>10, <2>11 DEF d, si, ub, k0
<1> QED BY <1>4, <1>5

\* The cells then hold what they would hold after n + 1 ubatches, or less.
LEMMA ApplyNoneExtra ==
    ASSUME CellsInv(v_cells), NEW b, CellsInv(b), NEW ubs, NEW sis, CallOK(b, ubs, sis),
           NEW n \in Nat, n + 1 \in DOMAIN sis, NoneExtra(b, ubs, sis, n, v_cells)
    PROVE  NoneExtra(b, ubs, sis, n + 1, apply_cells(sis[n + 1], ubs[n + 1]))
<1> DEFINE d == apply_cells(sis[n + 1], ubs[n + 1])
<1>1. CellsInv(d)
  <2>1. IsSeq(sis) /\ IsSeq(ubs) /\ Len(sis) <= Len(ubs) /\ SinfoOK(sis[n + 1], ubs[n + 1])
    BY DEF CallOK, UbatchesOK, IsSeq
  <2>2. n + 1 \in DOMAIN ubs
    BY <2>1, SeqFacts
  <2>3. UbatchOK(ubs[n + 1])
    BY <2>2 DEF CallOK, UbatchesOK
  <2> QED BY <2>1, <2>3, ApplyAll
<1> SUFFICES ASSUME NEW t \in Streams, NEW i \in Cells, NEW s \in d[t].seq[i]
             PROVE  Held(b, ubs, sis, n + 1, t, i, s, d[t].pos[i])
  BY DEF NoneExtra
<1>2. s \in Seqs
  BY <1>1 DEF CellsInv, StreamOK, CellsType
<1>3. CASE InSlot(sis[n + 1], t, i)
  <2>1. /\ s \in At(sis[n + 1][t], ubs[n + 1][t])[i].seqs
        /\ d[t].pos[i] = At(sis[n + 1][t], ubs[n + 1][t])[i].pos
    BY <1>2, <1>3, ApplyNext
  <2> HIDE DEF d
  <2> QED BY <1>3, <2>1, HeldNew
<1>4. CASE ~InSlot(sis[n + 1], t, i)
  <2>1. s \in v_cells[t].seq[i] /\ d[t].pos[i] = v_cells[t].pos[i]
    BY <1>2, <1>4, ApplyNext
  <2>2. Held(b, ubs, sis, n, t, i, s, v_cells[t].pos[i])
    BY <2>1 DEF NoneExtra
  <2> HIDE DEF d
  <2> QED BY <1>4, <2>1, <2>2, HeldOld
<1> QED BY <1>3, <1>4


\* Every cell holds what it would hold after n ubatches, less what is lost.
AllFaithful(b, ubs, sis, n, cells) ==
    \A t \in Streams, i \in Cells :
        Faithful(b, ubs, sis, n, t, i, cells[t].pos[i], cells[t].seq[i])

\* What the first n slots take is purged.
Purged(b, ubs, sis, n, cells) ==
    \A m \in 1 .. n : \A t \in Streams, s \in Seqs, p \in Nat :
        Taken(b, ubs, sis, m, t, s, p) => \A i \in With(cells[t], s) : p < cells[t].pos[i]

LEMMA FaithfulNoneExtra ==
    ASSUME NEW b, NEW ubs, NEW sis, NEW n, NEW cells, AllFaithful(b, ubs, sis, n, cells)
    PROVE  NoneExtra(b, ubs, sis, n, cells)
BY DEF AllFaithful, Faithful, NoneExtra

\* apply_ubatch with the next slot loses only what the slot takes, ...
LEMMA NextFaithful ==
    ASSUME CellsInv(v_cells), NEW b, CellsInv(b), NEW ubs, NEW sis, CallOK(b, ubs, sis),
           NEW n \in Nat, n + 1 \in DOMAIN sis, AllFaithful(b, ubs, sis, n, v_cells)
    PROVE  AllFaithful(b, ubs, sis, n + 1, apply_cells(sis[n + 1], ubs[n + 1]))
<1> DEFINE d == apply_cells(sis[n + 1], ubs[n + 1])
<1>1. NoneExtra(b, ubs, sis, n, v_cells)
  BY FaithfulNoneExtra
<1>2. NoneExtra(b, ubs, sis, n + 1, d)
  BY <1>1, ApplyNoneExtra
<1>3. DOMAIN sis = 1 .. Len(sis) /\ Len(sis) \in Nat /\ n + 1 \in 1 .. Len(sis)
  BY SeqFacts DEF CallOK
<1>4. ASSUME NEW t \in Streams, NEW i \in Cells, NEW s \in Seqs, NEW p \in Nat,
             Held(b, ubs, sis, n + 1, t, i, s, p), s \notin d[t].seq[i]
      PROVE  Lost(b, ubs, sis, n + 1, t, i, s, p)
  <2>1. ~InSlot(sis[n + 1], t, i)
    BY <1>1, <1>4, ApplyNext, HeldNew
  <2>2. Held(b, ubs, sis, n, t, i, s, p)
    BY <1>4, <2>1, HeldOld
  <2>3. CASE s \in v_cells[t].seq[i]
    <3>1. p = v_cells[t].pos[i]
      BY <1>1, <2>2, <2>3, HeldUnique DEF NoneExtra
    <3>2. Taken(b, ubs, sis, n + 1, t, s, p)
      BY <1>1, <1>4, <2>1, <2>3, <3>1, ApplyNext
    <3>3. \A j \in (n + 1 + 1) .. Len(sis) : n + 1 < j
      BY <1>3
    <3> QED BY <1>3, <3>2, <3>3 DEF Lost
  <2>4. CASE s \notin v_cells[t].seq[i]
    <3>1. Lost(b, ubs, sis, n, t, i, s, p)
      BY <2>2, <2>4 DEF AllFaithful, Faithful
    <3>2. \A j \in (n + 1 + 1) .. Len(sis) : j \in (n + 1) .. Len(sis)
      BY <1>3
    <3> QED BY <3>1, <3>2 DEF Lost
  <2> QED BY <2>3, <2>4
<1> HIDE DEF d
<1>5. AllFaithful(b, ubs, sis, n + 1, d)
  BY <1>2, <1>4 DEF AllFaithful, Faithful, NoneExtra
<1> QED BY <1>5 DEF d

\* ... and, when the ubatches are computed one after the other, all of it.  A
\* sequence that the rehearsal took from the slot's cell was taken by an earlier
\* slot, which has purged it again.
LEMMA NextPurged ==
    ASSUME CellsInv(v_cells), NEW b, CellsInv(b), NEW ubs, NEW sis, CallOK(b, ubs, sis),
           NEW n \in Nat, n + 1 \in DOMAIN sis, AllFaithful(b, ubs, sis, n, v_cells),
           Purged(b, ubs, sis, n, v_cells)
    PROVE  Purged(b, ubs, sis, n + 1, apply_cells(sis[n + 1], ubs[n + 1]))
<1> DEFINE d == apply_cells(sis[n + 1], ubs[n + 1])
<1>1. NoneExtra(b, ubs, sis, n, v_cells)
  BY FaithfulNoneExtra
<1>2. /\ DOMAIN sis = 1 .. Len(sis) /\ Len(sis) \in Nat /\ n + 1 \in 1 .. Len(sis)
      /\ n <= Len(sis)
  BY SeqFacts DEF CallOK
<1> SUFFICES ASSUME NEW m \in 1 .. (n + 1), NEW t \in Streams, NEW s \in Seqs, NEW p \in Nat,
                    Taken(b, ubs, sis, m, t, s, p), NEW i \in With(d[t], s)
             PROVE  p < d[t].pos[i]
  BY DEF Purged
<1>3. i \in Cells /\ s \in d[t].seq[i]
  BY DEF With
<1>4. PICK x \in Cells, r \in Nat :
        InSlot(sis[m], t, x) /\ Held(b, ubs, sis, m - 1, t, x, s, r) /\ p <= r
  BY DEF Taken
<1>5. CASE InSlot(sis[n + 1], t, i)
  <2>1. /\ s \in At(sis[n + 1][t], ubs[n + 1][t])[i].seqs
        /\ d[t].pos[i] = At(sis[n + 1][t], ubs[n + 1][t])[i].pos
    BY <1>1, <1>3, <1>5, ApplyNext
  <2>2. PICK e \in DOMAIN ubs[n + 1][t] : At(sis[n + 1][t], ubs[n + 1][t])[i] = ubs[n + 1][t][e]
    BY <1>5, SlotToken
  <2>3. n + 1 \in DOMAIN ubs /\ t \in DOMAIN ubs[n + 1] /\ At(sis[n + 1][t], ubs[n + 1][t])[i] \in Token
    BY <1>5, SlotToken
  <2>4. m - 1 \in Nat /\ m - 1 <= Len(sis) /\ m - 1 < n + 1
    BY <1>2
  <2> DEFINE a == m - 1
             l == n + 1
  <2>5. r < ubs[l][t][e].pos
    <3>1. Held(b, ubs, sis, a, t, x, s, r) /\ s \in ubs[l][t][e].seqs /\ l \in DOMAIN ubs
      BY <1>4, <2>1, <2>2, <2>3
    <3> QED BY <2>3, <2>4, <3>1, HeldBelow
  <2>6. d[t].pos[i] \in Nat /\ d[t].pos[i] = ubs[l][t][e].pos
    <3>1. At(sis[n + 1][t], ubs[n + 1][t])[i].pos \in Nat
      BY <2>3 DEF Token
    <3> QED BY <2>1, <2>2, <3>1
  <2> HIDE DEF d, l
  <2> QED BY <1>4, <2>5, <2>6
<1>6. CASE ~InSlot(sis[n + 1], t, i)
  <2>1. s \in v_cells[t].seq[i] /\ d[t].pos[i] = v_cells[t].pos[i] /\ i \in With(v_cells[t], s)
    BY <1>1, <1>3, <1>6, ApplyNext DEF With
  <2>2. CASE m \in 1 .. n
    BY <2>1, <2>2 DEF Purged
  <2>3. CASE m = n + 1
    <3>1. m - 1 = n
      BY <2>3
    <3>2. Held(b, ubs, sis, n, t, x, s, r) /\ InSlot(sis[n + 1], t, x)
      BY <1>4, <2>3, <3>1
    <3>3. d[t].pos[i] \in Int
      <4>1. v_cells[t] \in CellsType
        BY DEF CellsInv
      <4>2. v_cells[t].pos[i] \in Int
        BY <1>3, <4>1 DEF CellsType
      <4> QED BY <2>1, <4>2
    <3>4. CASE s \in v_cells[t].seq[x]
      <4>1. v_cells[t].pos[x] = r
        BY <1>1, <3>2, <3>4, HeldUnique DEF NoneExtra
      <4>2. v_cells[t].pos[x] < d[t].pos[i]
        BY <1>1, <1>3, <3>2, <3>4, ApplyNext
      <4> HIDE DEF d
      <4> QED BY <1>4, <3>3, <4>1, <4>2
    <3>5. CASE s \notin v_cells[t].seq[x]
      <4>1. Lost(b, ubs, sis, n, t, x, s, r)
        BY <3>2, <3>5 DEF AllFaithful, Faithful
      <4>2. PICK h \in 1 .. Len(sis) : /\ Taken(b, ubs, sis, h, t, s, r)
                                       /\ \A j \in (n + 1) .. Len(sis) : InSlot(sis[j], t, x) => h < j
        BY <4>1 DEF Lost
      <4>3. n + 1 \in (n + 1) .. Len(sis)
        BY <1>2
      <4>4. h < n + 1
        BY <3>2, <4>2, <4>3
      <4>5. h \in 1 .. n
        BY <1>2, <4>4
      <4>6. r < v_cells[t].pos[i]
        BY <2>1, <4>2, <4>5 DEF Purged
      <4> HIDE DEF d
      <4> QED BY <1>4, <2>1, <3>3, <4>6
    <3> QED BY <3>4, <3>5
  <2> QED BY <2>2, <2>3
<1> QED BY <1>5, <1>6

\* More slots: what the first ones take, and what is lost, stays so.
LEMMA TakenAppend ==
    ASSUME NEW b, NEW ubs, NEW sis, NEW q, NEW n \in Nat, \A k \in 1 .. n : q[k] = sis[k],
           NEW m \in 1 .. n, NEW t, NEW s, NEW p, Taken(b, ubs, sis, m, t, s, p)
    PROVE  Taken(b, ubs, q, m, t, s, p)
<1>1. PICK x \in Cells, r \in Nat :
        InSlot(sis[m], t, x) /\ Held(b, ubs, sis, m - 1, t, x, s, r) /\ p <= r
  BY DEF Taken
<1> DEFINE a == m - 1
<1>2. a \in Nat /\ \A k \in 1 .. a : q[k] = sis[k]
  OBVIOUS
<1>3. Held(b, ubs, sis, a, t, x, s, r)
  BY <1>1
<1>4. InSlot(q[m], t, x)
  BY <1>1
<1> HIDE DEF a
<1>5. Held(b, ubs, q, a, t, x, s, r)
  BY <1>2, <1>3, HeldAppend
<1> QED BY <1>1, <1>4, <1>5 DEF Taken, a

LEMMA FaithfulAppend ==
    ASSUME NEW b, NEW ubs, NEW sis, NEW q, NEW l \in Nat, Len(sis) = l, Len(q) = l + 1,
           \A k \in 1 .. l : q[k] = sis[k], NEW n \in Nat, n <= l, NEW t, NEW i, NEW pos, NEW seqs,
           Faithful(b, ubs, sis, n, t, i, pos, seqs)
    PROVE  Faithful(b, ubs, q, n, t, i, pos, seqs)
<1>1. \A k \in 1 .. n : q[k] = sis[k]
  OBVIOUS
<1>2. \A s, p : Held(b, ubs, q, n, t, i, s, p) <=> Held(b, ubs, sis, n, t, i, s, p)
  BY <1>1, HeldAppend
<1>3. ASSUME NEW s, NEW p, Lost(b, ubs, sis, n, t, i, s, p) PROVE Lost(b, ubs, q, n, t, i, s, p)
  <2>1. PICK m \in 1 .. l : /\ Taken(b, ubs, sis, m, t, s, p)
                            /\ \A j \in (n + 1) .. l : InSlot(sis[j], t, i) => m < j
    BY <1>3 DEF Lost
  <2>2. Taken(b, ubs, q, m, t, s, p) /\ m \in 1 .. (l + 1)
    <3>1. Taken(b, ubs, sis, m, t, s, p)
      BY <2>1
    <3>2. Taken(b, ubs, q, m, t, s, p)
      BY <3>1, TakenAppend
    <3> QED BY <3>2
  <2>3. ASSUME NEW j \in (n + 1) .. (l + 1), InSlot(q[j], t, i) PROVE m < j
    <3>1. CASE j = l + 1
      BY <3>1
    <3>2. CASE j \in (n + 1) .. l
      BY <2>1, <2>3, <3>2
    <3> QED BY <3>1, <3>2
  <2> QED BY <2>2, <2>3 DEF Lost
<1> QED BY <1>2, <1>3 DEF Faithful

\* A cell outside a slot is the same before the slot is filled.
LEMMA FaithfulBack ==
    ASSUME NEW b, NEW ubs, NEW sis, NEW n \in Nat, Len(sis) \in Nat, NEW t, NEW i,
           ~InSlot(sis[n + 1], t, i), NEW pos, NEW seqs,
           Faithful(b, ubs, sis, n + 1, t, i, pos, seqs)
    PROVE  Faithful(b, ubs, sis, n, t, i, pos, seqs)
<1>1. \A s, p : Held(b, ubs, sis, n + 1, t, i, s, p) <=> Held(b, ubs, sis, n, t, i, s, p)
  BY HeldOld
<1>2. ASSUME NEW s, NEW p, Lost(b, ubs, sis, n + 1, t, i, s, p) PROVE Lost(b, ubs, sis, n, t, i, s, p)
  <2>1. \A j \in (n + 1) .. Len(sis) : j = n + 1 \/ j \in (n + 1 + 1) .. Len(sis)
    OBVIOUS
  <2> QED BY <1>2, <2>1 DEF Lost
<1> QED BY <1>1, <1>2 DEF Faithful

\* The records of the rehearsal have the cells of the slots, as they were.
RecordsFaithful ==
    /\ phase = "restore" => Len(states) <= Len(sinfos)
    /\ phase = "prepare" => Len(states) = Len(sinfos)
    /\ \A k \in DOMAIN states : \A t \in Streams, i \in Cells :
         /\ InRow(states[k], t, i) <=> InSlot(sinfos[k], t, i)
         /\ InRow(states[k], t, i) =>
              Faithful(before, ubatches, sinfos, k - 1, t, i, states[k].rows[t][i].pos,
                       states[k].rows[t][i].seqs)

\* A decode call in a cache with any window: the cells hold the tokens of the
\* ubatches in place and what was there before, less what the rehearsal has
\* purged; in the second pass what the slots take is gone.
WindowInv ==
    phase # "idle" =>
      /\ CellsInv(before) /\ CallOK(before, ubatches, sinfos)
      /\ AllFaithful(before, ubatches, sinfos, Here, v_cells)
      /\ RecordsFaithful
      /\ phase = "decode" => Purged(before, ubatches, sinfos, done, v_cells)
      /\ ~did_optimize => Consecutive(ubatches, before)

\* A call that has no slot yet.
LEMMA WindowBegins ==
    ASSUME sinfos' = <<>>, states' = <<>>, phase' = "prepare", before' = v_cells',
           CellsInv(v_cells)', UbatchesOK(ubatches'), After(ubatches', v_cells'),
           Ascending(ubatches'), ~did_optimize' => Consecutive(ubatches', v_cells')
    PROVE  WindowInv'
<1>1. /\ \A k : k \notin DOMAIN sinfos' /\ k \notin DOMAIN states'
      /\ Len(states') = 0 /\ Len(sinfos') = 0 /\ IsSeq(sinfos')
  BY EmptyQueue
<1>2. CellsInv(before')
  <2>1. before' \in [Streams -> CellsType] /\ \A t \in Streams : StreamOK(before'[t], t)
    BY DEF CellsInv
  <2> QED BY <2>1 DEF CellsInv
<1>3. CallOK(before', ubatches', sinfos')
  <2>1. Len(ubatches') \in Nat
    BY SeqFacts DEF UbatchesOK, IsSeq
  <2> QED BY <1>1, <2>1 DEF CallOK
<1>4. AllFaithful(before', ubatches', sinfos', 0, v_cells')
  BY HeldZero DEF AllFaithful, Faithful
<1>5. Here' = 0
  BY <1>1 DEF Here
<1>6. RecordsFaithful'
  BY <1>1 DEF RecordsFaithful
<1> QED BY <1>2, <1>3, <1>4, <1>5, <1>6 DEF WindowInv

\* A step that only changes the phase.
LEMMA WindowKept ==
    ASSUME IInv, WindowInv, phase # "idle",
           UNCHANGED <<v_cells, ubatches, sinfos, states, done, did_optimize, before>>,
           \/ phase = "prepare" /\ phase' = "restore"
           \/ phase = "restore" /\ phase' = "decode" /\ states = <<>>
           \/ phase' = phase
    PROVE  WindowInv'
<1>1. Here' = Here /\ (phase = "restore" /\ phase' = "decode" => done = 0)
  <2>1. phase = "restore" /\ states = <<>> => Here = 0 /\ done = 0
    BY EmptyQueue DEF Here, IInv, CallInv
  <2> QED BY <2>1 DEF Here
<1>2. /\ CellsInv(before) /\ CallOK(before, ubatches, sinfos) /\ RecordsFaithful
      /\ AllFaithful(before, ubatches, sinfos, Here, v_cells)
      /\ phase = "decode" => Purged(before, ubatches, sinfos, done, v_cells)
      /\ ~did_optimize => Consecutive(ubatches, before)
  BY DEF WindowInv
<1>3. CellsInv(before') /\ CallOK(before', ubatches', sinfos')
  BY <1>2
<1>4. AllFaithful(before', ubatches', sinfos', Here', v_cells')
  BY <1>1, <1>2
<1>5. phase' = "decode" => Purged(before', ubatches', sinfos', done', v_cells')
  <2>1. Purged(before, ubatches, sinfos, 0, v_cells)
    BY DEF Purged
  <2> QED BY <1>1, <1>2, <2>1
<1>6. RecordsFaithful'
  <2>1. IsSeq(sinfos) /\ Len(sinfos) \in Nat
    BY SeqFacts DEF IInv, CallInv
  <2> QED BY <1>2, <2>1 DEF RecordsFaithful
<1>7. ~did_optimize' => Consecutive(ubatches', before')
  BY <1>2
<1> QED BY <1>3, <1>4, <1>5, <1>6, <1>7 DEF WindowInv

\* A rehearsed ubatch.
LEMMA PrepareUbatchWindow ==
    ASSUME IInv, TypeInv, WindowInv, PrepareUbatch
    PROVE  WindowInv'
<1> DEFINE n == Len(sinfos)
           ub == ubatches[n + 1]
<1>1. /\ phase = "prepare" /\ phase' = "prepare" /\ ubatches' = ubatches /\ before' = before
      /\ did_optimize' = did_optimize /\ n < Len(ubatches)
  BY DEF PrepareUbatch
<1>2. PICK si \in find_slot(ub) :
        /\ sinfos' = Append(sinfos, si)
        /\ states' = Append(states,
             [heads |-> v_heads,
              rows  |-> [t \in DOMAIN si |-> cp(v_cells[t], Range(si[t]))]])
        /\ v_cells' = apply_cells(si, ub)
  BY DEF PrepareUbatch
<1> DEFINE st == [heads |-> v_heads,
                  rows  |-> [t \in DOMAIN si |-> cp(v_cells[t], Range(si[t]))]]
           sis == sinfos'
<1>3. /\ CellsInv(before) /\ CallOK(before, ubatches, sinfos) /\ RecordsFaithful
      /\ AllFaithful(before, ubatches, sinfos, Here, v_cells)
      /\ ~did_optimize => Consecutive(ubatches, before)
      /\ Len(states) = n
  BY <1>1 DEF WindowInv, RecordsFaithful
<1>4. /\ n \in Nat /\ DOMAIN sinfos = 1 .. n /\ DOMAIN states = 1 .. n
      /\ DOMAIN sis = 1 .. (n + 1) /\ DOMAIN states' = 1 .. (n + 1)
      /\ sis[n + 1] = si /\ states'[n + 1] = st
      /\ \A k \in 1 .. n : sis[k] = sinfos[k] /\ states'[k] = states[k]
      /\ Len(states') = n + 1 /\ Len(sis) = n + 1 /\ IsSeq(sis)
  <2>1. IsSeq(sinfos) /\ IsSeq(states) /\ states' = Append(states, st)
    BY <1>2 DEF IInv, CallInv
  <2> HIDE DEF st
  <2> QED BY <1>2, <1>3, <2>1, SeqFacts
<1>5. UbatchOK(ub) /\ SinfoOK(si, ub) /\ n + 1 \in DOMAIN ubatches /\ n + 1 <= Len(ubatches)
  <2>1. n + 1 \in DOMAIN ubatches
    BY <1>1, <1>4, CurrentUbatch
  <2>2. Len(ubatches) \in Nat
    BY <1>1, SeqFacts DEF IInv, CallInv, UbatchesOK, IsSeq
  <2> QED BY <1>1, <1>4, <2>1, <2>2, CurrentUbatch, FindSlotFits
<1>6. Here = n /\ Here' = n + 1
  BY <1>1, <1>3, <1>4 DEF Here
<1>7. \A t \in DOMAIN si : \A a, c \in DOMAIN si[t] : si[t][a] = si[t][c] => a = c
  <2>1. v_heads \in Heads
    BY DEF TypeInv
  <2> HIDE DEF ub
  <2> QED BY <1>5, <2>1, SlotUsable
<1>8. /\ DOMAIN st.rows = DOMAIN si
      /\ \A t \in DOMAIN si : /\ DOMAIN st.rows[t] = Range(si[t])
                              /\ \A i \in Range(si[t]) :
                                   /\ st.rows[t][i].pos = v_cells[t].pos[i]
                                   /\ st.rows[t][i].seqs = v_cells[t].seq[i]
  BY DEF cp
<1> HIDE DEF st, sis
<1>9. CallOK(before, ubatches, sis)
  <2>1. \A k \in 1 .. (n + 1) : k \in 1 .. n \/ k = n + 1
    BY <1>4
  <2>2. ASSUME NEW k \in DOMAIN sis PROVE SinfoOK(sis[k], ubatches[k])
    <3>1. CASE k \in 1 .. n
      BY <1>3, <1>4, <3>1 DEF CallOK
    <3>2. CASE k = n + 1
      BY <1>4, <1>5, <3>2
    <3> QED BY <1>4, <2>1, <3>1, <3>2
  <2>3. ASSUME NEW k \in DOMAIN sis, NEW t \in DOMAIN sis[k],
               NEW a \in DOMAIN sis[k][t], NEW c \in DOMAIN sis[k][t], sis[k][t][a] = sis[k][t][c]
        PROVE  a = c
    <3>1. CASE k \in 1 .. n
      BY <1>3, <1>4, <2>3, <3>1 DEF CallOK
    <3>2. CASE k = n + 1
      BY <1>4, <1>7, <2>3, <3>2
    <3> QED BY <1>4, <2>1, <3>1, <3>2
  <2> QED BY <1>3, <1>4, <1>5, <2>2, <2>3 DEF CallOK
<1>10. ASSUME NEW k \in Nat, k <= n, NEW t, NEW i, NEW pos, NEW seqs,
              Faithful(before, ubatches, sinfos, k, t, i, pos, seqs)
       PROVE  Faithful(before, ubatches, sis, k, t, i, pos, seqs)
  <2>1. Len(sinfos) = n /\ Len(sis) = n + 1 /\ n \in Nat /\ \A j \in 1 .. n : sis[j] = sinfos[j]
    BY <1>4
  <2> HIDE DEF n
  <2> QED BY <1>10, <2>1, FaithfulAppend
<1>11. AllFaithful(before, ubatches, sis, n, v_cells)
  BY <1>3, <1>4, <1>6, <1>10 DEF AllFaithful
<1>12. AllFaithful(before, ubatches, sis, n + 1, v_cells')
  <2>1. v_cells' = apply_cells(sis[n + 1], ubatches[n + 1])
    BY <1>2, <1>4
  <2>2. CellsInv(v_cells) /\ n + 1 \in DOMAIN sis
    BY <1>4 DEF IInv
  <2> HIDE DEF n, ub
  <2> QED BY <1>3, <1>4, <1>9, <1>11, <2>1, <2>2, NextFaithful
<1>13. ASSUME NEW k \in 1 .. (n + 1), NEW t \in Streams, NEW i \in Cells
       PROVE  /\ InRow(states'[k], t, i) <=> InSlot(sis[k], t, i)
              /\ InRow(states'[k], t, i) =>
                   Faithful(before, ubatches, sis, k - 1, t, i, states'[k].rows[t][i].pos,
                            states'[k].rows[t][i].seqs)
  <2>1. CASE k \in 1 .. n
    <3>1. /\ InRow(states[k], t, i) <=> InSlot(sinfos[k], t, i)
          /\ InRow(states[k], t, i) =>
               Faithful(before, ubatches, sinfos, k - 1, t, i, states[k].rows[t][i].pos,
                        states[k].rows[t][i].seqs)
      BY <1>3, <1>4, <2>1 DEF RecordsFaithful
    <3> DEFINE a == k - 1
    <3>2. a \in Nat /\ a <= n
      BY <1>4
    <3>3. InRow(states[k], t, i) =>
            Faithful(before, ubatches, sis, a, t, i, states[k].rows[t][i].pos,
                     states[k].rows[t][i].seqs)
      BY <1>10, <3>1, <3>2
    <3> QED BY <1>4, <2>1, <3>1, <3>3
  <2>2. CASE k = n + 1
    <3>1. InRow(st, t, i) <=> InSlot(si, t, i)
      BY <1>8 DEF InRow, InSlot
    <3>2. InRow(st, t, i) => Faithful(before, ubatches, sis, n, t, i, st.rows[t][i].pos,
                                      st.rows[t][i].seqs)
      BY <1>8, <1>11, <3>1 DEF AllFaithful, InSlot
    <3>3. k - 1 = n
      BY <1>4, <2>2
    <3> QED BY <1>4, <2>2, <3>1, <3>2, <3>3
  <2> QED BY <1>4, <2>1, <2>2
<1>14. RecordsFaithful'
  BY <1>1, <1>4, <1>13 DEF RecordsFaithful, InRow, InSlot, sis
<1>15. CellsInv(before') /\ CallOK(before', ubatches', sinfos')
  BY <1>1, <1>3, <1>9 DEF sis
<1>16. AllFaithful(before', ubatches', sinfos', Here', v_cells')
  BY <1>1, <1>6, <1>12 DEF sis
<1> QED BY <1>1, <1>3, <1>14, <1>15, <1>16 DEF WindowInv

\* An undone ubatch.
LEMMA RestoreUbatchWindow ==
    ASSUME IInv, WindowInv, RestoreUbatch
    PROVE  WindowInv'
<1> DEFINE m == Len(states)
           st == states[m]
<1>1. /\ phase = "restore" /\ phase' = phase /\ states # <<>> /\ states' = Front(states)
      /\ UNCHANGED <<ubatches, sinfos, done, did_optimize, before>>
      /\ v_cells' = [t \in Streams |-> IF t \in DOMAIN Last(states).rows
                                       THEN set(v_cells[t], Last(states).rows[t]) ELSE v_cells[t]]
  BY DEF RestoreUbatch
<1>2. /\ m \in Nat /\ m > 0 /\ DOMAIN states = 1 .. m /\ Last(states) = st
      /\ DOMAIN states' = 1 .. (m - 1) /\ Len(states') = m - 1
      /\ \A k \in 1 .. (m - 1) : states'[k] = states[k]
  <2>1. IsSeq(states)
    BY DEF IInv, CallInv
  <2> QED BY <1>1, <2>1, SeqFacts
<1>3. /\ CellsInv(before) /\ CallOK(before, ubatches, sinfos) /\ RecordsFaithful
      /\ ~did_optimize => Consecutive(ubatches, before)
      /\ AllFaithful(before, ubatches, sinfos, m, v_cells)
      /\ m <= Len(sinfos) /\ Here' = m - 1
  BY <1>1, <1>2 DEF WindowInv, RecordsFaithful, Here
<1>4. Len(sinfos) \in Nat
  BY SeqFacts DEF IInv, CallInv
<1> HIDE DEF st, m
<1> DEFINE n == m - 1
<1>5. n \in Nat /\ n + 1 = m
  BY <1>2
<1> HIDE DEF n
<1>6. ASSUME NEW t \in Streams, NEW i \in Cells
      PROVE  Faithful(before, ubatches, sinfos, n, t, i, v_cells'[t].pos[i], v_cells'[t].seq[i])
  <2>1. /\ InRow(st, t, i) <=> InSlot(sinfos[m], t, i)
        /\ InRow(st, t, i) => Faithful(before, ubatches, sinfos, n, t, i, st.rows[t][i].pos,
                                       st.rows[t][i].seqs)
    BY <1>2, <1>3 DEF RecordsFaithful, st, n
  <2>2. v_cells[t] \in CellsType
    BY DEF IInv, CellsInv
  <2>3. ~InSlot(sinfos[m], t, i) =>
          Faithful(before, ubatches, sinfos, n, t, i, v_cells[t].pos[i], v_cells[t].seq[i])
    <3> SUFFICES ASSUME ~InSlot(sinfos[n + 1], t, i)
                 PROVE  Faithful(before, ubatches, sinfos, n, t, i, v_cells[t].pos[i],
                                 v_cells[t].seq[i])
      BY <1>5
    <3>1. Faithful(before, ubatches, sinfos, n + 1, t, i, v_cells[t].pos[i], v_cells[t].seq[i])
      BY <1>3, <1>5 DEF AllFaithful
    <3> QED BY <1>4, <1>5, <3>1, FaithfulBack
  <2>4. CASE t \in DOMAIN st.rows
    <3>1. v_cells'[t] = set(v_cells[t], st.rows[t])
      BY <1>1, <1>2, <2>4
    <3> DEFINE rows == st.rows[t]
    <3>2. /\ set(v_cells[t], rows).pos[i] = IF i \in DOMAIN rows THEN rows[i].pos
                                                                 ELSE v_cells[t].pos[i]
          /\ set(v_cells[t], rows).seq[i] = IF i \in DOMAIN rows THEN rows[i].seqs
                                                                 ELSE v_cells[t].seq[i]
      <4> HIDE DEF rows
      <4> QED BY <2>2 DEF set, Indexed, CellsType
    <3>3. CASE i \in DOMAIN rows
      BY <2>1, <2>4, <3>1, <3>2, <3>3 DEF InRow
    <3>4. CASE i \notin DOMAIN rows
      BY <2>1, <2>3, <3>1, <3>2, <3>4 DEF InRow
    <3> QED BY <3>3, <3>4
  <2>5. CASE t \notin DOMAIN st.rows
    BY <1>1, <1>2, <2>1, <2>3, <2>5 DEF InRow
  <2> QED BY <2>4, <2>5
<1>7. AllFaithful(before', ubatches', sinfos', Here', v_cells')
  BY <1>1, <1>3, <1>6 DEF AllFaithful, n
<1>8. RecordsFaithful'
  <2>1. \A k \in 1 .. (m - 1) : k \in DOMAIN states
    BY <1>2
  <2>2. \A k \in DOMAIN states' : \A t \in Streams, i \in Cells :
         /\ InRow(states'[k], t, i) <=> InSlot(sinfos'[k], t, i)
         /\ InRow(states'[k], t, i) =>
              Faithful(before', ubatches', sinfos', k - 1, t, i, states'[k].rows[t][i].pos,
                       states'[k].rows[t][i].seqs)
    BY <1>1, <1>2, <1>3, <2>1 DEF RecordsFaithful
  <2>3. phase' = "restore" /\ Len(states') <= Len(sinfos')
    BY <1>1, <1>2, <1>3, <1>4
  <2> QED BY <2>2, <2>3 DEF RecordsFaithful
<1>9. /\ CellsInv(before') /\ CallOK(before', ubatches', sinfos')
      /\ ~did_optimize' => Consecutive(ubatches', before')
  BY <1>1, <1>3
<1> QED BY <1>1, <1>7, <1>8, <1>9 DEF WindowInv

\* The ubatch that a decode call computes next.
LEMMA WindowNext ==
    ASSUME IInv, WindowInv, phase = "decode"
    PROVE  LET d == apply_cells(sinfos[done + 1], ubatches[done + 1])
           IN  /\ done \in Nat /\ done + 1 \in DOMAIN sinfos
               /\ DOMAIN sinfos = 1 .. Len(sinfos) /\ Len(sinfos) = Len(ubatches) /\ Len(sinfos) \in Nat
               /\ CellsInv(v_cells) /\ CellsInv(before) /\ CallOK(before, ubatches, sinfos)
               /\ NoneExtra(before, ubatches, sinfos, done, v_cells)
               /\ CellsInv(d)
               /\ AllFaithful(before, ubatches, sinfos, done + 1, d)
               /\ Purged(before, ubatches, sinfos, done + 1, d)
<1>1. /\ CellsInv(v_cells) /\ CellsInv(before) /\ CallOK(before, ubatches, sinfos)
      /\ AllFaithful(before, ubatches, sinfos, done, v_cells)
      /\ Purged(before, ubatches, sinfos, done, v_cells)
  BY DEF WindowInv, IInv, Here
<1>2. /\ done \in Nat /\ done + 1 \in DOMAIN sinfos
      /\ DOMAIN sinfos = 1 .. Len(sinfos) /\ Len(sinfos) = Len(ubatches) /\ Len(sinfos) \in Nat
  <2>1. IsSeq(sinfos) /\ done \in Nat /\ Len(sinfos) = Len(ubatches) /\ done < Len(ubatches)
    BY DEF IInv, CallInv
  <2> QED BY <2>1, SeqFacts
<1>3. CellsInv(apply_cells(sinfos[done + 1], ubatches[done + 1]))
  BY <1>1, CurrentOK, ApplyAll
<1>4. AllFaithful(before, ubatches, sinfos, done + 1, apply_cells(sinfos[done + 1], ubatches[done + 1]))
  BY <1>1, <1>2, NextFaithful
<1>5. Purged(before, ubatches, sinfos, done + 1, apply_cells(sinfos[done + 1], ubatches[done + 1]))
  BY <1>1, <1>2, NextPurged
<1> QED BY <1>1, <1>2, <1>3, <1>4, <1>5, FaithfulNoneExtra

\* A computed ubatch.
LEMMA DecodeUbatchWindow ==
    ASSUME IInv, WindowInv, DecodeUbatch
    PROVE  WindowInv'
<1> DEFINE k0 == done + 1
<1>1. phase = "decode" /\ v_cells' = apply_cells(sinfos[k0], ubatches[k0])
  BY DEF DecodeUbatch
<1>2. CASE CallEnds
  BY <1>2 DEF CallEnds, WindowInv
<1>3. CASE done' = k0 /\ UNCHANGED <<phase, ubatches, sinfos, states, did_optimize, before>>
  <2>1. /\ CellsInv(before) /\ CallOK(before, ubatches, sinfos)
        /\ AllFaithful(before, ubatches, sinfos, k0, v_cells')
        /\ Purged(before, ubatches, sinfos, k0, v_cells')
    BY <1>1, WindowNext
  <2>2. RecordsFaithful /\ (~did_optimize => Consecutive(ubatches, before)) /\ states = <<>>
    BY <1>1 DEF WindowInv, IInv, CallInv
  <2>3. Here' = k0 /\ phase' = "decode"
    BY <1>1, <1>3 DEF Here
  <2> HIDE DEF k0
  <2>4. RecordsFaithful'
    BY <1>3, <2>2, <2>3, EmptyQueue DEF RecordsFaithful
  <2>5. /\ CellsInv(before') /\ CallOK(before', ubatches', sinfos')
        /\ ~did_optimize' => Consecutive(ubatches', before')
    BY <1>3, <2>1, <2>2
  <2>6. /\ AllFaithful(before', ubatches', sinfos', Here', v_cells')
        /\ Purged(before', ubatches', sinfos', done', v_cells')
    BY <1>3, <2>1, <2>3
  <2> QED BY <2>4, <2>5, <2>6 DEF WindowInv
<1> QED BY <1>2, <1>3 DEF DecodeUbatch

\* Every step keeps the invariant.
LEMMA WindowKeeps ==
    ASSUME IInv, IInv', TypeInv, WindowInv, [Next]_vars
    PROVE  WindowInv'
<1>0. CellsInv(v_cells) /\ CellsInv(v_cells)'
  BY DEF IInv
<1>1. CASE Edit \/ StateIo
  <2>1. UNCHANGED call /\ phase = "idle"
    BY <1>1, CallAlone, IdleCalls
  <2> QED BY <2>1 DEF WindowInv, call
<1>2. CASE UNCHANGED vars
  <2>1. phase = "idle" => WindowInv'
    BY <1>2 DEF WindowInv, vars
  <2>2. phase # "idle" => WindowInv'
    BY <1>2, WindowKept DEF vars
  <2> QED BY <2>1, <2>2
<1>3. ASSUME NEW tok, NEW ubs \in Splits(tok), NEW ok, DecodeBegin(ubs, ok) PROVE WindowInv'
  <2>1. /\ UbatchesOK(ubs) /\ memory_update(ok) /\ ubatches' = ubs /\ before' = v_cells'
        /\ sinfos' = <<>> /\ states' = <<>> /\ phase' = "prepare"
    BY <1>3 DEF DecodeBegin, IInv, CallInv
  <2>2. After(ubs, v_cells) /\ Consecutive(ubs, v_cells) /\ Ascending(ubs)
    BY <1>0, <2>1, SplitsAfter, SplitsConsecutive, SplitsAscending
  <2>3. \A t \in Streams, i \in Cells : SameCell(v_cells'[t], v_cells[t], i)
    BY <1>0, <2>1, UpdateRows DEF SameCell
  <2>4. After(ubs, v_cells') /\ Consecutive(ubs, v_cells')
    BY <2>1, <2>2, <2>3, AfterSame, ConsecutiveSame
  <2>5. /\ UbatchesOK(ubatches') /\ After(ubatches', v_cells') /\ Ascending(ubatches')
        /\ Consecutive(ubatches', v_cells')
    BY <2>1, <2>2, <2>4
  <2> QED BY <1>0, <2>1, <2>5, WindowBegins
<1>4. ASSUME NEW ok, PrepareRetries(ok) PROVE WindowInv'
  <2>1. /\ Prepared /\ memory_update(ok) /\ ubatches' = ubatches /\ before' = v_cells'
        /\ sinfos' = <<>> /\ states' = <<>> /\ phase' = "prepare" /\ did_optimize' = TRUE
        /\ phase # "idle" /\ Here = 0
    BY <1>4, EmptyQueue DEF PrepareRetries, Prepared, Here
  <2>2. /\ UbatchesOK(ubatches) /\ After(ubatches, before) /\ Ascending(ubatches)
        /\ AllFaithful(before, ubatches, sinfos, 0, v_cells)
    BY <2>1 DEF WindowInv, CallOK
  <2>3. \A t \in Streams, i \in Cells : SameRow(v_cells'[t], v_cells[t], i)
    BY <1>0, <2>1, UpdateRows
  <2>4. ASSUME NEW t \in Streams, NEW s, NEW i \in With(v_cells'[t], s)
        PROVE  i \in With(before[t], s) /\ before[t].pos[i] = v_cells'[t].pos[i]
    <3>1. i \in Cells /\ s \in v_cells[t].seq[i] /\ v_cells'[t].pos[i] = v_cells[t].pos[i]
      BY <2>3, <2>4 DEF With, SameRow
    <3>2. Held(before, ubatches, sinfos, 0, t, i, s, v_cells[t].pos[i])
      BY <2>2, <3>1 DEF AllFaithful, Faithful
    <3> QED BY <3>1, <3>2, HeldZero DEF With
  <2>5. After(ubatches, v_cells')
    <3> SUFFICES ASSUME NEW k \in DOMAIN ubatches, NEW t \in DOMAIN ubatches[k],
                        NEW j \in DOMAIN ubatches[k][t], NEW s \in ubatches[k][t][j].seqs,
                        NEW i \in With(v_cells'[t], s)
                 PROVE  v_cells'[t].pos[i] < ubatches[k][t][j].pos
      BY DEF After
    <3>1. t \in Streams
      BY <2>2, UbatchTokens DEF UbatchesOK
    <3> QED BY <2>2, <2>4, <3>1 DEF After
  <2>6. UbatchesOK(ubatches') /\ After(ubatches', v_cells') /\ Ascending(ubatches')
    BY <2>1, <2>2, <2>5
  <2> QED BY <1>0, <2>1, <2>6, WindowBegins
<1>5. CASE PrepareEnd \/ PrepareSucceeds
  BY <1>5, WindowKept DEF PrepareEnd, PrepareSucceeds, Prepared
<1>6. CASE PrepareFails \/ ReserveFails \/ \E how \in Failures : DecodeFails(how)
  <2>1. phase' = "idle"
    BY <1>6 DEF PrepareFails, ReserveFails, DecodeFails, CallEnds
  <2> QED BY <2>1 DEF WindowInv
<1> QED BY <1>1, <1>2, <1>3, <1>4, <1>5, <1>6, PrepareUbatchWindow, RestoreUbatchWindow,
           DecodeUbatchWindow
        DEF Next, Decode

\* The inductive invariant of a decode call, for every window.
THEOREM WindowInductive == Spec => [](IInv /\ TypeInv /\ WindowInv)
<1>1. Init => IInv /\ TypeInv /\ WindowInv
  BY InitHolds, TypeInit DEF Init, WindowInv
<1>2. IInv /\ TypeInv /\ WindowInv /\ [Next]_vars => IInv' /\ TypeInv' /\ WindowInv'
  BY Keeps, WindowKeeps
<1> QED BY <1>1, <1>2, PTL DEF Spec

\* A cell of a slot has one token.
LEMMA SlotHasToken ==
    ASSUME NEW b, NEW ubs, NEW sis, CallOK(b, ubs, sis), NEW l \in DOMAIN sis, NEW t \in DOMAIN ubs[l],
           NEW k \in DOMAIN ubs[l][t]
    PROVE  /\ t \in Streams /\ ubs[l][t][k] \in Token
           /\ \E i \in Cells : InSlot(sis[l], t, i) /\ At(sis[l][t], ubs[l][t])[i] = ubs[l][t][k]
<1>1. /\ IsSeq(ubs) /\ IsSeq(sis) /\ Len(sis) <= Len(ubs) /\ SinfoOK(sis[l], ubs[l])
      /\ \A m \in DOMAIN ubs : UbatchOK(ubs[m])
  BY DEF CallOK, UbatchesOK, IsSeq
<1>2. l \in DOMAIN ubs
  BY <1>1, SeqFacts
<1> DEFINE si == sis[l]
           ub == ubs[l]
<1>3. /\ t \in Streams /\ ub[t] \in Seq(Token) /\ t \in DOMAIN si
      /\ si[t] \in [1 .. Len(ub[t]) -> Cells] /\ k \in DOMAIN si[t]
  BY <1>1, <1>2, UbatchTokens DEF SinfoOK, TokensOK
<1>4. \A a, c \in DOMAIN si[t] : si[t][a] = si[t][c] => a = c
  BY <1>3 DEF CallOK
<1> HIDE DEF si, ub
<1> DEFINE i == si[t][k]
<1>5. i \in Cells /\ i \in Range(si[t])
  BY <1>3 DEF Range
<1>6. At(si[t], ub[t])[i] = ub[t][k]
  <2>1. PICK j \in DOMAIN si[t] : j = CHOOSE a \in DOMAIN si[t] : si[t][a] = i
    BY <1>3
  <2>2. si[t][j] = i
    BY <1>3, <2>1
  <2>3. j = k
    BY <1>3, <1>4, <2>2
  <2> HIDE DEF i
  <2> QED BY <1>5, <2>1, <2>3 DEF At
<1>7. ub[t][k] \in Token
  <2>1. k \in DOMAIN ub[t]
    BY DEF ub
  <2> QED BY <1>3, <2>1
<1>8. InSlot(si, t, i)
  BY <1>3, <1>5 DEF InSlot
<1> HIDE DEF i
<1>9. \E j \in Cells : InSlot(si, t, j) /\ At(si[t], ub[t])[j] = ub[t][k]
  BY <1>5, <1>6, <1>8
<1> QED BY <1>3, <1>7, <1>9 DEF si, ub

\* A computed ubatch has a cell for each of its tokens.
LEMMA TokensStored ==
    ASSUME IInv, WindowInv, DecodeUbatch
    PROVE  \A t \in DOMAIN ubatches[done + 1] : \A k \in DOMAIN ubatches[done + 1][t] :
              Holders(v_cells'[t], ubatches[done + 1][t][k]) # {}
<1> DEFINE ub == ubatches[done + 1]
           si == sinfos[done + 1]
<1>1. phase = "decode" /\ v_cells' = apply_cells(si, ub)
  BY DEF DecodeUbatch
<1>2. /\ done \in Nat /\ done + 1 \in DOMAIN sinfos
      /\ CellsInv(v_cells) /\ CellsInv(before) /\ CallOK(before, ubatches, sinfos)
      /\ NoneExtra(before, ubatches, sinfos, done, v_cells) /\ CellsInv(v_cells')
  BY <1>1, WindowNext
<1> SUFFICES ASSUME NEW t \in DOMAIN ub, NEW k \in DOMAIN ub[t]
             PROVE  Holders(v_cells'[t], ub[t][k]) # {}
  OBVIOUS
<1> DEFINE x == ub[t][k]
<1>3. PICK i \in Cells : InSlot(si, t, i) /\ At(si[t], ub[t])[i] = x
  BY <1>2, SlotHasToken
<1>4. t \in Streams /\ x \in Token
  BY <1>2, SlotHasToken
<1>5. x.seqs \in SUBSET Seqs /\ x.seqs # {}
  BY <1>4 DEF Token
<1>6. ASSUME NEW s \in x.seqs PROVE s \in v_cells'[t].seq[i] /\ v_cells'[t].pos[i] = x.pos
  <2>1. s \in Seqs
    BY <1>5
  <2> QED BY <1>1, <1>2, <1>3, <1>4, <2>1, ApplyNext
<1>7. v_cells'[t].tok[i] = x.tok
  <2>1. UbatchOK(ub) /\ SinfoOK(si, ub)
    BY <1>1, CurrentOK
  <2>2. /\ TokensOK(ub[t], t) /\ si[t] \in [1 .. Len(ub[t]) -> Cells] /\ i \in Range(si[t])
        /\ t \in DOMAIN si
    BY <1>3, <2>1, UbatchTokens DEF SinfoOK, InSlot
  <2> HIDE DEF ub, si
  <2>3. v_cells'[t] = ApplyCells(v_cells[t], si[t], ub[t])
    BY <1>1, <1>4, <2>2 DEF apply_cells
  <2>4. StreamOK(v_cells[t], t) /\ StreamOK(v_cells'[t], t)
    BY <1>2, <1>4 DEF CellsInv
  <2>5. v_cells'[t].pos[i] = -1 \/ v_cells'[t].tok[i] = At(si[t], ub[t])[i].tok
    BY <1>4, <2>2, <2>3, <2>4, ApplyCellsData
  <2>6. v_cells'[t].pos[i] # -1
    BY <1>5, <1>6, <2>4 DEF StreamOK, CellsOK, EmptyOK
  <2> QED BY <1>3, <2>5, <2>6
<1> HIDE DEF x
<1>8. i \in Holders(v_cells'[t], x)
  BY <1>5, <1>6, <1>7 DEF Holders
<1> QED BY <1>8 DEF x

\* Every token of a computed ubatch is in the cache, whatever the window: its
\* slot may hold masked tokens again by then, but all that the slot overwrites
\* lies below the ubatch, so the purge does not reach the new tokens.
THEOREM ComputedIsStored == Spec => UbatchStored
<1> DEFINE Stored == \A t \in DOMAIN ubatches[done + 1] : \A k \in DOMAIN ubatches[done + 1][t] :
                        Holders(v_cells'[t], ubatches[done + 1][t][k]) # {}
<1>1. IInv /\ WindowInv => (DecodeUbatch => Stored)
  BY TokensStored
<1> HIDE DEF Stored
<1>2. IInv /\ TypeInv /\ WindowInv => [DecodeUbatch => Stored]_vars
  BY <1>1
<1>3. Spec => [][DecodeUbatch => Stored]_vars
  BY <1>2, WindowInductive, PTL
<1> QED BY <1>3 DEF UbatchStored, Stored

\* A sequence that has every position between its first and its last has no gap.
LEMMA IntervalGapless ==
    ASSUME NEW c \in CellsType, CellsOK(c), NEW s \in Seqs,
           c.seq_pos[s] # {} => SeqPositions(c, s) = seq_pos_min(c, s) .. seq_pos_max(c, s)
    PROVE  Gapless(c, s)
<1> SUFFICES ASSUME NEW i \in With(c, s), NEW j \in With(c, s), NEW q \in Nat,
                    c.pos[i] <= q, q <= c.pos[j]
             PROVE  \E k \in With(c, s) : c.pos[k] = q
  BY DEF Gapless
<1> DEFINE P == SeqPositions(c, s)
           a == seq_pos_min(c, s)
           e == seq_pos_max(c, s)
<1>1. /\ \A p : p \in P <=> \E k \in With(c, s) : c.pos[k] = p
      /\ c.seq_pos[s] # {}
  BY PositionsOf
<1>2. c.pos[i] \in Nat /\ c.pos[j] \in Nat
  BY OccupiedNotEmpty
<1>3. P = a .. e
  BY <1>1
<1>4. c.pos[i] \in P /\ c.pos[j] \in P
  BY <1>1
<1>5. a \in Int /\ e \in Int
  <2>1. a = Min(P)
    BY <1>1 DEF seq_pos_min
  <2>2. P \in SUBSET Nat /\ P # {}
    <3>1. \A k \in With(c, s) : c.pos[k] \in Nat
      BY OccupiedNotEmpty
    <3> HIDE DEF P
    <3> QED BY <1>1, <3>1
  <2>3. a \in Nat
    <3> HIDE DEF P, a
    <3> QED BY <2>1, <2>2, MinOf
  <2>4. e \in Nat
    BY LastOf
  <2> QED BY <2>3, <2>4
<1> HIDE DEF P, a, e
<1>6. q \in P
  BY <1>2, <1>3, <1>4, <1>5
<1> QED BY <1>1, <1>6

\* A position between two that a sequence has once all ubatches are in place
\* was in the cache before the call or came with the batch.
LEMMA BetweenWasHeld ==
    ASSUME NEW b, CellsInv(b), NEW ubs, NEW sis, CallOK(b, ubs, sis), Len(sis) = Len(ubs),
           Consecutive(ubs, b), NEW t \in Streams, NEW s \in Seqs, Gapless(b[t], s),
           NEW i \in Cells, NEW j \in Cells, NEW p \in Nat, NEW r \in Nat, NEW q \in Nat,
           Held(b, ubs, sis, Len(sis), t, i, s, p), Held(b, ubs, sis, Len(sis), t, j, s, r),
           p <= q, q <= r
    PROVE  \E x \in Cells, m \in 0 .. Len(sis) : Held(b, ubs, sis, m, t, x, s, q)
<1> DEFINE n == Len(sis)
           c == b[t]
           Old(x, y) == x \in With(c, s) /\ y = c.pos[x]
           New(k, x, y) == /\ InSlot(sis[k], t, x) /\ s \in At(sis[k][t], ubs[k][t])[x].seqs
                           /\ y = At(sis[k][t], ubs[k][t])[x].pos
<1>1. n \in Nat /\ DOMAIN sis = 1 .. n /\ DOMAIN ubs = 1 .. n /\ After(ubs, b)
  BY SeqFacts DEF CallOK, UbatchesOK, IsSeq
<1>2. c \in CellsType /\ CellsOK(c)
  BY DEF CellsInv, StreamOK
<1>3. ASSUME NEW x \in Cells, NEW y, Held(b, ubs, sis, n, t, x, s, y)
      PROVE  Old(x, y) \/ \E k \in 1 .. n : New(k, x, y)
  BY <1>3 DEF Held, With
<1>4. ASSUME NEW k \in 1 .. n, NEW x \in Cells, NEW y, New(k, x, y)
      PROVE  /\ y \in Nat /\ \A z \in With(c, s) : c.pos[z] < y
             /\ \E e \in DOMAIN ubs[k][t] : s \in ubs[k][t][e].seqs /\ ubs[k][t][e].pos = y
             /\ k \in DOMAIN ubs /\ t \in DOMAIN ubs[k]
  <2>1. /\ k \in DOMAIN ubs /\ t \in DOMAIN ubs[k] /\ At(sis[k][t], ubs[k][t])[x] \in Token
        /\ \E e \in DOMAIN ubs[k][t] : At(sis[k][t], ubs[k][t])[x] = ubs[k][t][e]
    BY <1>1, <1>4, SlotToken
  <2>2. PICK e \in DOMAIN ubs[k][t] : At(sis[k][t], ubs[k][t])[x] = ubs[k][t][e]
    BY <2>1
  <2>3. s \in ubs[k][t][e].seqs /\ ubs[k][t][e].pos = y
    BY <1>4, <2>2
  <2>4. y \in Nat
    BY <1>4, <2>1 DEF Token
  <2> QED BY <1>1, <2>1, <2>3, <2>4 DEF After
<1>5. \A z \in With(c, s) : c.pos[z] \in Nat
  BY <1>2, OccupiedNotEmpty
<1>6. ASSUME NEW y \in With(c, s), q <= c.pos[y]
      PROVE  \E x \in Cells, m \in 0 .. n : Held(b, ubs, sis, m, t, x, s, q)
  <2>1. Old(i, p)
    <3>1. ASSUME NEW k \in 1 .. n, New(k, i, p) PROVE FALSE
      <4>1. c.pos[y] < p /\ c.pos[y] \in Nat
        BY <1>4, <1>5, <3>1
      <4> QED BY <1>6, <4>1
    <3> QED BY <1>3, <3>1
  <2>2. PICK x \in With(c, s) : c.pos[x] = q
    BY <1>6, <2>1 DEF Gapless
  <2>3. x \in Cells /\ s \in b[t].seq[x] /\ q = b[t].pos[x]
    BY <2>2 DEF With
  <2>4. Held(b, ubs, sis, 0, t, x, s, q)
    BY <2>3, HeldZero
  <2> QED BY <1>1, <2>3, <2>4
<1>7. CASE Old(j, r)
  BY <1>6, <1>7
<1>8. ASSUME NEW k \in 1 .. n, New(k, j, r), \A y \in With(c, s) : ~(q <= c.pos[y]), q # r
      PROVE  \E x \in Cells, m \in 0 .. n : Held(b, ubs, sis, m, t, x, s, q)
  <2>1. PICK e \in DOMAIN ubs[k][t] : s \in ubs[k][t][e].seqs /\ ubs[k][t][e].pos = r
    BY <1>4, <1>8
  <2>2. \A y \in With(c, s) : c.pos[y] < q
    BY <1>5, <1>8
  <2>3. k \in DOMAIN ubs /\ t \in DOMAIN ubs[k] /\ q < ubs[k][t][e].pos
    BY <1>4, <1>8, <2>1
  <2>4. Submitted(ubs, k, t, s, q)
    BY <2>1, <2>2, <2>3 DEF Consecutive
  <2>5. PICK l \in DOMAIN ubs : /\ t \in DOMAIN ubs[l]
                                /\ \E a \in DOMAIN ubs[l][t] : s \in ubs[l][t][a].seqs
                                                               /\ ubs[l][t][a].pos = q
    BY <2>4 DEF Submitted
  <2>6. PICK a \in DOMAIN ubs[l][t] : s \in ubs[l][t][a].seqs /\ ubs[l][t][a].pos = q
    BY <2>5
  <2>7. l \in DOMAIN sis
    BY <1>1
  <2>8. PICK x \in Cells : InSlot(sis[l], t, x) /\ At(sis[l][t], ubs[l][t])[x] = ubs[l][t][a]
    BY <2>5, <2>7, SlotHasToken
  <2> DEFINE m == l - 1
  <2>9. m \in Nat /\ m + 1 = l /\ l \in 0 .. n
    BY <1>1
  <2> HIDE DEF m
  <2>10. Held(b, ubs, sis, m + 1, t, x, s, q)
    BY <2>6, <2>8, <2>9, HeldNew
  <2> QED BY <2>9, <2>10
<1>9. CASE q = r
  BY <1>1, <1>9
<1> QED BY <1>3, <1>6, <1>7, <1>8, <1>9

\* The last ubatch of a call: a position that is missing was taken by a slot, and
\* then everything below it is gone too.
LEMMA SuccessGapless ==
    ASSUME IInv, WindowInv, DecodeUbatch, done + 1 = Len(ubatches), ~did_optimize,
           NEW t \in Streams, NEW s \in Seqs, Gapless(before[t], s)
    PROVE  Gapless(v_cells'[t], s)
<1> DEFINE n == done + 1
           d == v_cells'
<1>1. phase = "decode" /\ d = apply_cells(sinfos[n], ubatches[n])
  BY DEF DecodeUbatch
<1>2. /\ n \in Nat /\ n = Len(sinfos) /\ Len(sinfos) = Len(ubatches)
      /\ CellsInv(before) /\ CallOK(before, ubatches, sinfos) /\ CellsInv(d)
      /\ AllFaithful(before, ubatches, sinfos, n, d) /\ Purged(before, ubatches, sinfos, n, d)
  BY <1>1, WindowNext
<1>3. Consecutive(ubatches, before)
  BY <1>1 DEF WindowInv
<1> HIDE DEF n, d
<1> SUFFICES ASSUME NEW i \in With(d[t], s), NEW j \in With(d[t], s), NEW q \in Nat,
                    d[t].pos[i] <= q, q <= d[t].pos[j]
             PROVE  \E k \in With(d[t], s) : d[t].pos[k] = q
  BY DEF Gapless, d
<1>4. i \in Cells /\ j \in Cells /\ d[t].pos[i] \in Nat /\ d[t].pos[j] \in Nat
  <2>1. d[t] \in CellsType /\ CellsOK(d[t])
    BY <1>2 DEF CellsInv, StreamOK
  <2> QED BY <2>1, OccupiedNotEmpty DEF With
<1>5. /\ Held(before, ubatches, sinfos, n, t, i, s, d[t].pos[i])
      /\ Held(before, ubatches, sinfos, n, t, j, s, d[t].pos[j])
  BY <1>2, <1>4 DEF AllFaithful, Faithful, With
<1>6. PICK x \in Cells, m \in 0 .. n : Held(before, ubatches, sinfos, m, t, x, s, q)
  BY <1>2, <1>3, <1>4, <1>5, BetweenWasHeld
<1>7. ASSUME NEW h \in 1 .. n, Taken(before, ubatches, sinfos, h, t, s, q) PROVE FALSE
  <2>1. q < d[t].pos[i]
    BY <1>2, <1>7 DEF Purged
  <2> QED BY <1>4, <2>1
<1>8. CASE Held(before, ubatches, sinfos, n, t, x, s, q)
  <2>1. CASE s \in d[t].seq[x]
    <3>1. Held(before, ubatches, sinfos, n, t, x, s, d[t].pos[x])
      BY <1>2, <2>1 DEF AllFaithful, Faithful
    <3>2. d[t].pos[x] = q
      BY <1>2, <1>8, <3>1, HeldUnique
    <3> QED BY <2>1, <3>2 DEF With
  <2>2. CASE s \notin d[t].seq[x]
    <3>1. Lost(before, ubatches, sinfos, n, t, x, s, q)
      BY <1>2, <1>8, <2>2 DEF AllFaithful, Faithful
    <3> QED BY <1>2, <1>7, <3>1 DEF Lost
  <2> QED BY <2>1, <2>2
<1>9. ASSUME NEW h \in (m + 1) .. n, InSlot(sinfos[h], t, x),
             Held(before, ubatches, sinfos, h - 1, t, x, s, q)
      PROVE  FALSE
  <2>1. h \in 1 .. n
    BY <1>2
  <2>2. Taken(before, ubatches, sinfos, h, t, s, q)
    BY <1>9 DEF Taken
  <2> QED BY <1>7, <2>1, <2>2
<1> QED BY <1>2, <1>6, <1>8, <1>9, HeldUntil

\* A decode call that succeeds leaves no hole where there was none, in a cache
\* with any window.
THEOREM SuccessIsWhole == Spec => SuccessLeavesNoHoles
<1> DEFINE A == DecodeUbatch /\ done + 1 = Len(ubatches) /\ ~did_optimize /\ NoGaps(before)
           B == NoGaps(v_cells')
<1>1. ASSUME IInv, IInv', WindowInv, A PROVE B
  <2> SUFFICES ASSUME NEW s \in Seqs, v_cells'[seq_to_stream(s)].seq_pos[s] # {}
               PROVE  LET c == v_cells'[seq_to_stream(s)]
                      IN  SeqPositions(c, s) = seq_pos_min(c, s) .. seq_pos_max(c, s)
    BY DEF NoGaps
  <2> DEFINE t == seq_to_stream(s)
  <2>1. t \in Streams
    BY StreamOfSeq
  <2>2. phase # "idle"
    BY <1>1 DEF DecodeUbatch
  <2>3. /\ before[t] \in CellsType /\ CellsOK(before[t])
        /\ before[t].seq_pos[s] # {} =>
             SeqPositions(before[t], s) = seq_pos_min(before[t], s) .. seq_pos_max(before[t], s)
    BY <1>1, <2>1, <2>2 DEF WindowInv, CellsInv, StreamOK, NoGaps
  <2>4. v_cells'[t] \in CellsType /\ CellsOK(v_cells'[t]) /\ v_cells'[t].seq_pos[s] # {}
    BY <1>1, <2>1 DEF IInv, CellsInv, StreamOK
  <2> HIDE DEF t
  <2>5. Gapless(before[t], s)
    BY <2>3, IntervalGapless
  <2>6. Gapless(v_cells'[t], s)
    BY <1>1, <2>1, <2>5, SuccessGapless
  <2>7. SeqPositions(v_cells'[t], s) = seq_pos_min(v_cells'[t], s) .. seq_pos_max(v_cells'[t], s)
    BY <2>4, <2>6, GaplessInterval
  <2> QED BY <2>7 DEF t
<1> HIDE DEF A, B
<1>2. IInv /\ IInv' /\ WindowInv => [A => B]_vars
  BY <1>1
<1>3. Spec => [][A => B]_vars
  BY <1>2, WindowInductive, PTL
<1> QED BY <1>3 DEF SuccessLeavesNoHoles, A, B

=============================================================================
