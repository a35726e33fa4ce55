------------------------------ MODULE KVCells ------------------------------
(***************************************************************************)
(* One llama_kv_cells object (src/src/llama-kv-cells.h): the metadata of   *)
(* the cells of one KV stream.  A cells object is a record c:              *)
(*                                                                         *)
(*   pos[i]      position of cell i, -1 when the cell is empty             *)
(*   tok[i]      the token kept in ext[i]                                  *)
(*   shift[i]    position shifts not yet applied to the K data             *)
(*   seq[i]      the sequences that occupy the cell (a bitset)             *)
(*   used        index: the cells that are not empty                       *)
(*   seq_pos[s]  index: one <<pos, cell>> pair per cell that carries s     *)
(*   has_shift   some shift may be non-zero                                *)
(*                                                                         *)
(* Every method of the class touches the row of one cell, the element i of *)
(* "used" and the pairs <<_, i>> of "seq_pos", so a loop of the cache that *)
(* calls a method on many cells is the method applied to the SET of those  *)
(* cells.  The operators below take that set.                              *)
(***************************************************************************)
EXTENDS Integers, SequencesExt

CONSTANTS
    NCells,     \* size(): number of cells of one stream
    NSeqs,      \* n_seq_max: sequence ids are 0 .. NSeqs-1
    Tokens,     \* token ids
    NoTok       \* LLAMA_TOKEN_NULL

ASSUME CellsAssumption ==
    /\ NCells \in Nat \ {0}
    /\ NSeqs \in Nat \ {0}
    /\ NoTok \notin Tokens

Cells == 0 .. (NCells - 1)
Seqs  == 0 .. (NSeqs - 1)

CellsType ==
    [pos       : [Cells -> Nat \cup {-1}],
     tok       : [Cells -> Tokens \cup {NoTok}],
     shift     : [Cells -> Int],
     seq       : [Cells -> SUBSET Seqs],
     used      : SUBSET Cells,
     seq_pos   : [Seqs -> SUBSET (Nat \X Cells)],
     has_shift : BOOLEAN]

-----------------------------------------------------------------------------
(* Reading a cells object. *)

is_empty(c, i) == c.pos[i] = -1

\* pos_in: the position of the cell is in [p0, p1).
pos_in(c, i, p0, p1) == c.pos[i] >= p0 /\ c.pos[i] < p1

\* seq_get, for a cell with exactly one sequence.
seq_get(c, i) == CHOOSE s \in Seqs : s \in c.seq[i]

SeqPositions(c, s) == {e[1] : e \in c.seq_pos[s]}

seq_pos_min(c, s) == IF c.seq_pos[s] = {} THEN -1 ELSE Min(SeqPositions(c, s))
seq_pos_max(c, s) == IF c.seq_pos[s] = {} THEN -1 ELSE Max(SeqPositions(c, s))

-----------------------------------------------------------------------------
(* The private index helpers, for every cell of I. *)

\* The pairs that the cells of I contribute to seq_pos[s].
Entries(c, I, s) == {<<c.pos[i], i>> : i \in {j \in I : s \in c.seq[j]}}

seq_pos_rm(c, I)  == [s \in Seqs |-> c.seq_pos[s] \ Entries(c, I, s)]
seq_pos_add(c, I) == [s \in Seqs |-> c.seq_pos[s] \cup Entries(c, I, s)]

-----------------------------------------------------------------------------
(* Changing a cells object. *)

reset ==
    [pos       |-> [i \in Cells |-> -1],
     tok       |-> [i \in Cells |-> NoTok],
     shift     |-> [i \in Cells |-> 0],
     seq       |-> [i \in Cells |-> {}],
     used      |-> {},
     seq_pos   |-> [s \in Seqs |-> {}],
     has_shift |-> FALSE]

reset_shift(c) ==
    [c EXCEPT !.has_shift = FALSE, !.shift = [i \in Cells |-> 0]]

\* f with the value v at the cells of I.
Fill(f, I, v) == [i \in Cells |-> IF i \in I THEN v ELSE f[i]]

\* The cells of I become empty; seq_pos is what the caller made of the index.
Blank(c, I, seq_pos) ==
    [pos       |-> Fill(c.pos, I, -1),
     tok       |-> Fill(c.tok, I, NoTok),
     shift     |-> Fill(c.shift, I, 0),
     seq       |-> Fill(c.seq, I, {}),
     used      |-> c.used \ I,
     seq_pos   |-> seq_pos,
     has_shift |-> c.has_shift]

\* rm(i) for every i in I; each is non-empty.
rm(c, I) == Blank(c, I, seq_pos_rm(c, I))

\* seq_rm(i, s) for every pair <<i, s>> of R; cell i carries s.
seq_rm(c, R) ==
    LET left == [i \in Cells |-> c.seq[i] \ {s \in Seqs : <<i, s>> \in R}]
        gone == {i \in Cells : c.seq[i] # {} /\ left[i] = {}}
    IN  Blank([c EXCEPT !.seq = left], gone,
              [s \in Seqs |-> c.seq_pos[s] \
                  {<<c.pos[i], i>> : i \in {j \in Cells : <<j, s>> \in R}}])

\* seq_keep(i, s) for every cell: a cell with s keeps only s, any other cell
\* that carries a sequence becomes empty.
seq_keep(c, s) ==
    LET kept == {i \in Cells : s \in c.seq[i]}
        gone == {i \in Cells : s \notin c.seq[i] /\ c.seq[i] # {}}
    IN  Blank([c EXCEPT !.seq = Fill(c.seq, kept, {s})], gone,
              [t \in Seqs |-> (c.seq_pos[t] \ Entries(c, kept \cup gone, t))
                              \cup (IF t = s THEN Entries(c, kept, s) ELSE {})])

\* seq_add(i, s) for every i in I; each is non-empty.
seq_add(c, I, s) ==
    [c EXCEPT !.seq = [i \in Cells |-> IF i \in I THEN c.seq[i] \cup {s}
                                                  ELSE c.seq[i]],
              !.seq_pos = [c.seq_pos EXCEPT ![s] = @ \cup {<<c.pos[i], i>> : i \in I}]]

\* Adding the pairs of the cells of I as they are in c.
Indexed(c, I) == [c EXCEPT !.seq_pos = seq_pos_add(c, I)]

\* pos_set, ext_set and seq_add for every cell of DOMAIN at, each of them
\* empty: at[i] is a token [pos, tok, seqs] placed in cell i.
place(c, at) ==
    LET put(f, g(_)) == [i \in Cells |-> IF i \in DOMAIN at THEN g(at[i]) ELSE f[i]]
    IN  Indexed([c EXCEPT !.pos  = put(c.pos, LAMBDA x : x.pos),
                          !.tok  = put(c.tok, LAMBDA x : x.tok),
                          !.seq  = put(c.seq, LAMBDA x : x.seqs),
                          !.used = @ \cup DOMAIN at],
                DOMAIN at)

\* Mutant: the pairs of the old positions stay in the index.
Bug_Moved(c, I, p, shift) ==
    [c EXCEPT !.pos = p, !.shift = shift, !.has_shift = c.has_shift \/ I # {}]

\* The cells of I at new positions p and with new shifts.
Moved(c, I, p, shift) ==
    [c EXCEPT !.seq_pos   = seq_pos_rm(c, I),
              !.pos       = p,
              !.shift     = shift,
              !.has_shift = c.has_shift \/ I # {}]

\* pos_add(i, d) for every i in I, each non-empty.  A cell whose position
\* becomes negative is emptied; its ext (tok) is left as it was.
pos_add(c, I, d) ==
    LET gone == {i \in I : c.pos[i] + d < 0}
        add(f, none) == [i \in Cells |-> IF i \in gone THEN none
                                         ELSE IF i \in I THEN f[i] + d ELSE f[i]]
    IN  Indexed([Moved(c, I, add(c.pos, -1), add(c.shift, 0))
                   EXCEPT !.seq = Fill(c.seq, gone, {}), !.used = @ \ gone],
                I \ gone)

\* pos_div(i, d) for every i in I, each non-empty.
pos_div(c, I, d) ==
    LET p == [i \in Cells |-> IF i \in I THEN c.pos[i] \div d ELSE c.pos[i]]
        shift == [i \in Cells |-> IF i \in I THEN c.shift[i] + (c.pos[i] - p[i])
                                             ELSE c.shift[i]]
    IN  Indexed(Moved(c, I, p, shift), I)

\* cp(idxs): the saved rows of the cells of I.  shift is not saved.
cp(c, I) == [i \in I |-> [pos |-> c.pos[i], tok |-> c.tok[i], seqs |-> c.seq[i]]]

\* set(idxs, other): the rows of the cells of DOMAIN rows are put back.
\* shift is left alone.
set(c, rows) ==
    LET I == DOMAIN rows
        full == {i \in I : rows[i].pos # -1}
        put(f, g(_)) == [i \in Cells |-> IF i \in I THEN g(rows[i]) ELSE f[i]]
    IN  Indexed([c EXCEPT !.used    = (@ \ I) \cup full,
                          !.seq_pos = seq_pos_rm(c, {i \in I : c.pos[i] # -1}),
                          !.pos     = put(c.pos, LAMBDA x : x.pos),
                          !.tok     = put(c.tok, LAMBDA x : x.tok),
                          !.seq     = put(c.seq, LAMBDA x : x.seqs)],
                full)

-----------------------------------------------------------------------------
(* What a search for free cells returns.                                   *)

\* The order in which the search from h visits the cells.
Rank(h, i) == IF i >= h THEN i - h ELSE i - h + NCells

\* idxs are the first cells of U in the order of the search from h.
IsSlot(U, h, idxs) ==
    /\ \A k \in DOMAIN idxs : idxs[k] \in U
    /\ \A j, k \in DOMAIN idxs : j < k => Rank(h, idxs[j]) < Rank(h, idxs[k])
    /\ \A i \in U : \/ \E k \in DOMAIN idxs : idxs[k] = i
                    \/ \A k \in DOMAIN idxs : Rank(h, idxs[k]) < Rank(h, i)

-----------------------------------------------------------------------------
(***************************************************************************)
(* The two indexes agree with the rows, an empty cell carries nothing, a   *)
(* cell that is not empty belongs to some sequence, and a non-zero shift   *)
(* is announced by has_shift: what every reader of the indexes             *)
(* (find_slot, get_n_kv, seq_pos_min/max) relies on.                       *)
(***************************************************************************)
UsedOK(c)   == c.used = {i \in Cells : c.pos[i] # -1}
SeqPosOK(c) == \A s \in Seqs : c.seq_pos[s] = Entries(c, Cells, s)
EmptyOK(c)  == \A i \in Cells : c.pos[i] = -1 <=> c.seq[i] = {}
ShiftOK(c)  == \A i \in Cells : /\ c.pos[i] = -1 => c.shift[i] = 0
                                /\ c.shift[i] # 0 => c.has_shift

CellsOK(c) == UsedOK(c) /\ SeqPosOK(c) /\ EmptyOK(c) /\ ShiftOK(c)
=============================================================================
