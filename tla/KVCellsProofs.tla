--------------------------- MODULE KVCellsProofs ---------------------------
EXTENDS KVCells, TLAPS

\* A freshly reset llama_kv_cells object is well formed.
LEMMA ResetOK == reset \in CellsType /\ CellsOK(reset)
BY CellsAssumption DEF reset, CellsType, CellsOK, UsedOK, SeqPosOK, EmptyOK, ShiftOK, Entries

\* Blanking the rows of I (reset_cell) keeps the types of the fields.
LEMMA BlankType ==
    ASSUME NEW c \in CellsType, NEW I \in SUBSET Cells,
           NEW sp \in [Seqs -> SUBSET (Nat \X Cells)]
    PROVE  Blank(c, I, sp) \in CellsType
<1>1. Fill(c.pos, I, -1) \in [Cells -> Nat \cup {-1}]
  BY DEF Fill, CellsType
<1>2. Fill(c.tok, I, NoTok) \in [Cells -> Tokens \cup {NoTok}]
  BY DEF Fill, CellsType
<1>3. Fill(c.shift, I, 0) \in [Cells -> Int]
  BY DEF Fill, CellsType
<1>4. Fill(c.seq, I, {}) \in [Cells -> SUBSET Seqs]
  BY DEF Fill, CellsType
<1>5. c.used \ I \in SUBSET Cells /\ c.has_shift \in BOOLEAN
  BY DEF CellsType
<1> QED BY <1>1, <1>2, <1>3, <1>4, <1>5 DEF Blank, CellsType

\* SeqPosOK, one pair at a time.
PairsOK(c) ==
    \A s \in Seqs, p \in Nat, i \in Cells :
        <<p, i>> \in c.seq_pos[s] <=> s \in c.seq[i] /\ p = c.pos[i]

\* seq_pos agrees with the cells exactly when its pairs do, one by one.
LEMMA PairsIff ==
    ASSUME NEW c \in CellsType, EmptyOK(c)
    PROVE  SeqPosOK(c) <=> PairsOK(c)
<1>1. \A s \in Seqs : Entries(c, Cells, s) \subseteq Nat \X Cells
  BY DEF CellsType, EmptyOK, Entries
<1>2. \A s \in Seqs, p \in Nat, i \in Cells :
        <<p, i>> \in Entries(c, Cells, s) <=> s \in c.seq[i] /\ p = c.pos[i]
  BY DEF Entries
<1>3. \A s \in Seqs : c.seq_pos[s] \subseteq Nat \X Cells
  BY DEF CellsType
<1>4. ASSUME PairsOK(c), NEW s \in Seqs PROVE c.seq_pos[s] = Entries(c, Cells, s)
  <2>1. ASSUME NEW p \in Nat, NEW i \in Cells
        PROVE  <<p, i>> \in c.seq_pos[s] <=> <<p, i>> \in Entries(c, Cells, s)
    <3>1. <<p, i>> \in c.seq_pos[s] <=> s \in c.seq[i] /\ p = c.pos[i]
      BY <1>4 DEF PairsOK
    <3> QED BY <1>2, <3>1
  <2>2. \A S, T \in SUBSET (Nat \X Cells) :
          (\A p \in Nat, i \in Cells : <<p, i>> \in S <=> <<p, i>> \in T) => S = T
    OBVIOUS
  <2>3. c.seq_pos[s] \in SUBSET (Nat \X Cells) /\ Entries(c, Cells, s) \in SUBSET (Nat \X Cells)
    BY <1>1, <1>3
  <2> QED BY <2>1, <2>2, <2>3
<1> QED BY <1>2, <1>4 DEF SeqPosOK, PairsOK

\* The pairs that seq_pos_rm leaves.
LEMMA SeqPosRmPairs ==
    ASSUME NEW c \in CellsType, CellsOK(c), NEW I \in SUBSET Cells
    PROVE  /\ seq_pos_rm(c, I) \in [Seqs -> SUBSET (Nat \X Cells)]
           /\ \A s \in Seqs, p \in Nat, i \in Cells :
                <<p, i>> \in seq_pos_rm(c, I)[s] <=>
                   i \notin I /\ s \in c.seq[i] /\ p = c.pos[i]
<1>1. seq_pos_rm(c, I) \in [Seqs -> SUBSET (Nat \X Cells)]
  BY DEF seq_pos_rm, CellsType
<1>2. PairsOK(c)
  BY PairsIff DEF CellsOK
<1>3. \A s \in Seqs, p \in Nat, i \in Cells :
        <<p, i>> \in Entries(c, I, s) <=> i \in I /\ s \in c.seq[i] /\ p = c.pos[i]
  BY DEF Entries
<1> QED BY <1>1, <1>2, <1>3 DEF seq_pos_rm, PairsOK

\* rm keeps the indexes in agreement with the cells.
LEMMA RmOK ==
    ASSUME NEW c \in CellsType, CellsOK(c), NEW I \in SUBSET Cells
    PROVE  rm(c, I) \in CellsType /\ CellsOK(rm(c, I))
<1>1. rm(c, I) \in CellsType
  BY SeqPosRmPairs, BlankType DEF rm
<1>2. UsedOK(rm(c, I))
  BY DEF rm, Blank, Fill, CellsType, CellsOK, UsedOK
<1>3. EmptyOK(rm(c, I)) /\ ShiftOK(rm(c, I))
  BY DEF rm, Blank, Fill, CellsType, CellsOK, EmptyOK, ShiftOK
<1>4. PairsOK(rm(c, I))
  <2> SUFFICES ASSUME NEW s \in Seqs, NEW p \in Nat, NEW i \in Cells
               PROVE  <<p, i>> \in rm(c, I).seq_pos[s] <=>
                        s \in rm(c, I).seq[i] /\ p = rm(c, I).pos[i]
    BY DEF PairsOK
  <2>1. rm(c, I).seq_pos[s] = seq_pos_rm(c, I)[s]
    BY DEF rm, Blank
  <2>2. /\ rm(c, I).seq[i] = IF i \in I THEN {} ELSE c.seq[i]
        /\ rm(c, I).pos[i] = IF i \in I THEN -1 ELSE c.pos[i]
    BY DEF rm, Blank, Fill
  <2> QED BY <2>1, <2>2, SeqPosRmPairs
<1> QED BY <1>1, <1>2, <1>3, <1>4, PairsIff DEF CellsOK

\* reset_shift keeps the indexes in agreement with the cells.
LEMMA ResetShiftOK ==
    ASSUME NEW c \in CellsType, CellsOK(c)
    PROVE  reset_shift(c) \in CellsType /\ CellsOK(reset_shift(c))
<1>1. [i \in Cells |-> 0] \in [Cells -> Int]
  OBVIOUS
<1>2. reset_shift(c) \in CellsType
  BY <1>1 DEF reset_shift, CellsType
<1>3. /\ reset_shift(c).pos = c.pos /\ reset_shift(c).seq = c.seq
      /\ reset_shift(c).used = c.used /\ reset_shift(c).seq_pos = c.seq_pos
      /\ reset_shift(c).shift = [i \in Cells |-> 0]
  BY DEF reset_shift, CellsType
<1> QED BY <1>2, <1>3 DEF CellsOK, UsedOK, SeqPosOK, EmptyOK, ShiftOK, Entries

\* seq_rm keeps them, whether the sequence was the last of the cell or not.
LEMMA SeqRmOK ==
    ASSUME NEW c \in CellsType, CellsOK(c), NEW R
    PROVE  seq_rm(c, R) \in CellsType /\ CellsOK(seq_rm(c, R))
<1> DEFINE left == [i \in Cells |-> c.seq[i] \ {s \in Seqs : <<i, s>> \in R}]
           gone == {i \in Cells : c.seq[i] # {} /\ left[i] = {}}
           sp == [s \in Seqs |-> c.seq_pos[s] \
                    {<<c.pos[i], i>> : i \in {j \in Cells : <<j, s>> \in R}}]
           d == seq_rm(c, R)
<1>1. left \in [Cells -> SUBSET Seqs] /\ sp \in [Seqs -> SUBSET (Nat \X Cells)]
  BY DEF CellsType
<1>2. [c EXCEPT !.seq = left] \in CellsType
  BY <1>1 DEF CellsType
<1>3. d = Blank([c EXCEPT !.seq = left], gone, sp)
  BY DEF seq_rm
<1>4. d \in CellsType
  <2>1. gone \in SUBSET Cells
    OBVIOUS
  <2> HIDE DEF left, gone, sp, d
  <2> QED BY <1>1, <1>2, <1>3, <2>1, BlankType
<1>5. /\ d.pos = Fill(c.pos, gone, -1) /\ d.shift = Fill(c.shift, gone, 0)
      /\ d.seq = Fill(left, gone, {}) /\ d.used = c.used \ gone
      /\ d.seq_pos = sp /\ d.has_shift = c.has_shift
  BY <1>3 DEF Blank, CellsType
<1> HIDE DEF d
<1>6. UsedOK(d)
  BY <1>5 DEF Fill, CellsOK, UsedOK, CellsType
<1>7. EmptyOK(d) /\ ShiftOK(d)
  BY <1>5 DEF Fill, CellsOK, EmptyOK, ShiftOK, CellsType
<1>8. PairsOK(d)
  <2> SUFFICES ASSUME NEW s \in Seqs, NEW p \in Nat, NEW i \in Cells
               PROVE  <<p, i>> \in d.seq_pos[s] <=> s \in d.seq[i] /\ p = d.pos[i]
    BY DEF PairsOK
  <2>1. <<p, i>> \in c.seq_pos[s] <=> s \in c.seq[i] /\ p = c.pos[i]
    BY PairsIff DEF CellsOK, PairsOK
  <2>2. <<p, i>> \in {<<c.pos[k], k>> : k \in {j \in Cells : <<j, s>> \in R}} <=>
          p = c.pos[i] /\ <<i, s>> \in R
    OBVIOUS
  <2>3. s \in d.seq[i] <=> s \in c.seq[i] /\ <<i, s>> \notin R
    BY <1>5 DEF Fill
  <2>4. i \notin gone => d.pos[i] = c.pos[i]
    BY <1>5 DEF Fill
  <2>5. i \in gone => ~(s \in c.seq[i] /\ <<i, s>> \notin R)
    OBVIOUS
  <2>6. <<p, i>> \in sp[s] <=> s \in c.seq[i] /\ p = c.pos[i] /\ <<i, s>> \notin R
    BY <2>1, <2>2
  <2> HIDE DEF sp, gone
  <2> QED BY <1>5, <2>3, <2>4, <2>5, <2>6
<1> QED BY <1>4, <1>6, <1>7, <1>8, PairsIff DEF CellsOK, d

\* seq_keep keeps them, for the cells it keeps and the ones it frees.
LEMMA SeqKeepOK ==
    ASSUME NEW c \in CellsType, CellsOK(c), NEW s \in Seqs
    PROVE  seq_keep(c, s) \in CellsType /\ CellsOK(seq_keep(c, s))
<1> DEFINE kept == {i \in Cells : s \in c.seq[i]}
           gone == {i \in Cells : s \notin c.seq[i] /\ c.seq[i] # {}}
           sp == [t \in Seqs |-> (c.seq_pos[t] \ Entries(c, kept \cup gone, t))
                                 \cup (IF t = s THEN Entries(c, kept, s) ELSE {})]
           d == seq_keep(c, s)
<1>1. Fill(c.seq, kept, {s}) \in [Cells -> SUBSET Seqs]
  BY DEF CellsType, Fill
<1>2. Entries(c, kept, s) \subseteq Nat \X Cells
  BY DEF Entries, CellsType, CellsOK, EmptyOK
<1>3. sp \in [Seqs -> SUBSET (Nat \X Cells)]
  BY <1>2 DEF CellsType
<1>4. [c EXCEPT !.seq = Fill(c.seq, kept, {s})] \in CellsType
  BY <1>1 DEF CellsType
<1>5. d = Blank([c EXCEPT !.seq = Fill(c.seq, kept, {s})], gone, sp)
  BY DEF seq_keep
<1>6. d \in CellsType
  BY <1>3, <1>4, <1>5, BlankType
<1>7. /\ d.pos = Fill(c.pos, gone, -1) /\ d.shift = Fill(c.shift, gone, 0)
      /\ d.seq = Fill(Fill(c.seq, kept, {s}), gone, {}) /\ d.used = c.used \ gone
      /\ d.seq_pos = sp /\ d.has_shift = c.has_shift
  BY <1>5 DEF Blank, CellsType
<1> HIDE DEF d
<1>8. UsedOK(d)
  BY <1>7 DEF Fill, CellsOK, UsedOK, CellsType
<1>9. EmptyOK(d) /\ ShiftOK(d)
  BY <1>7 DEF Fill, CellsOK, EmptyOK, ShiftOK, CellsType
<1>10. PairsOK(d)
  <2> SUFFICES ASSUME NEW t \in Seqs, NEW p \in Nat, NEW i \in Cells
               PROVE  <<p, i>> \in d.seq_pos[t] <=> t \in d.seq[i] /\ p = d.pos[i]
    BY DEF PairsOK
  <2>1. <<p, i>> \in c.seq_pos[t] <=> t \in c.seq[i] /\ p = c.pos[i]
    BY PairsIff DEF CellsOK, PairsOK
  <2>2. \A u \in Seqs, I \in SUBSET Cells :
          <<p, i>> \in Entries(c, I, u) <=> i \in I /\ u \in c.seq[i] /\ p = c.pos[i]
    BY DEF Entries
  <2>3. <<p, i>> \in sp[t] <=> t = s /\ s \in c.seq[i] /\ p = c.pos[i]
    <3>1. <<p, i>> \in Entries(c, kept \cup gone, t) <=> t \in c.seq[i] /\ p = c.pos[i]
      BY <2>2
    <3>2. <<p, i>> \in Entries(c, kept, s) <=> s \in c.seq[i] /\ p = c.pos[i]
      BY <2>2
    <3> QED BY <2>1, <3>1, <3>2
  <2>4. t \in d.seq[i] <=> t = s /\ s \in c.seq[i]
    BY <1>7 DEF Fill
  <2>5. s \in c.seq[i] => d.pos[i] = c.pos[i]
    BY <1>7 DEF Fill
  <2> QED BY <1>7, <2>3, <2>4, <2>5
<1> QED BY <1>6, <1>8, <1>9, <1>10, PairsIff DEF CellsOK, d

\* Indexed(c, I): c.seq_pos already holds the pairs of the other cells.
LEMMA IndexedOK ==
    ASSUME NEW c \in CellsType, NEW I \in SUBSET Cells,
           UsedOK(c), EmptyOK(c), ShiftOK(c),
           \A i \in I : c.pos[i] # -1,
           \A s \in Seqs, p \in Nat, i \in Cells :
              <<p, i>> \in c.seq_pos[s] <=> i \notin I /\ s \in c.seq[i] /\ p = c.pos[i]
    PROVE  Indexed(c, I) \in CellsType /\ CellsOK(Indexed(c, I))
<1> DEFINE d == Indexed(c, I)
<1>1. \A s \in Seqs : Entries(c, I, s) \subseteq Nat \X Cells
  BY DEF Entries, CellsType, EmptyOK
<1>2. seq_pos_add(c, I) \in [Seqs -> SUBSET (Nat \X Cells)]
  BY <1>1 DEF seq_pos_add, CellsType
<1>3. d \in CellsType
  BY <1>2 DEF Indexed, CellsType
<1>4. /\ d.pos = c.pos /\ d.seq = c.seq /\ d.used = c.used /\ d.shift = c.shift
      /\ d.has_shift = c.has_shift /\ d.seq_pos = seq_pos_add(c, I)
  BY DEF Indexed, CellsType
<1> HIDE DEF d
<1>5. UsedOK(d) /\ EmptyOK(d) /\ ShiftOK(d)
  BY <1>4 DEF UsedOK, EmptyOK, ShiftOK
<1>6. PairsOK(d)
  <2> SUFFICES ASSUME NEW s \in Seqs, NEW p \in Nat, NEW i \in Cells
               PROVE  <<p, i>> \in d.seq_pos[s] <=> s \in d.seq[i] /\ p = d.pos[i]
    BY DEF PairsOK
  <2>1. <<p, i>> \in Entries(c, I, s) <=> i \in I /\ s \in c.seq[i] /\ p = c.pos[i]
    BY DEF Entries
  <2>2. d.seq_pos[s] = c.seq_pos[s] \cup Entries(c, I, s)
    BY <1>4 DEF seq_pos_add
  <2> QED BY <1>4, <2>1, <2>2
<1> QED BY <1>3, <1>5, <1>6, PairsIff DEF CellsOK, d

\* seq_add to occupied cells keeps the indexes in agreement.
LEMMA SeqAddOK ==
    ASSUME NEW c \in CellsType, CellsOK(c), NEW s \in Seqs,
           NEW I \in SUBSET Cells, \A i \in I : c.pos[i] # -1
    PROVE  seq_add(c, I, s) \in CellsType /\ CellsOK(seq_add(c, I, s))
<1> DEFINE sq == [i \in Cells |-> IF i \in I THEN c.seq[i] \cup {s} ELSE c.seq[i]]
           E  == {<<c.pos[i], i>> : i \in I}
           sp == [c.seq_pos EXCEPT ![s] = @ \cup E]
           d  == seq_add(c, I, s)
<1>1. sq \in [Cells -> SUBSET Seqs]
  BY DEF CellsType
<1>2. E \subseteq Nat \X Cells
  BY DEF CellsType
<1>3. c.seq_pos \in [Seqs -> SUBSET (Nat \X Cells)]
  BY DEF CellsType
<1>4. sp \in [Seqs -> SUBSET (Nat \X Cells)]
  <2> HIDE DEF E
  <2> QED BY <1>2, <1>3
<1>5. d = [c EXCEPT !.seq = sq, !.seq_pos = sp]
  BY DEF seq_add
<1>6. /\ d.pos = c.pos /\ d.seq = sq /\ d.used = c.used /\ d.shift = c.shift
      /\ d.has_shift = c.has_shift /\ d.seq_pos = sp
  BY <1>5 DEF CellsType
<1>7. d \in CellsType
  <2> HIDE DEF sq, sp, d
  <2> QED BY <1>1, <1>4, <1>5 DEF CellsType
<1> HIDE DEF d
<1>8. UsedOK(d) /\ EmptyOK(d) /\ ShiftOK(d)
  BY <1>6 DEF UsedOK, EmptyOK, ShiftOK, CellsOK
<1>9. PairsOK(d)
  <2> SUFFICES ASSUME NEW t \in Seqs, NEW p \in Nat, NEW i \in Cells
               PROVE  <<p, i>> \in d.seq_pos[t] <=> t \in d.seq[i] /\ p = d.pos[i]
    BY DEF PairsOK
  <2>1. <<p, i>> \in c.seq_pos[t] <=> t \in c.seq[i] /\ p = c.pos[i]
    BY PairsIff DEF CellsOK, PairsOK
  <2>2. <<p, i>> \in E <=> i \in I /\ p = c.pos[i]
    OBVIOUS
  <2>3. sp[t] = IF t = s THEN c.seq_pos[t] \cup E ELSE c.seq_pos[t]
    BY <1>3
  <2>4. t \in d.seq[i] <=> t \in c.seq[i] \/ (t = s /\ i \in I)
    BY <1>6
  <2> HIDE DEF E, sp, sq
  <2> QED BY <1>6, <2>1, <2>2, <2>3, <2>4
<1> QED BY <1>7, <1>8, <1>9, PairsIff DEF CellsOK, d

\* What place puts in the cells.
PlaceRow == [pos : Nat, tok : Tokens \cup {NoTok}, seqs : (SUBSET Seqs) \ {{}}]

\* pos_set and seq_add on empty cells, as apply_ubatch uses them, keep them.
LEMMA PlaceOK ==
    ASSUME NEW c \in CellsType, CellsOK(c),
           NEW I \in SUBSET Cells, NEW at \in [I -> PlaceRow],
           \A i \in I : c.pos[i] = -1
    PROVE  /\ place(c, at) \in CellsType
           /\ CellsOK(place(c, at))
           /\ place(c, at).shift = c.shift
           /\ \A i \in Cells :
                /\ place(c, at).pos[i] = IF i \in I THEN at[i].pos ELSE c.pos[i]
                /\ place(c, at).seq[i] = IF i \in I THEN at[i].seqs ELSE c.seq[i]
<1> DEFINE ps == [i \in Cells |-> IF i \in I THEN at[i].pos ELSE c.pos[i]]
           tk == [i \in Cells |-> IF i \in I THEN at[i].tok ELSE c.tok[i]]
           sq == [i \in Cells |-> IF i \in I THEN at[i].seqs ELSE c.seq[i]]
           us == c.used \cup I
           e  == [c EXCEPT !.pos = ps, !.tok = tk, !.seq = sq, !.used = us]
<1>0. \A i \in I : /\ at[i].pos \in Nat /\ at[i].tok \in Tokens \cup {NoTok}
                   /\ at[i].seqs \in SUBSET Seqs /\ at[i].seqs # {}
  BY DEF PlaceRow
<1>1. /\ ps \in [Cells -> Nat \cup {-1}] /\ tk \in [Cells -> Tokens \cup {NoTok}]
      /\ sq \in [Cells -> SUBSET Seqs] /\ us \in SUBSET Cells
  BY <1>0 DEF CellsType
<1>2. DOMAIN at = I
  OBVIOUS
<1>3. place(c, at) = Indexed(e, I)
  BY <1>2 DEF place
<1>4. /\ e.pos = ps /\ e.tok = tk /\ e.seq = sq /\ e.used = us /\ e.shift = c.shift
      /\ e.has_shift = c.has_shift /\ e.seq_pos = c.seq_pos
  BY DEF CellsType
<1>5. e \in CellsType
  <2> HIDE DEF ps, tk, sq, us
  <2> QED BY <1>1 DEF CellsType
<1> HIDE DEF e
<1>6. UsedOK(e)
  BY <1>0, <1>4 DEF UsedOK, CellsOK, CellsType
<1>7. EmptyOK(e) /\ ShiftOK(e)
  BY <1>0, <1>4 DEF EmptyOK, ShiftOK, CellsOK, CellsType
<1>8. \A i \in I : e.pos[i] # -1
  BY <1>0, <1>4
<1>9. ASSUME NEW s \in Seqs, NEW p \in Nat, NEW i \in Cells
      PROVE  <<p, i>> \in e.seq_pos[s] <=> i \notin I /\ s \in e.seq[i] /\ p = e.pos[i]
  <2>1. <<p, i>> \in c.seq_pos[s] <=> s \in c.seq[i] /\ p = c.pos[i]
    BY PairsIff DEF CellsOK, PairsOK
  <2>2. i \in I => c.seq[i] = {}
    BY DEF CellsOK, EmptyOK
  <2> QED BY <1>4, <2>1, <2>2
<1>10. Indexed(e, I) \in CellsType /\ CellsOK(Indexed(e, I))
  BY <1>5, <1>6, <1>7, <1>8, <1>9, IndexedOK
<1>11. Indexed(e, I).shift = e.shift /\ Indexed(e, I).pos = e.pos /\ Indexed(e, I).seq = e.seq
  BY <1>5 DEF Indexed, CellsType
<1> QED BY <1>3, <1>4, <1>10, <1>11

\* pos_add keeps them, also where a position drops below 0 and the cell is freed.
LEMMA PosAddOK ==
    ASSUME NEW c \in CellsType, CellsOK(c), NEW d \in Int,
           NEW I \in SUBSET Cells, \A i \in I : c.pos[i] # -1
    PROVE  pos_add(c, I, d) \in CellsType /\ CellsOK(pos_add(c, I, d))
<1> DEFINE gone == {i \in I : c.pos[i] + d < 0}
           add(f, none) == [i \in Cells |-> IF i \in gone THEN none
                                            ELSE IF i \in I THEN f[i] + d ELSE f[i]]
           ps == add(c.pos, -1)
           sh == add(c.shift, 0)
           sq == Fill(c.seq, gone, {})
           us == c.used \ gone
           sp == seq_pos_rm(c, I)
           hs == c.has_shift \/ I # {}
           e  == [c EXCEPT !.seq_pos = sp, !.pos = ps, !.shift = sh, !.has_shift = hs,
                           !.seq = sq, !.used = us]
<1>1. /\ ps \in [Cells -> Nat \cup {-1}] /\ sh \in [Cells -> Int]
      /\ us \in SUBSET Cells /\ hs \in BOOLEAN
  BY DEF CellsType
<1>2. sq \in [Cells -> SUBSET Seqs]
  BY DEF CellsType, Fill
<1>3. /\ sp \in [Seqs -> SUBSET (Nat \X Cells)]
      /\ \A s \in Seqs, p \in Nat, i \in Cells :
           <<p, i>> \in sp[s] <=> i \notin I /\ s \in c.seq[i] /\ p = c.pos[i]
  BY SeqPosRmPairs
<1>4. [Moved(c, I, ps, sh) EXCEPT !.seq = sq, !.used = @ \ gone] = e
  BY DEF Moved, CellsType
<1>5. pos_add(c, I, d) = Indexed(e, I \ gone)
  BY <1>4 DEF pos_add
<1>6. /\ e.pos = ps /\ e.seq = sq /\ e.used = us /\ e.shift = sh
      /\ e.has_shift = hs /\ e.seq_pos = sp
  BY DEF CellsType
<1>7. e \in CellsType
  <2> HIDE DEF ps, sq, us, sp, hs, sh
  <2> QED BY <1>1, <1>2, <1>3 DEF CellsType
<1> HIDE DEF e
<1>8. UsedOK(e)
  BY <1>6 DEF UsedOK, CellsOK, CellsType
<1>9. EmptyOK(e)
  BY <1>6 DEF EmptyOK, Fill, CellsOK, CellsType
<1>10. ShiftOK(e)
  <2> SUFFICES ASSUME NEW i \in Cells
               PROVE  /\ e.pos[i] = -1 => e.shift[i] = 0
                      /\ e.shift[i] # 0 => e.has_shift
    BY DEF ShiftOK
  <2>1. CASE i \in I
    <3>1. e.has_shift
      BY <1>6, <2>1
    <3>2. e.pos[i] = -1 => e.shift[i] = 0
      BY <1>6, <2>1 DEF CellsType
    <3> QED BY <3>1, <3>2
  <2>2. CASE i \notin I
    <3>1. e.pos[i] = c.pos[i] /\ e.shift[i] = c.shift[i]
      BY <1>6, <2>2
    <3>2. c.has_shift => e.has_shift
      BY <1>6
    <3> QED BY <3>1, <3>2 DEF CellsOK, ShiftOK
  <2> QED BY <2>1, <2>2
<1>11. \A i \in I \ gone : e.pos[i] # -1
  BY <1>6 DEF CellsType
<1>12. ASSUME NEW s \in Seqs, NEW p \in Nat, NEW i \in Cells
       PROVE  <<p, i>> \in e.seq_pos[s] <=>
                i \notin I \ gone /\ s \in e.seq[i] /\ p = e.pos[i]
  <2>1. i \in gone => e.seq[i] = {}
    BY <1>6 DEF Fill
  <2>2. i \notin I => e.pos[i] = c.pos[i] /\ e.seq[i] = c.seq[i]
    BY <1>6 DEF Fill
  <2> QED BY <1>3, <1>6, <2>1, <2>2
<1> QED BY <1>5, <1>7, <1>8, <1>9, <1>10, <1>11, <1>12, IndexedOK

\* pos_div keeps the indexes in agreement with the cells.
LEMMA PosDivOK ==
    ASSUME NEW c \in CellsType, CellsOK(c), NEW d \in Nat \ {0},
           NEW I \in SUBSET Cells, \A i \in I : c.pos[i] # -1
    PROVE  pos_div(c, I, d) \in CellsType /\ CellsOK(pos_div(c, I, d))
<1> DEFINE ps == [i \in Cells |-> IF i \in I THEN c.pos[i] \div d ELSE c.pos[i]]
           sh == [i \in Cells |-> IF i \in I THEN c.shift[i] + (c.pos[i] - ps[i])
                                             ELSE c.shift[i]]
           sp == seq_pos_rm(c, I)
           hs == c.has_shift \/ I # {}
           e  == [c EXCEPT !.seq_pos = sp, !.pos = ps, !.shift = sh, !.has_shift = hs]
<1>0. \A n \in Nat : n \div d \in Nat
  <2> TAKE n \in Nat
  <2>1. n \div d \in Int /\ n = d * (n \div d) + (n % d) /\ n % d \in 0 .. (d - 1)
    OBVIOUS
  <2>2. \A q \in Int : q < 0 => d * q <= -d
    OBVIOUS
  <2> QED BY <2>1, <2>2
<1>1. ps \in [Cells -> Nat \cup {-1}] /\ \A i \in I : ps[i] \in Nat
  BY <1>0 DEF CellsType
<1>2. sh \in [Cells -> Int] /\ hs \in BOOLEAN
  <2> HIDE DEF ps
  <2> QED BY <1>1 DEF CellsType
<1>3. /\ sp \in [Seqs -> SUBSET (Nat \X Cells)]
      /\ \A s \in Seqs, p \in Nat, i \in Cells :
           <<p, i>> \in sp[s] <=> i \notin I /\ s \in c.seq[i] /\ p = c.pos[i]
  BY SeqPosRmPairs
<1>4. Moved(c, I, ps, sh) = e
  BY DEF Moved
<1>5. pos_div(c, I, d) = Indexed(e, I)
  BY <1>4 DEF pos_div
<1>6. /\ e.pos = ps /\ e.seq = c.seq /\ e.used = c.used /\ e.shift = sh
      /\ e.has_shift = hs /\ e.seq_pos = sp
  BY DEF CellsType
<1>7. e \in CellsType
  <2> HIDE DEF ps, sp, hs, sh
  <2> QED BY <1>1, <1>2, <1>3 DEF CellsType
<1>8. \A i \in Cells : i \notin I => ps[i] = c.pos[i] /\ sh[i] = c.shift[i]
  OBVIOUS
<1> HIDE DEF e, ps, sh
<1>9. UsedOK(e)
  BY <1>1, <1>6, <1>8 DEF UsedOK, CellsOK, CellsType
<1>10. EmptyOK(e)
  BY <1>1, <1>6, <1>8 DEF EmptyOK, CellsOK, CellsType
<1>11. ShiftOK(e)
  <2>1. ASSUME NEW i \in I PROVE e.pos[i] # -1 /\ e.has_shift
    <3>1. e.pos[i] # -1
      BY <1>1, <1>6
    <3>2. e.has_shift
      BY <1>6
    <3> QED BY <3>1, <3>2
  <2>2. c.has_shift => e.has_shift
    BY <1>6
  <2> QED BY <1>6, <1>8, <2>1, <2>2 DEF ShiftOK, CellsOK
<1>12. ASSUME NEW s \in Seqs, NEW p \in Nat, NEW i \in Cells
       PROVE  <<p, i>> \in e.seq_pos[s] <=> i \notin I /\ s \in e.seq[i] /\ p = e.pos[i]
  BY <1>3, <1>6, <1>8
<1> QED BY <1>1, <1>5, <1>6, <1>7, <1>9, <1>10, <1>11, <1>12, IndexedOK

\* What cp saves.
SavedRow == [pos : Nat \cup {-1}, tok : Tokens \cup {NoTok}, seqs : SUBSET Seqs]
RowsOK(rows, I) ==
    /\ rows \in [I -> SavedRow]
    /\ \A i \in I : rows[i].pos = -1 <=> rows[i].seqs = {}

\* The rows that cp copies for a later set are well formed.
LEMMA CpOK ==
    ASSUME NEW c \in CellsType, CellsOK(c), NEW I \in SUBSET Cells
    PROVE  RowsOK(cp(c, I), I)
BY DEF cp, RowsOK, SavedRow, CellsType, CellsOK, EmptyOK

\* set leaves shift alone, so the rows put back must cover cells without one.
LEMMA SetOK ==
    ASSUME NEW c \in CellsType, CellsOK(c), NEW I \in SUBSET Cells,
           NEW rows, RowsOK(rows, I), \A i \in I : c.shift[i] = 0
    PROVE  /\ set(c, rows) \in CellsType
           /\ CellsOK(set(c, rows))
           /\ set(c, rows).shift = c.shift
           /\ \A i \in Cells : set(c, rows).seq[i] = IF i \in I THEN rows[i].seqs ELSE c.seq[i]
<1> DEFINE ps == [i \in Cells |-> IF i \in I THEN rows[i].pos ELSE c.pos[i]]
           tk == [i \in Cells |-> IF i \in I THEN rows[i].tok ELSE c.tok[i]]
           sq == [i \in Cells |-> IF i \in I THEN rows[i].seqs ELSE c.seq[i]]
           full == {i \in I : rows[i].pos # -1}
           us == (c.used \ I) \cup full
           J  == {i \in I : c.pos[i] # -1}
           sp == seq_pos_rm(c, J)
           e  == [c EXCEPT !.used = us, !.seq_pos = sp, !.pos = ps, !.tok = tk, !.seq = sq]
<1>0. /\ DOMAIN rows = I
      /\ \A i \in I : /\ rows[i].pos \in Nat \cup {-1} /\ rows[i].tok \in Tokens \cup {NoTok}
                      /\ rows[i].seqs \in SUBSET Seqs
                      /\ rows[i].pos = -1 <=> rows[i].seqs = {}
  BY DEF RowsOK, SavedRow
<1>1. /\ ps \in [Cells -> Nat \cup {-1}] /\ tk \in [Cells -> Tokens \cup {NoTok}]
      /\ sq \in [Cells -> SUBSET Seqs] /\ us \in SUBSET Cells
  BY <1>0 DEF CellsType
<1>2. /\ sp \in [Seqs -> SUBSET (Nat \X Cells)]
      /\ \A s \in Seqs, p \in Nat, i \in Cells :
           <<p, i>> \in sp[s] <=> i \notin J /\ s \in c.seq[i] /\ p = c.pos[i]
  BY SeqPosRmPairs
<1>3. set(c, rows) = Indexed(e, full)
  BY <1>0 DEF set
<1>4. /\ e.pos = ps /\ e.seq = sq /\ e.used = us /\ e.shift = c.shift
      /\ e.has_shift = c.has_shift /\ e.seq_pos = sp
  BY DEF CellsType
<1>5. e \in CellsType
  <2> HIDE DEF ps, tk, sq, us, sp
  <2> QED BY <1>1, <1>2 DEF CellsType
<1> HIDE DEF e
<1>6. UsedOK(e)
  BY <1>0, <1>4 DEF UsedOK, CellsOK, CellsType
<1>7. EmptyOK(e) /\ ShiftOK(e)
  BY <1>0, <1>4 DEF EmptyOK, ShiftOK, CellsOK, CellsType
<1>8. \A i \in full : e.pos[i] # -1
  BY <1>4
<1>9. ASSUME NEW s \in Seqs, NEW p \in Nat, NEW i \in Cells
      PROVE  <<p, i>> \in e.seq_pos[s] <=> i \notin full /\ s \in e.seq[i] /\ p = e.pos[i]
  <2>1. i \notin I => e.pos[i] = c.pos[i] /\ e.seq[i] = c.seq[i]
    BY <1>4
  <2>2. i \in I /\ i \notin full => e.seq[i] = {}
    BY <1>0, <1>4
  <2>3. i \in I => ~(i \notin J /\ s \in c.seq[i])
    BY DEF CellsOK, EmptyOK
  <2> QED BY <1>2, <1>4, <2>1, <2>2, <2>3
<1>10. Indexed(e, full) \in CellsType /\ CellsOK(Indexed(e, full))
  BY <1>5, <1>6, <1>7, <1>8, <1>9, IndexedOK
<1>11. Indexed(e, full).shift = e.shift /\ Indexed(e, full).seq = e.seq
  BY <1>5 DEF Indexed, CellsType
<1>12. \A i \in Cells : e.seq[i] = IF i \in I THEN rows[i].seqs ELSE c.seq[i]
  BY <1>4
<1> HIDE DEF full
<1> QED BY <1>3, <1>4, <1>10, <1>11, <1>12
=============================================================================
