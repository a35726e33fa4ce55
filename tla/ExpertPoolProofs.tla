--------------------------- MODULE ExpertPoolProofs ---------------------------
(***************************************************************************)
(* What holds of the expert pool for every number of blocks, layers,       *)
(* experts and workers: the owner ledger and the free stack agree          *)
(* (LedgerOK), a layer believes only what the bytes are (SlotsAreTrue), a  *)
(* decode graph reads the experts its table names (TableIsTrue), the lend  *)
(* belongs to the graph that runs (LendIsOwned), the rows of the KV        *)
(* survive every move of the zone (KvIntact), and a pass finds its cell    *)
(* covered if the cap admits it (CellCovered), however tight the pool.     *)
(***************************************************************************)
EXTENDS ExpertPool, NaturalsInduction, WellFoundedInduction, TLAPS

-----------------------------------------------------------------------------
(* The types, as records. *)

Owners == Layers \cup {Free, Lent, Zone}
Slots == Blocks \cup {None}

PoolRec == [owner : [Blocks -> Owners], free : [Blocks -> Nat],
            blocked : 0 .. NBlocks, want : 0 .. NBlocks,
            starved : BOOLEAN, gave_back : BOOLEAN]
CacheRec == [slot_expert : [Layers -> [Blocks -> Experts \cup {None}]],
             expert_slot : [Experts -> Slots], table : [Experts -> Slots],
             in_flight : [Layers -> [Blocks -> BOOLEAN]],
             queued : [Experts -> BOOLEAN], adopt_slot : [Experts -> Slots],
             adopt_full : SUBSET Experts, adopt_victims : SUBSET Experts]
WorkerRec == [pc : {"idle"}] \cup
             [pc : {"gate", "enter", "copy", "copied", "failed"}, job : JobSet]
Contents == Experts \cup (0 .. MaxCells) \cup {Junk, Graph}
KvRec == [h : 0 .. NBlocks, start : 0 .. NBlocks, cells : 0 .. MaxCells,
          moving : SUBSET Blocks, seen : SUBSET Passes, dec_need : 0 .. NBlocks]

\* Before the zone takes its new blocks, and after.
Announced == {"moveWait", "take", "takeBlocks"}
Moving == {"move", "give", "moved"}
\* A pass between its plan and its graph.
Building == {"alias", "lend", "lendBlocks", "launch", "aborted"}
MainPcs == Announced \cup Moving \cup Building \cup
           {"idle", "slots", "next", "compute", "reheat", "sched"}
MainRec == [pc : MainPcs, next : {"idle", "slots", "alias"}, size : Passes,
            h : 0 .. NBlocks, l : 0 .. NBlocks, rows : Nat,
            plan : 0 .. MaxCells, last : 0 .. MaxCells, kept : SUBSET Blocks]

Types == /\ pool \in PoolRec /\ cache \in CacheRec
         /\ jobs \in [todo : SUBSET JobSet, done : SUBSET JobSet]
         /\ worker \in [Workers -> WorkerRec]
         /\ content \in [Blocks -> Contents]
         /\ kv \in KvRec /\ main \in MainRec

-----------------------------------------------------------------------------
(* The parts of the inductive invariant. *)

OldZone == Span(kv.start, kv.start + kv.h)

\* The blocks owned by the zone: its extent, while it moves both extents.
ZoneBlocks ==
    IF main.pc \in {"move", "give"} THEN OldZone \cup NewZone
    ELSE IF main.pc = "moved" THEN NewZone ELSE OldZone

\* The zone lies inside the pool; one that moves down comes to lie at the pool's end.
ZoneInv ==
    /\ main.pc # "moved" => kv.start + kv.h <= NBlocks
    /\ main.pc = "moved" => kv.h = main.h
    /\ main.pc \in Announced \cup Moving => main.l + main.h <= NBlocks
    /\ main.pc \in Announced /\ main.l < kv.start => main.l + main.h = NBlocks
    /\ \A b \in Blocks : pool.owner[b] = Zone <=> b \in ZoneBlocks

\* The lend is a prefix of the pool, in front of the zone, and as long as its graph needs.
LendInv ==
    /\ \A b \in Blocks : pool.owner[b] = Lent <=> b < pool.blocked
    /\ pool.blocked <= IF main.pc \in Moving THEN main.l ELSE kv.start
    /\ main.pc \in {"lend", "lendBlocks"} =>
           pool.want = Need[main.size] /\ pool.blocked < Need[main.size] /\ Need[main.size] <= kv.start
    /\ main.pc \in {"launch", "compute"} => pool.want <= pool.blocked
    /\ main.pc \in {"reheat", "sched"} => pool.blocked <= pool.want
    /\ main.pc = "compute" => \A b \in Blocks : b < pool.want => content[b] = Graph

\* Only the owner of a block has an expert in it or an upload into it, and not both.
SlotInv ==
    \A l \in Layers, b \in Blocks :
        /\ cache.in_flight[l][b] => pool.owner[b] = l /\ cache.slot_expert[l][b] = None
        /\ cache.slot_expert[l][b] # None =>
             /\ pool.owner[b] = l
             /\ content[b] = cache.slot_expert[l][b]
             /\ LayerOf[cache.slot_expert[l][b]] = l

\* Blocks that are about to be taken have no upload pending.
DroppedInv ==
    /\ main.pc = "takeBlocks" => \A b \in Taken, l \in Layers : ~cache.in_flight[l][b]
    /\ main.pc = "lendBlocks" => \A b \in ToLend, l \in Layers : ~cache.in_flight[l][b]

\* An upload under way: its block is in flight, its expert queued.
Pending(j) == cache.in_flight[LayerOf[j.expert]][j.slot] /\ cache.queued[j.expert]
Apart(i, j) == i.expert # j.expert /\ i.slot # j.slot

JobInv ==
    /\ \A j \in jobs.todo \cup jobs.done : Pending(j)
    /\ \A i, j \in jobs.todo \cup jobs.done : i # j => Apart(i, j)
    /\ jobs.todo \cap jobs.done = {}
    /\ \A j \in jobs.done : ~j.skipped => content[j.slot] = j.expert

WorkerInv ==
    \A w \in Busy :
        /\ Pending(worker[w].job)
        /\ \A j \in jobs.todo \cup jobs.done : Apart(worker[w].job, j)
        /\ \A v \in Busy : v # w => Apart(worker[w].job, worker[v].job)
        /\ worker[w].pc = "copied" => content[worker[w].job.slot] = worker[w].job.expert

\* An adoption has its block for itself.
AdoptInv ==
    /\ \A x \in Experts : cache.adopt_slot[x] # None =>
         /\ cache.in_flight[LayerOf[x]][cache.adopt_slot[x]]
         /\ \A y \in Experts : y # x => cache.adopt_slot[y] # cache.adopt_slot[x]
         /\ \A j \in jobs.todo \cup jobs.done : j.slot # cache.adopt_slot[x]
         /\ \A w \in Busy : worker[w].job.slot # cache.adopt_slot[x]
    /\ \A x \in cache.adopt_full :
         cache.adopt_slot[x] # None /\ content[cache.adopt_slot[x]] = x

\* The table names a block whose slot has the expert, victims of adoptions excused.
TableInv ==
    \A x \in Experts \ cache.adopt_victims :
        cache.table[x] # None => cache.slot_expert[LayerOf[x]][cache.table[x]] = x

\* The rows of the KV, before and after their move.
KvInv ==
    /\ main.pc \notin {"give", "moved"} =>
         \A i \in 0 .. kv.cells - 1 : i < kv.h /\ content[kv.start + i] = i
    /\ main.pc \in {"give", "moved"} =>
         \A i \in 0 .. kv.cells - 1 : i < main.h /\ content[main.l + i] = i
    /\ main.pc \in Announced \cup {"move"} => kv.cells <= main.h /\ kv.cells <= main.rows
    /\ main.pc = "compute" => kv.cells < kv.h

\* A call writes the cells it planned, and no more.
CallInv ==
    /\ main.pc = "slots" \/ (main.pc \in Announced \cup Moving /\ main.next = "slots") =>
           kv.cells < main.plan
    /\ main.pc \in Announced \cup Moving => main.next \in {"slots", "alias"}
    /\ main.pc = "next" => kv.cells <= main.last
    /\ main.pc \in Building \cup {"compute"}
         \/ (main.pc \in Announced \cup Moving /\ main.next = "alias") => kv.cells < main.last

\* The zone a pass is about to have: the one it moves to while it moves.
Height == IF main.pc \in Announced \cup Moving THEN main.h ELSE kv.h
InCall == main.pc \in Building \cup {"next", "compute"}
          \/ (main.pc \in Announced \cup Moving /\ main.next = "alias")

\* The cap admits the next cell, and will once this pass's graph has its lend: that of
\* a decode graph counts against the cap only from then on.
Fits ==
    /\ kv.cells < kv_tail_cap
    /\ main.size \in SmallPasses /\ main.pc \notin {"lend", "lendBlocks", "launch", "aborted"} =>
           kv.cells + Need[main.size] < NBlocks

\* The cells of the call: all that a prompt pass planned, and the next cell of a pass
\* if it fits.
CoverInv ==
    /\ InCall /\ main.plan # 0 => main.plan = main.last /\ main.last <= Height
    /\ InCall /\ main.pc \notin {"next", "compute"} /\ Fits => kv.cells < Height

IInv == /\ Types /\ FreeIsExact /\ ZoneInv /\ LendInv /\ SlotInv /\ DroppedInv
        /\ JobInv /\ WorkerInv /\ AdoptInv /\ TableInv /\ KvInv /\ CallInv
        /\ CoverInv

-----------------------------------------------------------------------------
(* Numbers. *)

LEMMA Basics ==
    /\ NBlocks \in Nat /\ NBlocks > 0 /\ MaxCells \in 1 .. NBlocks /\ MaxCells \in Nat
    /\ \A b \in Blocks : b \in Nat /\ b < NBlocks
    /\ \A b \in Nat : b < NBlocks => b \in Blocks
    /\ None \notin Blocks /\ None \notin Experts
    /\ Free \notin Layers /\ Lent \notin Layers /\ Zone \notin Layers
    /\ Free # Lent /\ Free # Zone /\ Lent # Zone
    /\ \A x \in Experts : LayerOf[x] \in Layers
    /\ \A k \in Passes : Need[k] \in 1 .. NBlocks
BY BlocksAssumption DEF Blocks, None, Free, Lent, Zone

LEMMA MinPair ==
    ASSUME NEW a \in Int, NEW b \in Int
    PROVE  Min({a, b}) = IF a <= b THEN a ELSE b
<1>1. \E x \in {a, b} : \A y \in {a, b} : x <= y
  OBVIOUS
<1>2. Min({a, b}) \in {a, b} /\ \A y \in {a, b} : Min({a, b}) <= y
  BY <1>1 DEF Min
<1> QED BY <1>2

LEMMA MaxPair ==
    ASSUME NEW a \in Int, NEW b \in Int
    PROVE  Max({a, b}) = IF a >= b THEN a ELSE b
<1>1. \E x \in {a, b} : \A y \in {a, b} : x >= y
  OBVIOUS
<1>2. Max({a, b}) \in {a, b} /\ \A y \in {a, b} : Max({a, b}) >= y
  BY <1>1 DEF Max
<1> QED BY <1>2

LEMMA MinTriple ==
    ASSUME NEW a \in Int, NEW b \in Int, NEW c \in Int
    PROVE  /\ Min({a, b, c}) \in {a, b, c}
           /\ Min({a, b, c}) <= a /\ Min({a, b, c}) <= b /\ Min({a, b, c}) <= c
<1>1. \E x \in {a, b, c} : \A y \in {a, b, c} : x <= y
  OBVIOUS
<1>2. Min({a, b, c}) \in {a, b, c} /\ \A y \in {a, b, c} : Min({a, b, c}) <= y
  BY <1>1 DEF Min
<1> QED BY <1>2

LEMMA MinOf ==
    ASSUME NEW S \in SUBSET Nat, S # {}
    PROVE  Min(S) \in S /\ \A j \in S : Min(S) <= j
<1> DEFINE R == {ss \in Nat \X Nat : ss[1] < ss[2]}
<1>1. IsWellFoundedOn(R, Nat)
  BY NatLessThanWellFounded, Zenon DEF OpToRel
<1>2. \E m \in S : \A j \in S : ~(<<j, m>> \in R)
  <2> HIDE DEF R
  <2> QED BY <1>1, WFMin
<1>3. PICK m \in S : \A j \in S : ~(<<j, m>> \in R)
  BY <1>2
<1>4. ASSUME NEW j \in S PROVE m <= j
  <2>1. j \in Nat /\ m \in Nat /\ ~(<<j, m>> \in R)
    BY <1>3
  <2> QED BY <2>1
<1>5. \E n \in S : \A j \in S : n <= j
  BY <1>4
<1> QED BY <1>5 DEF Min

LEMMA MaxOf ==
    ASSUME NEW S \in SUBSET Blocks, S # {}
    PROVE  Max(S) \in S
<1>1. NBlocks \in Nat
  BY BlocksAssumption
<1> DEFINE T == {n \in 0 .. NBlocks : NBlocks - n \in S}
<1>2. T \in SUBSET Nat /\ T # {}
  <2>1. PICK b \in S : TRUE
    OBVIOUS
  <2>2. b \in Blocks /\ NBlocks - (NBlocks - b) = b /\ NBlocks - b \in 0 .. NBlocks
    BY <1>1, <2>1 DEF Blocks
  <2>3. NBlocks - b \in T
    BY <2>1, <2>2
  <2> QED BY <1>1, <2>3
<1>3. Min(T) \in T /\ \A j \in T : Min(T) <= j
  <2> HIDE DEF T
  <2> QED BY <1>2, MinOf
<1>4. ASSUME NEW b \in S PROVE NBlocks - Min(T) >= b
  <2>1. b \in Blocks /\ NBlocks - (NBlocks - b) = b /\ NBlocks - b \in 0 .. NBlocks
    BY <1>1 DEF Blocks
  <2>2. NBlocks - b \in T
    BY <2>1
  <2>3. Min(T) <= NBlocks - b /\ Min(T) \in 0 .. NBlocks
    BY <1>3, <2>2
  <2> QED BY <1>1, <2>1, <2>3 DEF Blocks
<1>5. \E x \in S : \A y \in S : x >= y
  BY <1>3, <1>4
<1> QED BY <1>5 DEF Max

\* kv_layout leaves the zone where it is, or makes room for eff cells inside the pool,
\* where it was asked to or at the pool's end; it does when the lend leaves room.
RoomFor(z, lw, lm, eff) ==
    /\ z \in [h : 0 .. NBlocks, l : 0 .. NBlocks]
    /\ \/ z = [h |-> kv.h, l |-> kv.start]
       \/ /\ z.l + z.h <= NBlocks /\ eff <= z.h
          /\ z.l = lw \/ z.l + z.h = NBlocks
          /\ lw = NBlocks - eff => z.l + z.h = NBlocks
    /\ lm + eff <= NBlocks => eff <= z.h

LEMMA LayoutIs ==
    ASSUME kv \in KvRec, NEW hw \in 0 .. NBlocks, NEW lw \in 0 .. NBlocks, NEW lm \in 0 .. NBlocks,
           NEW eff \in 1 .. NBlocks
    PROVE  RoomFor(Layout(hw, lw, lm, eff), lw, lm, eff)
<1>1. NBlocks \in Nat /\ kv.h \in 0 .. NBlocks /\ kv.start \in 0 .. NBlocks
  BY Basics DEF KvRec
<1> DEFINE lo == Min({lw, lm})
           hp == NBlocks - lo
           hh == Min({Max({hw, Min({eff, hp})}), hp})
           z == Layout(hw, lw, lm, eff)
<1> SUFFICES RoomFor(z, lw, lm, eff)
  OBVIOUS
<1>2. lo \in 0 .. NBlocks /\ lo <= lw /\ lo <= lm
  BY <1>1, MinPair
<1>3. z = IF hp < eff THEN [h |-> kv.h, l |-> kv.start]
          ELSE [h |-> hh, l |-> kvz_gap_place(lo, lw, hh)]
  BY DEF Layout
<1> HIDE DEF z
<1>4. CASE hp < eff
  <2>1. z = [h |-> kv.h, l |-> kv.start]
    BY <1>3, <1>4
  <2>2. ~(lm + eff <= NBlocks)
    <3> HIDE DEF lo
    <3> QED BY <1>1, <1>2, <1>4
  <2> QED BY <1>1, <2>1, <2>2 DEF RoomFor
<1>5. CASE ~(hp < eff)
  <2> HIDE DEF lo
  <2>1. hp \in 0 .. NBlocks /\ hp >= eff
    BY <1>1, <1>2, <1>5
  <2> HIDE DEF hp
  <2>2. Min({eff, hp}) = eff
    BY <1>1, <2>1, MinPair
  <2>3. Max({hw, eff}) \in 0 .. NBlocks /\ Max({hw, eff}) >= eff
    BY <1>1, MaxPair
  <2>4. hh \in 0 .. NBlocks /\ hh >= eff /\ hh <= hp
    <3>1. hh = Min({Max({hw, eff}), hp})
      BY <2>2
    <3> QED BY <1>1, <2>1, <2>3, <3>1, MinPair
  <2> HIDE DEF hh
  <2>5. Max({lw, lo}) = lw
    BY <1>1, <1>2, MaxPair
  <2>6. ~(NBlocks < lo + hh)
    BY <1>1, <1>2, <2>4 DEF hp
  <2>7. kvz_gap_place(lo, lw, hh) = Min({lw, NBlocks - hh})
    BY <2>5, <2>6 DEF kvz_gap_place
  <2>8. Min({lw, NBlocks - hh}) = IF lw <= NBlocks - hh THEN lw ELSE NBlocks - hh
    BY <1>1, <2>4, MinPair
  <2>9. z.h = hh /\ z.l = Min({lw, NBlocks - hh}) /\ z = [h |-> hh, l |-> Min({lw, NBlocks - hh})]
    BY <1>3, <1>5, <2>7 DEF hp
  <2> QED BY <1>1, <2>4, <2>8, <2>9 DEF RoomFor
<1> QED BY <1>4, <1>5

\* kv_tail_plan, the same; a zone that it moves down comes to lie at the pool's end.
Planned(z, eff, nb) ==
    /\ z \in [h : 0 .. NBlocks, l : 0 .. NBlocks]
    /\ \/ z = [h |-> kv.h, l |-> kv.start]
       \/ /\ z.l + z.h <= NBlocks /\ eff <= z.h
          /\ z.l < kv.start => z.l + z.h = NBlocks
    /\ kv.dec_need + eff <= NBlocks /\ nb + eff <= NBlocks => eff <= z.h

LEMMA PlanIs ==
    ASSUME kv \in KvRec, NEW eff \in 1 .. MaxCells, NEW shrink, NEW nb \in 0 .. NBlocks
    PROVE  Planned(kv_tail_plan(eff, shrink, nb), eff, nb)
<1>1. /\ NBlocks \in Nat /\ MaxCells \in 1 .. NBlocks /\ eff \in 1 .. NBlocks
      /\ kv.h \in 0 .. NBlocks /\ kv.start \in 0 .. NBlocks /\ kv.dec_need \in 0 .. NBlocks
  BY Basics DEF KvRec
<1> DEFINE h0 == IF shrink \/ kv.h = 0 THEN 1 ELSE kv.h
           h1 == Max({eff, h0})
           lr1 == Max({kv.start, nb})
           lr == IF NBlocks <= lr1 + eff /\ NBlocks > eff + kv.dec_need
                 THEN Min({lr1, Max({kv.dec_need, NBlocks - eff})}) ELSE lr1
           h2 == Min({h1, MaxCells, NBlocks - lr})
           lm == Max({kv.dec_need, nb})
<1>2. h0 \in 1 .. NBlocks
  BY <1>1, Basics
<1>3. h1 \in 1 .. NBlocks /\ h1 >= eff
  <2> HIDE DEF h0
  <2> QED BY <1>1, <1>2, MaxPair
<1>4. lr1 \in 0 .. NBlocks /\ lr1 >= kv.start
  BY <1>1, MaxPair
<1>5. lr \in 0 .. NBlocks /\ (lr < kv.start => lr = NBlocks - eff)
  <2> HIDE DEF lr1
  <2>1. Max({kv.dec_need, NBlocks - eff}) = IF kv.dec_need >= NBlocks - eff THEN kv.dec_need ELSE NBlocks - eff
    BY <1>1, MaxPair
  <2>2. Max({kv.dec_need, NBlocks - eff}) \in 0 .. NBlocks
    BY <1>1, <2>1
  <2>3. Min({lr1, Max({kv.dec_need, NBlocks - eff})}) =
          IF lr1 <= Max({kv.dec_need, NBlocks - eff}) THEN lr1 ELSE Max({kv.dec_need, NBlocks - eff})
    BY <1>4, <2>2, MinPair
  <2> QED BY <1>1, <1>4, <2>1, <2>2, <2>3
<1>6. h2 \in 0 .. NBlocks
  <2> HIDE DEF h1, lr
  <2>1. /\ NBlocks - lr \in 0 .. NBlocks /\ NBlocks - lr \in Int
        /\ MaxCells \in Int /\ h1 \in Int
    BY <1>1, <1>3, <1>5
  <2>2. h2 \in {h1, MaxCells, NBlocks - lr}
    BY <2>1, MinTriple, Zenon
  <2> QED BY <1>1, <1>3, <2>1, <2>2
<1>7. lm \in 0 .. NBlocks /\ (kv.dec_need + eff <= NBlocks /\ nb + eff <= NBlocks => lm + eff <= NBlocks)
  BY <1>1, MaxPair
<1>8. kv_tail_plan(eff, shrink, nb) = Layout(h2, lr, lm, eff)
  BY DEF kv_tail_plan
<1> HIDE DEF h0, h1, lr1, lr, h2, lm
<1>9. RoomFor(kv_tail_plan(eff, shrink, nb), lr, lm, eff)
  BY <1>1, <1>5, <1>6, <1>7, <1>8, LayoutIs
<1> QED BY <1>1, <1>5, <1>7, <1>9 DEF RoomFor, Planned

-----------------------------------------------------------------------------
(* What a step leaves alone. *)

LEMMA SpanIs ==
    ASSUME NEW lo \in Int, NEW hi \in Int, NEW b \in Int
    PROVE  b \in Span(lo, hi) <=> lo <= b /\ b < hi
BY DEF Span

\* The zone owns the blocks of every row that has been written.
LEMMA RowIn ==
    ASSUME Types, ZoneInv, KvInv, NEW i \in 0 .. kv.cells - 1
    PROVE  /\ main.pc \notin {"give", "moved"} =>
                kv.start + i \in Blocks /\ pool.owner[kv.start + i] = Zone
           /\ main.pc \in {"give", "moved"} =>
                main.l + i \in Blocks /\ pool.owner[main.l + i] = Zone
<1>1. /\ kv.h \in 0 .. NBlocks /\ kv.start \in 0 .. NBlocks /\ kv.cells \in 0 .. MaxCells
      /\ main.h \in 0 .. NBlocks /\ main.l \in 0 .. NBlocks /\ NBlocks \in Nat /\ MaxCells \in Nat
  BY Basics DEF Types, KvRec, MainRec
<1>2. i \in Nat /\ i < kv.cells
  BY <1>1
<1>3. CASE main.pc \notin {"give", "moved"}
  <2>1. i < kv.h /\ kv.start + kv.h <= NBlocks
    BY <1>3 DEF KvInv, ZoneInv
  <2>2. kv.start + i \in Blocks /\ kv.start + i \in OldZone
    BY <1>1, <1>2, <2>1 DEF Blocks, OldZone, Span
  <2>3. OldZone \subseteq ZoneBlocks
    BY <1>3 DEF ZoneBlocks
  <2> QED BY <1>3, <2>2, <2>3 DEF ZoneInv
<1>4. CASE main.pc \in {"give", "moved"}
  <2>1. i < main.h /\ main.l + main.h <= NBlocks
    BY <1>4 DEF KvInv, ZoneInv, Moving
  <2>2. main.l + i \in Blocks /\ main.l + i \in NewZone
    BY <1>1, <1>2, <2>1 DEF Blocks, NewZone, Span
  <2>3. NewZone \subseteq ZoneBlocks
    BY <1>4 DEF ZoneBlocks
  <2> QED BY <1>4, <2>2, <2>3 DEF ZoneInv
<1> QED BY <1>3, <1>4

\* The decode thread stands where it stood.
Standing ==
    /\ main'.pc = main.pc /\ main'.next = main.next /\ main'.size = main.size
    /\ main'.h = main.h /\ main'.l = main.l /\ main'.rows = main.rows
    /\ main'.plan = main.plan /\ main'.last = main.last

\* A step that leaves the blocks of the zone and of the lend alone.
LEMMA MapFrame ==
    ASSUME Types, ZoneInv, LendInv, KvInv, CallInv, CoverInv,
           kv' = kv, Standing, pool'.blocked = pool.blocked, pool'.want = pool.want,
           \A b \in Blocks : pool.owner[b] \in {Zone, Lent} \/ pool'.owner[b] \in {Zone, Lent} =>
               pool'.owner[b] = pool.owner[b] /\ content'[b] = content[b]
    PROVE  ZoneInv' /\ LendInv' /\ KvInv' /\ CallInv' /\ CoverInv'
<1>1. NewZone' = NewZone /\ OldZone' = OldZone /\ ZoneBlocks' = ZoneBlocks
  BY DEF Standing, NewZone, OldZone, ZoneBlocks
<1>2. ZoneInv'
  BY <1>1 DEF ZoneInv, Standing
<1>3. LendInv'
  <2>1. \A b \in Blocks : pool'.owner[b] = Lent <=> b < pool.blocked
    BY DEF LendInv
  <2>2. ASSUME main.pc = "compute", NEW b \in Blocks, b < pool.want PROVE content'[b] = Graph
    <3>1. b < pool.blocked
      BY <2>2, Basics DEF LendInv, Types, PoolRec
    <3> QED BY <2>2, <3>1 DEF LendInv
  <2> QED BY <2>1, <2>2 DEF LendInv, Standing
<1>4. KvInv'
  <2>1. ASSUME NEW i \in 0 .. kv.cells - 1, main.pc \notin {"give", "moved"}
        PROVE  i < kv.h /\ content'[kv.start + i] = i
    BY <2>1, RowIn DEF KvInv
  <2>2. ASSUME NEW i \in 0 .. kv.cells - 1, main.pc \in {"give", "moved"}
        PROVE  i < main.h /\ content'[main.l + i] = i
    BY <2>2, RowIn DEF KvInv
  <2> QED BY <2>1, <2>2 DEF KvInv, Standing
<1>5. CallInv'
  BY DEF CallInv, Standing
<1>6. CoverInv'
  BY DEF CoverInv, Standing, Fits, kv_tail_cap, InCall, Height
<1> QED BY <1>2, <1>3, <1>4, <1>5, <1>6

Books == SlotInv /\ JobInv /\ WorkerInv /\ AdoptInv /\ TableInv

\* A job under way has its block, owned by its expert's layer.
LEMMA PendingOwned ==
    ASSUME Types, SlotInv, NEW j \in JobSet, Pending(j)
    PROVE  j.slot \in Blocks /\ pool.owner[j.slot] = LayerOf[j.expert] /\ pool.owner[j.slot] \in Layers
BY Basics DEF Pending, SlotInv, JobSet

LEMMA AdoptOwned ==
    ASSUME Types, SlotInv, AdoptInv, NEW x \in Experts, cache.adopt_slot[x] # None
    PROVE  /\ cache.adopt_slot[x] \in Blocks
           /\ pool.owner[cache.adopt_slot[x]] = LayerOf[x] /\ pool.owner[cache.adopt_slot[x]] \in Layers
<1>1. cache.adopt_slot[x] \in Blocks
  BY DEF Types, CacheRec, Slots
<1> QED BY <1>1, Basics DEF AdoptInv, SlotInv

LEMMA BusyJob ==
    ASSUME Types, NEW w \in Busy
    PROVE  w \in Workers /\ worker[w].job \in JobSet
           /\ worker[w] \in [pc : {"gate", "enter", "copy", "copied", "failed"}, job : JobSet]
<1>1. w \in Workers /\ worker[w] \in WorkerRec /\ worker[w].pc # "idle"
  BY DEF Busy, Types
<1> QED BY <1>1 DEF WorkerRec

\* A step that leaves the cache's books and the blocks of the layers alone.
LEMMA BooksFrame ==
    ASSUME Types, Books, UNCHANGED <<cache, jobs, worker>>,
           \A b \in Blocks : pool.owner[b] \in Layers =>
               pool'.owner[b] = pool.owner[b] /\ content'[b] = content[b]
    PROVE  Books'
<1>1. SlotInv'
  BY DEF Books, SlotInv
<1>2. JobInv'
  <2>1. \A j \in jobs.todo \cup jobs.done : j \in JobSet
    BY DEF Types
  <2>2. ASSUME NEW j \in jobs.done, ~j.skipped PROVE content'[j.slot] = j.expert
    BY <2>1, <2>2, PendingOwned DEF Books, JobInv
  <2> QED BY <2>2 DEF Books, JobInv, Pending
<1>3. WorkerInv'
  <2>1. Busy' = Busy
    BY DEF Busy
  <2>2. ASSUME NEW w \in Busy, worker[w].pc = "copied"
        PROVE  content'[worker[w].job.slot] = worker[w].job.expert
    BY <2>2, BusyJob, PendingOwned DEF Books, WorkerInv
  <2> QED BY <2>1, <2>2 DEF Books, WorkerInv, Pending
<1>4. AdoptInv'
  <2>1. Busy' = Busy
    BY DEF Busy
  <2>2. ASSUME NEW x \in cache.adopt_full
        PROVE  cache.adopt_slot[x] # None /\ content'[cache.adopt_slot[x]] = x
    <3>1. x \in Experts
      BY DEF Types, CacheRec
    <3> QED BY <3>1, AdoptOwned DEF Books, AdoptInv
  <2> QED BY <2>1, <2>2 DEF Books, AdoptInv
<1>5. TableInv'
  BY DEF Books, TableInv
<1> QED BY <1>1, <1>2, <1>3, <1>4, <1>5 DEF Books

-----------------------------------------------------------------------------
(* The upload workers. *)

\* Nobody but the worker has to do with the block its job is for.
LEMMA JobAlone ==
    ASSUME Types, Books, NEW w \in Busy, NEW b, b = worker[w].job.slot
    PROVE  /\ b \in Blocks /\ pool.owner[b] \in Layers
           /\ \A l \in Layers : cache.slot_expert[l][b] = None
           /\ \A x \in Experts : cache.adopt_slot[x] # b
           /\ \A j \in jobs.todo \cup jobs.done : j.slot # b
           /\ \A v \in Busy : v # w => worker[v].job.slot # b
<1>1. /\ worker[w].job \in JobSet /\ Pending(worker[w].job)
      /\ b \in Blocks /\ pool.owner[b] = LayerOf[worker[w].job.expert] /\ pool.owner[b] \in Layers
  BY BusyJob, PendingOwned DEF Books, WorkerInv
<1>2. cache.in_flight[pool.owner[b]][b]
  BY <1>1 DEF Pending
<1>3. \A l \in Layers : cache.slot_expert[l][b] = None
  BY <1>1, <1>2 DEF Books, SlotInv
<1>4. \A x \in Experts : cache.adopt_slot[x] # b
  BY <1>1, Basics DEF Books, AdoptInv
<1>5. /\ \A j \in jobs.todo \cup jobs.done : j.slot # b
      /\ \A v \in Busy : v # w => worker[v].job.slot # b
  BY DEF Books, WorkerInv, Apart
<1> QED BY <1>1, <1>3, <1>4, <1>5

\* The worker goes on with its job; it writes nothing but the job's block.
LEMMA GoesOn ==
    ASSUME Types, Books, NEW w \in Busy, NEW p \in {"enter", "copy", "copied", "failed"},
           worker' = [worker EXCEPT ![w].pc = p], jobs' = jobs, UNCHANGED <<pool, cache>>,
           content' \in [Blocks -> Contents],
           \A b \in Blocks : b # worker[w].job.slot => content'[b] = content[b],
           p = "copied" => content'[worker[w].job.slot] = worker[w].job.expert
    PROVE  /\ worker' \in [Workers -> WorkerRec] /\ Books'
           /\ \A b \in Blocks : pool.owner[b] \notin Layers => content'[b] = content[b]
<1> DEFINE s == worker[w].job.slot
<1>1. /\ s \in Blocks /\ pool.owner[s] \in Layers
      /\ \A l \in Layers : cache.slot_expert[l][s] = None
      /\ \A x \in Experts : cache.adopt_slot[x] # s
      /\ \A j \in jobs.todo \cup jobs.done : j.slot # s
      /\ \A v \in Busy : v # w => worker[v].job.slot # s
  BY JobAlone
<1>2. w \in Workers /\ worker[w] \in [pc : {"gate", "enter", "copy", "copied", "failed"}, job : JobSet]
  BY BusyJob
<1>3. /\ worker'[w].pc = p /\ worker'[w].job = worker[w].job
      /\ worker'[w] \in [pc : {"gate", "enter", "copy", "copied", "failed"}, job : JobSet]
      /\ \A v \in Workers : v # w => worker'[v] = worker[v]
  BY <1>2 DEF Types
<1>4. worker' \in [Workers -> WorkerRec]
  <2>1. \A v \in Workers : worker'[v] \in WorkerRec
    BY <1>3 DEF Types, WorkerRec
  <2> QED BY <2>1, <1>2 DEF Types
<1>5. Busy' = Busy
  BY <1>2, <1>3 DEF Busy
<1>6. \A v \in Busy : worker'[v].job = worker[v].job
  BY <1>3 DEF Busy
<1> HIDE DEF s
<1>7. SlotInv'
  BY <1>1 DEF Books, SlotInv, s
<1>8. JobInv'
  <2>1. \A j \in jobs.todo \cup jobs.done : j.slot \in Blocks
    BY DEF Types, JobSet
  <2> QED BY <1>1, <2>1 DEF Books, JobInv, Pending, s
<1>9. WorkerInv'
  <2> SUFFICES ASSUME NEW v \in Busy
               PROVE  /\ Pending(worker[v].job)'
                      /\ \A j \in jobs.todo \cup jobs.done : Apart(worker'[v].job, j)
                      /\ \A u \in Busy : u # v => Apart(worker'[v].job, worker'[u].job)
                      /\ worker'[v].pc = "copied" => content'[worker'[v].job.slot] = worker'[v].job.expert
    BY <1>5 DEF WorkerInv
  <2>1. Pending(worker[v].job)'
    <3>1. Pending(worker[v].job) /\ worker'[v].job = worker[v].job /\ cache' = cache
      BY <1>6 DEF Books, WorkerInv
    <3> QED BY <3>1, Zenon DEF Pending
  <2>2. /\ \A j \in jobs.todo \cup jobs.done : Apart(worker'[v].job, j)
        /\ \A u \in Busy : u # v => Apart(worker'[v].job, worker'[u].job)
    BY <1>6 DEF Books, WorkerInv
  <2>3. worker'[v].pc = "copied" => content'[worker'[v].job.slot] = worker'[v].job.expert
    <3>1. CASE v = w
      BY <1>3, <3>1
    <3>2. CASE v # w
      <4>1. worker'[v] = worker[v] /\ worker[v].job.slot \in Blocks /\ worker[v].job.slot # s
        BY <1>1, <1>3, <3>2, BusyJob DEF JobSet, Busy
      <4> QED BY <4>1 DEF Books, WorkerInv, s
    <3> QED BY <3>1, <3>2
  <2> QED BY <2>1, <2>2, <2>3
<1>10. AdoptInv'
  <2>1. ASSUME NEW x \in cache.adopt_full
        PROVE  cache.adopt_slot[x] # None /\ content'[cache.adopt_slot[x]] = x
    <3>1. x \in Experts
      BY DEF Types, CacheRec
    <3> QED BY <1>1, <3>1, AdoptOwned DEF Books, AdoptInv, s
  <2> QED BY <1>5, <1>6, <2>1 DEF Books, AdoptInv
<1>11. TableInv'
  BY DEF Books, TableInv
<1> QED BY <1>1, <1>4, <1>7, <1>8, <1>9, <1>10, <1>11 DEF Books, s

\* The worker pushes its job, as done or as skipped.
LEMMA FinishedKeeps ==
    ASSUME Types, Books, NEW w \in Busy, NEW ok \in BOOLEAN, Finished(w, ok),
           UNCHANGED <<pool, cache, content>>,
           ok => content[worker[w].job.slot] = worker[w].job.expert
    PROVE  /\ worker' \in [Workers -> WorkerRec]
           /\ jobs' \in [todo : SUBSET JobSet, done : SUBSET JobSet] /\ Books'
<1> DEFINE j == worker[w].job
           d == [j EXCEPT !.skipped = ~ok]
<1>1. w \in Workers /\ j \in JobSet
  BY BusyJob
<1>2. /\ d \in JobSet /\ d.expert = j.expert /\ d.slot = j.slot /\ (~d.skipped => ok)
  BY <1>1 DEF JobSet
<1>3. jobs'.todo = jobs.todo /\ jobs'.done = jobs.done \cup {d}
      /\ jobs' \in [todo : SUBSET JobSet, done : SUBSET JobSet]
  BY <1>2 DEF Finished, Types
<1>4. worker'[w] = [pc |-> "idle"] /\ \A v \in Workers : v # w => worker'[v] = worker[v]
  BY <1>1 DEF Finished, Types
<1>5. worker' \in [Workers -> WorkerRec]
  BY <1>1 DEF Finished, Types, WorkerRec
<1>6. Busy' = Busy \ {w} /\ \A v \in Busy' : worker'[v] = worker[v]
  BY <1>1, <1>4 DEF Busy
<1>7. /\ Pending(j) /\ \A i \in jobs.todo \cup jobs.done : Apart(j, i)
      /\ \A v \in Busy : v # w => Apart(j, worker[v].job)
  BY DEF Books, WorkerInv
<1> HIDE DEF d, j
<1>8. SlotInv' /\ TableInv'
  BY DEF Books, SlotInv, TableInv
<1>9. JobInv'
  <2>1. \A i \in jobs'.todo \cup jobs'.done : Pending(i)'
    BY <1>2, <1>3, <1>7 DEF Books, JobInv, Pending
  <2>2. \A i, k \in jobs'.todo \cup jobs'.done : i # k => Apart(i, k)
    BY <1>2, <1>3, <1>7 DEF Books, JobInv, Apart
  <2>3. jobs'.todo \cap jobs'.done = {}
    BY <1>2, <1>3, <1>7 DEF Books, JobInv, Apart
  <2>4. \A i \in jobs'.done : ~i.skipped => content'[i.slot] = i.expert
    BY <1>2, <1>3 DEF Books, JobInv, j
  <2> QED BY <2>1, <2>2, <2>3, <2>4 DEF JobInv
<1>10. WorkerInv'
  <2> SUFFICES ASSUME NEW v \in Busy, v # w
               PROVE  /\ Pending(worker[v].job)'
                      /\ \A i \in jobs'.todo \cup jobs'.done : Apart(worker[v].job, i)
                      /\ \A u \in Busy \ {w} : u # v => Apart(worker[v].job, worker[u].job)
                      /\ worker[v].pc = "copied" => content[worker[v].job.slot] = worker[v].job.expert
    BY <1>6 DEF WorkerInv
  <2>1. Pending(worker[v].job)'
    BY <1>6 DEF Books, WorkerInv, Pending
  <2>2. Apart(worker[v].job, d)
    BY <1>2, <1>7 DEF Apart
  <2> QED BY <1>3, <2>1, <2>2 DEF Books, WorkerInv
<1>11. AdoptInv'
  <2>1. \A x \in Experts : cache.adopt_slot[x] # None => d.slot # cache.adopt_slot[x]
    BY <1>2 DEF Books, AdoptInv, j
  <2>2. \A i \in jobs'.todo \cup jobs'.done : i \in jobs.todo \cup jobs.done \/ i = d
    BY <1>3
  <2>3. \A v \in Busy' : v \in Busy /\ worker'[v] = worker[v]
    BY <1>6
  <2> QED BY <2>1, <2>2, <2>3 DEF Books, AdoptInv
<1> QED BY <1>3, <1>5, <1>8, <1>9, <1>10, <1>11 DEF Books

\* A worker touches neither the map of the pool nor the decode thread.
LEMMA WorkerFrame ==
    ASSUME IInv, UNCHANGED <<pool, cache, kv, main>>, Books',
           worker' \in [Workers -> WorkerRec], content' \in [Blocks -> Contents],
           jobs' \in [todo : SUBSET JobSet, done : SUBSET JobSet],
           \A b \in Blocks : pool.owner[b] \notin Layers => content'[b] = content[b]
    PROVE  IInv'
<1>1. Types'
  BY DEF IInv, Types
<1>2. FreeIsExact' /\ DroppedInv'
  BY DEF IInv, FreeIsExact, DroppedInv, Taken, NewZone, ToLend
<1>3. ZoneInv' /\ LendInv' /\ KvInv' /\ CallInv' /\ CoverInv'
  <2>1. Standing
    BY DEF Standing
  <2> QED BY <2>1, MapFrame, Basics DEF IInv
<1> QED BY <1>1, <1>2, <1>3 DEF IInv, Books

LEMMA PopKeeps ==
    ASSUME IInv, NEW w \in Workers, Pop(w)
    PROVE  IInv'
<1>1. Types /\ Books
  BY DEF IInv, Books
<1>2. PICK j \in jobs.todo : /\ jobs' = [jobs EXCEPT !.todo = @ \ {j}]
                             /\ worker' = [worker EXCEPT ![w] = [pc |-> "gate", job |-> j]]
  BY DEF Pop
<1>3. UNCHANGED <<pool, cache, content, kv, main>> /\ worker[w].pc = "idle"
  BY DEF Pop
<1>4. j \in JobSet
  BY <1>1 DEF Types
<1>5. /\ jobs'.todo = jobs.todo \ {j} /\ jobs'.done = jobs.done
      /\ jobs' \in [todo : SUBSET JobSet, done : SUBSET JobSet]
  BY <1>1, <1>2 DEF Types
<1>6. /\ worker'[w].pc = "gate" /\ worker'[w].job = j
      /\ \A v \in Workers : v # w => worker'[v] = worker[v]
      /\ worker' \in [Workers -> WorkerRec]
  BY <1>1, <1>2, <1>4 DEF Types, WorkerRec
<1>7. Busy' = Busy \cup {w} /\ w \notin Busy /\ \A v \in Busy : worker'[v] = worker[v]
  BY <1>3, <1>6 DEF Busy
<1>8. /\ Pending(j) /\ j \notin jobs.done
      /\ \A i \in jobs'.todo \cup jobs'.done : Apart(j, i) /\ i \in jobs.todo \cup jobs.done
      /\ \A v \in Busy : Apart(j, worker[v].job) /\ Apart(worker[v].job, j)
  BY <1>1, <1>5 DEF Books, JobInv, WorkerInv, Apart
<1>9. SlotInv' /\ TableInv'
  BY <1>1, <1>3 DEF Books, SlotInv, TableInv
<1>10. JobInv'
  <2>1. \A i \in jobs'.todo \cup jobs'.done : i \in jobs.todo \cup jobs.done
    BY <1>5
  <2>2. jobs'.todo \cap jobs'.done = {}
    BY <1>1, <1>5 DEF Books, JobInv
  <2> QED BY <1>1, <1>3, <1>5, <2>1, <2>2 DEF Books, JobInv, Pending
<1>11. WorkerInv'
  <2> SUFFICES ASSUME NEW v \in Busy'
               PROVE  /\ Pending(worker[v].job)'
                      /\ \A i \in jobs'.todo \cup jobs'.done : Apart(worker'[v].job, i)
                      /\ \A u \in Busy' : u # v => Apart(worker'[v].job, worker'[u].job)
                      /\ worker'[v].pc = "copied" => content'[worker'[v].job.slot] = worker'[v].job.expert
    BY DEF WorkerInv
  <2>1. CASE v = w
    <3>1. Pending(worker[v].job)'
      BY <1>3, <1>6, <1>8, <2>1, Zenon DEF Pending
    <3>2. \A u \in Busy' : u # v => u \in Busy /\ worker'[u] = worker[u]
      BY <1>7, <2>1
    <3> QED BY <1>6, <1>8, <2>1, <3>1, <3>2
  <2>2. CASE v # w
    <3>1. v \in Busy /\ worker'[v] = worker[v]
      BY <1>7, <2>2
    <3>2. Pending(worker[v].job)'
      <4>1. Pending(worker[v].job)
        BY <1>1, <3>1 DEF Books, WorkerInv
      <4> QED BY <1>3, <3>1, <4>1, Zenon DEF Pending
    <3>3. \A i \in jobs'.todo \cup jobs'.done : Apart(worker[v].job, i)
      BY <1>1, <1>8, <3>1 DEF Books, WorkerInv
    <3>4. ASSUME NEW u \in Busy', u # v PROVE Apart(worker[v].job, worker'[u].job)
      <4>1. CASE u = w
        BY <1>6, <1>8, <3>1, <4>1
      <4>2. CASE u # w
        BY <1>1, <1>7, <3>1, <3>4, <4>2 DEF Books, WorkerInv
      <4> QED BY <4>1, <4>2
    <3> QED BY <1>1, <1>3, <3>1, <3>2, <3>3, <3>4 DEF Books, WorkerInv
  <2> QED BY <2>1, <2>2
<1>12. AdoptInv'
  <2>1. \A x \in Experts : cache.adopt_slot[x] # None => j.slot # cache.adopt_slot[x]
    BY <1>1 DEF Books, AdoptInv
  <2>2. \A v \in Busy' : (v = w /\ worker'[v].job = j) \/ (v \in Busy /\ worker'[v] = worker[v])
    BY <1>6, <1>7
  <2> QED BY <1>1, <1>3, <1>8, <2>1, <2>2 DEF Books, AdoptInv
<1> QED BY <1>1, <1>3, <1>5, <1>6, <1>9, <1>10, <1>11, <1>12, WorkerFrame DEF Books, Types

LEMMA WorkerKeeps ==
    ASSUME IInv, NEW w \in Workers, Worker(w)
    PROVE  IInv'
<1>1. Types /\ Books /\ content \in [Blocks -> Contents]
  BY DEF IInv, Books, Types
<1>2. CASE Pop(w)
  BY <1>2, PopKeeps
<1>3. CASE Gate(w)
  <2>1. w \in Busy /\ UNCHANGED <<pool, cache, content, kv, main>>
    BY <1>3 DEF Gate, Busy
  <2>2. CASE Finished(w, FALSE)
    <3>1. /\ worker' \in [Workers -> WorkerRec] /\ Books'
          /\ jobs' \in [todo : SUBSET JobSet, done : SUBSET JobSet]
      BY <1>1, <2>1, <2>2, FinishedKeeps
    <3> QED BY <1>1, <2>1, <3>1, WorkerFrame
  <2>3. CASE worker' = [worker EXCEPT ![w].pc = "enter"] /\ jobs' = jobs
    <3>1. worker' \in [Workers -> WorkerRec] /\ Books'
      BY <1>1, <2>1, <2>3, GoesOn
    <3> QED BY <1>1, <2>1, <2>3, <3>1, WorkerFrame DEF Types
  <2> QED BY <1>3, <2>2, <2>3 DEF Gate
<1>4. CASE TryEnter(w)
  <2>1. w \in Busy /\ UNCHANGED <<pool, cache, kv, main>>
    BY <1>4 DEF TryEnter, Busy
  <2>2. CASE Finished(w, FALSE) /\ content' = content
    <3>1. /\ worker' \in [Workers -> WorkerRec] /\ Books'
          /\ jobs' \in [todo : SUBSET JobSet, done : SUBSET JobSet]
      BY <1>1, <2>1, <2>2, FinishedKeeps
    <3> QED BY <1>1, <2>1, <2>2, <3>1, WorkerFrame
  <2>3. CASE /\ worker' = [worker EXCEPT ![w].pc = "copy"]
             /\ content' = [content EXCEPT ![worker[w].job.slot] = Junk]
             /\ jobs' = jobs
    <3>1. content' \in [Blocks -> Contents]
          /\ \A b \in Blocks : b # worker[w].job.slot => content'[b] = content[b]
      BY <1>1, <2>3 DEF Contents
    <3>2. /\ worker' \in [Workers -> WorkerRec] /\ Books'
          /\ \A b \in Blocks : pool.owner[b] \notin Layers => content'[b] = content[b]
      BY <1>1, <2>1, <2>3, <3>1, GoesOn
    <3> QED BY <1>1, <2>1, <2>3, <3>1, <3>2, WorkerFrame DEF Types
  <2> QED BY <1>4, <2>2, <2>3 DEF TryEnter
<1>5. CASE Leave(w)
  <2>1. w \in Busy /\ UNCHANGED <<pool, cache, jobs, kv, main>>
    BY <1>5 DEF Leave, Busy
  <2>2. PICK ok \in BOOLEAN :
          /\ worker' = [worker EXCEPT ![w].pc = IF ok THEN "copied" ELSE "failed"]
          /\ content' = IF ok THEN [content EXCEPT ![worker[w].job.slot] = worker[w].job.expert]
                        ELSE content
    BY <1>5 DEF Leave
  <2>3. worker[w].job.expert \in Experts /\ worker[w].job.slot \in Blocks
    BY <1>1, <2>1, BusyJob DEF JobSet
  <2>4. /\ content' \in [Blocks -> Contents]
        /\ \A b \in Blocks : b # worker[w].job.slot => content'[b] = content[b]
        /\ ok => content'[worker[w].job.slot] = worker[w].job.expert
    BY <1>1, <2>2, <2>3 DEF Contents
  <2>5. PICK p \in {"enter", "copy", "copied", "failed"} :
          worker' = [worker EXCEPT ![w].pc = p] /\ (p = "copied" => ok)
    BY <2>2
  <2>6. /\ worker' \in [Workers -> WorkerRec] /\ Books'
        /\ \A b \in Blocks : pool.owner[b] \notin Layers => content'[b] = content[b]
    BY <1>1, <2>1, <2>4, <2>5, GoesOn
  <2> QED BY <1>1, <2>1, <2>4, <2>6, WorkerFrame DEF Types
<1>6. CASE Push(w)
  <2>1. w \in Busy /\ UNCHANGED <<pool, cache, content, kv, main>>
    BY <1>6 DEF Push, Busy
  <2>2. worker[w].pc = "copied" => content[worker[w].job.slot] = worker[w].job.expert
    BY <1>1, <2>1 DEF Books, WorkerInv
  <2>3. PICK ok \in BOOLEAN : Finished(w, ok) /\ (ok => worker[w].pc = "copied")
    BY <1>6 DEF Push
  <2>4. /\ worker' \in [Workers -> WorkerRec] /\ Books'
        /\ jobs' \in [todo : SUBSET JobSet, done : SUBSET JobSet]
    BY <1>1, <2>1, <2>2, <2>3, FinishedKeeps
  <2> QED BY <1>1, <2>1, <2>4, WorkerFrame
<1> QED BY <1>2, <1>3, <1>4, <1>5, <1>6 DEF Worker

-----------------------------------------------------------------------------
(* The plans of the decode thread. *)

\* A step of the decode thread that touches neither blocks nor books.
LEMMA PlanFrame ==
    ASSUME IInv, pool'.owner = pool.owner, pool'.free = pool.free, pool' \in PoolRec,
           UNCHANGED <<cache, jobs, worker, content>>, kv' \in KvRec, main' \in MainRec,
           main'.pc \notin {"takeBlocks", "lendBlocks"}
    PROVE  Types' /\ FreeIsExact' /\ SlotInv' /\ DroppedInv'
           /\ JobInv' /\ WorkerInv' /\ AdoptInv' /\ TableInv'
<1>1. Types'
  BY DEF IInv, Types
<1>2. FreeIsExact' /\ DroppedInv'
  BY DEF IInv, FreeIsExact, DroppedInv
<1>3. Books'
  BY BooksFrame DEF IInv, Books
<1> QED BY <1>1, <1>2, <1>3 DEF Books

\* Where the zone is to go, and what the call then has.
LEMMA LayOutKeeps ==
    ASSUME IInv, NEW m \in MainRec, NEW z \in [h : 0 .. NBlocks, l : 0 .. NBlocks],
           NEW pc \in {"slots", "alias"}, NEW rows \in Nat, LayOut(m, z, pc, rows),
           UNCHANGED <<pool, cache, jobs, worker, content>>,
           main.pc \in {"idle", "next", "alias"}, kv.cells <= rows,
           \/ z = [h |-> kv.h, l |-> kv.start]
           \/ /\ z.l + z.h <= NBlocks /\ kv.cells <= z.h
              /\ z.l < kv.start => z.l + z.h = NBlocks,
           pc = "slots" => kv.cells < m.plan,
           pc = "alias" => kv.cells < m.last,
           pc = "alias" =>
               /\ kv.cells < kv_tail_cap
                    /\ (m.size \in SmallPasses => kv.cells + Need[m.size] < NBlocks) => kv.cells < z.h
               /\ m.plan # 0 => m.plan = m.last /\ m.last <= z.h
    PROVE  IInv'
<1>1. /\ Types /\ ZoneInv /\ LendInv /\ KvInv /\ kv \in KvRec /\ pool \in PoolRec
      /\ main.pc \notin Announced \cup Moving
  BY DEF IInv, Types, Announced, Moving
<1>2. /\ kv.h \in 0 .. NBlocks /\ kv.start \in 0 .. NBlocks /\ NBlocks \in Nat
      /\ z.h \in 0 .. NBlocks /\ z.l \in 0 .. NBlocks /\ kv.start + kv.h <= NBlocks
  BY <1>1, Basics DEF KvRec, ZoneInv, Moving
<1>3. \A b \in Blocks : pool.owner[b] = Zone <=> b \in OldZone
  BY <1>1 DEF ZoneInv, ZoneBlocks, Moving
<1>4. CASE z = [h |-> kv.h, l |-> kv.start]
  <2>1. main' = [m EXCEPT !.pc = pc] /\ kv' = kv
    BY <1>4 DEF LayOut
  <2>2. /\ main' \in MainRec /\ main'.pc = pc /\ main'.plan = m.plan /\ main'.last = m.last
    BY <2>1 DEF MainRec, MainPcs, Building
  <2>3. pc \notin Announced \cup Moving /\ pc \notin {"takeBlocks", "lendBlocks"}
    BY DEF Announced, Moving
  <2>4. /\ Types' /\ FreeIsExact' /\ SlotInv' /\ DroppedInv'
        /\ JobInv' /\ WorkerInv' /\ AdoptInv' /\ TableInv'
    BY <1>1, <2>1, <2>2, <2>3, PlanFrame
  <2>5. ZoneInv'
    <3>1. ZoneBlocks' = OldZone
      BY <2>1, <2>2, <2>3 DEF ZoneBlocks, OldZone, Moving
    <3> QED BY <1>2, <1>3, <2>1, <2>2, <2>3, <3>1 DEF ZoneInv, Moving
  <2>6. LendInv'
    BY <1>1, <2>1, <2>2, <2>3 DEF LendInv
  <2>7. KvInv'
    BY <1>1, <2>1, <2>2, <2>3 DEF KvInv, Moving, Announced
  <2>8. CallInv'
    BY <2>1, <2>2, <2>3 DEF CallInv, Building
  <2>9. CoverInv'
    BY <1>4, <2>1, <2>2, <2>3 DEF IInv, CoverInv, Fits, kv_tail_cap, InCall, Height, Building
  <2> QED BY <2>4, <2>5, <2>6, <2>7, <2>8, <2>9 DEF IInv
<1>5. CASE z # [h |-> kv.h, l |-> kv.start]
  <2> DEFINE S == Span(Min({z.l, kv.start}), Max({z.l + z.h, kv.start + kv.h}))
  <2>1. /\ main' = [m EXCEPT !.pc = "moveWait", !.next = pc, !.h = z.h, !.l = z.l, !.rows = rows]
        /\ kv' = [kv EXCEPT !.moving = S]
    BY <1>5 DEF LayOut
  <2>2. /\ main' \in MainRec /\ main'.pc = "moveWait" /\ main'.next = pc /\ main'.h = z.h
        /\ main'.l = z.l /\ main'.rows = rows /\ main'.plan = m.plan /\ main'.last = m.last
        /\ main'.size = m.size
    BY <2>1 DEF MainRec, MainPcs, Announced
  <2>3. S \in SUBSET Blocks
    <3>1. Min({z.l, kv.start}) \in 0 .. NBlocks
      BY <1>2, MinPair
    <3>2. z.l + z.h \in Int /\ kv.start + kv.h \in Int /\ z.l + z.h <= NBlocks
      BY <1>2, <1>5
    <3>3. Max({z.l + z.h, kv.start + kv.h}) \in Int /\ Max({z.l + z.h, kv.start + kv.h}) <= NBlocks
      <4> DEFINE e == z.l + z.h
                 f == kv.start + kv.h
      <4>1. e \in Int /\ f \in Int /\ e <= NBlocks /\ f <= NBlocks
        BY <1>2, <3>2
      <4> HIDE DEF e, f
      <4>2. Max({e, f}) \in Int /\ Max({e, f}) <= NBlocks
        BY <4>1, MaxPair
      <4> QED BY <4>2 DEF e, f
    <3> QED BY <1>2, <3>1, <3>3 DEF Span, Blocks
  <2> HIDE DEF S
  <2>4. /\ kv' \in KvRec /\ kv'.h = kv.h /\ kv'.start = kv.start /\ kv'.cells = kv.cells
        /\ kv'.dec_need = kv.dec_need
    BY <1>1, <2>1, <2>3 DEF KvRec
  <2>5. "moveWait" \in Announced /\ "moveWait" \notin Moving
    BY DEF Announced, Moving
  <2>6. /\ Types' /\ FreeIsExact' /\ SlotInv' /\ DroppedInv'
        /\ JobInv' /\ WorkerInv' /\ AdoptInv' /\ TableInv'
    BY <1>1, <2>2, <2>4, PlanFrame
  <2>7. ZoneInv'
    <3>1. ZoneBlocks' = OldZone
      BY <2>2, <2>4 DEF ZoneBlocks, OldZone
    <3> QED BY <1>2, <1>3, <1>5, <2>2, <2>4, <2>5, <3>1 DEF ZoneInv
  <2>8. LendInv'
    BY <1>1, <2>2, <2>4, <2>5 DEF LendInv
  <2>9. KvInv'
    BY <1>1, <1>5, <2>2, <2>4 DEF KvInv, Moving
  <2>10. CallInv'
    BY <2>2, <2>4 DEF CallInv, Building
  <2>11. CoverInv'
    BY <2>2, <2>4, <2>5 DEF IInv, CoverInv, Fits, kv_tail_cap, InCall, Height, Building
  <2> QED BY <2>6, <2>7, <2>8, <2>9, <2>10, <2>11 DEF IInv
<1> QED BY <1>4, <1>5

LEMMA CallKeeps ==
    ASSUME IInv, Call
    PROVE  IInv'
<1>1. Types /\ main \in MainRec /\ kv \in KvRec /\ kv.cells \in 0 .. MaxCells /\ MaxCells \in Nat
      /\ NBlocks \in Nat
  BY Basics DEF IInv, Types, KvRec
<1>2. PICK n \in 1 .. MaxCells - kv.cells :
        LayOut([main EXCEPT !.plan = kv.cells + n], kv_tail_plan(kv.cells + n, TRUE, 0), "slots", kv.cells)
  BY DEF Call
<1> DEFINE eff == kv.cells + n
           z == kv_tail_plan(eff, TRUE, 0)
           m == [main EXCEPT !.plan = eff]
<1>3. eff \in 1 .. MaxCells /\ kv.cells < eff
  BY <1>1
<1>4. m \in MainRec /\ m.plan = eff
  BY <1>1, <1>3 DEF MainRec
<1> HIDE DEF eff
<1>5. Planned(z, eff, 0)
  <2>1. 0 \in 0 .. NBlocks
    BY <1>1
  <2> QED BY <1>1, <1>3, <2>1, PlanIs, Zenon
<1> HIDE DEF z, m
<1>6. LayOut(m, z, "slots", kv.cells)
  BY <1>2 DEF m, z, eff
<1>7. /\ z \in [h : 0 .. NBlocks, l : 0 .. NBlocks]
      /\ \/ z = [h |-> kv.h, l |-> kv.start]
         \/ /\ z.l + z.h <= NBlocks /\ kv.cells <= z.h
            /\ z.l < kv.start => z.l + z.h = NBlocks
  BY <1>1, <1>3, <1>5 DEF Planned
<1>8. main.pc = "idle" /\ UNCHANGED <<pool, cache, jobs, worker, content>>
  BY DEF Call
<1> QED BY <1>1, <1>3, <1>4, <1>5, <1>6, <1>7, <1>8, LayOutKeeps

\* The zone lies still.
LEMMA StillFrame ==
    ASSUME Types, ZoneInv, KvInv, pool'.owner = pool.owner, content' = content,
           kv'.start = kv.start, kv'.h = kv.h, kv'.cells \in Nat, kv'.cells <= kv.cells,
           main.pc \notin Announced \cup Moving, main'.pc \notin Announced \cup Moving \cup {"compute"}
    PROVE  ZoneInv' /\ KvInv'
<1>1. ZoneBlocks' = OldZone /\ ZoneBlocks = OldZone
  BY DEF ZoneBlocks, OldZone, Moving
<1>2. ZoneInv'
  BY <1>1 DEF ZoneInv, Moving
<1>3. kv.cells \in Nat
  BY Basics DEF Types, KvRec
<1>4. KvInv'
  BY <1>3 DEF KvInv, Moving, Announced
<1> QED BY <1>2, <1>4

LEMMA TruncateKeeps ==
    ASSUME IInv, Truncate
    PROVE  IInv'
<1>1. Types /\ kv \in KvRec /\ kv.cells \in 0 .. MaxCells /\ MaxCells \in Nat /\ main.pc = "idle"
  BY Basics DEF IInv, Types, KvRec, Truncate
<1>2. PICK keep \in 0 .. kv.cells - 1 : kv' = [kv EXCEPT !.cells = keep]
  BY DEF Truncate
<1>3. /\ kv' \in KvRec /\ kv'.cells = keep /\ kv'.h = kv.h /\ kv'.start = kv.start
      /\ kv'.dec_need = kv.dec_need /\ keep \in Nat /\ keep <= kv.cells
  BY <1>1, <1>2 DEF KvRec
<1>4. UNCHANGED <<pool, cache, jobs, worker, content, main>>
  BY DEF Truncate
<1>5. /\ Types' /\ FreeIsExact' /\ SlotInv' /\ DroppedInv'
      /\ JobInv' /\ WorkerInv' /\ AdoptInv' /\ TableInv'
  BY <1>1, <1>3, <1>4, PlanFrame DEF Types
<1>6. ZoneInv' /\ KvInv'
  BY <1>1, <1>3, <1>4, StillFrame DEF IInv, Announced, Moving
<1>7. LendInv'
  BY <1>1, <1>3, <1>4 DEF IInv, LendInv
<1>8. CallInv' /\ CoverInv'
  BY <1>1, <1>3, <1>4
  DEF IInv, CallInv, CoverInv, Fits, kv_tail_cap, InCall, Height, Building, Announced, Moving
<1> QED BY <1>5, <1>6, <1>7, <1>8 DEF IInv

LEMMA FindSlotsKeeps ==
    ASSUME IInv, FindSlots
    PROVE  IInv'
<1>1. /\ Types /\ main \in MainRec /\ kv \in KvRec /\ main.pc = "slots"
      /\ main.plan \in 0 .. MaxCells /\ kv.cells \in 0 .. MaxCells /\ MaxCells \in Nat /\ NBlocks \in Nat
      /\ kv.h \in 0 .. NBlocks /\ kv.dec_need \in 0 .. NBlocks
  BY Basics DEF IInv, Types, KvRec, MainRec, FindSlots
<1>2. /\ main' \in MainRec /\ main'.plan = main.plan /\ main'.last = main.plan
      /\ main'.pc \in {"next", "idle"}
      /\ main'.pc = "next" => main.plan <= Min({kv.h, kv_tail_cap})
  BY <1>1 DEF FindSlots, MainRec, MainPcs
<1>3. UNCHANGED <<pool, cache, jobs, worker, content, kv>>
  BY DEF FindSlots
<1>4. main'.pc = "next" => main.plan <= kv.h
  <2>1. kv_tail_cap \in Int
    BY <1>1 DEF kv_tail_cap
  <2> QED BY <1>1, <1>2, <2>1, MinPair
<1>5. /\ Types' /\ FreeIsExact' /\ SlotInv' /\ DroppedInv'
      /\ JobInv' /\ WorkerInv' /\ AdoptInv' /\ TableInv'
  BY <1>1, <1>2, <1>3, PlanFrame DEF Types
<1>6. ZoneInv' /\ KvInv'
  BY <1>1, <1>2, <1>3, StillFrame DEF IInv, Announced, Moving
<1>7. LendInv'
  BY <1>1, <1>2, <1>3 DEF IInv, LendInv, Moving
<1>8. CallInv'
  BY <1>1, <1>2, <1>3 DEF IInv, CallInv, Building, Announced, Moving
<1>9. CoverInv'
  BY <1>1, <1>2, <1>3, <1>4 DEF IInv, CoverInv, Fits, kv_tail_cap, InCall, Height, Building, Announced, Moving
<1> QED BY <1>5, <1>6, <1>7, <1>8, <1>9 DEF IInv

LEMMA PassKeeps ==
    ASSUME IInv, NEW k \in Passes, Pass(k)
    PROVE  IInv'
<1>1. /\ Types /\ main \in MainRec /\ kv \in KvRec /\ main.pc = "next" /\ kv.cells < main.last
      /\ main.plan \in 0 .. MaxCells /\ kv.cells \in 0 .. MaxCells /\ MaxCells \in Nat /\ NBlocks \in Nat
      /\ main.last \in 0 .. MaxCells /\ MaxCells <= NBlocks /\ Need[k] \in 1 .. NBlocks
      /\ main.plan = 0 => k \in SmallPasses
      /\ UNCHANGED <<pool, cache, jobs, worker, content>>
  BY Basics DEF IInv, Types, KvRec, MainRec, Pass
<1> DEFINE plan == IF k \in SmallPasses THEN 0 ELSE main.plan
           eff == Max({kv.cells + 1, plan})
           m == [main EXCEPT !.size = k, !.plan = plan]
           z == kv_tail_plan(eff, FALSE, Known(k))
<1>2. LayOut(m, z, "alias", kv.cells + 1)
  BY DEF Pass
<1>3. plan \in 0 .. MaxCells
  BY <1>1
<1>4. eff \in 1 .. MaxCells /\ kv.cells < eff /\ plan <= eff
  <2> HIDE DEF plan
  <2>1. kv.cells + 1 \in 1 .. MaxCells
    BY <1>1
  <2> QED BY <1>1, <1>3, <2>1, MaxPair
<1>5. Known(k) \in 0 .. NBlocks /\ Known(k) <= Need[k]
  BY <1>1 DEF Known
<1>6. m \in MainRec /\ m.plan = plan /\ m.last = main.last
  <2> HIDE DEF plan
  <2> QED BY <1>1, <1>3 DEF MainRec
<1>7. Planned(z, eff, Known(k))
  <2> HIDE DEF eff
  <2> QED BY <1>1, <1>4, <1>5, PlanIs, Zenon
<1> HIDE DEF m, z, eff
<1>8. /\ z \in [h : 0 .. NBlocks, l : 0 .. NBlocks]
      /\ \/ z = [h |-> kv.h, l |-> kv.start]
         \/ /\ z.l + z.h <= NBlocks /\ kv.cells <= z.h
            /\ z.l < kv.start => z.l + z.h = NBlocks
  <2>1. z \in [h : 0 .. NBlocks, l : 0 .. NBlocks]
    BY <1>7 DEF Planned
  <2> QED BY <1>1, <1>4, <1>7, <2>1 DEF Planned
<1>9. /\ kv.dec_need \in 0 .. NBlocks /\ kv.h \in 0 .. NBlocks /\ z.h \in 0 .. NBlocks
      /\ CoverInv /\ m.size = k
  BY <1>1, <1>8 DEF IInv, KvRec, MainRec, m
<1>10. CASE k \in SmallPasses
  <2>1. m.plan = 0
    BY <1>6, <1>10
  <2>2. ASSUME kv.cells < kv_tail_cap, kv.cells + Need[k] < NBlocks PROVE kv.cells < z.h
    <3>1. eff = kv.cells + 1
      BY <1>1, <1>10, MaxPair DEF eff
    <3>2. kv.dec_need + eff <= NBlocks /\ Known(k) + eff <= NBlocks
      BY <1>1, <1>5, <1>9, <2>2, <3>1 DEF kv_tail_cap
    <3>3. eff <= z.h
      BY <1>7, <3>2 DEF Planned
    <3> QED BY <1>1, <1>9, <3>1, <3>3
  <2> QED BY <1>1, <1>2, <1>6, <1>8, <1>9, <1>10, <2>1, <2>2, LayOutKeeps
<1>11. CASE k \notin SmallPasses
  <2>1. plan = main.plan /\ main.plan # 0
    BY <1>1, <1>11
  <2>2. main.plan = main.last /\ main.last <= kv.h
    BY <1>1, <1>9, <2>1 DEF CoverInv, InCall, Height, Announced, Moving
  <2>3. z.h = kv.h \/ eff <= z.h
    BY <1>7 DEF Planned
  <2>4. kv.cells < z.h /\ m.plan = m.last /\ m.last <= z.h
    BY <1>1, <1>4, <1>6, <1>9, <2>1, <2>2, <2>3
  <2> QED BY <1>1, <1>2, <1>6, <1>8, <2>4, LayOutKeeps
<1> QED BY <1>10, <1>11

LEMMA RefuseKeeps ==
    ASSUME IInv, Refuse
    PROVE  IInv'
<1>1. /\ Types /\ main \in MainRec /\ kv \in KvRec /\ main.pc = "alias" /\ main.size \in Passes
      /\ kv.cells \in Nat
  BY Basics DEF IInv, Types, MainRec, KvRec, Refuse
<1>2. kv' = [kv EXCEPT !.seen = @ \cup {main.size}] /\ main' = [main EXCEPT !.pc = "idle"]
      /\ UNCHANGED <<pool, cache, jobs, worker, content>>
  BY DEF Refuse
<1>3. /\ kv' \in KvRec /\ kv'.h = kv.h /\ kv'.start = kv.start /\ kv'.cells = kv.cells
      /\ kv'.dec_need = kv.dec_need
  BY <1>1, <1>2 DEF KvRec
<1>4. main' \in MainRec /\ main'.pc = "idle"
  BY <1>1, <1>2 DEF MainRec, MainPcs
<1>5. /\ Types' /\ FreeIsExact' /\ SlotInv' /\ DroppedInv'
      /\ JobInv' /\ WorkerInv' /\ AdoptInv' /\ TableInv'
  BY <1>1, <1>2, <1>3, <1>4, PlanFrame DEF Types
<1>6. ZoneInv' /\ KvInv'
  BY <1>1, <1>2, <1>3, <1>4, StillFrame DEF IInv, Announced, Moving
<1>7. LendInv'
  BY <1>1, <1>2, <1>3, <1>4 DEF IInv, LendInv, Moving
<1>8. CallInv' /\ CoverInv'
  BY <1>1, <1>2, <1>3, <1>4
  DEF IInv, CallInv, CoverInv, Fits, kv_tail_cap, InCall, Height, Building, Announced, Moving
<1> QED BY <1>5, <1>6, <1>7, <1>8 DEF IInv

LEMMA MoveBehindKeeps ==
    ASSUME IInv, MoveBehind
    PROVE  IInv'
<1> DEFINE n == Need[main.size]
           hw == Min({kv.h, Max({NBlocks - n, kv.cells + 1})})
           z == Layout(hw, n, n, Eff)
<1>1. /\ Types /\ main \in MainRec /\ kv \in KvRec /\ main.pc = "alias" /\ n > kv.start
      /\ n + Eff <= NBlocks /\ LayOut(main, z, "alias", kv.cells + 1)
      /\ UNCHANGED <<pool, cache, jobs, worker, content>>
  BY DEF IInv, Types, MoveBehind
<1>2. /\ n \in 1 .. NBlocks /\ NBlocks \in Nat /\ kv.h \in 0 .. NBlocks /\ kv.start \in 0 .. NBlocks
      /\ kv.cells \in Nat /\ main.plan \in Nat /\ kv.cells < main.last
  BY <1>1, Basics DEF IInv, CallInv, KvRec, MainRec, Building
<1> HIDE DEF n
<1>3. Eff \in 1 .. NBlocks /\ kv.cells < Eff /\ main.plan <= Eff
  <2>1. Eff = IF kv.cells + 1 >= main.plan THEN kv.cells + 1 ELSE main.plan
    BY <1>2, MaxPair DEF Eff
  <2> QED BY <1>1, <1>2, <2>1
<1>4. hw \in 0 .. NBlocks
  <2>1. Max({NBlocks - n, kv.cells + 1}) = IF NBlocks - n >= kv.cells + 1 THEN NBlocks - n ELSE kv.cells + 1
    BY <1>2, MaxPair
  <2>2. Max({NBlocks - n, kv.cells + 1}) \in Nat
    BY <1>2, <2>1
  <2> DEFINE M == Max({NBlocks - n, kv.cells + 1})
  <2> HIDE DEF M
  <2>3. M \in Nat /\ hw = Min({kv.h, M})
    BY <2>2 DEF M
  <2> HIDE DEF hw
  <2> QED BY <1>2, <2>3, MinPair
<1>5. RoomFor(z, n, n, Eff)
  <2> HIDE DEF hw
  <2>1. n \in 0 .. NBlocks
    BY <1>2
  <2> QED BY <1>1, <1>3, <1>4, <2>1, LayoutIs
<1> HIDE DEF z, hw
<1>6. z \in [h : 0 .. NBlocks, l : 0 .. NBlocks] /\ Eff <= z.h
  BY <1>1, <1>5 DEF RoomFor
<1>7. \/ z = [h |-> kv.h, l |-> kv.start]
      \/ /\ z.l + z.h <= NBlocks /\ kv.cells <= z.h
         /\ z.l < kv.start => z.l + z.h = NBlocks
  BY <1>1, <1>2, <1>3, <1>5, <1>6 DEF RoomFor
<1>8. kv.cells < z.h /\ (main.plan # 0 => main.plan = main.last /\ main.last <= z.h)
  <2>1. main.plan # 0 => main.plan = main.last
    BY <1>1 DEF IInv, CoverInv, InCall, Building
  <2> QED BY <1>2, <1>3, <1>6, <2>1
<1> QED BY <1>1, <1>2, <1>6, <1>7, <1>8, LayOutKeeps

LEMMA AliasKeeps ==
    ASSUME IInv, Alias
    PROVE  IInv'
<1> DEFINE n == Need[main.size]
<1>1. /\ Types /\ main \in MainRec /\ kv \in KvRec /\ pool \in PoolRec /\ main.pc = "alias"
      /\ main.size \in Passes /\ kv.cells \in Nat /\ kv.dec_need \in 0 .. NBlocks /\ NBlocks \in Nat
      /\ n \in 1 .. NBlocks /\ n <= kv.start /\ kv.start \in 0 .. NBlocks
      /\ pool.blocked \in 0 .. NBlocks
  BY Basics DEF IInv, Types, MainRec, KvRec, PoolRec, Alias
<1>2. /\ kv' = [kv EXCEPT !.seen = @ \cup {main.size},
                          !.dec_need = IF main.size \in SmallPasses THEN Max({@, n}) ELSE @]
      /\ pool' = [pool EXCEPT !.want = n]
      /\ main' = [main EXCEPT !.pc = IF n > pool.blocked THEN "lend" ELSE "launch", !.kept = {}]
      /\ UNCHANGED <<cache, jobs, worker, content>>
  BY DEF Alias
<1> DEFINE dn == IF main.size \in SmallPasses THEN Max({kv.dec_need, n}) ELSE kv.dec_need
<1>3. dn \in 0 .. NBlocks /\ (dn = kv.dec_need \/ (dn = n /\ main.size \in SmallPasses))
  <2>1. Max({kv.dec_need, n}) = IF kv.dec_need >= n THEN kv.dec_need ELSE n
    BY <1>1, MaxPair
  <2> HIDE DEF n
  <2> QED BY <1>1, <2>1
<1>4. /\ kv' \in KvRec /\ kv'.h = kv.h /\ kv'.start = kv.start /\ kv'.cells = kv.cells
      /\ kv'.dec_need = dn
  <2>1. kv' = [kv EXCEPT !.seen = kv.seen \cup {main.size}, !.dec_need = dn]
    BY <1>1, <1>2 DEF KvRec
  <2> HIDE DEF dn
  <2> QED BY <1>1, <1>3, <2>1 DEF KvRec
<1>5. /\ main' \in MainRec /\ main'.size = main.size /\ main'.plan = main.plan /\ main'.last = main.last
      /\ main'.pc = IF n > pool.blocked THEN "lend" ELSE "launch"
  <2> HIDE DEF n
  <2> QED BY <1>1, <1>2 DEF MainRec, MainPcs, Building
<1>6. /\ pool' \in PoolRec /\ pool'.owner = pool.owner /\ pool'.free = pool.free
      /\ pool'.blocked = pool.blocked /\ pool'.want = n
  <2> HIDE DEF n
  <2> QED BY <1>1, <1>2 DEF PoolRec
<1>7. /\ Types' /\ FreeIsExact' /\ SlotInv' /\ DroppedInv'
      /\ JobInv' /\ WorkerInv' /\ AdoptInv' /\ TableInv'
  BY <1>1, <1>2, <1>4, <1>5, <1>6, PlanFrame DEF Types
<1>8. ZoneInv' /\ KvInv'
  BY <1>1, <1>2, <1>4, <1>5, <1>6, StillFrame DEF IInv, Announced, Moving
<1>9. LendInv'
  BY <1>1, <1>2, <1>4, <1>5, <1>6 DEF IInv, LendInv, Moving
<1>10. CallInv'
  BY <1>1, <1>2, <1>4, <1>5 DEF IInv, CallInv, Building, Announced, Moving
<1>11. CoverInv'
  <2>1. CoverInv
    BY DEF IInv
  <2>2. main.pc \in Building /\ main'.pc \in {"lend", "launch"} /\ main'.pc \notin Announced \cup Moving
        /\ main.pc \notin Announced \cup Moving
    BY <1>1, <1>5 DEF Building, Announced, Moving
  <2>3. Height' = kv.h /\ Height = kv.h /\ InCall
    BY <1>4, <2>2 DEF Height, InCall
  <2>4. dn >= kv.dec_need /\ (main.size \in SmallPasses => dn >= n)
    <3>1. Max({kv.dec_need, n}) = IF kv.dec_need >= n THEN kv.dec_need ELSE n
      BY <1>1, MaxPair
    <3> HIDE DEF n
    <3> QED BY <1>1, <3>1
  <2>5. ASSUME Fits' PROVE Fits
    <3>1. kv.cells < NBlocks - dn
      BY <1>4, <2>5 DEF Fits, kv_tail_cap
    <3> HIDE DEF dn
    <3> QED BY <1>1, <1>3, <2>4, <3>1 DEF Fits, kv_tail_cap
  <2> HIDE DEF n, dn
  <2> QED BY <1>1, <1>4, <1>5, <2>1, <2>2, <2>3, <2>5 DEF CoverInv
<1> QED BY <1>7, <1>8, <1>9, <1>10, <1>11 DEF IInv

LEMMA AssertFailsKeeps ==
    ASSUME IInv, AssertFails
    PROVE  IInv'
<1>1. /\ main \in MainRec /\ main.pc = "launch" /\ main' = [main EXCEPT !.pc = "aborted"]
      /\ UNCHANGED <<pool, cache, jobs, worker, content, kv>>
  BY DEF IInv, Types, AssertFails
<1>2. /\ main' \in MainRec /\ main'.pc = "aborted" /\ main'.size = main.size
      /\ main'.plan = main.plan /\ main'.last = main.last
  BY <1>1 DEF MainRec, MainPcs, Building
<1>3. /\ Types' /\ FreeIsExact' /\ SlotInv' /\ DroppedInv'
      /\ JobInv' /\ WorkerInv' /\ AdoptInv' /\ TableInv'
  BY <1>1, <1>2, PlanFrame DEF IInv, Types
<1>4. ZoneInv' /\ KvInv'
  BY <1>1, <1>2, StillFrame, Basics DEF IInv, Announced, Moving, Types, KvRec
<1>5. LendInv' /\ CallInv'
  BY <1>1, <1>2 DEF IInv, LendInv, CallInv, Building, Announced, Moving
<1>6. CoverInv'
  BY <1>1, <1>2 DEF IInv, CoverInv, Fits, kv_tail_cap, InCall, Height, Building, Announced, Moving
<1> QED BY <1>3, <1>4, <1>5, <1>6 DEF IInv

LEMMA MoveWaitKeeps ==
    ASSUME IInv, MoveWait
    PROVE  IInv'
<1>1. /\ main \in MainRec /\ main.pc = "moveWait" /\ main' = [main EXCEPT !.pc = "take"]
      /\ UNCHANGED <<pool, cache, jobs, worker, content, kv>>
  BY DEF IInv, Types, MoveWait
<1>2. /\ main' \in MainRec /\ main'.pc = "take" /\ main'.next = main.next /\ main'.h = main.h
      /\ main'.l = main.l /\ main'.rows = main.rows /\ main'.plan = main.plan /\ main'.last = main.last
  BY <1>1 DEF MainRec, MainPcs, Announced
<1>3. /\ Types' /\ FreeIsExact' /\ SlotInv' /\ DroppedInv'
      /\ JobInv' /\ WorkerInv' /\ AdoptInv' /\ TableInv'
  BY <1>1, <1>2, PlanFrame DEF IInv, Types
<1>4. ZoneInv' /\ LendInv' /\ KvInv' /\ CallInv'
  BY <1>1, <1>2
  DEF IInv, ZoneInv, ZoneBlocks, OldZone, LendInv, KvInv, CallInv, Building, Announced, Moving
<1>5. CoverInv'
  BY <1>1, <1>2 DEF IInv, CoverInv, Fits, kv_tail_cap, InCall, Height, Building, Announced, Moving
<1> QED BY <1>3, <1>4, <1>5 DEF IInv

LEMMA EndsKeep ==
    ASSUME IInv, ReheatEnd \/ StepEnd
    PROVE  IInv'
<1>1. /\ main \in MainRec /\ main.pc \in {"reheat", "sched"}
      /\ UNCHANGED <<pool, cache, jobs, worker, content, kv>>
  BY DEF IInv, Types, ReheatEnd, StepEnd
<1>2. main' \in MainRec /\ main'.pc \in {"sched", "idle"}
  BY <1>1 DEF MainRec, MainPcs, ReheatEnd, StepEnd
<1>3. /\ Types' /\ FreeIsExact' /\ SlotInv' /\ DroppedInv'
      /\ JobInv' /\ WorkerInv' /\ AdoptInv' /\ TableInv'
  BY <1>1, <1>2, PlanFrame DEF IInv, Types
<1>4. ZoneInv' /\ KvInv'
  BY <1>1, <1>2, StillFrame, Basics DEF IInv, Announced, Moving, Types, KvRec
<1>5. LendInv' /\ CallInv'
  BY <1>1, <1>2 DEF IInv, LendInv, CallInv, Building, Announced, Moving
<1>6. CoverInv'
  BY <1>1, <1>2 DEF IInv, CoverInv, Fits, kv_tail_cap, InCall, Height, Building, Announced, Moving
<1> QED BY <1>3, <1>4, <1>5, <1>6 DEF IInv

-----------------------------------------------------------------------------
(* The zone moves, the graph runs. *)

LEMMA MoveBytesKeeps ==
    ASSUME IInv, MoveBytes
    PROVE  IInv'
<1> DEFINE n == Min({main.rows, main.h, kv.h})
<1>1. /\ Types /\ Books /\ main \in MainRec /\ kv \in KvRec /\ main.pc = "move"
      /\ content' = [b \in Blocks |-> IF b \in Span(main.l, main.l + n)
                                      THEN content[kv.start + b - main.l] ELSE content[b]]
      /\ main' = [main EXCEPT !.pc = "give"]
      /\ UNCHANGED <<pool, cache, jobs, worker, kv>>
  BY DEF IInv, Books, Types, MoveBytes
<1>2. /\ main.rows \in Nat /\ main.h \in 0 .. NBlocks /\ main.l \in 0 .. NBlocks /\ NBlocks \in Nat
      /\ kv.h \in 0 .. NBlocks /\ kv.start \in 0 .. NBlocks /\ kv.cells \in 0 .. MaxCells /\ MaxCells \in Nat
      /\ main.l + main.h <= NBlocks /\ kv.start + kv.h <= NBlocks
      /\ kv.cells <= main.h /\ kv.cells <= main.rows
  BY <1>1, Basics DEF IInv, MainRec, KvRec, ZoneInv, KvInv, Moving
<1>3. n \in {main.rows, main.h, kv.h} /\ n <= main.rows /\ n <= main.h /\ n <= kv.h /\ n \in Nat
  <2>1. main.rows \in Int /\ main.h \in Int /\ kv.h \in Int
    BY <1>2
  <2>2. n \in {main.rows, main.h, kv.h} /\ n <= main.rows /\ n <= main.h /\ n <= kv.h
    BY <2>1, MinTriple
  <2> HIDE DEF n
  <2> QED BY <1>2, <2>2
<1> HIDE DEF n
<1>4. /\ main' \in MainRec /\ main'.pc = "give" /\ main'.next = main.next /\ main'.h = main.h
      /\ main'.l = main.l /\ main'.plan = main.plan /\ main'.last = main.last
  BY <1>1 DEF MainRec, MainPcs, Moving
<1>5. ASSUME NEW b \in Blocks
      PROVE  /\ b \in Span(main.l, main.l + n) =>
                  kv.start + b - main.l \in Blocks /\ pool.owner[b] = Zone
             /\ b \notin Span(main.l, main.l + n) => content'[b] = content[b]
  <2>1. b \in Nat
    BY Basics
  <2>2. ASSUME b \in Span(main.l, main.l + n)
        PROVE  kv.start + b - main.l \in Blocks /\ b \in NewZone
    BY <1>2, <1>3, <2>1, <2>2 DEF Span, Blocks, NewZone
  <2>3. NewZone \subseteq ZoneBlocks
    BY <1>1 DEF ZoneBlocks
  <2> QED BY <1>1, <2>2, <2>3 DEF IInv, ZoneInv
<1>6. content' \in [Blocks -> Contents]
  BY <1>1, <1>5 DEF Types
<1>7. Types'
  BY <1>1, <1>4, <1>6 DEF Types
<1>8. Books'
  BY <1>1, <1>5, BooksFrame, Basics
<1>9. FreeIsExact' /\ DroppedInv'
  BY <1>1, <1>4 DEF IInv, FreeIsExact, DroppedInv
<1>10. ZoneInv' /\ LendInv' /\ CallInv'
  BY <1>1, <1>4 DEF IInv, ZoneInv, ZoneBlocks, OldZone, NewZone, LendInv, CallInv, Building, Announced, Moving
<1>11. CoverInv'
  BY <1>1, <1>4 DEF IInv, CoverInv, Fits, kv_tail_cap, InCall, Height, Building, Announced, Moving
<1>12. KvInv'
  <2> SUFFICES ASSUME NEW i \in 0 .. kv.cells - 1
               PROVE  i < main.h /\ content'[main.l + i] = i
    BY <1>1, <1>4 DEF KvInv, Announced
  <2>1. i < kv.h /\ content[kv.start + i] = i
    BY <1>1 DEF IInv, KvInv
  <2>2. /\ i < main.h /\ main.l + i \in Blocks /\ main.l + i \in Span(main.l, main.l + n)
        /\ kv.start + (main.l + i) - main.l = kv.start + i
    BY <1>2, <1>3, <2>1 DEF Span, Blocks
  <2> QED BY <1>1, <2>1, <2>2
<1> QED BY <1>7, <1>8, <1>9, <1>10, <1>11, <1>12 DEF IInv, Books

\* The blocks of R, none of them free, go to the free stack.
LEMMA ToFreeIs ==
    ASSUME NEW p \in PoolRec, NEW R \in SUBSET Blocks
    PROVE  /\ ToFree(p, R) \in PoolRec
           /\ \A b \in Blocks : /\ ToFree(p, R).owner[b] = IF b \in R THEN Free ELSE p.owner[b]
                                /\ ToFree(p, R).free[b] = IF b \in R THEN p.free[b] + 1 ELSE p.free[b]
           /\ ToFree(p, R).blocked = p.blocked /\ ToFree(p, R).want = p.want
<1> DEFINE O == [b \in Blocks |-> IF b \in R THEN Free ELSE p.owner[b]]
           F == [b \in Blocks |-> IF b \in R THEN p.free[b] + 1 ELSE p.free[b]]
<1>1. O \in [Blocks -> Owners] /\ F \in [Blocks -> Nat]
  BY DEF PoolRec, Owners
<1>2. \A b \in Blocks : /\ O[b] = IF b \in R THEN Free ELSE p.owner[b]
                        /\ F[b] = IF b \in R THEN p.free[b] + 1 ELSE p.free[b]
  OBVIOUS
<1>3. ToFree(p, R) = [p EXCEPT !.owner = O, !.free = F]
  BY DEF ToFree
<1> HIDE DEF O, F
<1>4. /\ ToFree(p, R) \in PoolRec /\ ToFree(p, R).owner = O /\ ToFree(p, R).free = F
      /\ ToFree(p, R).blocked = p.blocked /\ ToFree(p, R).want = p.want
  BY <1>1, <1>3 DEF PoolRec
<1> QED BY <1>2, <1>4

LEMMA ZoneGiveKeeps ==
    ASSUME IInv, ZoneGive
    PROVE  IInv'
<1> DEFINE left == {b \in Blocks \ NewZone : pool.owner[b] = Zone}
<1>1. /\ Types /\ Books /\ pool \in PoolRec /\ main \in MainRec /\ kv \in KvRec /\ main.pc = "give"
      /\ pool' = [ToFree(pool, left) EXCEPT !.gave_back = @ \/ left # {}]
      /\ kv' = [kv EXCEPT !.h = main.h]
      /\ main' = [main EXCEPT !.pc = "moved"]
      /\ UNCHANGED <<cache, jobs, worker, content>>
  BY DEF IInv, Books, Types, ZoneGive
<1> HIDE DEF left
<1>2. left \in SUBSET Blocks
  BY DEF left
<1>3. /\ pool' \in PoolRec /\ pool'.owner = ToFree(pool, left).owner
      /\ pool'.free = ToFree(pool, left).free
      /\ pool'.blocked = pool.blocked /\ pool'.want = pool.want
  <2> DEFINE q == ToFree(pool, left)
             g == q.gave_back \/ left # {}
  <2>1. q \in PoolRec /\ q.blocked = pool.blocked /\ q.want = pool.want
    BY <1>1, <1>2, ToFreeIs
  <2>2. pool' = [q EXCEPT !.gave_back = g]
    BY <1>1
  <2> HIDE DEF q
  <2>3. g \in BOOLEAN
    BY <2>1 DEF PoolRec
  <2> HIDE DEF g
  <2>4. /\ pool' \in PoolRec /\ pool'.owner = q.owner /\ pool'.free = q.free
        /\ pool'.blocked = q.blocked /\ pool'.want = q.want
    BY <2>1, <2>2, <2>3 DEF PoolRec
  <2> QED BY <2>1, <2>4 DEF q
<1>4. \A b \in Blocks : /\ pool'.owner[b] = IF b \in left THEN Free ELSE pool.owner[b]
                        /\ pool'.free[b] = IF b \in left THEN pool.free[b] + 1 ELSE pool.free[b]
  BY <1>1, <1>2, <1>3, ToFreeIs
<1>5. /\ kv' \in KvRec /\ kv'.h = main.h /\ kv'.start = kv.start /\ kv'.cells = kv.cells
      /\ kv'.dec_need = kv.dec_need
  BY <1>1 DEF KvRec, MainRec
<1>6. /\ main' \in MainRec /\ main'.pc = "moved" /\ main'.next = main.next /\ main'.h = main.h
      /\ main'.l = main.l /\ main'.plan = main.plan /\ main'.last = main.last
  BY <1>1 DEF MainRec, MainPcs, Moving
<1>7. Types'
  BY <1>1, <1>3, <1>5, <1>6 DEF Types
<1>8. Books'
  BY <1>1, <1>4, BooksFrame, Basics DEF left
<1>9. FreeIsExact' /\ DroppedInv'
  BY <1>1, <1>4, <1>6, Basics DEF IInv, FreeIsExact, DroppedInv, left
<1>10. ZoneInv'
  <2>1. ZoneBlocks = OldZone \cup NewZone /\ ZoneBlocks' = NewZone
    BY <1>1, <1>6 DEF ZoneBlocks, NewZone
  <2>2. \A b \in Blocks : pool'.owner[b] = Zone <=> b \in NewZone
    BY <1>4, <2>1, Basics DEF IInv, ZoneInv, left
  <2> QED BY <1>1, <1>5, <1>6, <2>1, <2>2 DEF IInv, ZoneInv, Announced, Moving
<1>11. LendInv'
  <2>1. \A b \in Blocks : pool'.owner[b] = Lent <=> pool.owner[b] = Lent
    BY <1>4, Basics DEF left
  <2> QED BY <1>1, <1>3, <1>6, <2>1 DEF IInv, LendInv, Moving
<1>12. KvInv' /\ CallInv'
  BY <1>1, <1>5, <1>6 DEF IInv, KvInv, CallInv, Building, Announced, Moving
<1>13. CoverInv'
  BY <1>1, <1>5, <1>6 DEF IInv, CoverInv, Fits, kv_tail_cap, InCall, Height, Building, Announced, Moving
<1> QED BY <1>7, <1>8, <1>9, <1>10, <1>11, <1>12, <1>13 DEF IInv, Books

LEMMA MoveEndKeeps ==
    ASSUME IInv, MoveEnd
    PROVE  IInv'
<1>1. /\ Types /\ Books /\ pool \in PoolRec /\ main \in MainRec /\ kv \in KvRec /\ main.pc = "moved"
      /\ kv' = [kv EXCEPT !.start = main.l, !.moving = {}]
      /\ pool' = [pool EXCEPT !.starved = \A b \in Blocks : pool.owner[b] \in {Zone, Lent}]
      /\ main' = [main EXCEPT !.pc = main.next]
      /\ UNCHANGED <<cache, jobs, worker, content>>
  BY DEF IInv, Books, Types, MoveEnd
<1>2. /\ pool' \in PoolRec /\ pool'.owner = pool.owner /\ pool'.free = pool.free
      /\ pool'.blocked = pool.blocked /\ pool'.want = pool.want
  BY <1>1 DEF PoolRec
<1>3. /\ kv' \in KvRec /\ kv'.h = kv.h /\ kv'.start = main.l /\ kv'.cells = kv.cells
      /\ kv'.dec_need = kv.dec_need
  BY <1>1 DEF KvRec, MainRec
<1>4. main.next \in {"slots", "alias"}
  BY <1>1 DEF IInv, CallInv, Moving
<1>5. /\ main' \in MainRec /\ main'.pc = main.next /\ main'.plan = main.plan /\ main'.last = main.last
  BY <1>1, <1>4 DEF MainRec, MainPcs, Building
<1>6. /\ Types' /\ FreeIsExact' /\ SlotInv' /\ DroppedInv'
      /\ JobInv' /\ WorkerInv' /\ AdoptInv' /\ TableInv'
  BY <1>1, <1>2, <1>3, <1>4, <1>5, PlanFrame
<1>7. kv.h = main.h /\ main.l + main.h <= NBlocks
  BY <1>1 DEF IInv, ZoneInv, Moving
<1>8. ZoneInv'
  <2>1. ZoneBlocks = NewZone /\ ZoneBlocks' = NewZone
    BY <1>1, <1>3, <1>4, <1>5, <1>7 DEF ZoneBlocks, NewZone, OldZone
  <2> QED BY <1>1, <1>2, <1>3, <1>4, <1>5, <1>7, <2>1 DEF IInv, ZoneInv, Announced, Moving
<1>9. LendInv'
  BY <1>1, <1>2, <1>3, <1>4, <1>5 DEF IInv, LendInv, Moving
<1>10. KvInv' /\ CallInv'
  BY <1>1, <1>3, <1>4, <1>5, <1>7 DEF IInv, KvInv, CallInv, Building, Announced, Moving
<1>11. CoverInv'
  BY <1>1, <1>3, <1>4, <1>5, <1>7 DEF IInv, CoverInv, Fits, kv_tail_cap, InCall, Height, Building, Announced, Moving
<1> QED BY <1>6, <1>8, <1>9, <1>10, <1>11 DEF IInv

LEMMA LaunchKeeps ==
    ASSUME IInv, Launch
    PROVE  IInv'
<1>1. /\ Types /\ Books /\ pool \in PoolRec /\ main \in MainRec /\ main.pc = "launch" /\ kv.cells < kv.h
      /\ content' = [b \in Blocks |-> IF b < pool.want THEN Graph ELSE content[b]]
      /\ main' = [main EXCEPT !.pc = "compute"]
      /\ UNCHANGED <<pool, cache, jobs, worker, kv>>
  BY DEF IInv, Books, Types, Launch
<1>2. /\ main' \in MainRec /\ main'.pc = "compute" /\ main'.plan = main.plan /\ main'.last = main.last
      /\ main'.size = main.size
  BY <1>1 DEF MainRec, MainPcs
<1>3. content' \in [Blocks -> Contents]
  BY <1>1 DEF Types, Contents
<1>4. \A b \in Blocks : pool.owner[b] # Lent => content'[b] = content[b]
  <2>1. pool.want <= pool.blocked /\ pool.want \in Nat /\ pool.blocked \in Nat
    BY <1>1, Basics DEF IInv, LendInv, PoolRec
  <2>2. \A b \in Blocks : b < pool.want => b < pool.blocked
    BY <2>1, Basics
  <2> QED BY <1>1, <2>2 DEF IInv, LendInv
<1>5. Types'
  BY <1>1, <1>2, <1>3 DEF Types
<1>6. Books'
  BY <1>1, <1>4, BooksFrame, Basics
<1>7. FreeIsExact' /\ DroppedInv'
  BY <1>1, <1>2 DEF IInv, FreeIsExact, DroppedInv
<1>8. ZoneInv' /\ LendInv' /\ CallInv'
  BY <1>1, <1>2 DEF IInv, ZoneInv, ZoneBlocks, OldZone, LendInv, CallInv, Building, Announced, Moving
<1>9. CoverInv'
  BY <1>1, <1>2 DEF IInv, CoverInv, Fits, kv_tail_cap, InCall, Height, Building, Announced, Moving
<1>10. KvInv'
  <2>1. ASSUME NEW i \in 0 .. kv.cells - 1 PROVE i < kv.h /\ content'[kv.start + i] = i
    BY <1>1, <1>4, RowIn, Basics DEF IInv, KvInv
  <2> QED BY <1>1, <1>2, <2>1 DEF KvInv, Announced
<1> QED BY <1>5, <1>6, <1>7, <1>8, <1>9, <1>10 DEF IInv, Books

LEMMA ComputedKeeps ==
    ASSUME IInv, Computed
    PROVE  IInv'
<1> DEFINE s == kv.start + kv.cells
<1>1. /\ Types /\ Books /\ main \in MainRec /\ kv \in KvRec /\ main.pc = "compute"
      /\ content' = [content EXCEPT ![s] = kv.cells]
      /\ kv' = [kv EXCEPT !.cells = @ + 1]
      /\ main' = [main EXCEPT !.pc = "next"]
      /\ UNCHANGED <<pool, cache, jobs, worker>>
  BY DEF IInv, Books, Types, Computed
<1>2. /\ kv.cells < kv.h /\ kv.cells < main.last /\ main.last \in 0 .. MaxCells /\ MaxCells \in Nat
      /\ kv.cells \in 0 .. MaxCells /\ kv.h \in 0 .. NBlocks /\ kv.start \in 0 .. NBlocks /\ NBlocks \in Nat
      /\ kv.start + kv.h <= NBlocks
  BY <1>1, Basics DEF IInv, KvInv, CallInv, ZoneInv, KvRec, MainRec
<1>3. s \in Blocks /\ pool.owner[s] = Zone
  <2>1. s \in Blocks /\ s \in OldZone
    BY <1>2 DEF Blocks, OldZone, Span
  <2>2. ZoneBlocks = OldZone
    BY <1>1 DEF ZoneBlocks
  <2> QED BY <2>1, <2>2 DEF IInv, ZoneInv
<1>4. /\ kv' \in KvRec /\ kv'.cells = kv.cells + 1 /\ kv'.h = kv.h /\ kv'.start = kv.start
      /\ kv'.dec_need = kv.dec_need
  BY <1>1, <1>2 DEF KvRec
<1>5. main' \in MainRec /\ main'.pc = "next" /\ main'.plan = main.plan /\ main'.last = main.last
  BY <1>1 DEF MainRec, MainPcs
<1>6. /\ content' \in [Blocks -> Contents] /\ content'[s] = kv.cells
      /\ \A b \in Blocks : b # s => content'[b] = content[b]
  BY <1>1, <1>2, <1>3 DEF Types, Contents
<1>7. Types'
  BY <1>1, <1>4, <1>5, <1>6 DEF Types
<1>8. Books'
  BY <1>1, <1>3, <1>6, BooksFrame, Basics
<1>9. FreeIsExact' /\ DroppedInv'
  BY <1>1, <1>5 DEF IInv, FreeIsExact, DroppedInv
<1>10. ZoneInv' /\ LendInv'
  BY <1>1, <1>4, <1>5 DEF IInv, ZoneInv, ZoneBlocks, OldZone, LendInv, Announced, Moving
<1>11. CallInv'
  BY <1>1, <1>2, <1>4, <1>5 DEF CallInv, Building, Announced, Moving
<1>12. CoverInv'
  BY <1>1, <1>4, <1>5 DEF IInv, CoverInv, Fits, kv_tail_cap, InCall, Height, Building, Announced, Moving
<1>13. KvInv'
  <2> SUFFICES ASSUME NEW i \in 0 .. kv.cells PROVE i < kv.h /\ content'[kv.start + i] = i
    BY <1>1, <1>2, <1>4, <1>5 DEF KvInv, Announced
  <2>1. CASE i = kv.cells
    BY <1>2, <1>6, <2>1
  <2>2. CASE i # kv.cells
    <3>1. i \in 0 .. kv.cells - 1
      BY <1>2, <2>2
    <3>2. i < kv.h /\ content[kv.start + i] = i /\ kv.start + i \in Blocks
      BY <1>1, <3>1, RowIn DEF IInv, KvInv
    <3>3. kv.start + i # s
      BY <1>2, <2>2
    <3> QED BY <1>6, <3>2, <3>3
  <2> QED BY <2>1, <2>2
<1> QED BY <1>7, <1>8, <1>9, <1>10, <1>11, <1>12, <1>13 DEF IInv, Books

-----------------------------------------------------------------------------
(* Taking blocks from the experts. *)

\* One look at the blocks of R.  When it finds none that must be awaited, no upload
\* into R is left.
LEMMA DropJobsKeeps ==
    ASSUME Types, Books, NEW R \in SUBSET Blocks, NEW next \in MainPcs, DropJobs(R, next),
           UNCHANGED <<pool, worker, content>>
    PROVE  /\ jobs' \in [todo : SUBSET JobSet, done : SUBSET JobSet] /\ cache' \in CacheRec /\ Books'
           /\ main' = [main EXCEPT !.pc = main.pc]
              \/ /\ main' = [main EXCEPT !.pc = next]
                 /\ \A b \in R, l \in Layers : ~cache'.in_flight[l][b]
<1> DEFINE dropped == {j \in jobs.todo \cup jobs.done : j.slot \in R}
           flying == [l \in Layers |-> [b \in Blocks |->
                        /\ cache.in_flight[l][b]
                        /\ ~\E j \in dropped : LayerOf[j.expert] = l /\ j.slot = b]]
           pending == {b \in R : \E l \in Layers : pool.owner[b] = l /\ flying[l][b]}
           busy == Awaited(pending)
           cancelled == {b \in pending : \A c \in busy : b < c}
           freed == UNION {Adoption(b) : b \in cancelled}
           inf == [l \in Layers |-> [b \in Blocks |->
                        flying[l][b] /\ ~(b \in cancelled /\ pool.owner[b] = l)]]
           que == [x \in Experts |-> cache.queued[x] /\ ~\E j \in dropped : j.expert = x]
           ado == [x \in Experts |-> IF x \in freed THEN None ELSE cache.adopt_slot[x]]
<1>1. /\ jobs' = [todo |-> jobs.todo \ dropped, done |-> jobs.done \ dropped]
      /\ cache' = [cache EXCEPT !.in_flight = inf, !.queued = que, !.adopt_slot = ado,
                                !.adopt_full = @ \ freed]
      /\ main' = [main EXCEPT !.pc = IF busy = {} THEN next ELSE @]
  BY DEF DropJobs
<1>2. /\ jobs'.todo = jobs.todo \ dropped /\ jobs'.done = jobs.done \ dropped
      /\ jobs' \in [todo : SUBSET JobSet, done : SUBSET JobSet]
  <2> HIDE DEF dropped
  <2> QED BY <1>1 DEF Types
<1>3. ASSUME NEW b \in cancelled
      PROVE  b \in Blocks /\ \E x \in Experts : pool.owner[b] = LayerOf[x] /\ cache.adopt_slot[x] = b
  <2>1. b \in pending /\ b \in R /\ b \in Blocks
    OBVIOUS
  <2>2. ASSUME b \in busy PROVE FALSE
    <3>1. b < b
      BY <2>2
    <3> QED BY <2>1, <3>1, Basics
  <2>3. Adoption(b) # {}
    BY <2>1, <2>2 DEF Awaited
  <2> QED BY <2>1, <2>3 DEF Adoption
<1>4. ASSUME NEW l \in Layers, NEW b \in Blocks
      PROVE  inf[l][b] <=> /\ cache.in_flight[l][b]
                           /\ ~\E j \in dropped : LayerOf[j.expert] = l /\ j.slot = b
                           /\ ~(b \in cancelled /\ pool.owner[b] = l)
  <2> HIDE DEF cancelled, dropped
  <2> QED OBVIOUS
<1>5. inf \in [Layers -> [Blocks -> BOOLEAN]] /\ que \in [Experts -> BOOLEAN]
  BY Zenon
<1>6. ado \in [Experts -> Slots]
  <2> HIDE DEF freed
  <2> QED BY DEF Types, CacheRec, Slots
<1>7. busy = {} => \A b \in R, l \in Layers : ~inf[l][b]
  <2> SUFFICES ASSUME busy = {}, NEW b \in R, NEW l \in Layers, inf[l][b] PROVE FALSE
    OBVIOUS
  <2>1. b \in Blocks
    OBVIOUS
  <2>2. flying[l][b] /\ ~(b \in cancelled /\ pool.owner[b] = l) /\ cache.in_flight[l][b]
    <3> HIDE DEF cancelled, dropped
    <3> QED BY <2>1
  <2>3. pool.owner[b] = l
    BY <2>1, <2>2 DEF Books, SlotInv
  <2>4. b \in pending
    <3> HIDE DEF flying
    <3> QED BY <2>2, <2>3
  <2>5. b \in cancelled
    <3> HIDE DEF pending
    <3> HIDE DEF busy
    <3> QED BY <2>4
  <2> QED BY <2>2, <2>3, <2>5
<1>8. \A x \in Experts : x \in freed <=> \E b \in cancelled : pool.owner[b] = LayerOf[x] /\ cache.adopt_slot[x] = b
  <2> HIDE DEF cancelled
  <2> QED BY DEF Adoption
<1>9. \A x \in Experts : /\ que[x] <=> cache.queued[x] /\ ~\E j \in dropped : j.expert = x
                         /\ ado[x] = IF x \in freed THEN None ELSE cache.adopt_slot[x]
  <2> HIDE DEF freed, dropped
  <2> QED OBVIOUS
<1>10. \A j \in jobs.todo \cup jobs.done : j \in dropped <=> j.slot \in R
  OBVIOUS
<1>11. dropped \subseteq jobs.todo \cup jobs.done
  OBVIOUS
<1> HIDE DEF inf, que, ado, freed, cancelled, flying, pending, dropped
<1>12. /\ cache' \in CacheRec /\ cache'.in_flight = inf /\ cache'.queued = que /\ cache'.adopt_slot = ado
       /\ cache'.adopt_full = cache.adopt_full \ freed
       /\ cache'.slot_expert = cache.slot_expert /\ cache'.table = cache.table
       /\ cache'.adopt_victims = cache.adopt_victims
  <2>1. cache \in CacheRec
    BY DEF Types
  <2> QED BY <1>1, <1>5, <1>6, <2>1 DEF CacheRec
<1>13. ASSUME NEW j \in JobSet, Pending(j),
              \A i \in dropped : Apart(i, j),
              \A x \in Experts : cache.adopt_slot[x] # j.slot
       PROVE  inf[LayerOf[j.expert]][j.slot] /\ que[j.expert]
  <2>1. j.expert \in Experts /\ j.slot \in Blocks /\ LayerOf[j.expert] \in Layers
    BY Basics DEF JobSet
  <2>2. cache.in_flight[LayerOf[j.expert]][j.slot] /\ cache.queued[j.expert]
    BY <1>13 DEF Pending
  <2>3. \A i \in dropped : i.expert # j.expert /\ i.slot # j.slot
    BY <1>13 DEF Apart
  <2>4. j.slot \notin cancelled
    BY <1>3, <1>13
  <2> QED BY <1>4, <1>9, <2>1, <2>2, <2>3, <2>4
<1>14. SlotInv'
  BY <1>4, <1>12 DEF Books, SlotInv
<1>15. JobInv'
  <2>1. ASSUME NEW j \in jobs'.todo \cup jobs'.done
        PROVE  Pending(j)' /\ j \in jobs.todo \cup jobs.done
    <3>1. j \in jobs.todo \cup jobs.done /\ j \notin dropped /\ j \in JobSet
      BY <1>2 DEF Types
    <3>2. Pending(j) /\ \A i \in dropped : Apart(i, j)
      BY <1>11, <3>1 DEF Books, JobInv
    <3>3. \A x \in Experts : cache.adopt_slot[x] # j.slot
      BY <3>1, Basics DEF Books, AdoptInv, JobSet
    <3>4. inf[LayerOf[j.expert]][j.slot] /\ que[j.expert]
      BY <1>13, <3>1, <3>2, <3>3
    <3> QED BY <1>12, <3>1, <3>4 DEF Pending
  <2>2. jobs'.todo \cap jobs'.done = {} /\ jobs'.done \subseteq jobs.done
    BY <1>2 DEF Books, JobInv
  <2> QED BY <2>1, <2>2 DEF Books, JobInv
<1>16. Busy' = Busy
  BY DEF Busy
<1>17. WorkerInv'
  <2> SUFFICES ASSUME NEW w \in Busy
               PROVE  /\ Pending(worker[w].job)'
                      /\ \A j \in jobs'.todo \cup jobs'.done : Apart(worker[w].job, j)
                      /\ \A v \in Busy : v # w => Apart(worker[w].job, worker[v].job)
                      /\ worker[w].pc = "copied" => content[worker[w].job.slot] = worker[w].job.expert
    BY <1>16 DEF WorkerInv
  <2>1. worker[w].job \in JobSet /\ Pending(worker[w].job) /\ \A i \in dropped : Apart(i, worker[w].job)
    BY <1>11, BusyJob DEF Books, WorkerInv, Apart
  <2>2. \A x \in Experts : cache.adopt_slot[x] # worker[w].job.slot
    BY JobAlone
  <2>3. inf[LayerOf[worker[w].job.expert]][worker[w].job.slot] /\ que[worker[w].job.expert]
    BY <1>13, <2>1, <2>2
  <2>4. Pending(worker[w].job)'
    BY <1>12, <2>3 DEF Pending
  <2> QED BY <1>2, <2>4 DEF Books, WorkerInv
<1>18. AdoptInv'
  <2>1. ASSUME NEW x \in Experts, ado[x] # None
        PROVE  /\ ado[x] = cache.adopt_slot[x] /\ x \notin freed
               /\ inf[LayerOf[x]][ado[x]]
               /\ \A y \in Experts : y # x => ado[y] # ado[x]
    <3>1. ado[x] = cache.adopt_slot[x] /\ x \notin freed
      BY <1>9, <2>1
    <3>2. /\ cache.adopt_slot[x] \in Blocks /\ pool.owner[cache.adopt_slot[x]] = LayerOf[x]
          /\ cache.in_flight[LayerOf[x]][cache.adopt_slot[x]] /\ LayerOf[x] \in Layers
      BY <2>1, <3>1, AdoptOwned, Basics DEF Books, AdoptInv
    <3>3. cache.adopt_slot[x] \notin cancelled
      BY <1>8, <3>1, <3>2
    <3>4. \A j \in dropped : j.slot # cache.adopt_slot[x]
      BY <1>11, <2>1, <3>1 DEF Books, AdoptInv
    <3>5. inf[LayerOf[x]][cache.adopt_slot[x]]
      BY <1>4, <3>2, <3>3, <3>4
    <3>6. \A y \in Experts : y # x => ado[y] # ado[x]
      BY <1>9, <2>1, <3>1 DEF Books, AdoptInv
    <3> QED BY <3>1, <3>5, <3>6
  <2>2. jobs'.todo \cup jobs'.done \subseteq jobs.todo \cup jobs.done
    BY <1>2
  <2>3. ASSUME NEW x \in cache'.adopt_full
        PROVE  ado[x] # None /\ content[ado[x]] = x
    <3>1. x \in cache.adopt_full /\ x \notin freed /\ x \in Experts
      BY <1>12, <2>3 DEF Types, CacheRec
    <3> QED BY <1>9, <3>1 DEF Books, AdoptInv
  <2> QED BY <1>12, <1>16, <2>1, <2>2, <2>3 DEF Books, AdoptInv
<1>19. TableInv'
  BY <1>12 DEF Books, TableInv
<1> QED BY <1>1, <1>2, <1>7, <1>12, <1>14, <1>15, <1>17, <1>18, <1>19 DEF Books

LEMMA TakeDropKeeps ==
    ASSUME IInv, TakeDrop
    PROVE  IInv'
<1>1. /\ Types /\ Books /\ main \in MainRec /\ main.pc = "take" /\ DropJobs(Taken, "takeBlocks")
      /\ UNCHANGED <<pool, worker, content, kv>>
  BY DEF IInv, Books, Types, TakeDrop
<1>2. Taken \in SUBSET Blocks
  <2>1. /\ main.l \in 0 .. NBlocks /\ main.h \in 0 .. NBlocks /\ main.l + main.h <= NBlocks /\ NBlocks \in Nat
    BY <1>1, Basics DEF IInv, ZoneInv, MainRec, Announced
  <2> QED BY <2>1 DEF Taken, NewZone, Span, Blocks
<1>3. "takeBlocks" \in MainPcs
  BY DEF MainPcs, Announced
<1>4. /\ jobs' \in [todo : SUBSET JobSet, done : SUBSET JobSet] /\ cache' \in CacheRec /\ Books'
      /\ main' = [main EXCEPT !.pc = main.pc]
         \/ /\ main' = [main EXCEPT !.pc = "takeBlocks"]
            /\ \A b \in Taken, l \in Layers : ~cache'.in_flight[l][b]
  BY <1>1, <1>2, <1>3, DropJobsKeeps
<1>5. /\ main' \in MainRec /\ main'.pc \in {"take", "takeBlocks"} /\ main'.next = main.next
      /\ main'.h = main.h /\ main'.l = main.l /\ main'.rows = main.rows /\ main'.plan = main.plan
      /\ main'.last = main.last /\ main'.size = main.size
      /\ main'.pc = "takeBlocks" => \A b \in Taken, l \in Layers : ~cache'.in_flight[l][b]
  BY <1>1, <1>3, <1>4 DEF MainRec
<1>6. Types'
  BY <1>1, <1>4, <1>5 DEF Types
<1>7. FreeIsExact' /\ DroppedInv'
  <2>1. Taken' = Taken
    BY <1>1, <1>5 DEF Taken, NewZone
  <2> QED BY <1>1, <1>5, <2>1 DEF IInv, FreeIsExact, DroppedInv
<1>8. ZoneInv' /\ LendInv' /\ KvInv' /\ CallInv'
  BY <1>1, <1>5
  DEF IInv, ZoneInv, ZoneBlocks, OldZone, LendInv, KvInv, CallInv, Building, Announced, Moving
<1>9. CoverInv'
  BY <1>1, <1>5 DEF IInv, CoverInv, Fits, kv_tail_cap, InCall, Height, Building, Announced, Moving
<1> QED BY <1>4, <1>6, <1>7, <1>8, <1>9 DEF IInv, Books

LEMMA LendDropKeeps ==
    ASSUME IInv, LendDrop
    PROVE  IInv'
<1>1. /\ Types /\ Books /\ main \in MainRec /\ main.pc = "lend" /\ DropJobs(ToLend, "lendBlocks")
      /\ UNCHANGED <<pool, worker, content, kv>>
  BY DEF IInv, Books, Types, LendDrop
<1>2. ToLend \in SUBSET Blocks
  <2>1. pool.blocked \in 0 .. NBlocks /\ Need[main.size] \in 0 .. NBlocks /\ NBlocks \in Nat
    BY <1>1, Basics DEF MainRec, Types, PoolRec
  <2> QED BY <2>1 DEF ToLend, Span, Blocks
<1>3. "lendBlocks" \in MainPcs
  BY DEF MainPcs, Building
<1>4. /\ jobs' \in [todo : SUBSET JobSet, done : SUBSET JobSet] /\ cache' \in CacheRec /\ Books'
      /\ main' = [main EXCEPT !.pc = main.pc]
         \/ /\ main' = [main EXCEPT !.pc = "lendBlocks"]
            /\ \A b \in ToLend, l \in Layers : ~cache'.in_flight[l][b]
  BY <1>1, <1>2, <1>3, DropJobsKeeps
<1>5. /\ main' \in MainRec /\ main'.pc \in {"lend", "lendBlocks"} /\ main'.next = main.next
      /\ main'.size = main.size /\ main'.plan = main.plan /\ main'.last = main.last
      /\ main'.pc = "lendBlocks" => \A b \in ToLend, l \in Layers : ~cache'.in_flight[l][b]
  BY <1>1, <1>3, <1>4 DEF MainRec
<1>6. Types'
  BY <1>1, <1>4, <1>5 DEF Types
<1>7. FreeIsExact' /\ DroppedInv'
  <2>1. ToLend' = ToLend
    BY <1>1, <1>5 DEF ToLend
  <2> QED BY <1>1, <1>5, <2>1 DEF IInv, FreeIsExact, DroppedInv
<1>8. ZoneInv' /\ LendInv' /\ KvInv' /\ CallInv'
  BY <1>1, <1>5
  DEF IInv, ZoneInv, ZoneBlocks, OldZone, LendInv, KvInv, CallInv, Building, Announced, Moving
<1>9. CoverInv'
  BY <1>1, <1>5 DEF IInv, CoverInv, Fits, kv_tail_cap, InCall, Height, Building, Announced, Moving
<1> QED BY <1>4, <1>6, <1>7, <1>8, <1>9 DEF IInv, Books

\* Blocks without a pending upload go to the zone or to the lend; their experts are evicted.
LEMMA TakenOver ==
    ASSUME Types, Books, NEW R \in SUBSET Blocks, NEW k \in {Zone, Lent},
           cache' = EvictAll(cache, pool, R), UNCHANGED <<jobs, worker, content>>,
           \A b \in Blocks : pool'.owner[b] = IF b \in R THEN k ELSE pool.owner[b],
           \A b \in R, l \in Layers : ~cache.in_flight[l][b]
    PROVE  cache' \in CacheRec /\ Books' /\ cache'.in_flight = cache.in_flight
<1> DEFINE gone == {x \in Experts : \E b \in R : pool.owner[b] = LayerOf[x]
                                                 /\ cache.slot_expert[LayerOf[x]][b] = x}
           sl == [l \in Layers |-> [b \in Blocks |->
                   IF b \in R /\ pool.owner[b] = l THEN None ELSE cache.slot_expert[l][b]]]
           es == [x \in Experts |-> IF x \in gone THEN None ELSE cache.expert_slot[x]]
           ta == [x \in Experts |-> IF x \in gone THEN None ELSE cache.table[x]]
<1>1. cache' = [cache EXCEPT !.slot_expert = sl, !.expert_slot = es, !.table = ta]
  BY DEF EvictAll
<1>2. cache \in CacheRec
  BY DEF Types
<1>3. /\ sl \in [Layers -> [Blocks -> Experts \cup {None}]]
      /\ es \in [Experts -> Slots] /\ ta \in [Experts -> Slots]
  <2> HIDE DEF gone
  <2> QED BY <1>2 DEF CacheRec, Slots
<1>4. \A l \in Layers, b \in Blocks :
        sl[l][b] = IF b \in R /\ pool.owner[b] = l THEN None ELSE cache.slot_expert[l][b]
  OBVIOUS
<1>5. \A x \in Experts : ta[x] = IF x \in gone THEN None ELSE cache.table[x]
  <2> HIDE DEF gone
  <2> QED OBVIOUS
<1> HIDE DEF sl, es, ta
<1>6. /\ cache' \in CacheRec /\ cache'.slot_expert = sl /\ cache'.table = ta
      /\ cache'.in_flight = cache.in_flight /\ cache'.queued = cache.queued
      /\ cache'.adopt_slot = cache.adopt_slot /\ cache'.adopt_full = cache.adopt_full
      /\ cache'.adopt_victims = cache.adopt_victims
  BY <1>1, <1>2, <1>3 DEF CacheRec
<1>7. SlotInv'
  <2> SUFFICES ASSUME NEW l \in Layers, NEW b \in Blocks
               PROVE  /\ cache'.in_flight[l][b] => pool'.owner[b] = l /\ cache'.slot_expert[l][b] = None
                      /\ cache'.slot_expert[l][b] # None =>
                           /\ pool'.owner[b] = l
                           /\ content'[b] = cache'.slot_expert[l][b]
                           /\ LayerOf[cache'.slot_expert[l][b]] = l
    BY DEF SlotInv
  <2>1. CASE b \in R
    BY <1>4, <1>6, <2>1 DEF Books, SlotInv
  <2>2. CASE b \notin R
    BY <1>4, <1>6, <2>2 DEF Books, SlotInv
  <2> QED BY <2>1, <2>2
<1>8. JobInv' /\ AdoptInv' /\ WorkerInv'
  <2>1. Busy' = Busy
    BY DEF Busy
  <2> QED BY <1>6, <2>1 DEF Books, JobInv, AdoptInv, WorkerInv, Pending
<1>9. TableInv'
  <2> SUFFICES ASSUME NEW x \in Experts \ cache.adopt_victims, ta[x] # None
               PROVE  sl[LayerOf[x]][ta[x]] = x
    BY <1>6 DEF TableInv
  <2>1. ta[x] = cache.table[x] /\ x \notin gone /\ ta[x] \in Blocks /\ LayerOf[x] \in Layers
    BY <1>3, <1>5, Basics DEF Slots
  <2>2. cache.slot_expert[LayerOf[x]][cache.table[x]] = x
    BY <2>1 DEF Books, TableInv
  <2> QED BY <1>4, <2>1, <2>2
<1> QED BY <1>6, <1>7, <1>8, <1>9 DEF Books

LEMMA ZoneTakeKeeps ==
    ASSUME IInv, ZoneTake
    PROVE  IInv'
<1> DEFINE O == [b \in Blocks |-> IF b \in Taken THEN Zone ELSE pool.owner[b]]
           F == [b \in Blocks |-> IF b \in Taken /\ pool.owner[b] = Free THEN 0 ELSE pool.free[b]]
           T == {b \in Taken : pool.owner[b] = Lent}
           B == Min({pool.blocked} \cup T)
<1>1. /\ Types /\ Books /\ pool \in PoolRec /\ main \in MainRec /\ kv \in KvRec /\ main.pc = "takeBlocks"
      /\ cache' = EvictAll(cache, pool, Taken)
      /\ pool' = [pool EXCEPT !.owner = O, !.free = F, !.blocked = B]
      /\ main' = [main EXCEPT !.pc = "move"]
      /\ UNCHANGED <<jobs, worker, content, kv>>
  BY DEF IInv, Books, Types, ZoneTake
<1>2. /\ main.l \in 0 .. NBlocks /\ main.h \in 0 .. NBlocks /\ main.l + main.h <= NBlocks /\ NBlocks \in Nat
      /\ pool.blocked \in 0 .. NBlocks /\ kv.start \in 0 .. NBlocks /\ pool.blocked <= kv.start
      /\ main.l < kv.start => main.l + main.h = NBlocks
  BY <1>1, Basics DEF IInv, ZoneInv, LendInv, MainRec, PoolRec, KvRec, Announced, Moving
<1>3. Taken \in SUBSET Blocks /\ \A b \in Blocks : b \in Taken <=> b \in NewZone /\ pool.owner[b] # Zone
  BY <1>2 DEF Taken, NewZone, Span, Blocks
<1>4. \A b \in Blocks : b \in NewZone <=> main.l <= b /\ b < main.l + main.h
  BY <1>2 DEF NewZone, Span, Blocks
<1>5. \A b \in Blocks : b \in T <=> b \in NewZone /\ b < pool.blocked
  BY <1>3, Basics DEF IInv, LendInv
<1>6. B \in 0 .. NBlocks /\ B = IF main.l < pool.blocked THEN main.l ELSE pool.blocked
  <2>1. T \in SUBSET Nat /\ T \subseteq Blocks
    BY <1>3, Basics
  <2> HIDE DEF T
  <2>2. ({pool.blocked} \cup T) \in SUBSET Nat /\ {pool.blocked} \cup T # {}
    <3>1. pool.blocked \in Nat
      BY <1>2
    <3> QED BY <2>1, <3>1
  <2>3. B \in {pool.blocked} \cup T /\ \A j \in {pool.blocked} \cup T : B <= j
    BY <2>2, MinOf
  <2> HIDE DEF B
  <2>4. CASE main.l < pool.blocked
    <3>1. main.l \in Blocks /\ main.l \in T
      BY <1>2, <1>4, <1>5, <2>4, Basics
    <3>2. \A b \in T : main.l <= b
      BY <1>4, <1>5, <2>1
    <3>3. B <= main.l /\ B \in Nat /\ main.l <= B
      BY <1>2, <2>2, <2>3, <2>4, <3>1, <3>2
    <3> QED BY <1>2, <2>4, <3>3
  <2>5. CASE ~(main.l < pool.blocked)
    <3>1. T = {}
      BY <1>2, <1>4, <1>5, <2>1, <2>5, Basics
    <3> QED BY <1>2, <2>3, <2>5, <3>1
  <2> QED BY <2>4, <2>5
<1>7. O \in [Blocks -> Owners] /\ F \in [Blocks -> Nat]
  BY <1>1 DEF PoolRec, Owners
<1>8. \A b \in Blocks : /\ O[b] = IF b \in Taken THEN Zone ELSE pool.owner[b]
                        /\ F[b] = IF b \in Taken /\ pool.owner[b] = Free THEN 0 ELSE pool.free[b]
  OBVIOUS
<1> HIDE DEF O, F, B, T
<1>9. /\ pool' \in PoolRec /\ pool'.owner = O /\ pool'.free = F /\ pool'.blocked = B
      /\ pool'.want = pool.want
  BY <1>1, <1>6, <1>7 DEF PoolRec
<1>10. /\ main' \in MainRec /\ main'.pc = "move" /\ main'.next = main.next /\ main'.h = main.h
       /\ main'.l = main.l /\ main'.rows = main.rows /\ main'.plan = main.plan /\ main'.last = main.last
  BY <1>1 DEF MainRec, MainPcs, Moving
<1>11. cache' \in CacheRec /\ Books'
  <2>1. \A b \in Taken, l \in Layers : ~cache.in_flight[l][b]
    BY <1>1 DEF IInv, DroppedInv
  <2>2. Zone \in {Zone, Lent} /\ \A b \in Blocks : pool'.owner[b] = IF b \in Taken THEN Zone ELSE pool.owner[b]
    BY <1>8, <1>9
  <2> QED BY <1>1, <1>3, <2>1, <2>2, TakenOver
<1>12. Types'
  BY <1>1, <1>9, <1>10, <1>11 DEF Types
<1>13. FreeIsExact' /\ DroppedInv'
  BY <1>8, <1>9, <1>10, Basics DEF IInv, FreeIsExact, DroppedInv
<1>14. ZoneInv'
  <2>1. ZoneBlocks = OldZone /\ ZoneBlocks' = OldZone \cup NewZone
    BY <1>1, <1>10 DEF ZoneBlocks, OldZone, NewZone
  <2>2. \A b \in Blocks : pool'.owner[b] = Zone <=> b \in OldZone \cup NewZone
    BY <1>3, <1>8, <1>9, <2>1 DEF IInv, ZoneInv
  <2> QED BY <1>1, <1>2, <1>10, <2>1, <2>2 DEF IInv, ZoneInv, Announced, Moving
<1>15. LendInv'
  <2>1. ASSUME NEW b \in Blocks PROVE pool'.owner[b] = Lent <=> b < B
    <3>1. pool.owner[b] = Lent <=> b < pool.blocked
      BY DEF IInv, LendInv
    <3>2. pool'.owner[b] = Lent <=> pool.owner[b] = Lent /\ b \notin Taken
      BY <1>8, <1>9, Basics
    <3>3. pool.owner[b] = Lent => (b \in Taken <=> b \in NewZone)
      BY <1>3, Basics
    <3>4. b \in Nat /\ b < NBlocks
      BY Basics
    <3> QED BY <1>2, <1>4, <1>6, <3>1, <3>2, <3>3, <3>4
  <2>2. B <= main.l
    BY <1>2, <1>6
  <2> QED BY <1>9, <1>10, <2>1, <2>2 DEF LendInv, Moving
<1>16. KvInv' /\ CallInv'
  BY <1>1, <1>10 DEF IInv, KvInv, CallInv, Building, Announced, Moving
<1>17. CoverInv'
  BY <1>1, <1>10 DEF IInv, CoverInv, Fits, kv_tail_cap, InCall, Height, Building, Announced, Moving
<1> QED BY <1>11, <1>12, <1>13, <1>14, <1>15, <1>16, <1>17 DEF IInv, Books

LEMMA LendKeeps ==
    ASSUME IInv, Lend
    PROVE  IInv'
<1> DEFINE n == Need[main.size]
           lent == {b \in ToLend : pool.owner[b] # Zone}
           O == [b \in Blocks |-> IF b \in lent THEN Lent ELSE pool.owner[b]]
           F == [b \in Blocks |-> IF b \in lent /\ pool.owner[b] = Free /\ pool.free[b] > 0
                                  THEN pool.free[b] - 1 ELSE pool.free[b]]
<1>1. /\ Types /\ Books /\ pool \in PoolRec /\ main \in MainRec /\ kv \in KvRec /\ main.pc = "lendBlocks"
      /\ cache' = EvictAll(cache, pool, lent)
      /\ pool' = [pool EXCEPT !.owner = O, !.free = F, !.blocked = n]
      /\ main' = [main EXCEPT !.pc = "launch"]
      /\ UNCHANGED <<jobs, worker, content, kv>>
  BY DEF IInv, Books, Types, Lend
<1>2. /\ n \in 1 .. NBlocks /\ NBlocks \in Nat /\ pool.blocked \in 0 .. NBlocks
      /\ kv.start \in 0 .. NBlocks /\ kv.h \in 0 .. NBlocks /\ n <= kv.start /\ pool.blocked < n
      /\ pool.want = n
  BY <1>1, Basics DEF IInv, LendInv, MainRec, PoolRec, KvRec
<1> HIDE DEF n
<1>3. ToLend = Span(pool.blocked, n)
  BY DEF ToLend, n
<1>4. \A b \in Blocks : pool.owner[b] = Zone => b >= kv.start
  <2>1. ZoneBlocks = OldZone
    BY <1>1 DEF ZoneBlocks
  <2>2. \A b \in Blocks : b \in OldZone => b >= kv.start
    BY <1>2 DEF OldZone, Span, Blocks
  <2> QED BY <2>1, <2>2 DEF IInv, ZoneInv
<1>5. lent \in SUBSET Blocks /\ \A b \in Blocks : b \in lent <=> pool.blocked <= b /\ b < n
  <2>1. ToLend \subseteq Blocks /\ \A b \in Blocks : b \in ToLend <=> pool.blocked <= b /\ b < n
    BY <1>2, <1>3 DEF Span, Blocks
  <2>2. \A b \in Blocks : b < n => pool.owner[b] # Zone
    BY <1>2, <1>4, Basics
  <2> QED BY <2>1, <2>2
<1> HIDE DEF lent
<1>6. O \in [Blocks -> Owners] /\ F \in [Blocks -> Nat]
  BY <1>1 DEF PoolRec, Owners
<1>7. \A b \in Blocks : /\ O[b] = IF b \in lent THEN Lent ELSE pool.owner[b]
                        /\ F[b] = IF b \in lent /\ pool.owner[b] = Free /\ pool.free[b] > 0
                                  THEN pool.free[b] - 1 ELSE pool.free[b]
  OBVIOUS
<1> HIDE DEF O, F
<1>8. /\ pool' \in PoolRec /\ pool'.owner = O /\ pool'.free = F /\ pool'.blocked = n
      /\ pool'.want = pool.want
  BY <1>1, <1>2, <1>6 DEF PoolRec
<1>9. /\ main' \in MainRec /\ main'.pc = "launch" /\ main'.size = main.size
      /\ main'.plan = main.plan /\ main'.last = main.last
  BY <1>1 DEF MainRec, MainPcs, Building
<1>10. cache' \in CacheRec /\ Books'
  <2>1. \A b \in lent, l \in Layers : ~cache.in_flight[l][b]
    BY <1>1 DEF IInv, DroppedInv, lent
  <2>2. Lent \in {Zone, Lent} /\ \A b \in Blocks : pool'.owner[b] = IF b \in lent THEN Lent ELSE pool.owner[b]
    BY <1>7, <1>8
  <2> QED BY <1>1, <1>5, <2>1, <2>2, TakenOver
<1>11. Types'
  BY <1>1, <1>8, <1>9, <1>10 DEF Types
<1>12. FreeIsExact' /\ DroppedInv'
  BY <1>7, <1>8, <1>9, Basics DEF IInv, FreeIsExact, DroppedInv
<1>13. ZoneInv'
  <2>1. ZoneBlocks = OldZone /\ ZoneBlocks' = OldZone
    BY <1>1, <1>9 DEF ZoneBlocks, OldZone
  <2>2. \A b \in Blocks : pool'.owner[b] = Zone <=> pool.owner[b] = Zone
    BY <1>7, <1>8, Basics DEF lent
  <2> QED BY <1>1, <1>9, <2>1, <2>2 DEF IInv, ZoneInv, Announced, Moving
<1>14. LendInv'
  <2>1. ASSUME NEW b \in Blocks PROVE pool'.owner[b] = Lent <=> b < n
    <3>1. b \in Nat /\ (pool.owner[b] = Lent <=> b < pool.blocked)
      BY Basics DEF IInv, LendInv
    <3> QED BY <1>2, <1>5, <1>7, <1>8, <3>1
  <2> QED BY <1>1, <1>2, <1>8, <1>9, <2>1 DEF LendInv, Moving
<1>15. KvInv' /\ CallInv'
  BY <1>1, <1>9 DEF IInv, KvInv, CallInv, Building, Announced, Moving
<1>16. CoverInv'
  BY <1>1, <1>9 DEF IInv, CoverInv, Fits, kv_tail_cap, InCall, Height, Building, Announced, Moving
<1> QED BY <1>10, <1>11, <1>12, <1>13, <1>14, <1>15, <1>16 DEF IInv, Books

-----------------------------------------------------------------------------
(* Giving blocks to the experts. *)

\* A block that an expert may take: free, or of a layer that uploads nothing into it.
Takable(b) ==
    /\ b \in Blocks
    /\ pool.owner[b] = Free \/ pool.owner[b] \in Layers
    /\ \A l \in Layers : ~cache.in_flight[l][b]

LEMMA PickIs ==
    ASSUME Types, SlotInv, NEW ev, NEW b \in pick_slot(pool, cache, ev)
    PROVE  Takable(b)
<1>1. /\ FreeBlocks(pool) \in SUBSET Blocks /\ EmptyBlocks(pool, cache) \in SUBSET Blocks
      /\ EmptyBlocks(pool, cache) \in SUBSET Nat
  BY Basics DEF FreeBlocks, EmptyBlocks
<1>2. b \in FreeBlocks(pool) \/ b \in EmptyBlocks(pool, cache) \/ b \in CachedBlocks(pool, cache)
  <2>1. CASE FreeBlocks(pool) # {}
    BY <1>1, <2>1, MaxOf DEF pick_slot
  <2>2. CASE FreeBlocks(pool) = {} /\ EmptyBlocks(pool, cache) # {}
    BY <1>1, <2>2, MinOf DEF pick_slot
  <2>3. CASE FreeBlocks(pool) = {} /\ EmptyBlocks(pool, cache) = {}
    BY <2>3 DEF pick_slot
  <2> QED BY <2>1, <2>2, <2>3
<1>3. b \in Blocks /\ (pool.owner[b] = Free
                       \/ (pool.owner[b] \in Layers /\ ~cache.in_flight[pool.owner[b]][b]))
  BY <1>2 DEF FreeBlocks, EmptyBlocks, CachedBlocks
<1> QED BY <1>3, Basics DEF Takable, SlotInv

LEMMA TakeIs ==
    ASSUME Types, FreeIsExact, NEW b, Takable(b), NEW l \in Layers
    PROVE  /\ pool_take(pool, l, b) \in PoolRec
           /\ \A c \in Blocks : /\ pool_take(pool, l, b).owner[c] = IF c = b THEN l ELSE pool.owner[c]
                                /\ pool_take(pool, l, b).free[c] = IF c = b THEN 0 ELSE pool.free[c]
           /\ pool_take(pool, l, b).blocked = pool.blocked /\ pool_take(pool, l, b).want = pool.want
<1>1. /\ pool \in PoolRec /\ b \in Blocks /\ pool.owner \in [Blocks -> Owners] /\ pool.free \in [Blocks -> Nat]
      /\ l \in Owners
  BY DEF Types, Takable, PoolRec, Owners
<1> DEFINE f == IF pool.owner[b] \notin Layers /\ pool.free[b] > 0 THEN pool.free[b] - 1 ELSE pool.free[b]
           O == [pool.owner EXCEPT ![b] = l]
           F == [pool.free EXCEPT ![b] = f]
<1>2. f = 0
  BY <1>1, Basics DEF Takable, FreeIsExact
<1>3. pool_take(pool, l, b) = [pool EXCEPT !.owner = O, !.free = F]
  BY <1>1 DEF pool_take, PoolRec
<1> HIDE DEF f
<1>4. /\ O \in [Blocks -> Owners] /\ F \in [Blocks -> Nat]
      /\ \A c \in Blocks : O[c] = (IF c = b THEN l ELSE pool.owner[c]) /\ F[c] = IF c = b THEN 0 ELSE pool.free[c]
  BY <1>1, <1>2
<1> HIDE DEF O, F
<1>5. /\ pool_take(pool, l, b) \in PoolRec
      /\ pool_take(pool, l, b).owner = O /\ pool_take(pool, l, b).free = F
      /\ pool_take(pool, l, b).blocked = pool.blocked /\ pool_take(pool, l, b).want = pool.want
  BY <1>1, <1>3, <1>4 DEF PoolRec
<1> QED BY <1>4, <1>5

\* The map of the pool after a block has been given to a layer.
LEMMA TakeFrame ==
    ASSUME IInv, NEW b, Takable(b), NEW l \in Layers, pool' = pool_take(pool, l, b), kv' = kv, Standing,
           \A c \in Blocks : c # b => content'[c] = content[c]
    PROVE  /\ pool' \in PoolRec /\ FreeIsExact' /\ ZoneInv' /\ LendInv' /\ KvInv' /\ CallInv'
           /\ CoverInv'
           /\ \A c \in Blocks : pool'.owner[c] = IF c = b THEN l ELSE pool.owner[c]
           /\ pool'.blocked = pool.blocked
<1>1. /\ pool' \in PoolRec
      /\ \A c \in Blocks : /\ pool'.owner[c] = IF c = b THEN l ELSE pool.owner[c]
                           /\ pool'.free[c] = IF c = b THEN 0 ELSE pool.free[c]
      /\ pool'.blocked = pool.blocked /\ pool'.want = pool.want
  BY TakeIs DEF IInv
<1>2. FreeIsExact'
  BY <1>1, Basics DEF IInv, FreeIsExact
<1>3. \A c \in Blocks : pool.owner[c] \in {Zone, Lent} \/ pool'.owner[c] \in {Zone, Lent} =>
        pool'.owner[c] = pool.owner[c] /\ content'[c] = content[c]
  BY <1>1, Basics DEF Takable
<1>4. ZoneInv' /\ LendInv' /\ KvInv' /\ CallInv' /\ CoverInv'
  BY <1>1, <1>3, MapFrame DEF IInv
<1> QED BY <1>1, <1>2, <1>4

\* The cache c is the present one but for block b, which no layer uses and no table entry
\* names any more, victims of adoptions excused.
Vacated(c, b) ==
    /\ c \in CacheRec
    /\ c.in_flight = cache.in_flight /\ c.queued = cache.queued
    /\ c.adopt_slot = cache.adopt_slot /\ c.adopt_full = cache.adopt_full
    /\ cache.adopt_victims \subseteq c.adopt_victims
    /\ \A l \in Layers, a \in Blocks :
         c.slot_expert[l][a] = IF a = b THEN None ELSE cache.slot_expert[l][a]
    /\ \A y \in Experts \ c.adopt_victims : c.table[y] # None =>
         c.table[y] = cache.table[y] /\ c.table[y] # b

LEMMA Unused ==
    ASSUME Types, Books, NEW b \in Blocks, pool.owner[b] \notin Layers
    PROVE  Vacated(cache, b)
<1>1. \A l \in Layers : cache.slot_expert[l][b] = None
  BY DEF Books, SlotInv
<1>2. \A y \in Experts \ cache.adopt_victims : cache.table[y] # b
  BY <1>1, Basics DEF Books, TableInv
<1> QED BY <1>1, <1>2 DEF Vacated, Types

LEMMA EvictVacates ==
    ASSUME Types, Books, NEW b \in Blocks, NEW o \in Layers, pool.owner[b] = o
    PROVE  Vacated(evict_slot(cache, o, b), b)
<1> DEFINE v == cache.slot_expert[o][b]
<1>1. cache \in CacheRec /\ v \in Experts \cup {None}
  BY DEF Types, CacheRec
<1>2. \A l \in Layers : l # o => cache.slot_expert[l][b] = None
  BY DEF Books, SlotInv
<1>3. \A y \in Experts \ cache.adopt_victims : cache.table[y] = b => y = v
  <2> SUFFICES ASSUME NEW y \in Experts \ cache.adopt_victims, cache.table[y] = b PROVE y = v
    OBVIOUS
  <2>1. cache.slot_expert[LayerOf[y]][b] = y /\ LayerOf[y] \in Layers /\ y # None
    BY Basics DEF Books, TableInv
  <2> QED BY <1>2, <2>1
<1>4. CASE v = None
  <2>1. evict_slot(cache, o, b) = cache
    BY <1>4 DEF evict_slot
  <2>2. \A l \in Layers : cache.slot_expert[l][b] = None
    BY <1>2, <1>4
  <2>3. \A y \in Experts \ cache.adopt_victims : cache.table[y] # b
    BY <1>3, <1>4, Basics
  <2> QED BY <1>1, <2>1, <2>2, <2>3 DEF Vacated
<1>5. CASE v # None
  <2>1. v \in Experts
    BY <1>1, <1>5
  <2> HIDE DEF v
  <2> DEFINE sl == [cache.slot_expert EXCEPT ![o] = [cache.slot_expert[o] EXCEPT ![b] = None]]
             es == [cache.expert_slot EXCEPT ![v] = None]
             ta == [cache.table EXCEPT ![v] = None]
  <2>2. evict_slot(cache, o, b) = [cache EXCEPT !.slot_expert = sl, !.expert_slot = es, !.table = ta]
    BY <1>1, <1>5 DEF evict_slot, CacheRec, v
  <2>3. /\ sl \in [Layers -> [Blocks -> Experts \cup {None}]]
        /\ es \in [Experts -> Slots] /\ ta \in [Experts -> Slots]
    BY <1>1 DEF CacheRec, Slots
  <2>4. /\ \A l \in Layers, a \in Blocks :
              sl[l][a] = IF l = o /\ a = b THEN None ELSE cache.slot_expert[l][a]
        /\ \A y \in Experts : ta[y] = IF y = v THEN None ELSE cache.table[y]
    BY <1>1, <2>1 DEF CacheRec
  <2> HIDE DEF sl, es, ta
  <2> DEFINE c == evict_slot(cache, o, b)
  <2>5. /\ c \in CacheRec /\ c.slot_expert = sl /\ c.table = ta
        /\ c.in_flight = cache.in_flight /\ c.queued = cache.queued
        /\ c.adopt_slot = cache.adopt_slot /\ c.adopt_full = cache.adopt_full
        /\ c.adopt_victims = cache.adopt_victims
    BY <1>1, <2>2, <2>3 DEF CacheRec
  <2> HIDE DEF c
  <2>6. \A l \in Layers, a \in Blocks : sl[l][a] = IF a = b THEN None ELSE cache.slot_expert[l][a]
    BY <1>2, <2>4
  <2>7. \A y \in Experts \ cache.adopt_victims : ta[y] # None => ta[y] = cache.table[y] /\ ta[y] # b
    BY <1>3, <2>4
  <2> QED BY <2>5, <2>6, <2>7 DEF Vacated, c
<1> QED BY <1>4, <1>5

\* Nothing is under way into a block that may be taken.
LEMMA TakableAlone ==
    ASSUME Types, Books, NEW b, Takable(b)
    PROVE  /\ \A j \in jobs.todo \cup jobs.done : j.slot # b
           /\ \A w \in Busy : worker[w].job.slot # b
           /\ \A y \in Experts : cache.adopt_slot[y] # b
<1>1. ASSUME NEW j \in JobSet, Pending(j) PROVE j.slot # b
  <2>1. LayerOf[j.expert] \in Layers
    BY Basics DEF JobSet
  <2> QED BY <1>1, <2>1 DEF Pending, Takable
<1>2. \A j \in jobs.todo \cup jobs.done : j.slot # b
  BY <1>1 DEF Types, Books, JobInv
<1>3. \A w \in Busy : worker[w].job.slot # b
  BY <1>1, BusyJob DEF Books, WorkerInv
<1>4. \A y \in Experts : cache.adopt_slot[y] # b
  BY Basics DEF Books, AdoptInv, Takable
<1> QED BY <1>2, <1>3, <1>4

\* A block that was vacated is in flight for a layer.
LEMMA Occupied ==
    ASSUME Types, Books, NEW b, Takable(b), NEW L \in Layers, NEW c, Vacated(c, b), cache' \in CacheRec,
           cache'.slot_expert = c.slot_expert, cache'.table = c.table,
           cache'.adopt_victims = c.adopt_victims,
           \A l \in Layers, a \in Blocks : cache'.in_flight[l][a] <=> (l = L /\ a = b) \/ cache.in_flight[l][a],
           \A a \in Blocks : pool'.owner[a] = IF a = b THEN L ELSE pool.owner[a],
           \A a \in Blocks : a # b => content'[a] = content[a]
    PROVE  SlotInv' /\ TableInv'
<1>1. SlotInv'
  <2> SUFFICES ASSUME NEW l \in Layers, NEW a \in Blocks
               PROVE  /\ cache'.in_flight[l][a] => pool'.owner[a] = l /\ cache'.slot_expert[l][a] = None
                      /\ cache'.slot_expert[l][a] # None =>
                           /\ pool'.owner[a] = l
                           /\ content'[a] = cache'.slot_expert[l][a]
                           /\ LayerOf[cache'.slot_expert[l][a]] = l
    BY DEF SlotInv
  <2>1. CASE a = b
    BY <2>1 DEF Vacated, Takable
  <2>2. CASE a # b
    BY <2>2 DEF Vacated, Books, SlotInv
  <2> QED BY <2>1, <2>2
<1>2. TableInv'
  <2> SUFFICES ASSUME NEW y \in Experts \ c.adopt_victims, c.table[y] # None
               PROVE  c.slot_expert[LayerOf[y]][c.table[y]] = y
    BY DEF TableInv
  <2>1. c.table[y] = cache.table[y] /\ c.table[y] # b /\ y \notin cache.adopt_victims
    BY DEF Vacated
  <2>2. cache.table[y] \in Blocks /\ LayerOf[y] \in Layers
    BY <2>1, Basics DEF Types, CacheRec, Slots
  <2>3. cache.slot_expert[LayerOf[y]][cache.table[y]] = y
    BY <2>1 DEF Books, TableInv
  <2> QED BY <2>1, <2>2, <2>3 DEF Vacated
<1> QED BY <1>1, <1>2

LEMMA ClaimKeeps ==
    ASSUME IInv, NEW x \in Experts, NEW b, Takable(b), NEW bg \in BOOLEAN, ~cache.queued[x],
           Claim(x, b), jobs' = [jobs EXCEPT !.todo = @ \cup {Job(x, b, bg)}],
           UNCHANGED <<worker, content, kv, main>>,
           main.pc \notin {"takeBlocks", "lendBlocks"}
    PROVE  IInv'
<1> DEFINE L == LayerOf[x]
           o == pool.owner[b]
           c == IF o \in Layers THEN evict_slot(cache, o, b) ELSE cache
           j == Job(x, b, bg)
<1>1. Types /\ Books /\ b \in Blocks /\ L \in Layers
  BY Basics DEF IInv, Books, Takable
<1>2. Vacated(c, b)
  BY <1>1, EvictVacates, Unused
<1>3. cache' = [c EXCEPT !.in_flight[L][b] = TRUE, !.queued[x] = TRUE] /\ pool' = pool_take(pool, L, b)
  BY DEF Claim
<1> HIDE DEF c
<1> DEFINE inf == [c.in_flight EXCEPT ![L] = [c.in_flight[L] EXCEPT ![b] = TRUE]]
           que == [c.queued EXCEPT ![x] = TRUE]
<1>4. c \in CacheRec /\ c.in_flight = cache.in_flight /\ c.queued = cache.queued
      /\ c.in_flight \in [Layers -> [Blocks -> BOOLEAN]] /\ c.queued \in [Experts -> BOOLEAN]
  BY <1>2 DEF Vacated, CacheRec
<1>5. cache' = [c EXCEPT !.in_flight = inf, !.queued = que]
  BY <1>3, <1>4 DEF CacheRec
<1>6. inf \in [Layers -> [Blocks -> BOOLEAN]] /\ que \in [Experts -> BOOLEAN]
  BY <1>4, Zenon
<1>7. /\ \A l \in Layers, a \in Blocks : inf[l][a] <=> (l = L /\ a = b) \/ cache.in_flight[l][a]
      /\ \A y \in Experts : que[y] <=> y = x \/ cache.queued[y]
  BY <1>1, <1>4
<1> HIDE DEF inf, que
<1>8. /\ cache' \in CacheRec /\ cache'.in_flight = inf /\ cache'.queued = que
      /\ cache'.slot_expert = c.slot_expert /\ cache'.table = c.table
      /\ cache'.adopt_victims = c.adopt_victims
      /\ cache'.adopt_slot = c.adopt_slot /\ cache'.adopt_full = c.adopt_full
  BY <1>4, <1>5, <1>6 DEF CacheRec
<1>9. c.adopt_slot = cache.adopt_slot /\ c.adopt_full = cache.adopt_full
  BY <1>2 DEF Vacated
<1>10. Standing
  BY DEF Standing
<1>11. /\ pool' \in PoolRec /\ FreeIsExact' /\ ZoneInv' /\ LendInv' /\ KvInv' /\ CallInv'
       /\ CoverInv'
       /\ \A a \in Blocks : pool'.owner[a] = IF a = b THEN L ELSE pool.owner[a]
  <2> HIDE DEF L
  <2> QED BY <1>1, <1>3, <1>10, TakeFrame
<1>12. SlotInv' /\ TableInv'
  <2> HIDE DEF L
  <2> QED BY <1>1, <1>2, <1>7, <1>8, <1>11, Occupied
<1>13. j \in JobSet /\ j.expert = x /\ j.slot = b
  BY <1>1 DEF Job, JobSet
<1> HIDE DEF j
<1>14. /\ jobs' \in [todo : SUBSET JobSet, done : SUBSET JobSet]
       /\ jobs'.todo = jobs.todo \cup {j} /\ jobs'.done = jobs.done
  BY <1>1, <1>13 DEF Types, j
<1>15. /\ \A i \in jobs.todo \cup jobs.done : Apart(i, j) /\ Apart(j, i)
       /\ \A w \in Busy : Apart(worker[w].job, j) /\ Apart(j, worker[w].job)
       /\ \A y \in Experts : cache.adopt_slot[y] # b
  BY <1>1, <1>13, TakableAlone DEF Books, JobInv, WorkerInv, Pending, Apart
<1>16. ASSUME NEW i \in JobSet, Pending(i) PROVE Pending(i)'
  <2>1. i.expert \in Experts /\ i.slot \in Blocks /\ LayerOf[i.expert] \in Layers
    BY Basics DEF JobSet
  <2> QED BY <1>7, <1>8, <1>16, <2>1 DEF Pending
<1>17. Pending(j)'
  BY <1>1, <1>7, <1>8, <1>13 DEF Pending
<1>18. JobInv'
  <2>1. \A i \in jobs.todo \cup jobs.done : Pending(i)'
    BY <1>1, <1>16 DEF Types, Books, JobInv
  <2>2. j \notin jobs.done
    BY <1>15 DEF Apart
  <2> QED BY <1>1, <1>14, <1>15, <1>17, <2>1, <2>2 DEF Books, JobInv
<1>19. Busy' = Busy
  BY DEF Busy
<1>20. WorkerInv'
  <2>1. \A w \in Busy : Pending(worker[w].job)'
    <3> SUFFICES ASSUME NEW w \in Busy PROVE Pending(worker[w].job)'
      OBVIOUS
    <3>1. worker[w].job \in JobSet /\ Pending(worker[w].job)
      BY <1>1, BusyJob DEF Books, WorkerInv
    <3> QED BY <1>16, <3>1
  <2> QED BY <1>1, <1>14, <1>15, <1>19, <2>1 DEF Books, WorkerInv
<1>21. AdoptInv'
  <2>1. \A y \in Experts : cache.adopt_slot[y] # None => cache'.in_flight[LayerOf[y]][cache.adopt_slot[y]]
    BY <1>1, <1>7, <1>8, AdoptOwned, Basics DEF Books, AdoptInv
  <2> QED BY <1>1, <1>8, <1>9, <1>13, <1>14, <1>15, <1>19, <2>1 DEF Books, AdoptInv
<1>22. Types' /\ DroppedInv'
  BY <1>1, <1>8, <1>11, <1>14 DEF Types, DroppedInv
<1> QED BY <1>11, <1>12, <1>18, <1>20, <1>21, <1>22 DEF IInv

LEMMA ClaimsKeep ==
    ASSUME IInv, NEW x \in Experts, Reheat(x) \/ Admit(x)
    PROVE  IInv'
<1>1. \E ev \in BOOLEAN, bg \in BOOLEAN : \E b \in pick_slot(pool, cache, ev) :
        Claim(x, b) /\ jobs' = [jobs EXCEPT !.todo = @ \cup {Job(x, b, bg)}]
  BY Zenon DEF Reheat, Admit
<1> PICK ev \in BOOLEAN, bg \in BOOLEAN : \E b \in pick_slot(pool, cache, ev) :
        Claim(x, b) /\ jobs' = [jobs EXCEPT !.todo = @ \cup {Job(x, b, bg)}]
  BY <1>1
<1>4. PICK b \in pick_slot(pool, cache, ev) :
        Claim(x, b) /\ jobs' = [jobs EXCEPT !.todo = @ \cup {Job(x, b, bg)}]
  OBVIOUS
<1>2. /\ ~cache.queued[x] /\ UNCHANGED <<worker, content, kv, main>>
      /\ main.pc \notin {"takeBlocks", "lendBlocks"}
  BY DEF Reheat, Admit
<1>3. Takable(b)
  BY <1>4, PickIs DEF IInv
<1> QED BY <1>4, <1>2, <1>3, ClaimKeeps

LEMMA AdoptVacates ==
    ASSUME Types, Books, NEW b \in Blocks, NEW o \in Layers, pool.owner[b] = o,
           NEW v \in Experts, cache.slot_expert[o][b] = v
    PROVE  Vacated([cache EXCEPT !.slot_expert[o][b] = None, !.expert_slot[v] = None,
                                 !.adopt_victims = @ \cup {v}], b)
<1>1. cache \in CacheRec
  BY DEF Types
<1>2. \A l \in Layers : l # o => cache.slot_expert[l][b] = None
  BY DEF Books, SlotInv
<1>3. \A y \in Experts \ cache.adopt_victims : cache.table[y] = b => y = v
  <2> SUFFICES ASSUME NEW y \in Experts \ cache.adopt_victims, cache.table[y] = b PROVE y = v
    OBVIOUS
  <2>1. cache.slot_expert[LayerOf[y]][b] = y /\ LayerOf[y] \in Layers /\ y # None
    BY Basics DEF Books, TableInv
  <2> QED BY <1>2, <2>1
<1> DEFINE sl == [cache.slot_expert EXCEPT ![o] = [cache.slot_expert[o] EXCEPT ![b] = None]]
           es == [cache.expert_slot EXCEPT ![v] = None]
           av == cache.adopt_victims \cup {v}
           c == [cache EXCEPT !.slot_expert[o][b] = None, !.expert_slot[v] = None,
                              !.adopt_victims = @ \cup {v}]
<1>4. c = [cache EXCEPT !.slot_expert = sl, !.expert_slot = es, !.adopt_victims = av]
  BY <1>1 DEF CacheRec
<1>5. /\ sl \in [Layers -> [Blocks -> Experts \cup {None}]]
      /\ es \in [Experts -> Slots] /\ av \in SUBSET Experts
  BY <1>1 DEF CacheRec, Slots
<1>6. \A l \in Layers, a \in Blocks : sl[l][a] = IF l = o /\ a = b THEN None ELSE cache.slot_expert[l][a]
  BY <1>1 DEF CacheRec
<1> HIDE DEF sl, es, c
<1>7. /\ c \in CacheRec /\ c.slot_expert = sl /\ c.table = cache.table
      /\ c.in_flight = cache.in_flight /\ c.queued = cache.queued
      /\ c.adopt_slot = cache.adopt_slot /\ c.adopt_full = cache.adopt_full
      /\ c.adopt_victims = av
  BY <1>1, <1>4, <1>5 DEF CacheRec
<1>8. \A l \in Layers, a \in Blocks : sl[l][a] = IF a = b THEN None ELSE cache.slot_expert[l][a]
  BY <1>2, <1>6
<1>9. \A y \in Experts \ av : cache.table[y] # b
  BY <1>3
<1> QED BY <1>7, <1>8, <1>9 DEF Vacated, c

LEMMA AdoptKeeps ==
    ASSUME IInv, NEW x \in Experts, Adopt(x)
    PROVE  IInv'
<1> DEFINE L == LayerOf[x]
           O(b) == pool.owner[b]
           V(b) == IF O(b) \in Layers THEN cache.slot_expert[O(b)][b] ELSE None
           C(b) == IF V(b) = None THEN cache
                   ELSE [cache EXCEPT !.slot_expert[O(b)][b] = None, !.expert_slot[V(b)] = None,
                                      !.adopt_victims = @ \cup {V(b)}]
<1>1. Types /\ Books /\ L \in Layers /\ main.pc = "compute" /\ cache.adopt_slot[x] = None
      /\ UNCHANGED <<jobs, worker, kv, main>>
  BY Basics DEF IInv, Books, Adopt
<1>2. PICK b \in pick_slot(pool, cache, TRUE) :
        /\ cache' = [C(b) EXCEPT !.in_flight[L][b] = TRUE, !.adopt_slot[x] = b]
        /\ pool' = pool_take(pool, L, b) /\ content' = [content EXCEPT ![b] = Junk]
  BY Zenon DEF Adopt
<1>3. Takable(b) /\ b \in Blocks
  BY <1>2, PickIs DEF IInv, Takable
<1> DEFINE c == C(b)
<1>4. Vacated(c, b)
  <2>1. CASE V(b) # None
    <3> DEFINE o == O(b)
               v == V(b)
    <3>1. o \in Layers /\ pool.owner[b] = o /\ v = cache.slot_expert[o][b] /\ v # None
      BY <2>1
    <3>2. v \in Experts
      <4> HIDE DEF o, v
      <4> QED BY <1>1, <1>3, <3>1 DEF Types, CacheRec
    <3>3. c = [cache EXCEPT !.slot_expert[o][b] = None, !.expert_slot[v] = None,
                            !.adopt_victims = @ \cup {v}]
      BY <2>1
    <3> HIDE DEF o, v, c
    <3>4. Vacated([cache EXCEPT !.slot_expert[o][b] = None, !.expert_slot[v] = None,
                                !.adopt_victims = @ \cup {v}], b)
      BY <1>1, <1>3, <3>1, <3>2, AdoptVacates, Zenon
    <3> QED BY <3>3, <3>4, Zenon
  <2>2. CASE V(b) = None /\ O(b) \in Layers
    <3>1. c = cache /\ cache.slot_expert[O(b)][b] = None
      BY <2>2
    <3>2. evict_slot(cache, O(b), b) = cache
      BY <3>1 DEF evict_slot
    <3> HIDE DEF c
    <3> QED BY <1>1, <1>3, <2>2, <3>1, <3>2, EvictVacates
  <2>3. CASE O(b) \notin Layers
    <3>1. c = cache
      BY <2>3
    <3> HIDE DEF c
    <3> QED BY <1>1, <1>3, <2>3, <3>1, Unused
  <2> QED BY <2>1, <2>2, <2>3
<1>5. cache' = [c EXCEPT !.in_flight[L][b] = TRUE, !.adopt_slot[x] = b]
  BY <1>2
<1> HIDE DEF c
<1> DEFINE inf == [c.in_flight EXCEPT ![L] = [c.in_flight[L] EXCEPT ![b] = TRUE]]
           ads == [c.adopt_slot EXCEPT ![x] = b]
<1>6. c \in CacheRec /\ c.in_flight = cache.in_flight /\ c.queued = cache.queued
      /\ c.adopt_slot = cache.adopt_slot /\ c.adopt_full = cache.adopt_full
      /\ c.in_flight \in [Layers -> [Blocks -> BOOLEAN]] /\ c.adopt_slot \in [Experts -> Slots]
  BY <1>4 DEF Vacated, CacheRec
<1>7. cache' = [c EXCEPT !.in_flight = inf, !.adopt_slot = ads]
  BY <1>5, <1>6 DEF CacheRec
<1>8. inf \in [Layers -> [Blocks -> BOOLEAN]] /\ ads \in [Experts -> Slots]
  BY <1>3, <1>6, Zenon DEF Slots
<1>9. /\ \A l \in Layers, a \in Blocks : inf[l][a] <=> (l = L /\ a = b) \/ cache.in_flight[l][a]
      /\ \A y \in Experts : ads[y] = IF y = x THEN b ELSE cache.adopt_slot[y]
  BY <1>1, <1>6
<1> HIDE DEF inf, ads
<1>10. /\ cache' \in CacheRec /\ cache'.in_flight = inf /\ cache'.queued = cache.queued
       /\ cache'.slot_expert = c.slot_expert /\ cache'.table = c.table
       /\ cache'.adopt_victims = c.adopt_victims
       /\ cache'.adopt_slot = ads /\ cache'.adopt_full = cache.adopt_full
  BY <1>6, <1>7, <1>8 DEF CacheRec
<1>11. Standing /\ Busy' = Busy
  BY <1>1 DEF Standing, Busy
<1>12. /\ content' \in [Blocks -> Contents] /\ \A a \in Blocks : a # b => content'[a] = content[a]
  BY <1>1, <1>2 DEF Types, Contents
<1>13. /\ pool' \in PoolRec /\ FreeIsExact' /\ ZoneInv' /\ LendInv' /\ KvInv' /\ CallInv'
       /\ CoverInv'
       /\ \A a \in Blocks : pool'.owner[a] = IF a = b THEN L ELSE pool.owner[a]
  <2> HIDE DEF L
  <2> QED BY <1>1, <1>2, <1>3, <1>11, <1>12, TakeFrame
<1>14. SlotInv' /\ TableInv'
  <2> HIDE DEF L
  <2> QED BY <1>1, <1>3, <1>4, <1>9, <1>10, <1>12, <1>13, Occupied
<1>15. /\ \A j \in jobs.todo \cup jobs.done : j.slot # b
       /\ \A w \in Busy : worker[w].job.slot # b
       /\ \A y \in Experts : cache.adopt_slot[y] # b
  BY <1>1, <1>3, TakableAlone
<1>16. ASSUME NEW i \in JobSet, Pending(i) PROVE Pending(i)'
  <2>1. i.expert \in Experts /\ i.slot \in Blocks /\ LayerOf[i.expert] \in Layers
    BY Basics DEF JobSet
  <2> QED BY <1>9, <1>10, <1>16, <2>1 DEF Pending
<1>17. JobInv'
  <2>1. \A i \in jobs.todo \cup jobs.done : i \in JobSet /\ i.slot \in Blocks
    BY <1>1 DEF Types, JobSet
  <2>2. \A i \in jobs.todo \cup jobs.done : Pending(i)'
    BY <1>1, <1>16, <2>1 DEF Books, JobInv
  <2> QED BY <1>1, <1>12, <1>15, <2>1, <2>2 DEF Books, JobInv
<1>18. WorkerInv'
  <2>1. \A w \in Busy : Pending(worker[w].job)' /\ worker[w].job.slot \in Blocks
    <3> SUFFICES ASSUME NEW w \in Busy PROVE Pending(worker[w].job)' /\ worker[w].job.slot \in Blocks
      OBVIOUS
    <3>1. worker[w].job \in JobSet /\ Pending(worker[w].job) /\ worker[w].job.slot \in Blocks
      BY <1>1, BusyJob DEF Books, WorkerInv, JobSet
    <3>2. Pending(worker[w].job)'
      BY <1>1, <1>16, <3>1
    <3> QED BY <3>1, <3>2
  <2> QED BY <1>1, <1>11, <1>12, <1>15, <2>1 DEF Books, WorkerInv
<1>19. AdoptInv'
  <2>1. ASSUME NEW y \in Experts, ads[y] # None PROVE inf[LayerOf[y]][ads[y]]
    <3>1. CASE y = x
      BY <1>1, <1>3, <1>9, <3>1
    <3>2. CASE y # x
      BY <1>1, <1>9, <2>1, <3>2, AdoptOwned, Basics DEF Books, AdoptInv
    <3> QED BY <3>1, <3>2
  <2>2. ASSUME NEW y \in Experts, ads[y] # None, NEW z \in Experts, z # y PROVE ads[z] # ads[y]
    BY <1>1, <1>9, <1>15, <2>2 DEF Books, AdoptInv
  <2>3. ASSUME NEW y \in Experts, ads[y] # None
        PROVE  /\ \A j \in jobs.todo \cup jobs.done : j.slot # ads[y]
               /\ \A w \in Busy : worker[w].job.slot # ads[y]
    BY <1>1, <1>9, <1>15, <2>3 DEF Books, AdoptInv
  <2>4. ASSUME NEW y \in cache.adopt_full PROVE ads[y] # None /\ content'[ads[y]] = y
    <3>1. y \in Experts /\ y # x /\ cache.adopt_slot[y] # None /\ content[cache.adopt_slot[y]] = y
      BY <1>1 DEF Types, CacheRec, Books, AdoptInv
    <3>2. cache.adopt_slot[y] \in Blocks /\ cache.adopt_slot[y] # b
      BY <1>1, <1>15, <3>1, AdoptOwned DEF Books
    <3> QED BY <1>9, <1>12, <3>1, <3>2
  <2> QED BY <1>1, <1>10, <1>11, <2>1, <2>2, <2>3, <2>4 DEF AdoptInv
<1>20. Types' /\ DroppedInv'
  BY <1>1, <1>10, <1>12, <1>13 DEF Types, DroppedInv
<1> QED BY <1>13, <1>14, <1>17, <1>18, <1>19, <1>20 DEF IInv

LEMMA AdoptRestKeeps ==
    ASSUME IInv, NEW x \in Experts, AdoptRest(x)
    PROVE  IInv'
<1> DEFINE b == cache.adopt_slot[x]
<1>1. /\ Types /\ Books /\ b # None /\ cache' = [cache EXCEPT !.adopt_full = @ \cup {x}]
      /\ content' = [content EXCEPT ![b] = x] /\ main.pc = "compute"
      /\ UNCHANGED <<pool, jobs, worker, kv, main>>
  BY DEF IInv, Books, AdoptRest
<1>2. b \in Blocks /\ pool.owner[b] = LayerOf[x] /\ pool.owner[b] \in Layers /\ cache.in_flight[pool.owner[b]][b]
  BY <1>1, AdoptOwned DEF Books, AdoptInv
<1>3. /\ \A l \in Layers : cache.slot_expert[l][b] = None
      /\ \A y \in Experts : y # x => cache.adopt_slot[y] # b
      /\ \A j \in jobs.todo \cup jobs.done : j.slot # b
      /\ \A w \in Busy : worker[w].job.slot # b
  BY <1>1, <1>2 DEF Books, SlotInv, AdoptInv
<1> HIDE DEF b
<1>4. /\ cache' \in CacheRec /\ cache'.in_flight = cache.in_flight /\ cache'.queued = cache.queued
      /\ cache'.slot_expert = cache.slot_expert /\ cache'.table = cache.table
      /\ cache'.adopt_victims = cache.adopt_victims
      /\ cache'.adopt_slot = cache.adopt_slot /\ cache'.adopt_full = cache.adopt_full \cup {x}
  <2> DEFINE af == cache.adopt_full \cup {x}
  <2>1. cache \in CacheRec /\ af \in SUBSET Experts /\ cache' = [cache EXCEPT !.adopt_full = af]
    BY <1>1 DEF Types, CacheRec
  <2> HIDE DEF af
  <2>2. /\ cache' \in CacheRec /\ cache'.in_flight = cache.in_flight /\ cache'.queued = cache.queued
        /\ cache'.slot_expert = cache.slot_expert /\ cache'.table = cache.table
        /\ cache'.adopt_victims = cache.adopt_victims
        /\ cache'.adopt_slot = cache.adopt_slot /\ cache'.adopt_full = af
    BY <2>1 DEF CacheRec
  <2> QED BY <2>2 DEF af
<1>5. /\ content' \in [Blocks -> Contents] /\ content'[b] = x
      /\ \A a \in Blocks : a # b => content'[a] = content[a]
  BY <1>1, <1>2 DEF Types, Contents
<1>6. Standing /\ Busy' = Busy
  BY <1>1 DEF Standing, Busy
<1>7. ZoneInv' /\ LendInv' /\ KvInv' /\ CallInv' /\ CoverInv'
  <2>1. \A a \in Blocks : pool.owner[a] \in {Zone, Lent} \/ pool'.owner[a] \in {Zone, Lent} =>
          pool'.owner[a] = pool.owner[a] /\ content'[a] = content[a]
    BY <1>1, <1>2, <1>5, Basics
  <2>2. pool'.blocked = pool.blocked /\ pool'.want = pool.want /\ kv' = kv
    BY <1>1
  <2> QED BY <1>6, <2>1, <2>2, MapFrame DEF IInv
<1>8. SlotInv' /\ TableInv'
  BY <1>1, <1>3, <1>4, <1>5 DEF Books, SlotInv, TableInv
<1>9. JobInv'
  <2>1. \A i \in jobs.todo \cup jobs.done : i \in JobSet /\ i.slot \in Blocks
    BY <1>1 DEF Types, JobSet
  <2> QED BY <1>1, <1>3, <1>4, <1>5, <2>1 DEF Books, JobInv, Pending
<1>10. WorkerInv'
  <2>1. \A w \in Busy : worker[w].job.slot \in Blocks
    BY <1>1, BusyJob DEF JobSet
  <2> QED BY <1>1, <1>3, <1>4, <1>5, <1>6, <2>1 DEF Books, WorkerInv, Pending
<1>11. AdoptInv'
  <2>1. ASSUME NEW y \in cache.adopt_full \cup {x}
        PROVE  cache.adopt_slot[y] # None /\ content'[cache.adopt_slot[y]] = y
    <3>1. CASE y = x
      BY <1>1, <1>5, <3>1 DEF b
    <3>2. CASE y # x
      <4>1. y \in Experts /\ cache.adopt_slot[y] # None /\ content[cache.adopt_slot[y]] = y
        BY <1>1, <3>2 DEF Types, CacheRec, Books, AdoptInv
      <4>2. cache.adopt_slot[y] \in Blocks /\ cache.adopt_slot[y] # b
        BY <1>1, <1>3, <3>2, <4>1, AdoptOwned DEF Books
      <4> QED BY <1>5, <4>1, <4>2
    <3> QED BY <3>1, <3>2
  <2> QED BY <1>1, <1>4, <1>6, <2>1 DEF Books, AdoptInv
<1>12. Types' /\ DroppedInv' /\ FreeIsExact'
  BY <1>1, <1>4, <1>5 DEF IInv, Types, DroppedInv, FreeIsExact
<1> QED BY <1>7, <1>8, <1>9, <1>10, <1>11, <1>12 DEF IInv

\* The cache after expert x of layer l has moved from block src to block dst.
Moved(l, x, src, dst) ==
    /\ cache' \in CacheRec
    /\ cache'.in_flight = cache.in_flight /\ cache'.queued = cache.queued
    /\ cache'.adopt_slot = cache.adopt_slot /\ cache'.adopt_full = cache.adopt_full
    /\ cache.adopt_victims \subseteq cache'.adopt_victims
    /\ \A m \in Layers, a \in Blocks : cache'.slot_expert[m][a] =
         IF a = dst THEN IF m = l THEN x ELSE None
         ELSE IF m = l /\ a = src THEN None ELSE cache.slot_expert[m][a]
    /\ cache'.table[x] = dst
    /\ \A y \in Experts \ cache'.adopt_victims : y # x /\ cache'.table[y] # None =>
         cache'.table[y] = cache.table[y] /\ cache'.table[y] # dst

LEMMA MovedIs ==
    ASSUME NEW l \in Layers, NEW x \in Experts, NEW src \in Blocks, NEW dst \in Blocks, src # dst,
           NEW c, Vacated(c, dst),
           cache' = [c EXCEPT !.slot_expert[l][dst] = x, !.expert_slot[x] = dst,
                              !.slot_expert[l][src] = None, !.table[x] = dst]
    PROVE  Moved(l, x, src, dst)
<1> DEFINE s1 == [c.slot_expert EXCEPT ![l] = [c.slot_expert[l] EXCEPT ![dst] = x]]
           s2 == [s1 EXCEPT ![l] = [s1[l] EXCEPT ![src] = None]]
           es == [c.expert_slot EXCEPT ![x] = dst]
           ta == [c.table EXCEPT ![x] = dst]
<1>1. c \in CacheRec
  BY DEF Vacated
<1>2. s1 \in [Layers -> [Blocks -> Experts \cup {None}]]
  BY <1>1 DEF CacheRec
<1>3. \A m \in Layers, a \in Blocks : s1[m][a] = IF m = l /\ a = dst THEN x ELSE c.slot_expert[m][a]
  BY <1>1 DEF CacheRec
<1>4. cache' = [c EXCEPT !.slot_expert = s2, !.expert_slot = es, !.table = ta]
  BY <1>1 DEF CacheRec
<1> HIDE DEF s1
<1>5. s2 \in [Layers -> [Blocks -> Experts \cup {None}]] /\ es \in [Experts -> Slots] /\ ta \in [Experts -> Slots]
  BY <1>1, <1>2 DEF CacheRec, Slots
<1>6. \A m \in Layers, a \in Blocks : s2[m][a] = IF m = l /\ a = src THEN None ELSE s1[m][a]
  BY <1>2
<1>7. \A y \in Experts : ta[y] = IF y = x THEN dst ELSE c.table[y]
  BY <1>1 DEF CacheRec
<1> HIDE DEF s2, es, ta
<1>8. /\ cache' \in CacheRec /\ cache'.slot_expert = s2 /\ cache'.table = ta
      /\ cache'.in_flight = c.in_flight /\ cache'.queued = c.queued
      /\ cache'.adopt_slot = c.adopt_slot /\ cache'.adopt_full = c.adopt_full
      /\ cache'.adopt_victims = c.adopt_victims
  BY <1>1, <1>4, <1>5 DEF CacheRec
<1>9. \A m \in Layers, a \in Blocks : s2[m][a] =
         IF a = dst THEN IF m = l THEN x ELSE None
         ELSE IF m = l /\ a = src THEN None ELSE cache.slot_expert[m][a]
  BY <1>3, <1>6 DEF Vacated
<1>10. \A y \in Experts \ c.adopt_victims : y # x /\ ta[y] # None =>
         ta[y] = cache.table[y] /\ ta[y] # dst
  BY <1>7 DEF Vacated
<1>11. /\ c.in_flight = cache.in_flight /\ c.queued = cache.queued
       /\ c.adopt_slot = cache.adopt_slot /\ c.adopt_full = cache.adopt_full
       /\ cache.adopt_victims \subseteq c.adopt_victims
  BY DEF Vacated
<1>12. ta[x] = dst
  BY <1>7
<1> QED BY <1>8, <1>9, <1>10, <1>11, <1>12, Zenon DEF Moved

\* One step of keep-hot, with the blocks it moves from and to.
HotMove(src, dst) ==
    LET l == pool.owner[src]
        x == cache.slot_expert[l][src]
        c == IF pool.owner[dst] \in Layers THEN evict_slot(cache, pool.owner[dst], dst) ELSE cache
    IN  /\ cache' = [c EXCEPT !.slot_expert[l][dst] = x,
                              !.expert_slot[x] = dst,
                              !.slot_expert[l][src] = None,
                              !.table[x] = dst]
        /\ pool' = pool_take(pool, l, dst)
        /\ content' = [content EXCEPT ![dst] = content[src]]
        /\ main' = [main EXCEPT !.kept = @ \cup {dst}]

LEMMA HotMoveIs ==
    ASSUME IInv, KeepHot
    PROVE  \E src \in ToLend \cap CachedBlocks(pool, cache), dst \in Span(Need[main.size], NBlocks) :
             dst \in EmptyBlocks(pool, cache) \cup CachedBlocks(pool, cache) /\ HotMove(src, dst)
<1> DEFINE cold == {b \in Span(Need[main.size], NBlocks) \ main.kept :
                      b \in EmptyBlocks(pool, cache) \cup CachedBlocks(pool, cache)}
           empty == cold \cap EmptyBlocks(pool, cache)
<1>1. PICK src \in ToLend \cap CachedBlocks(pool, cache) :
        \E dst \in IF empty # {} THEN empty ELSE cold : HotMove(src, dst)
  BY Zenon DEF KeepHot, HotMove
<1>2. PICK dst \in IF empty # {} THEN empty ELSE cold : HotMove(src, dst)
  BY <1>1
<1>3. dst \in cold
  BY <1>2
<1> QED BY <1>2, <1>3

LEMMA KeepHotKeeps ==
    ASSUME IInv, KeepHot
    PROVE  IInv'
<1>1. PICK src \in ToLend \cap CachedBlocks(pool, cache), dst \in Span(Need[main.size], NBlocks) :
        dst \in EmptyBlocks(pool, cache) \cup CachedBlocks(pool, cache) /\ HotMove(src, dst)
  BY HotMoveIs
<1> DEFINE l == pool.owner[src]
           x == cache.slot_expert[l][src]
           c == IF pool.owner[dst] \in Layers THEN evict_slot(cache, pool.owner[dst], dst) ELSE cache
<1>2. Types /\ Books /\ main.pc = "lendBlocks" /\ UNCHANGED <<jobs, worker, kv>>
  BY DEF IInv, Books, KeepHot
<1>3. /\ src \in Blocks /\ l \in Layers /\ x \in Experts /\ LayerOf[x] = l /\ content[src] = x
      /\ ~cache.in_flight[l][src]
  BY <1>1, <1>2 DEF CachedBlocks, Types, CacheRec, Books, SlotInv
<1>4. dst \in Blocks /\ Takable(dst)
  <2>1. dst \in Blocks /\ (pool.owner[dst] = Free
                           \/ (pool.owner[dst] \in Layers /\ ~cache.in_flight[pool.owner[dst]][dst]))
    BY <1>1 DEF EmptyBlocks, CachedBlocks
  <2> QED BY <2>1, Basics DEF IInv, Takable, SlotInv
<1>5. src # dst
  <2>1. Need[main.size] \in 1 .. NBlocks /\ pool.blocked \in 0 .. NBlocks /\ NBlocks \in Nat
    BY <1>2, Basics DEF Types, MainRec, PoolRec
  <2> QED BY <1>1, <2>1 DEF ToLend, Span
<1>6. Vacated(c, dst)
  BY <1>2, <1>4, EvictVacates, Unused
<1>7. /\ cache' = [c EXCEPT !.slot_expert[l][dst] = x, !.expert_slot[x] = dst,
                            !.slot_expert[l][src] = None, !.table[x] = dst]
      /\ pool' = pool_take(pool, l, dst) /\ content' = [content EXCEPT ![dst] = content[src]]
      /\ main' = [main EXCEPT !.kept = @ \cup {dst}]
  BY <1>1, Zenon DEF HotMove
<1> HIDE DEF l, x, c
<1>8. Moved(l, x, src, dst)
  BY <1>3, <1>4, <1>5, <1>6, <1>7, MovedIs, Zenon
<1>9. /\ content' \in [Blocks -> Contents] /\ content'[dst] = x
      /\ \A a \in Blocks : a # dst => content'[a] = content[a]
  BY <1>2, <1>3, <1>4, <1>7 DEF Types, Contents
<1>10. main' \in MainRec /\ Standing
  BY <1>2, <1>4, <1>7 DEF Types, MainRec, Standing
<1>11. Busy' = Busy
  BY <1>2 DEF Busy
<1>12. /\ pool' \in PoolRec /\ FreeIsExact' /\ ZoneInv' /\ LendInv' /\ KvInv' /\ CallInv'
       /\ CoverInv'
       /\ \A a \in Blocks : pool'.owner[a] = IF a = dst THEN l ELSE pool.owner[a]
       /\ pool'.blocked = pool.blocked
  BY <1>2, <1>3, <1>4, <1>7, <1>9, <1>10, TakeFrame
<1>13. /\ \A j \in jobs.todo \cup jobs.done : j.slot # dst
       /\ \A w \in Busy : worker[w].job.slot # dst
       /\ \A y \in Experts : cache.adopt_slot[y] # dst
  BY <1>2, <1>4, TakableAlone
<1>14. SlotInv'
  <2> SUFFICES ASSUME NEW m \in Layers, NEW a \in Blocks
               PROVE  /\ cache'.in_flight[m][a] => pool'.owner[a] = m /\ cache'.slot_expert[m][a] = None
                      /\ cache'.slot_expert[m][a] # None =>
                           /\ pool'.owner[a] = m
                           /\ content'[a] = cache'.slot_expert[m][a]
                           /\ LayerOf[cache'.slot_expert[m][a]] = m
    BY DEF SlotInv
  <2>1. CASE a = dst
    BY <1>3, <1>4, <1>8, <1>9, <1>12, <2>1 DEF Moved, Takable
  <2>2. CASE a # dst
    BY <1>2, <1>8, <1>9, <1>12, <2>2 DEF Moved, Books, SlotInv
  <2> QED BY <2>1, <2>2
<1>15. TableInv'
  <2> SUFFICES ASSUME NEW y \in Experts \ cache'.adopt_victims, cache'.table[y] # None
               PROVE  cache'.slot_expert[LayerOf[y]][cache'.table[y]] = y
    BY DEF TableInv
  <2>1. CASE y = x
    BY <1>3, <1>4, <1>8, <2>1 DEF Moved
  <2>2. CASE y # x
    <3>1. cache'.table[y] = cache.table[y] /\ cache.table[y] # dst /\ y \notin cache.adopt_victims
      BY <1>8, <2>2 DEF Moved
    <3>2. cache.table[y] \in Blocks /\ LayerOf[y] \in Layers
      BY <1>2, <3>1, Basics DEF Types, CacheRec, Slots
    <3>3. cache.slot_expert[LayerOf[y]][cache.table[y]] = y
      BY <1>2, <3>1 DEF Books, TableInv
    <3>4. ~(LayerOf[y] = l /\ cache.table[y] = src)
      BY <2>2, <3>3 DEF x
    <3> QED BY <1>8, <3>1, <3>2, <3>3, <3>4 DEF Moved
  <2> QED BY <2>1, <2>2
<1>16. JobInv'
  <2>1. \A i \in jobs.todo \cup jobs.done : i \in JobSet /\ i.slot \in Blocks
    BY <1>2 DEF Types, JobSet
  <2> QED BY <1>2, <1>8, <1>9, <1>13, <2>1 DEF Moved, Books, JobInv, Pending
<1>17. WorkerInv'
  <2>1. \A w \in Busy : worker[w].job.slot \in Blocks
    BY <1>2, BusyJob DEF JobSet
  <2> QED BY <1>2, <1>8, <1>9, <1>11, <1>13, <2>1 DEF Moved, Books, WorkerInv, Pending
<1>18. AdoptInv'
  <2>1. ASSUME NEW y \in cache.adopt_full
        PROVE  cache.adopt_slot[y] # None /\ content'[cache.adopt_slot[y]] = y
    <3>1. y \in Experts /\ cache.adopt_slot[y] # None /\ content[cache.adopt_slot[y]] = y
      BY <1>2 DEF Types, CacheRec, Books, AdoptInv
    <3>2. cache.adopt_slot[y] \in Blocks /\ cache.adopt_slot[y] # dst
      BY <1>2, <1>13, <3>1, AdoptOwned DEF Books
    <3> QED BY <1>9, <3>1, <3>2
  <2> QED BY <1>2, <1>8, <1>11, <2>1 DEF Moved, Books, AdoptInv
<1>19. DroppedInv'
  <2>1. main'.pc = "lendBlocks" /\ ToLend' = ToLend /\ cache'.in_flight = cache.in_flight
    BY <1>2, <1>8, <1>10, <1>12 DEF ToLend, Standing, Moved
  <2> QED BY <1>2, <2>1 DEF IInv, DroppedInv
<1>20. Types'
  BY <1>2, <1>8, <1>9, <1>10, <1>12 DEF Types, Moved
<1> QED BY <1>12, <1>14, <1>15, <1>16, <1>17, <1>18, <1>19, <1>20 DEF IInv

-----------------------------------------------------------------------------
(* The step at the end of a call. *)

One(S, default) == IF S = {} THEN default ELSE CHOOSE s \in S : TRUE

LEMMA OneIs ==
    ASSUME NEW S, NEW d
    PROVE  /\ S # {} => One(S, d) \in S
           /\ S = {} => One(S, d) = d
           /\ \A s \in S : (\A t \in S : t = s) => One(S, d) = s
<1>1. S # {} => One(S, d) \in S
  BY DEF One
<1>2. S = {} => One(S, d) = d
  BY DEF One
<1> QED BY <1>1, <1>2

\* The blocks expert x was uploaded to, and the experts that were uploaded or adopted into
\* block b for layer l.
Uploads(x) == {j.slot : j \in {i \in {j \in jobs.done : ~j.skipped} : i.expert = x}}
UploadedTo(l, b) == {x \in Experts : LayerOf[x] = l /\ b \in Uploads(x)}
AdoptedTo(l, b) == {x \in cache.adopt_full : LayerOf[x] = l /\ cache.adopt_slot[x] = b}
NewBlock(x, old) == IF x \in cache.adopt_full THEN cache.adopt_slot[x] ELSE One(Uploads(x), old)

NewSlots == [l \in Layers |-> [b \in Blocks |->
               One(AdoptedTo(l, b), One(UploadedTo(l, b), cache.slot_expert[l][b]))]]
NewPlaces == [x \in Experts |-> NewBlock(x, cache.expert_slot[x])]
NewTable == [x \in Experts |-> IF x \in cache.adopt_victims \ cache.adopt_full THEN None
                               ELSE NewBlock(x, cache.table[x])]
NewFlight == [l \in Layers |-> [b \in Blocks |->
                /\ cache.in_flight[l][b]
                /\ ~\E j \in jobs.done : LayerOf[j.expert] = l /\ j.slot = b
                /\ ~\E x \in {y \in Experts : cache.adopt_slot[y] # None} :
                      LayerOf[x] = l /\ cache.adopt_slot[x] = b]]
NewQueued == [x \in Experts |-> cache.queued[x] /\ ~\E j \in jobs.done : j.expert = x]

LEMMA PublishIs ==
    Publish(cache) = [cache EXCEPT !.slot_expert = NewSlots, !.expert_slot = NewPlaces,
                                   !.table = NewTable, !.in_flight = NewFlight,
                                   !.queued = NewQueued, !.adopt_slot = [x \in Experts |-> None],
                                   !.adopt_full = {}, !.adopt_victims = {}]
BY DEF Publish, NewSlots, NewPlaces, NewTable, NewFlight, NewQueued, NewBlock, AdoptedTo, UploadedTo,
       Uploads, One

\* An upload that was published: there is a job for it.
LEMMA UploadedBy ==
    ASSUME Types, NEW x \in Experts, NEW b \in Uploads(x)
    PROVE  \E j \in jobs.done : ~j.skipped /\ j.expert = x /\ j.slot = b /\ j \in JobSet /\ b \in Blocks
<1>1. PICK j \in jobs.done : ~j.skipped /\ j.expert = x /\ j.slot = b
  BY DEF Uploads
<1>2. j \in JobSet
  BY DEF Types
<1> QED BY <1>1, <1>2 DEF JobSet

LEMMA PublishTypes ==
    ASSUME Types, Books
    PROVE  /\ NewSlots \in [Layers -> [Blocks -> Experts \cup {None}]]
           /\ NewPlaces \in [Experts -> Slots] /\ NewTable \in [Experts -> Slots]
           /\ NewFlight \in [Layers -> [Blocks -> BOOLEAN]] /\ NewQueued \in [Experts -> BOOLEAN]
<1>1. cache \in CacheRec
  BY DEF Types
<1>2. ASSUME NEW l \in Layers, NEW b \in Blocks
      PROVE  One(AdoptedTo(l, b), One(UploadedTo(l, b), cache.slot_expert[l][b])) \in Experts \cup {None}
  <2>1. cache.slot_expert[l][b] \in Experts \cup {None}
    BY <1>1 DEF CacheRec
  <2>2. UploadedTo(l, b) \subseteq Experts /\ AdoptedTo(l, b) \subseteq Experts
    BY <1>1 DEF UploadedTo, AdoptedTo, CacheRec
  <2>3. One(UploadedTo(l, b), cache.slot_expert[l][b]) \in Experts \cup {None}
    BY <2>1, <2>2, OneIs
  <2> QED BY <2>2, <2>3, OneIs
<1>3. NewSlots \in [Layers -> [Blocks -> Experts \cup {None}]]
  BY <1>2 DEF NewSlots
<1>4. ASSUME NEW x \in Experts, NEW old \in Slots PROVE NewBlock(x, old) \in Slots
  <2>1. cache.adopt_slot[x] \in Slots
    BY <1>1 DEF CacheRec
  <2>2. Uploads(x) \subseteq Slots
    BY UploadedBy DEF Slots
  <2>3. One(Uploads(x), old) \in Slots
    BY <2>2, OneIs
  <2> QED BY <2>1, <2>3 DEF NewBlock
<1>5. \A x \in Experts : cache.expert_slot[x] \in Slots /\ cache.table[x] \in Slots /\ None \in Slots
  BY <1>1 DEF CacheRec, Slots
<1>6. NewPlaces \in [Experts -> Slots] /\ NewTable \in [Experts -> Slots]
  BY <1>4, <1>5 DEF NewPlaces, NewTable
<1>7. NewFlight \in [Layers -> [Blocks -> BOOLEAN]] /\ NewQueued \in [Experts -> BOOLEAN]
  BY Zenon DEF NewFlight, NewQueued
<1> QED BY <1>3, <1>6, <1>7

\* What went into a block: nobody else has to do with it.
LEMMA AdoptedAlone ==
    ASSUME Types, Books, NEW l \in Layers, NEW b \in Blocks, NEW x \in AdoptedTo(l, b)
    PROVE  /\ x \in Experts /\ LayerOf[x] = l /\ cache.in_flight[l][b] /\ content[b] = x
           /\ \A y \in AdoptedTo(l, b) : y = x
           /\ \A y \in Experts : cache.adopt_slot[y] = b => y = x
<1>1. x \in Experts /\ LayerOf[x] = l /\ cache.adopt_slot[x] = b /\ x \in cache.adopt_full
  BY DEF Types, CacheRec, AdoptedTo
<1>2. cache.in_flight[l][b] /\ content[b] = x /\ \A y \in Experts : cache.adopt_slot[y] = b => y = x
  BY <1>1, Basics DEF Books, AdoptInv
<1>3. \A y \in AdoptedTo(l, b) : y \in Experts /\ cache.adopt_slot[y] = b
  BY DEF Types, CacheRec, AdoptedTo
<1> QED BY <1>1, <1>2, <1>3

LEMMA UploadedAlone ==
    ASSUME Types, Books, NEW l \in Layers, NEW b \in Blocks, NEW x \in UploadedTo(l, b)
    PROVE  /\ x \in Experts /\ LayerOf[x] = l /\ cache.in_flight[l][b] /\ content[b] = x
           /\ \A y \in UploadedTo(l, b) : y = x
           /\ \A y \in Experts : cache.adopt_slot[y] # b
<1>1. x \in Experts /\ LayerOf[x] = l /\ b \in Uploads(x)
  BY DEF UploadedTo
<1>2. PICK j \in jobs.done : ~j.skipped /\ j.expert = x /\ j.slot = b
  BY <1>1, UploadedBy
<1>3. cache.in_flight[l][b] /\ content[b] = x
  BY <1>1, <1>2 DEF Books, JobInv, Pending
<1>4. ASSUME NEW y \in UploadedTo(l, b) PROVE y = x
  <2>1. PICK i \in jobs.done : i.expert = y /\ i.slot = b
    BY UploadedBy DEF UploadedTo
  <2> QED BY <1>2, <2>1 DEF Books, JobInv, Apart
<1>5. \A y \in Experts : cache.adopt_slot[y] # b
  BY <1>2, Basics DEF Books, AdoptInv
<1> QED BY <1>1, <1>3, <1>4, <1>5

\* What a layer has in a block after the step.
LEMMA NewSlotIs ==
    ASSUME Types, Books, NEW l \in Layers, NEW b \in Blocks
    PROVE  \/ NewSlots[l][b] \in AdoptedTo(l, b)
           \/ NewSlots[l][b] \in UploadedTo(l, b) /\ AdoptedTo(l, b) = {}
           \/ NewSlots[l][b] = cache.slot_expert[l][b] /\ AdoptedTo(l, b) = {} /\ UploadedTo(l, b) = {}
<1>1. NewSlots[l][b] = One(AdoptedTo(l, b), One(UploadedTo(l, b), cache.slot_expert[l][b]))
  BY DEF NewSlots
<1> QED BY <1>1, OneIs

\* The pool and the cache after a step that publishes.
Published ==
    /\ cache' \in CacheRec
    /\ cache'.slot_expert = NewSlots /\ cache'.table = NewTable
    /\ cache'.in_flight = NewFlight /\ cache'.queued = NewQueued
    /\ \A x \in Experts : cache'.adopt_slot[x] = None
    /\ cache'.adopt_full = {} /\ cache'.adopt_victims = {}
    /\ jobs'.todo = jobs.todo /\ jobs'.done = {}
    /\ UNCHANGED <<worker, content>>
    /\ \A b \in Blocks : pool'.owner[b] = IF b \in Unadopted \cup Returned THEN Free ELSE pool.owner[b]

LEMMA UnadoptedIs ==
    ASSUME Types, Books, NEW b \in Unadopted
    PROVE  /\ b \in Blocks /\ pool.owner[b] \in Layers
           /\ \A l \in Layers : ~NewFlight[l][b] /\ NewSlots[l][b] = None
<1>1. PICK x \in Experts \ cache.adopt_full : cache.adopt_slot[x] = b /\ pool.owner[b] = LayerOf[x]
  BY DEF Unadopted
<1>2. b \in Blocks /\ LayerOf[x] \in Layers /\ b # None
  BY Basics DEF Unadopted
<1>3. cache.in_flight[LayerOf[x]][b]
  BY <1>1, <1>2 DEF Books, AdoptInv
<1> SUFFICES ASSUME NEW l \in Layers PROVE ~NewFlight[l][b] /\ NewSlots[l][b] = None
  BY <1>1, <1>2
<1>4. ~NewFlight[l][b]
  <2>1. CASE l = LayerOf[x]
    BY <1>1, <1>2, <2>1 DEF NewFlight
  <2>2. CASE l # LayerOf[x]
    <3>1. ~cache.in_flight[l][b]
      BY <1>1, <1>2, <2>2 DEF Books, SlotInv
    <3> QED BY <1>2, <3>1 DEF NewFlight
  <2> QED BY <2>1, <2>2
<1>5. AdoptedTo(l, b) = {} /\ UploadedTo(l, b) = {}
  <2>1. ASSUME NEW y \in AdoptedTo(l, b) PROVE FALSE
    <3>1. x = y /\ y \in cache.adopt_full
      BY <1>1, <1>2, AdoptedAlone DEF AdoptedTo
    <3> QED BY <1>1, <3>1
  <2>2. ASSUME NEW y \in UploadedTo(l, b) PROVE FALSE
    BY <1>1, <1>2, UploadedAlone
  <2> QED BY <2>1, <2>2
<1>6. cache.slot_expert[l][b] = None
  BY <1>1, <1>2, <1>3 DEF Books, SlotInv
<1>7. NewSlots[l][b] = cache.slot_expert[l][b]
  BY <1>2, <1>5, NewSlotIs
<1> QED BY <1>4, <1>6, <1>7

LEMMA PublishedSlots ==
    ASSUME Types, Books, Published
    PROVE  SlotInv'
<1> SUFFICES ASSUME NEW l \in Layers, NEW b \in Blocks
             PROVE  /\ NewFlight[l][b] => pool'.owner[b] = l /\ NewSlots[l][b] = None
                    /\ NewSlots[l][b] # None =>
                         /\ pool'.owner[b] = l
                         /\ content[b] = NewSlots[l][b]
                         /\ LayerOf[NewSlots[l][b]] = l
  BY DEF Published, SlotInv
<1>1. CASE b \in Unadopted
  BY <1>1, UnadoptedIs
<1>2. ASSUME pool.owner[b] = l, b \notin Unadopted PROVE pool'.owner[b] = l
  BY <1>2, Basics DEF Published, Returned
<1>3. ASSUME b \notin Unadopted, NewFlight[l][b] PROVE pool'.owner[b] = l /\ NewSlots[l][b] = None
  <2>1. /\ cache.in_flight[l][b]
        /\ ~\E j \in jobs.done : LayerOf[j.expert] = l /\ j.slot = b
        /\ ~\E x \in {y \in Experts : cache.adopt_slot[y] # None} :
              LayerOf[x] = l /\ cache.adopt_slot[x] = b
    BY <1>3 DEF NewFlight
  <2>2. pool.owner[b] = l /\ cache.slot_expert[l][b] = None
    BY <2>1 DEF Books, SlotInv
  <2>3. AdoptedTo(l, b) = {}
    BY <2>1, Basics DEF AdoptedTo, Types, CacheRec
  <2>4. UploadedTo(l, b) = {}
    <3>1. ASSUME NEW x \in UploadedTo(l, b) PROVE FALSE
      BY <2>1, UploadedBy DEF UploadedTo
    <3> QED BY <3>1
  <2>5. NewSlots[l][b] = None
    BY <2>2, <2>3, <2>4, NewSlotIs
  <2> QED BY <1>2, <1>3, <2>2, <2>5
<1>4. ASSUME b \notin Unadopted, NewSlots[l][b] # None
      PROVE  pool'.owner[b] = l /\ content[b] = NewSlots[l][b] /\ LayerOf[NewSlots[l][b]] = l
  <2>1. CASE NewSlots[l][b] \in AdoptedTo(l, b)
    BY <1>2, <1>4, <2>1, AdoptedAlone DEF Books, SlotInv
  <2>2. CASE NewSlots[l][b] \in UploadedTo(l, b)
    BY <1>2, <1>4, <2>2, UploadedAlone DEF Books, SlotInv
  <2>3. CASE NewSlots[l][b] = cache.slot_expert[l][b]
    BY <1>2, <1>4, <2>3 DEF Books, SlotInv
  <2> QED BY <2>1, <2>2, <2>3, NewSlotIs
<1> QED BY <1>1, <1>3, <1>4

LEMMA PublishedTable ==
    ASSUME Types, Books, Published
    PROVE  TableInv'
<1> SUFFICES ASSUME NEW x \in Experts, NewTable[x] # None
             PROVE  NewSlots[LayerOf[x]][NewTable[x]] = x
  BY DEF Published, TableInv
<1> DEFINE l == LayerOf[x]
           b == NewTable[x]
<1>1. l \in Layers /\ b \in Blocks
  BY PublishTypes, Basics DEF Slots
<1>2. /\ x \notin cache.adopt_victims \/ x \in cache.adopt_full
      /\ b = NewBlock(x, cache.table[x])
  BY DEF NewTable
<1> HIDE DEF l, b
<1>3. CASE x \in cache.adopt_full
  <2>1. b = cache.adopt_slot[x]
    BY <1>2, <1>3 DEF NewBlock
  <2>2. x \in AdoptedTo(l, b)
    BY <1>3, <2>1 DEF AdoptedTo, l
  <2>3. NewSlots[l][b] = x
    BY <1>1, <2>2, AdoptedAlone, NewSlotIs
  <2> QED BY <2>3 DEF l, b
<1>4. CASE x \notin cache.adopt_full /\ Uploads(x) # {}
  <2>1. b \in Uploads(x)
    BY <1>2, <1>4, OneIs DEF NewBlock
  <2>2. x \in UploadedTo(l, b)
    BY <2>1 DEF UploadedTo, l
  <2>3. AdoptedTo(l, b) = {}
    <3>1. ASSUME NEW y \in AdoptedTo(l, b) PROVE FALSE
      <4>1. y \in Experts /\ cache.adopt_slot[y] = b
        BY DEF Types, CacheRec, AdoptedTo
      <4> QED BY <1>1, <2>2, <4>1, UploadedAlone
    <3> QED BY <3>1
  <2>4. NewSlots[l][b] = x
    BY <1>1, <2>2, <2>3, UploadedAlone, NewSlotIs
  <2> QED BY <2>4 DEF l, b
<1>5. CASE x \notin cache.adopt_full /\ Uploads(x) = {}
  <2>1. b = cache.table[x] /\ x \notin cache.adopt_victims
    BY <1>2, <1>5, OneIs DEF NewBlock
  <2>2. cache.slot_expert[l][b] = x /\ x # None
    BY <1>1, <2>1, Basics DEF Books, TableInv, l
  <2>3. ~cache.in_flight[l][b]
    BY <1>1, <2>2 DEF Books, SlotInv
  <2>4. AdoptedTo(l, b) = {} /\ UploadedTo(l, b) = {}
    BY <1>1, <2>3, AdoptedAlone, UploadedAlone
  <2>5. NewSlots[l][b] = x
    BY <1>1, <2>2, <2>4, NewSlotIs
  <2> QED BY <2>5 DEF l, b
<1> QED BY <1>3, <1>4, <1>5

LEMMA PublishedQueue ==
    ASSUME Types, Books, Published
    PROVE  JobInv' /\ WorkerInv' /\ AdoptInv'
<1>1. ASSUME NEW j \in JobSet, Pending(j), \A i \in jobs.done : Apart(i, j),
             \A x \in Experts : cache.adopt_slot[x] # None => j.slot # cache.adopt_slot[x]
      PROVE  NewFlight[LayerOf[j.expert]][j.slot] /\ NewQueued[j.expert]
  <2>1. j.expert \in Experts /\ j.slot \in Blocks /\ LayerOf[j.expert] \in Layers
    BY Basics DEF JobSet
  <2> QED BY <1>1, <2>1 DEF NewFlight, NewQueued, Pending, Apart
<1>2. Busy' = Busy
  BY DEF Published, Busy
<1>3. \A j \in jobs.todo : NewFlight[LayerOf[j.expert]][j.slot] /\ NewQueued[j.expert]
  <2> SUFFICES ASSUME NEW j \in jobs.todo PROVE NewFlight[LayerOf[j.expert]][j.slot] /\ NewQueued[j.expert]
    OBVIOUS
  <2>1. j \in JobSet /\ Pending(j) /\ \A i \in jobs.done : i # j
    BY DEF Types, Books, JobInv
  <2>2. \A i \in jobs.done : Apart(i, j)
    BY <2>1 DEF Books, JobInv
  <2>3. \A x \in Experts : cache.adopt_slot[x] # None => j.slot # cache.adopt_slot[x]
    BY DEF Books, AdoptInv
  <2> QED BY <1>1, <2>1, <2>2, <2>3
<1>4. \A w \in Busy : NewFlight[LayerOf[worker[w].job.expert]][worker[w].job.slot] /\ NewQueued[worker[w].job.expert]
  <2> SUFFICES ASSUME NEW w \in Busy
               PROVE NewFlight[LayerOf[worker[w].job.expert]][worker[w].job.slot] /\ NewQueued[worker[w].job.expert]
    OBVIOUS
  <2>1. worker[w].job \in JobSet /\ Pending(worker[w].job) /\ \A i \in jobs.done : Apart(i, worker[w].job)
    BY BusyJob DEF Books, WorkerInv, Apart
  <2>2. \A x \in Experts : cache.adopt_slot[x] # None => worker[w].job.slot # cache.adopt_slot[x]
    BY DEF Books, AdoptInv
  <2> QED BY <1>1, <2>1, <2>2
<1>5. JobInv'
  BY <1>3 DEF Published, Books, JobInv, Pending
<1>6. WorkerInv'
  BY <1>2, <1>4 DEF Published, Books, WorkerInv, Pending
<1>7. AdoptInv'
  BY DEF Published, AdoptInv
<1> QED BY <1>5, <1>6, <1>7

LEMMA StarvedStepKeeps ==
    ASSUME IInv, main.pc = "next", main' = [main EXCEPT !.pc = "idle"],
           UNCHANGED <<pool, cache, jobs, worker, content, kv>>
    PROVE  IInv'
<1>1. main \in MainRec
  BY DEF IInv, Types
<1>2. main' \in MainRec /\ main'.pc = "idle"
  BY <1>1 DEF MainRec, MainPcs
<1>3. /\ Types' /\ FreeIsExact' /\ SlotInv' /\ DroppedInv'
      /\ JobInv' /\ WorkerInv' /\ AdoptInv' /\ TableInv'
  BY <1>1, <1>2, PlanFrame DEF IInv, Types
<1>4. ZoneInv' /\ KvInv'
  BY <1>1, <1>2, StillFrame, Basics DEF IInv, Announced, Moving, Types, KvRec
<1>5. LendInv' /\ CallInv'
  BY <1>1, <1>2 DEF IInv, LendInv, CallInv, Building, Announced, Moving
<1>6. CoverInv'
  BY <1>1, <1>2 DEF IInv, CoverInv, Fits, kv_tail_cap, InCall, Height, Building, Announced, Moving
<1> QED BY <1>3, <1>4, <1>5, <1>6 DEF IInv

LEMMA StepKeeps ==
    ASSUME IInv, Step
    PROVE  IInv'
<1>1. CASE pool.starved
  BY <1>1, StarvedStepKeeps DEF Step
<1>2. CASE ~pool.starved
  <2>1. /\ Types /\ Books /\ pool \in PoolRec /\ cache \in CacheRec /\ main \in MainRec
        /\ main.pc = "next" /\ cache' = Publish(cache) /\ jobs' = [jobs EXCEPT !.done = {}]
        /\ pool' = [alias_release(ToFree(pool, Unadopted)) EXCEPT !.gave_back = FALSE]
        /\ UNCHANGED <<worker, content, kv>>
    BY <1>2 DEF IInv, Books, Types, Step
  <2>2. main' \in MainRec /\ main'.pc \in {"reheat", "sched"}
    <3>1. \E p \in {"reheat", "sched"} : main' = [main EXCEPT !.pc = p]
      BY <1>2 DEF Step
    <3> QED BY <2>1, <3>1 DEF MainRec, MainPcs
  <2>3. Unadopted \in SUBSET Blocks /\ Returned \in SUBSET Blocks
    <3>1. pool.want \in 0 .. NBlocks /\ pool.blocked \in 0 .. NBlocks /\ NBlocks \in Nat
      BY <2>1, Basics DEF PoolRec
    <3> QED BY <3>1 DEF Unadopted, Returned, Span, Blocks
  <2> DEFINE p1 == ToFree(pool, Unadopted)
             p2 == ToFree(p1, Returned)
             bl == Min({p1.blocked, pool.want})
  <2>4. /\ p1 \in PoolRec /\ p1.blocked = pool.blocked /\ p1.want = pool.want
        /\ \A b \in Blocks : /\ p1.owner[b] = IF b \in Unadopted THEN Free ELSE pool.owner[b]
                             /\ p1.free[b] = IF b \in Unadopted THEN pool.free[b] + 1 ELSE pool.free[b]
    BY <2>1, <2>3, ToFreeIs
  <2> HIDE DEF p1
  <2>5. /\ p2 \in PoolRec /\ p2.blocked = pool.blocked /\ p2.want = pool.want
        /\ \A b \in Blocks : /\ p2.owner[b] = IF b \in Returned THEN Free ELSE p1.owner[b]
                             /\ p2.free[b] = IF b \in Returned THEN p1.free[b] + 1 ELSE p1.free[b]
    BY <2>3, <2>4, ToFreeIs
  <2>6. pool' = [[p2 EXCEPT !.blocked = Min({p2.blocked, pool.want})] EXCEPT !.gave_back = FALSE]
    BY <2>1 DEF alias_release, p1
  <2> HIDE DEF p2
  <2>7. bl \in 0 .. NBlocks /\ bl = IF pool.blocked <= pool.want THEN pool.blocked ELSE pool.want
    <3>1. pool.want \in 0 .. NBlocks /\ pool.blocked \in 0 .. NBlocks /\ NBlocks \in Nat
      BY <2>1, Basics DEF PoolRec
    <3> QED BY <2>4, <3>1, MinPair
  <2>8. pool' = [[p2 EXCEPT !.blocked = bl] EXCEPT !.gave_back = FALSE]
    BY <2>4, <2>5, <2>6
  <2> HIDE DEF bl
  <2>9. /\ pool' \in PoolRec /\ pool'.owner = p2.owner /\ pool'.free = p2.free
        /\ pool'.blocked = bl /\ pool'.want = pool.want
    BY <2>5, <2>7, <2>8 DEF PoolRec
  <2>10. \A b \in Returned : b \notin Unadopted /\ pool.owner[b] = Lent
    BY <2>1, UnadoptedIs, Basics DEF Returned
  <2>11. \A b \in Unadopted : pool.owner[b] \in Layers
    BY <2>1, UnadoptedIs
  <2>12. \A b \in Blocks :
           /\ pool'.owner[b] = IF b \in Unadopted \cup Returned THEN Free ELSE pool.owner[b]
           /\ pool'.free[b] = IF b \in Unadopted \cup Returned THEN pool.free[b] + 1 ELSE pool.free[b]
    BY <2>4, <2>5, <2>9, <2>10
  <2>13. Published
    <3> DEFINE ads == [x \in Experts |-> None]
    <3>1. cache' = [cache EXCEPT !.slot_expert = NewSlots, !.expert_slot = NewPlaces,
                                 !.table = NewTable, !.in_flight = NewFlight,
                                 !.queued = NewQueued, !.adopt_slot = ads,
                                 !.adopt_full = {}, !.adopt_victims = {}]
      BY <2>1, PublishIs
    <3>2. ads \in [Experts -> Slots] /\ \A x \in Experts : ads[x] = None
      BY DEF Slots
    <3> HIDE DEF ads
    <3>3. /\ cache' \in CacheRec
          /\ cache'.slot_expert = NewSlots /\ cache'.table = NewTable
          /\ cache'.in_flight = NewFlight /\ cache'.queued = NewQueued
          /\ cache'.adopt_slot = ads /\ cache'.adopt_full = {} /\ cache'.adopt_victims = {}
      BY <2>1, <3>1, <3>2, PublishTypes DEF CacheRec
    <3>4. jobs'.todo = jobs.todo /\ jobs'.done = {}
      BY <2>1 DEF Types
    <3> QED BY <2>1, <2>12, <3>2, <3>3, <3>4 DEF Published
  <2>14. Books'
    BY <2>1, <2>13, PublishedSlots, PublishedTable, PublishedQueue DEF Books
  <2>15. Types'
    <3>1. jobs' \in [todo : SUBSET JobSet, done : SUBSET JobSet]
      BY <2>1 DEF Types
    <3> QED BY <2>1, <2>2, <2>9, <2>13, <3>1 DEF Types, Published
  <2>16. FreeIsExact' /\ DroppedInv'
    BY <2>2, <2>10, <2>11, <2>12, Basics DEF IInv, FreeIsExact, DroppedInv
  <2>17. ZoneInv'
    <3>1. ZoneBlocks' = OldZone /\ ZoneBlocks = OldZone
      BY <2>1, <2>2 DEF ZoneBlocks, OldZone
    <3>2. \A b \in Blocks : pool'.owner[b] = Zone <=> pool.owner[b] = Zone
      BY <2>10, <2>11, <2>12, Basics
    <3> QED BY <2>1, <2>2, <3>1, <3>2 DEF IInv, ZoneInv, Announced, Moving
  <2>18. LendInv'
    <3>1. /\ pool.want \in 0 .. NBlocks /\ pool.blocked \in 0 .. NBlocks /\ NBlocks \in Nat
          /\ kv.start \in 0 .. NBlocks
      BY <2>1, Basics DEF Types, PoolRec, KvRec
    <3>2. ASSUME NEW b \in Blocks PROVE pool'.owner[b] = Lent <=> b < bl
      <4>1. b \in Nat /\ (pool.owner[b] = Lent <=> b < pool.blocked)
        BY Basics DEF IInv, LendInv
      <4>2. b \in Returned <=> pool.want <= b /\ b < pool.blocked
        BY <3>1, <4>1 DEF Returned, Span
      <4>3. b \in Unadopted => pool.owner[b] # Lent
        BY <2>11, Basics
      <4> QED BY <2>7, <2>12, <3>1, <4>1, <4>2, <4>3, Basics
    <3>3. bl <= kv.start /\ bl <= pool.want
      BY <2>1, <2>7, <3>1 DEF IInv, LendInv, Moving
    <3> QED BY <2>1, <2>2, <2>9, <3>2, <3>3 DEF LendInv, Moving
  <2>19. KvInv' /\ CallInv'
    BY <2>1, <2>2 DEF IInv, KvInv, CallInv, Building, Announced, Moving
  <2>20. CoverInv'
    BY <2>1, <2>2 DEF IInv, CoverInv, Fits, kv_tail_cap, InCall, Height, Building, Announced, Moving
  <2> QED BY <2>14, <2>15, <2>16, <2>17, <2>18, <2>19, <2>20 DEF IInv, Books
<1> QED BY <1>1, <1>2

-----------------------------------------------------------------------------
(* The specification. *)

LEMMA InitHolds ==
    ASSUME Init
    PROVE  IInv
<1>1. /\ NBlocks \in Nat /\ 0 \in 0 .. NBlocks /\ 0 \in 0 .. MaxCells
      /\ (CHOOSE k \in Passes : TRUE) \in Passes
  BY Basics, BlocksAssumption
<1>2. pool \in PoolRec
  BY <1>1 DEF Init, PoolRec, Owners
<1>3. cache \in CacheRec
  <2> DEFINE inf == [l \in Layers |-> [b \in Blocks |-> FALSE]]
             que == [x \in Experts |-> FALSE]
             sl == [l \in Layers |-> [b \in Blocks |-> None]]
             no == [x \in Experts |-> None]
  <2>1. inf \in [Layers -> [Blocks -> BOOLEAN]] /\ que \in [Experts -> BOOLEAN]
    BY Zenon
  <2>2. sl \in [Layers -> [Blocks -> Experts \cup {None}]] /\ no \in [Experts -> Slots]
    BY DEF Slots
  <2>3. cache = [slot_expert |-> sl, expert_slot |-> no, table |-> no, in_flight |-> inf,
                 queued |-> que, adopt_slot |-> no, adopt_full |-> {}, adopt_victims |-> {}]
    BY DEF Init
  <2> HIDE DEF inf, que, sl, no
  <2> QED BY <2>1, <2>2, <2>3 DEF CacheRec
<1>4. kv \in KvRec
  BY <1>1 DEF Init, KvRec
<1>5. main \in MainRec
  BY <1>1 DEF Init, MainRec, MainPcs
<1>6. Types
  BY <1>2, <1>3, <1>4, <1>5 DEF Init, Types, WorkerRec, Contents
<1>7. Busy = {}
  BY DEF Init, Busy
<1>8. FreeIsExact /\ SlotInv /\ DroppedInv /\ JobInv /\ WorkerInv /\ AdoptInv /\ TableInv
  BY <1>7 DEF Init, FreeIsExact, SlotInv, DroppedInv, JobInv, WorkerInv, AdoptInv, TableInv
<1>9. ZoneInv
  <2>1. ZoneBlocks = {}
    BY DEF Init, ZoneBlocks, OldZone, Span
  <2> QED BY <1>1, <2>1, Basics DEF Init, ZoneInv, Announced, Moving
<1>10. LendInv
  BY Basics DEF Init, LendInv, Moving
<1>11. KvInv /\ CallInv
  BY DEF Init, KvInv, CallInv, Announced, Moving, Building
<1>12. CoverInv
  BY Basics DEF Init, CoverInv, InCall, Building, Announced, Moving
<1> QED BY <1>6, <1>8, <1>9, <1>10, <1>11, <1>12 DEF IInv

LEMMA NextKeeps ==
    ASSUME IInv, [Next]_vars
    PROVE  IInv'
<1>1. CASE Truncate \/ Call
  BY <1>1, TruncateKeeps, CallKeeps
<1>2. CASE MoveWait \/ TakeDrop \/ ZoneTake \/ MoveBytes \/ ZoneGive \/ MoveEnd
  BY <1>2, MoveWaitKeeps, TakeDropKeeps, ZoneTakeKeeps, MoveBytesKeeps, ZoneGiveKeeps, MoveEndKeeps
<1>3. CASE FindSlots \/ (\E k \in Passes : Pass(k)) \/ Refuse \/ MoveBehind \/ Alias
  BY <1>3, FindSlotsKeeps, PassKeeps, RefuseKeeps, MoveBehindKeeps, AliasKeeps
<1>4. CASE LendDrop \/ Lend \/ AssertFails \/ Launch \/ Computed
  BY <1>4, LendDropKeeps, LendKeeps, AssertFailsKeeps, LaunchKeeps, ComputedKeeps
<1>5. CASE Step \/ ReheatEnd \/ StepEnd \/ KeepHot
  BY <1>5, StepKeeps, EndsKeep, KeepHotKeeps
<1>6. CASE \E x \in Experts : Adopt(x) \/ AdoptRest(x) \/ Reheat(x) \/ Admit(x)
  BY <1>6, AdoptKeeps, AdoptRestKeeps, ClaimsKeep
<1>7. CASE \E w \in Workers : Worker(w)
  BY <1>7, WorkerKeeps
<1>8. CASE UNCHANGED vars
  BY <1>8 DEF vars, IInv, Types, FreeIsExact, ZoneInv, ZoneBlocks, OldZone, NewZone, LendInv, SlotInv,
              DroppedInv, Taken, ToLend, JobInv, WorkerInv, Busy, Pending, AdoptInv, TableInv, KvInv,
              CallInv, CoverInv, Fits, kv_tail_cap, InCall, Height
<1> QED BY <1>1, <1>2, <1>3, <1>4, <1>5, <1>6, <1>7, <1>8 DEF Next, Continue

\* The books of the expert pool stay consistent, whatever the decode thread and the upload
\* workers do: IInv holds initially and every handler keeps it.
THEOREM ExpertInductive == Spec => []IInv
<1>1. Init => IInv
  BY InitHolds
<1>2. IInv /\ [Next]_vars => IInv'
  BY NextKeeps
<1> QED BY <1>1, <1>2, PTL DEF Spec

\* Every block is on the free stack exactly once while it is free and never otherwise, and after
\* a step no block is lent above what the last graph needed.
THEOREM ExpertLedger == Spec => []LedgerOK
<1>1. IInv => LedgerOK
  <2> SUFFICES ASSUME IInv PROVE LedgerOK
    OBVIOUS
  <2>1. TypeOK
    <3>1. pool \in PoolRec /\ cache \in CacheRec /\ kv \in KvRec
      BY DEF IInv, Types
    <3>2. \A w \in Busy : worker[w].job \in JobSet
      BY BusyJob DEF IInv
    <3>3. /\ pool.owner \in [Blocks -> Layers \cup {Free, Lent, Zone}]
          /\ pool.free \in [Blocks -> Nat]
          /\ pool.blocked \in 0 .. NBlocks /\ pool.want \in 0 .. NBlocks
          /\ pool.starved \in BOOLEAN /\ pool.gave_back \in BOOLEAN
      BY <3>1 DEF PoolRec, Owners
    <3>4. /\ cache.slot_expert \in [Layers -> [Blocks -> Experts \cup {None}]]
          /\ cache.expert_slot \in [Experts -> Blocks \cup {None}]
          /\ cache.table \in [Experts -> Blocks \cup {None}]
          /\ cache.in_flight \in [Layers -> [Blocks -> BOOLEAN]]
          /\ cache.queued \in [Experts -> BOOLEAN]
          /\ cache.adopt_slot \in [Experts -> Blocks \cup {None}]
          /\ cache.adopt_full \subseteq Experts /\ cache.adopt_victims \subseteq Experts
      BY <3>1 DEF CacheRec, Slots
    <3>5. /\ kv.start \in 0 .. NBlocks /\ kv.h \in 0 .. NBlocks /\ kv.cells \in 0 .. MaxCells
          /\ kv.moving \subseteq Blocks
      BY <3>1 DEF KvRec
    <3>6. jobs.todo \subseteq JobSet /\ jobs.done \subseteq JobSet
      BY DEF IInv, Types
    <3>7. content \in [Blocks -> Experts \cup (0 .. MaxCells) \cup {Junk, Graph}]
      BY DEF IInv, Types, Contents
    <3> QED BY <3>2, <3>3, <3>4, <3>5, <3>6, <3>7, Zenon DEF TypeOK
  <2>2. LendReturned
    <3> SUFFICES ASSUME main.pc \in {"reheat", "sched"}, NEW b \in Span(pool.want, NBlocks)
                 PROVE  pool.owner[b] # Lent
      BY DEF LendReturned
    <3>1. pool.want \in 0 .. NBlocks /\ pool.blocked \in 0 .. NBlocks /\ NBlocks \in Nat
      BY Basics DEF IInv, Types, PoolRec
    <3>2. b \in Blocks /\ pool.want <= b /\ b \in Nat
      BY <3>1 DEF Span, Blocks
    <3> QED BY <3>1, <3>2 DEF IInv, LendInv
  <2> QED BY <2>1, <2>2 DEF IInv, LedgerOK
<1> QED BY <1>1, ExpertInductive, PTL

\* A layer has an expert in a block, or an upload pending into it, only if it owns the block,
\* and the expert it believes in is what the bytes are.
THEOREM ExpertSlots == Spec => []SlotsAreTrue
<1>1. IInv => SlotsAreTrue
  BY DEF IInv, SlotInv, SlotsAreTrue
<1> QED BY <1>1, ExpertInductive, PTL

\* A decode graph that runs finds each expert in the block the table names.
THEOREM ExpertTable == Spec => []TableIsTrue
<1>1. IInv => TableIsTrue
  <2> SUFFICES ASSUME IInv, NEW x \in Experts \ cache.adopt_victims, cache.table[x] # None
               PROVE  content[cache.table[x]] = x
    BY DEF TableIsTrue
  <2>1. cache.table[x] \in Blocks /\ LayerOf[x] \in Layers /\ x # None
    BY Basics DEF IInv, Types, CacheRec, Slots
  <2>2. cache.slot_expert[LayerOf[x]][cache.table[x]] = x
    BY DEF IInv, TableInv
  <2> QED BY <2>1, <2>2 DEF IInv, SlotInv
<1> QED BY <1>1, ExpertInductive, PTL

\* The rows of the KV are in their place whenever the zone is not being moved.
THEOREM ExpertKv == Spec => []KvIntact
<1>1. IInv => KvIntact
  BY DEF IInv, KvInv, KvIntact
<1> QED BY <1>1, ExpertInductive, PTL

\* While a graph runs every block of its lend is its own.
THEOREM ExpertLend == Spec => []LendIsOwned
<1>1. IInv => LendIsOwned
  <2> SUFFICES ASSUME IInv, main.pc = "compute", NEW b \in Span(0, pool.want)
               PROVE  pool.owner[b] = Lent /\ content[b] = Graph
    BY DEF LendIsOwned
  <2>1. pool.want \in 0 .. NBlocks /\ pool.blocked \in 0 .. NBlocks /\ NBlocks \in Nat
    BY Basics DEF IInv, Types, PoolRec
  <2>2. b \in Blocks /\ b < pool.want /\ b < pool.blocked
    BY <2>1 DEF IInv, LendInv, Span, Blocks
  <2> QED BY <2>2 DEF IInv, LendInv
<1> QED BY <1>1, ExpertInductive, PTL

\* In every pool, tight or not: when a pass is launched the zone covers the cell it writes, if
\* the cap as it then stands admits the cell.  The assertion of set_input_k_idxs can end the
\* process only for a cell that a longer lend of the decode graph has put beyond the cap.
THEOREM ExpertCovered == Spec => []CellCovered
<1>1. IInv => CellCovered
  BY DEF IInv, CoverInv, Fits, InCall, Height, Building, Announced, Moving, CellCovered
<1> QED BY <1>1, ExpertInductive, PTL

=============================================================================
