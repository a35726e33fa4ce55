------------------------------ MODULE ExpertPool ------------------------------
(***************************************************************************)
(* The expert pool of one card: one buffer cut into blocks that three      *)
(* users share.  Each block caches one expert of some layer, or is lent to *)
(* the compute graph (the blocks at the start), or lies under the KV zone. *)
(* The decode thread runs requests: it lays the zone out, lends blocks to  *)
(* each pass's graph, computes, and at the end of a call publishes the     *)
(* uploads that finished and schedules new ones.  Upload workers copy      *)
(* experts into blocks at the same time.                                   *)
(*                                                                         *)
(* Sizes are counted in whole blocks of one class (the code rounds every   *)
(* edge to one); a cell of the KV is the rows that fill one block.  Scores *)
(* are left out: every choice they could make is allowed.  The graph is    *)
(* done when its call goes on: the code synchronizes before every change   *)
(* of the blocks it uses.                                                  *)
(***************************************************************************)
EXTENDS Integers, FiniteSets, FiniteSetsExt

CONSTANTS NBlocks,   \* blocks of the pool
          Layers,    \* layers that share the size class
          Experts,   \* experts of all the layers
          LayerOf,   \* the layer of an expert
          Workers,   \* upload workers
          MaxCells,  \* the most cells the zone may hold
          Need,      \* blocks the graph of a pass borrows, by the pass's size
          SmallPasses, \* sizes that use the cache's tables (decode)
          Adopts     \* prompt passes keep staged experts (GGML_PF_COUNT)

VARIABLES pool,     \* the owner ledger: owner, free stack, lent prefix, flags
          cache,    \* what the layers believe: slots, tables, adoptions
          jobs,     \* the upload queue: todo and done
          worker,   \* what each worker does
          content,  \* what the bytes of each block are
          kv,       \* the zone: h, start, rows written, range being moved
          main      \* the decode thread

vars == <<pool, cache, jobs, worker, content, kv, main>>

Blocks == 0 .. NBlocks - 1
Passes == DOMAIN Need

None == -1            \* no block, no expert
Free == -1            \* owners that are no layer
Lent == -2
Zone == -3
Junk == -1            \* contents that are neither an expert nor a KV row
Graph == -2

ASSUME BlocksAssumption ==
    /\ NBlocks \in Nat \ {0}
    /\ Layers \cap {Free, Lent, Zone} = {}
    /\ None \notin Experts
    /\ LayerOf \in [Experts -> Layers]
    /\ Need \in [Passes -> 1 .. NBlocks]
    /\ SmallPasses \subseteq Passes /\ SmallPasses # {}
    /\ MaxCells \in 1 .. NBlocks

Span(lo, hi) == lo .. hi - 1
NewZone == Span(main.l, main.l + main.h)

-----------------------------------------------------------------------------
(* The cache's bookkeeping                                                 *)

\* the bug: the table keeps the entry
Bug_evict_slot(c, l, b) ==
    LET v == c.slot_expert[l][b]
    IN  IF v = None THEN c
        ELSE [c EXCEPT !.slot_expert[l][b] = None, !.expert_slot[v] = None]

\* evict the expert layer l caches in block b: its table entry goes back now
evict_slot(c, l, b) ==
    LET v == c.slot_expert[l][b]
    IN  IF v = None THEN c
        ELSE [c EXCEPT !.slot_expert[l][b] = None,
                       !.expert_slot[v] = None,
                       !.table[v] = None]

\* evict whatever the blocks of R cache for the layers that own them
EvictAll(c, p, R) ==
    LET gone == {x \in Experts : \E b \in R : p.owner[b] = LayerOf[x] /\ c.slot_expert[LayerOf[x]][b] = x}
    IN  [c EXCEPT !.slot_expert = [l \in Layers |-> [b \in Blocks |->
                      IF b \in R /\ p.owner[b] = l THEN None ELSE c.slot_expert[l][b]]],
                  !.expert_slot = [x \in Experts |-> IF x \in gone THEN None ELSE c.expert_slot[x]],
                  !.table = [x \in Experts |-> IF x \in gone THEN None ELSE c.table[x]]]

\* the bug: the block stays on the free stack
Bug_pool_take(p, l, b) == [p EXCEPT !.owner[b] = l]

\* block b now belongs to layer l
pool_take(p, l, b) ==
    [p EXCEPT !.owner[b] = l,
              !.free[b] = IF p.owner[b] \notin Layers /\ @ > 0 THEN @ - 1 ELSE @]

\* the blocks of R go to the free stack
ToFree(p, R) ==
    [p EXCEPT !.owner = [b \in Blocks |-> IF b \in R THEN Free ELSE p.owner[b]],
              !.free = [b \in Blocks |-> IF b \in R THEN p.free[b] + 1 ELSE p.free[b]]]

FreeBlocks(p) == {b \in Blocks : p.free[b] > 0 /\ p.owner[b] = Free}
EmptyBlocks(p, c) ==
    {b \in Blocks : \/ p.owner[b] = Free
                    \/ \E l \in Layers : /\ p.owner[b] = l
                                         /\ ~c.in_flight[l][b]
                                         /\ c.slot_expert[l][b] = None}
CachedBlocks(p, c) ==
    {b \in Blocks : \E l \in Layers : /\ p.owner[b] = l
                                      /\ ~c.in_flight[l][b]
                                      /\ c.slot_expert[l][b] # None}

\* the blocks an expert may take: the highest free one, else the first empty
\* one, else one whose cached expert may be evicted
pick_slot(p, c, evict) ==
    IF FreeBlocks(p) # {} THEN {Max(FreeBlocks(p))}
    ELSE IF EmptyBlocks(p, c) # {} THEN {Min(EmptyBlocks(p, c))}
    ELSE IF evict THEN CachedBlocks(p, c) ELSE {}

\* expert x takes block b, its upload is pending
Claim(x, b) ==
    LET o == pool.owner[b]
        c == IF o \in Layers THEN evict_slot(cache, o, b) ELSE cache
    IN  /\ cache' = [c EXCEPT !.in_flight[LayerOf[x]][b] = TRUE, !.queued[x] = TRUE]
        /\ pool' = pool_take(pool, LayerOf[x], b)

-----------------------------------------------------------------------------
(* Upload workers                                                          *)

Job(x, b, bg) == [expert |-> x, slot |-> b, bg |-> bg, skipped |-> FALSE]

Busy == {w \in Workers : worker[w].pc # "idle"}

\* a background job is taken only when no other waits
Pop(w) ==
    /\ worker[w].pc = "idle"
    /\ \E j \in jobs.todo :
         /\ j.bg => \A i \in jobs.todo : i.bg
         /\ jobs' = [jobs EXCEPT !.todo = @ \ {j}]
         /\ worker' = [worker EXCEPT ![w] = [pc |-> "gate", job |-> j]]
    /\ UNCHANGED <<pool, cache, content, kv, main>>

\* the bug: a failed or refused upload is pushed like any other
Bug_Finished(w, ok) ==
    /\ jobs' = [jobs EXCEPT !.done = @ \cup {worker[w].job}]
    /\ worker' = [worker EXCEPT ![w] = [pc |-> "idle"]]

Finished(w, ok) ==
    /\ jobs' = [jobs EXCEPT !.done = @ \cup {[worker[w].job EXCEPT !.skipped = ~ok]}]
    /\ worker' = [worker EXCEPT ![w] = [pc |-> "idle"]]

\* the gate reads the zone's two fields with no lock
Gate(w) ==
    /\ worker[w].pc = "gate"
    /\ IF worker[w].job.slot \in Span(kv.start, kv.start + kv.h)
       THEN Finished(w, FALSE)
       ELSE /\ worker' = [worker EXCEPT ![w].pc = "enter"]
            /\ jobs' = jobs
    /\ UNCHANGED <<pool, cache, content, kv, main>>

\* the bug: the worker waits for the move to end
Bug_TryEnter(w) ==
    /\ worker[w].pc = "enter"
    /\ worker[w].job.slot \notin kv.moving
    /\ worker' = [worker EXCEPT ![w].pc = "copy"]
    /\ content' = [content EXCEPT ![worker[w].job.slot] = Junk]
    /\ UNCHANGED <<pool, cache, jobs, kv, main>>

\* a worker never waits for a move: inside its range the job is skipped
TryEnter(w) ==
    /\ worker[w].pc = "enter"
    /\ IF worker[w].job.slot \in kv.moving
       THEN Finished(w, FALSE) /\ content' = content
       ELSE /\ worker' = [worker EXCEPT ![w].pc = "copy"]
            /\ content' = [content EXCEPT ![worker[w].job.slot] = Junk]
            /\ jobs' = jobs
    /\ UNCHANGED <<pool, cache, kv, main>>

\* the copy ends (or a tensor could not be read) and the worker leaves the range
Leave(w) ==
    /\ worker[w].pc = "copy"
    /\ \E ok \in BOOLEAN :
         /\ worker' = [worker EXCEPT ![w].pc = IF ok THEN "copied" ELSE "failed"]
         /\ content' = IF ok THEN [content EXCEPT ![worker[w].job.slot] = worker[w].job.expert]
                       ELSE content
    /\ UNCHANGED <<pool, cache, jobs, kv, main>>

Push(w) ==
    /\ worker[w].pc \in {"copied", "failed"}
    /\ Finished(w, worker[w].pc = "copied")
    /\ UNCHANGED <<pool, cache, content, kv, main>>

Worker(w) == Pop(w) \/ Gate(w) \/ TryEnter(w) \/ Leave(w) \/ Push(w)

\* blocks a worker has entered
InUse == {worker[w].job.slot : w \in {v \in Workers : worker[v].pc = "copy"}}

-----------------------------------------------------------------------------
(* Where the zone goes                                                     *)

\* what a graph of this size borrowed before (need_tok), 0 if none ran
Known(k) == IF k \in kv.seen THEN Need[k] ELSE 0

\* the start nearest to want of a zone of h blocks behind lo_min
kvz_gap_place(lo_min, want, h) ==
    IF NBlocks < lo_min + h THEN want ELSE Min({Max({want, lo_min}), NBlocks - h})

\* kv_layout: the extent it decides on; h = 0 when it refuses
Layout(h, l, lend_min, eff) ==
    LET lo_min == Min({l, lend_min})
        h_pool == NBlocks - lo_min
        hh == Min({Max({h, Min({eff, h_pool})}), h_pool})
    IN  IF h_pool < eff THEN [h |-> kv.h, l |-> kv.start]
        ELSE [h |-> hh, l |-> kvz_gap_place(lo_min, l, hh)]

\* kv_tail_plan: room for eff cells, behind the lend a pass of size k needed
kv_tail_plan(eff, shrink, nb) ==
    LET h1 == Max({eff, IF shrink \/ kv.h = 0 THEN 1 ELSE kv.h})
        lr1 == Max({kv.start, nb})
        lr == IF NBlocks <= lr1 + eff /\ NBlocks > eff + kv.dec_need
              THEN Min({lr1, Max({kv.dec_need, NBlocks - eff})}) ELSE lr1
    IN  Layout(Min({h1, MaxCells, NBlocks - lr}), lr, Max({kv.dec_need, nb}), eff)

\* lay the zone out at z and go on at pc: announce the move of both ranges,
\* which holds new uploads back, or go on at once if the zone lies there
LayOut(m, z, pc, rows) ==
    IF z = [h |-> kv.h, l |-> kv.start]
    THEN main' = [m EXCEPT !.pc = pc] /\ kv' = kv
    ELSE /\ main' = [m EXCEPT !.pc = "moveWait", !.next = pc, !.h = z.h, !.l = z.l, !.rows = rows]
         /\ kv' = [kv EXCEPT !.moving =
                Span(Min({z.l, kv.start}), Max({z.l + z.h, kv.start + kv.h}))]

-----------------------------------------------------------------------------
(* Taking blocks from the experts                                          *)

\* the adoption under way into a block
Adoption(b) == {x \in Experts : pool.owner[b] = LayerOf[x] /\ cache.adopt_slot[x] = b}

\* the bug: a running upload is not awaited
Bug_Awaited(pending) == {}

\* blocks a worker copies into right now: the taker looks again later
Awaited(pending) == {b \in pending : Adoption(b) = {}}

\* one look at the blocks of R: queued and finished uploads into them are
\* dropped, adoptions cancelled up to the first block a worker copies into
DropJobs(R, next) ==
    LET dropped == {j \in jobs.todo \cup jobs.done : j.slot \in R}
        flying == [l \in Layers |-> [b \in Blocks |->
                     /\ cache.in_flight[l][b]
                     /\ ~\E j \in dropped : LayerOf[j.expert] = l /\ j.slot = b]]
        pending == {b \in R : \E l \in Layers : pool.owner[b] = l /\ flying[l][b]}
        busy == Awaited(pending)
        cancelled == {b \in pending : \A c \in busy : b < c}
        freed == UNION {Adoption(b) : b \in cancelled}
    IN  /\ jobs' = [todo |-> jobs.todo \ dropped, done |-> jobs.done \ dropped]
        /\ cache' = [cache EXCEPT
             !.in_flight = [l \in Layers |-> [b \in Blocks |->
                              flying[l][b] /\ ~(b \in cancelled /\ pool.owner[b] = l)]],
             !.queued = [x \in Experts |-> cache.queued[x] /\ ~\E j \in dropped : j.expert = x],
             !.adopt_slot = [x \in Experts |-> IF x \in freed THEN None ELSE cache.adopt_slot[x]],
             !.adopt_full = @ \ freed]
        /\ main' = [main EXCEPT !.pc = IF busy = {} THEN next ELSE @]

\* move_begin: wait until no worker copies into the range
MoveWait ==
    /\ main.pc = "moveWait"
    /\ InUse \cap kv.moving = {}
    /\ main' = [main EXCEPT !.pc = "take"]
    /\ UNCHANGED <<pool, cache, jobs, worker, content, kv>>

Taken == {b \in NewZone : pool.owner[b] # Zone}

TakeDrop ==
    /\ main.pc = "take"
    /\ DropJobs(Taken, "takeBlocks")
    /\ UNCHANGED <<pool, worker, content, kv>>

\* the bug: the lend is not cut back
Bug_ZoneTake ==
    /\ main.pc = "takeBlocks"
    /\ cache' = EvictAll(cache, pool, Taken)
    /\ pool' = [pool EXCEPT
         !.owner = [b \in Blocks |-> IF b \in Taken THEN Zone ELSE pool.owner[b]],
         !.free = [b \in Blocks |-> IF b \in Taken /\ pool.owner[b] = Free THEN 0 ELSE pool.free[b]]]
    /\ main' = [main EXCEPT !.pc = "move"]
    /\ UNCHANGED <<jobs, worker, content, kv>>

\* the zone takes its blocks: a lent one lowers the lend to below the zone
ZoneTake ==
    /\ main.pc = "takeBlocks"
    /\ cache' = EvictAll(cache, pool, Taken)
    /\ pool' = [pool EXCEPT
         !.owner = [b \in Blocks |-> IF b \in Taken THEN Zone ELSE pool.owner[b]],
         !.free = [b \in Blocks |-> IF b \in Taken /\ pool.owner[b] = Free THEN 0 ELSE pool.free[b]],
         !.blocked = Min({@} \cup {b \in Taken : pool.owner[b] = Lent})]
    /\ main' = [main EXCEPT !.pc = "move"]
    /\ UNCHANGED <<jobs, worker, content, kv>>

\* the rows in use move with the zone
MoveBytes ==
    /\ main.pc = "move"
    /\ LET n == Min({main.rows, main.h, kv.h})
       IN  content' = [b \in Blocks |-> IF b \in Span(main.l, main.l + n)
                                        THEN content[kv.start + b - main.l] ELSE content[b]]
    /\ main' = [main EXCEPT !.pc = "give"]
    /\ UNCHANGED <<pool, cache, jobs, worker, kv>>

\* the blocks the zone left go back, and its new extent is written: first kv_h
ZoneGive ==
    /\ main.pc = "give"
    /\ LET left == {b \in Blocks \ NewZone : pool.owner[b] = Zone}
       IN  pool' = [ToFree(pool, left) EXCEPT !.gave_back = @ \/ left # {}]
    /\ kv' = [kv EXCEPT !.h = main.h]
    /\ main' = [main EXCEPT !.pc = "moved"]
    /\ UNCHANGED <<cache, jobs, worker, content>>

\* then kv_start; the move ends, and the cache is starved if no block is left
MoveEnd ==
    /\ main.pc = "moved"
    /\ kv' = [kv EXCEPT !.start = main.l, !.moving = {}]
    /\ pool' = [pool EXCEPT !.starved = \A b \in Blocks : pool.owner[b] \in {Zone, Lent}]
    /\ main' = [main EXCEPT !.pc = main.next]
    /\ UNCHANGED <<cache, jobs, worker, content>>

-----------------------------------------------------------------------------
(* A call of the decode thread: its passes, then one step                  *)

\* the server removes rows: the conversation is cut to a prefix
Truncate ==
    /\ main.pc = "idle"
    /\ \E keep \in 0 .. kv.cells - 1 : kv' = [kv EXCEPT !.cells = keep]
    /\ UNCHANGED <<pool, cache, jobs, worker, content, main>>

\* a decode call plans the cells of its tokens: the zone may shrink
Call ==
    /\ main.pc = "idle"
    /\ \E n \in 1 .. MaxCells - kv.cells :
         LayOut([main EXCEPT !.plan = kv.cells + n], kv_tail_plan(kv.cells + n, TRUE, 0), "slots", kv.cells)
    /\ UNCHANGED <<pool, cache, jobs, worker, content>>

\* the cells the cache may use: a decode graph's lend stays in front of them
kv_tail_cap == NBlocks - kv.dec_need

\* the cache looks for the cells of all the call's passes: below its cap and
\* covered by the zone, or the call finds no slot
FindSlots ==
    /\ main.pc = "slots"
    /\ main' = [main EXCEPT !.pc = IF main.plan <= Min({kv.h, kv_tail_cap}) THEN "next" ELSE "idle",
                            !.last = main.plan]
    /\ UNCHANGED <<pool, cache, jobs, worker, content, kv>>

\* the bug: only the cells written so far
Bug_Eff == Max({kv.cells, 1})

\* the cells the zone is laid out for: a small pass ends the prompt's plan
Eff == Max({kv.cells + 1, main.plan})

\* a pass of size k, which writes one cell: the zone is laid out for it before
\* the graph is built.  Only the rest at the end of a call makes a smaller pass
Pass(k) ==
    /\ main.pc = "next"
    /\ kv.cells < main.last
    /\ main.plan = 0 => k \in SmallPasses
    /\ LET plan == IF k \in SmallPasses THEN 0 ELSE main.plan
       IN  LayOut([main EXCEPT !.size = k, !.plan = plan],
                  kv_tail_plan(Max({kv.cells + 1, plan}), FALSE, Known(k)), "alias", kv.cells + 1)
    /\ UNCHANGED <<pool, cache, jobs, worker, content>>

\* the graph is built and its lend known: it reaches into the zone, and the
\* zone with the cells planned does not fit behind it.  The decode call fails
Refuse ==
    /\ main.pc = "alias"
    /\ Need[main.size] > kv.start
    /\ Need[main.size] + Eff > NBlocks
    /\ kv' = [kv EXCEPT !.seen = @ \cup {main.size}]
    /\ main' = [main EXCEPT !.pc = "idle"]
    /\ UNCHANGED <<pool, cache, jobs, worker, content>>

\* or the zone moves behind it and the graph is built again
MoveBehind ==
    /\ main.pc = "alias"
    /\ LET n == Need[main.size]
       IN  /\ n > kv.start
           /\ n + Eff <= NBlocks
           /\ LayOut(main, Layout(Min({kv.h, Max({NBlocks - n, kv.cells + 1})}), n, n, Eff),
                     "alias", kv.cells + 1)
    /\ UNCHANGED <<pool, cache, jobs, worker, content>>

\* or it ends before the zone: blocks are lent if it needs more than are
Alias ==
    /\ main.pc = "alias"
    /\ LET n == Need[main.size]
       IN  /\ n <= kv.start
           /\ kv' = [kv EXCEPT !.seen = @ \cup {main.size},
                               !.dec_need = IF main.size \in SmallPasses THEN Max({@, n}) ELSE @]
           /\ pool' = [pool EXCEPT !.want = n]
           /\ main' = [main EXCEPT !.pc = IF n > pool.blocked THEN "lend" ELSE "launch", !.kept = {}]
    /\ UNCHANGED <<cache, jobs, worker, content>>

ToLend == Span(pool.blocked, Need[main.size])

LendDrop ==
    /\ main.pc = "lend"
    /\ DropJobs(ToLend, "lendBlocks")
    /\ UNCHANGED <<pool, worker, content, kv>>

\* keep-hot: before a prompt pass an expert in the lent range moves to a
\* colder block behind it, an empty one if there is one
KeepHot ==
    /\ main.pc = "lendBlocks"
    /\ main.size \notin SmallPasses
    /\ \E src \in ToLend \cap CachedBlocks(pool, cache) :
       LET cold == {b \in Span(Need[main.size], NBlocks) \ main.kept :
                      b \in EmptyBlocks(pool, cache) \cup CachedBlocks(pool, cache)}
           empty == cold \cap EmptyBlocks(pool, cache)
       IN  \E dst \in IF empty # {} THEN empty ELSE cold :
             LET l == pool.owner[src]
                 x == cache.slot_expert[l][src]
                 c == IF pool.owner[dst] \in Layers THEN evict_slot(cache, pool.owner[dst], dst) ELSE cache
             IN  /\ cache' = [c EXCEPT !.slot_expert[l][dst] = x,
                                       !.expert_slot[x] = dst,
                                       !.slot_expert[l][src] = None,
                                       !.table[x] = dst]
                 /\ pool' = pool_take(pool, l, dst)
                 /\ content' = [content EXCEPT ![dst] = content[src]]
                 /\ main' = [main EXCEPT !.kept = @ \cup {dst}]
    /\ UNCHANGED <<jobs, worker, kv>>

Lend ==
    /\ main.pc = "lendBlocks"
    /\ LET lent == {b \in ToLend : pool.owner[b] # Zone}
       IN  /\ cache' = EvictAll(cache, pool, lent)
           /\ pool' = [pool EXCEPT
                !.owner = [b \in Blocks |-> IF b \in lent THEN Lent ELSE pool.owner[b]],
                !.free = [b \in Blocks |-> IF b \in lent /\ pool.owner[b] = Free /\ pool.free[b] > 0
                                           THEN pool.free[b] - 1 ELSE pool.free[b]],
                !.blocked = Need[main.size]]
    /\ main' = [main EXCEPT !.pc = "launch"]
    /\ UNCHANGED <<jobs, worker, content, kv>>

\* the inputs are set: an assertion aborts the process if the zone does not
\* cover the cell
AssertFails ==
    /\ main.pc = "launch"
    /\ kv.cells >= kv.h
    /\ main' = [main EXCEPT !.pc = "aborted"]
    /\ UNCHANGED <<pool, cache, jobs, worker, content, kv>>

\* and the graph runs: its tensors fill the lend
Launch ==
    /\ main.pc = "launch"
    /\ kv.cells < kv.h
    /\ content' = [b \in Blocks |-> IF b < pool.want THEN Graph ELSE content[b]]
    /\ main' = [main EXCEPT !.pc = "compute"]
    /\ UNCHANGED <<pool, cache, jobs, worker, kv>>

\* a prompt pass copies the first tensor of a staged expert into a block;
\* the victim's table entry stays until the next step
Adopt(x) ==
    /\ Adopts
    /\ main.pc = "compute"
    /\ main.size \notin SmallPasses
    /\ cache.expert_slot[x] = None /\ cache.adopt_slot[x] = None
    /\ \E b \in pick_slot(pool, cache, TRUE) :
         LET l == LayerOf[x]
             o == pool.owner[b]
             v == IF o \in Layers THEN cache.slot_expert[o][b] ELSE None
             c == IF v = None THEN cache
                  ELSE [cache EXCEPT !.slot_expert[o][b] = None,
                                     !.expert_slot[v] = None,
                                     !.adopt_victims = @ \cup {v}]
         IN  /\ cache' = [c EXCEPT !.in_flight[l][b] = TRUE, !.adopt_slot[x] = b]
             /\ pool' = pool_take(pool, l, b)
             /\ content' = [content EXCEPT ![b] = Junk]
    /\ UNCHANGED <<jobs, worker, kv, main>>

\* the other tensors follow
AdoptRest(x) ==
    /\ main.pc = "compute"
    /\ main.size \notin SmallPasses
    /\ cache.adopt_slot[x] # None
    /\ x \notin cache.adopt_full
    /\ cache' = [cache EXCEPT !.adopt_full = @ \cup {x}]
    /\ content' = [content EXCEPT ![cache.adopt_slot[x]] = x]
    /\ UNCHANGED <<pool, jobs, worker, kv, main>>

\* the graph has written its KV row
Computed ==
    /\ main.pc = "compute"
    /\ content' = [content EXCEPT ![kv.start + kv.cells] = kv.cells]
    /\ kv' = [kv EXCEPT !.cells = @ + 1]
    /\ main' = [main EXCEPT !.pc = "next"]
    /\ UNCHANGED <<pool, cache, jobs, worker>>

-----------------------------------------------------------------------------
(* The step at the end of a call                                           *)

\* publish the finished uploads, then the adoptions that are complete
Publish(c) ==
    LET up == {j \in jobs.done : ~j.skipped}
        Up(x) == {j.slot : j \in {i \in up : i.expert = x}}
        In(l, b) == {x \in Experts : LayerOf[x] = l /\ b \in Up(x)}
        adopted == {x \in Experts : c.adopt_slot[x] # None}
        Ad(l, b) == {x \in c.adopt_full : LayerOf[x] = l /\ c.adopt_slot[x] = b}
        The(S, default) == IF S = {} THEN default ELSE CHOOSE s \in S : TRUE
        At(x, old) == IF x \in c.adopt_full THEN c.adopt_slot[x] ELSE The(Up(x), old)
    IN  [c EXCEPT
          !.slot_expert = [l \in Layers |-> [b \in Blocks |->
                             The(Ad(l, b), The(In(l, b), c.slot_expert[l][b]))]],
          !.expert_slot = [x \in Experts |-> At(x, c.expert_slot[x])],
          !.table = [x \in Experts |-> IF x \in c.adopt_victims \ c.adopt_full THEN None
                                       ELSE At(x, c.table[x])],
          !.in_flight = [l \in Layers |-> [b \in Blocks |->
                           /\ c.in_flight[l][b]
                           /\ ~\E j \in jobs.done : LayerOf[j.expert] = l /\ j.slot = b
                           /\ ~\E x \in adopted : LayerOf[x] = l /\ c.adopt_slot[x] = b]],
          !.queued = [x \in Experts |-> c.queued[x] /\ ~\E j \in jobs.done : j.expert = x],
          !.adopt_slot = [x \in Experts |-> None],
          !.adopt_full = {},
          !.adopt_victims = {}]

\* an incomplete adoption gives its block back
Unadopted == {b \in Blocks : \E x \in Experts \ cache.adopt_full :
                               cache.adopt_slot[x] = b /\ pool.owner[b] = LayerOf[x]}

\* lent blocks above what the last graph needed go back
Returned == {b \in Span(pool.want, pool.blocked) : pool.owner[b] = Lent}

alias_release(p) ==
    [ToFree(p, Returned) EXCEPT !.blocked = Min({@, pool.want})]

\* a starved cache does nothing; else the step waits for the uploads the
\* last one scheduled, publishes, and takes back what the graph left
Step ==
    /\ main.pc = "next"
    /\ kv.cells = main.last
    /\ IF pool.starved
       THEN main' = [main EXCEPT !.pc = "idle"] /\ UNCHANGED <<pool, cache, jobs>>
       ELSE /\ \A j \in jobs.todo : j.bg
            /\ \A w \in Busy : worker[w].job.bg
            /\ cache' = Publish(cache)
            /\ jobs' = [jobs EXCEPT !.done = {}]
            /\ pool' = [alias_release(ToFree(pool, Unadopted)) EXCEPT !.gave_back = FALSE]
            /\ main' = [main EXCEPT
                 !.pc = IF pool.gave_back \/ (Returned # {} /\ main.size \in SmallPasses)
                        THEN "reheat" ELSE "sched"]
    /\ UNCHANGED <<worker, content, kv>>

\* free blocks get the experts that are missed most, in the background
Reheat(x) ==
    /\ main.pc = "reheat"
    /\ cache.expert_slot[x] = None /\ ~cache.queued[x] /\ cache.adopt_slot[x] = None
    /\ FreeBlocks(pool) # {}
    /\ \E b \in pick_slot(pool, cache, FALSE) :
         /\ Claim(x, b)
         /\ jobs' = [jobs EXCEPT !.todo = @ \cup {Job(x, b, TRUE)}]
    /\ UNCHANGED <<worker, content, kv, main>>

ReheatEnd ==
    /\ main.pc = "reheat"
    /\ main' = [main EXCEPT !.pc = "sched"]
    /\ UNCHANGED <<pool, cache, jobs, worker, content, kv>>

\* an expert that was missed takes a block, in place of a colder one if need be
Admit(x) ==
    /\ main.pc = "sched"
    /\ cache.expert_slot[x] = None /\ ~cache.queued[x]
    /\ \E b \in pick_slot(pool, cache, TRUE) :
         /\ Claim(x, b)
         /\ jobs' = [jobs EXCEPT !.todo = @ \cup {Job(x, b, FALSE)}]
    /\ UNCHANGED <<worker, content, kv, main>>

StepEnd ==
    /\ main.pc = "sched"
    /\ main' = [main EXCEPT !.pc = "idle"]
    /\ UNCHANGED <<pool, cache, jobs, worker, content, kv>>

-----------------------------------------------------------------------------
Init ==
    /\ pool = [owner |-> [b \in Blocks |-> Free], free |-> [b \in Blocks |-> 1],
               blocked |-> 0, want |-> 0, starved |-> FALSE, gave_back |-> FALSE]
    /\ cache = [slot_expert |-> [l \in Layers |-> [b \in Blocks |-> None]],
                expert_slot |-> [x \in Experts |-> None],
                table |-> [x \in Experts |-> None],
                in_flight |-> [l \in Layers |-> [b \in Blocks |-> FALSE]],
                queued |-> [x \in Experts |-> FALSE],
                adopt_slot |-> [x \in Experts |-> None],
                adopt_full |-> {}, adopt_victims |-> {}]
    /\ jobs = [todo |-> {}, done |-> {}]
    /\ worker = [w \in Workers |-> [pc |-> "idle"]]
    /\ content = [b \in Blocks |-> Junk]
    /\ kv = [h |-> 0, start |-> 0, cells |-> 0, moving |-> {}, seen |-> {}, dec_need |-> 0]
    /\ main = [pc |-> "idle", next |-> "idle", size |-> CHOOSE k \in Passes : TRUE,
               h |-> 0, l |-> 0, rows |-> 0, plan |-> 0, last |-> 0, kept |-> {}]

\* what the decode thread goes on to do by itself
Continue ==
    \/ MoveWait \/ TakeDrop \/ ZoneTake \/ MoveBytes \/ ZoneGive \/ MoveEnd
    \/ FindSlots \/ (\E k \in Passes : Pass(k)) \/ Refuse \/ MoveBehind
    \/ Alias \/ LendDrop \/ Lend \/ AssertFails \/ Launch \/ Computed
    \/ Step \/ ReheatEnd \/ StepEnd

Next ==
    \/ Truncate \/ Call
    \/ Continue \/ KeepHot
    \/ \E x \in Experts : Adopt(x) \/ AdoptRest(x) \/ Reheat(x) \/ Admit(x)
    \/ \E w \in Workers : Worker(w)

Spec == Init /\ [][Next]_vars

\* the decode thread and the workers are threads that keep running; a copy to
\* the card ends
FairSpec == Spec /\ WF_vars(Continue) /\ \A w \in Workers : WF_vars(Worker(w))

-----------------------------------------------------------------------------
(* Properties                                                              *)

JobSet == [expert : Experts, slot : Blocks, bg : BOOLEAN, skipped : BOOLEAN]

\* Types of the ledger, the cache's arrays, the queue and the zone
TypeOK ==
    /\ pool.owner \in [Blocks -> Layers \cup {Free, Lent, Zone}]
    /\ pool.free \in [Blocks -> Nat]
    /\ pool.blocked \in 0 .. NBlocks /\ pool.want \in 0 .. NBlocks
    /\ pool.starved \in BOOLEAN /\ pool.gave_back \in BOOLEAN
    /\ cache.slot_expert \in [Layers -> [Blocks -> Experts \cup {None}]]
    /\ cache.expert_slot \in [Experts -> Blocks \cup {None}]
    /\ cache.table \in [Experts -> Blocks \cup {None}]
    /\ cache.in_flight \in [Layers -> [Blocks -> BOOLEAN]]
    /\ cache.queued \in [Experts -> BOOLEAN]
    /\ cache.adopt_slot \in [Experts -> Blocks \cup {None}]
    /\ cache.adopt_full \subseteq Experts /\ cache.adopt_victims \subseteq Experts
    /\ jobs.todo \subseteq JobSet /\ jobs.done \subseteq JobSet
    /\ \A w \in Busy : worker[w].job \in JobSet
    /\ content \in [Blocks -> Experts \cup (0 .. MaxCells) \cup {Junk, Graph}]
    /\ kv.start \in 0 .. NBlocks /\ kv.h \in 0 .. NBlocks /\ kv.cells \in 0 .. MaxCells
    /\ kv.moving \subseteq Blocks

\* The comment on the block pool's runtime states it: a layer has an expert in
\* a block, or an upload pending into it, only if it owns the block, and the
\* expert it believes in is what the bytes are
SlotsAreTrue ==
    \A l \in Layers, b \in Blocks :
      /\ cache.in_flight[l][b] => pool.owner[b] = l
      /\ cache.slot_expert[l][b] # None =>
           /\ pool.owner[b] = l
           /\ content[b] = cache.slot_expert[l][b]

\* A decode graph reads expert x from the block the table names: while it
\* runs, no upload, adoption, lend or zone has put anything else there.  An
\* adoption's victim is excused until the next step resets its entry
TableIsTrue ==
    main.pc = "compute" /\ main.size \in SmallPasses =>
      \A x \in Experts \ cache.adopt_victims :
        cache.table[x] # None => content[cache.table[x]] = x

\* The comment in moe_fill_cb on the victim of an adoption, "no later batch
\* reads the slot as the victim", asks for no excuse
VictimsUnread ==
    main.pc = "compute" /\ main.size \in SmallPasses =>
      \A x \in Experts : cache.table[x] # None => content[cache.table[x]] = x

\* Every written row of the KV is in its place whenever the zone is not being
\* moved: no upload and no graph has written over it, no move has lost it
KvIntact ==
    main.pc \notin {"give", "moved"} =>
      \A i \in 0 .. kv.cells - 1 : i < kv.h /\ content[kv.start + i] = i

\* The assertion of set_input_k_idxs fails, and the process ends, only for a
\* cell that the cap no longer admits: the decode graph's lend grew after the
\* call had found its cells.  A cell below the cap as it stands when the pass
\* is launched is covered by the zone, whatever moves the call made before
CellCovered == main.pc \in {"launch", "aborted"} /\ kv.cells < kv_tail_cap => kv.cells < kv.h

\* The assertion itself, which a pool too tight for the call does not keep
AssertHolds == main.pc = "launch" => kv.cells < kv.h

\* While a graph runs every block of its lend is its own
LendIsOwned ==
    main.pc = "compute" => \A b \in Span(0, pool.want) : pool.owner[b] = Lent /\ content[b] = Graph

\* A block is on the free stack exactly once while it is free, and never
\* otherwise: none leaks and none is handed out twice
FreeIsExact ==
    \A b \in Blocks : pool.free[b] = IF pool.owner[b] = Free THEN 1 ELSE 0

\* A step leaves no block lent above what the last graph needed, unless the
\* cache is starved
LendReturned ==
    main.pc \in {"reheat", "sched"} => \A b \in Span(pool.want, NBlocks) : pool.owner[b] # Lent

\* The books of the pool balance: types, the free stack against the owners, and the lend
\* against the last graph's need.
LedgerOK == TypeOK /\ FreeIsExact /\ LendReturned

\* The call returns: the mover waits for uploads in the range it holds, and
\* the step for the uploads it scheduled, but never for ever; or the assertion
\* ends the process
CallReturns == main.pc # "idle" ~> main.pc \in {"idle", "aborted"}
=============================================================================
