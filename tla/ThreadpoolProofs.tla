-------------------------- MODULE ThreadpoolProofs --------------------------
(***************************************************************************)
(* For every number of threads, every graph and every sequence of calls:   *)
(* ggml_barrier keeps the threads of a graph in lockstep (module Lockstep),*)
(* every node finds its inputs complete, no chunk is computed twice, and   *)
(* ggml_graph_compute returns with its results and no worker left behind.  *)
(*                                                                         *)
(* The argument has three layers.  The barrier's counters hold the threads *)
(* that arrived (BarrierInv).  All threads of a graph are on their way to  *)
(* the same barrier of the walk over the nodes, although none tells the    *)
(* others where it is (PathInv).  So the parts of a node, each finished by *)
(* its thread, make a finished node when the barrier opens (DataInv).      *)
(***************************************************************************)
EXTENDS Threadpool, FiniteSetTheorems, WellFoundedInduction, TLAPS

OutPc    == {"top", "paused", "poll", "lock", "asleep", "exited"}
CallerPc == {"idle", "kickoff", "return", "join", "freed"}
BarPc    == {"enter", "add", "reset", "release"}

\* The barrier that the thread waits at has opened.
Released(t) == pc[t] = "spin" /\ bar[t].passed # n_barrier_passed
Waiting(t)  == pc[t] = "spin" /\ bar[t].passed = n_barrier_passed

\* A worker that has not seen the graph yet.
Fresh(t) == t # 0 /\ last_graph[t] # n_graph

InGraph(t) == /\ pc[t] \notin OutPc \cup CallerPc
              /\ ~(Released(t) /\ ret[t] \in {"top", "return"})

-----------------------------------------------------------------------------
(* The barrier. *)

\* The threads that n_barrier counts.
Arrived == {t \in Threads : pc[t] = "reset" \/ Waiting(t)}

\* A thread whose piece counts already while the others of its round are on their way.
Ahead(t) == pc[t] \in {"reset", "release"} \/ Waiting(t)

\* Who is inside a graph belongs to it and has seen it.
ThreadInv ==
    /\ TypeOK /\ req >= 1
    /\ \A t \in Threads : node[t] >= 1
    /\ pc[0] \notin OutPc /\ ret[0] # "top"
    /\ \A t \in Workers : pc[t] \notin CallerPc /\ ret[t] # "return"
    /\ \A t \in Threads : InGraph(t) => t \in Active /\ ~Fresh(t)

\* The graph counter has not come round.
CountInv ==
    /\ count <= MaxGraphs /\ n_graph.count <= count
    /\ pc[0] = "kickoff" => n_graph.count < count
    /\ \A t \in Threads : last_graph[t].count <= n_graph.count

BarrierInv ==
    /\ \A t \in Threads : bar[t].passed <= n_barrier_passed
    /\ \A t \in Threads : pc[t] \in {"add", "reset", "release"} \/ Waiting(t) =>
           bar[t] = [n |-> n_graph.n, passed |-> n_barrier_passed] /\ n_graph.n > 1
    /\ \A t \in Threads : pc[t] \in {"reset", "release"} =>
           \A u \in Active \ {t} : Waiting(u)
    /\ (\E t \in Threads : pc[t] = "release") => n_barrier = 0
    /\ (\A t \in Threads : pc[t] # "release") => n_barrier = Cardinality(Arrived)

PieceInv ==
    \A t, u \in Active :
        pieces[t] + (IF Ahead(u) THEN 1 ELSE 0) = pieces[u] + (IF Ahead(t) THEN 1 ELSE 0)

-----------------------------------------------------------------------------
(* The walk. *)

\* What the walk makes of the pc: "new" before the first node, "bar" for the
\* whole barrier until it opens, "out" once the thread has left the graph.
Stage ==
    [t \in Threads |->
        IF pc[t] = "start" \/ Fresh(t) THEN "new"
        ELSE IF pc[t] \in BarPc \/ Waiting(t) THEN "bar"
        ELSE IF pc[t] = "spin" THEN (IF ret[t] \in {"loop", "mm_chunk"} THEN ret[t] ELSE "out")
        ELSE IF pc[t] \in OutPc \cup CallerPc THEN "out"
        ELSE pc[t]]

\* The nodes at which the loop does not just go on to the next.
Halts(k) == {m \in k .. (Len(cgraph) + 1) :
                m = Len(cgraph) + 1 \/ abort = m \/ cgraph[m] # "nop"}
Least(S) == CHOOSE m \in S : \A j \in S : m <= j
Halt(k)  == Least(Halts(k))

\* The barriers of the walk: after which node and where to, the last one, and none.
EndSite  == <<0, "end">>
OverSite == <<0, "over">>
NodeSite(m) == IF m < Len(cgraph) THEN <<m + 1, "loop">> ELSE EndSite
LoopSite(k) == IF Halt(k) > Len(cgraph) \/ abort = Halt(k) THEN EndSite
               ELSE IF cgraph[Halt(k)] = "op" THEN NodeSite(Halt(k))
               ELSE <<Halt(k), "mm_chunk">>

\* The thread is on its part of a node, past the barrier inside mul_mat if there is one.
OnNode == {"op", "mm_chunk", "mm_add", "after"}

\* The barrier that thread t is at or will come to next.
Site(t) ==
    IF Stage[t] = "new" THEN LoopSite(1)
    ELSE IF Stage[t] = "loop" THEN LoopSite(node[t])
    ELSE IF Stage[t] \in OnNode THEN NodeSite(node[t])
    ELSE IF Stage[t] = "mm_set" THEN <<node[t], "mm_chunk">>
    ELSE IF Stage[t] = "bar" THEN (IF ret[t] \in {"loop", "mm_chunk"} THEN <<node[t], ret[t]>>
                                   ELSE EndSite)
    ELSE OverSite

MulMat(k) == cgraph[k] \in {"mul_mat", "mul_mat_chunked"}

\* Where a thread can be.
PlaceOf(t) ==
    /\ Stage[t] = "loop" => node[t] <= Len(cgraph) + 1 /\ nth[t] = n_graph.n
    /\ Stage[t] \in OnNode \cup {"mm_set"} => node[t] <= Len(cgraph) /\ nth[t] = n_graph.n
    /\ Stage[t] = "op" => cgraph[node[t]] = "op"
    /\ Stage[t] \in {"mm_set", "mm_chunk", "mm_add"} => MulMat(node[t])
    /\ Stage[t] = "mm_add" => cgraph[node[t]] = "mul_mat_chunked"
    /\ Stage[t] = "after" => cgraph[node[t]] # "nop"
    /\ Stage[t] = "bar" =>
         /\ nth[t] = n_graph.n /\ node[t] <= Len(cgraph) + 1
         /\ ret[t] = "loop" => node[t] > 1 /\ node[t] <= Len(cgraph)
         /\ ret[t] = "mm_chunk" => node[t] <= Len(cgraph) /\ MulMat(node[t])
         /\ ret[t] \in {"top", "return"} => node[t] > Len(cgraph) \/ abort = node[t]

PlaceInv == \A t \in Active : PlaceOf(t)

\* The abort node number stops everyone; thread 0 has come to it.
AbortOf(t) ==
    /\ Stage[t] \in OnNode \cup {"mm_set"} => node[t] < abort
    /\ Stage[t] \in {"loop", "bar"} => node[t] <= abort
    /\ Stage[t] = "bar" /\ ret[t] = "mm_chunk" => node[t] < abort
    /\ t = 0 => Stage[t] \in {"loop", "bar", "out"} /\ (Stage[t] # "out" => node[t] = abort)

AbortInv ==
    /\ pc[0] \in {"kickoff", "start"} => abort = 0 /\ ec = "success"
    /\ abort = 0 <=> ec = "success"
    /\ abort # 0 => \A t \in Active : AbortOf(t)

Agree == \A t \in Active : Site(t) = Site(0)

PathInv == PlaceInv /\ AbortInv /\ Agree

-----------------------------------------------------------------------------
(* The results. *)

Pos(t) == IF Stage[t] = "new" THEN 1 ELSE node[t]

\* The thread has done its part of the node before its own.
PartDone(t) == \/ Stage[t] = "bar" /\ ret[t] = "loop"
               \/ Stage[t] \in {"loop", "bar"} /\ node[t] > Len(cgraph)

\* The nodes below this one are complete for all that thread t knows.
Known(t) == IF Stage[t] = "new" THEN 1 ELSE IF PartDone(t) THEN node[t] - 1 ELSE node[t]

\* A thread is about to compute this chunk.
Held(c) == \E u \in Active : Stage[u] = "mm_chunk" /\ chunk[u] = c

\* Every chunk of the mul_mat node m has been given to a thread.
Taken(m) == /\ current_chunk >= NChunks(cgraph[m], n_graph.n)
            /\ \A c \in Chunks(m) : <<m, c>> \in written \/ Held(c)

\* What thread t has done for node m.
Part(t, m) == /\ cgraph[m] = "op" => <<m, t>> \in written
              /\ MulMat(m) => Taken(m)

DoneOf(t) ==
    /\ Stage[t] # "out" => \A k \in 1 .. (Known(t) - 1) : NodeDone(k)
    /\ Stage[t] = "after" => Part(t, node[t])
    /\ PartDone(t) /\ node[t] > 1 => Part(t, node[t] - 1)

\* The results that thread 0 leaves the graph with.
ResultsInv ==
    Stage[0] = "out" /\ pc[0] \in {"spin", "return"} =>
        \A k \in 1 .. Len(cgraph) : (ec = "success" \/ k < abort) => NodeDone(k)

\* Nothing is written ahead of the walk.
WrittenOf(t) ==
    Stage[t] # "out" => \A k \in 1 .. Len(cgraph) :
        /\ cgraph[k] = "op" /\ <<k, t>> \in written =>
               k < Pos(t) \/ (k = Pos(t) /\ Stage[t] = "after")
        /\ MulMat(k) /\ (\E c \in Chunks(k) : <<k, c>> \in written) =>
               k < Pos(t) \/ (k = Pos(t) /\ Stage[t] \in {"mm_chunk", "mm_add", "after"})

\* The chunk counter hands every chunk to one thread.
ChunkOf(t) ==
    /\ Stage[t] \in {"mm_chunk", "mm_add"} =>
         /\ current_chunk >= n_graph.n
         /\ \A c \in Chunks(node[t]) : <<node[t], c>> \in written => c < current_chunk
         /\ \A c \in Chunks(node[t]) :
                c < current_chunk => <<node[t], c>> \in written \/ Held(c)
    /\ Stage[t] = "mm_chunk" =>
         /\ chunk[t] < current_chunk
         /\ chunk[t] \in Chunks(node[t]) => <<node[t], chunk[t]>> \notin written
    /\ Stage[t] = "bar" /\ ret[t] = "mm_chunk" =>
         /\ chunk[t] = t
         /\ t = 0 => current_chunk = n_graph.n

Distinct == \A t, u \in Active : t # u /\ Stage[t] = "mm_chunk" /\ Stage[u] = "mm_chunk" =>
                chunk[t] # chunk[u]

\* The converted src1.
WdataOf(t) ==
    /\ Stage[t] = "bar" /\ ret[t] = "mm_chunk" => <<node[t], t>> \in wdata
    /\ Stage[t] \in {"mm_chunk", "mm_add"} => \A u \in Active : <<node[t], u>> \in wdata

DataOf(t) == DoneOf(t) /\ WrittenOf(t) /\ ChunkOf(t) /\ WdataOf(t)

DataInv ==
    /\ \A t \in Active : DataOf(t)
    /\ ResultsInv /\ Distinct /\ again = {}
    /\ pc[0] = "kickoff" => written = {} /\ wdata = {}

WalkInv == ThreadInv /\ CountInv /\ BarrierInv /\ PieceInv /\ PathInv
PoolInv == WalkInv /\ DataInv

-----------------------------------------------------------------------------
(* The barrier and the threads. *)

LEMMA ThreadsFinite ==
    /\ IsFiniteSet(Threads) /\ 0 \in Threads
    /\ \A S \in SUBSET Threads : IsFiniteSet(S)
<1>1. NThreads \in Nat \ {0}
  BY PoolAssumption
<1>2. IsFiniteSet(Threads)
  BY <1>1, FS_Interval DEF Threads
<1>3. \A S \in SUBSET Threads : IsFiniteSet(S)
  BY <1>2, FS_Subset
<1> QED BY <1>1, <1>2, <1>3 DEF Threads

\* The threads of a graph are threads of the pool, and n_threads of them.
LEMMA ActiveCount ==
    ASSUME TypeOK
    PROVE  /\ Active \subseteq Threads /\ IsFiniteSet(Active)
           /\ Cardinality(Active) = n_graph.n
<1>1. NThreads \in Nat /\ n_graph.n \in 0 .. NThreads
  BY PoolAssumption DEF TypeOK
<1>2. Active \subseteq Threads
  BY <1>1 DEF Active, Threads
<1>3. Cardinality(0 .. (n_graph.n - 1)) = n_graph.n
  <2>1. 0 \in Int /\ (n_graph.n - 1) \in Int /\ (0 > n_graph.n - 1 <=> n_graph.n = 0)
    BY <1>1
  <2>2. Cardinality(0 .. (n_graph.n - 1)) = IF 0 > n_graph.n - 1 THEN 0 ELSE (n_graph.n - 1) - 0 + 1
    BY <2>1, FS_Interval
  <2> QED BY <1>1, <2>2
<1> QED BY <1>1, <1>2, <1>3, ThreadsFinite DEF Active

\* The threads that take a step are not in the barrier, and do not get into it.
LEMMA QuietBarrier ==
    ASSUME BarrierInv, PieceInv, TypeOK,
           \A t \in Threads :
               \/ pc'[t] = pc[t]
               \/ /\ pc[t] \notin {"add", "reset", "release"} /\ ~Waiting(t)
                  /\ pc'[t] \notin {"add", "reset", "release", "spin"},
           UNCHANGED <<n_graph, bar, n_barrier, n_barrier_passed, pieces>>
    PROVE  BarrierInv' /\ PieceInv'
<1> USE DEF Waiting
<1>1. \A u \in Threads : Waiting(u)' = Waiting(u) /\ Ahead(u)' = Ahead(u)
  BY DEF Ahead, TypeOK
<1>2. Active' = Active /\ Active \subseteq Threads
  BY ActiveCount DEF Active
<1>3. \A u \in Threads : /\ pc'[u] = "release" <=> pc[u] = "release"
                         /\ pc'[u] = "reset" <=> pc[u] = "reset"
                         /\ pc'[u] = "add" <=> pc[u] = "add"
  BY DEF TypeOK
<1>4. Arrived' = Arrived
  BY <1>1, <1>3 DEF Arrived
<1>5. BarrierInv'
  <2> USE DEF BarrierInv
  <2>1. (\A u \in Threads : bar[u].passed <= n_barrier_passed)'
    OBVIOUS
  <2>2. (\A u \in Threads : pc[u] \in {"add", "reset", "release"} \/ Waiting(u) =>
           bar[u] = [n |-> n_graph.n, passed |-> n_barrier_passed] /\ n_graph.n > 1)'
    BY <1>1, <1>3
  <2>3. (\A u \in Threads : pc[u] \in {"reset", "release"} =>
           \A v \in Active \ {u} : Waiting(v))'
    BY <1>1, <1>2, <1>3
  <2>4. ((\E u \in Threads : pc[u] = "release") => n_barrier = 0)'
    BY <1>3
  <2>5. ((\A u \in Threads : pc[u] # "release") => n_barrier = Cardinality(Arrived))'
    BY <1>3, <1>4
  <2> QED BY <2>1, <2>2, <2>3, <2>4, <2>5
<1>6. PieceInv'
  BY <1>1, <1>2 DEF PieceInv
<1> QED BY <1>5, <1>6

\* ggml_barrier, entry: what it reads is still true when it counts itself.
LEMMA EnterKeeps ==
    ASSUME ThreadInv, BarrierInv, PieceInv, NEW t \in Threads, Enter(t)
    PROVE  BarrierInv' /\ PieceInv'
<1>1. TypeOK /\ t \in Active /\ Active \subseteq Threads
  BY ActiveCount DEF ThreadInv, Enter, InGraph, Released, OutPc, CallerPc
<1>2. CASE n_graph.n = 1
  <2>1. Active = {t}
    BY <1>1, <1>2 DEF Active
  <2>2. \A u \in Threads : Waiting(u)' = Waiting(u) /\ (pc'[u] \in {"add", "reset", "release"}
            <=> pc[u] \in {"add", "reset", "release"})
    BY <1>1, <1>2 DEF Enter, Go, TypeOK, Waiting, shared
  <2>3. \A u \in Threads : pc'[u] \notin {"add", "reset", "release"} /\ ~Waiting(u)'
    BY <1>2, <2>2 DEF BarrierInv
  <2>4. Arrived' = {} /\ Arrived = {}
    BY <2>2, <2>3 DEF Arrived
  <2>5. BarrierInv'
    BY <1>2, <2>2, <2>3, <2>4 DEF BarrierInv, Enter, shared
  <2>6. PieceInv'
    <3> SUFFICES ASSUME NEW u \in Active', NEW v \in Active'
                 PROVE  (pieces[u] + (IF Ahead(v) THEN 1 ELSE 0)
                         = pieces[v] + (IF Ahead(u) THEN 1 ELSE 0))'
      BY DEF PieceInv
    <3>1. u = v /\ u \in Threads
      BY <1>1, <2>1 DEF Enter, Active, shared
    <3> QED BY <3>1
  <2> QED BY <2>5, <2>6
<1>3. CASE n_graph.n # 1
  <2>1. /\ pc' = [pc EXCEPT ![t] = "add"] /\ pc[t] = "enter"
        /\ bar' = [bar EXCEPT ![t] = [n |-> n_graph.n, passed |-> n_barrier_passed]]
        /\ UNCHANGED <<n_graph, n_barrier, n_barrier_passed, pieces>>
    BY <1>3 DEF Enter, Go, shared
  <2>2. n_graph.n > 1
    BY <1>1, <1>3 DEF Active, TypeOK
  <2>3. \A u \in Threads : Waiting(u)' = Waiting(u) /\ Ahead(u)' = Ahead(u)
    BY <1>1, <2>1 DEF Ahead, Waiting, TypeOK
  <2>4. Active' = Active
    BY <2>1 DEF Active
  <2>5. \A u \in Threads : pc[u] \notin {"reset", "release"} /\ pc'[u] \notin {"reset", "release"}
    <3>1. \A u \in Threads : pc[u] \in {"reset", "release"} => u # t
      BY <2>1
    <3>2. ~Waiting(t)
      BY <2>1 DEF Waiting
    <3> QED BY <1>1, <2>1, <3>1, <3>2 DEF BarrierInv, TypeOK
  <2>6. Arrived' = Arrived
    BY <2>3, <2>5 DEF Arrived
  <2>7. BarrierInv'
    <3>1. (\A u \in Threads : bar[u].passed <= n_barrier_passed)'
      BY <1>1, <2>1 DEF BarrierInv, TypeOK
    <3>2. (\A u \in Threads : pc[u] \in {"add", "reset", "release"} \/ Waiting(u) =>
             bar[u] = [n |-> n_graph.n, passed |-> n_barrier_passed] /\ n_graph.n > 1)'
      BY <1>1, <2>1, <2>2, <2>3 DEF BarrierInv, TypeOK
    <3> QED BY <3>1, <3>2, <2>1, <2>5, <2>6 DEF BarrierInv
  <2>8. PieceInv'
    BY <1>1, <2>1, <2>3, <2>4 DEF PieceInv
  <2> QED BY <2>7, <2>8
<1> QED BY <1>2, <1>3

LEMMA AddKeeps ==
    ASSUME ThreadInv, BarrierInv, PieceInv, NEW t \in Threads, Add(t)
    PROVE  /\ BarrierInv' /\ PieceInv'
           /\ n_barrier < n_graph.n /\ t \in Active
           /\ \A u \in Active : pieces[u] >= pieces[t]
<1>1. TypeOK /\ t \in Active /\ Active \subseteq Threads
  BY ActiveCount DEF ThreadInv, Add, InGraph, Released, OutPc, CallerPc
<1>2. /\ pc[t] = "add" /\ bar[t] = [n |-> n_graph.n, passed |-> n_barrier_passed]
      /\ n_graph.n > 1 /\ bar[t].n = n_graph.n /\ ~Waiting(t)
  BY DEF Add, BarrierInv, Waiting
<1>3. \A u \in Threads : pc[u] \notin {"reset", "release"}
  BY <1>1, <1>2 DEF BarrierInv
<1>4. n_barrier = Cardinality(Arrived) /\ t \notin Arrived /\ IsFiniteSet(Arrived)
  BY <1>2, <1>3, ThreadsFinite DEF BarrierInv, Arrived
<1>5. /\ pc' = [pc EXCEPT ![t] = IF n_barrier = n_graph.n - 1 THEN "reset" ELSE "spin"]
      /\ n_barrier' = n_barrier + 1 /\ pieces' = [pieces EXCEPT ![t] = @ + 1]
      /\ UNCHANGED <<n_graph, n_barrier_passed, bar>>
  BY <1>2 DEF Add, Go, local
<1>6. \A u \in Threads \ {t} : /\ Waiting(u)' = Waiting(u) /\ Ahead(u)' = Ahead(u)
                               /\ pc'[u] = pc[u]
  BY <1>1, <1>5 DEF Waiting, Ahead, TypeOK
<1>7. /\ pc'[t] \in {"reset", "spin"} /\ (pc'[t] = "reset" <=> n_barrier = n_graph.n - 1)
      /\ (pc'[t] = "reset" \/ Waiting(t)') /\ Ahead(t)' /\ ~Ahead(t)
      /\ bar'[t] = [n |-> n_graph.n, passed |-> n_barrier_passed]
  BY <1>1, <1>2, <1>5 DEF Waiting, Ahead, TypeOK
<1>8. Arrived' = Arrived \cup {t}
  BY <1>6, <1>7 DEF Arrived
<1>9. Cardinality(Arrived') = n_barrier + 1
  BY <1>4, <1>8, FS_AddElement
<1>10. Arrived' \subseteq Active
  <2>1. \A u \in Threads : Waiting(u) => u \in Active
    BY DEF ThreadInv, InGraph, Waiting, Released, OutPc, CallerPc
  <2> QED BY <1>1, <1>3, <1>8, <2>1 DEF Arrived
<1>11. n_barrier < n_graph.n
  <2>1. Cardinality(Arrived') <= Cardinality(Active)
    BY <1>1, <1>10, ActiveCount, FS_Subset
  <2>2. n_barrier \in Nat /\ n_graph.n \in Nat
    BY <1>1 DEF TypeOK
  <2> QED BY <1>1, <1>9, <2>1, <2>2, ActiveCount
<1>12. n_barrier = n_graph.n - 1 => Arrived' = Active
  <2>1. SUFFICES ASSUME n_barrier = n_graph.n - 1 PROVE Arrived' = Active
    OBVIOUS
  <2>2. Cardinality(Arrived') = Cardinality(Active)
    <3>1. n_barrier \in Nat /\ n_graph.n \in Nat
      BY <1>1 DEF TypeOK
    <3> QED BY <1>1, <1>9, <2>1, <3>1, ActiveCount
  <2> QED BY <1>1, <1>10, <2>2, ActiveCount, FS_Subset
<1>13. BarrierInv'
  <2>1. (\A u \in Threads : bar[u].passed <= n_barrier_passed)'
    BY <1>5 DEF BarrierInv
  <2>2. (\A u \in Threads : pc[u] \in {"add", "reset", "release"} \/ Waiting(u) =>
           bar[u] = [n |-> n_graph.n, passed |-> n_barrier_passed] /\ n_graph.n > 1)'
    BY <1>2, <1>5, <1>6, <1>7 DEF BarrierInv
  <2>3. (\A u \in Threads : pc[u] \in {"reset", "release"} =>
           \A v \in Active \ {u} : Waiting(v))'
    <3>1. SUFFICES ASSUME NEW u \in Threads, pc'[u] \in {"reset", "release"},
                          NEW v \in Active' \ {u}
                   PROVE  Waiting(v)'
      OBVIOUS
    <3>2. u = t /\ n_barrier = n_graph.n - 1
      BY <1>3, <1>6, <1>7, <3>1
    <3>3. v \in Arrived' /\ v # t
      BY <1>5, <1>12, <3>1, <3>2 DEF Active
    <3> QED BY <1>3, <1>6, <1>8, <3>3 DEF Arrived
  <2>4. \A u \in Threads : pc'[u] # "release"
    BY <1>3, <1>6, <1>7
  <2> QED BY <1>5, <1>9, <2>1, <2>2, <2>3, <2>4 DEF BarrierInv
<1>14. PieceInv' /\ \A u \in Active : pieces[u] >= pieces[t]
  <2>1. Active' = Active /\ pieces \in [Threads -> Nat]
    BY <1>1, <1>5 DEF Active, TypeOK
  <2>2. \A u \in Active : pieces[u] = pieces[t] + (IF Ahead(u) THEN 1 ELSE 0)
    BY <1>1, <1>7, <2>1 DEF PieceInv
  <2>3. \A u \in Active \ {t} : /\ pieces'[u] = pieces[u] /\ Ahead(u)' = Ahead(u)
                                /\ pieces'[u] = pieces[t] + (IF Ahead(u)' THEN 1 ELSE 0)
    BY <1>1, <1>5, <1>6, <2>1, <2>2
  <2>4. pieces'[t] = pieces[t] + 1 /\ Ahead(t)'
    BY <1>5, <1>7, <2>1
  <2>5. \A u \in Active : pieces'[u] = pieces[t] + (IF Ahead(u)' THEN 1 ELSE 0)
    BY <2>3, <2>4
  <2> QED BY <1>1, <2>1, <2>2, <2>5 DEF PieceInv
<1> QED BY <1>1, <1>11, <1>13, <1>14

\* The last thread clears the counter while all others wait.
LEMMA ResetKeeps ==
    ASSUME ThreadInv, BarrierInv, PieceInv, NEW t \in Threads, Reset(t)
    PROVE  BarrierInv' /\ PieceInv'
<1>1. TypeOK /\ Active \subseteq Threads
  BY ActiveCount DEF ThreadInv
<1>2. /\ pc[t] = "reset" /\ pc' = [pc EXCEPT ![t] = "release"] /\ n_barrier' = 0
      /\ UNCHANGED <<n_graph, n_barrier_passed, bar, pieces>>
  BY DEF Reset, Go, local, ghost
<1>3. \A u \in Threads : Waiting(u)' = Waiting(u) /\ Ahead(u)' = Ahead(u)
  BY <1>1, <1>2 DEF Waiting, Ahead, TypeOK
<1>4. \A u \in Threads : pc'[u] = IF u = t THEN "release" ELSE pc[u]
  BY <1>1, <1>2 DEF TypeOK
<1>5. Active' = Active
  BY <1>2 DEF Active
<1>6. (\A u \in Threads : pc[u] \in {"reset", "release"} =>
         \A v \in Active \ {u} : Waiting(v))'
  <2>1. \A u \in Threads : pc'[u] \in {"reset", "release"} => pc[u] \in {"reset", "release"}
    BY <1>2, <1>4
  <2>2. \A u \in Threads : pc[u] \in {"reset", "release"} => \A v \in Active \ {u} : Waiting(v)
    BY DEF BarrierInv
  <2> QED BY <1>1, <1>3, <1>5, <2>1, <2>2
<1>7. (\A u \in Threads : pc[u] \in {"add", "reset", "release"} \/ Waiting(u) =>
         bar[u] = [n |-> n_graph.n, passed |-> n_barrier_passed] /\ n_graph.n > 1)'
  BY <1>2, <1>3, <1>4 DEF BarrierInv
<1>8. BarrierInv'
  BY <1>2, <1>4, <1>6, <1>7 DEF BarrierInv
<1>9. PieceInv'
  BY <1>1, <1>2, <1>3, <1>5 DEF PieceInv
<1> QED BY <1>8, <1>9

\* ... and lets everyone go at once.
LEMMA ReleaseKeeps ==
    ASSUME ThreadInv, BarrierInv, PieceInv, NEW t \in Threads, Release(t)
    PROVE  BarrierInv' /\ PieceInv'
<1>1. TypeOK /\ Active \subseteq Threads /\ t \in Active
  BY ActiveCount DEF ThreadInv, Release, InGraph, Released, OutPc, CallerPc
<1>2. /\ pc[t] = "release" /\ pc' = [pc EXCEPT ![t] = ret[t]]
      /\ n_barrier_passed' = n_barrier_passed + 1
      /\ UNCHANGED <<n_graph, n_barrier, bar, pieces>>
  BY DEF Release, Go, local, ghost
<1>3. \A u \in Active \ {t} : Waiting(u)
  BY <1>2 DEF BarrierInv
<1>4. \A u \in Threads \ {t} : pc'[u] = pc[u] /\ pc[u] \notin {"add", "reset", "release"}
  <2>1. \A u \in Threads : pc[u] \in {"add", "reset", "release"} => u \in Active
    BY DEF ThreadInv, InGraph, Released, OutPc, CallerPc
  <2> QED BY <1>1, <1>2, <1>3, <2>1 DEF TypeOK, Waiting
<1>5. pc'[t] \in {"return", "top", "loop", "mm_chunk"}
  BY <1>1, <1>2 DEF TypeOK
<1>6. \A u \in Threads : bar'[u].passed < n_barrier_passed' /\ bar'[u].passed <= n_barrier_passed'
  <2>1. n_barrier_passed \in Nat /\ \A u \in Threads : bar[u].passed \in Nat
    BY <1>1 DEF TypeOK
  <2>2. \A u \in Threads : bar[u].passed <= n_barrier_passed
    BY DEF BarrierInv
  <2> QED BY <1>2, <2>1, <2>2
<1>7. \A u \in Threads : ~Waiting(u)'
  BY <1>1, <1>2, <1>6 DEF Waiting, TypeOK
<1>8. Arrived' = {}
  BY <1>4, <1>5, <1>7 DEF Arrived
<1>9. BarrierInv'
  <2>1. n_barrier' = 0
    BY <1>2 DEF BarrierInv
  <2>2. Cardinality(Arrived') = 0
    BY <1>8, FS_EmptySet
  <2> QED BY <1>4, <1>5, <1>6, <1>7, <2>1, <2>2 DEF BarrierInv
<1>10. PieceInv'
  <2>1. \A u \in Active : Ahead(u) /\ ~Ahead(u)'
    BY <1>1, <1>2, <1>3, <1>4, <1>5, <1>7 DEF Ahead
  <2>2. Active' = Active /\ pieces \in [Threads -> Nat]
    BY <1>1, <1>2 DEF Active, TypeOK
  <2> QED BY <1>1, <1>2, <2>1, <2>2 DEF PieceInv
<1> QED BY <1>9, <1>10

LEMMA SpinKeeps ==
    ASSUME ThreadInv, BarrierInv, PieceInv, NEW t \in Threads, Spin(t)
    PROVE  BarrierInv' /\ PieceInv'
<1>1. TypeOK
  BY DEF ThreadInv
<1>2. \A u \in Threads :
               \/ pc'[u] = pc[u]
               \/ /\ pc[u] \notin {"add", "reset", "release"} /\ ~Waiting(u)
                  /\ pc'[u] \notin {"add", "reset", "release", "spin"}
  BY <1>1 DEF Spin, Go, TypeOK, Waiting
<1>3. UNCHANGED <<n_graph, bar, n_barrier, n_barrier_passed, pieces>>
  BY DEF Spin, shared, local, ghost
<1> QED BY <1>1, <1>2, <1>3, QuietBarrier

Pcs == Reading \cup {"spin", "top", "paused", "poll", "lock", "asleep",
                     "exited", "idle", "kickoff", "return", "join", "freed"}

\* Types of the walk.
LEMMA ComputeType ==
    ASSUME ThreadInv, BarrierInv, PieceInv, NEW t \in Threads, Compute(t) \/ Start(t)
    PROVE  TypeOK' /\ req' >= 1 /\ \A u \in Threads : node'[u] >= 1
<1>1. /\ NThreads \in Nat \ {0} /\ 0 \in Threads /\ t \in Nat /\ TypeOK /\ req >= 1
      /\ \A u \in Threads : node[u] >= 1
  BY PoolAssumption DEF ThreadInv, Threads
<1>pc. pc \in [Threads -> Pcs]
  BY <1>1 DEF TypeOK, Pcs
<1>nth. nth \in [Threads -> 0 .. NThreads]
  BY <1>1 DEF TypeOK, Pcs
<1>node. node \in [Threads -> Nat] /\ \A u \in Threads : node[u] >= 1
  BY <1>1 DEF TypeOK, Pcs
<1>chunk. chunk \in [Threads -> Nat]
  BY <1>1 DEF TypeOK, Pcs
<1>bar. bar \in [Threads -> [n : 0 .. NThreads, passed : Nat]]
  BY <1>1 DEF TypeOK, Pcs
<1>ret. ret \in [Threads -> {"return", "top", "loop", "mm_chunk"}]
  BY <1>1 DEF TypeOK, Pcs
<1>pieces. pieces \in [Threads -> Nat]
  BY <1>1 DEF TypeOK, Pcs
<1>n_graph. n_graph \in [count : Nat, n : 0 .. NThreads]
  BY <1>1 DEF TypeOK, Pcs
<1>n_barrier. n_barrier \in 0 .. NThreads
  BY <1>1 DEF TypeOK, Pcs
<1>n_barrier_passed. n_barrier_passed \in Nat
  BY <1>1 DEF TypeOK, Pcs
<1>current_chunk. current_chunk \in Nat
  BY <1>1 DEF TypeOK, Pcs
<1>abort. abort \in Nat
  BY <1>1 DEF TypeOK, Pcs
<1>ec. ec \in {"success", "aborted"}
  BY <1>1 DEF TypeOK, Pcs
<1>2. CASE Loop(t)
  <2>1. pc' \in [Threads -> Pcs]
    BY <1>2, <1>pc DEF Loop, Finished, Go, Pcs, Reading
  <2>2. node' \in [Threads -> Nat] /\ \A u \in Threads : node'[u] >= 1
    BY <1>2, <1>node DEF Loop, Finished, Go
  <2>3. ret' \in [Threads -> {"return", "top", "loop", "mm_chunk"}]
    BY <1>2, <1>ret DEF Loop, Finished, Go
  <2>4. UNCHANGED <<cgraph, n_graph, n_barrier, n_barrier_passed, current_chunk, stop, pause, abort, ec, req,
                     nth, chunk, bar, last_graph, pieces, count>>
    BY <1>2 DEF Loop, Finished, Go, shared, local, ghost
  <2> QED BY <1>1, <2>1, <2>2, <2>3, <2>4 DEF TypeOK, Pcs
<1>3. CASE Op(t)
  <2>1. pc' \in [Threads -> Pcs]
    BY <1>3, <1>pc DEF Op, Go, Pcs, Reading
  <2>2. UNCHANGED <<cgraph, n_graph, n_barrier, n_barrier_passed, current_chunk, stop, pause, abort, ec, req,
                     nth, node, chunk, bar, ret, last_graph, pieces, count>>
    BY <1>3 DEF Op, Go, shared, local, ghost
  <2> QED BY <1>1, <2>1, <2>2 DEF TypeOK, Pcs
<1>4. CASE MulMatSet(t)
  <2>1. pc' \in [Threads -> Pcs]
    BY <1>4, <1>pc DEF MulMatSet, Go, Pcs, Reading
  <2>2. current_chunk' \in Nat
    BY <1>4, <1>current_chunk, <1>nth, <1>1 DEF MulMatSet, Go
  <2>3. chunk' \in [Threads -> Nat]
    BY <1>4, <1>chunk, <1>1 DEF MulMatSet, Go
  <2>4. ret' \in [Threads -> {"return", "top", "loop", "mm_chunk"}]
    BY <1>4, <1>ret DEF MulMatSet, Go
  <2>5. UNCHANGED <<cgraph, n_graph, n_barrier, n_barrier_passed, stop, pause, abort, ec, req, nth, node, bar,
                     last_graph, pieces, count>>
    BY <1>4 DEF MulMatSet, Go, shared, local, ghost
  <2> QED BY <1>1, <2>1, <2>2, <2>3, <2>4, <2>5 DEF TypeOK, Pcs
<1>5. CASE MulMatChunk(t)
  <2>1. pc' \in [Threads -> Pcs]
    BY <1>5, <1>pc DEF MulMatChunk, Go, Pcs, Reading
  <2>2. UNCHANGED <<cgraph, n_graph, n_barrier, n_barrier_passed, current_chunk, stop, pause, abort, ec, req,
                     nth, node, chunk, bar, ret, last_graph, pieces, count>>
    BY <1>5 DEF MulMatChunk, Go, shared, local, ghost
  <2> QED BY <1>1, <2>1, <2>2 DEF TypeOK, Pcs
<1>6. CASE MulMatAdd(t)
  <2>1. pc' \in [Threads -> Pcs]
    BY <1>6, <1>pc DEF MulMatAdd, Go, Pcs, Reading
  <2>2. current_chunk' \in Nat
    BY <1>6, <1>current_chunk DEF MulMatAdd, Go
  <2>3. chunk' \in [Threads -> Nat]
    BY <1>6, <1>chunk, <1>current_chunk DEF MulMatAdd, Go
  <2>4. UNCHANGED <<cgraph, n_graph, n_barrier, n_barrier_passed, stop, pause, abort, ec, req, nth, node, bar,
                     ret, last_graph, pieces, count>>
    BY <1>6 DEF MulMatAdd, Go, shared, local, ghost
  <2> QED BY <1>1, <2>1, <2>2, <2>3, <2>4 DEF TypeOK, Pcs
<1>7. CASE \E aborts \in BOOLEAN : After(t, aborts)
  <2>1. pc' \in [Threads -> Pcs]
    BY <1>7, <1>pc DEF After, Go, Pcs, Reading
  <2>2. abort' \in Nat
    BY <1>7, <1>abort, <1>node DEF After, Go
  <2>3. ec' \in {"success", "aborted"}
    BY <1>7, <1>ec DEF After, Go
  <2>4. node' \in [Threads -> Nat] /\ \A u \in Threads : node'[u] >= 1
    BY <1>7, <1>node DEF After, Go
  <2>5. ret' \in [Threads -> {"return", "top", "loop", "mm_chunk"}]
    BY <1>7, <1>ret DEF After, Go
  <2>6. UNCHANGED <<cgraph, n_graph, n_barrier, n_barrier_passed, current_chunk, stop, pause, req, nth, chunk,
                     bar, last_graph, pieces, count>>
    BY <1>7 DEF After, Go, shared, local, ghost
  <2> QED BY <1>1, <2>1, <2>2, <2>3, <2>4, <2>5, <2>6 DEF TypeOK, Pcs
<1>8. CASE Enter(t)
  <2>1. pc' \in [Threads -> Pcs]
    BY <1>8, <1>pc, <1>ret DEF Enter, Go, Pcs, Reading
  <2>2. bar' \in [Threads -> [n : 0 .. NThreads, passed : Nat]]
    BY <1>8, <1>bar, <1>n_graph, <1>n_barrier_passed DEF Enter, Go
  <2>3. pieces' \in [Threads -> Nat]
    BY <1>8, <1>pieces DEF Enter, Go
  <2>4. UNCHANGED <<cgraph, n_graph, n_barrier, n_barrier_passed, current_chunk, stop, pause, abort, ec, req,
                     nth, node, chunk, ret, last_graph, count>>
    BY <1>8 DEF Enter, Go, shared, local, ghost
  <2> QED BY <1>1, <2>1, <2>2, <2>3, <2>4 DEF TypeOK, Pcs
<1>9. CASE Add(t)
  <2>1. pc' \in [Threads -> Pcs]
    BY <1>9, <1>pc DEF Add, Go, Pcs, Reading
  <2>2. n_barrier' \in 0 .. NThreads
    <3>1. n_barrier < n_graph.n /\ n_barrier' = n_barrier + 1
      BY <1>9, AddKeeps DEF Add
    <3>2. n_graph.n \in 0 .. NThreads
      BY <1>n_graph
    <3> QED BY <1>1, <1>n_barrier, <3>1, <3>2
  <2>3. pieces' \in [Threads -> Nat]
    BY <1>9, <1>pieces DEF Add, Go
  <2>4. UNCHANGED <<cgraph, n_graph, n_barrier_passed, current_chunk, stop, pause, abort, ec, req, nth, node,
                     chunk, bar, ret, last_graph, count>>
    BY <1>9 DEF Add, Go, shared, local, ghost
  <2> QED BY <1>1, <2>1, <2>2, <2>3, <2>4 DEF TypeOK, Pcs
<1>10. CASE Reset(t)
  <2>1. pc' \in [Threads -> Pcs]
    BY <1>10, <1>pc DEF Reset, Go, Pcs, Reading
  <2>2. n_barrier' \in 0 .. NThreads
    BY <1>10, <1>n_barrier, <1>1 DEF Reset, Go
  <2>3. UNCHANGED <<cgraph, n_graph, n_barrier_passed, current_chunk, stop, pause, abort, ec, req, nth, node,
                     chunk, bar, ret, last_graph, pieces, count>>
    BY <1>10 DEF Reset, Go, shared, local, ghost
  <2> QED BY <1>1, <2>1, <2>2, <2>3 DEF TypeOK, Pcs
<1>11. CASE Release(t)
  <2>1. pc' \in [Threads -> Pcs]
    BY <1>11, <1>pc, <1>ret DEF Release, Go, Pcs, Reading
  <2>2. n_barrier_passed' \in Nat
    BY <1>11, <1>n_barrier_passed DEF Release, Go
  <2>3. UNCHANGED <<cgraph, n_graph, n_barrier, current_chunk, stop, pause, abort, ec, req, nth, node, chunk,
                     bar, ret, last_graph, pieces, count>>
    BY <1>11 DEF Release, Go, shared, local, ghost
  <2> QED BY <1>1, <2>1, <2>2, <2>3 DEF TypeOK, Pcs
<1>12. CASE Spin(t)
  <2>1. pc' \in [Threads -> Pcs]
    BY <1>12, <1>pc, <1>ret DEF Spin, Go, Pcs, Reading
  <2>2. UNCHANGED <<cgraph, n_graph, n_barrier, n_barrier_passed, current_chunk, stop, pause, abort, ec, req,
                     nth, node, chunk, bar, ret, last_graph, pieces, count>>
    BY <1>12 DEF Spin, Go, shared, local, ghost
  <2> QED BY <1>1, <2>1, <2>2 DEF TypeOK, Pcs
<1>13. CASE Start(t)
  <2>1. pc' \in [Threads -> Pcs]
    BY <1>13, <1>pc DEF Start, Go, Pcs, Reading
  <2>2. nth' \in [Threads -> 0 .. NThreads]
    BY <1>13, <1>nth, <1>n_graph DEF Start, Go
  <2>3. node' \in [Threads -> Nat] /\ \A u \in Threads : node'[u] >= 1
    BY <1>13, <1>node, <1>1 DEF Start, Go
  <2>4. UNCHANGED <<cgraph, n_graph, n_barrier, n_barrier_passed, current_chunk, stop, pause, abort, ec, req,
                     chunk, bar, ret, last_graph, pieces, count>>
    BY <1>13 DEF Start, Go, shared, local, ghost
  <2> QED BY <1>1, <2>1, <2>2, <2>3, <2>4 DEF TypeOK, Pcs
<1> QED BY <1>2, <1>3, <1>4, <1>5, <1>6, <1>7, <1>8, <1>9, <1>10, <1>11, <1>12, <1>13
        DEF Compute, Barrier

\* A thread of the graph stays one until it leaves.
LEMMA ComputeMember ==
    ASSUME ThreadInv, BarrierInv, NEW t \in Threads, Compute(t) \/ Start(t)
    PROVE  /\ pc'[0] \notin OutPc /\ ret'[0] # "top"
           /\ \A u \in Workers : pc'[u] \notin CallerPc /\ ret'[u] # "return"
           /\ \A u \in Threads : InGraph(u)' => u \in Active' /\ ~Fresh(u)'
           /\ pc[t] \notin CallerPc
           /\ pc'[0] \in {"kickoff", "start"} => pc'[0] = pc[0]
<1>1. /\ 0 \in Threads /\ pc \in [Threads -> Pcs]
      /\ ret \in [Threads -> {"return", "top", "loop", "mm_chunk"}]
      /\ pc[0] \notin OutPc /\ ret[0] # "top"
      /\ \A u \in Workers : pc[u] \notin CallerPc /\ ret[u] # "return"
      /\ \A u \in Threads : InGraph(u) => u \in Active /\ ~Fresh(u)
  BY ThreadsFinite DEF ThreadInv, TypeOK, Pcs
<1>2. UNCHANGED <<n_graph, last_graph>>
  <2> USE DEF shared, local, ghost
  <2>1. CASE Compute(t)
    BY <2>1 DEF Compute, Barrier, Loop, Op, MulMatSet, MulMatChunk, MulMatAdd, After,
       Enter, Add, Reset, Release, Spin
  <2>2. CASE Start(t)
    BY <2>2 DEF Start
  <2> QED BY <2>1, <2>2
<1>3. Active' = Active /\ \A u : Fresh(u)' = Fresh(u)
  BY <1>2 DEF Active, Fresh
<1>4. SUFFICES /\ pc' = [pc EXCEPT ![t] = pc'[t]] /\ ret' = [ret EXCEPT ![t] = ret'[t]]
               /\ InGraph(t) \/ (Released(t) /\ pc'[t] = ret[t])
               /\ pc'[t] \in Reading \ {"start"} \/ pc'[t] = "spin" \/ pc'[t] = ret[t]
               /\ pc[t] \in Reading \/ pc[t] = "spin"
               /\ ret'[t] = ret[t] \/ ret'[t] \in {"loop", "mm_chunk", Finished(t)}
               /\ \A u \in Threads \ {t} : InGraph(u)' => InGraph(u)
  <2> HIDE DEF Released
  <2> USE DEF OutPc, CallerPc, Reading, Pcs, Workers, Finished
  <2>1. pc'[0] \notin OutPc
    BY <1>1, <1>4
  <2>7. pc'[0] \in {"kickoff", "start"} => pc'[0] = pc[0]
    BY <1>1, <1>4
  <2>2. ret'[0] # "top"
    BY <1>1, <1>4
  <2>3. \A u \in Workers : pc'[u] \notin CallerPc /\ ret'[u] # "return"
    BY <1>1, <1>4
  <2>4. \A u \in Threads \ {t} : InGraph(u)' => u \in Active' /\ ~Fresh(u)'
    BY <1>1, <1>3, <1>4
  <2>5. InGraph(t)' => t \in Active' /\ ~Fresh(t)'
    <3>1. CASE InGraph(t)
      BY <1>1, <1>3, <3>1
    <3>2. CASE Released(t) /\ pc'[t] = ret[t] /\ ~InGraph(t)
      <4>1. ret[t] \in {"top", "return"}
        BY <1>1, <3>2 DEF InGraph, Released
      <4> QED BY <3>2, <4>1 DEF InGraph
    <3> QED BY <1>4, <3>1, <3>2
  <2>6. pc[t] \notin CallerPc
    BY <1>4
  <2> QED BY <2>1, <2>2, <2>3, <2>4, <2>5, <2>6, <2>7
<1> USE DEF InGraph, Released, OutPc, CallerPc, Pcs, Reading, Go
<1>5. CASE Compute(t) /\ ~Barrier(t)
  <2>1. /\ pc[t] \in Reading /\ pc' = [pc EXCEPT ![t] = pc'[t]]
        /\ pc'[t] \in Reading \ {"start"}
        /\ UNCHANGED <<bar, n_barrier_passed>>
    BY <1>1, <1>5 DEF Compute, Loop, Op, MulMatSet, MulMatChunk, MulMatAdd, After, shared, local
  <2>2. ret' = [ret EXCEPT ![t] = ret'[t]]
        /\ (ret'[t] = ret[t] \/ ret'[t] \in {"loop", "mm_chunk", Finished(t)})
    BY <1>1, <1>5 DEF Compute, Loop, Op, MulMatSet, MulMatChunk, MulMatAdd, After, local
  <2>3. \A u \in Threads \ {t} : InGraph(u)' => InGraph(u)
    BY <1>1, <2>1, <2>2
  <2> QED BY <2>1, <2>2, <2>3
<1>6. CASE Enter(t) \/ Add(t) \/ Reset(t) \/ Release(t)
  <2>1. /\ pc[t] \in Reading /\ pc' = [pc EXCEPT ![t] = pc'[t]] /\ UNCHANGED ret
        /\ pc'[t] \in Reading \ {"start"} \/ pc'[t] = "spin" \/ pc'[t] = ret[t]
    BY <1>1, <1>6 DEF Enter, Add, Reset, Release, shared, local
  <2>2. \A u \in Threads \ {t} : bar'[u] = bar[u]
    BY <1>1, <1>6 DEF Enter, Add, Reset, Release, shared, local, ThreadInv, TypeOK
  <2>3. \A u \in Threads \ {t} : InGraph(u)' => InGraph(u)
    <3>1. CASE ~Release(t)
      <4>1. n_barrier_passed' = n_barrier_passed
        BY <1>6, <3>1 DEF Enter, Add, Reset, shared, local
      <4> QED BY <1>1, <2>1, <2>2, <4>1
    <3>2. CASE Release(t)
      <4>1. n_barrier_passed' = n_barrier_passed + 1 /\ n_barrier_passed \in Nat
            /\ \A u \in Threads : bar[u].passed \in Nat /\ bar[u].passed <= n_barrier_passed
        BY <3>2 DEF Release, ThreadInv, TypeOK, BarrierInv
      <4> QED BY <1>1, <2>1, <2>2, <4>1
    <3> QED BY <3>1, <3>2
  <2> QED BY <1>1, <2>1, <2>3
<1>7. CASE Spin(t)
  <2>1. /\ Released(t) /\ pc' = [pc EXCEPT ![t] = ret[t]] /\ UNCHANGED <<ret, bar, n_barrier_passed>>
    BY <1>7 DEF Spin, shared, local
  <2> QED BY <1>1, <2>1
<1>8. CASE Start(t)
  <2>1. /\ pc[t] = "start" /\ pc' = [pc EXCEPT ![t] = "loop"] /\ UNCHANGED <<ret, bar, n_barrier_passed>>
    BY <1>8 DEF Start, shared, local
  <2> QED BY <1>1, <2>1
<1> QED BY <1>5, <1>6, <1>7, <1>8 DEF Barrier

BaseInv == ThreadInv /\ CountInv /\ BarrierInv /\ PieceInv

LEMMA ComputeBase ==
    ASSUME BaseInv, NEW t \in Threads, Compute(t) \/ Start(t)
    PROVE  BaseInv'
<1> USE DEF BaseInv
<1>1. ThreadInv'
  BY ComputeType, ComputeMember DEF ThreadInv
<1>2. CountInv'
  <2>1. UNCHANGED <<n_graph, last_graph, count>>
    <3> USE DEF shared, local, ghost
    <3>1. CASE Compute(t)
      BY <3>1 DEF Compute, Barrier, Loop, Op, MulMatSet, MulMatChunk, MulMatAdd, After,
         Enter, Add, Reset, Release, Spin
    <3>2. CASE Start(t)
      BY <3>2 DEF Start
    <3> QED BY <3>1, <3>2
  <2> QED BY <2>1, ComputeMember DEF CountInv
<1>3. BarrierInv' /\ PieceInv'
  <2>1. CASE Barrier(t)
    BY <2>1, EnterKeeps, AddKeeps, ResetKeeps, ReleaseKeeps, SpinKeeps DEF Barrier
  <2>2. CASE ~Barrier(t)
    <3>1. TypeOK /\ pc \in [Threads -> Pcs]
      BY DEF ThreadInv, TypeOK, Pcs
    <3>2. /\ UNCHANGED <<n_graph, bar, n_barrier, n_barrier_passed, pieces>>
          /\ pc' = [pc EXCEPT ![t] = pc'[t]]
          /\ pc[t] \in {"start", "loop", "op", "mm_set", "mm_chunk", "mm_add", "after"}
          /\ pc'[t] \in {"loop", "op", "mm_set", "mm_chunk", "mm_add", "after", "enter"}
      BY <2>2, <3>1 DEF Compute, Loop, Op, MulMatSet, MulMatChunk, MulMatAdd, After, Start,
         shared, local, ghost, Go
    <3>3. \A u \in Threads :
               \/ pc'[u] = pc[u]
               \/ /\ pc[u] \notin {"add", "reset", "release"} /\ ~Waiting(u)
                  /\ pc'[u] \notin {"add", "reset", "release", "spin"}
      BY <3>1, <3>2 DEF Waiting
    <3> QED BY <3>1, <3>2, <3>3, QuietBarrier
  <2> QED BY <2>1, <2>2
<1> QED BY <1>1, <1>2, <1>3

\* A worker outside the graph: it enters a graph that it has just seen.
LEMMA WorkerBase ==
    ASSUME BaseInv, NEW t \in Threads, Worker(t)
    PROVE  /\ BaseInv' /\ pc[t] \in OutPc /\ t # 0
           /\ UNCHANGED <<shared, req, nth, node, chunk, bar, ret, ghost>>
           /\ \/ pc' = [pc EXCEPT ![t] = pc'[t]] /\ pc'[t] \in OutPc /\ UNCHANGED last_graph
              \/ /\ pc' = [pc EXCEPT ![t] = pc'[t]] /\ n_graph # last_graph[t]
                 /\ last_graph' = [last_graph EXCEPT ![t] = n_graph]
                 /\ IF t \in Active THEN pc'[t] = "start" ELSE pc'[t] \in OutPc
<1>1. /\ 0 \in Threads /\ pc \in [Threads -> Pcs] /\ TypeOK
      /\ last_graph \in [Threads -> [count : Nat, n : 0 .. NThreads]]
      /\ n_graph \in [count : Nat, n : 0 .. NThreads]
      /\ pc[0] \notin OutPc /\ t \in Nat
  BY ThreadsFinite DEF BaseInv, ThreadInv, TypeOK, Pcs, Threads
<1>2. pc[t] \in OutPc /\ t # 0
  BY <1>1 DEF Worker, Top, Poll, Lock, OutPc
<1>3. UNCHANGED <<shared, req, nth, node, chunk, bar, ret, ghost>>
  BY DEF Worker, Top, Poll, Lock, shared, local, ghost
<1>4. \/ pc' = [pc EXCEPT ![t] = pc'[t]] /\ pc'[t] \in OutPc /\ UNCHANGED last_graph
      \/ /\ pc' = [pc EXCEPT ![t] = pc'[t]] /\ n_graph # last_graph[t]
         /\ last_graph' = [last_graph EXCEPT ![t] = n_graph]
         /\ IF t \in Active THEN pc'[t] = "start" ELSE pc'[t] \in OutPc
  <2>1. n_graph.n \in Int /\ (t < n_graph.n <=> t \in Active)
    BY <1>1 DEF Active
  <2> USE DEF Go, OutPc, NewGraph
  <2>2. CASE Top(t)
    BY <1>1, <2>2 DEF Top, local
  <2>3. CASE Poll(t)
    BY <1>1, <2>1, <2>3 DEF Poll
  <2>4. CASE Lock(t)
    BY <1>1, <2>1, <2>4 DEF Lock
  <2> QED BY <2>2, <2>3, <2>4 DEF Worker
<1>5. /\ pc' \in [Threads -> Pcs] /\ pc'[t] \in OutPc \cup {"start"}
      /\ \A u \in Threads \ {t} : pc'[u] = pc[u] /\ last_graph'[u] = last_graph[u]
      /\ last_graph' \in [Threads -> [count : Nat, n : 0 .. NThreads]]
  BY <1>1, <1>4 DEF Pcs, OutPc, Reading
<1>6. TypeOK'
  BY <1>1, <1>3, <1>5 DEF TypeOK, Pcs, shared, ghost
<1>7. Active' = Active
  BY <1>3 DEF Active, shared
<1>8. ThreadInv'
  <2>1. \A u \in Threads \ {t} : InGraph(u)' => u \in Active' /\ ~Fresh(u)'
    BY <1>3, <1>5, <1>7 DEF BaseInv, ThreadInv, InGraph, Released, Fresh, shared
  <2>2. InGraph(t)' => t \in Active' /\ ~Fresh(t)'
    BY <1>1, <1>3, <1>4, <1>7 DEF InGraph, Fresh, OutPc, shared
  <2>3. pc'[0] \notin OutPc /\ \A u \in Workers : pc'[u] \notin CallerPc
    BY <1>1, <1>2, <1>5 DEF BaseInv, ThreadInv, Workers, CallerPc, OutPc
  <2>4. /\ req' >= 1 /\ ret'[0] # "top" /\ (\A u \in Workers : ret'[u] # "return")
        /\ \A u \in Threads : node'[u] >= 1
    BY <1>3 DEF BaseInv, ThreadInv
  <2> QED BY <1>6, <2>1, <2>2, <2>3, <2>4 DEF ThreadInv
<1>9. CountInv'
  <2>1. UNCHANGED <<n_graph, count>> /\ pc'[0] = pc[0]
    BY <1>1, <1>2, <1>3, <1>5 DEF shared, ghost
  <2>2. \A u \in Threads : last_graph'[u] = last_graph[u] \/ last_graph'[u] = n_graph
    BY <1>1, <1>4
  <2>3. \A u \in Threads : last_graph'[u].count <= n_graph.count
    BY <1>1, <2>2 DEF BaseInv, CountInv
  <2> QED BY <2>1, <2>3 DEF BaseInv, CountInv
<1>10. BarrierInv' /\ PieceInv'
  <2>1. \A u \in Threads :
               \/ pc'[u] = pc[u]
               \/ /\ pc[u] \notin {"add", "reset", "release"} /\ ~Waiting(u)
                  /\ pc'[u] \notin {"add", "reset", "release", "spin"}
    BY <1>2, <1>5 DEF OutPc, Waiting
  <2>2. UNCHANGED <<n_graph, bar, n_barrier, n_barrier_passed, pieces>>
    BY <1>3 DEF shared, ghost
  <2> QED BY <1>1, <2>1, <2>2, QuietBarrier DEF BaseInv
<1> QED BY <1>2, <1>3, <1>4, <1>8, <1>9, <1>10 DEF BaseInv

\* The caller outside the graph, apart from kickoff: pc changes among the places outside.
CallStep ==
    \/ \E g \in Graphs, n \in 1 .. (NThreads + 1) : GraphCompute(g, n)
    \/ Return \/ Free \/ Join
    \/ \E p \in BOOLEAN : SetPause(p)

\* Waking moves a thread only outside the graph.
LEMMA WokenMoves ==
    ASSUME pc \in [Threads -> Pcs]
    PROVE  /\ Woken(pc) \in [Threads -> Pcs]
           /\ \A u \in Threads : \/ Woken(pc)[u] = pc[u]
                                 \/ pc[u] \in OutPc /\ Woken(pc)[u] \in OutPc
BY DEF Woken, Pcs, OutPc, Reading

LEMMA WokenAndCaller ==
    ASSUME pc \in [Threads -> Pcs], NEW x \in Pcs,
           pc' = [Woken(pc) EXCEPT ![0] = x] \/ pc' = [pc EXCEPT ![0] = x]
    PROVE  /\ pc' \in [Threads -> Pcs] /\ pc'[0] = x
           /\ \A u \in Workers : pc'[u] = pc[u] \/ (pc[u] \in OutPc /\ pc'[u] \in OutPc)
<1>1. 0 \in Threads /\ Workers \subseteq Threads /\ 0 \notin Workers
  BY ThreadsFinite DEF Workers
<1>2. PICK f \in [Threads -> Pcs] :
         /\ pc' = [f EXCEPT ![0] = x]
         /\ \A u \in Threads : f[u] = pc[u] \/ (pc[u] \in OutPc /\ f[u] \in OutPc)
  <2>1. CASE pc' = [Woken(pc) EXCEPT ![0] = x]
    BY <2>1, WokenMoves
  <2>2. CASE pc' = [pc EXCEPT ![0] = x]
    BY <2>2
  <2> QED BY <2>1, <2>2
<1>3. pc' \in [Threads -> Pcs] /\ pc'[0] = x /\ \A u \in Workers : pc'[u] = f[u]
  BY <1>1, <1>2
<1> QED BY <1>1, <1>2, <1>3

LEMMA CallMoves ==
    ASSUME BaseInv, CallStep
    PROVE  /\ pc[0] \in CallerPc /\ pc'[0] \in CallerPc /\ pc' \in [Threads -> Pcs]
           /\ \A u \in Workers : pc'[u] = pc[u] \/ (pc[u] \in OutPc /\ pc'[u] \in OutPc)
           /\ UNCHANGED <<n_graph, n_barrier, n_barrier_passed, nth, node, chunk, bar, ret,
                          last_graph, pieces>>
           /\ pc'[0] = "kickoff" => pc[0] = "idle"
<1>1. 0 \in Threads /\ pc \in [Threads -> Pcs]
  BY ThreadsFinite DEF BaseInv, ThreadInv, TypeOK, Pcs
<1>2. UNCHANGED <<n_graph, n_barrier, n_barrier_passed, nth, node, chunk, bar, ret,
                  last_graph, pieces>>
  BY DEF CallStep, GraphCompute, Return, Free, Join, SetPause, shared, local, ghost
<1>3. PICK x \in {"kickoff", "idle", "join", "freed"} :
         /\ pc' = [Woken(pc) EXCEPT ![0] = x] \/ pc' = [pc EXCEPT ![0] = x]
         /\ pc[0] \in {"idle", "return", "join"} /\ (x = "kickoff" => pc[0] = "idle")
  <2>1. CASE \E g \in Graphs, n \in 1 .. (NThreads + 1) : GraphCompute(g, n)
    BY <2>1 DEF GraphCompute, Go
  <2>2. CASE Return \/ Join
    BY <2>2 DEF Return, Join, Go
  <2>3. CASE Free
    BY <2>3 DEF Free
  <2>4. CASE \E p \in BOOLEAN : SetPause(p)
    <3>1. pc[0] = "idle" /\ pc' = Woken(pc)
      BY <2>4 DEF SetPause
    <3>2. Woken(pc) = [Woken(pc) EXCEPT ![0] = "idle"]
      BY <1>1, <3>1 DEF Woken
    <3> QED BY <3>1, <3>2
  <2> QED BY <2>1, <2>2, <2>3, <2>4 DEF CallStep
<1>4. x \in Pcs /\ x \in CallerPc /\ pc[0] \in CallerPc
  BY <1>3 DEF Pcs, CallerPc
<1>5. /\ pc' \in [Threads -> Pcs] /\ pc'[0] = x
      /\ \A u \in Workers : pc'[u] = pc[u] \/ (pc[u] \in OutPc /\ pc'[u] \in OutPc)
  BY <1>1, <1>3, <1>4, WokenAndCaller
<1> QED BY <1>2, <1>3, <1>4, <1>5

LEMMA CallBase ==
    ASSUME BaseInv, CallStep
    PROVE  BaseInv'
<1>1. /\ 0 \in Threads /\ pc \in [Threads -> Pcs] /\ TypeOK /\ NThreads \in Nat
      /\ pc[0] \notin OutPc
  BY ThreadsFinite, PoolAssumption DEF BaseInv, ThreadInv, TypeOK, Pcs
<1>2. TypeOK' /\ req' >= 1
  <2>1. CASE \E g \in Graphs, n \in 1 .. (NThreads + 1) : GraphCompute(g, n)
    <3>1. cgraph' \in Seq(Kinds) /\ req' \in Nat /\ req' >= 1 /\ count' \in Nat
      <4>1. count \in Nat
        BY <1>1 DEF TypeOK
      <4> QED BY <1>1, <2>1, <4>1, PoolAssumption DEF GraphCompute
    <3>2. current_chunk' = 0 /\ abort' = 0 /\ ec' = "success" /\ UNCHANGED <<stop, pause>>
      BY <2>1 DEF GraphCompute
    <3> QED BY <1>1, <3>1, <3>2, CallMoves DEF TypeOK, Pcs
  <2>2. CASE ~\E g \in Graphs, n \in 1 .. (NThreads + 1) : GraphCompute(g, n)
    <3>1. UNCHANGED <<cgraph, current_chunk, abort, ec, req, count>>
      BY <2>2 DEF CallStep, Return, Free, Join, SetPause, shared, local, ghost
    <3>2. stop' \in BOOLEAN /\ pause' \in BOOLEAN
      BY <1>1, <2>2 DEF CallStep, Return, Free, Join, SetPause, shared, TypeOK
    <3> QED BY <1>1, <3>1, <3>2, CallMoves DEF TypeOK, Pcs, BaseInv, ThreadInv
  <2> QED BY <2>1, <2>2
<1>3. Active' = Active
  BY CallMoves DEF Active
<1>4. ThreadInv'
  <2>1. \A u \in Threads : InGraph(u)' => InGraph(u)
    BY <1>1, CallMoves DEF InGraph, Released, Workers, OutPc, CallerPc
  <2>2. \A u \in Threads : InGraph(u)' => u \in Active' /\ ~Fresh(u)'
    BY <1>3, <2>1, CallMoves DEF Fresh, BaseInv, ThreadInv
  <2>3. pc'[0] \notin OutPc /\ \A u \in Workers : pc'[u] \notin CallerPc
    BY CallMoves DEF BaseInv, ThreadInv, OutPc, CallerPc
  <2> QED BY <1>2, <2>2, <2>3, CallMoves DEF BaseInv, ThreadInv
<1>5. CountInv'
  <2>1. /\ count \in Nat /\ count <= MaxGraphs /\ n_graph.count <= count /\ n_graph.count \in Nat
        /\ \A t \in Threads : last_graph[t].count <= n_graph.count
        /\ pc[0] = "kickoff" => n_graph.count < count
    BY <1>1 DEF BaseInv, CountInv, TypeOK
  <2>2. CASE \E g \in Graphs, n \in 1 .. (NThreads + 1) : GraphCompute(g, n)
    <3>1. count' = count + 1 /\ count < MaxGraphs
      BY <2>2 DEF GraphCompute
    <3> QED BY <2>1, <3>1, CallMoves, PoolAssumption DEF CountInv
  <2>3. CASE ~\E g \in Graphs, n \in 1 .. (NThreads + 1) : GraphCompute(g, n)
    <3>1. count' = count /\ pc'[0] # "kickoff"
      BY <1>1, <2>3, WokenMoves DEF CallStep, Return, Free, Join, SetPause, ghost, Go, OutPc
    <3> QED BY <2>1, <3>1, CallMoves DEF CountInv
  <2> QED BY <2>2, <2>3
<1>6. BarrierInv' /\ PieceInv'
  <2>1. \A u \in Threads :
               \/ pc'[u] = pc[u]
               \/ /\ pc[u] \notin {"add", "reset", "release"} /\ ~Waiting(u)
                  /\ pc'[u] \notin {"add", "reset", "release", "spin"}
    BY <1>1, CallMoves DEF OutPc, CallerPc, Waiting, Workers
  <2> QED BY <1>1, <2>1, CallMoves, QuietBarrier DEF BaseInv
<1> QED BY <1>4, <1>5, <1>6 DEF BaseInv

\* A new graph finds nobody in the last one; nobody has seen it yet.
LEMMA KickoffBase ==
    ASSUME BaseInv, Kickoff, \A t \in Threads : ~InGraph(t)
    PROVE  /\ BaseInv' /\ pc'[0] = "start" /\ 0 \in Active'
           /\ \A u \in Workers : Fresh(u)' /\ (pc'[u] \in OutPc \/ Released(u)')
           /\ \A t, u \in Active : pieces[t] = pieces[u]
<1>1. /\ 0 \in Threads /\ pc \in [Threads -> Pcs] /\ TypeOK /\ NThreads \in Nat \ {0}
      /\ pc[0] \notin OutPc /\ n_graph.count \in Nat /\ count \in Nat /\ req \in Nat /\ req >= 1
      /\ \A u \in Threads : last_graph[u].count \in Nat
  BY ThreadsFinite, PoolAssumption DEF BaseInv, ThreadInv, TypeOK, Pcs
<1>2. /\ pc[0] = "kickoff" /\ pc' = [Woken(pc) EXCEPT ![0] = "start"] /\ pause' = FALSE
      /\ n_graph' = [count |-> (n_graph.count + 1) % CountMod,
                     n     |-> IF req > NThreads THEN NThreads ELSE req]
      /\ pieces' = [t \in Threads |-> 0]
      /\ UNCHANGED <<cgraph, n_barrier, n_barrier_passed, current_chunk, stop, abort, ec,
                     req, nth, node, chunk, bar, ret, last_graph, count>>
  BY DEF Kickoff, local
<1>3. (n_graph.count + 1) % CountMod = n_graph.count + 1
  <2>1. n_graph.count + 1 <= MaxGraphs
    BY <1>1, <1>2, PoolAssumption DEF BaseInv, CountInv
  <2>2. \A x \in Nat : x < CountMod => x % CountMod = x
    BY PoolAssumption
  <2> QED BY <1>1, <2>1, <2>2, PoolAssumption
<1>4. n_graph'.count = n_graph.count + 1 /\ n_graph'.n \in 1 .. NThreads
  BY <1>1, <1>2, <1>3
<1>5. /\ pc' \in [Threads -> Pcs] /\ pc'[0] = "start"
      /\ \A u \in Workers : pc'[u] = pc[u] \/ (pc[u] \in OutPc /\ pc'[u] \in OutPc)
  <2>1. "start" \in Pcs
    BY DEF Pcs, Reading
  <2> QED BY <1>1, <1>2, <2>1, WokenAndCaller
<1>6. \A u \in Threads : pc[u] \notin {"add", "reset", "release"} /\ ~Waiting(u)
  BY DEF InGraph, Waiting, Released, OutPc, CallerPc
<1>7. \A u \in Threads : pc'[u] \notin {"add", "reset", "release"} /\ ~Waiting(u)'
  BY <1>2, <1>5, <1>6 DEF Waiting, OutPc, Workers
<1>8. \A u \in Threads : last_graph[u].count <= n_graph.count /\ last_graph'[u] = last_graph[u]
  BY <1>2 DEF BaseInv, CountInv
<1>9. \A u \in Workers : Fresh(u)'
  BY <1>1, <1>4, <1>8 DEF Fresh, Workers
<1>10. \A u \in Workers : pc'[u] \in OutPc \/ (Released(u)' /\ ret[u] \in {"top", "return"})
  <2>1. \A u \in Workers : pc[u] \in OutPc \/ (Released(u) /\ ret[u] \in {"top", "return"})
    BY <1>1 DEF InGraph, BaseInv, ThreadInv, Workers
  <2>2. \A u \in Workers : Released(u) => pc'[u] = pc[u] /\ Released(u)'
    BY <1>2, <1>5 DEF Released, OutPc
  <2>3. \A u \in Workers : pc[u] \in OutPc => pc'[u] \in OutPc
    BY <1>5
  <2> QED BY <2>1, <2>2, <2>3
<1>11. 0 \in Active' /\ Active' \subseteq Threads
  BY <1>1, <1>4 DEF Active, Threads
<1>12. TypeOK'
  <2>1. n_graph' \in [count : Nat, n : 0 .. NThreads]
    BY <1>1, <1>2, <1>3
  <2>2. pieces' \in [Threads -> Nat]
    BY <1>2
  <2> QED BY <1>1, <1>2, <1>5, <2>1, <2>2 DEF TypeOK, Pcs
<1>13. ThreadInv'
  <2>1. \A u \in Workers : ~InGraph(u)'
    BY <1>2, <1>10 DEF InGraph, OutPc, CallerPc
  <2>2. \A u \in Threads : InGraph(u)' => u \in Active' /\ ~Fresh(u)'
    BY <1>11, <2>1 DEF Workers, Fresh
  <2>3. pc'[0] \notin OutPc /\ \A u \in Workers : pc'[u] \notin CallerPc
    BY <1>5, <1>10 DEF OutPc, CallerPc, Released
  <2> QED BY <1>2, <1>12, <2>2, <2>3 DEF BaseInv, ThreadInv
<1>14. CountInv'
  <2>1. n_graph.count < count /\ count <= MaxGraphs
    BY <1>2 DEF BaseInv, CountInv
  <2>2. \A u \in Threads : last_graph'[u].count <= n_graph'.count
    BY <1>1, <1>4, <1>8
  <2> QED BY <1>1, <1>2, <1>4, <1>5, <2>1, <2>2 DEF CountInv
<1>15. BarrierInv'
  <2>1. Arrived = {} /\ Arrived' = {}
    BY <1>6, <1>7 DEF Arrived
  <2>2. n_barrier = 0 /\ Cardinality(Arrived') = 0
    BY <1>6, <2>1, FS_EmptySet DEF BaseInv, BarrierInv
  <2> QED BY <1>2, <1>7, <2>2 DEF BaseInv, BarrierInv
<1>16. PieceInv'
  <2>1. \A u \in Threads : ~Ahead(u)' /\ pieces'[u] = 0
    BY <1>2, <1>7 DEF Ahead
  <2> QED BY <1>11, <2>1 DEF PieceInv
<1>17. \A t, u \in Active : pieces[t] = pieces[u]
  <2>1. \A u \in Threads : ~Ahead(u) /\ pieces[u] \in Nat
    BY <1>1, <1>6 DEF Ahead, TypeOK
  <2> QED BY <1>1, <2>1, ActiveCount DEF BaseInv, PieceInv
<1> QED BY <1>5, <1>9, <1>10, <1>11, <1>13, <1>14, <1>15, <1>16, <1>17 DEF BaseInv

-----------------------------------------------------------------------------
(* The steps of the walk, as the stages show them. *)

WalkPc == {"loop", "op", "mm_set", "mm_chunk", "mm_add", "after"}

\* What the walk and its results depend on, besides the stages.
walk == <<cgraph, abort, ec, n_graph, nth, node, chunk, ret, current_chunk, written, again, wdata>>

\* The barrier opens: everyone goes on where it was called from.
Opens == /\ \A u \in Active : /\ Stage[u] = "bar"
                              /\ Stage'[u] = IF ret[u] \in {"loop", "mm_chunk"} THEN ret[u] ELSE "out"
         /\ UNCHANGED walk /\ 0 \in Active
         /\ pc'[0] \notin {"kickoff", "start"}

\* Nothing that the walk can see.
Hidden == /\ \A u \in Active : Stage'[u] = Stage[u]
          /\ Stage'[0] = Stage[0]
          /\ UNCHANGED walk
          /\ pc'[0] \in {"kickoff", "start"} => pc'[0] = pc[0]
          /\ Stage[0] = "out" /\ pc'[0] \in {"spin", "return"} => pc[0] \in {"spin", "return"}

\* The other threads.
OthersStay(t) == \A u \in Threads \ {t} : Stage'[u] = Stage[u] /\ pc'[u] = pc[u]

\* A step on the way between two barriers.
Walk(t) == \/ Start(t) \/ Loop(t) \/ Op(t) \/ MulMatSet(t) \/ MulMatChunk(t) \/ MulMatAdd(t)
           \/ \E aborts \in BOOLEAN : After(t, aborts)

LEMMA StageIs ==
    ASSUME BaseInv, NEW t \in Threads
    PROVE  /\ pc[t] \in WalkPc => Stage[t] = pc[t]
           /\ pc[t] \in BarPc \/ Waiting(t) => Stage[t] = "bar" /\ t \in Active
           /\ pc[t] = "start" => Stage[t] = "new" /\ t \in Active
           /\ pc[t] \in WalkPc => t \in Active
           /\ Released(t) /\ ret[t] \in {"loop", "mm_chunk"} => Stage[t] = ret[t] /\ t \in Active
           /\ pc[t] \in CallerPc => Stage[t] = "out"
           /\ InGraph(t) => Stage[t] # "out"
<1>1. /\ InGraph(t) => t \in Active /\ ~Fresh(t)
      /\ pc[t] \in CallerPc => t = 0
      /\ pc[t] \in Pcs
  BY DEF BaseInv, ThreadInv, Workers, TypeOK, Pcs
<1> USE DEF InGraph, Released, Waiting, OutPc, CallerPc, WalkPc, BarPc, Pcs, Reading
<1>2. pc[t] \in CallerPc => ~Fresh(t)
  BY <1>1 DEF Fresh
<1>3. pc[t] \in WalkPc => Stage[t] = pc[t] /\ t \in Active
  BY <1>1 DEF Stage
<1>4. pc[t] \in BarPc \/ Waiting(t) => Stage[t] = "bar" /\ t \in Active
  BY <1>1 DEF Stage
<1>5. pc[t] = "start" => Stage[t] = "new" /\ t \in Active
  BY <1>1 DEF Stage
<1>6. Released(t) /\ ret[t] \in {"loop", "mm_chunk"} => Stage[t] = ret[t] /\ t \in Active
  BY <1>1 DEF Stage
<1>7. pc[t] \in CallerPc => Stage[t] = "out"
  BY <1>1, <1>2 DEF Stage
<1>8. InGraph(t) => Stage[t] # "out"
  <2>1. SUFFICES ASSUME InGraph(t) PROVE Stage[t] # "out"
    OBVIOUS
  <2>2. CASE pc[t] = "spin"
    <3>1. ret[t] \in {"return", "top", "loop", "mm_chunk"}
      BY DEF BaseInv, ThreadInv, TypeOK
    <3> QED BY <1>4, <1>6, <2>1, <2>2, <3>1
  <2> QED BY <1>1, <1>3, <1>4, <1>5, <2>1, <2>2
<1> QED BY <1>3, <1>4, <1>5, <1>6, <1>7, <1>8

LEMMA WalkStage ==
    ASSUME BaseInv, NEW t \in Threads, Walk(t)
    PROVE  /\ Stage[t] = IF pc[t] = "start" THEN "new" ELSE pc[t]
           /\ Stage'[t] = IF pc'[t] = "enter" THEN "bar" ELSE pc'[t]
           /\ pc[t] \in WalkPc \cup {"start"} /\ t \in Active /\ OthersStay(t)
           /\ UNCHANGED <<n_graph, last_graph, bar, n_barrier_passed>>
<1>1. pc \in [Threads -> Pcs] /\ ret \in [Threads -> {"return", "top", "loop", "mm_chunk"}]
  BY DEF BaseInv, ThreadInv, TypeOK, Pcs
<1>2. /\ pc[t] \in WalkPc \cup {"start"} /\ pc' = [pc EXCEPT ![t] = pc'[t]]
      /\ pc'[t] \in WalkPc \cup {"enter"}
      /\ UNCHANGED <<n_graph, last_graph, bar, n_barrier_passed>>
  BY <1>1 DEF Walk, Start, Loop, Op, MulMatSet, MulMatChunk, MulMatAdd, After, Go, shared, local, WalkPc
<1>3. \A u \in Threads \ {t} : ret'[u] = ret[u]
  BY <1>1 DEF Walk, Start, Loop, Op, MulMatSet, MulMatChunk, MulMatAdd, After, local
<1>4. BaseInv'
  BY ComputeBase DEF Walk, Compute
<1>5. Stage[t] = IF pc[t] = "start" THEN "new" ELSE pc[t]
  BY <1>2, StageIs DEF WalkPc
<1>6. Stage'[t] = IF pc'[t] = "enter" THEN "bar" ELSE pc'[t]
  <2>1. /\ pc'[t] \in WalkPc => Stage'[t] = pc'[t]
        /\ pc'[t] = "enter" => Stage'[t] = "bar"
    <3>1. ~Fresh(t)'
      BY <1>2, StageIs DEF BaseInv, ThreadInv, InGraph, Released, OutPc, CallerPc, WalkPc, Fresh
    <3> QED BY <1>2, <3>1 DEF Stage, WalkPc, BarPc, Waiting, OutPc, CallerPc
  <2> QED BY <1>2, <2>1 DEF WalkPc
<1>7. OthersStay(t)
  <2>1. SUFFICES ASSUME NEW u \in Threads \ {t} PROVE Stage'[u] = Stage[u] /\ pc'[u] = pc[u]
    BY DEF OthersStay
  <2>2. pc'[u] = pc[u] /\ ret'[u] = ret[u] /\ Waiting(u)' = Waiting(u) /\ Fresh(u)' = Fresh(u)
    BY <1>1, <1>2, <1>3 DEF Waiting, Fresh
  <2> QED BY <2>2 DEF Stage
<1>8. t \in Active
  BY <1>2, StageIs DEF WalkPc
<1> QED BY <1>2, <1>5, <1>6, <1>7, <1>8

\* Inside the barrier.
LEMMA HiddenStage ==
    ASSUME BaseInv, NEW t \in Threads,
           (Enter(t) /\ n_graph.n # 1) \/ Add(t) \/ Reset(t) \/ Spin(t)
    PROVE  Hidden
<1>1. /\ pc \in [Threads -> Pcs] /\ ret \in [Threads -> {"return", "top", "loop", "mm_chunk"}]
      /\ bar \in [Threads -> [n : 0 .. NThreads, passed : Nat]] /\ 0 \in Threads
      /\ TypeOK /\ ret[0] # "top" /\ \A u \in Workers : ret[u] # "return"
  BY ThreadsFinite DEF BaseInv, ThreadInv, TypeOK, Pcs
<1>2. UNCHANGED <<cgraph, abort, ec, n_graph, nth, node, chunk, ret, current_chunk, written,
                  again, wdata, last_graph, n_barrier_passed>>
  BY DEF Enter, Add, Reset, Spin, shared, local, ghost
<1>3. BaseInv'
  BY ComputeBase DEF Compute, Barrier
<1>4. /\ pc' = [pc EXCEPT ![t] = pc'[t]] /\ pc'[t] \notin {"kickoff", "start"}
      /\ \A u \in Threads \ {t} : bar'[u] = bar[u]
      /\ \/ pc[t] \in BarPc /\ (pc'[t] \in BarPc \/ Waiting(t)')
         \/ Released(t) /\ pc'[t] = ret[t]
  <2>1. CASE Enter(t) /\ n_graph.n # 1
    BY <1>1, <2>1 DEF Enter, Go, BarPc
  <2>2. CASE Add(t)
    <3>1. bar[t].passed = n_barrier_passed /\ bar' = bar
      BY <2>2 DEF Add, BaseInv, BarrierInv, local
    <3> QED BY <1>1, <1>2, <2>2, <3>1 DEF Add, Go, BarPc, Waiting
  <2>3. CASE Reset(t)
    BY <1>1, <2>3 DEF Reset, Go, BarPc, local
  <2>4. CASE Spin(t)
    BY <1>1, <2>4 DEF Spin, Go, Released, local
  <2> QED BY <2>1, <2>2, <2>3, <2>4
<1>5. \A u \in Threads : Fresh(u)' = Fresh(u)
  BY <1>2 DEF Fresh
<1>6. \A u \in Threads \ {t} : Stage'[u] = Stage[u] /\ pc'[u] = pc[u]
  BY <1>1, <1>2, <1>4, <1>5 DEF Stage, Waiting
<1>7. Stage'[t] = Stage[t] /\ (pc'[t] \in {"spin", "return"} /\ Stage[t] = "out" => pc[t] = "spin")
  <2>1. CASE pc[t] \in BarPc /\ (pc'[t] \in BarPc \/ Waiting(t)')
    BY <1>2, <1>5, <2>1, StageIs DEF Stage, BarPc, Waiting
  <2>2. CASE Released(t) /\ pc'[t] = ret[t]
    BY <1>1, <1>2, <1>5, <2>2 DEF Stage, BarPc, Waiting, Released, OutPc, CallerPc
  <2> QED BY <1>4, <2>1, <2>2
<1> QED BY <1>1, <1>2, <1>4, <1>6, <1>7, ActiveCount DEF Hidden, walk

\* The barrier opens for all, or for the only thread.
LEMMA OpenStage ==
    ASSUME BaseInv, NEW t \in Threads, (Enter(t) /\ n_graph.n = 1) \/ Release(t)
    PROVE  Opens
<1>1. /\ pc \in [Threads -> Pcs] /\ ret \in [Threads -> {"return", "top", "loop", "mm_chunk"}]
      /\ TypeOK /\ ret[0] # "top" /\ (\A u \in Workers : ret[u] # "return") /\ 0 \in Threads
  BY ThreadsFinite DEF BaseInv, ThreadInv, TypeOK, Pcs
<1>2. /\ pc[t] \in BarPc /\ pc' = [pc EXCEPT ![t] = ret[t]]
      /\ UNCHANGED <<cgraph, abort, ec, n_graph, nth, node, chunk, ret, current_chunk, written,
                  again, wdata, last_graph, bar>>
  BY DEF Enter, Release, Go, BarPc, shared, local, ghost
<1>3. t \in Active /\ Active \subseteq Threads /\ 0 \in Active
  <2>1. t \in Active
    BY <1>2, StageIs
  <2>2. n_graph.n \in Int
    BY <1>1 DEF TypeOK
  <2>3. 0 \in Active
    BY <2>1, <2>2 DEF Active
  <2> QED BY <1>1, <2>1, <2>3, ActiveCount
<1>4. \A u \in Active \ {t} : Waiting(u) /\ Released(u)' /\ pc'[u] = pc[u]
  <2>1. CASE Enter(t) /\ n_graph.n = 1
    <3>1. Active = {t}
      BY <1>3, <2>1 DEF Active, Threads
    <3> QED BY <3>1
  <2>2. CASE Release(t)
    <3>1. n_barrier_passed' = n_barrier_passed + 1 /\ n_barrier_passed \in Nat
      BY <1>1, <2>2 DEF Release, TypeOK
    <3>2. \A u \in Active \ {t} : Waiting(u)
      BY <2>2 DEF Release, BaseInv, BarrierInv
    <3> QED BY <1>1, <1>2, <1>3, <3>1, <3>2 DEF Waiting, Released
  <2> QED BY <2>1, <2>2
<1>5. \A u \in Active : Stage[u] = "bar" /\ ~Fresh(u)
  BY <1>2, <1>3, <1>4, StageIs DEF BaseInv, ThreadInv, InGraph, Waiting, Released, BarPc, OutPc, CallerPc
<1>6. \A u \in Active : ~Fresh(u)'
  BY <1>2, <1>5 DEF Fresh
<1>7. \A u \in Active \ {t} : Stage'[u] = IF ret[u] \in {"loop", "mm_chunk"} THEN ret[u] ELSE "out"
  BY <1>2, <1>3, <1>4, <1>6 DEF Stage, Waiting, Released, BarPc
<1>8. Stage'[t] = IF ret[t] \in {"loop", "mm_chunk"} THEN ret[t] ELSE "out"
  BY <1>1, <1>2, <1>3, <1>6 DEF Stage, Waiting, BarPc, OutPc, CallerPc
<1>9. pc'[0] \notin {"kickoff", "start"}
  <2>1. pc'[0] = ret[0] \/ (pc'[0] = pc[0] /\ Waiting(0))
    BY <1>1, <1>2, <1>3, <1>4
  <2> QED BY <1>1, <2>1 DEF Waiting
<1> QED BY <1>2, <1>3, <1>5, <1>7, <1>8, <1>9 DEF Opens, walk

\* Workers outside the graph: to see it does not change their place in it.
LEMMA WorkerStage ==
    ASSUME BaseInv, NEW t \in Threads, Worker(t)
    PROVE  Hidden
<1>1. /\ pc \in [Threads -> Pcs] /\ TypeOK /\ 0 \in Threads
      /\ last_graph \in [Threads -> [count : Nat, n : 0 .. NThreads]]
  BY ThreadsFinite DEF BaseInv, ThreadInv, TypeOK, Pcs
<1>2. /\ pc[t] \in OutPc /\ t # 0 /\ UNCHANGED <<shared, req, nth, node, chunk, bar, ret, ghost>>
      /\ \/ pc' = [pc EXCEPT ![t] = pc'[t]] /\ pc'[t] \in OutPc /\ UNCHANGED last_graph
         \/ /\ pc' = [pc EXCEPT ![t] = pc'[t]] /\ n_graph # last_graph[t]
            /\ last_graph' = [last_graph EXCEPT ![t] = n_graph]
            /\ IF t \in Active THEN pc'[t] = "start" ELSE pc'[t] \in OutPc
  BY WorkerBase
<1>3. UNCHANGED walk /\ UNCHANGED <<n_graph, bar, n_barrier_passed, ret>>
  BY <1>2 DEF walk, shared, ghost
<1>4. \A u \in Threads \ {t} : Stage'[u] = Stage[u] /\ pc'[u] = pc[u]
  <2>1. \A u \in Threads \ {t} : pc'[u] = pc[u] /\ last_graph'[u] = last_graph[u]
    BY <1>1, <1>2
  <2> QED BY <1>3, <2>1 DEF Stage, Waiting, Fresh
<1>5. t \in Active => Stage'[t] = Stage[t]
  BY <1>1, <1>2, <1>3 DEF Stage, Waiting, Fresh, OutPc, CallerPc, BarPc
<1> QED BY <1>1, <1>2, <1>3, <1>4, <1>5, ActiveCount DEF Hidden

-----------------------------------------------------------------------------
(* Which barrier comes next. *)

\* Well-foundedness of the natural numbers, as the least element of a set.
LEMMA LeastNat ==
    ASSUME NEW S \in SUBSET Nat, S # {}
    PROVE  Least(S) \in S /\ \A j \in S : Least(S) <= j
<1> DEFINE R == {ss \in Nat \X Nat : ss[1] < ss[2]}
<1>1. IsWellFoundedOn(R, Nat)
  BY NatLessThanWellFounded, Zenon DEF OpToRel
<1>2. \E m \in S : \A j \in S : ~(<<j, m>> \in R)
  <2> HIDE DEF R
  <2> QED BY <1>1, WFMin
<1>3. PICK m \in S : \A j \in S : ~(<<j, m>> \in R)
  BY <1>2
<1>4. ASSUME NEW j \in S PROVE m <= j
  <2>1. j \in Nat /\ m \in Nat /\ ~(<<j, m>> \in R)
    BY <1>3
  <2> QED BY <2>1
<1>5. \E n \in S : \A j \in S : n <= j
  BY <1>4
<1> QED BY <1>5 DEF Least

LEMMA HaltIs ==
    ASSUME cgraph \in Seq(Kinds), NEW k \in 1 .. (Len(cgraph) + 1)
    PROVE  /\ Halt(k) \in k .. (Len(cgraph) + 1)
           /\ Halt(k) = Len(cgraph) + 1 \/ abort = Halt(k) \/ cgraph[Halt(k)] # "nop"
           /\ \A j \in Halts(k) : Halt(k) <= j
<1>1. Len(cgraph) \in Nat
  OBVIOUS
<1>2. Halts(k) \in SUBSET Nat /\ Len(cgraph) + 1 \in Halts(k)
  BY <1>1 DEF Halts
<1>3. Halt(k) \in Halts(k) /\ \A j \in Halts(k) : Halt(k) <= j
  BY <1>2, LeastNat DEF Halt
<1> QED BY <1>3 DEF Halts

LEMMA HaltHere ==
    ASSUME cgraph \in Seq(Kinds), NEW k \in 1 .. (Len(cgraph) + 1),
           k > Len(cgraph) \/ abort = k \/ cgraph[k] # "nop"
    PROVE  Halt(k) = k
<1>1. Len(cgraph) \in Nat
  OBVIOUS
<1>2. k \in Halts(k)
  BY <1>1 DEF Halts
<1>3. Halt(k) <= k /\ Halt(k) \in k .. (Len(cgraph) + 1)
  BY <1>2, HaltIs
<1> QED BY <1>1, <1>3

LEMMA HaltSkips ==
    ASSUME cgraph \in Seq(Kinds), NEW k \in 1 .. Len(cgraph), abort # k, cgraph[k] = "nop"
    PROVE  Halt(k) = Halt(k + 1)
<1>1. Len(cgraph) \in Nat
  OBVIOUS
<1>2. Halts(k) = Halts(k + 1)
  BY <1>1 DEF Halts
<1> QED BY <1>2 DEF Halt

\* The head of the loop.
LEMMA LoopSiteIs ==
    ASSUME cgraph \in Seq(Kinds), NEW k \in 1 .. (Len(cgraph) + 1)
    PROVE  /\ k > Len(cgraph) \/ abort = k => LoopSite(k) = EndSite
           /\ k <= Len(cgraph) /\ abort # k =>
                /\ cgraph[k] = "nop" => LoopSite(k) = LoopSite(k + 1)
                /\ cgraph[k] = "op" => LoopSite(k) = NodeSite(k)
                /\ MulMat(k) => LoopSite(k) = <<k, "mm_chunk">>
<1>1. Len(cgraph) \in Nat
  OBVIOUS
<1>2. k > Len(cgraph) \/ abort = k => LoopSite(k) = EndSite
  BY <1>1, HaltHere DEF LoopSite
<1>3. ASSUME k <= Len(cgraph), abort # k
      PROVE  /\ cgraph[k] = "nop" => LoopSite(k) = LoopSite(k + 1)
             /\ cgraph[k] = "op" => LoopSite(k) = NodeSite(k)
             /\ MulMat(k) => LoopSite(k) = <<k, "mm_chunk">>
  <2>1. cgraph[k] = "nop" => Halt(k) = Halt(k + 1)
    BY <1>1, <1>3, HaltSkips
  <2>2. cgraph[k] # "nop" => Halt(k) = k
    BY <1>1, <1>3, HaltHere
  <2>3. cgraph[k] = "nop" => LoopSite(k) = LoopSite(k + 1)
    BY <2>1 DEF LoopSite
  <2>4. cgraph[k] # "nop" => LoopSite(k) = IF cgraph[k] = "op" THEN NodeSite(k) ELSE <<k, "mm_chunk">>
    BY <1>1, <1>3, <2>2 DEF LoopSite
  <2> QED BY <2>3, <2>4 DEF MulMat
<1> QED BY <1>2, <1>3

\* The same graph and the same abort node.
LEMMA SiteFrame ==
    ASSUME UNCHANGED <<cgraph, abort>>
    PROVE  /\ \A k : LoopSite(k)' = LoopSite(k) /\ NodeSite(k)' = NodeSite(k)
           /\ \A u \in Threads : /\ Stage'[u] = Stage[u] /\ node'[u] = node[u] /\ ret'[u] = ret[u]
                                 => Site(u)' = Site(u)
<1>1. \A k : Halts(k)' = Halts(k)
  BY DEF Halts
<1>2. \A k : Halt(k)' = Halt(k)
  BY <1>1 DEF Halt
<1>3. \A k : NodeSite(k)' = NodeSite(k)
  BY DEF NodeSite, EndSite
<1>4. \A k : LoopSite(k)' = LoopSite(k)
  BY <1>2, <1>3 DEF LoopSite, EndSite
<1>5. ASSUME NEW u \in Threads, Stage'[u] = Stage[u], node'[u] = node[u], ret'[u] = ret[u]
      PROVE  Site(u)' = Site(u)
  BY <1>3, <1>4, <1>5 DEF Site, EndSite, OverSite
<1> QED BY <1>3, <1>4, <1>5

-----------------------------------------------------------------------------
(* Where the others are. *)

LEMMA StageType ==
    ASSUME BaseInv, NEW t \in Threads
    PROVE  Stage[t] \in {"new", "bar", "out"} \cup WalkPc
<1>1. pc[t] \in Pcs
  BY DEF BaseInv, ThreadInv, TypeOK, Pcs
<1> QED BY <1>1 DEF Stage, Pcs, Reading, BarPc, OutPc, CallerPc, WalkPc

LEMMA PoolTypes ==
    ASSUME BaseInv
    PROVE  /\ cgraph \in Seq(Kinds) /\ Len(cgraph) \in Nat /\ abort \in Nat
           /\ n_graph.n \in 0 .. NThreads /\ NThreads \in Nat /\ 0 \in Threads
           /\ current_chunk \in Nat /\ nth \in [Threads -> 0 .. NThreads]
           /\ node \in [Threads -> Nat] /\ chunk \in [Threads -> Nat]
           /\ ret \in [Threads -> {"return", "top", "loop", "mm_chunk"}]
           /\ pc \in [Threads -> Pcs]
           /\ \A t \in Threads : node[t] \in Nat /\ node[t] >= 1
           /\ Active \subseteq Threads /\ (Active # {} => 0 \in Active)
           /\ \A k \in 1 .. Len(cgraph) : cgraph[k] \in Kinds
<1>1. TypeOK /\ NThreads \in Nat /\ 0 \in Threads /\ \A t \in Threads : node[t] >= 1
  BY ThreadsFinite, PoolAssumption DEF BaseInv, ThreadInv
<1>2. /\ cgraph \in Seq(Kinds) /\ abort \in Nat /\ n_graph.n \in 0 .. NThreads
      /\ current_chunk \in Nat /\ nth \in [Threads -> 0 .. NThreads]
      /\ node \in [Threads -> Nat] /\ chunk \in [Threads -> Nat]
      /\ ret \in [Threads -> {"return", "top", "loop", "mm_chunk"}]
      /\ pc \in [Threads -> Pcs]
  BY <1>1 DEF TypeOK, Pcs
<1>3. Active \subseteq Threads /\ (Active # {} => 0 \in Active)
  <2>1. Active \subseteq Threads
    BY <1>1, ActiveCount
  <2>2. n_graph.n \in Int
    BY <1>1, <1>2
  <2> QED BY <2>1, <2>2 DEF Active
<1> QED BY <1>1, <1>2, <1>3

\* Only a thread outside the graph comes to no barrier.
LEMMA SiteOver ==
    ASSUME BaseInv, NEW t \in Threads
    PROVE  Site(t) = OverSite <=> Stage[t] = "out"
<1>1. \A k : NodeSite(k) # OverSite
  BY DEF NodeSite, EndSite, OverSite
<1>2. \A k : LoopSite(k) # OverSite
  BY <1>1 DEF LoopSite, EndSite, OverSite
<1>3. ret[t] \in {"return", "top", "loop", "mm_chunk"}
  BY PoolTypes
<1> QED BY <1>1, <1>2, <1>3, StageType DEF Site, WalkPc, OnNode, EndSite, OverSite

\* While the caller is not in a graph, nobody is.
LEMMA OutsideGraph ==
    ASSUME BaseInv, PathInv, pc[0] \in CallerPc
    PROVE  /\ \A u \in Active : Stage[u] = "out"
           /\ \A u \in Threads : ~InGraph(u)
           /\ Stage[0] = "out"
<1>1. Stage[0] = "out" /\ Active \subseteq Threads /\ 0 \in Threads
  BY StageIs, PoolTypes
<1>2. \A u \in Active : Stage[u] = "out"
  BY <1>1, SiteOver DEF PathInv, Agree
<1>3. ASSUME NEW u \in Threads, InGraph(u) PROVE FALSE
  <2>1. u \in Active
    BY <1>3 DEF BaseInv, ThreadInv
  <2> QED BY <1>2, <1>3, <2>1, StageIs
<1> QED BY <1>1, <1>2, <1>3

LEMMA CallStage ==
    ASSUME BaseInv, PathInv, CallStep
    PROVE  /\ Active' = Active /\ \A u \in Active : Stage'[u] = "out"
           /\ Stage'[0] = "out"
           /\ pc'[0] \notin {"start", "spin", "return"}
<1>1. /\ pc[0] \in CallerPc /\ pc'[0] \in CallerPc
      /\ \A u \in Workers : pc'[u] = pc[u] \/ (pc[u] \in OutPc /\ pc'[u] \in OutPc)
      /\ UNCHANGED <<n_graph, n_barrier_passed, bar, ret, last_graph>>
  BY CallMoves
<1>2. \A u \in Active : Stage[u] = "out"
  BY <1>1, OutsideGraph
<1>3. Active' = Active /\ Active \subseteq Threads /\ 0 \in Threads
  BY <1>1, PoolTypes DEF Active
<1>4. Stage'[0] = "out"
  BY <1>1, <1>3 DEF Stage, CallerPc, BarPc, OutPc, Waiting, Fresh
<1>5. ASSUME NEW u \in Active \ {0} PROVE Stage'[u] = Stage[u]
  <2>1. u \in Workers /\ u \in Threads
    BY <1>3, <1>5 DEF Workers
  <2>2. CASE pc'[u] = pc[u]
    BY <1>1, <2>1, <2>2 DEF Stage, Waiting, Fresh
  <2>3. CASE pc[u] \in OutPc /\ pc'[u] \in OutPc
    BY <1>1, <2>1, <2>3 DEF Stage, Waiting, Fresh, OutPc, BarPc
  <2> QED BY <1>1, <2>1, <2>2, <2>3
<1>6. pc'[0] # "return"
  BY ThreadsFinite, PoolTypes, WokenMoves DEF CallStep, GraphCompute, Return, Free, Join, SetPause, Go, OutPc
<1> QED BY <1>1, <1>2, <1>3, <1>4, <1>5, <1>6 DEF CallerPc

LEMMA KickoffStage ==
    ASSUME BaseInv, PathInv, Kickoff
    PROVE  /\ BaseInv' /\ pc'[0] = "start" /\ 0 \in Active'
           /\ \A u \in Active' : Stage'[u] = "new"
           /\ \A t, u \in Active : pieces[t] = pieces[u]
<1>1. \A u \in Threads : ~InGraph(u)
  BY OutsideGraph DEF Kickoff, CallerPc
<1>2. /\ BaseInv' /\ pc'[0] = "start" /\ 0 \in Active'
      /\ \A u \in Workers : Fresh(u)'
      /\ \A t, u \in Active : pieces[t] = pieces[u]
  BY <1>1, KickoffBase
<1>3. TypeOK'
  BY <1>2 DEF BaseInv, ThreadInv
<1>4. Active' \subseteq Threads
  <2>1. NThreads \in Nat /\ n_graph'.n \in 0 .. NThreads
    BY <1>3, PoolAssumption DEF TypeOK
  <2> QED BY <2>1 DEF Active, Threads
<1>5. \A u \in Active' : Stage'[u] = "new"
  BY <1>2, <1>4 DEF Stage, Workers
<1> QED BY <1>2, <1>5

\* A thread at its part of node m: every other is at the same node, on its way
\* to it, or done with its own part.
LEMMA SameNode ==
    ASSUME BaseInv, PathInv, NEW v \in Active, Stage[v] \in OnNode, NEW t \in Active
    PROVE  /\ node[v] \in 1 .. Len(cgraph) /\ cgraph[node[v]] # "nop"
           /\ \/ Stage[t] \in OnNode /\ node[t] = node[v]
              \/ /\ Stage[t] \in {"new", "loop"} /\ cgraph[node[v]] = "op"
                 /\ Pos(t) <= node[v] /\ Halt(Pos(t)) = node[v]
              \/ PartDone(t) /\ node[t] = node[v] + 1
<1> DEFINE m == node[v]
           L == Len(cgraph)
<1>1. /\ cgraph \in Seq(Kinds) /\ L \in Nat /\ abort \in Nat /\ t \in Threads /\ v \in Threads
      /\ node[t] \in Nat /\ node[t] >= 1 /\ m \in Nat /\ m >= 1
      /\ ret[t] \in {"return", "top", "loop", "mm_chunk"}
  BY PoolTypes
<1>2. /\ m <= L /\ cgraph[m] # "nop"
      /\ abort = 0 \/ m < abort
  <2>1. PlaceOf(v) /\ (abort # 0 => AbortOf(v))
    BY DEF PathInv, PlaceInv, AbortInv
  <2> QED BY <1>1, <2>1 DEF PlaceOf, AbortOf, OnNode, MulMat
<1>3. Site(t) = NodeSite(m)
  BY <1>1 DEF PathInv, Agree, Site, OnNode
<1>4. /\ NodeSite(m) = <<m + 1, "loop">> \/ (m = L /\ NodeSite(m) = EndSite)
      /\ \A j \in 1 .. L : NodeSite(j) = NodeSite(m) => j = m
      /\ \A j : NodeSite(m) # <<j, "mm_chunk">>
  BY <1>1, <1>2 DEF NodeSite, EndSite
<1>5. PlaceOf(t)
  BY DEF PathInv, PlaceInv
<1>6. CASE Stage[t] \in OnNode
  <2>1. NodeSite(node[t]) = NodeSite(m) /\ node[t] <= L
    BY <1>3, <1>5, <1>6 DEF PlaceOf, Site, OnNode
  <2>2. node[t] = m
    BY <1>1, <1>4, <2>1
  <2> QED BY <1>1, <1>2, <1>6, <2>2
<1>7. CASE Stage[t] \in {"new", "loop"}
  <2> DEFINE k == Pos(t)
  <2>1. k \in 1 .. (L + 1) /\ LoopSite(k) = NodeSite(m) /\ (Stage[t] = "new" => k = 1)
        /\ (Stage[t] = "loop" => k = node[t])
    BY <1>1, <1>3, <1>5, <1>7 DEF Pos, Site, PlaceOf
  <2> HIDE DEF k, m, L
  <2>2. CASE k > m
    <3>1. Halt(k) \in k .. (L + 1)
      BY <1>1, <2>1, HaltIs DEF L
    <3>2. LoopSite(k) = EndSite \/ (Halt(k) <= L /\ LoopSite(k) = NodeSite(Halt(k)))
          \/ \E j : LoopSite(k) = <<j, "mm_chunk">>
      BY <1>1, <3>1 DEF LoopSite, L
    <3>3. m = L
      BY <1>1, <1>2, <1>4, <2>1, <2>2, <3>1, <3>2 DEF EndSite
    <3>4. k = L + 1 /\ Stage[t] = "loop" /\ node[t] = L + 1
      BY <1>1, <1>7, <2>1, <2>2, <3>3
    <3> QED BY <1>1, <1>2, <3>3, <3>4 DEF PartDone, m, L
  <2>3. CASE k <= m
    <3>1. m \in Halts(k)
      BY <1>1, <1>2, <2>1, <2>3 DEF Halts, L
    <3>2. Halt(k) \in k .. m /\ Halt(k) <= L /\ abort # Halt(k)
      BY <1>1, <1>2, <2>1, <2>3, <3>1, HaltIs DEF L
    <3>3. LoopSite(k) = IF cgraph[Halt(k)] = "op" THEN NodeSite(Halt(k)) ELSE <<Halt(k), "mm_chunk">>
      BY <1>1, <3>2 DEF LoopSite, L
    <3>4. cgraph[Halt(k)] = "op" /\ Halt(k) = m
      BY <1>1, <1>4, <2>1, <3>2, <3>3
    <3> QED BY <1>1, <1>2, <1>7, <2>3, <3>4 DEF m, L, k
  <2> QED BY <1>1, <2>1, <2>2, <2>3
<1>8. CASE Stage[t] = "bar"
  <2>1. ret[t] # "mm_chunk"
    BY <1>1, <1>3, <1>4, <1>8 DEF Site, OnNode
  <2>2. CASE ret[t] = "loop"
    <3>1. <<node[t], "loop">> = NodeSite(m)
      BY <1>1, <1>3, <1>8, <2>2 DEF Site, OnNode
    <3>2. node[t] = m + 1
      BY <1>1, <1>4, <3>1 DEF EndSite
    <3> QED BY <1>1, <1>2, <1>8, <2>2, <3>2 DEF PartDone
  <2>3. CASE ret[t] \in {"return", "top"}
    <3>1. EndSite = NodeSite(m)
      BY <1>1, <1>3, <1>8, <2>3 DEF Site, OnNode
    <3>2. m = L
      BY <1>1, <1>4, <3>1 DEF EndSite
    <3>3. node[t] = L + 1
      BY <1>1, <1>2, <1>5, <1>8, <2>3, <3>2 DEF PlaceOf
    <3> QED BY <1>1, <1>2, <1>8, <3>2, <3>3 DEF PartDone
  <2> QED BY <1>1, <2>1, <2>2, <2>3
<1>9. Stage[t] # "mm_set"
  BY <1>1, <1>3, <1>4 DEF Site, OnNode
<1>10. Stage[t] # "out"
  <2>1. NodeSite(m) # OverSite
    BY <1>4 DEF EndSite, OverSite
  <2> QED BY <1>1, <1>3, <2>1, SiteOver
<1> QED BY <1>1, <1>2, <1>6, <1>7, <1>8, <1>9, <1>10, StageType DEF WalkPc, OnNode

\* A thread before the barrier inside mul_mat: no other has passed it.
LEMMA BeforeMulMat ==
    ASSUME BaseInv, PathInv, NEW v \in Active, NEW t \in Active,
           Stage[v] = "mm_set" \/ (Stage[v] = "bar" /\ ret[v] = "mm_chunk")
    PROVE  Stage[t] \notin OnNode /\ ~PartDone(t)
<1>1. /\ cgraph \in Seq(Kinds) /\ Len(cgraph) \in Nat /\ t \in Threads /\ v \in Threads
      /\ node[t] \in Nat /\ node[t] >= 1
      /\ ret[t] \in {"return", "top", "loop", "mm_chunk"}
  BY PoolTypes
<1>2. Site(v) = <<node[v], "mm_chunk">> /\ Site(t) = Site(v)
  BY <1>1 DEF PathInv, Agree, Site, OnNode
<1>3. Stage[t] \notin OnNode
  BY <1>1, <1>2, SameNode DEF Site, OnNode, NodeSite, EndSite
<1>4. ~(Stage[t] = "bar" /\ ret[t] = "loop")
  BY <1>1, <1>2 DEF Site, OnNode
<1>5. ~(Stage[t] = "loop" /\ node[t] > Len(cgraph))
  <2>1. SUFFICES ASSUME Stage[t] = "loop", node[t] > Len(cgraph) PROVE FALSE
    OBVIOUS
  <2>2. PlaceOf(t)
    BY DEF PathInv, PlaceInv
  <2>3. node[t] \in 1 .. (Len(cgraph) + 1)
    BY <1>1, <2>1, <2>2 DEF PlaceOf
  <2>4. Site(t) = EndSite
    BY <1>1, <2>1, <2>3, LoopSiteIs DEF Site
  <2> QED BY <1>2, <2>4 DEF EndSite
<1>6. ~(Stage[t] = "bar" /\ node[t] > Len(cgraph))
  <2>1. SUFFICES ASSUME Stage[t] = "bar", node[t] > Len(cgraph) PROVE FALSE
    OBVIOUS
  <2>2. PlaceOf(t)
    BY DEF PathInv, PlaceInv
  <2>3. ret[t] \notin {"loop", "mm_chunk"}
    BY <1>1, <2>1, <2>2 DEF PlaceOf
  <2>4. Site(t) = EndSite
    BY <2>1, <2>3 DEF Site, OnNode
  <2> QED BY <1>2, <2>4 DEF EndSite
<1> QED BY <1>3, <1>4, <1>5, <1>6 DEF PartDone

-----------------------------------------------------------------------------
(* The walk keeps the threads together. *)

\* What a step of the walk leaves alone.
LEMMA WalkFrame ==
    ASSUME BaseInv, NEW t \in Threads, Walk(t)
    PROVE  /\ UNCHANGED <<cgraph, n_graph>> /\ Active' = Active /\ t \in Active
           /\ \A u \in Threads \ {t} : /\ nth'[u] = nth[u] /\ node'[u] = node[u]
                                       /\ chunk'[u] = chunk[u] /\ ret'[u] = ret[u]
                                       /\ Stage'[u] = Stage[u] /\ pc'[u] = pc[u]
           /\ written \subseteq written' /\ wdata \subseteq wdata'
           /\ pc'[0] \in {"kickoff", "start"} => pc'[0] = pc[0]
<1>1. UNCHANGED <<cgraph, n_graph>>
  BY DEF Walk, Start, Loop, Op, MulMatSet, MulMatChunk, MulMatAdd, After, shared
<1>2. ASSUME NEW u \in Threads \ {t}
      PROVE  nth'[u] = nth[u] /\ node'[u] = node[u] /\ chunk'[u] = chunk[u] /\ ret'[u] = ret[u]
  BY <1>2, PoolTypes DEF Walk, Start, Loop, Op, MulMatSet, MulMatChunk, MulMatAdd, After, shared, local
<1>3. \A u \in Threads \ {t} : Stage'[u] = Stage[u] /\ pc'[u] = pc[u]
  BY WalkStage DEF OthersStay
<1>4. written \subseteq written' /\ wdata \subseteq wdata'
  BY DEF Walk, Start, Loop, Op, MulMatSet, MulMatChunk, MulMatAdd, After, Writes, ghost
<1>5. pc'[0] \in {"kickoff", "start"} => pc'[0] = pc[0]
  BY ComputeMember DEF Walk, Compute, BaseInv
<1>6. Active' = Active /\ t \in Active
  BY <1>1, WalkStage DEF Active
<1> QED BY <1>1, <1>2, <1>3, <1>4, <1>5, <1>6

\* The step of a thread does not change the barrier it is bound for.
LEMMA LoopPath ==
    ASSUME BaseInv, PathInv, NEW t \in Threads, Start(t) \/ Loop(t)
    PROVE  Site(t)' = Site(t) /\ PlaceOf(t)' /\ (abort # 0 => AbortOf(t)') /\ UNCHANGED <<abort, ec>>
<1> DEFINE k == node[t]
           L == Len(cgraph)
<1>1. /\ cgraph \in Seq(Kinds) /\ L \in Nat /\ abort \in Nat /\ k \in Nat /\ k >= 1
      /\ ret \in [Threads -> {"return", "top", "loop", "mm_chunk"}]
      /\ node \in [Threads -> Nat] /\ nth \in [Threads -> 0 .. NThreads]
      /\ pc \in [Threads -> Pcs]
  BY PoolTypes
<1>2. /\ t \in Active /\ UNCHANGED <<cgraph, n_graph, abort, ec>>
      /\ Stage[t] = IF pc[t] = "start" THEN "new" ELSE pc[t]
      /\ Stage'[t] = IF pc'[t] = "enter" THEN "bar" ELSE pc'[t]
  BY WalkStage DEF Walk, Start, Loop, shared
<1>3. PlaceOf(t) /\ (abort # 0 => AbortOf(t))
  BY <1>2 DEF PathInv, PlaceInv, AbortInv
<1>4. \A j : LoopSite(j)' = LoopSite(j) /\ NodeSite(j)' = NodeSite(j)
  BY <1>2, SiteFrame
<1>5. CASE Start(t)
  <2>1. /\ Stage[t] = "new" /\ Stage'[t] = "loop" /\ node'[t] = 1 /\ nth'[t] = n_graph.n
        /\ (t = 0 => abort = 0)
    BY <1>1, <1>2, <1>5 DEF Start, Go, PathInv, AbortInv
  <2>2. Site(t)' = Site(t)
    BY <1>4, <2>1 DEF Site
  <2>3. PlaceOf(t)'
    BY <1>1, <1>2, <2>1 DEF PlaceOf, OnNode
  <2>4. abort # 0 => AbortOf(t)'
    BY <1>1, <1>2, <2>1 DEF AbortOf, OnNode
  <2> QED BY <1>2, <2>2, <2>3, <2>4
<1>6. CASE Loop(t)
  <2>1. /\ Stage[t] = "loop" /\ k <= L + 1 /\ nth[t] = n_graph.n /\ nth'[t] = nth[t]
        /\ (abort # 0 => k <= abort /\ (t = 0 => k = abort))
    BY <1>2, <1>3, <1>6 DEF Loop, PlaceOf, AbortOf
  <2>2. k \in 1 .. (L + 1) /\ Site(t) = LoopSite(k)
    BY <1>1, <2>1 DEF Site
  <2>3. CASE k > L \/ abort = k
    <3>1. Stage'[t] = "bar" /\ ret'[t] = Finished(t) /\ node'[t] = k
      BY <1>1, <1>2, <1>6, <2>3 DEF Loop, Go
    <3>2. ret'[t] \in {"return", "top"}
      BY <3>1 DEF Finished
    <3>3. Site(t)' = EndSite /\ LoopSite(k) = EndSite
      BY <1>1, <2>2, <2>3, <3>1, <3>2, LoopSiteIs DEF Site, OnNode, EndSite
    <3>4. PlaceOf(t)'
      BY <1>1, <1>2, <2>1, <2>3, <3>1, <3>2 DEF PlaceOf, OnNode
    <3>5. abort # 0 => AbortOf(t)'
      BY <1>1, <1>2, <2>1, <3>1, <3>2 DEF AbortOf, OnNode
    <3> QED BY <1>2, <2>2, <3>3, <3>4, <3>5
  <2>4. CASE ~(k > L \/ abort = k) /\ cgraph[k] = "nop"
    <3>1. Stage'[t] = "loop" /\ node'[t] = k + 1
      BY <1>1, <1>2, <1>6, <2>4 DEF Loop, Go
    <3>2. Site(t)' = LoopSite(k + 1) /\ LoopSite(k) = LoopSite(k + 1)
      BY <1>1, <1>4, <2>2, <2>4, <3>1, LoopSiteIs DEF Site
    <3>3. PlaceOf(t)'
      BY <1>1, <1>2, <2>1, <2>4, <3>1 DEF PlaceOf, OnNode
    <3>4. abort # 0 => AbortOf(t)'
      BY <1>1, <1>2, <2>1, <2>4, <3>1 DEF AbortOf, OnNode
    <3> QED BY <1>2, <2>2, <3>2, <3>3, <3>4
  <2>5. CASE ~(k > L \/ abort = k) /\ cgraph[k] # "nop"
    <3>1. /\ Stage'[t] = (IF cgraph[k] = "op" THEN "op" ELSE "mm_set") /\ node'[t] = k
          /\ cgraph[k] = "op" \/ MulMat(k)
      <4>1. cgraph[k] \in Kinds
        BY <1>1, <2>5
      <4> QED BY <1>1, <1>2, <1>6, <2>5, <4>1 DEF Loop, Go, Kinds, MulMat
    <3>2. Site(t)' = LoopSite(k)
      BY <1>1, <1>4, <2>2, <2>5, <3>1, LoopSiteIs DEF Site, OnNode, MulMat
    <3>3. PlaceOf(t)'
      BY <1>1, <1>2, <2>1, <2>5, <3>1 DEF PlaceOf, OnNode, MulMat
    <3>4. abort # 0 => AbortOf(t)'
      BY <1>1, <1>2, <2>1, <2>5, <3>1 DEF AbortOf, OnNode
    <3> QED BY <1>2, <2>2, <3>2, <3>3, <3>4
  <2> QED BY <2>3, <2>4, <2>5
<1> QED BY <1>5, <1>6

LEMMA NodePath ==
    ASSUME BaseInv, PathInv, NEW t \in Threads,
           Op(t) \/ MulMatSet(t) \/ MulMatChunk(t) \/ MulMatAdd(t)
    PROVE  Site(t)' = Site(t) /\ PlaceOf(t)' /\ (abort # 0 => AbortOf(t)') /\ UNCHANGED <<abort, ec>>
<1> DEFINE m == node[t]
           L == Len(cgraph)
<1>1. /\ cgraph \in Seq(Kinds) /\ L \in Nat /\ abort \in Nat /\ m \in Nat /\ m >= 1
      /\ ret \in [Threads -> {"return", "top", "loop", "mm_chunk"}]
      /\ pc \in [Threads -> Pcs] /\ nth \in [Threads -> 0 .. NThreads] /\ NThreads \in Nat
  BY PoolTypes
<1>2. /\ t \in Active /\ UNCHANGED <<cgraph, n_graph, abort, ec, node, nth>>
      /\ Stage[t] = pc[t] /\ Stage'[t] = IF pc'[t] = "enter" THEN "bar" ELSE pc'[t]
  BY WalkStage DEF Walk, Op, MulMatSet, MulMatChunk, MulMatAdd, shared, local
<1>3. PlaceOf(t) /\ (abort # 0 => AbortOf(t))
  BY <1>2 DEF PathInv, PlaceInv, AbortInv
<1>4. \A j : NodeSite(j)' = NodeSite(j)
  BY <1>2, SiteFrame
<1>5. CASE MulMatSet(t)
  <2>1. Stage[t] = "mm_set" /\ Stage'[t] = "bar" /\ ret'[t] = "mm_chunk"
    BY <1>1, <1>2, <1>5 DEF MulMatSet, Go
  <2>2. Site(t)' = Site(t)
    BY <1>2, <2>1 DEF Site, OnNode
  <2>3. PlaceOf(t)'
    BY <1>1, <1>2, <1>3, <2>1 DEF PlaceOf, OnNode, MulMat
  <2>4. abort # 0 => AbortOf(t)'
    BY <1>1, <1>2, <1>3, <2>1 DEF AbortOf, OnNode
  <2> QED BY <1>2, <2>2, <2>3, <2>4
<1>6. CASE Op(t) \/ MulMatChunk(t) \/ MulMatAdd(t)
  <2>1. /\ Stage[t] \in {"op", "mm_chunk", "mm_add"}
        /\ Stage'[t] \in {"after", "mm_chunk", "mm_add"}
        /\ Stage'[t] \in {"mm_chunk", "mm_add"} => MulMat(m)
        /\ Stage'[t] = "mm_add" => cgraph[m] = "mul_mat_chunked"
        /\ cgraph[m] # "nop"
    <3>1. CASE Op(t)
      BY <1>1, <1>2, <1>3, <3>1 DEF Op, Go, PlaceOf
    <3>2. CASE MulMatAdd(t)
      BY <1>1, <1>2, <1>3, <3>2 DEF MulMatAdd, Go, PlaceOf, MulMat
    <3>3. CASE MulMatChunk(t)
      <4>1. cgraph[m] = "mul_mat" => nth[t] >= NChunks(cgraph[m], nth[t])
        BY <1>1 DEF NChunks
      <4>2. Stage[t] = "mm_chunk" /\ MulMat(m)
        BY <1>2, <1>3, <3>3 DEF MulMatChunk, PlaceOf
      <4> QED BY <1>1, <1>2, <3>3, <4>1, <4>2 DEF MulMatChunk, Go, MulMat
    <3> QED BY <1>6, <3>1, <3>2, <3>3
  <2>2. Site(t)' = Site(t)
    BY <1>2, <1>4, <2>1 DEF Site, OnNode
  <2>3. PlaceOf(t)'
    BY <1>1, <1>2, <1>3, <2>1 DEF PlaceOf, OnNode, MulMat
  <2>4. abort # 0 => AbortOf(t)'
    BY <1>1, <1>2, <1>3, <2>1 DEF AbortOf, OnNode
  <2> QED BY <1>2, <2>2, <2>3, <2>4
<1> QED BY <1>5, <1>6

\* The end of a node, without the abort.
LEMMA AfterPath ==
    ASSUME BaseInv, PathInv, NEW t \in Threads, After(t, FALSE)
    PROVE  Site(t)' = Site(t) /\ PlaceOf(t)' /\ (abort # 0 => AbortOf(t)') /\ UNCHANGED <<abort, ec>>
<1> DEFINE m == node[t]
           L == Len(cgraph)
<1>1. /\ cgraph \in Seq(Kinds) /\ L \in Nat /\ abort \in Nat /\ m \in Nat /\ m >= 1
      /\ ret \in [Threads -> {"return", "top", "loop", "mm_chunk"}]
      /\ node \in [Threads -> Nat] /\ pc \in [Threads -> Pcs]
  BY PoolTypes
<1>2. /\ t \in Active /\ UNCHANGED <<cgraph, n_graph, abort, ec, nth>>
      /\ Stage[t] = "after" /\ Stage'[t] = IF pc'[t] = "enter" THEN "bar" ELSE pc'[t]
  BY WalkStage DEF Walk, After, shared
<1>3. PlaceOf(t) /\ (abort # 0 => AbortOf(t))
  BY <1>2 DEF PathInv, PlaceInv, AbortInv
<1>4. m <= L /\ (abort # 0 => m < abort /\ t # 0) /\ nth[t] = n_graph.n
  BY <1>2, <1>3 DEF PlaceOf, AbortOf, OnNode
<1>5. /\ node'[t] = m + 1 /\ ret'[t] = "loop"
      /\ Stage'[t] = IF m < L THEN "bar" ELSE "loop"
  BY <1>1, <1>2 DEF After, Go
<1>6. Site(t)' = Site(t)
  <2>1. Site(t) = NodeSite(m)
    BY <1>2 DEF Site, OnNode
  <2>2. CASE m < L
    BY <1>5, <2>1, <2>2 DEF Site, NodeSite, OnNode
  <2>3. CASE m = L
    <3>1. LoopSite(L + 1) = EndSite /\ \A j : LoopSite(j)' = LoopSite(j)
      <4>1. L + 1 \in 1 .. (L + 1) /\ L + 1 > L
        BY <1>1
      <4>2. LoopSite(L + 1) = EndSite
        BY <1>1, <4>1, LoopSiteIs
      <4>3. \A j : LoopSite(j)' = LoopSite(j)
        BY <1>2, SiteFrame
      <4> QED BY <4>2, <4>3
    <3>2. Stage'[t] = "loop" /\ node'[t] = L + 1
      BY <1>1, <1>5, <2>3
    <3>3. Site(t)' = LoopSite(L + 1)
      BY <3>1, <3>2 DEF Site
    <3> QED BY <1>1, <2>1, <2>3, <3>1, <3>3 DEF NodeSite
  <2> QED BY <1>1, <1>4, <2>2, <2>3
<1>7. PlaceOf(t)'
  BY <1>1, <1>2, <1>4, <1>5 DEF PlaceOf, OnNode
<1>8. abort # 0 => AbortOf(t)'
  BY <1>1, <1>2, <1>4, <1>5 DEF AbortOf, OnNode
<1> QED BY <1>2, <1>6, <1>7, <1>8

\* The abort node is the one after that at which all threads meet, or behind the end.
LEMMA AbortSite ==
    ASSUME cgraph \in Seq(Kinds), abort = 0, cgraph' = cgraph,
           NEW k \in 1 .. (Len(cgraph) + 1), NEW m \in 1 .. Len(cgraph), abort' = m + 1,
           Halt(k) = m \/ m = Len(cgraph)
    PROVE  LoopSite(k)' = LoopSite(k)
<1> DEFINE L == Len(cgraph)
<1>1. L \in Nat /\ L' = L
  OBVIOUS
<1>2. \A j : NodeSite(j)' = NodeSite(j)
  BY DEF NodeSite, EndSite
<1>3. Halt(k) \in k .. (L + 1)
  BY HaltIs
<1>4. CASE m = L
  <2>1. Halts(k)' = Halts(k)
    BY <1>1, <1>4 DEF Halts
  <2>2. Halt(k)' = Halt(k)
    BY <2>1 DEF Halt
  <2>3. abort' = Halt(k) <=> Halt(k) > L
    BY <1>1, <1>3, <1>4
  <2>4. abort # Halt(k)
    BY <1>1, <1>3
  <2> QED BY <1>2, <2>2, <2>3, <2>4 DEF LoopSite, EndSite
<1>5. CASE Halt(k) = m
  <2> DEFINE S == Halts(k)'
  <2>1. S = {j \in k .. (L + 1) : j = L + 1 \/ m + 1 = j \/ cgraph[j] # "nop"}
    BY DEF Halts
  <2>2. m \in S /\ S \in SUBSET Nat
    BY <1>1, <1>3, <1>5, <2>1, HaltIs
  <2>3. \A j \in S : m <= j
    <3>1. \A j \in S : j = m + 1 \/ j \in Halts(k)
      BY <1>1, <2>1 DEF Halts
    <3> QED BY <1>1, <1>5, <3>1, HaltIs
  <2> HIDE DEF S
  <2>4. Least(S) \in S /\ Least(S) <= m
    BY <2>2, LeastNat
  <2>5. Least(S) = m
    <3>1. m <= Least(S) /\ Least(S) \in Nat
      BY <2>2, <2>3, <2>4
    <3> QED BY <2>4, <3>1
  <2>6. Halt(k)' = m
    BY <2>5 DEF Halt, S
  <2>7. abort' # m /\ abort # m
    BY <1>1
  <2> QED BY <1>2, <1>5, <2>6, <2>7 DEF LoopSite, EndSite
<1> QED BY <1>4, <1>5

\* The end of a node: thread 0 aborts.
LEMMA AbortPath ==
    ASSUME BaseInv, PathInv, After(0, TRUE)
    PROVE  PathInv'
<1> DEFINE m == node[0]
           L == Len(cgraph)
<1>1. /\ cgraph \in Seq(Kinds) /\ L \in Nat /\ abort \in Nat /\ m \in Nat /\ m >= 1
      /\ ret \in [Threads -> {"return", "top", "loop", "mm_chunk"}]
      /\ node \in [Threads -> Nat] /\ pc \in [Threads -> Pcs] /\ 0 \in Threads
      /\ Active \subseteq Threads
  BY PoolTypes
<1>2. /\ UNCHANGED <<cgraph, n_graph, nth>> /\ Active' = Active /\ 0 \in Active
      /\ \A u \in Threads \ {0} : node'[u] = node[u] /\ ret'[u] = ret[u] /\ Stage'[u] = Stage[u]
  BY <1>1, WalkFrame DEF Walk, After
<1>3. Stage[0] = "after" /\ Stage'[0] = IF pc'[0] = "enter" THEN "bar" ELSE pc'[0]
  BY <1>1, WalkStage DEF Walk, After
<1>4. PlaceOf(0) /\ (abort # 0 => AbortOf(0))
  BY <1>2 DEF PathInv, PlaceInv, AbortInv
<1>5. abort = 0 /\ m <= L /\ nth[0] = n_graph.n
  BY <1>3, <1>4 DEF AbortOf, PlaceOf, OnNode
<1>6. /\ abort' = m + 1 /\ ec' = "aborted" /\ node'[0] = m + 1 /\ ret'[0] = "loop"
      /\ pc'[0] = (IF m < L THEN "enter" ELSE "loop")
  BY <1>1 DEF After, Go
<1>7. Stage'[0] = IF m < L THEN "bar" ELSE "loop"
  BY <1>3, <1>6
<1>8. \A k \in 1 .. (L + 1) : Halt(k) = m \/ m = L => LoopSite(k)' = LoopSite(k)
  <2>1. m \in 1 .. L
    BY <1>1, <1>5
  <2> QED BY <1>1, <1>2, <1>5, <1>6, <2>1, AbortSite
<1>9. \A j : NodeSite(j)' = NodeSite(j)
  BY <1>2 DEF NodeSite, EndSite
<1>10. Site(0)' = Site(0)
  <2>1. Site(0) = NodeSite(m)
    BY <1>3 DEF Site, OnNode
  <2>2. CASE m < L
    BY <1>6, <1>7, <2>1, <2>2 DEF Site, NodeSite, OnNode
  <2>3. CASE m = L
    <3>1. Site(0)' = LoopSite(L + 1)
      BY <1>1, <1>6, <1>7, <1>8, <2>3 DEF Site
    <3>2. LoopSite(L + 1) = EndSite
      BY <1>1, LoopSiteIs
    <3> QED BY <2>1, <2>3, <3>1, <3>2 DEF NodeSite
  <2> QED BY <1>1, <1>5, <2>2, <2>3
<1>11. ASSUME NEW u \in Active \ {0} PROVE PlaceOf(u)' /\ AbortOf(u)' /\ Site(u)' = Site(u)
  <2>1. u \in Threads /\ PlaceOf(u) /\ node[u] \in Nat /\ node[u] >= 1
        /\ ret[u] \in {"return", "top", "loop", "mm_chunk"}
    BY <1>1, <1>11, PoolTypes DEF PathInv, PlaceInv
  <2>2. /\ node'[u] = node[u] /\ ret'[u] = ret[u] /\ Stage'[u] = Stage[u] /\ nth'[u] = nth[u]
    BY <1>2, <2>1
  <2>3. PlaceOf(u)'
    BY <1>1, <1>2, <1>5, <2>1, <2>2 DEF PlaceOf, MulMat
  <2>4. \/ Stage[u] \in OnNode /\ node[u] = m
        \/ Stage[u] \in {"new", "loop"} /\ Pos(u) <= m /\ Halt(Pos(u)) = m
        \/ PartDone(u) /\ node[u] = m + 1
    BY <1>2, <1>3, <1>11, SameNode DEF OnNode
  <2>5. CASE Stage[u] \in OnNode /\ node[u] = m
    <3>1. Site(u)' = Site(u)
      BY <1>9, <2>2, <2>5 DEF Site, OnNode
    <3>2. AbortOf(u)'
      BY <1>1, <1>6, <1>11, <2>2, <2>5 DEF AbortOf, OnNode
    <3> QED BY <2>3, <3>1, <3>2
  <2>6. CASE Stage[u] \in {"new", "loop"} /\ Pos(u) <= m /\ Halt(Pos(u)) = m
    <3>1. Site(u) = LoopSite(Pos(u)) /\ Pos(u) \in 1 .. (L + 1)
      BY <1>1, <1>5, <2>1, <2>6 DEF Site, Pos
    <3>2. Site(u)' = LoopSite(Pos(u))
      BY <1>8, <2>2, <2>6, <3>1 DEF Site, Pos
    <3>3. AbortOf(u)'
      BY <1>1, <1>6, <1>11, <2>1, <2>2, <2>6 DEF AbortOf, OnNode, Pos
    <3> QED BY <2>3, <3>1, <3>2, <3>3
  <2>7. CASE PartDone(u) /\ node[u] = m + 1
    <3>1. Site(u)' = Site(u)
      <4>1. CASE Stage[u] = "bar"
        BY <2>2, <4>1 DEF Site, OnNode, EndSite
      <4>2. CASE Stage[u] # "bar"
        <5>1. Stage[u] = "loop" /\ m = L
          BY <1>1, <1>5, <2>7, <4>2 DEF PartDone
        <5>2. L + 1 \in 1 .. (L + 1)
          BY <1>1
        <5> QED BY <1>8, <2>2, <2>7, <5>1, <5>2 DEF Site
      <4> QED BY <4>1, <4>2
    <3>2. Stage[u] \in {"loop", "bar"}
      BY <2>7 DEF PartDone
    <3>3. ~(Stage[u] = "bar" /\ ret[u] = "mm_chunk")
      BY <1>1, <1>5, <2>1, <2>7 DEF PartDone, PlaceOf
    <3>4. AbortOf(u)'
      BY <1>1, <1>6, <1>11, <2>2, <2>7, <3>2, <3>3 DEF AbortOf, OnNode
    <3> QED BY <2>3, <3>1, <3>4
  <2> QED BY <2>4, <2>5, <2>6, <2>7
<1>12. PlaceOf(0)' /\ AbortOf(0)'
  <2>1. nth'[0] = n_graph'.n
    BY <1>2, <1>5
  <2>2. PlaceOf(0)'
    BY <1>1, <1>2, <1>5, <1>6, <1>7, <2>1 DEF PlaceOf, OnNode
  <2>3. AbortOf(0)'
    BY <1>1, <1>6, <1>7 DEF AbortOf, OnNode
  <2> QED BY <2>2, <2>3
<1>13. PlaceInv'
  BY <1>2, <1>11, <1>12 DEF PlaceInv
<1>14. AbortInv'
  <2>1. abort' # 0 /\ pc'[0] \notin {"kickoff", "start"}
    BY <1>1, <1>6
  <2> QED BY <1>2, <1>6, <1>11, <1>12, <2>1 DEF AbortInv
<1>15. Agree'
  BY <1>2, <1>10, <1>11 DEF PathInv, Agree
<1> QED BY <1>13, <1>14, <1>15 DEF PathInv

\* A step of the walk.
LEMMA WalkPath ==
    ASSUME BaseInv, PathInv, NEW t \in Threads, Walk(t)
    PROVE  PathInv'
<1>1. CASE t = 0 /\ After(0, TRUE)
  BY <1>1, AbortPath
<1>2. CASE ~(t = 0 /\ After(0, TRUE))
  <2>1. \/ Start(t) \/ Loop(t) \/ After(t, FALSE)
        \/ Op(t) \/ MulMatSet(t) \/ MulMatChunk(t) \/ MulMatAdd(t)
    BY <1>2 DEF Walk, After
  <2>2. /\ Site(t)' = Site(t) /\ PlaceOf(t)' /\ (abort # 0 => AbortOf(t)')
        /\ UNCHANGED <<abort, ec>>
    BY <2>1, LoopPath, NodePath, AfterPath
  <2>3. /\ UNCHANGED <<cgraph, n_graph>> /\ Active' = Active /\ t \in Active
        /\ \A u \in Threads \ {t} : /\ nth'[u] = nth[u] /\ node'[u] = node[u]
                                    /\ ret'[u] = ret[u] /\ Stage'[u] = Stage[u]
        /\ pc'[0] \in {"kickoff", "start"} => pc'[0] = pc[0]
        /\ Active \subseteq Threads /\ 0 \in Threads
    BY WalkFrame, PoolTypes
  <2>4. \A u \in Threads \ {t} : Site(u)' = Site(u)
    BY <2>2, <2>3, SiteFrame
  <2>5. ASSUME NEW u \in Active \ {t} PROVE PlaceOf(u)' /\ (abort # 0 => AbortOf(u)')
    <3>1. u \in Threads /\ PlaceOf(u) /\ (abort # 0 => AbortOf(u))
      BY <2>3, <2>5 DEF PathInv, PlaceInv, AbortInv
    <3>2. PlaceOf(u)'
      BY <2>2, <2>3, <2>5, <3>1 DEF PlaceOf, MulMat
    <3>3. abort # 0 => AbortOf(u)'
      BY <2>2, <2>3, <2>5, <3>1 DEF AbortOf
    <3> QED BY <3>2, <3>3
  <2>6. PlaceInv'
    BY <2>2, <2>3, <2>5 DEF PlaceInv
  <2>7. AbortInv'
    BY <2>2, <2>3, <2>5 DEF AbortInv, PathInv
  <2>8. Agree'
    BY <2>2, <2>3, <2>4 DEF Agree, PathInv
  <2> QED BY <2>6, <2>7, <2>8 DEF PathInv
<1> QED BY <1>1, <1>2

\* Nobody's place changes.
LEMMA HiddenPath ==
    ASSUME BaseInv, PathInv, Hidden
    PROVE  PathInv'
<1>1. Active' = Active /\ Active \subseteq Threads /\ 0 \in Threads
  BY PoolTypes DEF Hidden, walk, Active
<1>2. UNCHANGED <<cgraph, abort, ec, n_graph, nth, node, ret>>
  BY DEF Hidden, walk
<1>3. \A u \in Active : Stage'[u] = Stage[u]
  BY DEF Hidden
<1>4. \A u \in Active \cup {0} : Site(u)' = Site(u)
  BY <1>1, <1>2, SiteFrame DEF Hidden
<1>5. ASSUME NEW u \in Active PROVE PlaceOf(u)' /\ (abort # 0 => AbortOf(u)')
  <2>1. PlaceOf(u) /\ (abort # 0 => AbortOf(u)) /\ Stage'[u] = Stage[u]
    BY <1>3 DEF PathInv, PlaceInv, AbortInv
  <2>2. PlaceOf(u)'
    BY <1>2, <2>1 DEF PlaceOf, MulMat
  <2>3. abort # 0 => AbortOf(u)'
    BY <1>2, <2>1 DEF AbortOf
  <2> QED BY <2>2, <2>3
<1>6. PlaceInv'
  BY <1>1, <1>5 DEF PlaceInv
<1>7. AbortInv'
  <2>1. pc'[0] \in {"kickoff", "start"} => pc'[0] = pc[0]
    BY DEF Hidden
  <2> QED BY <1>1, <1>2, <1>5, <2>1 DEF AbortInv, PathInv
<1>8. Agree'
  BY <1>1, <1>4 DEF Agree, PathInv
<1> QED BY <1>6, <1>7, <1>8 DEF PathInv

\* All threads are at the same barrier when it opens.
LEMMA OneBarrier ==
    ASSUME BaseInv, PathInv, \A u \in Active : Stage[u] = "bar", NEW t \in Active
    PROVE  /\ ret[t] = "loop" \/ ret[t] = "mm_chunk" \/ ret[t] \in {"top", "return"}
           /\ \A u \in Active :
                /\ ret[t] \in {"loop", "mm_chunk"} => ret[u] = ret[t] /\ node[u] = node[t]
                /\ ret[t] \in {"top", "return"} => ret[u] \in {"top", "return"}
<1>1. \A u \in Active : ret[u] \in {"return", "top", "loop", "mm_chunk"} /\ Site(u) = Site(t)
  BY PoolTypes DEF PathInv, Agree
<1>2. \A u \in Active : Site(u) = IF ret[u] \in {"loop", "mm_chunk"} THEN <<node[u], ret[u]>>
                                  ELSE EndSite
  BY DEF Site, OnNode
<1> QED BY <1>1, <1>2 DEF EndSite

LEMMA OpensPath ==
    ASSUME BaseInv, PathInv, Opens
    PROVE  PathInv'
<1>1. Active' = Active /\ Active \subseteq Threads /\ 0 \in Active /\ 0 \in Threads
  BY PoolTypes DEF Opens, walk, Active
<1>2. UNCHANGED <<cgraph, abort, ec, n_graph, nth, node, ret>>
  BY DEF Opens, walk
<1>3. \A u \in Active : /\ Stage[u] = "bar"
                        /\ Stage'[u] = IF ret[u] \in {"loop", "mm_chunk"} THEN ret[u] ELSE "out"
  BY DEF Opens
<1>4. \A k : LoopSite(k)' = LoopSite(k) /\ NodeSite(k)' = NodeSite(k)
  BY <1>2, SiteFrame
<1>5. \A u \in Active : Site(u)' = IF ret[u] = "loop" THEN LoopSite(node[u])
                                   ELSE IF ret[u] = "mm_chunk" THEN NodeSite(node[u]) ELSE OverSite
  BY <1>2, <1>3, <1>4 DEF Site, OnNode, OverSite
<1>6. Agree'
  <2>1. \A u \in Active : Site(u)' = Site(0)'
    BY <1>1, <1>3, <1>5, OneBarrier
  <2> QED BY <1>1, <2>1 DEF Agree
<1>7. ASSUME NEW u \in Active PROVE PlaceOf(u)' /\ (abort # 0 => AbortOf(u)')
  <2>1. /\ PlaceOf(u) /\ (abort # 0 => AbortOf(u)) /\ Stage[u] = "bar"
        /\ Stage'[u] = IF ret[u] \in {"loop", "mm_chunk"} THEN ret[u] ELSE "out"
    BY <1>3, <1>7 DEF PathInv, PlaceInv, AbortInv
  <2>2. node[u] \in Nat /\ Len(cgraph) \in Nat /\ abort \in Nat
    BY <1>1, PoolTypes
  <2>3. PlaceOf(u)'
    BY <1>2, <2>1, <2>2 DEF PlaceOf, MulMat, OnNode
  <2>4. abort # 0 => AbortOf(u)'
    BY <1>2, <2>1, <2>2 DEF AbortOf, OnNode
  <2> QED BY <2>3, <2>4
<1>8. PlaceInv'
  BY <1>1, <1>7 DEF PlaceInv
<1>9. AbortInv'
  <2>1. pc'[0] \notin {"kickoff", "start"}
    BY DEF Opens
  <2> QED BY <1>1, <1>2, <1>7, <2>1 DEF AbortInv, PathInv
<1> QED BY <1>6, <1>8, <1>9 DEF PathInv

\* The caller between two graphs.
LEMMA CallPath ==
    ASSUME BaseInv, PathInv, CallStep
    PROVE  PathInv'
<1>1. /\ Active' = Active /\ \A u \in Active : Stage'[u] = "out"
      /\ Stage'[0] = "out" /\ pc'[0] # "start"
  BY CallStage
<1>2. PlaceInv'
  BY <1>1 DEF PlaceInv, PlaceOf, OnNode
<1>3. \A u \in Active \cup {0} : Site(u)' = OverSite
  BY <1>1 DEF Site, OnNode, OverSite
<1>4. Agree'
  BY <1>1, <1>3 DEF Agree
<1>5. \A u \in Active : AbortOf(u)'
  BY <1>1 DEF AbortOf, OnNode
<1>6. AbortInv'
  <2>1. CASE \E g \in Graphs, n \in 1 .. (NThreads + 1) : GraphCompute(g, n)
    BY <1>1, <2>1 DEF GraphCompute, AbortInv
  <2>2. CASE ~\E g \in Graphs, n \in 1 .. (NThreads + 1) : GraphCompute(g, n)
    <3>1. UNCHANGED <<abort, ec>> /\ pc'[0] # "kickoff"
      BY <2>2, PoolTypes, WokenMoves
         DEF CallStep, Return, Free, Join, SetPause, shared, Go, OutPc
    <3> QED BY <1>1, <1>5, <3>1 DEF AbortInv, PathInv
  <2> QED BY <2>1, <2>2
<1> QED BY <1>2, <1>4, <1>6 DEF PathInv

\* A new graph: everyone is before its first node.
LEMMA KickoffPath ==
    ASSUME BaseInv, PathInv, Kickoff
    PROVE  PathInv'
<1>1. 0 \in Active' /\ \A u \in Active' : Stage'[u] = "new"
  BY KickoffStage
<1>2. PlaceInv'
  BY <1>1 DEF PlaceInv, PlaceOf, OnNode
<1>3. Agree'
  BY <1>1 DEF Agree, Site
<1>4. AbortInv'
  BY DEF AbortInv, PathInv, Kickoff
<1> QED BY <1>2, <1>3, <1>4 DEF PathInv

-----------------------------------------------------------------------------
(* The walk leaves complete nodes behind. *)

LEMMA ResultsGrow ==
    ASSUME UNCHANGED <<cgraph, n_graph>>, written \subseteq written'
    PROVE  /\ Active' = Active
           /\ \A k : Chunks(k)' = Chunks(k) /\ (NodeDone(k) => NodeDone(k)') /\ MulMat(k)' = MulMat(k)
<1>1. Active' = Active
  BY DEF Active
<1>2. \A k : Chunks(k)' = Chunks(k)
  BY DEF Chunks, NChunks
<1>3. \A k : NodeDone(k) => NodeDone(k)'
  BY <1>2 DEF NodeDone
<1>4. \A k : MulMat(k)' = MulMat(k)
  BY DEF MulMat
<1> QED BY <1>1, <1>2, <1>3, <1>4

\* A thread that does not step, when no chunk is given or computed.
LEMMA DataFrame ==
    ASSUME NEW u \in Active, DataOf(u), UNCHANGED <<cgraph, n_graph, written, current_chunk>>,
           wdata \subseteq wdata', \A c : Held(c)' = Held(c),
           Stage'[u] = Stage[u], node'[u] = node[u], ret'[u] = ret[u], chunk'[u] = chunk[u]
    PROVE  DataOf(u)'
<1>1. /\ Active' = Active
      /\ \A k : Chunks(k)' = Chunks(k) /\ (NodeDone(k) => NodeDone(k)') /\ MulMat(k)' = MulMat(k)
  BY ResultsGrow
<1>2. Known(u)' = Known(u) /\ PartDone(u)' = PartDone(u) /\ Pos(u)' = Pos(u)
  BY DEF Known, PartDone, Pos
<1>3. \A m : Taken(m)' = Taken(m)
  BY <1>1 DEF Taken, NChunks
<1>4. \A m : Part(u, m)' = Part(u, m)
  BY <1>1, <1>3 DEF Part
<1>5. DoneOf(u)'
  BY <1>1, <1>2, <1>4 DEF DataOf, DoneOf
<1>6. WrittenOf(u)'
  BY <1>1, <1>2 DEF DataOf, WrittenOf
<1>7. ChunkOf(u)'
  BY <1>1 DEF DataOf, ChunkOf
<1>8. WdataOf(u)'
  BY <1>1 DEF DataOf, WdataOf
<1> QED BY <1>5, <1>6, <1>7, <1>8 DEF DataOf

\* Nobody comes to or leaves a chunk.
LEMMA HeldFrame ==
    ASSUME Active' = Active,
           \A u \in Active : \/ Stage'[u] = Stage[u] /\ chunk'[u] = chunk[u]
                             \/ Stage'[u] # "mm_chunk" /\ Stage[u] # "mm_chunk"
    PROVE  (\A c : Held(c)' = Held(c)) /\ (Distinct => Distinct')
<1>1. \A c : Held(c)' = Held(c)
  BY DEF Held
<1>2. Distinct => Distinct'
  BY DEF Distinct
<1> QED BY <1>1, <1>2

\* The results after a step of the walk.
LEMMA WalkResults ==
    ASSUME BaseInv, NEW t \in Threads, Walk(t), ResultsInv
    PROVE  ResultsInv'
<1>1. /\ UNCHANGED <<cgraph, n_graph>> /\ written \subseteq written'
      /\ \A u \in Threads \ {t} : Stage'[u] = Stage[u] /\ pc'[u] = pc[u]
  BY WalkFrame
<1>2. Stage'[t] # "out" /\ 0 \in Threads
  <2>1. Stage'[t] = IF pc'[t] = "enter" THEN "bar" ELSE pc'[t]
    BY WalkStage
  <2>2. pc'[t] # "out"
    BY PoolTypes DEF Walk, Start, Loop, Op, MulMatSet, MulMatChunk, MulMatAdd, After, Go
  <2> QED BY <2>1, <2>2, PoolTypes
<1>3. t # 0 => UNCHANGED <<abort, ec>>
  BY DEF Walk, Start, Loop, Op, MulMatSet, MulMatChunk, MulMatAdd, After, shared
<1>4. \A k : NodeDone(k) => NodeDone(k)'
  BY <1>1, ResultsGrow
<1> QED BY <1>1, <1>2, <1>3, <1>4 DEF ResultsInv

\* The head of the loop.
LEMMA LoopData ==
    ASSUME BaseInv, PathInv, NEW t \in Threads, Start(t) \/ Loop(t), t \in Active, DataOf(t)
    PROVE  /\ DataOf(t)' /\ Stage[t] # "mm_chunk" /\ Stage'[t] # "mm_chunk"
           /\ UNCHANGED <<written, again, wdata, current_chunk, chunk>>
<1> DEFINE k == node[t]
           L == Len(cgraph)
<1>1. /\ cgraph \in Seq(Kinds) /\ L \in Nat /\ k \in Nat /\ k >= 1
      /\ ret \in [Threads -> {"return", "top", "loop", "mm_chunk"}]
      /\ node \in [Threads -> Nat] /\ pc \in [Threads -> Pcs]
  BY PoolTypes
<1>2. /\ UNCHANGED <<cgraph, n_graph>>
      /\ Stage[t] = IF pc[t] = "start" THEN "new" ELSE pc[t]
      /\ Stage'[t] = IF pc'[t] = "enter" THEN "bar" ELSE pc'[t]
  BY WalkStage DEF Walk, Start, Loop, shared
<1>3. UNCHANGED <<written, again, wdata, current_chunk, chunk>>
  BY DEF Start, Loop, shared, local, ghost
<1>4. \A j : Chunks(j)' = Chunks(j) /\ (NodeDone(j) => NodeDone(j)') /\ MulMat(j)' = MulMat(j)
  BY <1>2, <1>3, ResultsGrow
<1>5. /\ Stage[t] \in {"new", "loop"} /\ Stage'[t] \in {"loop", "bar", "op", "mm_set"}
      /\ Stage'[t] = "bar" => ret'[t] \in {"top", "return"}
  BY <1>1, <1>2 DEF Start, Loop, Go, Finished
<1>6. ChunkOf(t)' /\ WdataOf(t)'
  BY <1>5 DEF ChunkOf, WdataOf
<1>7. CASE Start(t)
  <2>1. Stage[t] = "new" /\ Stage'[t] = "loop" /\ node'[t] = 1
    BY <1>1, <1>2, <1>7 DEF Start, Go
  <2>2. Pos(t) = 1 /\ Pos(t)' = 1 /\ Known(t)' <= 1 /\ Known(t)' \in Int
    BY <2>1 DEF Pos, Known
  <2>3. DoneOf(t)'
    BY <2>1, <2>2 DEF DoneOf
  <2>4. WrittenOf(t)'
    BY <1>2, <1>3, <1>4, <2>1, <2>2 DEF DataOf, WrittenOf
  <2> QED BY <1>3, <1>5, <1>6, <2>3, <2>4 DEF DataOf
<1>8. CASE Loop(t)
  <2>1. Stage[t] = "loop" /\ PlaceOf(t) /\ Pos(t) = k
    BY <1>2, <1>8 DEF Loop, PathInv, PlaceInv, Pos
  <2>2. k <= L + 1
    BY <2>1 DEF PlaceOf
  <2>3. \A j \in 1 .. L : /\ cgraph[j] = "op" /\ <<j, t>> \in written => j < k
                          /\ MulMat(j) /\ (\E c \in Chunks(j) : <<j, c>> \in written) => j < k
    BY <2>1 DEF DataOf, WrittenOf
  <2>4. k <= node'[t] /\ node'[t] \in Nat /\ Pos(t)' = node'[t]
    BY <1>1, <1>5, <1>8 DEF Loop, Pos
  <2>5. WrittenOf(t)'
    <3>1. \A j \in 1 .. L : j < k => j < node'[t]
      BY <1>1, <2>4
    <3> QED BY <1>2, <1>3, <1>4, <2>3, <2>4, <3>1 DEF WrittenOf
  <2>6. DoneOf(t)'
    <3>1. \A j \in 1 .. (Known(t) - 1) : NodeDone(j)'
      BY <1>4, <2>1 DEF DataOf, DoneOf
    <3>2. CASE k > L \/ abort = k
      <4>1. Stage'[t] = "bar" /\ ret'[t] \in {"top", "return"} /\ node'[t] = k
        BY <1>1, <1>2, <1>8, <3>2 DEF Loop, Go, Finished
      <4>2. Known(t)' = Known(t) /\ PartDone(t)' = PartDone(t)
        BY <1>2, <2>1, <4>1 DEF Known, PartDone
      <4>3. PartDone(t) /\ k > 1 => Part(t, k - 1)
        BY DEF DataOf, DoneOf
      <4>4. \A j : Part(t, j)' = Part(t, j)
        <5>1. \A c : Held(c)' = Held(c)
          BY <1>1, <1>3, <1>5, WalkFrame, PoolTypes, HeldFrame DEF Walk
        <5>2. \A j : Taken(j)' = Taken(j)
          BY <1>2, <1>3, <1>4, <5>1 DEF Taken, NChunks
        <5> QED BY <1>2, <1>3, <1>4, <5>2 DEF Part
      <4> QED BY <3>1, <4>1, <4>2, <4>3, <4>4 DEF DoneOf
    <3>3. CASE ~(k > L \/ abort = k) /\ cgraph[k] = "nop"
      <4>1. Stage'[t] = "loop" /\ node'[t] = k + 1
        BY <1>1, <1>2, <1>8, <3>3 DEF Loop, Go
      <4>2. Known(t) = k /\ Known(t)' \in {k, k + 1}
        BY <1>1, <1>2, <2>1, <3>3, <4>1 DEF Known, PartDone
      <4>3. NodeDone(k)
        BY <3>3 DEF NodeDone, Chunks
      <4>4. \A j \in 1 .. (Known(t)' - 1) : NodeDone(j)'
        <5>1. \A j \in 1 .. (Known(t)' - 1) : j \in 1 .. (Known(t) - 1) \/ j = k
          BY <1>1, <4>2
        <5>2. NodeDone(k) => \A j : j = k => NodeDone(j)'
          BY <1>4
        <5> QED BY <3>1, <4>3, <5>1, <5>2
      <4>5. Part(t, node[t] - 1)'
        <5>1. node'[t] - 1 = k
          BY <1>1, <4>1
        <5> QED BY <1>2, <3>3, <5>1 DEF Part, MulMat
      <4> QED BY <4>1, <4>4, <4>5 DEF DoneOf
    <3>4. CASE ~(k > L \/ abort = k) /\ cgraph[k] # "nop"
      <4>1. Stage'[t] \in {"op", "mm_set"} /\ node'[t] = k
        BY <1>1, <1>2, <1>8, <3>4 DEF Loop, Go
      <4>2. Known(t) = k /\ Known(t)' = k /\ ~PartDone(t)'
        BY <1>1, <1>2, <2>1, <3>4, <4>1 DEF Known, PartDone
      <4> QED BY <3>1, <4>1, <4>2 DEF DoneOf
    <3> QED BY <3>2, <3>3, <3>4
  <2> QED BY <1>3, <1>5, <1>6, <2>5, <2>6 DEF DataOf
<1> QED BY <1>7, <1>8

\* The end of a node.
LEMMA AfterData ==
    ASSUME BaseInv, PathInv, NEW t \in Threads, NEW a \in BOOLEAN, After(t, a), t \in Active, DataOf(t)
    PROVE  /\ DataOf(t)' /\ Stage[t] # "mm_chunk" /\ Stage'[t] # "mm_chunk"
           /\ UNCHANGED <<written, again, wdata, current_chunk, chunk>>
<1> DEFINE m == node[t]
           L == Len(cgraph)
<1>1. /\ cgraph \in Seq(Kinds) /\ L \in Nat /\ m \in Nat /\ m >= 1
      /\ ret \in [Threads -> {"return", "top", "loop", "mm_chunk"}]
      /\ node \in [Threads -> Nat] /\ pc \in [Threads -> Pcs]
  BY PoolTypes
<1>2. /\ UNCHANGED <<cgraph, n_graph>>
      /\ Stage[t] = "after" /\ Stage'[t] = IF pc'[t] = "enter" THEN "bar" ELSE pc'[t]
  BY WalkStage DEF Walk, After, shared
<1>3. UNCHANGED <<written, again, wdata, current_chunk, chunk>>
  BY DEF After, ghost
<1>4. \A j : Chunks(j)' = Chunks(j) /\ (NodeDone(j) => NodeDone(j)') /\ MulMat(j)' = MulMat(j)
  BY <1>2, <1>3, ResultsGrow
<1>5. m <= L
  BY <1>2 DEF PathInv, PlaceInv, PlaceOf, OnNode
<1>6. /\ Stage'[t] = (IF m < L THEN "bar" ELSE "loop") /\ ret'[t] = "loop" /\ node'[t] = m + 1
  BY <1>1, <1>2 DEF After, Go
<1>7. ChunkOf(t)' /\ WdataOf(t)'
  BY <1>6 DEF ChunkOf, WdataOf
<1>8. Known(t) = m /\ Known(t)' = m /\ PartDone(t)' /\ Pos(t) = m /\ Pos(t)' = m + 1
  <2>1. Pos(t) = m /\ Pos(t)' = m + 1 /\ Known(t) = m
    BY <1>2, <1>6 DEF Pos, Known, PartDone
  <2>2. PartDone(t)'
    BY <1>1, <1>2, <1>5, <1>6 DEF PartDone
  <2>3. Known(t)' = node'[t] - 1
    BY <1>6, <2>2 DEF Known
  <2> QED BY <1>1, <1>6, <2>1, <2>2, <2>3
<1>9. Part(t, node[t] - 1)'
  <2>1. Part(t, m)
    BY <1>2 DEF DataOf, DoneOf
  <2>2. \A j : Part(t, j)' = Part(t, j)
    <3>1. \A c : Held(c)' = Held(c)
      BY <1>2, <1>3, <1>6, WalkFrame, PoolTypes, HeldFrame DEF Walk
    <3>2. \A j : Taken(j)' = Taken(j)
      BY <1>2, <1>3, <1>4, <3>1 DEF Taken, NChunks
    <3> QED BY <1>2, <1>3, <1>4, <3>2 DEF Part
  <2>3. node'[t] - 1 = m
    BY <1>1, <1>6
  <2> QED BY <2>1, <2>2, <2>3
<1>10. DoneOf(t)'
  <2>1. \A j \in 1 .. (m - 1) : NodeDone(j)'
    BY <1>2, <1>4, <1>8 DEF DataOf, DoneOf
  <2> QED BY <1>6, <1>8, <1>9, <2>1 DEF DoneOf
<1>11. WrittenOf(t)'
  <2>1. \A j \in 1 .. L : /\ cgraph[j] = "op" /\ <<j, t>> \in written => j < m + 1
                          /\ MulMat(j) /\ (\E c \in Chunks(j) : <<j, c>> \in written) => j < m + 1
    <3>1. \A j \in 1 .. L : /\ cgraph[j] = "op" /\ <<j, t>> \in written => j < m \/ j = m
                            /\ MulMat(j) /\ (\E c \in Chunks(j) : <<j, c>> \in written) => j < m \/ j = m
      BY <1>2, <1>8 DEF DataOf, WrittenOf
    <3>2. \A j \in 1 .. L : j < m \/ j = m => j < m + 1
      BY <1>1
    <3> QED BY <3>1, <3>2
  <2> QED BY <1>2, <1>3, <1>4, <1>8, <2>1 DEF WrittenOf
<1> QED BY <1>2, <1>3, <1>6, <1>7, <1>10, <1>11 DEF DataOf

\* No chunk is given or computed.
LEMMA QuietData ==
    ASSUME BaseInv, PathInv, DataInv, NEW t \in Threads,
           Start(t) \/ Loop(t) \/ \E a \in BOOLEAN : After(t, a)
    PROVE  DataInv'
<1>1. /\ UNCHANGED <<cgraph, n_graph>> /\ Active' = Active /\ t \in Active
      /\ \A u \in Threads \ {t} : /\ node'[u] = node[u] /\ chunk'[u] = chunk[u]
                                  /\ ret'[u] = ret[u] /\ Stage'[u] = Stage[u]
      /\ pc'[0] \in {"kickoff", "start"} => pc'[0] = pc[0]
      /\ Active \subseteq Threads
  BY WalkFrame, PoolTypes DEF Walk
<1>2. DataOf(t)
  BY <1>1 DEF DataInv
<1>3. /\ DataOf(t)' /\ Stage[t] # "mm_chunk" /\ Stage'[t] # "mm_chunk"
      /\ UNCHANGED <<written, again, wdata, current_chunk, chunk>>
  BY <1>1, <1>2, LoopData, AfterData
<1>4. (\A c : Held(c)' = Held(c)) /\ Distinct'
  BY <1>1, <1>3, HeldFrame DEF DataInv
<1>5. \A u \in Active \ {t} : DataOf(u)'
  BY <1>1, <1>3, <1>4, DataFrame DEF DataInv
<1>6. ResultsInv'
  BY WalkResults DEF Walk, DataInv
<1> QED BY <1>1, <1>3, <1>4, <1>5, <1>6 DEF DataInv

\* An operation that gives each thread its rows.
LEMMA OpData ==
    ASSUME BaseInv, PathInv, DataInv, NEW t \in Threads, Op(t)
    PROVE  DataInv'
<1> DEFINE m == node[t]
           L == Len(cgraph)
<1>1. /\ UNCHANGED <<cgraph, n_graph>> /\ Active' = Active /\ t \in Active
      /\ \A u \in Threads \ {t} : Stage'[u] = Stage[u]
      /\ pc'[0] \in {"kickoff", "start"} => pc'[0] = pc[0]
      /\ Active \subseteq Threads
  BY WalkFrame, PoolTypes DEF Walk
<1>2. Stage[t] = "op" /\ Stage'[t] = "after"
  BY WalkStage, PoolTypes DEF Walk, Op, Go
<1>3. /\ UNCHANGED <<node, ret, chunk, current_chunk, wdata>>
      /\ written' = written \cup {<<m, t>>}
  BY DEF Op, Writes, local, shared
<1>4. m \in Nat /\ m >= 1 /\ m <= L /\ L \in Nat /\ cgraph[m] = "op" /\ ~MulMat(m)
  <2>1. PlaceOf(t)
    BY <1>1 DEF PathInv, PlaceInv
  <2> QED BY <1>2, <2>1, PoolTypes DEF PlaceOf, OnNode, MulMat
<1>5. <<m, t>> \notin written /\ again' = again
  <2>1. WrittenOf(t)
    BY <1>1 DEF DataInv, DataOf
  <2>2. Pos(t) = m
    BY <1>2 DEF Pos
  <2>3. <<m, t>> \notin written
    BY <1>2, <1>4, <2>1, <2>2 DEF WrittenOf
  <2> QED BY <2>3 DEF Op, Writes
<1>6. (\A c : Held(c)' = Held(c)) /\ Distinct'
  BY <1>1, <1>2, <1>3, HeldFrame DEF DataInv
<1>7. \A k : Chunks(k)' = Chunks(k) /\ (NodeDone(k) => NodeDone(k)') /\ MulMat(k)' = MulMat(k)
  BY <1>1, <1>3, ResultsGrow
<1>8. \A k, c : MulMat(k) => (<<k, c>> \in written' <=> <<k, c>> \in written)
  BY <1>3, <1>4 DEF MulMat
<1>9. \A k : MulMat(k) /\ Taken(k) => Taken(k)'
  BY <1>1, <1>3, <1>6, <1>7 DEF Taken, NChunks
<1>10. ASSUME NEW u \in Active PROVE DataOf(u)'
  <2>1. DataOf(u) /\ u \in Threads /\ PlaceOf(u)
    BY <1>1, <1>10 DEF DataInv, PathInv, PlaceInv
  <2>2. Pos(u)' = Pos(u) /\ Known(u)' = Known(u) /\ PartDone(u)' = PartDone(u)
    <3>1. CASE u = t
      BY <1>1, <1>2, <1>3, <3>1 DEF Pos, Known, PartDone
    <3>2. CASE u # t
      BY <1>1, <1>3, <2>1, <3>2 DEF Pos, Known, PartDone
    <3> QED BY <3>1, <3>2
  <2>3. \A k : Part(u, k) => Part(u, k)'
    BY <1>1, <1>3, <1>7, <1>9 DEF Part
  <2>4. Stage'[u] = "after" => Part(u, node[u])'
    <3>1. CASE u = t
      BY <1>1, <1>3, <1>4, <1>7, <3>1 DEF Part, MulMat
    <3>2. CASE u # t
      BY <1>1, <1>3, <2>1, <2>3, <3>2 DEF DataOf, DoneOf
    <3> QED BY <3>1, <3>2
  <2>5. DoneOf(u)'
    <3>1. Stage'[u] # "out" => \A k \in 1 .. (Known(u) - 1) : NodeDone(k)'
      BY <1>1, <1>2, <1>7, <2>1 DEF DataOf, DoneOf
    <3>2. PartDone(u) /\ node[u] > 1 => Part(u, node[u] - 1)'
      BY <1>3, <2>1, <2>3 DEF DataOf, DoneOf
    <3> QED BY <1>3, <2>2, <2>4, <3>1, <3>2 DEF DoneOf
  <2>6. WrittenOf(u)'
    <3>1. \A k \in 1 .. L : MulMat(k) /\ (\E c \in Chunks(k) : <<k, c>> \in written') =>
                              (\E c \in Chunks(k) : <<k, c>> \in written)
      BY <1>8
    <3>2. CASE u = t
      <4>1. \A k \in 1 .. L : cgraph[k] = "op" /\ <<k, t>> \in written' => k < m \/ k = m
        BY <1>2, <1>3, <2>1, <3>2 DEF DataOf, WrittenOf, Pos
      <4>2. \A k \in 1 .. L : MulMat(k) /\ (\E c \in Chunks(k) : <<k, c>> \in written') => k < m
        BY <1>2, <2>1, <3>1, <3>2 DEF DataOf, WrittenOf, Pos
      <4>3. Pos(t)' = m
        BY <1>2, <1>3 DEF Pos
      <4> QED BY <1>1, <1>2, <1>7, <3>2, <4>1, <4>2, <4>3 DEF WrittenOf
    <3>3. CASE u # t
      <4>1. \A k : <<k, u>> \in written' => <<k, u>> \in written
        BY <1>3, <3>3
      <4>2. Stage'[u] = Stage[u]
        BY <1>1, <2>1, <3>3
      <4> QED BY <1>1, <1>7, <2>1, <2>2, <3>1, <4>1, <4>2 DEF DataOf, WrittenOf
    <3> QED BY <3>2, <3>3
  <2>7. ChunkOf(u)' /\ WdataOf(u)'
    <3>1. CASE u = t
      BY <1>2, <3>1 DEF ChunkOf, WdataOf
    <3>2. CASE u # t
      <4>1. Stage'[u] = Stage[u]
        BY <1>1, <2>1, <3>2
      <4>2. Stage[u] \in {"mm_chunk", "mm_add"} => MulMat(node[u])
        BY <2>1 DEF PlaceOf
      <4>3. ChunkOf(u)'
        BY <1>1, <1>3, <1>6, <1>7, <1>8, <2>1, <4>1, <4>2 DEF DataOf, ChunkOf
      <4>4. WdataOf(u)'
        BY <1>1, <1>3, <2>1, <4>1 DEF DataOf, WdataOf
      <4> QED BY <4>3, <4>4
    <3> QED BY <3>1, <3>2
  <2> QED BY <2>5, <2>6, <2>7 DEF DataOf
<1>11. ResultsInv'
  BY WalkResults DEF Walk, DataInv
<1>12. pc'[0] # "kickoff"
  <2>1. pc[0] # "kickoff"
    BY <1>1, <1>2, OutsideGraph DEF CallerPc
  <2> QED BY <1>1, <2>1
<1> QED BY <1>1, <1>5, <1>6, <1>10, <1>11, <1>12 DEF DataInv

\* mul_mat before its barrier: src1 is converted, thread 0 sets the counter.
LEMMA MulMatSetData ==
    ASSUME BaseInv, PathInv, DataInv, NEW t \in Threads, MulMatSet(t)
    PROVE  DataInv'
<1> DEFINE m == node[t]
<1>1. /\ UNCHANGED <<cgraph, n_graph>> /\ Active' = Active /\ t \in Active
      /\ \A u \in Threads \ {t} : /\ Stage'[u] = Stage[u] /\ ret'[u] = ret[u]
                                  /\ chunk'[u] = chunk[u]
      /\ pc'[0] \in {"kickoff", "start"} => pc'[0] = pc[0]
      /\ Active \subseteq Threads
  BY WalkFrame, PoolTypes DEF Walk
<1>2. Stage[t] = "mm_set" /\ Stage'[t] = "bar" /\ ret'[t] = "mm_chunk" /\ chunk'[t] = t
  BY WalkStage, PoolTypes DEF Walk, MulMatSet, Go
<1>3. /\ UNCHANGED <<node, written, again>> /\ wdata' = wdata \cup {<<m, t>>}
      /\ current_chunk' = IF t = 0 THEN nth[t] ELSE current_chunk
  BY DEF MulMatSet
<1>4. m \in Nat /\ m >= 1 /\ m <= Len(cgraph) /\ Len(cgraph) \in Nat /\ nth[t] = n_graph.n
  <2>1. PlaceOf(t)
    BY <1>1 DEF PathInv, PlaceInv
  <2> QED BY <1>2, <2>1, PoolTypes DEF PlaceOf, OnNode
<1>5. \A u \in Active : Stage[u] \notin OnNode /\ ~PartDone(u)
  BY <1>1, <1>2, BeforeMulMat
<1>6. \A k : Chunks(k)' = Chunks(k) /\ (NodeDone(k) => NodeDone(k)') /\ MulMat(k)' = MulMat(k)
  BY <1>1, <1>3, ResultsGrow
<1>7. \A u \in Active : Stage'[u] \notin OnNode
  BY <1>1, <1>2, <1>5 DEF OnNode
<1>8. ASSUME NEW u \in Active PROVE DataOf(u)'
  <2>1. DataOf(u) /\ u \in Threads
    BY <1>1, <1>8 DEF DataInv
  <2>2. Pos(u)' = Pos(u) /\ Known(u)' = Known(u) /\ ~PartDone(u)'
    <3>1. CASE u = t
      <4>1. ~PartDone(u)'
        BY <1>1, <1>2, <1>3, <1>4, <3>1 DEF PartDone
      <4>2. ~PartDone(u)
        BY <1>5
      <4> QED BY <1>2, <1>3, <3>1, <4>1, <4>2 DEF Pos, Known
    <3>2. CASE u # t
      <4>1. PartDone(u)' = PartDone(u)
        BY <1>1, <1>3, <2>1, <3>2 DEF PartDone
      <4> QED BY <1>1, <1>3, <1>5, <2>1, <3>2, <4>1 DEF Pos, Known
    <3> QED BY <3>1, <3>2
  <2>3. DoneOf(u)'
    <3>1. Stage[u] # "out" => \A k \in 1 .. (Known(u) - 1) : NodeDone(k)'
      BY <1>6, <2>1 DEF DataOf, DoneOf
    <3>2. Stage'[u] # "out" => Stage[u] # "out"
      BY <1>1, <1>2, <2>1
    <3> QED BY <1>7, <2>2, <3>1, <3>2 DEF DoneOf, OnNode
  <2>4. WrittenOf(u)'
    <3>1. Stage[u] # "out" => \A k \in 1 .. Len(cgraph) :
             /\ cgraph[k] = "op" /\ <<k, u>> \in written => k < Pos(u)
             /\ MulMat(k) /\ (\E c \in Chunks(k) : <<k, c>> \in written) => k < Pos(u)
      BY <1>5, <2>1 DEF DataOf, WrittenOf, OnNode
    <3>2. Stage'[u] # "out" => Stage[u] # "out"
      BY <1>1, <1>2, <2>1
    <3> QED BY <1>1, <1>3, <1>6, <2>2, <3>1, <3>2 DEF WrittenOf
  <2>5. ChunkOf(u)'
    <3>1. CASE u = t
      BY <1>1, <1>2, <1>3, <1>4, <3>1 DEF ChunkOf
    <3>2. CASE u # t
      <4>1. Stage'[u] \notin {"mm_chunk", "mm_add"}
        BY <1>7 DEF OnNode
      <4>2. u = 0 => current_chunk' = current_chunk
        BY <1>3, <3>2
      <4> QED BY <1>1, <2>1, <3>2, <4>1, <4>2 DEF DataOf, ChunkOf
    <3> QED BY <3>1, <3>2
  <2>6. WdataOf(u)'
    <3>1. CASE u = t
      BY <1>2, <1>3, <3>1 DEF WdataOf
    <3>2. CASE u # t
      BY <1>1, <1>3, <1>7, <2>1, <3>2 DEF DataOf, WdataOf, OnNode
    <3> QED BY <3>1, <3>2
  <2> QED BY <2>3, <2>4, <2>5, <2>6 DEF DataOf
<1>9. ResultsInv'
  BY WalkResults DEF Walk, DataInv
<1>10. Distinct'
  BY <1>1, <1>7 DEF Distinct, OnNode
<1>11. pc'[0] # "kickoff"
  <2>1. pc[0] # "kickoff"
    BY <1>1, <1>2, OutsideGraph DEF CallerPc
  <2> QED BY <1>1, <2>1
<1> QED BY <1>1, <1>3, <1>8, <1>9, <1>10, <1>11 DEF DataInv

\* The threads at a mul_mat node after its barrier, and those that are done with it.
LEMMA AtMulMat ==
    ASSUME BaseInv, PathInv, NEW t \in Active, Stage[t] \in {"mm_chunk", "mm_add"}, NEW u \in Active
    PROVE  \/ Stage[u] \in {"mm_chunk", "mm_add", "after"} /\ node[u] = node[t]
           \/ PartDone(u) /\ node[u] = node[t] + 1 /\ Stage[u] \in {"loop", "bar"}
              /\ ~(Stage[u] = "bar" /\ ret[u] = "mm_chunk")
<1>1. MulMat(node[t]) /\ node[t] <= Len(cgraph) /\ PlaceOf(u)
  BY DEF PathInv, PlaceInv, PlaceOf, OnNode
<1>2. \/ Stage[u] \in OnNode /\ node[u] = node[t]
      \/ Stage[u] \in {"new", "loop"} /\ cgraph[node[t]] = "op"
      \/ PartDone(u) /\ node[u] = node[t] + 1
  BY SameNode DEF OnNode
<1>3. cgraph[node[t]] # "op"
  BY <1>1 DEF MulMat
<1>4. CASE Stage[u] \in OnNode /\ node[u] = node[t]
  BY <1>1, <1>3, <1>4 DEF PlaceOf, OnNode
<1>5. CASE PartDone(u) /\ node[u] = node[t] + 1
  BY <1>1, <1>5, BeforeMulMat DEF PartDone
<1> QED BY <1>2, <1>3, <1>4, <1>5

\* A chunk is computed.
LEMMA MulMatChunkData ==
    ASSUME BaseInv, PathInv, DataInv, NEW t \in Threads, MulMatChunk(t)
    PROVE  DataInv'
<1> DEFINE m == node[t]
           L == Len(cgraph)
           n == NChunks(cgraph[m], n_graph.n)
<1>1. /\ UNCHANGED <<cgraph, n_graph>> /\ Active' = Active /\ t \in Active
      /\ \A u \in Threads \ {t} : Stage'[u] = Stage[u]
      /\ pc'[0] \in {"kickoff", "start"} => pc'[0] = pc[0]
      /\ Active \subseteq Threads
  BY WalkFrame, PoolTypes DEF Walk
<1>2. UNCHANGED <<node, ret, chunk, current_chunk, wdata>>
  BY DEF MulMatChunk, local, shared
<1>3. Stage[t] = "mm_chunk" /\ Stage'[t] \in {"after", "mm_add"} /\ Stage'[t] = pc'[t]
  <2>1. pc[t] = "mm_chunk" /\ pc'[t] \in {"after", "mm_add"}
    BY PoolTypes DEF MulMatChunk, Go
  <2> QED BY <2>1, WalkStage DEF Walk
<1>4. /\ m \in Nat /\ m >= 1 /\ m <= L /\ L \in Nat /\ MulMat(m) /\ nth[t] = n_graph.n
      /\ n_graph.n \in Nat /\ n \in Nat /\ chunk[t] \in Nat /\ current_chunk \in Nat
  <2>1. PlaceOf(t)
    BY <1>1 DEF PathInv, PlaceInv
  <2>2. n_graph.n \in Nat /\ chunk[t] \in Nat /\ current_chunk \in Nat
    BY PoolTypes
  <2>3. n \in Nat
    BY <2>2 DEF NChunks
  <2> QED BY <1>3, <2>1, <2>2, <2>3, PoolTypes DEF PlaceOf, OnNode
<1>5. Chunks(m) = 0 .. (n - 1)
  BY <1>4 DEF Chunks, MulMat
<1>6. DataOf(t) /\ ChunkOf(t)
  BY <1>1 DEF DataInv, DataOf
<1>7. /\ chunk[t] < current_chunk /\ current_chunk >= n_graph.n
      /\ chunk[t] \in Chunks(m) => <<m, chunk[t]>> \notin written
      /\ \A c \in Chunks(m) : <<m, c>> \in written => c < current_chunk
      /\ \A c \in Chunks(m) : c < current_chunk => <<m, c>> \in written \/ Held(c)
  BY <1>3, <1>6 DEF ChunkOf
<1>8. /\ again' = again
      /\ IF chunk[t] \in Chunks(m) THEN written' = written \cup {<<m, chunk[t]>>}
                                   ELSE written' = written
      /\ Stage'[t] = "after" => current_chunk >= n
  <2>1. CASE chunk[t] < n
    <3>1. chunk[t] \in Chunks(m)
      BY <1>4, <1>5, <2>1
    <3>2. written' = written \cup {<<m, chunk[t]>>} /\ again' = again
      BY <1>4, <1>7, <2>1, <3>1 DEF MulMatChunk, Writes
    <3>3. pc'[t] = IF n_graph.n >= n THEN "after" ELSE "mm_add"
      BY <1>4, <2>1, PoolTypes DEF MulMatChunk, Go
    <3> HIDE DEF n
    <3>4. n_graph.n >= n => current_chunk >= n
      BY <1>4, <1>7
    <3> QED BY <1>3, <3>1, <3>2, <3>3, <3>4
  <2>2. CASE ~(chunk[t] < n)
    <3>1. chunk[t] \notin Chunks(m)
      BY <1>4, <1>5, <2>2
    <3>2. UNCHANGED <<written, again>>
      BY <1>4, <2>2 DEF MulMatChunk
    <3> HIDE DEF n
    <3>3. current_chunk >= n
      BY <1>4, <1>7, <2>2
    <3> QED BY <3>1, <3>2, <3>3
  <2> QED BY <2>1, <2>2
<1>9. \A k : Chunks(k)' = Chunks(k) /\ (NodeDone(k) => NodeDone(k)') /\ MulMat(k)' = MulMat(k)
  BY <1>1, <1>8, ResultsGrow
<1>10. \A c \in Chunks(m) : <<m, c>> \in written \/ Held(c) => <<m, c>> \in written' \/ Held(c)'
  <2>1. SUFFICES ASSUME NEW c \in Chunks(m), Held(c), <<m, c>> \notin written' PROVE Held(c)'
    BY <1>8
  <2>2. PICK w \in Active : Stage[w] = "mm_chunk" /\ chunk[w] = c
    BY <2>1 DEF Held
  <2>3. w # t
    BY <1>8, <2>1, <2>2
  <2> QED BY <1>1, <1>2, <2>2, <2>3 DEF Held
<1>11. \A k, c : k # m => (<<k, c>> \in written' <=> <<k, c>> \in written)
  BY <1>8
<1>12. \A j : j = m /\ Taken(j) => Taken(j)'
  BY <1>1, <1>2, <1>9, <1>10 DEF Taken, NChunks
<1>13. ASSUME NEW u \in Active PROVE DataOf(u)'
  <2>1. DataOf(u) /\ u \in Threads /\ PlaceOf(u) /\ node[u] \in Nat
    BY <1>1, <1>13, PoolTypes DEF DataInv, PathInv, PlaceInv
  <2>2. \/ Stage[u] \in {"mm_chunk", "mm_add", "after"} /\ node[u] = m
        \/ PartDone(u) /\ node[u] = m + 1 /\ Stage[u] \in {"loop", "bar"}
           /\ ~(Stage[u] = "bar" /\ ret[u] = "mm_chunk")
    BY <1>1, <1>3, <1>13, AtMulMat
  <2>3. Pos(u)' = Pos(u) /\ Known(u)' = Known(u) /\ PartDone(u)' = PartDone(u) /\ Pos(u) = node[u]
    <3>1. CASE u = t
      BY <1>1, <1>2, <1>3, <3>1 DEF Pos, Known, PartDone
    <3>2. CASE u # t
      BY <1>1, <1>2, <2>1, <2>2, <3>2 DEF Pos, Known, PartDone
    <3> QED BY <3>1, <3>2
  <2>4. Stage'[u] # "out" /\ Stage[u] # "out" /\ (u # t => Stage'[u] = Stage[u])
    BY <1>1, <1>3, <2>1, <2>2
  <2>5. DoneOf(u)'
    <3>1. \A k \in 1 .. (Known(u) - 1) : NodeDone(k)'
      BY <1>9, <2>1, <2>4 DEF DataOf, DoneOf
    <3>2. \A j : j = m /\ Taken(j) => Part(u, j)'
      BY <1>1, <1>4, <1>12 DEF Part, MulMat
    <3>3. Stage'[u] = "after" => Part(u, node[u])'
      <4>1. SUFFICES ASSUME Stage'[u] = "after" PROVE Part(u, node[u])'
        OBVIOUS
      <4>2. node[u] = m /\ node'[u] = node[u]
        BY <1>1, <1>2, <1>3, <2>1, <2>2, <4>1
      <4>3. Taken(m)
        <5>1. CASE u = t
          <6>1. current_chunk >= n
            BY <1>8, <4>1, <5>1
          <6>2. \A c \in Chunks(m) : c < current_chunk
            <7> HIDE DEF n
            <7> QED BY <1>4, <1>5, <6>1
          <6> QED BY <1>7, <6>1, <6>2 DEF Taken
        <5>2. CASE u # t
          <6>1. Part(u, m)
            BY <1>1, <2>1, <4>1, <4>2, <5>2 DEF DataOf, DoneOf
          <6> QED BY <1>4, <6>1 DEF Part
        <5> QED BY <5>1, <5>2
      <4> QED BY <3>2, <4>2, <4>3
    <3>4. PartDone(u) /\ node[u] > 1 => Part(u, node[u] - 1)'
      <4>1. SUFFICES ASSUME PartDone(u), node[u] > 1 PROVE Part(u, node[u] - 1)'
        OBVIOUS
      <4>2. node[u] - 1 = m /\ node'[u] - 1 = m
        BY <1>2, <1>4, <2>2, <4>1 DEF PartDone
      <4>3. Taken(m)
        BY <1>4, <2>1, <4>1, <4>2 DEF DataOf, DoneOf, Part
      <4> QED BY <3>2, <4>2, <4>3
    <3> QED BY <1>2, <2>3, <3>1, <3>3, <3>4 DEF DoneOf
  <2>6. WrittenOf(u)'
    <3>1. m < Pos(u) \/ (m = Pos(u) /\ Stage'[u] \in {"mm_chunk", "mm_add", "after"})
      BY <1>1, <1>3, <1>4, <2>1, <2>2, <2>3
    <3>2. \A k \in 1 .. L : k # m =>
            /\ cgraph[k] = "op" /\ <<k, u>> \in written' =>
                   k < Pos(u) \/ (k = Pos(u) /\ Stage'[u] = "after")
            /\ MulMat(k) /\ (\E c \in Chunks(k) : <<k, c>> \in written') =>
                   k < Pos(u) \/ (k = Pos(u) /\ Stage'[u] \in {"mm_chunk", "mm_add", "after"})
      <4>1. u = t => Pos(u) = m
        BY <2>3
      <4> QED BY <1>3, <1>11, <2>1, <2>4, <4>1 DEF DataOf, WrittenOf
    <3> QED BY <1>1, <1>4, <1>9, <2>3, <3>1, <3>2 DEF WrittenOf, MulMat
  <2>7. ChunkOf(u)'
    <3>1. CASE Stage[u] \in {"mm_chunk", "mm_add", "after"} /\ node[u] = m
      <4>1. /\ current_chunk' >= n_graph'.n
            /\ \A c \in Chunks(m) : <<m, c>> \in written' => c < current_chunk
            /\ \A c \in Chunks(m) : c < current_chunk => <<m, c>> \in written' \/ Held(c)'
        BY <1>1, <1>2, <1>7, <1>8, <1>10
      <4>2. Stage'[u] = "mm_chunk" =>
              /\ chunk[u] < current_chunk
              /\ chunk[u] \in Chunks(m) => <<m, chunk[u]>> \notin written'
        <5>1. SUFFICES ASSUME Stage'[u] = "mm_chunk"
                       PROVE  /\ chunk[u] < current_chunk
                              /\ chunk[u] \in Chunks(m) => <<m, chunk[u]>> \notin written'
          OBVIOUS
        <5>2. u # t /\ Stage[u] = "mm_chunk"
          BY <1>3, <2>4, <5>1
        <5>3. chunk[u] # chunk[t]
          BY <1>1, <1>3, <1>13, <5>2 DEF DataInv, Distinct
        <5> QED BY <1>8, <2>1, <3>1, <5>2, <5>3 DEF DataOf, ChunkOf
      <4>3. Stage'[u] # "bar"
        BY <1>3, <2>4, <3>1
      <4> QED BY <1>2, <1>9, <3>1, <4>1, <4>2, <4>3 DEF ChunkOf
    <3>2. CASE PartDone(u) /\ Stage[u] \in {"loop", "bar"} /\ ~(Stage[u] = "bar" /\ ret[u] = "mm_chunk")
      BY <1>2, <1>3, <2>4, <3>2 DEF ChunkOf
    <3> QED BY <2>2, <3>1, <3>2
  <2>8. WdataOf(u)'
    <3>1. CASE u = t
      BY <1>1, <1>2, <1>3, <2>1, <3>1 DEF DataOf, WdataOf
    <3>2. CASE u # t
      BY <1>1, <1>2, <2>1, <2>4, <3>2 DEF DataOf, WdataOf
    <3> QED BY <3>1, <3>2
  <2> QED BY <2>5, <2>6, <2>7, <2>8 DEF DataOf
<1>14. ResultsInv'
  BY WalkResults DEF Walk, DataInv
<1>15. Distinct'
  BY <1>1, <1>2, <1>3 DEF DataInv, Distinct
<1>16. pc'[0] # "kickoff"
  <2>1. pc[0] # "kickoff"
    BY <1>1, <1>3, OutsideGraph DEF CallerPc
  <2> QED BY <1>1, <2>1
<1> QED BY <1>1, <1>8, <1>13, <1>14, <1>15, <1>16 DEF DataInv

\* A chunk is taken from the counter.
LEMMA MulMatAddData ==
    ASSUME BaseInv, PathInv, DataInv, NEW t \in Threads, MulMatAdd(t)
    PROVE  DataInv'
<1> DEFINE m == node[t]
           x == current_chunk
<1>1. /\ UNCHANGED <<cgraph, n_graph>> /\ Active' = Active /\ t \in Active
      /\ \A u \in Threads \ {t} : Stage'[u] = Stage[u] /\ chunk'[u] = chunk[u]
      /\ pc'[0] \in {"kickoff", "start"} => pc'[0] = pc[0]
      /\ Active \subseteq Threads
  BY WalkFrame, PoolTypes DEF Walk
<1>2. /\ UNCHANGED <<node, ret, written, again, wdata>> /\ current_chunk' = x + 1 /\ chunk'[t] = x
  BY PoolTypes DEF MulMatAdd, ghost
<1>3. Stage[t] = "mm_add" /\ Stage'[t] = "mm_chunk"
  <2>1. pc[t] = "mm_add" /\ pc'[t] = "mm_chunk"
    BY PoolTypes DEF MulMatAdd, Go
  <2> QED BY <2>1, WalkStage DEF Walk
<1>4. m \in Nat /\ m >= 1 /\ n_graph.n \in Nat /\ x \in Nat /\ MulMat(m)
  <2>1. PlaceOf(t)
    BY <1>1 DEF PathInv, PlaceInv
  <2> QED BY <1>3, <2>1, PoolTypes DEF PlaceOf, OnNode
<1>5. /\ x >= n_graph.n
      /\ \A c \in Chunks(m) : <<m, c>> \in written => c < x
      /\ \A c \in Chunks(m) : c < x => <<m, c>> \in written \/ Held(c)
  BY <1>1, <1>3 DEF DataInv, DataOf, ChunkOf
<1>6. \A k : Chunks(k)' = Chunks(k) /\ (NodeDone(k) => NodeDone(k)') /\ MulMat(k)' = MulMat(k)
  BY <1>1, <1>2, ResultsGrow
<1>7. (\A c : Held(c) => Held(c)') /\ (\A c : c = x => Held(c)')
  <2>1. ASSUME NEW c, Held(c) PROVE Held(c)'
    <3>1. PICK w \in Active : Stage[w] = "mm_chunk" /\ chunk[w] = c
      BY <2>1 DEF Held
    <3> QED BY <1>1, <1>3, <3>1 DEF Held
  <2>2. \A c : c = x => Held(c)'
    BY <1>1, <1>2, <1>3 DEF Held
  <2> QED BY <2>1, <2>2
<1>8. \A c \in Chunks(m) : c \in Int
  BY DEF Chunks
<1>9. \A j : Taken(j) /\ NChunks(cgraph[j], n_graph.n) \in Int => Taken(j)'
  BY <1>1, <1>2, <1>4, <1>6, <1>7 DEF Taken
<1>10. NChunks(cgraph[m], n_graph.n) \in Int
  BY <1>4 DEF NChunks
<1>11. ASSUME NEW u \in Active PROVE DataOf(u)' /\ (u # t /\ Stage[u] = "mm_chunk" => chunk[u] < x)
  <2>1. DataOf(u) /\ u \in Threads /\ node[u] \in Nat /\ chunk[u] \in Nat
    BY <1>1, <1>11, PoolTypes DEF DataInv
  <2>2. \/ Stage[u] \in {"mm_chunk", "mm_add", "after"} /\ node[u] = m
        \/ PartDone(u) /\ node[u] = m + 1 /\ Stage[u] \in {"loop", "bar"}
           /\ ~(Stage[u] = "bar" /\ ret[u] = "mm_chunk")
    BY <1>1, <1>3, <1>11, AtMulMat
  <2>3. Pos(u)' = Pos(u) /\ Known(u)' = Known(u) /\ PartDone(u)' = PartDone(u)
    <3>1. CASE u = t
      BY <1>1, <1>2, <1>3, <3>1 DEF Pos, Known, PartDone
    <3>2. CASE u # t
      BY <1>1, <1>2, <2>1, <3>2 DEF Pos, Known, PartDone
    <3> QED BY <3>1, <3>2
  <2>4. /\ Stage'[u] # "out" /\ Stage[u] # "out"
        /\ (u # t => Stage'[u] = Stage[u] /\ chunk'[u] = chunk[u])
    BY <1>1, <1>3, <2>1, <2>2
  <2>5. DoneOf(u)'
    <3>1. \A k \in 1 .. (Known(u) - 1) : NodeDone(k)'
      BY <1>6, <2>1, <2>4 DEF DataOf, DoneOf
    <3>2. \A j : j = m /\ Part(u, j) => Part(u, j)'
      BY <1>1, <1>2, <1>6, <1>9, <1>10 DEF Part
    <3>3. Stage'[u] = "after" => Part(u, node[u])'
      BY <1>2, <1>3, <2>1, <2>2, <2>4, <3>2 DEF DataOf, DoneOf
    <3>4. PartDone(u) /\ node[u] > 1 => Part(u, node[u] - 1)'
      <4>1. SUFFICES ASSUME PartDone(u), node[u] > 1 PROVE Part(u, node[u] - 1)'
        OBVIOUS
      <4>2. node[u] - 1 = m /\ node'[u] - 1 = m
        BY <1>2, <1>4, <2>2, <4>1 DEF PartDone
      <4>3. Part(u, node[u] - 1)
        BY <2>1, <4>1 DEF DataOf, DoneOf
      <4> QED BY <3>2, <4>2, <4>3
    <3> QED BY <1>2, <2>3, <3>1, <3>3, <3>4 DEF DoneOf
  <2>6. WrittenOf(u)'
    <3>1. CASE u = t
      BY <1>1, <1>2, <1>3, <1>6, <2>1, <2>3, <3>1 DEF DataOf, WrittenOf
    <3>2. CASE u # t
      BY <1>1, <1>2, <1>6, <2>1, <2>3, <2>4, <3>2 DEF DataOf, WrittenOf
    <3> QED BY <3>1, <3>2
  <2>7. u # t /\ Stage[u] = "mm_chunk" => chunk[u] < x
    BY <2>1 DEF DataOf, ChunkOf
  <2>8. ChunkOf(u)'
    <3>1. CASE Stage[u] \in {"mm_chunk", "mm_add", "after"} /\ node[u] = m
      <4>1. /\ current_chunk' >= n_graph'.n
            /\ \A c \in Chunks(m) : <<m, c>> \in written => c < x + 1
            /\ \A c \in Chunks(m) : c < x + 1 => <<m, c>> \in written \/ Held(c)'
        <5>1. \A c \in Chunks(m) : (c < x => c < x + 1) /\ (c < x + 1 => c < x \/ c = x)
          BY <1>4, <1>8
        <5>2. current_chunk' >= n_graph'.n
          BY <1>1, <1>2, <1>4, <1>5
        <5> QED BY <1>5, <1>7, <5>1, <5>2
      <4>2. Stage'[u] = "mm_chunk" =>
              /\ chunk'[u] < x + 1
              /\ chunk'[u] \in Chunks(m) => <<m, chunk'[u]>> \notin written
        <5>1. CASE u = t
          <6>1. x < x + 1 /\ ~(x < x)
            BY <1>4
          <6> QED BY <1>2, <1>5, <5>1, <6>1
        <5>2. CASE u # t
          <6>1. chunk[u] < x => chunk[u] < x + 1
            BY <1>4, <2>1
          <6> QED BY <2>1, <2>4, <2>7, <3>1, <5>2, <6>1 DEF DataOf, ChunkOf
        <5> QED BY <5>1, <5>2
      <4>3. Stage'[u] # "bar"
        BY <1>3, <2>4, <3>1
      <4> QED BY <1>2, <1>6, <3>1, <4>1, <4>2, <4>3 DEF ChunkOf
    <3>2. CASE PartDone(u) /\ Stage[u] \in {"loop", "bar"} /\ ~(Stage[u] = "bar" /\ ret[u] = "mm_chunk")
      BY <1>2, <1>3, <2>4, <3>2 DEF ChunkOf
    <3> QED BY <2>2, <3>1, <3>2
  <2>9. WdataOf(u)'
    <3>1. CASE u = t
      BY <1>1, <1>2, <1>3, <2>1, <3>1 DEF DataOf, WdataOf
    <3>2. CASE u # t
      BY <1>1, <1>2, <2>1, <2>4, <3>2 DEF DataOf, WdataOf
    <3> QED BY <3>1, <3>2
  <2> QED BY <2>5, <2>6, <2>7, <2>8, <2>9 DEF DataOf
<1>12. ResultsInv'
  BY WalkResults DEF Walk, DataInv
<1>13. Distinct'
  <2>1. SUFFICES ASSUME NEW u \in Active, NEW w \in Active, u # w,
                        Stage'[u] = "mm_chunk", Stage'[w] = "mm_chunk"
                 PROVE  chunk'[u] # chunk'[w]
    BY <1>1 DEF Distinct
  <2>2. CASE u # t /\ w # t
    BY <1>1, <2>1, <2>2 DEF DataInv, Distinct
  <2>3. \A v \in Active \ {t} : Stage'[v] = "mm_chunk" => chunk'[v] # x
    <3>1. \A v \in Active \ {t} : Stage'[v] = "mm_chunk" => chunk[v] < x /\ chunk'[v] = chunk[v]
      BY <1>1, <1>11
    <3>2. ~(x < x)
      BY <1>4
    <3> QED BY <3>1, <3>2
  <2> QED BY <1>2, <2>1, <2>2, <2>3
<1>14. pc'[0] # "kickoff"
  <2>1. pc[0] # "kickoff"
    BY <1>1, <1>3, OutsideGraph DEF CallerPc
  <2> QED BY <1>1, <2>1
<1> QED BY <1>1, <1>2, <1>11, <1>12, <1>13, <1>14 DEF DataInv

\* Where all threads meet, the parts of the node before make a complete node.
LEMMA MeetDone ==
    ASSUME BaseInv, \A u \in Active : Stage[u] = "bar", NEW j \in 1 .. Len(cgraph),
           0 \in Active, \A u \in Active : Part(u, j)
    PROVE  NodeDone(j)
<1>1. cgraph[j] \in Kinds /\ \A c : ~Held(c)
  BY PoolTypes DEF Held
<1>2. CASE cgraph[j] = "nop"
  BY <1>2 DEF NodeDone, Chunks
<1>3. CASE cgraph[j] = "op"
  <2>1. Chunks(j) = Active
    BY <1>3 DEF Chunks, NChunks, Active
  <2> QED BY <1>3, <2>1 DEF NodeDone, Part
<1>4. CASE MulMat(j)
  BY <1>1, <1>4 DEF NodeDone, Part, Taken
<1> QED BY <1>1, <1>2, <1>3, <1>4 DEF Kinds, MulMat

\* The barrier after a node opens.
LEMMA OpensNode ==
    ASSUME BaseInv, PathInv, DataInv, Opens, ret[0] = "loop"
    PROVE  (\A u \in Active : DataOf(u)') /\ ResultsInv' /\ Distinct'
<1> DEFINE j == node[0]
<1>1. /\ UNCHANGED <<cgraph, n_graph, node, ret, written>> /\ 0 \in Active /\ Active \subseteq Threads
      /\ \A u \in Active : Stage[u] = "bar"
  BY PoolTypes DEF Opens, walk
<1>2. \A u \in Active : ret[u] = "loop" /\ node[u] = j
  BY <1>1, OneBarrier
<1>3. \A u \in Active : Stage'[u] = "loop"
  BY <1>2 DEF Opens
<1>4. j \in Nat /\ j > 1 /\ j <= Len(cgraph) /\ Len(cgraph) \in Nat
  <2>1. PlaceOf(0)
    BY <1>1 DEF PathInv, PlaceInv
  <2> QED BY <1>1, <1>2, <2>1, PoolTypes DEF PlaceOf
<1>5. /\ Active' = Active
      /\ \A k : Chunks(k)' = Chunks(k) /\ (NodeDone(k) => NodeDone(k)') /\ MulMat(k)' = MulMat(k)
  BY <1>1, ResultsGrow
<1>6. \A u \in Active : PartDone(u) /\ Known(u) = j - 1 /\ Pos(u) = j
  BY <1>1, <1>2 DEF PartDone, Known, Pos
<1>7. \A u \in Active : ~PartDone(u)' /\ Known(u)' = j /\ Pos(u)' = j
  BY <1>1, <1>2, <1>3, <1>4 DEF PartDone, Known, Pos
<1>8. \A k \in 1 .. (j - 1) : NodeDone(k)
  <2>1. \A k \in 1 .. ((j - 1) - 1) : NodeDone(k)
    BY <1>1, <1>6 DEF DataInv, DataOf, DoneOf
  <2>2. \A u \in Active : Part(u, j - 1)
    BY <1>2, <1>4, <1>6 DEF DataInv, DataOf, DoneOf
  <2>3. j - 1 \in 1 .. Len(cgraph)
    BY <1>4
  <2>4. NodeDone(j - 1)
    BY <1>1, <2>2, <2>3, MeetDone
  <2>5. \A k \in 1 .. (j - 1) : k \in 1 .. ((j - 1) - 1) \/ k = j - 1
    BY <1>4
  <2> QED BY <2>1, <2>4, <2>5
<1>9. ASSUME NEW u \in Active PROVE DataOf(u)'
  <2>1. DoneOf(u)'
    BY <1>3, <1>5, <1>7, <1>8 DEF DoneOf
  <2>2. \A k \in 1 .. Len(cgraph) :
          /\ cgraph[k] = "op" /\ <<k, u>> \in written => k < j
          /\ MulMat(k) /\ (\E c \in Chunks(k) : <<k, c>> \in written) => k < j
    BY <1>1, <1>6 DEF DataInv, DataOf, WrittenOf
  <2>3. WrittenOf(u)'
    BY <1>1, <1>5, <1>7, <2>2 DEF WrittenOf
  <2>4. ChunkOf(u)' /\ WdataOf(u)'
    BY <1>3 DEF ChunkOf, WdataOf
  <2> QED BY <2>1, <2>3, <2>4 DEF DataOf
<1>10. ResultsInv' /\ Distinct'
  BY <1>1, <1>3, <1>5 DEF ResultsInv, Distinct
<1> QED BY <1>9, <1>10

\* The barrier inside mul_mat opens: src1 is converted, each thread has its first chunk.
LEMMA OpensMulMat ==
    ASSUME BaseInv, PathInv, DataInv, Opens, ret[0] = "mm_chunk"
    PROVE  (\A u \in Active : DataOf(u)') /\ ResultsInv' /\ Distinct'
<1> DEFINE j == node[0]
<1>1. /\ UNCHANGED <<cgraph, n_graph, node, ret, written, chunk, current_chunk, wdata>>
      /\ 0 \in Active /\ Active \subseteq Threads
      /\ \A u \in Active : Stage[u] = "bar"
  BY PoolTypes DEF Opens, walk
<1>2. \A u \in Active : ret[u] = "mm_chunk" /\ node[u] = j
  BY <1>1, OneBarrier
<1>3. \A u \in Active : Stage'[u] = "mm_chunk"
  BY <1>2 DEF Opens
<1>4. j \in Nat /\ j >= 1 /\ j <= Len(cgraph) /\ Len(cgraph) \in Nat /\ MulMat(j) /\ n_graph.n \in Nat
  <2>1. PlaceOf(0)
    BY <1>1 DEF PathInv, PlaceInv
  <2> QED BY <1>1, <1>2, <2>1, PoolTypes DEF PlaceOf
<1>5. /\ Active' = Active
      /\ \A k : Chunks(k)' = Chunks(k) /\ (NodeDone(k) => NodeDone(k)') /\ MulMat(k)' = MulMat(k)
  BY <1>1, ResultsGrow
<1>6. \A u \in Active : Known(u) = j /\ Pos(u) = j
  BY <1>1, <1>2, <1>4 DEF PartDone, Known, Pos
<1>7. \A u \in Active : ~PartDone(u)' /\ Known(u)' = j /\ Pos(u)' = j
  BY <1>1, <1>2, <1>3 DEF PartDone, Known, Pos
<1>8. (\A u \in Active : chunk[u] = u /\ <<j, u>> \in wdata) /\ current_chunk = n_graph.n
  BY <1>1, <1>2 DEF DataInv, DataOf, ChunkOf, WdataOf
<1>9. \A c \in Chunks(j) : <<j, c>> \notin written
  <2>1. WrittenOf(0) /\ j \in 1 .. Len(cgraph) /\ ~(j < j)
    BY <1>1, <1>4 DEF DataInv, DataOf
  <2> QED BY <1>1, <1>4, <1>6, <2>1 DEF WrittenOf
<1>10. \A c \in Chunks(j) : c < n_graph.n => Held(c)'
  <2>1. SUFFICES ASSUME NEW c \in Chunks(j), c < n_graph.n PROVE Held(c)'
    OBVIOUS
  <2>2. c \in Active
    BY <1>4, <2>1 DEF Chunks, Active
  <2> QED BY <1>1, <1>3, <1>5, <1>8, <2>2 DEF Held
<1>11. ASSUME NEW u \in Active PROVE DataOf(u)'
  <2>1. DoneOf(u)'
    <3>1. \A k \in 1 .. (j - 1) : NodeDone(k)'
      BY <1>1, <1>5, <1>6 DEF DataInv, DataOf, DoneOf
    <3> QED BY <1>3, <1>7, <3>1 DEF DoneOf
  <2>2. \A k \in 1 .. Len(cgraph) :
          /\ cgraph[k] = "op" /\ <<k, u>> \in written => k < j
          /\ MulMat(k) /\ (\E c \in Chunks(k) : <<k, c>> \in written) => k < j
    BY <1>1, <1>6 DEF DataInv, DataOf, WrittenOf
  <2>3. WrittenOf(u)'
    BY <1>1, <1>5, <1>7, <2>2 DEF WrittenOf
  <2>4. ChunkOf(u)'
    <3>1. u < n_graph.n /\ n_graph.n >= n_graph.n
      BY <1>4 DEF Active
    <3> QED BY <1>1, <1>2, <1>3, <1>5, <1>8, <1>9, <1>10, <3>1 DEF ChunkOf
  <2>5. WdataOf(u)'
    BY <1>1, <1>2, <1>3, <1>5, <1>8 DEF WdataOf
  <2> QED BY <2>1, <2>3, <2>4, <2>5 DEF DataOf
<1>12. ResultsInv'
  BY <1>1, <1>3 DEF ResultsInv
<1>13. Distinct'
  <2>1. \A u \in Active : chunk'[u] = u
    BY <1>1, <1>8
  <2> QED BY <1>5, <2>1 DEF Distinct
<1> QED BY <1>11, <1>12, <1>13

\* The last barrier opens: the results are complete.
LEMMA OpensEnd ==
    ASSUME BaseInv, PathInv, DataInv, Opens, ret[0] \in {"top", "return"}
    PROVE  (\A u \in Active : DataOf(u)') /\ ResultsInv' /\ Distinct'
<1> DEFINE L == Len(cgraph)
<1>1. /\ UNCHANGED <<cgraph, n_graph, node, ret, written, abort, ec>>
      /\ 0 \in Active /\ Active \subseteq Threads /\ 0 \in Threads
      /\ \A u \in Active : Stage[u] = "bar"
  BY PoolTypes DEF Opens, walk
<1>2. \A u \in Active : ret[u] \in {"top", "return"}
  BY <1>1, OneBarrier
<1>3. \A u \in Active : Stage'[u] = "out"
  BY <1>2 DEF Opens
<1>4. /\ Active' = Active
      /\ \A k : Chunks(k)' = Chunks(k) /\ (NodeDone(k) => NodeDone(k)') /\ MulMat(k)' = MulMat(k)
  BY <1>1, ResultsGrow
<1>5. \A u \in Active : DataOf(u)'
  BY <1>3 DEF DataOf, DoneOf, PartDone, WrittenOf, ChunkOf, WdataOf
<1>6. Distinct'
  BY <1>3, <1>4 DEF Distinct
<1>7. L \in Nat /\ abort \in Nat /\ \A u \in Active : node[u] \in Nat /\ node[u] >= 1
  BY <1>1, PoolTypes
<1>8. \A u \in Active : node[u] <= L + 1 /\ (node[u] > L \/ abort = node[u])
  BY <1>1, <1>2 DEF PathInv, PlaceInv, PlaceOf
<1>9. abort # 0 => node[0] = abort /\ ec # "success"
  BY <1>1 DEF PathInv, AbortInv, AbortOf
<1>10. \A k \in 1 .. (Known(0) - 1) : NodeDone(k)
  BY <1>1 DEF DataInv, DataOf, DoneOf
<1>11. \A k \in 1 .. L : (ec = "success" \/ k < abort) => NodeDone(k)
  <2>1. CASE node[0] > L
    <3>1. \A u \in Active : node[u] = L + 1 /\ PartDone(u)
      <4>1. \A u \in Active : node[u] = L + 1
        BY <1>1, <1>7, <1>8, <1>9, <2>1
      <4> QED BY <1>1, <1>7, <4>1 DEF PartDone
    <3>2. Known(0) = L
      <4>1. Known(0) = node[0] - 1
        BY <1>1, <3>1 DEF Known
      <4> QED BY <1>1, <1>7, <3>1, <4>1
    <3>3. L >= 1 => NodeDone(L)
      <4>1. SUFFICES ASSUME L >= 1 PROVE NodeDone(L)
        OBVIOUS
      <4>2. \A u \in Active : node[u] > 1 /\ node[u] - 1 = L
        BY <1>7, <3>1, <4>1
      <4>3. \A u \in Active : Part(u, L)
        BY <3>1, <4>2 DEF DataInv, DataOf, DoneOf
      <4>4. L \in 1 .. Len(cgraph)
        BY <1>7, <4>1
      <4> QED BY <1>1, <4>3, <4>4, MeetDone
    <3>4. \A k \in 1 .. L : k \in 1 .. (L - 1) \/ (k = L /\ L >= 1)
      BY <1>7
    <3> QED BY <1>10, <3>2, <3>3, <3>4
  <2>2. CASE ~(node[0] > L)
    <3>1. abort = node[0] /\ abort # 0 /\ ec # "success"
      BY <1>1, <1>7, <1>8, <1>9, <2>2
    <3>2. Known(0) = abort
      BY <1>1, <2>2, <3>1 DEF Known, PartDone
    <3>3. \A k \in 1 .. L : k < abort => k \in 1 .. (abort - 1)
      BY <1>7
    <3> QED BY <1>10, <3>1, <3>2, <3>3
  <2> QED BY <2>1, <2>2
<1>12. ResultsInv'
  BY <1>1, <1>4, <1>11 DEF ResultsInv
<1> QED BY <1>5, <1>6, <1>12

LEMMA OpensData ==
    ASSUME BaseInv, PathInv, DataInv, Opens
    PROVE  DataInv'
<1>1. 0 \in Threads /\ ret[0] \in {"return", "top", "loop", "mm_chunk"}
  BY PoolTypes
<1>2. (\A u \in Active : DataOf(u)') /\ ResultsInv' /\ Distinct'
  BY <1>1, OpensNode, OpensMulMat, OpensEnd
<1>3. Active' = Active /\ again' = again /\ pc'[0] # "kickoff"
  BY DEF Opens, walk, Active
<1> QED BY <1>2, <1>3 DEF DataInv

LEMMA HiddenData ==
    ASSUME BaseInv, DataInv, Hidden
    PROVE  DataInv'
<1>1. /\ UNCHANGED <<cgraph, abort, ec, n_graph, node, chunk, ret, current_chunk, written, again, wdata>>
      /\ Active' = Active /\ \A u \in Active : Stage'[u] = Stage[u]
      /\ Stage'[0] = Stage[0]
  BY DEF Hidden, walk, Active
<1>2. (\A c : Held(c)' = Held(c)) /\ Distinct'
  BY <1>1, HeldFrame DEF DataInv
<1>3. \A u \in Active : DataOf(u)'
  BY <1>1, <1>2, DataFrame DEF DataInv
<1>4. \A k : NodeDone(k) => NodeDone(k)'
  BY <1>1, ResultsGrow
<1>5. ResultsInv'
  BY <1>1, <1>4 DEF Hidden, ResultsInv, DataInv
<1>6. pc'[0] = "kickoff" => pc[0] = "kickoff"
  BY DEF Hidden
<1> QED BY <1>1, <1>2, <1>3, <1>5, <1>6 DEF DataInv

LEMMA CallData ==
    ASSUME BaseInv, PathInv, DataInv, CallStep
    PROVE  DataInv'
<1>1. /\ Active' = Active /\ \A u \in Active : Stage'[u] = "out"
      /\ Stage'[0] = "out" /\ pc'[0] \notin {"start", "spin", "return"}
  BY CallStage
<1>2. \A u \in Active : DataOf(u)'
  BY <1>1 DEF DataOf, DoneOf, PartDone, WrittenOf, ChunkOf, WdataOf
<1>3. ResultsInv' /\ Distinct'
  BY <1>1 DEF ResultsInv, Distinct
<1>4. again' = {} /\ (pc'[0] = "kickoff" => written' = {} /\ wdata' = {})
  <2>1. CASE \E g \in Graphs, n \in 1 .. (NThreads + 1) : GraphCompute(g, n)
    BY <2>1 DEF GraphCompute
  <2>2. CASE ~\E g \in Graphs, n \in 1 .. (NThreads + 1) : GraphCompute(g, n)
    <3>1. again' = again /\ pc'[0] # "kickoff"
      BY <2>2, PoolTypes, WokenMoves
         DEF CallStep, Return, Free, Join, SetPause, ghost, Go, OutPc
    <3> QED BY <3>1 DEF DataInv
  <2> QED BY <2>1, <2>2
<1> QED BY <1>1, <1>2, <1>3, <1>4 DEF DataInv

LEMMA KickoffData ==
    ASSUME BaseInv, PathInv, DataInv, Kickoff
    PROVE  DataInv'
<1>1. 0 \in Active' /\ (\A u \in Active' : Stage'[u] = "new") /\ pc'[0] = "start"
  BY KickoffStage
<1>2. written' = {} /\ wdata' = {} /\ again' = {}
  BY DEF Kickoff, DataInv
<1>3. ASSUME NEW u \in Active' PROVE DataOf(u)'
  <2>1. Known(u)' = 1 /\ ~PartDone(u)'
    BY <1>1, <1>3 DEF Known, PartDone
  <2>2. DoneOf(u)'
    BY <1>1, <1>3, <2>1 DEF DoneOf
  <2>3. WrittenOf(u)' /\ ChunkOf(u)' /\ WdataOf(u)'
    BY <1>1, <1>2, <1>3 DEF WrittenOf, ChunkOf, WdataOf
  <2> QED BY <2>2, <2>3 DEF DataOf
<1>4. ResultsInv' /\ Distinct'
  BY <1>1 DEF ResultsInv, Distinct
<1> QED BY <1>1, <1>2, <1>3, <1>4 DEF DataInv

-----------------------------------------------------------------------------
(* The theorems. *)

LEMMA InitPool == Init => PoolInv
<1> SUFFICES ASSUME Init PROVE PoolInv
  OBVIOUS
<1>1. NThreads \in Nat \ {0} /\ 0 \in Threads
  BY PoolAssumption, ThreadsFinite
<1>2. n_graph = [count |-> 0, n |-> 0] /\ n_graph.n = 0 /\ n_graph.count = 0
  BY DEF Init
<1>3. Active = {}
  BY <1>2 DEF Active
<1>4. TypeOK
  <2>1. n_graph \in [count : Nat, n : 0 .. NThreads]
    BY <1>1, <1>2
  <2>2. /\ bar \in [Threads -> [n : 0 .. NThreads, passed : Nat]]
        /\ nth \in [Threads -> 0 .. NThreads]
    BY <1>1 DEF Init
  <2>3. last_graph \in [Threads -> [count : Nat, n : 0 .. NThreads]]
    BY <2>1 DEF Init
  <2>4. /\ pc \in [Threads -> Reading \cup {"spin", "top", "paused", "poll", "lock", "asleep",
                    "exited", "idle", "kickoff", "return", "join", "freed"}]
        /\ ret \in [Threads -> {"return", "top", "loop", "mm_chunk"}]
    BY DEF Init, Finished
  <2>5. /\ node \in [Threads -> Nat] /\ chunk \in [Threads -> Nat] /\ pieces \in [Threads -> Nat]
        /\ req \in Nat /\ count \in Nat
    BY DEF Init
  <2>6. /\ n_barrier \in 0 .. NThreads /\ n_barrier_passed \in Nat
        /\ current_chunk \in Nat /\ abort \in Nat
    BY <1>1 DEF Init
  <2>7. stop \in BOOLEAN /\ pause \in BOOLEAN /\ ec \in {"success", "aborted"}
    BY DEF Init
  <2>8. cgraph \in Seq(Kinds)
    BY DEF Init
  <2> QED BY <2>1, <2>2, <2>3, <2>4, <2>5, <2>6, <2>7, <2>8 DEF TypeOK
<1>5. \A t \in Threads : /\ pc[t] = (IF t = 0 THEN "idle" ELSE "top") /\ node[t] = 1
                         /\ ret[t] = (IF t = 0 THEN "return" ELSE "top")
                         /\ last_graph[t] = n_graph /\ bar[t].passed = 0
  BY DEF Init, Finished
<1>6. ThreadInv
  <2>1. \A t \in Threads : ~InGraph(t)
    BY <1>5 DEF InGraph, OutPc, CallerPc
  <2>2. req >= 1
    BY DEF Init
  <2>3. \A t \in Threads : node[t] >= 1
    BY <1>5
  <2> QED BY <1>1, <1>4, <1>5, <2>1, <2>2, <2>3 DEF ThreadInv, Workers, OutPc, CallerPc
<1>7. CountInv
  <2>1. count = 0 /\ MaxGraphs \in Nat
    BY PoolAssumption DEF Init
  <2> QED BY <1>1, <1>2, <1>5, <2>1 DEF CountInv
<1>8. BarrierInv
  <2>1. \A t \in Threads : pc[t] \notin {"add", "reset", "release"} /\ ~Waiting(t)
    BY <1>5 DEF Waiting
  <2>2. Arrived = {} /\ n_barrier = 0 /\ n_barrier_passed = 0
    BY <2>1 DEF Arrived, Init
  <2> QED BY <1>5, <2>1, <2>2, FS_EmptySet DEF BarrierInv
<1>9. PieceInv
  BY <1>3 DEF PieceInv
<1>10. PathInv
  BY <1>1, <1>3, <1>5 DEF PathInv, PlaceInv, AbortInv, Agree, Init
<1>11. DataInv
  BY <1>1, <1>3, <1>5 DEF DataInv, ResultsInv, Distinct, Init
<1> QED BY <1>6, <1>7, <1>8, <1>9, <1>10, <1>11 DEF PoolInv, WalkInv

\* What a step is to the walk.
LEMMA StepKind ==
    ASSUME BaseInv, Next
    PROVE  (\E t \in Threads : Walk(t)) \/ Hidden \/ Opens \/ CallStep \/ Kickoff
<1>1. CASE \E t \in Threads : Step(t)
  <2>1. PICK t \in Threads : Step(t)
    BY <1>1
  <2>2. CASE Worker(t)
    BY <2>2, WorkerStage
  <2>3. CASE Walk(t)
    BY <2>3
  <2>4. CASE Barrier(t)
    BY <2>4, HiddenStage, OpenStage DEF Barrier
  <2> QED BY <2>1, <2>2, <2>3, <2>4 DEF Step, Compute, Walk
<1>2. CASE ~\E t \in Threads : Step(t)
  BY <1>2 DEF Next, CallStep
<1> QED BY <1>1, <1>2

LEMMA NextPool ==
    ASSUME PoolInv, [Next]_vars
    PROVE  PoolInv'
<1>1. BaseInv /\ PathInv /\ DataInv
  BY DEF PoolInv, WalkInv, BaseInv
<1>2. CASE Next
  <2>1. BaseInv'
    <3>1. CASE \E t \in Threads : Step(t)
      BY <1>1, <3>1, ComputeBase, WorkerBase DEF Step
    <3>2. CASE Kickoff
      BY <1>1, <3>2, KickoffStage
    <3>3. CASE CallStep
      BY <1>1, <3>3, CallBase
    <3> QED BY <1>2, <3>1, <3>2, <3>3 DEF Next, CallStep
  <2>2. PathInv'
    BY <1>1, <1>2, StepKind, WalkPath, HiddenPath, OpensPath, CallPath, KickoffPath
  <2>3. DataInv'
    <3>1. CASE \E t \in Threads : Walk(t)
      BY <1>1, <3>1, QuietData, OpData, MulMatSetData, MulMatChunkData, MulMatAddData DEF Walk
    <3> QED BY <1>1, <1>2, <3>1, StepKind, HiddenData, OpensData, CallData, KickoffData
  <2> QED BY <2>1, <2>2, <2>3 DEF PoolInv, WalkInv, BaseInv
<1>3. CASE UNCHANGED vars
  <2>1. BaseInv'
    <3>1. TypeOK'
      BY <1>1, <1>3 DEF vars, shared, local, ghost, BaseInv, ThreadInv, TypeOK
    <3>2. Active' = Active /\ \A t \in Threads : Waiting(t)' = Waiting(t) /\ InGraph(t)' = InGraph(t)
            /\ Fresh(t)' = Fresh(t)
      BY <1>3 DEF vars, shared, local, Active, Waiting, InGraph, Released, Fresh
    <3>3. ThreadInv'
      BY <1>1, <1>3, <3>1, <3>2 DEF BaseInv, ThreadInv, vars, shared, local, ghost
    <3>4. CountInv'
      BY <1>1, <1>3 DEF BaseInv, CountInv, vars, shared, local, ghost
    <3>5. UNCHANGED <<pc, n_graph, bar, n_barrier, n_barrier_passed, pieces>>
      BY <1>3 DEF vars, shared, local, ghost
    <3>6. BarrierInv' /\ PieceInv'
      BY <1>1, <3>5, QuietBarrier DEF BaseInv, ThreadInv
    <3> QED BY <3>3, <3>4, <3>6 DEF BaseInv
  <2>2. Hidden
    <3>1. Stage' = Stage /\ pc' = pc /\ UNCHANGED walk
      BY <1>3 DEF vars, shared, local, ghost, Stage, Fresh, Waiting, walk
    <3> QED BY <3>1 DEF Hidden
  <2> QED BY <1>1, <2>1, <2>2, HiddenPath, HiddenData DEF PoolInv, WalkInv, BaseInv
<1> QED BY <1>2, <1>3

\* The three layers of the argument hold in every reachable state, for every
\* number of threads and every graph.
THEOREM PoolInductive == Spec => []PoolInv
<1>1. Init => PoolInv
  BY InitPool
<1>2. PoolInv /\ [Next]_vars => PoolInv'
  BY NextPool
<1> QED BY <1>1, <1>2, PTL DEF Spec

\* A thread computes a node only when every earlier node is complete, and reads
\* the converted src1 only when all threads have converted their parts.
THEOREM InputsAlwaysComplete == Spec => []InputsComplete
<1>1. PoolInv => InputsComplete
  <2>1. SUFFICES ASSUME PoolInv, NEW t \in Threads, pc[t] \in {"op", "mm_set", "mm_chunk"}
                 PROVE  /\ \A k \in 1 .. (node[t] - 1) : NodeDone(k)
                        /\ pc[t] = "mm_chunk" => \A u \in Active : <<node[t], u>> \in wdata
    BY DEF InputsComplete
  <2>2. Stage[t] = pc[t] /\ t \in Active
    BY <2>1, StageIs DEF PoolInv, WalkInv, BaseInv, WalkPc
  <2>3. DataOf(t)
    BY <2>1, <2>2 DEF PoolInv, DataInv
  <2>4. Known(t) = node[t]
    BY <2>1, <2>2 DEF Known, PartDone
  <2> QED BY <2>1, <2>2, <2>3, <2>4 DEF DataOf, DoneOf, WdataOf
<1> QED BY <1>1, PoolInductive, PTL

\* No chunk is computed twice, whichever thread takes it from the shared counter.
THEOREM NothingComputedTwice == Spec => []ComputedOnce
<1>1. PoolInv => ComputedOnce
  BY DEF PoolInv, DataInv, ComputedOnce
<1> QED BY <1>1, PoolInductive, PTL

\* ggml_graph_compute returns with its results, with the counters of the pool in
\* range and with no worker left inside the graph.
THEOREM ReturnAlwaysOK == Spec => []ReturnOK
<1>1. PoolInv => ReturnOK
  <2> SUFFICES ASSUME PoolInv PROVE ReturnOK
    OBVIOUS
  <2>1. BaseInv /\ PathInv /\ DataInv /\ TypeOK
    BY DEF PoolInv, WalkInv, BaseInv, ThreadInv
  <2>2. ReturnComplete
    <3>1. pc[0] = "return" => Stage[0] = "out"
      BY <2>1, PoolTypes, StageIs DEF CallerPc
    <3> QED BY <2>1, <3>1 DEF DataInv, ResultsInv, ReturnComplete
  <2>3. NoReaderAtReset
    <3>1. pc[0] \in CallerPc => \A t \in Threads : ~InGraph(t)
      BY <2>1, OutsideGraph
    <3> QED BY <3>1 DEF NoReaderAtReset, InGraph, Released, Workers, CallerPc, OutPc, Reading
  <2> QED BY <2>1, <2>2, <2>3 DEF ReturnOK
<1> QED BY <1>1, PoolInductive, PTL

\* ggml_barrier implements Lockstep: no thread starts a piece of a graph before
\* every other thread of it has finished the one before, across graphs with
\* different numbers of threads.
THEOREM BarrierRefinesLockstep == Spec => BarrierImplementsLockstep
<1>1. Init => Promise!LInit
  <2>1. Init => Active = {}
    BY DEF Init, Active
  <2> QED BY <2>1 DEF Init, Promise!LInit
<1>2. PoolInv /\ [Next]_vars => [Promise!LNext]_(Promise!lvars)
  <2> SUFFICES ASSUME PoolInv, [Next]_vars PROVE [Promise!LNext]_(Promise!lvars)
    OBVIOUS
  <2>1. BaseInv /\ PathInv /\ DataInv /\ TypeOK /\ ThreadInv /\ BarrierInv /\ PieceInv
    BY DEF PoolInv, WalkInv, BaseInv, ThreadInv
  <2>2. UNCHANGED <<n_graph, pieces>> => UNCHANGED Promise!lvars
    BY DEF Promise!lvars, Active
  <2>3. CASE UNCHANGED vars
    BY <2>2, <2>3 DEF vars, shared, ghost
  <2>4. CASE \E t \in Threads : Step(t)
    <3>1. PICK t \in Threads : Step(t)
      BY <2>4
    <3>2. CASE Add(t)
      <4>1. /\ t \in Active /\ \A u \in Active : pieces[u] >= pieces[t]
        BY <2>1, <3>2, AddKeeps
      <4>2. pieces' = [pieces EXCEPT ![t] = @ + 1] /\ Active' = Active
        BY <3>2 DEF Add, Active
      <4>3. Promise!Finish(t)
        BY <4>1, <4>2 DEF Promise!Finish
      <4> QED BY <4>3 DEF Promise!LNext
    <3>3. CASE Enter(t) /\ n_graph.n = 1
      <4>1. t \in Active
        BY <2>1, <3>3, StageIs DEF Enter, BarPc
      <4>2. Active = {t} /\ pieces[t] \in Nat
        BY <2>1, <3>3, <4>1 DEF Active, TypeOK
      <4>3. pieces' = [pieces EXCEPT ![t] = @ + 1] /\ Active' = Active
        BY <3>3 DEF Enter, Active, shared
      <4>4. \A u \in Active : pieces[u] >= pieces[t]
        BY <4>2
      <4>5. Promise!Finish(t)
        BY <4>1, <4>3, <4>4 DEF Promise!Finish
      <4> QED BY <4>5 DEF Promise!LNext
    <3>4. CASE ~Add(t) /\ ~(Enter(t) /\ n_graph.n = 1)
      <4>1. UNCHANGED <<n_graph, pieces>>
        <5>1. CASE Worker(t)
          BY <5>1 DEF Worker, Top, Poll, Lock, shared, ghost
        <5>2. CASE Walk(t)
          BY <5>2 DEF Walk, Start, Loop, Op, MulMatSet, MulMatChunk, MulMatAdd, After, shared, ghost
        <5>3. CASE Barrier(t)
          BY <3>4, <5>3 DEF Barrier, Enter, Reset, Release, Spin, shared, ghost
        <5> QED BY <3>1, <5>1, <5>2, <5>3 DEF Step, Compute, Walk
      <4> QED BY <2>2, <4>1
    <3> QED BY <3>2, <3>3, <3>4
  <2>5. CASE Kickoff
    <3>1. (\A t, u \in Active : pieces[t] = pieces[u]) /\ BaseInv'
      BY <2>1, <2>5, KickoffStage
    <3>2. Active' \in SUBSET Threads
      <4>1. NThreads \in Nat /\ n_graph'.n \in 0 .. NThreads
        BY <3>1, PoolAssumption DEF BaseInv, ThreadInv, TypeOK
      <4> QED BY <4>1 DEF Active, Threads
    <3>3. Promise!Begin(Active')
      BY <2>5, <3>1 DEF Kickoff, Promise!Begin
    <3> QED BY <3>2, <3>3 DEF Promise!LNext
  <2>6. CASE CallStep
    <3>1. UNCHANGED <<n_graph, pieces>>
      BY <2>1, <2>6, CallMoves
    <3> QED BY <2>2, <3>1
  <2> QED BY <2>3, <2>4, <2>5, <2>6 DEF Next, CallStep
<1> QED BY <1>1, <1>2, PoolInductive, PTL DEF Spec, BarrierImplementsLockstep, Promise!LSpec
=============================================================================
