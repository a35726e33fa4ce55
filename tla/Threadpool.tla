----------------------------- MODULE Threadpool -----------------------------
(***************************************************************************)
(* The CPU backend's thread pool (src/ggml/src/ggml-cpu/ggml-cpu.c built   *)
(* without OpenMP): ggml_graph_compute on the caller's thread 0, the       *)
(* secondary threads that poll, sleep or pause, the walk of every thread   *)
(* over the nodes of the graph, ggml_barrier and the shared chunk counter  *)
(* of mul_mat.                                                             *)
(*                                                                         *)
(* A thread takes one step per access to a shared atomic; what happens     *)
(* under the mutex is one step.  The code orders the relaxed accesses with *)
(* sequentially consistent fences at every barrier and at kickoff, so the  *)
(* model interleaves.  The two reads on entry of the barrier are one step: *)
(* n_graph changes at kickoff only.                                        *)
(***************************************************************************)
EXTENDS Integers, Sequences, FiniteSets

CONSTANTS
    NThreads,    \* threads of the pool, the caller's included
    Graphs,      \* the graphs clients compute: sequences of node kinds
    MaxGraphs,   \* bound: graphs computed before the pool is freed
    CountMod     \* n_graph counts graphs in 16 bits: 2^16

Kinds == {"nop", "op", "mul_mat", "mul_mat_chunked"}

\* No thread sleeps through CountMod graphs.
ASSUME PoolAssumption ==
    /\ NThreads \in Nat \ {0}
    /\ MaxGraphs \in Nat /\ CountMod \in Nat /\ MaxGraphs < CountMod
    /\ Graphs \subseteq Seq(Kinds)

VARIABLES
    cgraph,            \* the graph
    n_graph,           \* graph count and number of active threads
    n_barrier,
    n_barrier_passed,
    current_chunk,
    stop,
    pause,
    abort,             \* node before which the threads stop, 0 for none
    ec,                \* status that ggml_graph_compute returns
    pc,
    req,               \* n_threads that the caller asks for
    nth,               \* per thread: params.nth
    node,              \* per thread: the node it is at, from 1
    chunk,             \* per thread: the chunk it is at
    bar,               \* per thread: what ggml_barrier has read on entry
    ret,               \* per thread: where it goes after the barrier
    last_graph,        \* per thread: state->last_graph
    written,           \* <<node, chunk>>: chunks of results computed
    again,             \* those of them computed a second time
    wdata,             \* <<node, thread>>: parts of src1 converted
    pieces,            \* per thread: barriers it has arrived at in this graph
    count              \* graphs started so far

shared == <<cgraph, n_graph, n_barrier, n_barrier_passed, current_chunk, stop, pause,
            abort, ec>>
local  == <<req, nth, node, chunk, bar, ret, last_graph>>
ghost  == <<written, again, wdata, pieces, count>>
vars   == <<shared, pc, local, ghost>>

Threads == 0 .. (NThreads - 1)
Workers == Threads \ {0}
Active  == 0 .. (n_graph.n - 1)

Go(t, to) == pc' = [pc EXCEPT ![t] = to]

\* ggml_cond_broadcast: sleeping threads check again, under the mutex.
Woken(p) == [t \in Threads |-> CASE p[t] = "asleep" -> "lock"
                                 [] p[t] = "paused" -> "top"
                                 [] OTHER           -> p[t]]

-----------------------------------------------------------------------------
(* ggml_barrier.  "ret" says where the thread was called from. *)

\* n_threads and n_barrier_passed are read on entry; one thread needs no barrier.
Enter(t) ==
    /\ pc[t] = "enter"
    /\ IF n_graph.n = 1
       THEN /\ Go(t, ret[t])
            /\ pieces' = [pieces EXCEPT ![t] = @ + 1]
            /\ UNCHANGED bar
       ELSE /\ Go(t, "add")
            /\ bar' = [bar EXCEPT ![t] = [n |-> n_graph.n, passed |-> n_barrier_passed]]
            /\ UNCHANGED pieces
    /\ UNCHANGED <<shared, req, nth, node, chunk, ret, last_graph, written, again, wdata, count>>

\* Mutant: the last but one thread opens the barrier.
Bug_Add(t) ==
    /\ pc[t] = "add"
    /\ Go(t, IF n_barrier = bar[t].n - 2 THEN "reset" ELSE "spin")
    /\ n_barrier' = n_barrier + 1
    /\ pieces' = [pieces EXCEPT ![t] = @ + 1]
    /\ UNCHANGED <<cgraph, n_graph, n_barrier_passed, current_chunk, stop, pause, abort, ec,
                   local, written, again, wdata, count>>

Add(t) ==
    /\ pc[t] = "add"
    /\ Go(t, IF n_barrier = bar[t].n - 1 THEN "reset" ELSE "spin")
    /\ n_barrier' = n_barrier + 1
    /\ pieces' = [pieces EXCEPT ![t] = @ + 1]
    /\ UNCHANGED <<cgraph, n_graph, n_barrier_passed, current_chunk, stop, pause, abort, ec,
                   local, written, again, wdata, count>>

\* The last thread: n_barrier is cleared before the others are let go.
Reset(t) ==
    /\ pc[t] = "reset"
    /\ n_barrier' = 0
    /\ Go(t, "release")
    /\ UNCHANGED <<cgraph, n_graph, n_barrier_passed, current_chunk, stop, pause, abort, ec,
                   local, ghost>>

Release(t) ==
    /\ pc[t] = "release"
    /\ n_barrier_passed' = n_barrier_passed + 1
    /\ Go(t, ret[t])
    /\ UNCHANGED <<cgraph, n_graph, n_barrier, current_chunk, stop, pause, abort, ec,
                   local, ghost>>

Spin(t) ==
    /\ pc[t] = "spin"
    /\ n_barrier_passed # bar[t].passed
    /\ Go(t, ret[t])
    /\ UNCHANGED <<shared, local, ghost>>

Barrier(t) == Enter(t) \/ Add(t) \/ Reset(t) \/ Release(t) \/ Spin(t)

-----------------------------------------------------------------------------
(* ggml_graph_compute_thread: the walk over the nodes. *)

\* The caller's thread returns, a worker goes back to its loop.
Finished(t) == IF t = 0 THEN "return" ELSE "top"

\* Mutant: no barrier after the last node.
Bug_Loop(t) ==
    /\ pc[t] = "loop"
    /\ IF node[t] > Len(cgraph) \/ abort = node[t]
       THEN /\ Go(t, Finished(t))
            /\ UNCHANGED <<node, ret>>
       ELSE IF cgraph[node[t]] = "nop"
       THEN /\ node' = [node EXCEPT ![t] = @ + 1]
            /\ UNCHANGED <<pc, ret>>
       ELSE /\ Go(t, IF cgraph[node[t]] = "op" THEN "op" ELSE "mm_set")
            /\ UNCHANGED <<node, ret>>
    /\ UNCHANGED <<shared, req, nth, chunk, bar, last_graph, ghost>>

\* The head of the loop over the nodes.
Loop(t) ==
    /\ pc[t] = "loop"
    /\ IF node[t] > Len(cgraph) \/ abort = node[t]
       THEN /\ Go(t, "enter")
            /\ ret' = [ret EXCEPT ![t] = Finished(t)]
            /\ UNCHANGED node
       ELSE IF cgraph[node[t]] = "nop"
       THEN /\ node' = [node EXCEPT ![t] = @ + 1]
            /\ UNCHANGED <<pc, ret>>
       ELSE /\ Go(t, IF cgraph[node[t]] = "op" THEN "op" ELSE "mm_set")
            /\ UNCHANGED <<node, ret>>
    /\ UNCHANGED <<shared, req, nth, chunk, bar, last_graph, ghost>>

\* The rows of a chunk are written.
Writes(k, c) ==
    /\ written' = written \cup {<<k, c>>}
    /\ again' = IF <<k, c>> \in written THEN again \cup {<<k, c>>} ELSE again

\* Any operation that gives each thread its rows.
Op(t) ==
    /\ pc[t] = "op"
    /\ Writes(node[t], t)
    /\ Go(t, "after")
    /\ UNCHANGED <<shared, local, wdata, pieces, count>>

\* Mutant: the counter starts at the first chunk, which thread 0 takes anyway.
Bug_MulMatSet(t) ==
    /\ pc[t] = "mm_set"
    /\ wdata' = wdata \cup {<<node[t], t>>}
    /\ current_chunk' = IF t = 0 THEN 0 ELSE current_chunk
    /\ chunk' = [chunk EXCEPT ![t] = t]
    /\ ret' = [ret EXCEPT ![t] = "mm_chunk"]
    /\ Go(t, "enter")
    /\ UNCHANGED <<cgraph, n_graph, n_barrier, n_barrier_passed, stop, pause, abort, ec,
                   req, nth, node, bar, last_graph, written, again, pieces, count>>

\* mul_mat: each thread converts its rows of src1 into the work buffer, thread
\* 0 sets the chunk counter, and all meet at a barrier.
MulMatSet(t) ==
    /\ pc[t] = "mm_set"
    /\ wdata' = wdata \cup {<<node[t], t>>}
    /\ current_chunk' = IF t = 0 THEN nth[t] ELSE current_chunk
    /\ chunk' = [chunk EXCEPT ![t] = t]
    /\ ret' = [ret EXCEPT ![t] = "mm_chunk"]
    /\ Go(t, "enter")
    /\ UNCHANGED <<cgraph, n_graph, n_barrier, n_barrier_passed, stop, pause, abort, ec,
                   req, nth, node, bar, last_graph, written, again, pieces, count>>

\* Chunks of a node for n threads.  mul_mat falls back to one chunk per thread
\* when there would be fewer than four for each.
NChunks(kind, n) == IF kind = "mul_mat_chunked" THEN 4 * n ELSE n

MulMatChunk(t) ==
    LET n == NChunks(cgraph[node[t]], nth[t])
    IN  /\ pc[t] = "mm_chunk"
        /\ IF chunk[t] < n
           THEN /\ Writes(node[t], chunk[t])
                /\ Go(t, IF nth[t] >= n THEN "after" ELSE "mm_add")
           ELSE /\ Go(t, "after")
                /\ UNCHANGED <<written, again>>
        /\ UNCHANGED <<shared, local, wdata, pieces, count>>

\* The next chunk: an atomic fetch and add.
MulMatAdd(t) ==
    /\ pc[t] = "mm_add"
    /\ chunk' = [chunk EXCEPT ![t] = current_chunk]
    /\ current_chunk' = current_chunk + 1
    /\ Go(t, "mm_chunk")
    /\ UNCHANGED <<cgraph, n_graph, n_barrier, n_barrier_passed, stop, pause, abort, ec,
                   req, nth, node, bar, ret, last_graph, ghost>>

\* Mutant: no barrier when nobody works on the next node.
Bug_After(t, aborts) ==
    /\ pc[t] = "after"
    /\ aborts => t = 0
    /\ abort' = IF aborts THEN node[t] + 1 ELSE abort
    /\ ec' = IF aborts THEN "aborted" ELSE ec
    /\ node' = [node EXCEPT ![t] = @ + 1]
    /\ ret' = [ret EXCEPT ![t] = "loop"]
    /\ Go(t, IF node[t] < Len(cgraph) /\ cgraph[node[t] + 1] # "nop" THEN "enter" ELSE "loop")
    /\ UNCHANGED <<cgraph, n_graph, n_barrier, n_barrier_passed, current_chunk, stop, pause,
                   req, nth, chunk, bar, last_graph, ghost>>

\* The end of a node: thread 0 asks the abort callback, whose answer the others
\* read after the barrier; a barrier follows unless the node is the last.
After(t, aborts) ==
    /\ pc[t] = "after"
    /\ aborts => t = 0
    /\ abort' = IF aborts THEN node[t] + 1 ELSE abort
    /\ ec' = IF aborts THEN "aborted" ELSE ec
    /\ node' = [node EXCEPT ![t] = @ + 1]
    /\ ret' = [ret EXCEPT ![t] = "loop"]
    /\ Go(t, IF node[t] < Len(cgraph) THEN "enter" ELSE "loop")
    /\ UNCHANGED <<cgraph, n_graph, n_barrier, n_barrier_passed, current_chunk, stop, pause,
                   req, nth, chunk, bar, last_graph, ghost>>

Compute(t) ==
    \/ Loop(t) \/ Op(t) \/ MulMatSet(t) \/ MulMatChunk(t) \/ MulMatAdd(t)
    \/ \E aborts \in BOOLEAN : After(t, aborts)
    \/ Barrier(t)

-----------------------------------------------------------------------------
(* ggml_graph_compute_secondary_thread. *)

\* The top of the loop: a paused pool puts the thread to sleep (the check is
\* repeated under the mutex), a stopped one ends it.
Top(t) ==
    /\ pc[t] = "top"
    /\ Go(t, IF pause THEN "paused" ELSE IF stop THEN "exited" ELSE "poll")
    /\ UNCHANGED <<shared, local, ghost>>

\* thread_ready has seen another graph: the thread takes part in it or not.
NewGraph(t, else) ==
    /\ n_graph # last_graph[t]
    /\ last_graph' = [last_graph EXCEPT ![t] = n_graph]
    /\ Go(t, IF t < n_graph.n THEN "start" ELSE else)

\* poll_for_work: the thread sees a graph; or it stops polling because there
\* was none for long enough, the pool is stopped or paused.
Poll(t) ==
    /\ pc[t] = "poll"
    /\ \/ NewGraph(t, "lock")
       \/ Go(t, "lock") /\ UNCHANGED last_graph
    /\ UNCHANGED <<shared, req, nth, node, chunk, bar, ret, ghost>>

\* Mutant: the graph counter is not looked at again under the mutex.
Bug_Lock(t) ==
    /\ pc[t] = "lock"
    /\ Go(t, IF stop \/ pause THEN "top" ELSE "asleep")
    /\ UNCHANGED last_graph
    /\ UNCHANGED <<shared, req, nth, node, chunk, bar, ret, ghost>>

\* check_for_work under the mutex: go on when the pool is stopped or paused or
\* there is another graph, otherwise wait for the signal.
Lock(t) ==
    /\ pc[t] = "lock"
    /\ IF stop \/ pause THEN Go(t, "top") /\ UNCHANGED last_graph
       ELSE IF n_graph # last_graph[t] THEN NewGraph(t, "top")
       ELSE Go(t, "asleep") /\ UNCHANGED last_graph
    /\ UNCHANGED <<shared, req, nth, node, chunk, bar, ret, ghost>>

\* ggml_graph_compute_thread starts: params.nth is read from n_graph.
Start(t) ==
    /\ pc[t] = "start"
    /\ nth' = [nth EXCEPT ![t] = n_graph.n]
    /\ node' = [node EXCEPT ![t] = 1]
    /\ Go(t, "loop")
    /\ UNCHANGED <<shared, req, chunk, bar, ret, last_graph, ghost>>

Worker(t) == Top(t) \/ Poll(t) \/ Lock(t)

-----------------------------------------------------------------------------
(* The caller: ggml_graph_compute, ggml_threadpool_pause, _resume, _free. *)

\* ggml_graph_compute resets the parameters of the pool.
GraphCompute(g, n) ==
    /\ pc[0] = "idle"
    /\ count < MaxGraphs
    /\ count' = count + 1
    /\ cgraph' = g
    /\ current_chunk' = 0 /\ abort' = 0 /\ ec' = "success"
    /\ req' = n
    /\ written' = {} /\ again' = {} /\ wdata' = {}
    /\ Go(0, "kickoff")
    /\ UNCHANGED <<n_graph, n_barrier, n_barrier_passed, stop, pause, nth, node, chunk, bar,
                   ret, last_graph, pieces>>

\* ggml_graph_compute_kickoff: a paused pool is resumed, everyone is woken.
Kickoff ==
    /\ pc[0] = "kickoff"
    /\ n_graph' = [count |-> (n_graph.count + 1) % CountMod,
                   n     |-> IF req > NThreads THEN NThreads ELSE req]
    /\ pause' = FALSE
    /\ pc' = [Woken(pc) EXCEPT ![0] = "start"]
    /\ pieces' = [t \in Threads |-> 0]
    /\ UNCHANGED <<cgraph, n_barrier, n_barrier_passed, current_chunk, stop, abort, ec,
                   local, written, again, wdata, count>>

\* ggml_graph_compute returns.
Return ==
    /\ pc[0] = "return"
    /\ Go(0, "idle")
    /\ UNCHANGED <<shared, local, ghost>>

SetPause(p) ==
    /\ pc[0] = "idle"
    /\ pause # p
    /\ pause' = p
    /\ pc' = Woken(pc)
    /\ UNCHANGED <<cgraph, n_graph, n_barrier, n_barrier_passed, current_chunk, stop, abort, ec,
                   local, ghost>>

Free ==
    /\ pc[0] = "idle"
    /\ stop' = TRUE /\ pause' = FALSE
    /\ pc' = [Woken(pc) EXCEPT ![0] = "join"]
    /\ UNCHANGED <<cgraph, n_graph, n_barrier, n_barrier_passed, current_chunk, abort, ec,
                   local, ghost>>

Join ==
    /\ pc[0] = "join"
    /\ \A t \in Workers : pc[t] = "exited"
    /\ Go(0, "freed")
    /\ UNCHANGED <<shared, local, ghost>>

-----------------------------------------------------------------------------
\* ggml_threadpool_new: the workers are started, the pool paused or not.
Init ==
    /\ cgraph = <<>>
    /\ n_graph = [count |-> 0, n |-> 0]
    /\ n_barrier = 0 /\ n_barrier_passed = 0 /\ current_chunk = 0
    /\ stop = FALSE /\ pause \in BOOLEAN
    /\ abort = 0 /\ ec = "success"
    /\ pc = [t \in Threads |-> IF t = 0 THEN "idle" ELSE "top"]
    /\ req = 1
    /\ nth = [t \in Threads |-> 0]
    /\ node = [t \in Threads |-> 1]
    /\ chunk = [t \in Threads |-> 0]
    /\ bar = [t \in Threads |-> [n |-> 0, passed |-> 0]]
    /\ ret = [t \in Threads |-> Finished(t)]
    /\ last_graph = [t \in Threads |-> n_graph]
    /\ written = {} /\ again = {} /\ wdata = {}
    /\ pieces = [t \in Threads |-> 0]
    /\ count = 0

Step(t) == Worker(t) \/ Start(t) \/ Compute(t)

Next ==
    \/ \E t \in Threads : Step(t)
    \/ \E g \in Graphs, n \in 1 .. (NThreads + 1) : GraphCompute(g, n)
    \/ Kickoff \/ Return \/ Free \/ Join
    \/ \E p \in BOOLEAN : SetPause(p)

\* The operating system runs every thread; the caller finishes what it called.
Fairness ==
    /\ \A t \in Threads : WF_vars(Step(t))
    /\ WF_vars(Kickoff) /\ WF_vars(Return) /\ WF_vars(Join)

Spec == Init /\ [][Next]_vars /\ Fairness

-----------------------------------------------------------------------------
(* Properties *)

\* A thread at one of these reads the graph or the counters of the barrier.
Reading == {"start", "loop", "op", "mm_set", "mm_chunk", "mm_add", "after", "enter", "add",
            "reset", "release"}

\* Type invariant: in particular n_barrier never exceeds the number of threads.
TypeOK ==
    /\ cgraph \in Seq(Kinds)
    /\ n_graph \in [count : Nat, n : 0 .. NThreads]
    /\ n_barrier \in 0 .. NThreads /\ n_barrier_passed \in Nat
    /\ current_chunk \in Nat /\ abort \in Nat
    /\ stop \in BOOLEAN /\ pause \in BOOLEAN
    /\ ec \in {"success", "aborted"}
    /\ pc \in [Threads -> Reading \cup {"spin", "top", "paused", "poll", "lock", "asleep",
                    "exited", "idle", "kickoff", "return", "join", "freed"}]
    /\ req \in Nat /\ nth \in [Threads -> 0 .. NThreads]
    /\ node \in [Threads -> Nat] /\ chunk \in [Threads -> Nat]
    /\ bar \in [Threads -> [n : 0 .. NThreads, passed : Nat]]
    /\ ret \in [Threads -> {"return", "top", "loop", "mm_chunk"}]
    /\ last_graph \in [Threads -> [count : Nat, n : 0 .. NThreads]]
    /\ pieces \in [Threads -> Nat] /\ count \in Nat

Chunks(k) == IF cgraph[k] = "nop" THEN {} ELSE 0 .. (NChunks(cgraph[k], n_graph.n) - 1)

\* Every chunk of node k has been computed.
NodeDone(k) == \A c \in Chunks(k) : <<k, c>> \in written

\* A thread computes a node only when every earlier node is complete, and reads
\* the converted src1 only when every thread has converted its part: the
\* barrier between two nodes, the one inside mul_mat and the abort node number
\* keep all threads at the same node without any lock.
InputsComplete ==
    \A t \in Threads :
        pc[t] \in {"op", "mm_set", "mm_chunk"} =>
            /\ \A k \in 1 .. (node[t] - 1) : NodeDone(k)
            /\ pc[t] = "mm_chunk" => \A u \in Active : <<node[t], u>> \in wdata

\* No chunk is computed twice, whatever the order in which they
\* take chunks from the shared counter.
ComputedOnce == again = {}

\* When ggml_graph_compute returns, the results are there: all of them, or,
\* when the callback aborted it, those of the nodes before the abort node.
ReturnComplete ==
    pc[0] = "return" =>
        \A k \in 1 .. Len(cgraph) : (ec = "success" \/ k < abort) => NodeDone(k)

\* "No worker threads should be accessing the parameters below at this stage":
\* while the caller is not inside a graph, no worker is, except to leave the
\* last barrier.
NoReaderAtReset ==
    pc[0] \in {"idle", "kickoff", "join", "freed"} =>
        \A t \in Workers : /\ pc[t] \notin Reading
                           /\ pc[t] = "spin" => n_barrier_passed # bar[t].passed

\* What the caller of ggml_graph_compute relies on when it goes on: counters and threads
\* in range, the results complete, and no worker left inside the graph.
ReturnOK == TypeOK /\ ReturnComplete /\ NoReaderAtReset

\* ggml_barrier keeps its promise across graphs with different numbers of
\* threads: module Lockstep, with a piece counted when a thread arrives at the
\* barrier that ends it.
Promise == INSTANCE Lockstep WITH active <- Active, work <- pieces

BarrierImplementsLockstep == Promise!LSpec

\* A graph that was started is finished, whichever threads slept, polled or
\* were paused when it arrived.
GraphReturns == pc[0] = "kickoff" ~> pc[0] = "idle"

\* ggml_threadpool_free joins every worker.
FreeReturns == pc[0] = "join" ~> pc[0] = "freed"

\* Neither call hangs: no wake-up of a worker that polls, sleeps or is paused is lost.
CallsReturn == GraphReturns /\ FreeReturns
=============================================================================
