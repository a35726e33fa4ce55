# A TLA+ development of llama.cpp's runtime: memory, threads and server

This directory holds TLA+ specifications of the parts of this repository that
keep state over many calls or share it between threads: the KV cache with the
decode call that drives it, the expert pool that shares the card's memory with
it, the CPU thread pool that runs the graphs, and of the HTTP server the task
queue with its slots, the resumable streams and the router with its child
processes. TLC checks them on small instances and TLAPS proves central
invariants for every instance.

## The system

A program loads a model (`llama_model`), creates a context (`llama_context`)
and calls `llama_decode` with batches of tokens. A token belongs to one or more
*sequences* and has a position in them. The context splits a batch in *ubatches*
(`llama_batch_allocr`), finds room for each in the memory module
(`llama_kv_cache` for attention models), builds a graph, runs it on the
backends and keeps the outputs. Between two decode calls the client edits the
memory: it removes, copies, keeps, shifts or divides ranges of a sequence, or
saves and restores one. The server (`tools/server`) multiplexes HTTP requests
onto *slots*, one sequence each, with one thread that owns the context and a
queue that all HTTP threads post to. As a *router* the server holds no model: it
starts one child server per model and proxies requests to them.

With a mixture-of-experts model larger than the card, this fork keeps a *pool* of
blocks on the card in which the experts used most are cached. The same buffer
lends its first blocks to the compute graph and holds the growing KV rows (the
*zone*), so the three move each other around while upload workers copy experts
in.

### Inventory

| part | state | operations | hard behaviour |
|---|---|---|---|
| KV cells (`llama-kv-cells.h`) | rows pos/ext/shift/seq, indexes `used` and `seq_pos`, `has_shift` | rm, seq_rm, seq_keep, seq_add, pos_set, pos_add, pos_div, cp, set, reset | two indexes kept by hand in nine methods |
| KV cache (`llama-kv-cache.cpp`) | cells and search head per stream, queued stream copies, K/V buffers | clear, seq_rm/cp/keep/add/div, find_slot, prepare, apply_ubatch, update, state_write/read | lazy updates, a rehearsal that is undone, reuse of cells outside a sliding window |
| Decode (`llama-context.cpp`) | the running call | memory_update, init_batch, retry, the ubatch loop | three failure paths that take back different things |
| Batch (`llama-batch.cpp`) | the tokens not yet used | init checks, split_simple, split_equal, split_seq | boundary of n_ubatch, coupled sequences |
| Task queue (`server-queue.cpp`) | tasks, deferred tasks, running/sleeping flags, time of the last task | post, defer, pop_deferred, cancel, yield, sleep, terminate | HTTP threads and the main thread race for it |
| Response queue (`server-queue.cpp`) | results, ids somebody waits for | add/remove waiting ids, recv, send, terminate | late results, time-outs, disconnects |
| Slots (`server-context.cpp`) | slot states, prompt caches | launch, decode, release, defer | deferred tasks wait for a release |
| Stream sessions (`server-stream.cpp`) | byte ring per conversation | append, read from offset, finalize, evict | producers, readers and a collector thread |
| Router (`server-models.cpp`) | child processes and their status, a queue of waiting models, commands for the monitor | load, unload, sleep, evict, stop, kill, reap | process exit races with requests; a load spans three critical sections |
| CPU thread pool (`ggml-cpu.c`) | counters of the barrier, the graph, the next chunk; pause, stop, abort flags | kick off, poll, sleep, barrier, chunks, pause, free | lock-free counters reused by every node and every graph |
| Recurrent and hybrid memory | cells with a tail per sequence; pairs of caches | as the KV cache | one half of a pair failing |
| Expert cache and pool (`*-fork*`) | block owners, free stack, KV zone, resident experts, upload queue | lend, lay out and move the zone, upload, adopt, publish, evict | experts, graphs and KV share device memory; uploads run beside |
| Sampling, grammars, vocabularies, graphs, backends, model files | mostly none across calls | | numeric or string code |

`PROJECT.json` lists every part, also those that are not modelled, with the
reason, and under `hazards` what is hard to test in this code and has a property; what
was seen and has none is listed at the end of "Not modelled".

## Modules

| module | models | extends |
|---|---|---|
| `KVCells` | one `llama_kv_cells` object | |
| `KVCache` | `llama_kv_cache` under the edit calls, `llama_context::decode` and the per-sequence state calls | `KVCells` |
| `FindSlot` | the search loop of `find_slot`, in unsigned arithmetic | `KVCells` |
| `ServerQueue` | the deques of `server_queue`, the lists of `server_response` | |
| `Server` | the main thread, the worker thread and the request threads on top of them | `ServerQueue` |
| `Router` | the registry, queue and monitor of `server_models` with its children | |
| `StreamSession` | the resumable stream of one conversation | |
| `Lockstep` | abstract: threads work in rounds, none begins the next before all ended this one | |
| `Threadpool` | the CPU thread pool; implements `Lockstep` | instance of `Lockstep` |
| `ExpertPool` | the pool of one card | |
| `KVCellsProofs`, `KVCacheProofs`, `ServerProofs`, `ThreadpoolProofs`, `StreamSessionProofs`, `RouterProofs`, `ExpertPoolProofs`, `FindSlotProofs` | the proofs about the module of that name | |
| `MC...` | the instances TLC runs | |

### KVCells

A cells object is a record of the rows of its cells (`pos`, `shift`, `seq` and the
token `tok` of `ext`), the indexes `used` and `seq_pos`, and `has_shift`. There is one
operator per method. Every method touches the row of one cell and the index entries of
that cell, so a loop of the cache over many cells is the method applied to the set of
those cells. `CellsOK` says that the indexes agree with the rows.

### KVCache

| variable | code |
|---|---|
| `v_cells`, `v_heads` | members of the same name, one entry per stream |
| `sc_info` | the queued stream copies |
| `kv` | the K/V buffers: per cell the token whose K/V was written and the position its K is rotated to |
| `phase`, `ubatches`, `sinfos`, `states`, `done`, `did_optimize` | where the running `decode` call is, and its locals |
| `saved` | the last sequence written by `state_write` |
| `before` | history: the cells when the call was entered |

The cache is single threaded; what makes it hard is that the effect of one call is
complete only after a later one, and that a decode call can stop in the middle of
three loops. `Edit` has one action per `llama_memory_*` call, `Decode` one per
round of the loops of `prepare()` (rehearsal, undoing it) and of `decode()` (each
ubatch with its success and its failures: a fatal error, a refusal by the pool, out
of memory), `StateIo` one for saving, restoring and failing to restore a sequence.
`Splits` gives the ubatches of every batch a client may pass, as
`llama_batch_allocr` makes them.

### FindSlot

The loop of `find_slot` with `n_tested` and `head_cur` modulo `U32` and the kv-tail
cap on the searched cells, one step per round. `KVCache` uses the result of the loop
through `IsSlot`, which both modules share; `SlotFound` shows that the loop computes
it. `U32` is 64 in the runs instead of 2^32: what matters is that it is far above
every sum of a few cache sizes and that a negative difference wraps to a large value.

### ServerQueue and Server

| variable | code |
|---|---|
| `queue_tasks`, `queue_tasks_deferred`, `queue_tasks_unhandled` | the deques of `server_queue` |
| `running`, `sleeping`, `req_stop_sleeping` | its flags |
| `expired` | whether `time_last_task` is at least `idle_sleep_ms` ago |
| `busy`, `yielding`, `stop`, `exception` | `worker_t` |
| `blocked` | the threads inside `condition_tasks.wait` |
| `waiting_task_ids`, `queue_results` | `server_response` |
| `main`, `worker`, `req`, `received` | where each thread is, with its locals |
| `slot` | state and task of each `server_slot` |
| `answered`, `destroyed` | history: tasks whose last result was made, tasks that went with a slot when the model was loaded again |

An action is one critical section of `mutex_tasks` or `mutex_results`, or a stretch of
code of one thread between two of them that shares nothing. A decode is three steps
of main (`YieldBegin`, `YieldWorkDone`, `YieldEnd`), between which the worker and the
requests run. `notify_one` frees any one thread of `blocked`, `notify_all` all of
them; spurious wake-ups are not modelled, because every wait has a predicate that is
tested again. A thread that is freed and finds its predicate false blocks again.

Abstractions: a request is posted once, with all its tasks; the order in which the
slots of one decode finish, and the order of several prompts in one post, is any; the
idle slot that `get_available_slot` prefers is any idle slot; partial results,
prompt contents, context shift, speculative decoding (its second yield has the shape of
the first) and TTS slots are left out.

A realtime transcription is a task that stays in its slot while its client sends audio
(`Session` says whose audio a CONTROL task is). `slot_audio_step` may find no rows and set
`audio_wait`, kept here as a slot state of its own; the next audio clears it. `update_slots`
does not count such a slot as work (`HasWork`), so the loop may idle and the server may sleep
with the session open. On waking, `load_model` clears the slots and what they held
(`WakeUp`). The stream ends only after audio has reached it (`Heard`).

### Lockstep and Threadpool

| variable | code |
|---|---|
| `n_graph`, the thread count in its low bits, `n_barrier`, `n_barrier_passed`, `current_chunk`, `abort`, `stop`, `pause` | fields of `ggml_threadpool` |
| each thread's place, node, chunk and `last_graph` | `ggml_compute_state` and locals |
| `pieces` and the ghosts | which pieces of which node were computed, and by how many |

One action per atomic operation or critical section: entering the barrier, adding to
`n_barrier`, the last thread's reset, its release of the others, the spin; taking a chunk,
computing it, adding to the chunk counter; polling, the check under the mutex, sleeping.
Pause, resume, abort and free may come at any time the API allows. The relaxed operations
are interleaved, not reordered: the barrier orders them with its own fences, and the
property that rests on the order (`InputsComplete`) is checked at the barrier. `Lockstep` is
the promise of `ggml_barrier`: a round of work per thread, and no thread begins a round
before every active one ended the last. `BarrierImplementsLockstep` maps `Active` and
`pieces` to it.

### Router

| variable | code |
|---|---|
| `inst` | `mapping`: status, whether the exit code was nonzero, `req_count` |
| `stopping`, `lru` | `stopping_models`; the order of `last_used` |
| `queue` | `server_lru_sched::queue` |
| `cmds` | the commands of `server_monitor` |
| `procs` | per model its child processes: state, unread output, deadline |
| `rq` | per request where its handler is, with its locals |

An action is one section under the registry's mutex. A waiting request polls every
200 ms, so it may look at any time. The monitor is one thread that takes commands,
reads the children's lines, kills at the deadline and reaps. A child may become ready,
sleep, wake, obey the exit command, ignore it, or die; `MaxFaults` bounds crashes, failed
spawns and cancellations. `Startups` holds the sets of models that `load_startup_models`
may have spawned before the first request; a set larger than `models_max` is refused at
startup, also when `models_max` is 0 for "no limit" (`server-models.cpp:1069`), so the
assumption on `Startups` allows none then. `Asks` says what each request may ask for.

### StreamSession

The ring is the pair of the bytes kept and the number dropped, a byte being its index in
the answer of its request, so that a reader can be checked byte by byte. `append` with
its three cases, `finalize`, `cancel`, eviction, replacement by a second request of the
conversation, the drain after a disconnect, the destruction of the producer, the
collector and its stop, and the reader with its offset check and its later reads are
actions of their own. `CapBytes` is smaller than an answer, so that the ring drops bytes
under the reader.

### ExpertPool

| variable | code |
|---|---|
| `pool` | `owner` and `free` of a size class, the lend (`blocked`, `want`), `starved`, `gave_back` |
| `cache` | per layer `slot_expert`, `slot_in_flight`; per expert its slot, table entry, `queued`, adoption |
| `jobs`, `worker` | `todo` and `done` of the upload queue, the workers |
| `kv` | the zone: `kv_h`, `kv_start`, rows in use, the range announced as moving |
| `content` | what the bytes of a block really are: an expert, a KV row, a graph's tensors, or junk |
| `main` | where the decode thread is |

`content` is what makes the properties say more than the books do: a block counts as a
cached expert only if nobody has written over it since. Sizes are whole blocks of one
class, a KV cell fills a block, and scores are left out, so that every choice they could
make is allowed. `Need` is one size per kind of graph, though a graph's need grows with the cells, and
`SmallPasses` stands for both thresholds of the code, the 64 tokens below which a graph is a decode
graph and `llama_moe_cache_max_batch_fork()`. The cap on prompts is left out: fewer cells would be found. A decode call lays the zone out for its tokens, finds its cells, and per
pass lays out again, measures the graph, moves the zone behind it or refuses, drops or
awaits the uploads in the way, lends, computes; at its end a step publishes, takes the lend
back, and schedules uploads. The worker's gate, its entering of a range and its leaving are
separate steps, and the mover writes `kv_h` and `kv_start` one after the other, as the code
does. Graph and decode thread are one: the code synchronizes before it changes blocks.

## What the runs check

Passing runs:

| run | instance | shows |
|---|---|---|
| `KVCache_edit` | 2 cells, 2 sequences, 1 stream, positions to 2, batches of 3 in ubatches of 2, all edit calls, shared tokens, out of memory, failing K-shift | `TypeOK`, `IndexesAgree`: the hand-kept indexes agree with the cells after every step; `ReturnOneRestores`: a call that returns 1 takes back all it stored |
| `KVCache_swa` | 3 cells, window 2, positions to 4, batches of 3 in ubatches of 2, copy and remove | `SuccessLeavesNoHoles`, `SlotsTakeNothingVisible`, `UbatchStored`: slots reuse only masked cells, the purge hits neither visible nor new tokens, and a call that succeeds leaves no hole although its rehearsal purged cells that it did not give back |
| `KVCache_streams` | 2 cells in each of 2 streams, 2 queued copies, shifts by -1, save and restore, failures fatal and oom | `DataMatchesCells`, `StreamsSeparate`: lazy copies and shifts in any order end in the right K; `FailedUbatchRemoved`: a failed ubatch leaves no position behind |
| `FindSlot_search` | 5 cells, every set of usable cells, head, request size and cap | `SearchExact`, `Ends`: the first usable cells after the head are found, none is missed, the loop ends |
| `Server_queue` | 2 slots; a realtime session that may leave, fail or be refused, its audio, an erase, a metrics scrape; a worker that may throw; sleeping | `NoTaskLost`, `ResultsOK`, `WorkerInsideYield`, `SleepsOnlyIdle`, `YieldKeepsOrder` |
| `Server_live` | 2 slots; a parent with a child, which may be refused, against a completion; throwing and retried decodes; terminate at any time | `NoTaskLost`, `DeferredHasSlot`, `Answered`, `Shutdown` |
| `Threadpool_graphs` | 3 threads, 2 graphs of up to 3 nodes on 1 to 3 threads each, abort, pause, free | `InputsComplete`, `ComputedOnce`, `ReturnOK`: no node starts early, no chunk is done twice, the call returns with all results and no worker left inside; `BarrierImplementsLockstep`, `CallsReturn` |
| `Router_limit` | 2 models, room for 1, none or one of them loaded on startup; a client of one model against a request of every kind for either; 1 fault | `WithinLimit`, `QueueOK`, `StopHitsItsInstance`, `StopsEnd`, `TakeTurns` |
| `Stream_replay` | 2 requests of one conversation, 1 reader, ring of 2 bytes, answers of 3 | `ReadsOK`, `SurvivesDisconnect`, `ReadersEnd` |
| `Pool_moves` | 4 blocks, 2 layers with an expert each, 1 worker, zone up to 4 cells, graphs of 1 and 2 blocks | `SlotsAreTrue`, `TableIsTrue`, `KvIntact`, `CellCovered`, `LendIsOwned`, `LedgerOK`, `CallReturns`: experts, graphs and KV never write over each other, no block leaks, the written cell is covered while the cap admits it, the call returns |

The runs that find a disagreement (the findings in `PROJECT.json`):

| run | property | what happens |
|---|---|---|
| `Router_stuck` | `WaitersServed` | `claim_done` after a load that succeeded leaves the entry claimed; if the instance then dies before another waiter saw it, that waiter can never claim the load and waits for ever |
| `Server_audio` | `AudioWakesLoop` | a realtime slot that waits for audio counts as idle and the server falls asleep under it (`server-context.cpp:3668`); its next audio is posted to a loop that waits for `req_stop_sleeping` only, against the comment that it 'wakes the loop' (3663) |

Known deviations that TLC reproduces when the constants, or the property, of a passing run are
changed as given:

| change | violated | what happens |
|---|---|---|
| `KVCache_edit` with `Calls = {"div"}`, `MaxShift = 2`, no shared tokens, shifts or failing K-shift | `DataMatchesCells` | `pos_div` records the shift with the opposite sign of `pos_add` (`llama-kv-cells.h:488`) |
| `KVCache_streams` with `StateIoAny` TRUE | `DataMatchesCells` | a sequence saved or restored while a K-shift is queued takes the K without it, and the position with it (`llama-kv-cache.cpp:2471`) |
| `KVCache_swa` with `Calls = {"add"}`, shifts by -1, `KShiftFails` TRUE | `DataMatchesCells` | the rehearsal takes a cell whose shift is still queued; `set()` puts the row back without the shift (`llama-kv-cells.h:197`) |
| `KVCache_edit` with `Failures = {"fatal"}` | `FailedUbatchRemoved` (and `DataMatchesCells`, with no edit calls and no failing K-shift) | a failed ubatch is removed from the first sequence of each token only; the others keep cells whose K was never computed (`llama-context.cpp:3978`) |
| `KVCache_swa` with `NCells = 4`, `NSwa = 3`, `NUbatch = 1` | `ReturnOneRestores` | with a sliding window the rehearsal's purge is not undone when the batch is then refused (`llama-kv-cache.cpp:1077`) |
| `KVCache_swa` with `NCells = 4`, `MaxPos = 5`, `Calls = {"rm"}`, `Failures = {"oom"}` | `NoHoles` | the rehearsal overwrites positions 0 and 2 and purges 1; 0 and 2 are put back, 1 is not; the call then runs out of memory and ends, against the comment that all positions between the first and the last are present (`llama-kv-cache.cpp:1461`) |
| `KVCache_edit` with `NUbatch = 1`, `Failures = {"refused"}` | `ReturnOneRestores` | a graph that the pool refuses returns 1 after only its own ubatch was removed; the ubatches computed before it in the same call stay (`llama-context.cpp:3998`) |
| `FindSlot_search` with `NCells = 4`, `NSeqs = 1`, `KvTail` and `HeadBeyondCap` TRUE | `NoSlotMissed` | with the head beyond the kv-tail cap the unsigned difference wraps and the search gives up after one cell (`llama-kv-cache.cpp:1314`) |
| `Server_live` with one slot, `Requests = {"a", "b", "e"}`, no refusals, errors or terminate | `DeferredHasSlot` | a released slot moves one deferred task; if that one needs no slot, the next stays behind on an idle server (`server-queue.cpp:107`) |
| `Server_live` with one slot, `Requests = {"a"}`, `IdleSleep` TRUE, no refusals, errors or terminate | `Answered` | a request that passes `wait_until_no_sleep` just before the server falls asleep waits for ever (`server-queue.cpp:336`) |
| `Stream_replay` with `EvictsOwnSession` as a property | `EvictsOwnSession` | a failed request whose session was replaced evicts and ends the newer one's live session (`server-stream.cpp:639`) |
| `Pool_moves` with `NBlocks = 5`, `MaxCells = 2` | `VictimsUnread` | a small pass reads the block of an adoption through the table entry of its victim (`llama-moecache-fork.cpp:2913`) |
| `Pool_moves` with `AssertHolds` as an invariant | `AssertHolds` | the cap does not know the first decode graph's lend yet: its cells are found, the zone shrinks behind the graph, and a later pass hits the assertion (`llama-kv-cache.cpp:1781`) |

Where several named parts describe one thing, the run checks their conjunction:
`SearchExact` (`SlotFound`, `NoSlotMissed`), `ResultsOK` of the server (`TypeOK`,
`ResultsDelivered`), `ReturnOK` (`TypeOK`, `ReturnComplete`, `NoReaderAtReset`), `CallsReturn`
(`GraphReturns`, `FreeReturns`), `QueueOK` (`TypeOK`, `QueueOwned`), `StopsEnd` (`StopEnds`,
`ShutdownEnds`), `ReadsOK` (`TypeOK`, `ReadsAreContiguous`, `EndIsTheEnd`), `LedgerOK` (`TypeOK`,
`FreeIsExact`, `LendReturned`).

Every property of a passing run has a mutant in `PROJECT.json`: a plausible bug in one
definition under which TLC finds the property violated.

### Why the bounds are enough

The cache's methods treat cells and sequences alike and look at most at pairs of them
(a cell and its row, a source and a destination, an overwritten cell and the largest
position of its sequence), so two sequences and the two or three cells that make
sharing, overwriting and a full cache possible reach every branch. Positions go one
beyond the window, batches one beyond the ubatch. `MaxShift`, `MaxCopies`, `MaxPos`
and `MaxBatch` bound what clients ask for, never what the code does. The server needs
two slots for a parent with a child to compete with another request, and one request
of each kind of task; `MaxRetries` is how often `n_batch` can be halved.

The thread pool needs three threads for one to be last, one to wait and one to be
inactive in the next graph, and two graphs for a straggler of the first to meet the
second; `CountMod` is the 16 bits of the code. The router needs two models for one slot
and two requests for each race between a load and something else; one fault is enough to
take away the instance that the other request is about to use. A ring of two bytes under
an answer of three drops a byte while a reader is on it; two requests of one conversation
replace each other. In the pool, four blocks hold a lend, a zone and an expert with one
block to spare, so everything has to move; with `MaxCells` 4 the zone may want the whole pool,
so that a lend can come too late for cells already found. One worker is enough for an upload to be
under way whenever something moves; the proofs are for any number of them.

The passing runs leave out the inputs of the known deviations: `KVCache_streams` calls no
`seq_div` and decodes no shared tokens, `KVCache_edit` has no sliding window
and no refusal by the pool, `StateIoAny` is FALSE, `FindSlot_search` keeps the
head within the cap, `Server_live` has no slot action, no cancel and no sleep.
Deadlock is not checked in the Server runs (a sleeping or stopped server has nothing to
do) and in FindSlot (the loop ends); `Answered` and `Shutdown` take its place. The same
holds for the thread pool (after free), the router and the streams (all requests done),
where `CallsReturn`, `StopsEnd` and `ReadersEnd` take it, and for the pool, where the
assertion on the written cell may end the process and `CallReturns` says that nothing else does.
`TakeTurns` says that a waiting request leaves the queue with its model up and not stopping. It does not say
that the request is proxied: until it is counted the model may still be picked as a
victim (see the deviations at the end). It speaks of behaviours without faults and without loads and unloads by hand;
with them `WaitersServed` is the property, and it is violated.

### Fairness

`FindSlot`: weak fairness of the loop; nothing in it waits. `Server`: weak fairness of
main, of the worker and of the request threads together (the operating system schedules
them; waits end when their predicate holds and they were notified), which includes that
a decode returns. Strong fairness of a slot's progress (`PromptDone`, `SlotFinish`):
`update_slots` may pass many times without a slot finishing, but the prompt has finitely
many batches and the context and `n_predict` bound the generation. Clients and
`terminate` are under no fairness. `KVCache` has only safety properties. `Threadpool`: weak
fairness of each thread's step (spinning and sleeping threads are scheduled, a kernel
ends), none of the API calls. `Router`: weak fairness of each handler, of the monitor and
of a child that starts up or wakes (none need obey the exit command); a crash is never owed, and a proxied request ends
because the client, the child or the read time-out ends it. `StreamSession`: weak
fairness of the producer and of the reader's reads. `ExpertPool`: weak fairness of the
decode thread's next step and of each worker (an upload ends); the choices that scores
make (adopt, admit, reheat, keep) are never owed.

## What is proved

For every value of the constants that satisfies the named assumptions of the modules
(`CellsAssumption`, `CacheAssumption`, `FindSlotAssumption`, `TasksAssumption`, `PoolAssumption`,
`StreamAssumption`, `RouterAssumption`, `BlocksAssumption`):

| theorem | says |
|---|---|
| `IndexesAlwaysAgree`, `StreamsStaySeparate` | `used` and `seq_pos` always agree with the cells; a cell carries only sequences of its own stream |
| `CacheTyped` | search heads, cells, buffers and queued copies of the cache keep their types |
| `DataAlwaysMatches` | without the four deviations of `DataCalls`, once the queued copies and shifts are done, the K of every occupied cell is that of its token at its position |
| `FailedUbatchIsRemoved` | when no token belongs to several sequences, a ubatch that failed leaves none of its positions behind |
| `SlotsTakeNothing` | without a window, neither the rehearsal nor the computation of a ubatch takes a cell from a sequence |
| `RehearsalTakesNothingVisible` | with any window, a rehearsed ubatch takes no cell, by its slot or by the purge, that the next token of a sequence could attend to |
| `ComputedIsStored` | with any window, a computed ubatch has all its tokens in the cache |
| `SuccessIsWhole` | with any window, a decode call that succeeds without a retry leaves no hole in a sequence where there was none |
| `SequencesHaveNoHoles` | without a window, and when clients keep to `WholeCalls`, every sequence has all positions between its first and its last after every call, failed, retried or not |
| `ReturnOneIsRestored` | without a window, and when the pool refuses no graph, a decode call that returns 1 leaves every sequence as it was |
| `SearchIsExact` | when the head lies within the cells searched, `find_slot` returns the first usable cells in its order or a contiguous run, and nothing only when there is no slot |
| `WorkerStaysInsideYield`, `SleepsOnlyWhenIdle` | the worker never runs beside main outside a yield; the model is never freed under a slot that has something to compute, a busy worker or a declined task |
| `YieldKeepsTheOrder` | offering tasks to the worker and putting the declined ones back leaves their order as it was |
| `NoTaskIsLost`, `ResultsReachReaders` | a task whose client waits is in exactly one queue, hand or slot until it is answered, and nowhere after, or it went with its slot at a wake-up; every result reaches its reader once and none outlives it |
| `InputsAlwaysComplete`, `NothingComputedTwice`, `ReturnAlwaysOK` | no node starts before its inputs are complete, no piece is computed twice, the call returns with all results and no thread inside a counter that is reset |
| `BarrierRefinesLockstep` | the thread pool implements `Lockstep` |
| `ReadsAlwaysOK`, `ResponseSurvives` | a reader of a stream gets it without gap or repetition and the end only after the last byte; the answer survives its client |
| `LimitHolds`, `QueueCountsWaiters`, `StopsHitTheirInstance` | `models_max` holds and a running model has one process; the queue counts its waiters; a stop never hits a later instance |
| `ExpertLedger`, `ExpertSlots`, `ExpertTable` | every free block is on the free stack once and no other is; a layer believes only what the bytes of its blocks are; a decode graph finds the experts its table names |
| `ExpertKv`, `ExpertLend` | the rows of the KV survive every move, upload and graph; the lend belongs to the graph that runs |
| `ExpertCovered` | in every pool, each pass finds its cell covered if the cell is below the cap as it stands at the launch |

Each rests on an inductive invariant (`Inductive`, `TypesInductive`, `DataInductive`, `SlotsInductive`, `WindowInductive`, `SearchInductive`, `TaskInvariant`, `PoolInductive`, `StreamInductive`,
`RouterInductive`, `ExpertInductive`; `HolesInv` of the cache and `SleepInv` of the server are inside their proofs), which was checked with
TLC before it was proved.

**KVCache.** `IndexesAgree` is not inductive: inside `prepare()` it depends on the recovery
stack, because `set()` restores a row without its `shift`. The inductive invariant is

    IInv == CellsInv(v_cells) /\ CallInv /\ StackInv /\ SavedInv

`CellsInv` has the types, `CellsOK` and the streams of every cells object. `CallInv`
says that the slots of a call fit its ubatches and that the stack is empty outside
`prepare()`. `StackInv` says that the rows on the stack are well formed, belong to
their stream and concern cells that have no shift now. `SavedInv` types the saved
sequence. `KVCellsProofs` proves once per method that it keeps `CellsOK`
(`RmOK`, `SeqRmOK`, `SeqKeepOK`, `SeqAddOK`, `PlaceOK`, `PosAddOK`, `PosDivOK`,
`SetOK`, ...), `KVCacheProofs` that `apply_ubatch` and the stream copy do, and then
that each action keeps `IInv`.

`TypeInv` adds the heads, the buffers and the queued copies. What the buffers are after the
queue is done is read off a history of the copies; `TypeInv` says that the queue has exactly
one (`CopyAppended` extends it by a copy), so that `AfterCopies` is a definite buffer.

`DataMatchesCells` speaks of the states between two calls and of those in which ubatches are
computed. In between, `prepare()` places tokens whose K does not exist yet and takes them out again.
The invariant `DataInv` therefore says of a cell the rehearsal has covered that the buffers
match the cell as the *lowest* recovery record on the stack has it, since that one is put back last,
and of any other cell that they match it as it is. A restored row keeps the present `shift`, so the records
must be of cells without one: a queued shift would be lost. The theorem has four hypotheses,
`DataCalls`, and each is needed (the deviations above show how TLC violates the property without it): no
`seq_div`; saving and restoring only when no update is queued; no failing K-shift under a
sliding window; and no failure but out-of-memory when tokens are shared. What `FailedUbatchRemoved` says
follows from the same clean-up lemmas (`FailedFromCleansUp`, `CleanUpRemoves`).

`SlotInv` follows the slots of one call through the rehearsal, its undoing and the computation,
for caches without a window (`SwaType = "none"`), where a slot has empty cells only. `Here`
counts the ubatches in place, upwards in the first loop of `prepare()`, downwards in the second
and upwards again in `decode`; the slots of those hold their tokens (`InPlace`), and every other
cell holds what it held when the call was entered (`Untouched`). The slots do not meet
(`SlotsApart`), which the rehearsal guarantees by placing each ubatch before it looks for the next
slot; they were empty (`SlotsWereFree`), and so are their recovery records (`RecordsFree`). A slot
found in the rehearsal is therefore still free when its ubatch is computed, though nothing
reserves it and it is not searched again: `SlotsTakeNothing` follows. With a window a slot may take masked cells, and the
purge reaches beyond the slot and is not undone; `ReturnOneRestores` is false there (see the deviations).

`ReturnOneIsRestored` needs one more fact, `AfterInv`: the tokens of the batch come after
everything their sequences had. It holds because positions go on from `NextPos`, which is above every cell of
the sequence (`LastOf`, `NextIsAbove`), and because the splits only count up from there: for
`split_equal` that `Left` never grows (`LeftIs` shows that its recursion has a solution,
`LeftBelow` that it stays below the batch). The clean-up after an out-of-memory failure, which removes every
position from `call_pos_min` on, then takes the tokens of all ubatches in place
(`CallFromCleansUp`) and nothing older (`CallFromAfter`). A graph that the pool refuses takes back its own ubatch
only (see the deviations), which is why the theorem leaves that failure out.

`HolesInv` says that the cells are without gaps between two calls (`Whole`), that the cells a call
started from are, that its tokens go on from there one position after the other (`Consecutive`), and that
a saved sequence has no gap. With `SlotInv` the cells of a call are always those it found and the
tokens in place, so a ubatch adds the next positions and a clean-up cuts a suffix. The hypotheses
`WholeCalls` are what the code leaves to its clients: `seq_rm` of a range in the middle makes
a hole by definition (`EditMiddle`), and `seq_add` or `seq_div` of one sequence
moves the cells that it shares with another, which may then have one; they are allowed when every sequence
has a stream of its own.

`WindowInv` replaces `SlotInv` when there is a window. After `n` ubatches `Held` says what a cell would hold
if nothing were ever purged: the token of the last slot that took it, or what was there
before the call. Every row, and every recovery record for its place on the stack, is that less
what is `Lost` (`Faithful`), and a cell loses a sequence at `p` only because some slot of the rehearsal took a cell with that
sequence at `p` or above (`Taken`), since the purge removes up to the largest overwritten position. In the
second pass the converse holds as well: all that the computed slots take is gone (`Purged`), although the slots now find
cells that the rehearsal had thinned out. The tokens of a call come after all older
positions of their sequence and go up from ubatch to ubatch, so whatever a slot overwrites lies below its own tokens, the purge stops
there, and `ComputedIsStored` follows. `SuccessIsWhole`: of the positions before the call and of the batch,
which together have no gap, a position that is missing at the end was taken at or above, so everything
of the sequence below it was purged, and what is left is a run at the upper end. The call must
have succeeded in its first attempt. A retry splits the batch again and rehearses in a cache that the first attempt has thinned out already,
and a failure ends it before the second pass has purged: that is the deviation of `NoHoles` above.

That the *second* pass takes nothing visible is proved without a window only. The first pass searches for each
slot, so that what it takes is masked (`RehearsalTakesNothingVisible`); the second uses the slots as they are, in
cells of which the rehearsal removed some sequences, the last position of a sequence among them. What the next token of
a sequence sees is therefore measured from the last position that it has or had when the call was
entered (`NextOf`): measured from what the rehearsal left, an older cell would seem visible and the property would fail with
ubatches of 2. From an arbitrary cache that satisfies the invariants, with a cell
that two sequences share, the second pass could take a visible cell; from the initial state TLC finds no such behaviour (4
cells, window 2, positions to 4, batches of 3 in ubatches of 2, copy and remove: 1.9 million states), presumably because of
the order in which the search moves its head, which `WindowInv` does not describe.

**FindSlot.** The search is on its way from the head to the end (`Onward`), behind cell 0 on its
way to the head (`Around`), or, for a contiguous slot only, back at 0 once more because no slot
fits before the head (`Done`). In each case `n_tested` is a function of the place, so the
unsigned sum never wraps and `n_tested >= csize` holds only when every cell, or every start of a
run, has been passed. A failed contiguous try stops at the first cell that is not
usable, and every run that begins before it would contain it: that is why the search may go
on behind it. The hypothesis `HeadInReach` is about the state, `head <= csize`; the known
deviation beyond it is listed above.

**Server.** The hand-shake `YieldInv` (the worker moves only while `busy`, `busy`
only inside a yield, declined tasks only inside a yield) gives the first theorem.
`SleepInv` adds that from `update_slots` on a slot with work has a NEXT_RESPONSE in the
queue, in the hands of the worker or among the declined tasks, and that a sleeping server
does nothing. A realtime slot that waits for audio has none: audio that reaches it is
processed before `update_slots` looks again, which then posts one. The lemmas on deques show that joining, appending, taking the head,
cancelling and posting never lose a NEXT_RESPONSE.

`TaskInv` counts. `Total(t)` is the number of entries that carry `t` in the three deques and the
hands of main and the worker, plus the slots that run it, plus one if it is done; children are
carried by the entry of their parent. `PlacesInv` says that it is 0 before the request posts, 1 while its
reader waits and no error is on its way, and never more than 1. A request that gave up, or for
which an error waits, may lose tasks: `cleanup_pending_task` erases them, a refused launch drops
the brothers of the refused child, and `release_slots` and CANCEL empty slots. That is why `PlacesInv` also says
that the slots to be undone belong to such a request (`WakeUpKeeps`: what `load_model` clears is counted as destroyed), and `Entries` that a CANCEL exists only
for a request that is over. `ListInv` ties the listed ids to the states of the readers: the ids are
listed before the tasks are posted, so `send` never drops a result of a reader that waits, and a
reader with all its results leaves none behind because every result is of a task answered once.
The proof has one lemma per kind of step: `QuietKeeps` (nothing answered, nothing lost),
`ReleaseMoves` and `FinishKeeps`, `DropKeeps`, `HandAnswered`, `LaunchMoves`, `ReqPlaces` and `FewerKeeps`, on
top of lemmas on how many entries of a task `Append`, `Tail`, `RemoveAt`, `Kept`, a permutation and a
concatenation have (`HitsKept`, `HitsPerm`, `CountFacts`, `CountPosts`, ...).

**Threadpool.** Three layers, each proved from the one below. `BarrierInv`: `n_barrier` is
the number of threads that have added themselves and `n_barrier_passed` has not moved since
a thread that spins read it, so the last thread finds all others inside. `PathInv`: all threads of
a graph are bound for the same barrier; a thread that has passed it and one that still
spins at it are at most one round apart, so "the same barrier" is well defined although no
counter says which node it belongs to. `DataInv`: every node before the one the threads are
bound for is complete, a piece in the hands of a thread is nobody else's, and the chunks
of a product below the counter are taken. The refinement maps the threads of the graph and
the unfinished pieces to `Lockstep`; a step is a stutter unless it ends a thread's work or
releases the barrier.

**StreamSession.** `SessionInv`: the ring is a run of consecutive bytes that ends where the
generation stands, unless the session was closed, and only someone who took a session out
of the map closes it before its end. `ReaderInv`: what a reader got is the run between the
offset it asked for and the one it has reached, and one at the end has seen its session
closed. `CurrentInv`: the session in the map has not been taken out of it. The lemmas on runs (a run is a sequence, two adjacent
runs make one, a suffix is one) carry `append`, which drops a prefix.

**Router.** `RqInv`: a handler that is under way knows its model, only one that waits is in
the queue, and the load route never is. `QInv`: the queue is well formed and its counts are
those of the waiters; the lemmas on joining, leaving and claiming each compare the set of
waiters before and after the step. `RegInv`: the limit; one current process per running
model; a process told to stop is of a model that is stopping; a WATCH on its way to the
monitor is the only one of its model and the monitor does not know that child yet; a STOP
on its way is for a model that is stopping or stands before the WATCH of its successor. The last
clause is what makes `StopHitsItsInstance` inductive: commands carry names, and an
instance may go and come back between the sending and the arrival of a stop.
`AddsStops` and `ProcsKept` say once what `tick`, `unload` and the children may change.

**ExpertPool.** The invariant is the map of the pool and the books of the cache. `ZoneInv`:
the zone owns exactly the blocks of its extent, of both extents between the taking and the
giving back, and a zone that moves down comes to lie at the pool's end. That last clause is why
a move never meets the lend it cannot cut back: `LendInv` says that the lend is a prefix of the
pool in front of the zone. `SlotInv`: only the owner of a block has an expert in it or an
upload into it, and not both. `JobInv`, `WorkerInv`, `AdoptInv`: every upload, queued, in a
worker's hands or finished, and every adoption has an expert and a block in flight to itself, so a
publication never puts two experts into a block and a dropped job never belongs to somebody
else. `DroppedInv`: blocks about to be taken have no upload under way. `TableInv` goes one way
only (the table names a block that has the expert): adoption does not look at `queued`, so an
expert can have two blocks, and only the last one is named. `KvInv` follows the rows through
the three stages of a move, `CallInv` the cells a call has planned. The handlers that hand a
block to a layer (upload, reheat, adoption, keep-hot) share `Vacated` and `Occupied`: whatever
was in the block is gone from every table before the new owner is written.

The assertion on the written cell is not true of every pool: a call finds
its cells under the lends known so far, and a decode graph measured later may need so many
blocks that they no longer fit behind it. The code lowers `kv_tail_cap` at that moment, so
`CellCovered` compares with the cap as it stands at the launch and needs no hypothesis on the sizes.
`CoverInv` follows a call through its layouts and moves: the zone reaches to the last cell a prompt
has planned, and covers the next cell of a pass if that cell fits (`Fits`). To fit is to be below the cap and,
for a decode graph that is not lent its blocks yet, to leave room for them as well, since its lend
counts against the cap only from then on.

Natural-number induction over an index can be had by way of the least counterexample (`LeastNat`,
`LeastPlace`), which the provers do instantiate.

Only model-checked: `SlotsTakeNothingVisible` of the second pass with a sliding window (see above);
`DeferredHasSlot`, which does not hold of every instance (a released slot moves one deferred task, and
one that needs no slot wakes no other: see the deviations above); and the liveness properties (`Answered`, `Shutdown`, `Ends`, `CallsReturn`, `StopsEnd`, `TakeTurns`,
`ReadersEnd`, `CallReturns`): liveness under fairness is out of the prover's reach.

## Not modelled

Most of the repository has no state for a model checker to explore: of its 700 thousand
lines of implementation the compute kernels of the backends (CUDA, Vulkan, SYCL, OpenCL,
Metal, the CPU's own), the model architectures and graph builders, the conversion scripts,
generated tables (Unicode, prompts) and vendored libraries are by far the most. They
compute numbers or strings from their arguments; a model of them would be the code over
again. The modules cover the code that keeps state over calls or shares it between threads.
`PROJECT.json` gives the reason per component. Inside the modelled ones:

* decode: `kv_fit_select` (the tier retry), the split-pass loop, the `g_oom_retry` loop,
  a K-shift that fails half way through its streams, outputs and samplers;
* cache: whole-context states, the second cache of a mirrored layout, buffer layout;
* batch: `split_seq`, `n_keep_tail`, M-RoPE and embedding rows;
* server: `broadcast`, HTTP, the contents of prompts and results;
* router: downloads, reload and removal of models, ties between `last_used` times;
* streams: the lookup route, forwarding by the router;
* thread pool: the OpenMP build, `mul_mat_id`, fused nodes, the llamafile path, affinities;
* pool: scores and budgets, JIT upload, prediction, stream slots, layer swap, KV conversion
  and host KV, staging slots, several classes and cards, a graph that runs on while its call
  returns.

Deviations seen while reading that have no run of their own:

* a failed ubatch is taken back in the first sequence of a shared token only
  (`llama-context.cpp:3978` against the comment at 3971);
* a refusal by the pool returns 1 but leaves the earlier ubatches of the call in the
  memory (`llama-context.cpp:3998` against `llama.h:1013`);
* `prepare()` restores the heads by position in the slot (`llama-kv-cache.cpp:1091`);
* `state_write` with a queued shift saves K at the old rotation under the new position,
  and `state_read` with a queued stream copy is overwritten by the copy at the next
  decode (`StateIoAny`);
* a CANCEL does not reach the task a thread has just popped, which then runs for nobody;
* a thread in `wait_until_no_sleep` never returns when the server is terminated while it
  sleeps (`server-queue.cpp:339`);
* after a retry with half a batch a parent's prompt can be marked done too early
  (`server-context.cpp:4904`, `4933`);
* a model can be picked as a victim between leaving the queue and the count of its request
  (`server-models.cpp:333` says it cannot), and the cleanup of a request proxied to an old
  instance lowers the count of the new one (`server-models.cpp:1888`);
* a replay that loses its offset ends like a complete one (`server-stream.cpp:488`);
* the pool's `starved` flag counts lent blocks as taken by the KV, and while it is set the step
  returns before the lend is given back (`llama-moecache-fork.cpp:3878`, 7404); adoption does not look
  at `queued`, so an expert may be cached twice;
* `split_equal` breaks on `size > n_ubatch`, so it accepts one sequence set too many
  (`llama-batch.cpp:656`, reproduced in `EqualRun`), and the check against partial sequence
  sub-sets can never fail, since `cur_seq_set[s]` always contains `s` (`llama-batch.cpp:478`);
* a thread in `wait_until_no_sleep` that is woken and not scheduled before the server sleeps
  again waits without asking for a wake-up (`server-queue.cpp:126`);
* the graph count of the thread pool wraps after 65536 graphs: a worker that is in none of
  those between would take the new graph for the one it knows (`ggml-cpu.c:3613`).

## Plan

Done: KVCells, KVCache, FindSlot, ServerQueue, Server, Lockstep, Threadpool, Router,
StreamSession, ExpertPool with their runs; proofs about KVCells, KVCache, FindSlot, Server,
Threadpool with its refinement of `Lockstep`, StreamSession, Router and ExpertPool. Next, most important
behaviour first:

1. `SlotsTakeNothingVisible` of the second pass with a window: an invariant of the order in which the
   search fills the cells.
2. `KVSeqs`, the abstract promise of the memory (a map from sequence and position to
   token, changed by the calls at once), with `KVCache` shown to implement it between two
   decode calls.
3. `BatchSplit`: the checks and the three splits of `llama_batch_allocr` against a
   reference (every token once, ubatch size, coupled sequences).
4. `RecurrentMemory`: cells with a tail per sequence, and the hybrid pair whose halves
   must be prepared and edited together.
5. The log ring; the reasoning-budget automaton.
6. In `Server`: a property for tasks that run for nobody after a cancel.

Worth proving as well: `StreamsSeparate`'s consequence that `seq_rm` of a whole sequence
empties it, and the refinement of `KVSeqs`. Runs are merged where one instance can answer two questions, so that the whole set stays quick to repeat.
