------------------------------- MODULE Server -------------------------------
(***************************************************************************)
(* The threads of one llama-server process around server_queue and         *)
(* server_response:                                                        *)
(*                                                                         *)
(*   "main"    server_queue::start_loop, which runs process_single_task    *)
(*             and update_slots and owns the slots                         *)
(*   "worker"  server_queue::worker_loop, which serves read-only tasks     *)
(*             while main is inside a decode                               *)
(*   r         one thread per HTTP request, with its response reader       *)
(*                                                                         *)
(* One action is one critical section of mutex_tasks or mutex_results, or  *)
(* a stretch of code of one thread between two of them.  condition_tasks   *)
(* is the set "blocked" of the threads inside a wait on it; notify_one     *)
(* frees any one of them.                                                  *)
(***************************************************************************)
EXTENDS ServerQueue

CONSTANTS
    IdleSleep,     \* sleep_idle_seconds is set: the server may fall asleep
    Leavers,       \* requests whose client may disconnect (should_stop)
    Refused,       \* tasks that launch_slot_with_task may refuse
    Failing,       \* tasks whose slot may fail with an error while it runs
    DecodeErrs,    \* outcomes of a decode beside "ok": "retry", "fatal", "throw"
    ReadThrows,    \* a read-only task may throw on the worker
    Terminates,    \* the process may be told to stop
    MaxRetries     \* how often n_batch can be halved before it is 1

ASSUME ServerAssumption ==
    /\ {IdleSleep, ReadThrows, Terminates} \subseteq BOOLEAN
    /\ Leavers \subseteq Requests
    /\ Refused \subseteq Tasks /\ Failing \subseteq Tasks
    /\ DecodeErrs \subseteq {"retry", "fatal", "throw"}
    /\ MaxRetries \in Nat
    /\ {"main", "worker"} \cap Requests = {}

VARIABLES
    queue_tasks, queue_tasks_deferred, queue_tasks_unhandled,
    running, sleeping, req_stop_sleeping,
    expired,            \* now - time_last_task >= idle_sleep_ms
    busy, yielding, stop, exception,    \* worker_t
    blocked,            \* threads inside condition_tasks.wait
    waiting_task_ids, queue_results,
    main,               \* [pc, task, ret, tries, rest, undo]
    worker,             \* [pc, task]
    slot,               \* [Slots -> [task, state]]
    req,                \* [Requests -> pc of the request thread]
    received,           \* [Requests -> received_count]
    answered,           \* history: tasks for which a last result was made
    destroyed           \* history: tasks that went with an exception on the worker, or with
                        \* a realtime slot when the model was loaded again after a sleep

deques == <<queue_tasks, queue_tasks_deferred, queue_tasks_unhandled>>
sleepv == <<running, sleeping, req_stop_sleeping>>
yieldv == <<busy, yielding, stop, exception>>
respv  == <<waiting_task_ids, queue_results, answered, destroyed>>
reqv   == <<req, received>>
vars   == <<deques, sleepv, expired, yieldv, blocked, respv, main, worker, slot, reqv>>

-----------------------------------------------------------------------------
IdleSlot == [task |-> None, state |-> "idle"]

is_processing(s) == slot[s].state # "idle"
IdleSlots        == {s \in Slots : ~is_processing(s)}

\* A realtime slot is generating; with audio_wait set its stream needs more audio.
Realtime(s)   == slot[s].task # None /\ Type[slot[s].task] = "realtime"
audio_wait(s) == slot[s].state = "audio_wait"

\* all_idle of update_slots: the slots that keep the loop awake.
HasWork(s) == is_processing(s) /\ ~audio_wait(s)

\* Audio has reached the stream of realtime task t.
Heard(t) == \E c \in answered : Session[c] = t

NoEntry == [type |-> "next", id |-> None]

Init ==
    /\ queue_tasks = <<>> /\ queue_tasks_deferred = <<>> /\ queue_tasks_unhandled = <<>>
    /\ running = TRUE /\ sleeping = FALSE /\ req_stop_sleeping = FALSE
    /\ expired = FALSE
    /\ busy = FALSE /\ yielding = FALSE /\ stop = FALSE /\ exception = FALSE
    /\ blocked = {}
    /\ waiting_task_ids = {} /\ queue_results = <<>>
    /\ answered = {} /\ destroyed = {}
    /\ main = [pc |-> "process", task |-> NoEntry, ret |-> "ok", tries |-> 0, rest |-> FALSE, undo |-> {}]
    /\ worker = [pc |-> "idle", task |-> NoEntry]
    /\ slot = [s \in Slots |-> IdleSlot]
    /\ req = [r \in Requests |-> "new"]
    /\ received = [r \in Requests |-> 0]

(* Steps shared by several actions. *)

\* condition_tasks.notify_one / notify_all
NotifyOne == blocked' \in IF blocked = {} THEN {{}} ELSE {blocked \ {w} : w \in blocked}
NotifyAll == blocked' = {}

\* A thread that waits on condition_tasks can run again.
Awake(th) == th \notin blocked

\* queue_results.send, and the task is over for the server.
Send(t, err) ==
    /\ queue_results' = Sent(waiting_task_ids, queue_results, t, err)
    /\ answered' = answered \cup {t}
    /\ UNCHANGED <<waiting_task_ids, destroyed>>

MainTo(pc) == main' = [main EXCEPT !.pc = pc]

\* pop_deferred_task: one deferred task goes to the front of the queue.
Bug_MoveDeferred(s) == UNCHANGED <<queue_tasks, queue_tasks_deferred>>
MoveDeferred(s) ==
    IF queue_tasks_deferred = <<>>
    THEN UNCHANGED <<queue_tasks, queue_tasks_deferred>>
    ELSE LET i == DeferredIndex(queue_tasks_deferred, s)
         IN  /\ queue_tasks' = <<queue_tasks_deferred[i]>> \o queue_tasks
             /\ queue_tasks_deferred' = RemoveAt(queue_tasks_deferred, i)

\* server_slot::release: idle, task reset, and its callback pop_deferred_task.
Released(s) == IdleSlot

Release(s) ==
    /\ slot' = [slot EXCEPT ![s] = Released(s)]
    /\ MoveDeferred(s)
    /\ expired' = FALSE
    /\ NotifyOne
    /\ UNCHANGED queue_tasks_unhandled

\* send_error(slot) and release.
FailSlot(s) == Send(slot[s].task, TRUE) /\ Release(s)

-----------------------------------------------------------------------------
(* start_loop: process_new_tasks(false) *)

MainPop ==
    /\ main.pc = "process" /\ running /\ queue_tasks # <<>>
    /\ main' = [main EXCEPT !.pc = "task", !.task = Head(queue_tasks)]
    /\ queue_tasks' = Tail(queue_tasks)
    /\ UNCHANGED <<queue_tasks_deferred, queue_tasks_unhandled, sleepv, expired, yieldv,
                   blocked, respv, worker, slot, reqv>>

MainDrained ==
    /\ main.pc = "process" /\ running /\ queue_tasks = <<>>
    /\ MainTo("update")
    /\ UNCHANGED <<deques, sleepv, expired, yieldv, blocked, respv, worker, slot, reqv>>

\* The queue is terminated: worker_stop tells the worker and joins it.
MainStops ==
    /\ main.pc = "process" /\ ~running
    /\ MainTo("join_worker")
    /\ stop' = TRUE
    /\ NotifyAll
    /\ UNCHANGED <<deques, sleepv, expired, busy, yielding, exception, respv, worker, slot, reqv>>

MainJoined ==
    /\ main.pc = "join_worker" /\ worker.pc = "stopped"
    /\ MainTo("stopped")
    /\ UNCHANGED <<deques, sleepv, expired, yieldv, blocked, respv, worker, slot, reqv>>

-----------------------------------------------------------------------------
(* process_single_task on the main thread *)

\* get_available_slot: the requested slot even if busy, else an idle one
\* (which idle one depends on prompt similarity and age).
get_available_slot(t) ==
    IF IdSlot[t] # None THEN {IdSlot[t]} ELSE IdleSlots

\* The task waits for a slot: none is available, the requested one is busy,
\* or there are too few idle slots for the children.
MustDefer(e) ==
    IF e.type \in SlotTypes
    THEN is_processing(IdSlot[e.id])
    ELSE \/ get_available_slot(e.id) \cap IdleSlots = {}
         \/ Cardinality(IdleSlots) <= Cardinality(Children(e.id))

\* launch_slot_with_task
Launched(t) == [task |-> t, state |-> IF ParentOf[t] # None THEN "wait_other"
                                      ELSE IF Type[t] = "realtime" THEN "generating"
                                      ELSE "started"]

\* The slots after child c was launched in slot f[c], for every c.
WithChildren(f) ==
    [x \in Slots |-> IF \E c \in DOMAIN f : f[c] = x
                     THEN Launched(CHOOSE c \in DOMAIN f : f[c] = x) ELSE slot[x]]

\* The handler returns and process_new_tasks looks for the next task.
TaskDone(pc, undo) == main' = [main EXCEPT !.pc = pc, !.task = NoEntry, !.undo = undo]

ProcessDefer ==
    /\ main.pc = "task" /\ main.task.type \in InferTypes \cup SlotTypes
    /\ MustDefer(main.task)
    /\ queue_tasks_deferred' = Append(queue_tasks_deferred, main.task)
    /\ expired' = FALSE
    /\ NotifyOne
    /\ TaskDone("process", {})
    /\ UNCHANGED <<queue_tasks, queue_tasks_unhandled, sleepv, yieldv, respv, worker, slot, reqv>>

\* A parent and its children are launched together, the children first, on
\* idle slots (get_free_slots).
ProcessLaunch ==
    /\ main.pc = "task" /\ main.task.type \in InferTypes
    /\ ~MustDefer(main.task)
    /\ LET t == main.task.id IN
       \E s \in get_available_slot(t) :
       \E f \in [Children(t) -> IdleSlots \ {s}] :
          /\ IsInjective(f)
          /\ slot' = [WithChildren(f) EXCEPT ![s] = Launched(t)]
    /\ TaskDone("process", {})
    /\ UNCHANGED <<deques, sleepv, expired, yieldv, blocked, respv, worker, reqv>>

\* A launch is refused: an error for the refused task, and release_slots undoes
\* the children that were launched before it.
ProcessRefuse ==
    /\ main.pc = "task" /\ main.task.type \in InferTypes
    /\ ~MustDefer(main.task)
    /\ LET t == main.task.id IN
       \E bad \in ({t} \cup Children(t)) \cap Refused :
       \E before \in SUBSET (Children(t) \ {bad}) :
       \E s \in get_available_slot(t) :
       \E f \in [before -> IdleSlots \ {s}] :
          /\ bad = t => before = Children(t)
          /\ IsInjective(f)
          /\ Send(bad, TRUE)
          /\ slot' = WithChildren(f)
          /\ TaskDone("undo", {f[c] : c \in before})
    /\ UNCHANGED <<deques, sleepv, expired, yieldv, blocked, worker, reqv>>

\* The audio stream of a realtime task cannot be made, after its slot was taken:
\* an error and release.
ProcessNoStream ==
    /\ main.pc = "task" /\ main.task.type = "realtime"
    /\ ~MustDefer(main.task) /\ main.task.id \in Refused
    /\ Send(main.task.id, TRUE)
    /\ \E s \in get_available_slot(main.task.id) : MoveDeferred(s)
    /\ expired' = FALSE
    /\ NotifyOne
    /\ TaskDone("process", {})
    /\ UNCHANGED <<queue_tasks_unhandled, sleepv, yieldv, worker, slot, reqv>>

\* release_slots, one slot at a time.
UndoLaunch ==
    /\ main.pc = "undo"
    /\ IF main.undo = {}
       THEN /\ MainTo("process")
            /\ UNCHANGED <<deques, expired, blocked, slot>>
       ELSE \E s \in main.undo :
               Release(s) /\ main' = [main EXCEPT !.undo = @ \ {s}]
    /\ UNCHANGED <<sleepv, yieldv, respv, worker, reqv>>

\* Tasks answered at once.
ProcessReply ==
    /\ main.pc = "task" /\ main.task.type \in ReplyTypes
    /\ Send(main.task.id, FALSE)
    /\ TaskDone("process", {})
    /\ UNCHANGED <<deques, sleepv, expired, yieldv, blocked, worker, slot, reqv>>

\* An audio control reaches the slot of its session, if that is still there.
ProcessAudio ==
    /\ main.pc = "task" /\ main.task.type \in ControlTypes
    /\ slot' = [s \in Slots |->
                  IF audio_wait(s) /\ slot[s].task = Session[main.task.id]
                  THEN [slot[s] EXCEPT !.state = "generating"] ELSE slot[s]]
    /\ Send(main.task.id, FALSE)
    /\ TaskDone("process", {})
    /\ UNCHANGED <<deques, sleepv, expired, yieldv, blocked, worker, reqv>>

\* A slot action on an idle slot: done, or an error (a file that cannot be used).
ProcessSlotAction ==
    /\ main.pc = "task" /\ main.task.type \in SlotTypes
    /\ ~MustDefer(main.task)
    /\ \E err \in {FALSE, main.task.id \in Failing} : Send(main.task.id, err)
    /\ TaskDone("process", {})
    /\ UNCHANGED <<deques, sleepv, expired, yieldv, blocked, worker, slot, reqv>>

\* CANCEL releases the slot of its target, if there is one.
ProcessCancel ==
    /\ main.pc = "task" /\ main.task.type = "cancel"
    /\ IF \E s \in Slots : slot[s].task = main.task.id
       THEN \E s \in Slots : slot[s].task = main.task.id /\ Release(s)
       ELSE UNCHANGED <<deques, expired, blocked, slot>>
    /\ TaskDone("process", {})
    /\ UNCHANGED <<sleepv, yieldv, respv, worker, reqv>>

ProcessNext ==
    /\ main.pc = "task" /\ main.task.type = "next"
    /\ TaskDone("process", {})
    /\ UNCHANGED <<deques, sleepv, expired, yieldv, blocked, respv, worker, slot, reqv>>

-----------------------------------------------------------------------------
(* update_slots *)

AllIdle == \A s \in Slots : ~HasWork(s)

\* A realtime slot that waits for audio does not keep the loop awake.
UpdateIdle ==
    /\ main.pc = "update" /\ AllIdle
    /\ MainTo("idle")
    /\ UNCHANGED <<deques, sleepv, expired, yieldv, blocked, respv, worker, slot, reqv>>

\* A NEXT_RESPONSE task keeps the loop going while a slot has work.
Bug_WithNext == queue_tasks
WithNext == Append(queue_tasks, NextEntry)

UpdateBegin ==
    /\ main.pc = "update" /\ ~AllIdle
    /\ queue_tasks' = WithNext
    /\ expired' = FALSE
    /\ NotifyOne
    /\ MainTo("pre_decode")
    /\ UNCHANGED <<queue_tasks_deferred, queue_tasks_unhandled, sleepv, yieldv, respv,
                   worker, slot, reqv>>

\* pre_decode or post_decode ends a slot with an error (prompt too long,
\* an exception that iterate() catches ...).
SlotFail ==
    /\ main.pc \in {"pre_decode", "post_decode"}
    /\ \E s \in Slots : slot[s].state \in {"started", "generating"}
                        /\ slot[s].task \in Failing /\ FailSlot(s)
    /\ UNCHANGED <<main, sleepv, yieldv, worker, reqv>>

\* slot_audio_step: the stream has no rows yet ...
AudioWait(s) ==
    /\ main.pc = "pre_decode" /\ Realtime(s) /\ slot[s].state = "generating"
    /\ slot' = [slot EXCEPT ![s].state = "audio_wait"]
    /\ UNCHANGED <<deques, sleepv, expired, yieldv, blocked, respv, main, worker, reqv>>

\* ... or it has ended: final result and release.
AudioEnd(s) ==
    /\ main.pc = "pre_decode" /\ Realtime(s) /\ slot[s].state = "generating"
    /\ Heard(slot[s].task)
    /\ Send(slot[s].task, FALSE) /\ Release(s)
    /\ UNCHANGED <<sleepv, yieldv, main, worker, reqv>>

\* pre_decode or post_decode throws: update_slots aborts all slots.
UpdateThrow ==
    /\ main.pc \in {"pre_decode", "post_decode"} /\ "throw" \in DecodeErrs
    /\ MainTo("abort")
    /\ UNCHANGED <<deques, sleepv, expired, yieldv, blocked, respv, worker, slot, reqv>>

\* The batch is built; it is empty when every slot waits for its parent or for
\* audio.  A realtime slot is in it with the rows of audio it has received.
PreDecodeDone ==
    /\ main.pc = "pre_decode"
    /\ \A s \in Slots : Realtime(s) /\ slot[s].state = "generating" => Heard(slot[s].task)
    /\ MainTo(IF \E s \in Slots : slot[s].state \in {"started", "generating"}
              THEN "decode" ELSE "idle")
    /\ UNCHANGED <<deques, sleepv, expired, yieldv, blocked, respv, worker, slot, reqv>>

\* yield_to_queue up to work()
YieldBegin ==
    /\ main.pc = "decode"
    /\ busy' = TRUE /\ yielding' = TRUE
    /\ MainTo("work")
    /\ UNCHANGED <<deques, sleepv, expired, stop, exception, blocked, respv, worker, slot, reqv>>

\* With n_batch = 1 a full cache is an error, not a reason to try again.
MayRetry == main.tries < MaxRetries

\* The notify_all that tells the worker that the yield is over.
Bug_YieldNotify == UNCHANGED blocked
YieldNotify == NotifyAll

\* work() returns or throws: the yield is over, main waits for the worker.
YieldWorkDone ==
    /\ main.pc = "work"
    /\ \E ret \in {"ok"} \cup DecodeErrs :
          /\ ret = "retry" => MayRetry
          /\ main' = [main EXCEPT !.pc = "join", !.ret = ret]
    /\ yielding' = FALSE
    /\ YieldNotify
    /\ UNCHANGED <<deques, sleepv, expired, busy, stop, exception, respv, worker, slot, reqv>>

YieldBlock ==
    /\ main.pc = "join" /\ busy /\ Awake("main")
    /\ blocked' = blocked \cup {"main"}
    /\ UNCHANGED <<deques, sleepv, expired, yieldv, respv, main, worker, slot, reqv>>

\* The guard of the wait that ends a yield.
Bug_JoinReady == TRUE
JoinReady == ~busy

\* What yield_to_queue makes of the declined tasks.
Bug_PutBackNone == queue_tasks
Bug_PutBackReversed == Reverse(queue_tasks_unhandled) \o queue_tasks
PutBack == queue_tasks_unhandled \o queue_tasks

\* The worker is done: declined tasks go back in front, in their order; an
\* exception of work() or of the worker is rethrown; decode() looks at ret.
YieldEnd ==
    /\ main.pc = "join" /\ Awake("main") /\ JoinReady
    /\ queue_tasks' = PutBack
    /\ queue_tasks_unhandled' = <<>>
    /\ expired' = FALSE
    /\ exception' = FALSE
    /\ main' = [main EXCEPT
                  !.pc = IF main.ret \in {"throw", "fatal"} \/ exception THEN "abort"
                         ELSE IF main.ret = "retry" THEN "decode" ELSE "post_decode",
                  !.tries = IF main.ret = "retry" THEN @ + 1 ELSE @,
                  !.rest = @ \/ main.ret = "retry",
                  !.ret = "ok"]
    /\ UNCHANGED <<queue_tasks_deferred, sleepv, busy, yielding, stop, blocked, respv,
                   worker, slot, reqv>>

\* update_slots returns.
UpdateOver == [main EXCEPT !.pc = "idle", !.tries = 0, !.rest = FALSE]

\* abort_all_slots, or decode() after a fatal error: an error for every slot.
AbortSlots ==
    /\ main.pc = "abort"
    /\ IF IdleSlots = Slots
       THEN main' = UpdateOver /\ UNCHANGED <<deques, expired, blocked, respv, slot>>
       ELSE /\ \E s \in Slots \ IdleSlots : FailSlot(s)
            /\ UNCHANGED main
    /\ UNCHANGED <<sleepv, yieldv, worker, reqv>>

\* The prompt of a slot is done; the children of a parent start to generate.
PromptDone(s) ==
    /\ main.pc = "post_decode" /\ slot[s].state = "started"
    /\ slot' = [x \in Slots |->
                  IF x = s \/ (slot[x].state = "wait_other" /\ ParentOf[slot[x].task] = slot[s].task)
                  THEN [slot[x] EXCEPT !.state = "generating"] ELSE slot[x]]
    /\ UNCHANGED <<deques, sleepv, expired, yieldv, blocked, respv, main, worker, reqv>>

\* The last token, embedding or score: final result and release.
SlotFinish(s) ==
    /\ main.pc = "post_decode" /\ slot[s].state = "generating"
    /\ Send(slot[s].task, FALSE) /\ Release(s)
    /\ UNCHANGED <<sleepv, yieldv, main, worker, reqv>>

\* After a retry with a smaller n_batch the rest of the batch is still to come.
PostDecodeDone ==
    /\ main.pc = "post_decode"
    /\ \/ main.rest /\ main' = [main EXCEPT !.pc = "decode", !.rest = FALSE]
       \/ main' = UpdateOver
    /\ UNCHANGED <<deques, sleepv, expired, yieldv, blocked, respv, worker, slot, reqv>>

-----------------------------------------------------------------------------
(* start_loop: waiting for tasks, sleeping *)

IdleBreak ==
    /\ main.pc = "idle" /\ (~running \/ queue_tasks # <<>>)
    /\ MainTo("process")
    /\ UNCHANGED <<deques, sleepv, expired, yieldv, blocked, respv, worker, slot, reqv>>

IdleWait ==
    /\ main.pc = "idle" /\ running /\ queue_tasks = <<>> /\ ~(IdleSleep /\ expired)
    /\ MainTo("wait")
    /\ blocked' = blocked \cup {"main"}
    /\ UNCHANGED <<deques, sleepv, expired, yieldv, respv, worker, slot, reqv>>

\* wait_for returns: notified, or after max_wait_time (one second).
IdleWakes ==
    /\ main.pc = "wait"
    /\ MainTo(IF queue_tasks # <<>> \/ ~running THEN "process" ELSE "idle")
    /\ blocked' = blocked \ {"main"}
    /\ UNCHANGED <<deques, sleepv, expired, yieldv, respv, worker, slot, reqv>>

\* The guard of falling asleep.
ShouldSleep == running /\ queue_tasks = <<>> /\ IdleSleep /\ expired

\* handle_sleeping_state(true) frees the model, under the slots if they hold one.
FallAsleep ==
    /\ main.pc = "idle" /\ ShouldSleep
    /\ sleeping' = TRUE /\ req_stop_sleeping' = FALSE
    /\ MainTo("sleep")
    /\ blocked' = blocked \cup {"main"}
    /\ UNCHANGED <<deques, running, expired, yieldv, respv, worker, slot, reqv>>

SleepOn ==
    /\ main.pc = "sleep" /\ Awake("main") /\ running /\ ~req_stop_sleeping
    /\ blocked' = blocked \cup {"main"}
    /\ UNCHANGED <<deques, sleepv, expired, yieldv, respv, main, worker, slot, reqv>>

\* load_model makes new slots; what was in the old ones is gone.
WakeUp ==
    /\ main.pc = "sleep" /\ Awake("main") /\ (~running \/ req_stop_sleeping)
    /\ MainTo("process")
    /\ IF ~running
       THEN UNCHANGED <<sleeping, req_stop_sleeping, expired, blocked, slot, destroyed>>
       ELSE /\ sleeping' = FALSE /\ req_stop_sleeping' = FALSE
            /\ expired' = FALSE
            /\ slot' = [s \in Slots |-> IdleSlot]
            /\ destroyed' = destroyed \cup {slot[s].task : s \in Slots \ IdleSlots}
            /\ NotifyAll
    /\ UNCHANGED <<deques, running, yieldv, waiting_task_ids, queue_results, answered,
                   worker, reqv>>

\* Time passes; what update_slots takes is not counted as idle time.
IdleTimer ==
    /\ IdleSleep /\ ~expired /\ running
    /\ main.pc \in {"process", "task", "undo", "idle", "wait"}
    /\ expired' = TRUE
    /\ UNCHANGED <<deques, sleepv, yieldv, blocked, respv, main, worker, slot, reqv>>

terminate ==
    /\ Terminates /\ running
    /\ running' = FALSE
    /\ NotifyAll
    /\ UNCHANGED <<deques, sleeping, req_stop_sleeping, expired, yieldv, respv, main,
                   worker, slot, reqv>>

-----------------------------------------------------------------------------
(* worker_loop *)

WorkerTo(pc) == worker' = [worker EXCEPT !.pc = pc]

\* The predicate of worker.cv.wait.
Bug_WorkerCalled == busy
WorkerCalled == stop \/ busy

WorkerBegin ==
    /\ worker.pc = "idle" /\ WorkerCalled
    /\ WorkerTo(IF stop THEN "stopped" ELSE "process")
    /\ UNCHANGED <<deques, sleepv, expired, yieldv, blocked, respv, main, slot, reqv>>

\* process_new_tasks(true)
WorkerPop ==
    /\ worker.pc = "process"
    /\ IF running /\ queue_tasks # <<>>
       THEN /\ worker' = [pc |-> "task", task |-> Head(queue_tasks)]
            /\ queue_tasks' = Tail(queue_tasks)
       ELSE /\ WorkerTo(IF running THEN "check" ELSE "finish")
            /\ UNCHANGED queue_tasks
    /\ UNCHANGED <<queue_tasks_deferred, queue_tasks_unhandled, sleepv, expired, yieldv,
                   blocked, respv, main, slot, reqv>>

\* Only reading the state of the server is safe during a decode.
WorkerReply ==
    /\ worker.pc = "task" /\ worker.task.type \in ReadTypes
    /\ Send(worker.task.id, FALSE)
    /\ worker' = [pc |-> "process", task |-> NoEntry]
    /\ UNCHANGED <<deques, sleepv, expired, yieldv, blocked, main, slot, reqv>>

\* The handler throws: the task is gone and main will rethrow.
WorkerThrow ==
    /\ ReadThrows
    /\ worker.pc = "task" /\ worker.task.type \in ReadTypes
    /\ exception' = TRUE
    /\ worker' = [pc |-> "finish", task |-> NoEntry]
    /\ destroyed' = destroyed \cup {worker.task.id}
    /\ UNCHANGED <<deques, sleepv, expired, busy, yielding, stop, blocked,
                   waiting_task_ids, queue_results, answered, main, slot, reqv>>

WorkerDecline ==
    /\ worker.pc = "task" /\ worker.task.type \notin ReadTypes
    /\ queue_tasks_unhandled' = Append(queue_tasks_unhandled, worker.task)
    /\ worker' = [pc |-> "process", task |-> NoEntry]
    /\ UNCHANGED <<queue_tasks, queue_tasks_deferred, sleepv, expired, yieldv, blocked,
                   respv, main, slot, reqv>>

WorkerCheck ==
    /\ worker.pc = "check"
    /\ IF stop \/ ~yielding
       THEN WorkerTo("finish") /\ UNCHANGED blocked
       ELSE IF queue_tasks # <<>>
            THEN WorkerTo("process") /\ UNCHANGED blocked
            ELSE WorkerTo("wait") /\ blocked' = blocked \cup {"worker"}
    /\ UNCHANGED <<deques, sleepv, expired, yieldv, respv, main, slot, reqv>>

WorkerWakes ==
    /\ worker.pc = "wait" /\ Awake("worker")
    /\ IF stop \/ ~running \/ ~yielding \/ queue_tasks # <<>>
       THEN WorkerTo("process") /\ UNCHANGED blocked
       ELSE blocked' = blocked \cup {"worker"} /\ UNCHANGED worker
    /\ UNCHANGED <<deques, sleepv, expired, yieldv, respv, main, slot, reqv>>

WorkerFinish ==
    /\ worker.pc = "finish"
    /\ busy' = FALSE
    /\ WorkerTo("idle")
    /\ NotifyAll
    /\ UNCHANGED <<deques, sleepv, expired, yielding, stop, exception, respv, main, slot, reqv>>

-----------------------------------------------------------------------------
(* HTTP requests: server_res_generator and server_response_reader *)

ReqTo(r, pc) == req' = [req EXCEPT ![r] = pc]

\* Only the metrics route bypasses the sleep.
Bypass(r) == \A t \in TaskIds(r) : Type[t] = "metrics"

\* A control of the websocket's reader thread, which has no server_res_generator.
AudioReq(r) == \A t \in TaskIds(r) : Type[t] \in ControlTypes

\* wait_until_no_sleep, but for audio, which a client sends once its session is up.
ReqEnter(r) ==
    /\ req[r] = "new"
    /\ AudioReq(r) => \A t \in TaskIds(r) : \E s \in Slots : slot[s].task = Session[t]
    /\ IF ~sleeping \/ Bypass(r) \/ AudioReq(r)
       THEN ReqTo(r, "ready") /\ UNCHANGED <<req_stop_sleeping, blocked>>
       ELSE /\ ReqTo(r, "asleep")
            /\ req_stop_sleeping' = TRUE
            /\ \E b \in IF req_stop_sleeping \/ blocked = {} THEN {blocked}
                        ELSE {blocked \ {w} : w \in blocked} :
                 blocked' = b \cup {r}
    /\ UNCHANGED <<deques, running, sleeping, expired, yieldv, respv, main, worker, slot, received>>

ReqWakes(r) ==
    /\ req[r] = "asleep" /\ Awake(r)
    /\ IF sleeping THEN blocked' = blocked \cup {r} /\ UNCHANGED req
                   ELSE ReqTo(r, "ready") /\ UNCHANGED blocked
    /\ UNCHANGED <<deques, sleepv, expired, yieldv, respv, main, worker, slot, received>>

\* The metrics route answers from its cache while the server sleeps.
ReqCached(r) ==
    /\ req[r] = "ready" /\ Bypass(r) /\ sleeping
    /\ ReqTo(r, "gone")
    /\ UNCHANGED <<deques, sleepv, expired, yieldv, blocked, respv, main, worker, slot, received>>

\* post_tasks: first the waiting list ...
ReqList(r) ==
    /\ req[r] = "ready" /\ ~(Bypass(r) /\ sleeping)
    /\ waiting_task_ids' = waiting_task_ids \cup TaskIds(r)
    /\ ReqTo(r, "listed")
    /\ UNCHANGED <<deques, sleepv, expired, yieldv, blocked, queue_results, answered, destroyed, main,
                   worker, slot, received>>

\* ... then the queue.  Read-only tasks go to the front.
ReqPost(r) ==
    /\ req[r] = "listed"
    /\ LET es == {TaskEntry(t) : t \in TopTasks(r)} IN
       /\ queue_tasks' \in Posts(queue_tasks, es, \A e \in es : e.type \in ReadTypes)
       /\ expired' = (expired /\ \A e \in es : ~ResetsIdleTimer(e))
    /\ NotifyOne
    /\ ReqTo(r, "next")
    /\ UNCHANGED <<queue_tasks_deferred, queue_tasks_unhandled, sleepv, yieldv, respv, main,
                   worker, slot, received>>

has_next(r) == received[r] < Cardinality(TaskIds(r))

\* next: an error stops the reader, a final result counts.
ReqNext(r) ==
    /\ req[r] = "next" /\ has_next(r)
    /\ LET i == FirstFor(queue_results, TaskIds(r)) IN
       /\ i # 0
       /\ queue_results' = RemoveAt(queue_results, i)
       /\ IF queue_results[i].error
          THEN ReqTo(r, "stop") /\ UNCHANGED received
          ELSE received' = [received EXCEPT ![r] = @ + 1] /\ UNCHANGED req
    /\ UNCHANGED <<deques, sleepv, expired, yieldv, blocked, waiting_task_ids, answered,
                   destroyed, main, worker, slot>>

\* should_stop: the client left, or the server sleeps under a metrics request.
ReqLeave(r) ==
    /\ req[r] = "next" /\ has_next(r)
    /\ r \in Leavers \/ (Bypass(r) /\ sleeping /\ FirstFor(queue_results, TaskIds(r)) = 0)
    /\ ReqTo(r, "stop")
    /\ UNCHANGED <<deques, sleepv, expired, yieldv, blocked, respv, main, worker, slot, received>>

\* stop (also from the destructor): remove_waiting_task_ids keeps the results.
ReqUnlist(r) ==
    /\ \/ req[r] = "stop"
       \/ req[r] = "next" /\ ~has_next(r)
    /\ waiting_task_ids' = waiting_task_ids \ TaskIds(r)
    /\ ReqTo(r, IF has_next(r) THEN "unlisted" ELSE "gone")
    /\ UNCHANGED <<deques, sleepv, expired, yieldv, blocked, queue_results, answered, destroyed, main,
                   worker, slot, received>>

\* stop with unfinished tasks: remove_waiting_task_id for each of them.
ReqPurge(r) ==
    /\ req[r] = "unlisted"
    /\ queue_results' = Purged(queue_results, TaskIds(r))
    /\ ReqTo(r, "purged")
    /\ UNCHANGED <<deques, sleepv, expired, yieldv, blocked, waiting_task_ids, answered, destroyed, main,
                   worker, slot, received>>

\* ... and a CANCEL for each, in front, which also removes the pending tasks.
ReqCancel(r) ==
    /\ req[r] = "purged"
    /\ queue_tasks' \in Posts(Cleanup(queue_tasks, TaskIds(r)),
                              {CancelEntry(t) : t \in TaskIds(r)}, TRUE)
    /\ queue_tasks_deferred' = Cleanup(queue_tasks_deferred, TaskIds(r))
    /\ queue_tasks_unhandled' = Cleanup(queue_tasks_unhandled, TaskIds(r))
    /\ expired' = FALSE
    /\ NotifyOne
    /\ ReqTo(r, "gone")
    /\ UNCHANGED <<sleepv, yieldv, respv, main, worker, slot, received>>

-----------------------------------------------------------------------------
MainStep ==
    \/ MainPop \/ MainDrained \/ MainStops \/ MainJoined
    \/ ProcessDefer \/ ProcessLaunch \/ ProcessRefuse \/ ProcessNoStream \/ UndoLaunch
    \/ ProcessReply \/ ProcessAudio \/ ProcessSlotAction \/ ProcessCancel \/ ProcessNext
    \/ UpdateIdle \/ UpdateBegin \/ SlotFail \/ UpdateThrow
    \/ (\E s \in Slots : AudioWait(s) \/ AudioEnd(s)) \/ PreDecodeDone
    \/ YieldBegin \/ YieldWorkDone \/ YieldBlock \/ YieldEnd \/ AbortSlots
    \/ (\E s \in Slots : PromptDone(s) \/ SlotFinish(s)) \/ PostDecodeDone
    \/ IdleBreak \/ IdleWait \/ IdleWakes \/ FallAsleep \/ SleepOn \/ WakeUp

WorkerStep ==
    \/ WorkerBegin \/ WorkerPop \/ WorkerReply \/ WorkerThrow \/ WorkerDecline
    \/ WorkerCheck \/ WorkerWakes \/ WorkerFinish

ReqStep(r) ==
    \/ ReqEnter(r) \/ ReqWakes(r) \/ ReqCached(r) \/ ReqList(r) \/ ReqPost(r) \/ ReqNext(r)
    \/ ReqUnlist(r) \/ ReqPurge(r) \/ ReqCancel(r)

Next ==
    \/ MainStep \/ WorkerStep
    \/ (\E r \in Requests : ReqStep(r) \/ ReqLeave(r))
    \/ IdleTimer \/ terminate

Spec == Init /\ [][Next]_vars

\* Every thread is scheduled and a decode ends (the code has no timeout on it);
\* slots that keep being decoded get on: a prompt or a generation ends, because
\* the context and n_predict bound them.
Fairness ==
    /\ WF_vars(MainStep) /\ WF_vars(WorkerStep) /\ WF_vars(\E r \in Requests : ReqStep(r))
    /\ SF_vars(\E s \in Slots : PromptDone(s) \/ SlotFinish(s))

FairSpec == Spec /\ Fairness

-----------------------------------------------------------------------------
(* Properties *)

MainPcs == {"process", "task", "undo", "update", "pre_decode", "decode", "work", "join",
            "abort", "post_decode", "idle", "wait", "sleep", "join_worker", "stopped"}
WorkerPcs == {"idle", "process", "task", "check", "wait", "finish", "stopped"}
ReqPcs == {"new", "asleep", "ready", "listed", "next", "stop", "unlisted", "purged", "gone"}
SlotStates == {"idle", "wait_other", "started", "generating", "audio_wait"}

\* Type invariant: every field of server_queue, server_response, the slots and
\* the readers holds a value of its C++ type's range, and a slot has a task
\* exactly when it is processing.
TypeOK ==
    /\ {queue_tasks, queue_tasks_deferred, queue_tasks_unhandled} \subseteq Seq(Entry)
    /\ {running, sleeping, req_stop_sleeping, expired} \subseteq BOOLEAN
    /\ {busy, yielding, stop, exception} \subseteq BOOLEAN
    /\ blocked \subseteq Requests \cup {"main", "worker"}
    /\ waiting_task_ids \subseteq Tasks
    /\ queue_results \in Seq(Result)
    /\ answered \subseteq Tasks /\ destroyed \subseteq Tasks
    /\ main \in [pc : MainPcs, task : Entry, ret : {"ok"} \cup DecodeErrs,
                  tries : 0 .. MaxRetries, rest : BOOLEAN, undo : SUBSET Slots]
    /\ worker \in [pc : WorkerPcs, task : Entry]
    /\ slot \in [Slots -> [task : Tasks \cup {None}, state : SlotStates]]
    /\ req \in [Requests -> ReqPcs]
    /\ received \in [Requests -> Nat]
    /\ \A s \in Slots : is_processing(s) <=> slot[s].task # None

Count(q, t) == Cardinality({i \in DOMAIN q : IsTask(q[i]) /\ q[i].id = t})

\* The entry that carries t: its own or its parent's.
Carrier(t) == IF ParentOf[t] = None THEN t ELSE ParentOf[t]

\* In how many places of the server t is: queues, hands of a thread, slots.
Places(t) ==
    LET c == Carrier(t) IN
      Count(queue_tasks, c) + Count(queue_tasks_deferred, c) + Count(queue_tasks_unhandled, c)
    + Count(<<main.task>>, c) + Count(<<worker.task>>, c)
    + Cardinality({s \in Slots : slot[s].task = t})

\* The reader of r waits for results and no error was produced for it yet.
Live(r) ==
    /\ req[r] = "next"
    /\ \A i \in DOMAIN queue_results :
         queue_results[i].id \in TaskIds(r) => ~queue_results[i].error

\* Whatever is deferred, declined during a decode, put back, cancelled around it
\* or put to sleep with the model: a posted task whose client still waits is in
\* exactly one place until its last result is sent or it is destroyed (an exception
\* on the worker, a realtime slot at a wake-up), and nowhere after that.
NoTaskLost ==
    \A t \in Tasks : Live(Owner[t]) =>
        Places(t) = IF t \in answered \cup destroyed THEN 0 ELSE 1

\* A reader finds every result that was made for it, once: none is dropped
\* because the id was not listed yet, and none belongs to a reader that is done.
ResultsDelivered ==
    /\ \A r \in Requests : req[r] = "next" =>
         received[r] + Cardinality({i \in DOMAIN queue_results : queue_results[i].id \in TaskIds(r)})
           = Cardinality(answered \cap TaskIds(r))
    /\ \A i \in DOMAIN queue_results :
         \/ queue_results[i].id \in waiting_task_ids
         \/ req[Owner[queue_results[i].id]] = "unlisted"

\* Both: the types of all queues and threads, and every result in the right hands.
ResultsOK == TypeOK /\ ResultsDelivered

\* The worker handles tasks only while main is inside yield_to_queue, so it never
\* reads slots that main is changing; declined tasks never outlive the yield.
WorkerInsideYield ==
    /\ worker.pc \notin {"idle", "stopped"} => main.pc \in {"work", "join"}
    /\ queue_tasks_unhandled # <<>> => main.pc \in {"work", "join"}

\* The tasks in the order in which they will be offered to main.
Pending ==
    queue_tasks_unhandled \o (IF worker.pc = "task" THEN <<worker.task>> ELSE <<>>) \o queue_tasks

\* Offering tasks to the worker and putting the declined ones back leaves the
\* order of the tasks as it was; only a read-only task can disappear from it.
YieldKeepsOrder ==
    [][(WorkerStep \/ YieldEnd) =>
         Pending' = IF worker.pc = "task" /\ worker'.pc # "task" /\ worker.task.type \in ReadTypes
                    THEN queue_tasks_unhandled \o queue_tasks ELSE Pending]_vars

\* The model is never freed under a slot that has something to compute, a busy
\* worker or a declined task.  A realtime slot that waits for audio counts as idle,
\* as all_idle of update_slots does (server-context.cpp:3668).
SleepsOnlyIdle == sleeping => AllIdle /\ ~busy /\ queue_tasks_unhandled = <<>>

\* No deferred task is left behind: when the loop has nothing to do and waits,
\* a deferred task has a busy slot whose release will wake it.
DeferredHasSlot ==
    main.pc \in {"wait", "sleep"} /\ queue_tasks = <<>> /\ queue_tasks_deferred # <<>>
        => IdleSlots # Slots

\* Every request that was posted is answered with its last result or an error,
\* unless the process is told to stop: no task waits forever in a queue, and no
\* thread of the server waits forever for another.
Answered == \A r \in Requests : req[r] = "next" ~> (req[r] = "gone" \/ ~running)

\* "a realtime slot waiting for audio has no work, the next audio control task wakes
\* the loop" (update_slots, server-context.cpp:3663): the audio that a client sends
\* to its session is taken in.
AudioWakesLoop ==
    \A r \in Requests : (AudioReq(r) /\ req[r] = "next") ~> (req[r] = "gone" \/ ~running)

\* terminate() ends start_loop and its worker, whatever they are doing.
Shutdown == ~running ~> main.pc = "stopped"

=============================================================================
