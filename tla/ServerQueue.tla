---------------------------- MODULE ServerQueue ----------------------------
(***************************************************************************)
(* The data of the server's two shared objects                             *)
(* (src/tools/server/server-queue.cpp): server_queue with its three deques *)
(* of tasks and server_response with its list of results.  The operators   *)
(* here are the bodies of the methods; Server.tla says which thread runs   *)
(* them under which lock.                                                  *)
(*                                                                         *)
(* A queue entry is a record [type, id].  CANCEL entries carry the id of   *)
(* their target; NEXT_RESPONSE entries carry none.                         *)
(***************************************************************************)
EXTENDS Integers, Sequences, SequencesExt, FiniteSets

CONSTANTS
    Slots,       \* server_slot ids
    Requests,    \* HTTP request threads, each with one server_response_reader
    Tasks,       \* task ids the requests create
    None,        \* "no task", "no slot" (-1)
    Owner,       \* Owner[t]: the request whose reader waits for t
    Type,        \* Type[t]: see the sets of types below
    IdSlot,      \* IdSlot[t]: the slot a completion asks for, or a slot action acts on
    ParentOf,    \* ParentOf[t]: the parent of a child task (n_cmpl > 1)
    Session      \* Session[t]: the realtime task an audio control is for

InferTypes == {"completion", "realtime"}    \* tasks that run in a slot
SlotTypes  == {"slot_action"}           \* SLOT_SAVE, SLOT_RESTORE, SLOT_ERASE
ReadTypes  == {"metrics", "slot_get"}   \* accepted while a decode is running
ReplyTypes == ReadTypes \cup {"lora"}   \* answered at once
ControlTypes == {"audio"}               \* CONTROL: append, commit or end of audio
TaskTypes  == InferTypes \cup SlotTypes \cup ReplyTypes \cup ControlTypes

Children(t) == {c \in Tasks : ParentOf[c] = t}

\* A slot action names its slot and an audio control its session; a parent has
\* children of its own request and fits in the slots (server_schema limits n_cmpl
\* to n_parallel).
ASSUME TasksAssumption ==
    /\ None \notin Slots \cup Tasks
    /\ IsFiniteSet(Slots) /\ IsFiniteSet(Tasks)
    /\ Owner \in [Tasks -> Requests]
    /\ Type \in [Tasks -> TaskTypes]
    /\ IdSlot \in [Tasks -> Slots \cup {None}]
    /\ ParentOf \in [Tasks -> Tasks \cup {None}]
    /\ Session \in [Tasks -> Tasks \cup {None}]
    /\ \A t \in Tasks :
         /\ Type[t] \in SlotTypes => IdSlot[t] # None
         /\ Type[t] \in ControlTypes => Session[t] # None
         /\ Session[t] # None => Type[Session[t]] = "realtime"
         /\ ParentOf[t] # None => /\ ParentOf[ParentOf[t]] = None
                                  /\ Owner[ParentOf[t]] = Owner[t]
                                  /\ Type[t] = "completion"
                                  /\ Type[ParentOf[t]] = "completion"
         /\ Cardinality(Children(t)) < Cardinality(Slots)

Entry == [type : TaskTypes \cup {"cancel", "next"}, id : Tasks \cup {None}]

TaskEntry(t)   == [type |-> Type[t], id |-> t]
CancelEntry(t) == [type |-> "cancel", id |-> t]
NextEntry      == [type |-> "next", id |-> None]

\* The entry stands for a task that a request posted (not CANCEL, not NEXT).
IsTask(e) == e.type \in TaskTypes

\* The tasks of a request that are posted, and all ids its reader waits for.
TopTasks(r) == {t \in Tasks : Owner[t] = r /\ ParentOf[t] = None}
TaskIds(r)  == {t \in Tasks : Owner[t] = r}

-----------------------------------------------------------------------------
(* server_queue *)

\* task_resets_idle_timer
ResetsIdleTimer(e) == e.type # "metrics"

\* The elements of q with an index in K, in their order: what remains when the
\* others are erased.  (SelectSeq, in a form the provers can use.)
Kept(q, K) ==
    [k \in 1 .. Cardinality(K) |-> q[CHOOSE i \in K : Cardinality({j \in K : j <= i}) = k]]

\* cleanup_pending_task, on one deque.
Cleanup(q, ids) == Kept(q, {i \in DOMAIN q : ~(IsTask(q[i]) /\ q[i].id \in ids)})

\* post: a set of entries put in front of or behind q in some order.
Posts(q, es, front) ==
    {IF front THEN p \o q ELSE q \o p : p \in SetToSeqs(es)}

\* pop_deferred_task looks at task.id_slot, which slot actions leave at -1.
UsesSlot(e, s) == e.type \in InferTypes /\ IdSlot[e.id] = s

\* The index in the deferred queue of the task that a released slot wakes.
DeferredIndex(d, s) ==
    IF \E i \in DOMAIN d : UsesSlot(d[i], s)
    THEN CHOOSE i \in DOMAIN d :
            UsesSlot(d[i], s) /\ \A j \in 1 .. (i - 1) : ~UsesSlot(d[j], s)
    ELSE 1

-----------------------------------------------------------------------------
(* server_response: results are records [id, error]. *)

Result == [id : Tasks, error : BOOLEAN]

\* send: a result nobody waits for is dropped.
Sent(waiting, results, t, err) ==
    IF t \in waiting THEN Append(results, [id |-> t, error |-> err]) ELSE results

\* remove_waiting_task_id: the pending results of the ids are removed too.
Bug_Purged(results, ids) == results
Purged(results, ids) == Kept(results, {i \in DOMAIN results : results[i].id \notin ids})

\* recv: the position of the first result for one of the ids, 0 if there is none.
FirstFor(results, ids) ==
    IF \E i \in DOMAIN results : results[i].id \in ids
    THEN CHOOSE i \in DOMAIN results :
            /\ results[i].id \in ids
            /\ \A j \in 1 .. (i - 1) : results[j].id \notin ids
    ELSE 0

=============================================================================
