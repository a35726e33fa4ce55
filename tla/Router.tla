------------------------------- MODULE Router -------------------------------
(***************************************************************************)
(* The router of llama-server (src/tools/server/server-models.cpp): one    *)
(* child process per model, at most MaxModels of them running, a queue of  *)
(* requests that wait for a slot, the eviction of idle models and the      *)
(* monitor thread that watches, stops, kills and reaps the children.       *)
(*                                                                         *)
(* One action per section under the registry's mutex.  A wait on the       *)
(* condition variable polls every 200 ms, so a waiting request may look at *)
(* any time.  Left out: downloads, reloads of the model list, removal of   *)
(* models, and ties between last_used times.                               *)
(***************************************************************************)
EXTENDS Integers, Sequences, FiniteSets, Functions

CONSTANTS
    Models,
    NoModel,
    Requests,      \* the requests that HTTP clients send
    MaxModels,     \* models_max, 0 for no limit
    Asks,          \* per request: what it may ask for, of which model
    Startups,      \* the sets of models that may be loaded on startup
    MaxFaults      \* bound: crashes, failed spawns and cancellations

\* use: a proxied request whose client may leave; session: one with a conversation id,
\* cancelled by a stop; direct: autoload=false; load, unload: the routes of that name;
\* shutdown: unload_all, once the HTTP server has stopped.
AllKinds == {"use", "session", "direct", "load", "unload", "shutdown"}

ASSUME RouterAssumption ==
    /\ IsFiniteSet(Models) /\ NoModel \notin Models /\ IsFiniteSet(Requests)
    /\ MaxModels \in Nat /\ MaxFaults \in Nat
    /\ Asks \in [Requests -> SUBSET (AllKinds \X Models)]
    /\ Startups \subseteq SUBSET Models
    /\ \A up \in Startups : up # {} => Cardinality(up) <= MaxModels

VARIABLES
    inst,       \* per model: status, exit code # 0, req_count
    stopping,   \* stopping_models
    lru,        \* the models by last_used, oldest first
    queue,      \* server_lru_sched::queue
    cmds,       \* commands for the monitor
    procs,      \* per model: its processes, the newest last
    rq,         \* per request: where its handler is, and its locals
    faults      \* faults so far

registry == <<inst, stopping, lru, queue, cmds>>
vars     == <<registry, procs, rq, faults>>

Statuses == {"UNLOADED", "LOADING", "LOADED", "SLEEPING"}

is_running(i, m)        == i[m].status # "UNLOADED"
is_ready_or_sleep(i, m) == i[m].status \in {"LOADED", "SLEEPING"}
is_failed(i, m)         == i[m].status = "UNLOADED" /\ i[m].failed

Running(i) == {m \in Models : is_running(i, m)}

Idle == [pc |-> "idle", kind |-> "none", model |-> NoModel, seen |-> "UNLOADED",
         queued |-> FALSE, saw_loading |-> FALSE, did_load |-> FALSE, ok |-> TRUE,
         victim |-> NoModel, cancelled |-> FALSE]

Goto(r, to) == rq' = [rq EXCEPT ![r].pc = to]
End(r)      == rq' = [rq EXCEPT ![r] = [Idle EXCEPT !.pc = "done", !.kind = rq[r].kind]]
At(r, where) == rq[r].pc = where
Mine(r)      == rq[r].model

-----------------------------------------------------------------------------
(* server_lru_sched.  The queue q is a sequence of entries, one per model. *)

Entry(m, n, loading) == [model |-> m, n_waiters |-> n, loading |-> loading]
InQueue(q, m)  == \E k \in DOMAIN q : q[k].model = m
Place(q, m)    == CHOOSE k \in DOMAIN q : q[k].model = m
Without(q, k)  == SubSeq(q, 1, k - 1) \o SubSeq(q, k + 1, Len(q))

has_capacity == MaxModels = 0 \/ Cardinality(Running(inst)) < MaxModels

Join(q, m) == IF InQueue(q, m) THEN [q EXCEPT ![Place(q, m)].n_waiters = @ + 1]
                               ELSE Append(q, Entry(m, 1, FALSE))

Leave(q, m) == IF ~InQueue(q, m) THEN q
               ELSE LET k == Place(q, m)
                    IN IF q[k].n_waiters = 1 THEN Without(q, k)
                                             ELSE [q EXCEPT ![k].n_waiters = @ - 1]

CanClaim(m) == queue # <<>> /\ Head(queue).model = m /\ ~Head(queue).loading /\ has_capacity

claim_done(q, m, ok) == IF ok \/ ~InQueue(q, m) THEN q
                        ELSE [q EXCEPT ![Place(q, m)].loading = FALSE]

\* The models pick_victim may give up, by their places in lru; it gives up the oldest first.
Victims(i, s, q) ==
    {k \in DOMAIN lru : /\ i[lru[k]].count = 0 /\ is_ready_or_sleep(i, lru[k])
                        /\ lru[k] \notin s /\ ~InQueue(q, lru[k])}
Nth(places, n) == CHOOSE k \in places : Cardinality({j \in places : j <= k}) = n

\* lru once m has been used.
Used(m) == Append(Without(lru, CHOOSE k \in DOMAIN lru : lru[k] = m), m)

\* How many more slots tick wants freed: n_needed - n_free.
Missing(i, s, q) ==
    LET needed  == Cardinality({k \in DOMAIN q : ~q[k].loading})
        claimed == Cardinality({k \in DOMAIN q : q[k].loading /\ ~is_running(i, q[k].model)})
    IN needed - (MaxModels - Cardinality(Running(i)) + Cardinality(Running(i) \cap s) - claimed)

StopCmd(m, send_exit) == [type |-> "STOP", model |-> m, send_exit |-> send_exit]
WatchCmd(m)           == [type |-> "WATCH", model |-> m, send_exit |-> FALSE]

\* tick in the state <<i, s, q>>: request_stop for as many idle models as are missing.
tick(i, s, q) ==
    LET idle == Victims(i, s, q)
        n    == IF MaxModels = 0 \/ q = <<>> THEN 0
                ELSE LET k == Missing(i, s, q)
                     IN IF k < 0 THEN 0
                        ELSE IF k > Cardinality(idle) THEN Cardinality(idle) ELSE k
    IN /\ stopping' = s \cup {lru[Nth(idle, k)] : k \in 1 .. n}
       /\ cmds' = cmds \o [k \in 1 .. n |-> StopCmd(lru[Nth(idle, k)], TRUE)]

-----------------------------------------------------------------------------
(* Processes. *)

Alive(p) == p.state # "dead"

\* terminate(): the process dies with a nonzero status.
Killed(p) == IF Alive(p) THEN [p EXCEPT !.state = "dead", !.code = TRUE] ELSE p

NewProc == [state |-> "loading", code |-> FALSE, out |-> <<>>, current |-> TRUE,
            watched |-> FALSE, exit |-> FALSE, deadline |-> FALSE]

\* unload(m): under the lock.
DoUnload(m) ==
    /\ IF ~is_running(inst, m) THEN UNCHANGED <<procs, stopping, cmds>>
       ELSE LET loading == inst[m].status = "LOADING"
            IN /\ procs' = IF ~loading THEN procs
                           ELSE [procs EXCEPT ![m] = [k \in DOMAIN @ |->
                                    IF @[k].current THEN Killed(@[k]) ELSE @[k]]]
               /\ IF m \in stopping THEN UNCHANGED <<stopping, cmds>>
                  ELSE /\ stopping' = stopping \cup {m}
                       /\ cmds' = Append(cmds, StopCmd(m, ~loading))
    /\ UNCHANGED <<inst, lru, queue, faults>>

-----------------------------------------------------------------------------
(* A request's handler. *)

\* The route is entered: the model is looked up (router_validate_model).
Arrive(r) ==
    /\ At(r, "idle")
    /\ \E ask \in Asks[r] :
         LET kind    == ask[1]
             m       == ask[2]
             refused == \/ kind \in {"direct", "unload"} /\ ~is_running(inst, m)
                        \/ kind = "load" /\ is_running(inst, m)
             next    == IF refused THEN "done"
                        ELSE CASE kind = "load"   -> "lru"
                               [] kind = "unload" -> "unload"
                               [] kind = "direct" -> "proxy"
                               [] kind = "shutdown" -> "unload_all"
                               [] OTHER           -> "meta"
         IN rq' = [rq EXCEPT ![r] = [Idle EXCEPT !.pc = next, !.kind = kind,
                                         !.model = IF refused THEN NoModel ELSE m]]
    /\ UNCHANGED <<registry, procs, faults>>

\* ensure_model_ready: a copy of the metadata ...
GetMeta(r) ==
    /\ At(r, "meta")
    /\ rq' = [rq EXCEPT ![r].pc = "check", ![r].seen = inst[Mine(r)].status]
    /\ UNCHANGED <<registry, procs, faults>>

\* ... then, in another section, is the model on its way out?
Check(r) ==
    /\ At(r, "check")
    /\ Goto(r, IF Mine(r) \notin stopping /\ rq[r].seen \in {"LOADED", "SLEEPING"}
               THEN "ticket" ELSE "join")
    /\ UNCHANGED <<registry, procs, faults>>

\* Join the queue of a model that is down.
JoinQueue(r) ==
    /\ At(r, "join")
    /\ IF inst[Mine(r)].status = "UNLOADED"
       THEN /\ queue' = Join(queue, Mine(r))
            /\ tick(inst, stopping, queue')
            /\ rq' = [rq EXCEPT ![r].pc = "wait", ![r].queued = TRUE]
       ELSE Goto(r, "wait") /\ UNCHANGED <<queue, stopping, cmds>>
    /\ UNCHANGED <<inst, lru, procs, faults>>

\* The client has left: should_stop() of a request without a ticket.
Left(r) == rq[r].cancelled /\ rq[r].kind = "use"

LeaveQueue(r) == queue' = IF rq[r].queued THEN Leave(queue, Mine(r)) ELSE queue

\* Mutant: the exception does not take the request out of the queue.
Bug_WaitThrow(r) ==
    /\ At(r, "wait")
    /\ LET m == Mine(r)
           failed == /\ m \notin stopping /\ is_failed(inst, m)
                     /\ rq[r].did_load \/ rq[r].saw_loading
       IN \/ failed
          \/ Left(r) /\ (\/ m \in stopping /\ rq[r].queued
                         \/ m \notin stopping /\ inst[m].status = "LOADING"
                         \/ /\ m \notin stopping /\ inst[m].status = "UNLOADED" /\ rq[r].queued
                            /\ ~(rq[r].did_load \/ rq[r].saw_loading))
    /\ UNCHANGED queue
    /\ tick(inst, stopping, queue')
    /\ End(r)
    /\ UNCHANGED <<inst, lru, procs, faults>>

\* A round of the loop that waits: the exits with an exception ...
WaitThrow(r) ==
    /\ At(r, "wait")
    /\ LET m == Mine(r)
           failed == /\ m \notin stopping /\ is_failed(inst, m)
                     /\ rq[r].did_load \/ rq[r].saw_loading
       IN \/ failed
          \/ Left(r) /\ (\/ m \in stopping /\ rq[r].queued
                         \/ m \notin stopping /\ inst[m].status = "LOADING"
                         \/ /\ m \notin stopping /\ inst[m].status = "UNLOADED" /\ rq[r].queued
                            /\ ~(rq[r].did_load \/ rq[r].saw_loading))
    /\ LeaveQueue(r)
    /\ tick(inst, stopping, queue')
    /\ End(r)
    /\ UNCHANGED <<inst, lru, procs, faults>>

\* ... the exits by break: the model is up, or someone else's load came down ...
WaitBreak(r) ==
    /\ At(r, "wait")
    /\ Mine(r) \notin stopping
    /\ \/ is_ready_or_sleep(inst, Mine(r))
       \/ /\ inst[Mine(r)].status = "UNLOADED" /\ ~is_failed(inst, Mine(r))
          /\ rq[r].did_load \/ rq[r].saw_loading
       \/ /\ inst[Mine(r)].status = "UNLOADED"
          /\ ~(rq[r].did_load \/ rq[r].saw_loading) /\ ~rq[r].queued
    /\ LeaveQueue(r)
    /\ rq' = [rq EXCEPT ![r] = [Idle EXCEPT !.pc = "ticket", !.kind = rq[r].kind,
                                    !.model = Mine(r), !.cancelled = rq[r].cancelled]]
    /\ UNCHANGED <<inst, stopping, lru, cmds, procs, faults>>

\* ... a stopping instance: wait for the next one in the queue ...
WaitStopping(r) ==
    /\ At(r, "wait")
    /\ Mine(r) \in stopping /\ ~rq[r].queued
    /\ queue' = Join(queue, Mine(r))
    /\ tick(inst, stopping, queue')
    /\ rq' = [rq EXCEPT ![r].queued = TRUE]
    /\ UNCHANGED <<inst, lru, procs, faults>>

\* ... a look at a model that is loading ...
WaitLoading(r) ==
    /\ At(r, "wait") /\ ~Left(r)
    /\ Mine(r) \notin stopping /\ inst[Mine(r)].status = "LOADING"
    /\ ~rq[r].saw_loading
    /\ rq' = [rq EXCEPT ![r].saw_loading = TRUE]
    /\ UNCHANGED <<registry, procs, faults>>

\* ... and try_claim: the head of the queue loads its model.
TryClaim(r) ==
    /\ At(r, "wait") /\ ~Left(r)
    /\ Mine(r) \notin stopping /\ inst[Mine(r)].status = "UNLOADED"
    /\ rq[r].queued /\ ~rq[r].did_load /\ ~rq[r].saw_loading
    /\ CanClaim(Mine(r))
    /\ queue' = [queue EXCEPT ![1].loading = TRUE]
    /\ Goto(r, "lru")
    /\ UNCHANGED <<inst, stopping, lru, cmds, procs, faults>>

Wait(r) == WaitThrow(r) \/ WaitBreak(r) \/ WaitStopping(r) \/ WaitLoading(r) \/ TryClaim(r)

\* load: unload_lru looks for room ...
UnloadLru(r) ==
    /\ At(r, "lru")
    /\ LET idle == Victims(inst, stopping, queue)
       IN IF has_capacity \/ idle = {} THEN Goto(r, "spawn")
          ELSE rq' = [rq EXCEPT ![r].pc = "lru_unload", ![r].victim = lru[Nth(idle, 1)]]
    /\ UNCHANGED <<registry, procs, faults>>

\* ... unloads the victim in a second section ...
LruUnload(r) ==
    /\ At(r, "lru_unload")
    /\ DoUnload(rq[r].victim)
    /\ Goto(r, "lru_wait")

\* ... and waits until it is down.
LruWait(r) ==
    /\ At(r, "lru_wait")
    /\ inst[rq[r].victim].status = "UNLOADED"
    /\ rq' = [rq EXCEPT ![r].pc = "spawn", ![r].victim = NoModel]
    /\ UNCHANGED <<registry, procs, faults>>

\* After load: a queued request goes on waiting, a load request is answered.
Loaded(r, ok) ==
    IF rq[r].kind = "load" THEN End(r)
    ELSE rq' = [rq EXCEPT ![r].pc = "claim_done", ![r].ok = ok, ![r].did_load = ok]

\* Mutant: the limit is not looked at again.
Bug_Spawn(r) ==
    /\ At(r, "spawn")
    /\ inst[Mine(r)].status = "UNLOADED"
    /\ inst' = [inst EXCEPT ![Mine(r)].status = "LOADING", ![Mine(r)].count = 0]
    /\ procs' = [procs EXCEPT ![Mine(r)] =
                    Append([k \in DOMAIN @ |-> [Killed(@[k]) EXCEPT !.current = FALSE]], NewProc)]
    /\ lru' = Used(Mine(r))
    /\ cmds' = Append(cmds, WatchCmd(Mine(r)))
    /\ Loaded(r, TRUE)
    /\ UNCHANGED <<stopping, queue, faults>>

\* The rest of load: the status and the limit are looked at again.
Spawn(r) ==
    /\ At(r, "spawn")
    /\ inst[Mine(r)].status = "UNLOADED" /\ has_capacity
    /\ inst' = [inst EXCEPT ![Mine(r)].status = "LOADING", ![Mine(r)].count = 0]
    /\ procs' = [procs EXCEPT ![Mine(r)] =
                    Append([k \in DOMAIN @ |-> [Killed(@[k]) EXCEPT !.current = FALSE]], NewProc)]
    /\ lru' = Used(Mine(r))
    /\ cmds' = Append(cmds, WatchCmd(Mine(r)))
    /\ Loaded(r, TRUE)
    /\ UNCHANGED <<stopping, queue, faults>>

\* Not spawned: the model is up already, the limit is reached, or no process can be made.
SpawnNot(r) ==
    /\ At(r, "spawn")
    /\ \/ is_running(inst, Mine(r)) /\ Loaded(r, TRUE) /\ UNCHANGED faults
       \/ ~is_running(inst, Mine(r)) /\ ~has_capacity /\ Loaded(r, FALSE) /\ UNCHANGED faults
       \/ /\ ~is_running(inst, Mine(r)) /\ has_capacity /\ faults < MaxFaults
          /\ Loaded(r, FALSE) /\ faults' = faults + 1
    /\ UNCHANGED <<registry, procs>>

ClaimDone(r) ==
    /\ At(r, "claim_done")
    /\ queue' = claim_done(queue, Mine(r), rq[r].ok)
    /\ tick(inst, stopping, queue')
    /\ rq' = [rq EXCEPT ![r].pc = "wait", ![r].ok = TRUE]
    /\ UNCHANGED <<inst, lru, procs, faults>>

\* proxy_post: a session that was stopped while the model loaded is not proxied.
Ticket(r) ==
    /\ At(r, "ticket")
    /\ IF rq[r].kind = "session" /\ rq[r].cancelled THEN End(r) ELSE Goto(r, "proxy")
    /\ UNCHANGED <<registry, procs, faults>>

\* proxy_request: is the model up, then, in another section, count the request.
Proxy(r) ==
    /\ At(r, "proxy")
    /\ IF is_running(inst, Mine(r)) THEN Goto(r, "count") ELSE End(r)
    /\ UNCHANGED <<registry, procs, faults>>

Count(r) ==
    /\ At(r, "count")
    /\ lru' = Used(Mine(r))
    /\ inst' = [inst EXCEPT ![Mine(r)].count = @ + 1]
    /\ Goto(r, "proxied")
    /\ UNCHANGED <<stopping, queue, cmds, procs, faults>>

\* Mutant: the end of the last request does not tick.
Bug_Cleanup(r) ==
    /\ At(r, "proxied")
    /\ inst' = [inst EXCEPT ![Mine(r)].count = IF @ > 0 THEN @ - 1 ELSE 0]
    /\ End(r)
    /\ UNCHANGED <<stopping, cmds, lru, queue, procs, faults>>

\* The answer is complete or the connection is gone: the proxy's cleanup.
Cleanup(r) ==
    /\ At(r, "proxied")
    /\ inst' = [inst EXCEPT ![Mine(r)].count = IF @ > 0 THEN @ - 1 ELSE 0]
    /\ IF inst[Mine(r)].count = 1 THEN tick(inst', stopping, queue) ELSE UNCHANGED <<stopping, cmds>>
    /\ End(r)
    /\ UNCHANGED <<lru, queue, procs, faults>>

\* post_router_models_unload.
Unload(r) ==
    /\ At(r, "unload")
    /\ DoUnload(Mine(r))
    /\ End(r)

\* unload_all: every running model is stopped, those that load are killed ...
UnloadAll(r) ==
    /\ At(r, "unload_all") /\ \A o \in Requests \ {r} : At(o, "done")
    /\ procs' = [m \in Models |-> IF inst[m].status # "LOADING" THEN procs[m]
                   ELSE [k \in DOMAIN procs[m] |-> IF procs[m][k].current THEN Killed(procs[m][k])
                                                                        ELSE procs[m][k]]]
    /\ LET new == {k \in DOMAIN lru : is_running(inst, lru[k]) /\ lru[k] \notin stopping}
           model(k) == lru[Nth(new, k)]
       IN /\ stopping' = stopping \cup {lru[k] : k \in new}
          /\ cmds' = cmds \o [k \in 1 .. Cardinality(new) |->
                                StopCmd(model(k), inst[model(k)].status # "LOADING")]
    /\ Goto(r, "all_wait")
    /\ UNCHANGED <<inst, lru, queue, faults>>

\* ... and waited for.
AllDown(r) ==
    /\ At(r, "all_wait") /\ Running(inst) = {}
    /\ End(r)
    /\ UNCHANGED <<registry, procs, faults>>

\* The client leaves, or the conversation is stopped: seen where the handler looks.
Cancel(r) ==
    /\ rq[r].kind \in {"use", "session"} /\ rq[r].pc \in {"wait", "ticket"}
    /\ ~rq[r].cancelled /\ faults < MaxFaults
    /\ rq' = [rq EXCEPT ![r].cancelled = TRUE]
    /\ faults' = faults + 1
    /\ UNCHANGED <<registry, procs>>

Handler(r) ==
    \/ GetMeta(r) \/ Check(r) \/ JoinQueue(r) \/ Wait(r)
    \/ UnloadLru(r) \/ LruUnload(r) \/ LruWait(r) \/ Spawn(r) \/ SpawnNot(r) \/ ClaimDone(r)
    \/ Ticket(r) \/ Proxy(r) \/ Count(r) \/ Cleanup(r) \/ Unload(r)
    \/ UnloadAll(r) \/ AllDown(r)

-----------------------------------------------------------------------------
(* The children.  They write state lines to their standard output. *)

Sends(m, k, state, line) ==
    /\ procs' = [procs EXCEPT ![m][k].state = state, ![m][k].out = Append(@, line)]
    /\ UNCHANGED <<registry, rq, faults>>

ChildReady(m, k) == procs[m][k].state = "loading" /\ Sends(m, k, "ready", "LOADED")

\* A child with nothing to do sleeps, and loads its model again for the next request.
Busy(m) == \E r \in Requests : At(r, "proxied") /\ Mine(r) = m
ChildSleep(m, k) == procs[m][k].state = "ready" /\ ~Busy(m) /\ Sends(m, k, "asleep", "SLEEPING")
ChildWake(m, k)  == procs[m][k].state = "asleep" /\ Busy(m) /\ Sends(m, k, "loading", "LOADING")

\* The exit command is obeyed.
ChildExit(m, k) ==
    /\ Alive(procs[m][k]) /\ procs[m][k].exit
    /\ procs' = [procs EXCEPT ![m][k].state = "dead"]
    /\ UNCHANGED <<registry, rq, faults>>

ChildCrash(m, k) ==
    /\ Alive(procs[m][k]) /\ faults < MaxFaults
    /\ procs' = [procs EXCEPT ![m][k] = Killed(@)]
    /\ faults' = faults + 1
    /\ UNCHANGED <<registry, rq>>

-----------------------------------------------------------------------------
(* server_monitor: one thread. *)

\* The newest child the monitor knows under this name.
Watched(m) == {k \in DOMAIN procs[m] : procs[m][k].watched}
Newest(m)  == CHOOSE k \in Watched(m) : \A j \in Watched(m) : j <= k

\* Mutant: no deadline.
Bug_MonitorCommand ==
    /\ cmds # <<>>
    /\ LET c == Head(cmds)
       IN procs' = CASE c.type = "WATCH" ->
                          [procs EXCEPT ![c.model] = [k \in DOMAIN @ |->
                              IF @[k].current THEN [@[k] EXCEPT !.watched = TRUE] ELSE @[k]]]
                     [] c.type = "STOP" /\ Watched(c.model) # {} ->
                          [procs EXCEPT ![c.model][Newest(c.model)].exit = @ \/ c.send_exit]
                     [] OTHER -> procs
    /\ cmds' = Tail(cmds)
    /\ UNCHANGED <<inst, stopping, lru, queue, rq, faults>>

\* handle_commands, one command at a time.
MonitorCommand ==
    /\ cmds # <<>>
    /\ LET c == Head(cmds)
           told(p) == [p EXCEPT !.exit = p.exit \/ c.send_exit, !.deadline = TRUE]
       IN procs' = CASE c.type = "WATCH" ->
                          [procs EXCEPT ![c.model] = [k \in DOMAIN @ |->
                              IF @[k].current THEN [@[k] EXCEPT !.watched = TRUE] ELSE @[k]]]
                     [] c.type = "STOP" /\ Watched(c.model) # {} ->
                          [procs EXCEPT ![c.model][Newest(c.model)] = told(@)]
                     [] OTHER -> procs
    /\ cmds' = Tail(cmds)
    /\ UNCHANGED <<inst, stopping, lru, queue, rq, faults>>

\* Mutant: any news of a model says it is not stopping.
Bug_update_status(m, status, failed) ==
    /\ inst' = [inst EXCEPT ![m].status = status, ![m].failed = failed]
    /\ tick(inst', stopping \ {m}, queue)

\* update_status, with the tick at its end.
update_status(m, status, failed) ==
    LET s == IF status = "UNLOADED" THEN stopping \ {m} ELSE stopping
    IN /\ inst' = [inst EXCEPT ![m].status = status, ![m].failed = failed]
       /\ tick(inst', s, queue)

\* read_output: a line of a child, by name (handle_child_state).
MonitorRead(m, k) ==
    /\ procs[m][k].watched /\ procs[m][k].out # <<>>
    /\ update_status(m, Head(procs[m][k].out), FALSE)
    /\ procs' = [procs EXCEPT ![m][k].out = Tail(@)]
    /\ UNCHANGED <<lru, queue, rq, faults>>

\* The stop timeout is over.
MonitorKill(m, k) ==
    /\ procs[m][k].watched /\ procs[m][k].deadline
    /\ procs' = [procs EXCEPT ![m][k] = [Killed(@) EXCEPT !.deadline = FALSE]]
    /\ UNCHANGED <<registry, rq, faults>>

\* The child is gone and its output read: it is reaped, then on_child_exit.
MonitorReap(m, k) ==
    /\ procs[m][k].watched /\ ~Alive(procs[m][k]) /\ procs[m][k].out = <<>>
    /\ procs' = [procs EXCEPT ![m] = Without(@, k)]
    /\ IF procs[m][k].current
       THEN update_status(m, "UNLOADED", procs[m][k].code)
       ELSE stopping' = stopping \ {m} /\ UNCHANGED <<inst, cmds>>
    /\ UNCHANGED <<lru, queue, rq, faults>>

Child(m, k)   == ChildSleep(m, k) \/ ChildExit(m, k) \/ ChildCrash(m, k)
Monitor(m, k) == MonitorRead(m, k) \/ MonitorKill(m, k) \/ MonitorReap(m, k)

-----------------------------------------------------------------------------

\* The first request finds the models of load_startup_models spawned.
Init ==
    /\ \E up \in Startups :
         /\ inst = [m \in Models |-> [status |-> IF m \in up THEN "LOADING" ELSE "UNLOADED",
                                     failed |-> FALSE, count |-> 0]]
         /\ procs = [m \in Models |-> IF m \in up THEN <<NewProc>> ELSE <<>>]
         /\ lru \in {s \in [1 .. Cardinality(Models) -> Models] :
                       /\ Range(s) = Models
                       /\ \A j, k \in DOMAIN s : s[j] \in up /\ s[k] \notin up => k < j}
         /\ cmds = [k \in 1 .. Cardinality(up) |-> WatchCmd(lru[Cardinality(Models \ up) + k])]
    /\ stopping = {} /\ queue = <<>>
    /\ rq = [r \in Requests |-> Idle]
    /\ faults = 0

Next ==
    \/ \E r \in Requests : Arrive(r) \/ Handler(r) \/ Cancel(r)
    \/ \E m \in Models : \E k \in DOMAIN procs[m] :
           Child(m, k) \/ ChildReady(m, k) \/ ChildWake(m, k) \/ Monitor(m, k)
    \/ MonitorCommand

\* Handlers poll, the monitor's loop runs, a model that loads becomes ready, a request wakes
\* a sleeping child.  No child need obey an exit command; none need fall asleep or crash.
Fairness ==
    /\ \A r \in Requests : WF_vars(Handler(r))
    /\ WF_vars(MonitorCommand)
    /\ \A m \in Models : /\ WF_vars(\E k \in DOMAIN procs[m] : Monitor(m, k))
                         /\ WF_vars(\E k \in DOMAIN procs[m] : ChildReady(m, k) \/ ChildWake(m, k))

Spec == Init /\ [][Next]_vars /\ Fairness

-----------------------------------------------------------------------------
(* Properties. *)

\* Types of the registry, the queue, the handlers and the children: in
\* particular an entry leaves the queue with its last waiter.
TypeOK ==
    /\ inst \in [Models -> [status : Statuses, failed : BOOLEAN, count : Nat]]
    /\ stopping \subseteq Models
    /\ lru \in [1 .. Cardinality(Models) -> Models] /\ Range(lru) = Models
    /\ queue \in Seq([model : Models, n_waiters : Nat \ {0}, loading : BOOLEAN])
    /\ cmds \in Seq([type : {"WATCH", "STOP"}, model : Models, send_exit : BOOLEAN])
    /\ \A m \in Models : procs[m] \in
          Seq([state : {"loading", "ready", "asleep", "dead"}, code : BOOLEAN,
               out : Seq(Statuses \ {"UNLOADED"}), current : BOOLEAN, watched : BOOLEAN,
               exit : BOOLEAN, deadline : BOOLEAN])
    /\ faults \in 0 .. MaxFaults

\* load() checks models_max in one section, evicts in another and spawns in a third, while
\* other requests do the same: never are more than models_max models running, and no model
\* has two processes or a process that the registry believes gone.
WithinLimit ==
    /\ MaxModels > 0 => Cardinality(Running(inst)) <= MaxModels
    /\ \A m \in Models : Len(procs[m]) = IF is_running(inst, m) THEN 1 ELSE 0

\* Every entry of the queue is held by exactly the requests it counts, and there is one
\* entry per model: joining, leaving by break, by exception and after a load add up.
QueueOwned ==
    /\ \A k \in DOMAIN queue :
         queue[k].n_waiters = Cardinality({r \in Requests : rq[r].queued /\ Mine(r) = queue[k].model})
    /\ \A j, k \in DOMAIN queue : queue[j].model = queue[k].model => j = k
    /\ \A r \in Requests : rq[r].queued => InQueue(queue, Mine(r))

\* The queue is a queue, with no entry left behind by its last waiter, and its counts are
\* those of the requests that wait.
QueueOK == TypeOK /\ QueueOwned

\* A stop goes through the monitor's command queue by name: it never hits an instance that
\* was spawned after the one it was meant for.
StopHitsItsInstance ==
    \A m \in Models : \A k \in DOMAIN procs[m] :
        procs[m][k].exit \/ procs[m][k].deadline => m \in stopping

\* request_stop: a model asked to stop is down after all, even if its process ignores the
\* exit command or dies on its own.
StopEnds == \A m \in Models : m \in stopping ~> m \notin stopping

\* Nothing but proxied requests has happened so far.
Undisturbed == faults = 0 /\ \A r \in Requests : rq[r].kind \in {"none", "use", "session"}

\* Requests for more models than there are slots take turns: a request that joined the queue
\* for a load leaves it with its model up and not stopping, so long as nothing crashes, is
\* cancelled, or is loaded and unloaded by hand.  It is not proxied yet: until
\* proxy_request counts it, the model can still be picked as a victim.
TakeTurns ==
    \A r \in Requests :
        At(r, "wait") /\ rq[r].queued /\ ~rq[r].saw_loading
            ~> \/ At(r, "ticket") /\ is_ready_or_sleep(inst, Mine(r)) /\ Mine(r) \notin stopping
               \/ ~Undisturbed

\* No request waits for ever, also after a crash: the one that finds the model down loads it
\* again.  The comment on claim_done has an entry back in line when its load fails.
WaitersServed == \A r \in Requests : At(r, "wait") ~> ~At(r, "wait")

\* unload_all comes back.
ShutdownEnds == (\E r \in Requests : At(r, "all_wait")) ~> (\A r \in Requests : At(r, "done"))

\* Every stop ends, that of one model and that of all: by the exit, the deadline or a crash.
StopsEnd == StopEnds /\ ShutdownEnds

=============================================================================
