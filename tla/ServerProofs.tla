---------------------------- MODULE ServerProofs ----------------------------
(***************************************************************************)
(* For every set of slots, requests and tasks: the worker thread and the   *)
(* tasks it declined exist only while main is inside yield_to_queue, which *)
(* keeps the order of the tasks; the server falls asleep only when no slot *)
(* has work; no task is lost or duplicated while its client waits, and     *)
(* every result reaches its reader once.                                   *)
(*                                                                         *)
(* WInv and SleepInv are the invariants of the threads.  TaskInv counts,   *)
(* for every task, the deques, hands and slots it is in.                   *)
(***************************************************************************)
EXTENDS Server, FiniteSetTheorems, SequenceTheorems, NaturalsInduction, WellFoundedInduction, TLAPS

InYield == main.pc \in {"work", "join"}

\* The two thread records keep their fields.
ThreadsInv ==
    /\ main = [pc |-> main.pc, task |-> main.task, ret |-> main.ret,
               tries |-> main.tries, rest |-> main.rest, undo |-> main.undo]
    /\ worker = [pc |-> worker.pc, task |-> worker.task]

\* The hand-shake: main sets busy when it enters a yield and leaves it only
\* after the worker has cleared it, and the worker moves only while it is set.
YieldInv ==
    /\ worker.pc \notin {"idle", "stopped"} => busy
    /\ busy => InYield
    /\ queue_tasks_unhandled # <<>> => InYield

WInv == ThreadsInv /\ YieldInv

\* What the worker does needs busy, which it alone clears.
LEMMA WorkerKeeps == ASSUME WInv, WorkerStep PROVE WInv'
<1> USE DEF WInv, ThreadsInv, YieldInv, InYield, deques, yieldv, WorkerTo
<1>1. CASE WorkerBegin
  BY <1>1 DEF WorkerBegin, WorkerCalled
<1>2. CASE WorkerPop
  BY <1>2 DEF WorkerPop
<1>3. CASE WorkerReply
  BY <1>3 DEF WorkerReply
<1>4. CASE WorkerThrow
  BY <1>4 DEF WorkerThrow
<1>5. CASE WorkerDecline
  BY <1>5 DEF WorkerDecline
<1>6. CASE WorkerCheck
  BY <1>6 DEF WorkerCheck
<1>7. CASE WorkerWakes
  BY <1>7 DEF WorkerWakes
<1>8. CASE WorkerFinish
  BY <1>8 DEF WorkerFinish
<1> QED BY <1>1, <1>2, <1>3, <1>4, <1>5, <1>6, <1>7, <1>8 DEF WorkerStep

\* Outside a yield busy is off, the worker rests and nothing is declined, so
\* main may do what it likes as long as it leaves these three alone.
LEMMA OutsideYield ==
    ASSUME WInv, ~InYield, ThreadsInv', UNCHANGED <<worker, busy, queue_tasks_unhandled>>
    PROVE  WInv'
BY DEF WInv, YieldInv

\* The steps of main that hand the server to the worker and take it back.
LEMMA YieldKeeps ==
    ASSUME WInv, YieldBegin \/ YieldWorkDone \/ YieldBlock \/ YieldEnd
    PROVE  WInv'
<1> USE DEF WInv, ThreadsInv, YieldInv, InYield, deques, yieldv, MainTo
<1>1. CASE YieldBegin
  BY <1>1 DEF YieldBegin
<1>2. CASE YieldWorkDone
  BY <1>2 DEF YieldWorkDone
<1>3. CASE YieldBlock
  BY <1>3 DEF YieldBlock
<1>4. CASE YieldEnd
  BY <1>4 DEF YieldEnd, JoinReady
<1> QED BY <1>1, <1>2, <1>3, <1>4

\* start_loop outside process_single_task and update_slots.
LoopStep ==
    \/ MainPop \/ MainDrained \/ MainStops \/ MainJoined
    \/ IdleBreak \/ IdleWait \/ IdleWakes \/ FallAsleep \/ SleepOn \/ WakeUp

\* process_single_task on the main thread.
ProcessStep ==
    \/ ProcessDefer \/ ProcessLaunch \/ ProcessRefuse \/ ProcessNoStream \/ UndoLaunch
    \/ ProcessReply \/ ProcessAudio \/ ProcessSlotAction \/ ProcessCancel \/ ProcessNext

\* update_slots, except its yields.
UpdateStep ==
    \/ UpdateIdle \/ UpdateBegin \/ SlotFail \/ UpdateThrow \/ PreDecodeDone \/ AbortSlots
    \/ (\E s \in Slots : AudioWait(s) \/ AudioEnd(s))
    \/ (\E s \in Slots : PromptDone(s) \/ SlotFinish(s)) \/ PostDecodeDone

\* The main loop is outside a yield and leaves the hand-shake alone.
LEMMA LoopOutside ==
    ASSUME WInv, LoopStep
    PROVE  ~InYield /\ ThreadsInv' /\ UNCHANGED <<worker, busy, queue_tasks_unhandled>>
<1> USE DEF WInv, ThreadsInv, InYield, deques, yieldv, MainTo
<1>1. CASE MainPop
  BY <1>1 DEF MainPop
<1>2. CASE MainDrained
  BY <1>2 DEF MainDrained
<1>3. CASE MainStops
  BY <1>3 DEF MainStops
<1>4. CASE MainJoined
  BY <1>4 DEF MainJoined
<1>5. CASE IdleBreak
  BY <1>5 DEF IdleBreak
<1>6. CASE IdleWait
  BY <1>6 DEF IdleWait
<1>7. CASE IdleWakes
  BY <1>7 DEF IdleWakes
<1>8. CASE FallAsleep
  BY <1>8 DEF FallAsleep
<1>9. CASE SleepOn
  BY <1>9 DEF SleepOn
<1>10. CASE WakeUp
  BY <1>10 DEF WakeUp
<1> QED BY <1>1, <1>2, <1>3, <1>4, <1>5, <1>6, <1>7, <1>8, <1>9, <1>10 DEF LoopStep

\* So are the task handlers.
LEMMA ProcessOutside ==
    ASSUME WInv, ProcessStep
    PROVE  ~InYield /\ ThreadsInv' /\ UNCHANGED <<worker, busy, queue_tasks_unhandled>>
<1> USE DEF WInv, ThreadsInv, InYield, deques, yieldv, MainTo
<1>1. CASE ProcessDefer
  BY <1>1 DEF ProcessDefer, TaskDone
<1>2. CASE ProcessLaunch
  BY <1>2 DEF ProcessLaunch, TaskDone
<1>3. CASE ProcessRefuse
  BY <1>3 DEF ProcessRefuse, TaskDone
<1>4. CASE UndoLaunch
  BY <1>4 DEF UndoLaunch, Release
<1>5. CASE ProcessReply
  BY <1>5 DEF ProcessReply, TaskDone
<1>6. CASE ProcessSlotAction
  BY <1>6 DEF ProcessSlotAction, TaskDone
<1>7. CASE ProcessCancel
  BY <1>7 DEF ProcessCancel, TaskDone, Release
<1>8. CASE ProcessNext
  BY <1>8 DEF ProcessNext, TaskDone
<1>9. CASE ProcessNoStream
  BY <1>9 DEF ProcessNoStream, TaskDone
<1>10. CASE ProcessAudio
  BY <1>10 DEF ProcessAudio, TaskDone
<1> QED BY <1>1, <1>2, <1>3, <1>4, <1>5, <1>6, <1>7, <1>8, <1>9, <1>10 DEF ProcessStep

\* So is update_slots before and after a decode.
LEMMA UpdateOutside ==
    ASSUME WInv, UpdateStep
    PROVE  ~InYield /\ ThreadsInv' /\ UNCHANGED <<worker, busy, queue_tasks_unhandled>>
<1> USE DEF WInv, ThreadsInv, InYield, deques, yieldv, MainTo
<1>1. CASE UpdateIdle
  BY <1>1 DEF UpdateIdle
<1>2. CASE UpdateBegin
  BY <1>2 DEF UpdateBegin
<1>3. CASE SlotFail
  BY <1>3 DEF SlotFail, FailSlot, Release
<1>4. CASE UpdateThrow
  BY <1>4 DEF UpdateThrow
<1>5. CASE PreDecodeDone
  BY <1>5 DEF PreDecodeDone
<1>6. CASE AbortSlots
  BY <1>6 DEF AbortSlots, FailSlot, Release, UpdateOver
<1>7. CASE \E s \in Slots : PromptDone(s)
  BY <1>7 DEF PromptDone
<1>8. CASE \E s \in Slots : SlotFinish(s)
  BY <1>8 DEF SlotFinish, Release
<1>9. CASE PostDecodeDone
  BY <1>9 DEF PostDecodeDone, UpdateOver
<1>10. CASE \E s \in Slots : AudioWait(s)
  BY <1>10 DEF AudioWait
<1>11. CASE \E s \in Slots : AudioEnd(s)
  BY <1>11 DEF AudioEnd, Release
<1> QED BY <1>1, <1>2, <1>3, <1>4, <1>5, <1>6, <1>7, <1>8, <1>9, <1>10, <1>11 DEF UpdateStep

\* Every step of main keeps the hand-shake.
LEMMA MainKeeps == ASSUME WInv, MainStep PROVE WInv'
<1>1. \/ YieldBegin \/ YieldWorkDone \/ YieldBlock \/ YieldEnd
      \/ LoopStep \/ ProcessStep \/ UpdateStep
  BY DEF MainStep, LoopStep, ProcessStep, UpdateStep
<1> QED BY <1>1, YieldKeeps, LoopOutside, ProcessOutside, UpdateOutside, OutsideYield

\* A request changes no thread record; a cancel can only shorten the list of
\* declined tasks, and outside a yield that list is empty.
LEMMA ReqKeeps ==
    ASSUME WInv, NEW r \in Requests, ReqStep(r) \/ ReqLeave(r)
    PROVE  WInv'
<1>1. UNCHANGED <<main, worker, busy>>
  BY DEF ReqStep, ReqEnter, ReqWakes, ReqCached, ReqList, ReqPost, ReqNext, ReqLeave,
         ReqUnlist, ReqPurge, ReqCancel, yieldv
<1>2. \/ UNCHANGED queue_tasks_unhandled
      \/ queue_tasks_unhandled' = Cleanup(queue_tasks_unhandled, TaskIds(r))
  BY DEF ReqStep, ReqEnter, ReqWakes, ReqCached, ReqList, ReqPost, ReqNext, ReqLeave,
         ReqUnlist, ReqPurge, ReqCancel, deques
<1>3. Cleanup(<<>>, TaskIds(r)) = <<>>
  <2>1. Kept(<<>>, {}) = <<>>
    BY FS_EmptySet DEF Kept
  <2> QED BY <2>1 DEF Cleanup
<1> QED BY <1>1, <1>2, <1>3 DEF WInv, ThreadsInv, YieldInv, InYield

\* The hand-shake invariant is inductive.
LEMMA WInvInductive == WInv /\ [Next]_vars => WInv'
<1> SUFFICES ASSUME WInv, [Next]_vars PROVE WInv'
  OBVIOUS
<1>1. CASE UNCHANGED vars
  BY <1>1 DEF vars, deques, yieldv, WInv, ThreadsInv, YieldInv, InYield
<1>2. CASE IdleTimer \/ terminate
  <2>1. UNCHANGED <<main, worker, busy, queue_tasks_unhandled>>
    BY <1>2 DEF IdleTimer, terminate, deques, yieldv
  <2> QED BY <2>1 DEF WInv, ThreadsInv, YieldInv, InYield
<1> QED BY <1>1, <1>2, MainKeeps, WorkerKeeps, ReqKeeps DEF Next

\* However main, the worker and the requests interleave: the worker handles
\* tasks only while main is inside yield_to_queue (server-queue.cpp:222), so it
\* never reads slots that main is changing, and no declined task outlives it.
THEOREM WorkerStaysInsideYield == Spec => []WorkerInsideYield
<1>1. Init => WInv
  BY DEF Init, WInv, ThreadsInv, YieldInv
<1>2. WInv => WorkerInsideYield
  BY DEF WInv, YieldInv, InYield, WorkerInsideYield
<1> QED BY <1>1, <1>2, WInvInductive, PTL DEF Spec

-----------------------------------------------------------------------------
(* The deques as sequences.                                                *)

IsSeq(q) == q \in Seq(Range(q))

\* A NEXT_RESPONSE entry is in the deque.
NextIn(q) == \E i \in DOMAIN q : q[i].type = "next"

\* A function on 1 .. n is a sequence.
LEMMA FcnIsSeq ==
    ASSUME NEW q, NEW n \in Nat, DOMAIN q = 1 .. n, q = [i \in 1 .. n |-> q[i]]
    PROVE  IsSeq(q)
<1>1. q \in [1 .. n -> Range(q)]
  BY DEF Range
<1> QED BY <1>1 DEF IsSeq

\* Joining two deques loses no entry.
LEMMA ConcatFacts ==
    ASSUME NEW a, NEW b, IsSeq(a), IsSeq(b)
    PROVE  IsSeq(a \o b) /\ (NextIn(a \o b) <=> NextIn(a) \/ NextIn(b))
<1> DEFINE S == Range(a) \cup Range(b)
           c == a \o b
<1>1. a \in Seq(S) /\ b \in Seq(S)
  BY DEF IsSeq
<1>2. /\ Len(a) \in Nat /\ DOMAIN a = 1 .. Len(a)
      /\ Len(b) \in Nat /\ DOMAIN b = 1 .. Len(b)
  BY <1>1
<1> HIDE DEF S
<1>3. c \in Seq(S) /\ Len(c) = Len(a) + Len(b) /\ DOMAIN c = 1 .. Len(c)
  BY <1>1
<1>4. \A i \in 1 .. Len(a) : c[i] = a[i]
  BY <1>1
<1>5. \A i \in 1 .. Len(b) : c[Len(a) + i] = b[i]
  BY <1>1, <1>2
<1> HIDE DEF c
<1>6. IsSeq(c)
  <2>1. c = [i \in 1 .. Len(c) |-> c[i]]
    BY <1>3
  <2> QED BY <1>2, <1>3, <2>1, FcnIsSeq
<1>7. NextIn(c) => NextIn(a) \/ NextIn(b)
  <2> SUFFICES ASSUME NEW i \in 1 .. Len(c), c[i].type = "next"
               PROVE  NextIn(a) \/ NextIn(b)
    BY <1>3 DEF NextIn
  <2>1. CASE i <= Len(a)
    BY <1>2, <1>4, <2>1 DEF NextIn
  <2>2. CASE i > Len(a)
    <3>1. i - Len(a) \in 1 .. Len(b) /\ Len(a) + (i - Len(a)) = i
      BY <1>2, <1>3, <2>2
    <3>2. c[i] = b[i - Len(a)]
      BY <1>5, <3>1
    <3> QED BY <1>2, <3>1, <3>2 DEF NextIn
  <2> QED BY <1>2, <1>3, <2>1, <2>2
<1>8. NextIn(a) => NextIn(c)
  <2>1. 1 .. Len(a) \subseteq 1 .. Len(c)
    BY <1>2, <1>3
  <2> QED BY <1>2, <1>3, <1>4, <2>1 DEF NextIn
<1>9. NextIn(b) => NextIn(c)
  <2>1. \A i \in 1 .. Len(b) : Len(a) + i \in 1 .. Len(c)
    BY <1>2, <1>3
  <2> QED BY <1>2, <1>3, <1>5, <2>1 DEF NextIn
<1> QED BY <1>6, <1>7, <1>8, <1>9 DEF c

\* A single entry as a deque, and an entry put behind a deque.
LEMMA AppendFacts ==
    ASSUME NEW q, IsSeq(q), NEW e
    PROVE  /\ IsSeq(<<e>>) /\ (NextIn(<<e>>) <=> e.type = "next")
           /\ IsSeq(Append(q, e))
           /\ NextIn(Append(q, e)) <=> NextIn(q) \/ e.type = "next"
<1>1. DOMAIN <<e>> = 1 .. 1 /\ <<e>>[1] = e /\ 1 \in 1 .. 1
  OBVIOUS
<1>2. IsSeq(<<e>>)
  <2>1. <<e>> \in Seq({e})
    OBVIOUS
  <2>2. Range(<<e>>) = {e}
    BY <1>1 DEF Range
  <2> QED BY <2>1, <2>2 DEF IsSeq
<1>3. NextIn(<<e>>) <=> e.type = "next"
  BY <1>1 DEF NextIn
<1>4. Append(q, e) = q \o <<e>>
  <2>1. q \in Seq(Range(q) \cup {e})
    BY DEF IsSeq
  <2> QED BY <2>1, AppendIsConcat
<1> QED BY <1>2, <1>3, <1>4, ConcatFacts

\* Taking the first entry leaves the others.
LEMMA TailFacts ==
    ASSUME NEW q, IsSeq(q), q # <<>>
    PROVE  /\ IsSeq(Tail(q))
           /\ NextIn(q) <=> Head(q).type = "next" \/ NextIn(Tail(q))
<1>1. q \in Seq(Range(q))
  BY DEF IsSeq
<1> DEFINE S == Range(q)
           u == Tail(q)
<1> HIDE DEF S
<1>2. q \in Seq(S)
  BY <1>1 DEF S
<1>3. Len(q) \in Nat \ {0} /\ DOMAIN q = 1 .. Len(q) /\ Head(q) = q[1]
  BY <1>2
<1>4. u \in Seq(S) /\ Len(u) = Len(q) - 1 /\ DOMAIN u = 1 .. Len(u)
  BY <1>2
<1>5. \A i \in 1 .. Len(u) : u[i] = q[i + 1]
  BY <1>2, <1>4
<1> HIDE DEF u
<1>6. IsSeq(u)
  <2>1. u = [i \in 1 .. Len(u) |-> u[i]] /\ Len(u) \in Nat
    BY <1>3, <1>4
  <2> QED BY <1>4, <2>1, FcnIsSeq
<1>7. NextIn(q) => Head(q).type = "next" \/ NextIn(u)
  <2> SUFFICES ASSUME NEW i \in 1 .. Len(q), q[i].type = "next", i # 1
               PROVE  NextIn(u)
    BY <1>3 DEF NextIn
  <2>1. i - 1 \in 1 .. Len(u) /\ (i - 1) + 1 = i
    BY <1>3, <1>4
  <2>2. u[i - 1] = q[i]
    BY <1>5, <2>1
  <2> QED BY <1>4, <2>1, <2>2 DEF NextIn
<1>8. Head(q).type = "next" => NextIn(q)
  BY <1>3 DEF NextIn
<1>9. NextIn(u) => NextIn(q)
  <2>1. \A i \in 1 .. Len(u) : i + 1 \in 1 .. Len(q)
    BY <1>3, <1>4
  <2> QED BY <1>3, <1>4, <1>5, <2>1 DEF NextIn
<1> QED BY <1>6, <1>7, <1>8, <1>9 DEF u

\* Erasing entries keeps the others: the entry at index i of K ends up at the
\* number of indices of K up to i, which numbers K without gaps.
LEMMA KeptBijection ==
    ASSUME NEW X, NEW q \in Seq(X), NEW K \in SUBSET DOMAIN q
    PROVE  /\ IsFiniteSet(K) /\ Cardinality(K) \in Nat
           /\ DOMAIN Kept(q, K) = 1 .. Cardinality(K)
           /\ Kept(q, K) = [k \in 1 .. Cardinality(K) |-> Kept(q, K)[k]]
           /\ \E f \in Bijection(K, 1 .. Cardinality(K)) : \A i \in K : Kept(q, K)[f[i]] = q[i]
<1> DEFINE upto(i) == {j \in K : j <= i}
           rank(i) == Cardinality(upto(i))
           at(k) == CHOOSE i \in K : rank(i) = k
<1>1. Len(q) \in Nat /\ DOMAIN q = 1 .. Len(q) /\ K \subseteq 1 .. Len(q)
  OBVIOUS
<1>2. IsFiniteSet(K) /\ Cardinality(K) \in Nat
  <2>1. IsFiniteSet(1 .. Len(q))
    BY <1>1, FS_Interval
  <2>2. IsFiniteSet(K)
    BY <1>1, <2>1, FS_Subset
  <2> QED BY <2>2, FS_CardinalityType
<1>3. Kept(q, K) = [k \in 1 .. Cardinality(K) |-> q[at(k)]]
  BY DEF Kept
<1>4. \A i \in K : IsFiniteSet(upto(i)) /\ rank(i) \in 1 .. Cardinality(K)
  <2> TAKE i \in K
  <2>1. upto(i) \in SUBSET K /\ i \in upto(i)
    BY <1>1
  <2>2. IsFiniteSet(upto(i)) /\ rank(i) <= Cardinality(K)
    BY <1>2, <2>1, FS_Subset
  <2>3. rank(i) \in Nat /\ rank(i) # 0
    BY <2>1, <2>2, FS_CardinalityType, FS_EmptySet
  <2> QED BY <1>2, <2>2, <2>3
<1>5. \A i, j \in K : rank(i) = rank(j) => i = j
  <2>1. ASSUME NEW i \in K, NEW j \in K, i < j, rank(i) = rank(j) PROVE FALSE
    <3>1. upto(i) \in SUBSET upto(j) /\ j \in upto(j) /\ j \notin upto(i)
      BY <1>1, <2>1
    <3>2. upto(i) = upto(j)
      BY <1>4, <2>1, <3>1, FS_Subset
    <3> QED BY <3>1, <3>2
  <2> QED BY <1>1, <2>1
<1> HIDE DEF rank
<1>6. \A i \in K : at(rank(i)) = i
  BY <1>5
<1> HIDE DEF at
<1> DEFINE f == [i \in K |-> rank(i)]
           D == 1 .. Cardinality(K)
<1>7. f \in Injection(K, D)
  BY <1>4, <1>5 DEF Injection, IsInjective
<1>8. IsFiniteSet(D) /\ Cardinality(D) = Cardinality(K)
  BY <1>2, FS_Interval
<1>9. \A i \in K : Kept(q, K)[f[i]] = q[i]
  BY <1>3, <1>4, <1>6
<1> HIDE DEF f, D
<1>10. f \in Bijection(K, D)
  BY <1>7, <1>8, FS_Injection DEF Bijection
<1>11. \E g \in Bijection(K, D) : \A i \in K : Kept(q, K)[g[i]] = q[i]
  BY <1>9, <1>10
<1> QED BY <1>2, <1>3, <1>11 DEF D

LEMMA KeptFacts ==
    ASSUME NEW q, IsSeq(q), NEW K \in SUBSET DOMAIN q
    PROVE  /\ IsSeq(Kept(q, K))
           /\ \A i \in K : \E k \in DOMAIN Kept(q, K) : Kept(q, K)[k] = q[i]
<1> DEFINE D == 1 .. Cardinality(K)
<1>1. q \in Seq(Range(q))
  BY DEF IsSeq
<1>2. /\ Cardinality(K) \in Nat /\ DOMAIN Kept(q, K) = D
      /\ Kept(q, K) = [k \in D |-> Kept(q, K)[k]]
      /\ \E f \in Bijection(K, D) : \A i \in K : Kept(q, K)[f[i]] = q[i]
  BY <1>1, KeptBijection
<1>3. IsSeq(Kept(q, K))
  BY <1>2, FcnIsSeq
<1>4. PICK f \in Bijection(K, D) : \A i \in K : Kept(q, K)[f[i]] = q[i]
  BY <1>2
<1>5. f \in [K -> D]
  BY DEF Bijection, Injection
<1> QED BY <1>2, <1>3, <1>4, <1>5

\* cleanup_pending_task never removes a NEXT_RESPONSE.
LEMMA CleanupFacts ==
    ASSUME NEW q, IsSeq(q), NEW ids
    PROVE  IsSeq(Cleanup(q, ids)) /\ (NextIn(q) => NextIn(Cleanup(q, ids)))
<1> DEFINE K == {i \in DOMAIN q : ~(IsTask(q[i]) /\ q[i].id \in ids)}
<1>1. Cleanup(q, ids) = Kept(q, K)
  BY DEF Cleanup
<1>2. \A i \in DOMAIN q : q[i].type = "next" => i \in K
  BY DEF IsTask, TaskTypes, InferTypes, SlotTypes, ReplyTypes, ReadTypes, ControlTypes
<1> HIDE DEF K
<1>3. K \in SUBSET DOMAIN q
  BY DEF K
<1> QED BY <1>1, <1>2, <1>3, KeptFacts DEF NextIn

\* post puts entries at one end and keeps the rest.
LEMMA PostsFacts ==
    ASSUME NEW q, IsSeq(q), NEW es, IsFiniteSet(es), NEW front, NEW x \in Posts(q, es, front)
    PROVE  IsSeq(x) /\ (NextIn(q) => NextIn(x))
<1>1. PICK p \in SetToSeqs(es) : x = IF front THEN p \o q ELSE q \o p
  BY DEF Posts
<1>2. Cardinality(es) \in Nat
  BY FS_CardinalityType
<1>3. IsSeq(p)
  <2>1. p \in [1 .. Cardinality(es) -> es]
    BY DEF SetToSeqs
  <2> QED BY <1>2, <2>1, FcnIsSeq
<1> QED BY <1>1, <1>3, ConcatFacts

-----------------------------------------------------------------------------
(* Falling asleep.                                                         *)

\* A NEXT_RESPONSE is on its way: in the queue, with the worker or declined.
LoopAlive ==
    \/ NextIn(queue_tasks) \/ NextIn(queue_tasks_unhandled)
    \/ worker.pc = "task" /\ worker.task.type = "next"

DataInv ==
    /\ IsSeq(queue_tasks) /\ IsSeq(queue_tasks_unhandled)
    /\ DOMAIN slot = Slots /\ slot = [s \in Slots |-> slot[s]]

\* From update_slots to the end of the loop a slot with work has its NEXT_RESPONSE.
KeepsGoing ==
    main.pc \in {"pre_decode", "decode", "work", "join", "abort", "post_decode", "idle", "wait"}
        => AllIdle \/ LoopAlive

\* A sleeping server has no slot with work and does nothing until it is woken or ended.
AsleepInv ==
    sleeping => /\ AllIdle
                /\ \/ main.pc = "sleep"
                   \/ ~running /\ main.pc \in {"process", "join_worker", "stopped"}

SleepInv == WInv /\ DataInv /\ KeepsGoing /\ AsleepInv

\* A step of another thread than main only has to keep the deques.
LEMMA OthersKeep ==
    ASSUME SleepInv, WInv', UNCHANGED <<main, slot, running, sleeping>>,
           IsSeq(queue_tasks'), IsSeq(queue_tasks_unhandled'), LoopAlive => LoopAlive'
    PROVE  SleepInv'
<1>1. AllIdle' <=> AllIdle
  BY DEF AllIdle, HasWork, audio_wait, is_processing
<1>2. DataInv'
  BY DEF SleepInv, DataInv
<1>3. KeepsGoing'
  BY <1>1 DEF SleepInv, KeepsGoing
<1>4. AsleepInv'
  BY <1>1 DEF SleepInv, AsleepInv
<1> QED BY <1>2, <1>3, <1>4 DEF SleepInv

\* The worker never loses the NEXT_RESPONSE: it declines it.
LEMMA WorkerKeepsSleep == ASSUME SleepInv, WorkerStep PROVE SleepInv'
<1>1. WInv'
  BY WorkerKeeps DEF SleepInv
<1>2. UNCHANGED <<main, slot, running, sleeping>>
  BY DEF WorkerStep, WorkerBegin, WorkerPop, WorkerReply, WorkerThrow, WorkerDecline,
         WorkerCheck, WorkerWakes, WorkerFinish, sleepv
<1>3. IsSeq(queue_tasks) /\ IsSeq(queue_tasks_unhandled)
  BY DEF SleepInv, DataInv
<1>4. worker = [pc |-> worker.pc, task |-> worker.task]
  BY DEF SleepInv, WInv, ThreadsInv
<1> DEFINE Good == /\ IsSeq(queue_tasks') /\ IsSeq(queue_tasks_unhandled')
                   /\ LoopAlive => LoopAlive'
<1> SUFFICES Good
  BY <1>1, <1>2, OthersKeep
<1>5. CASE WorkerBegin \/ WorkerCheck \/ WorkerWakes \/ WorkerFinish
  <2>1. UNCHANGED <<queue_tasks, queue_tasks_unhandled>> /\ worker.pc # "task"
    BY <1>5 DEF WorkerBegin, WorkerCheck, WorkerWakes, WorkerFinish, deques
  <2> QED BY <1>3, <2>1 DEF LoopAlive
<1>6. CASE WorkerPop
  <2>1. worker.pc = "process" /\ UNCHANGED queue_tasks_unhandled
    BY <1>6 DEF WorkerPop
  <2>2. CASE running /\ queue_tasks # <<>>
    <3>1. worker' = [pc |-> "task", task |-> Head(queue_tasks)] /\ queue_tasks' = Tail(queue_tasks)
      BY <1>6, <2>2 DEF WorkerPop
    <3> QED BY <1>3, <2>1, <2>2, <3>1, TailFacts DEF LoopAlive
  <2>3. CASE ~(running /\ queue_tasks # <<>>)
    <3>1. UNCHANGED queue_tasks
      BY <1>6, <2>3 DEF WorkerPop
    <3> QED BY <1>3, <2>1, <3>1 DEF LoopAlive
  <2> QED BY <2>2, <2>3
<1>7. CASE WorkerReply \/ WorkerThrow
  <2>1. UNCHANGED <<queue_tasks, queue_tasks_unhandled>> /\ worker.task.type \in ReadTypes
    BY <1>7 DEF WorkerReply, WorkerThrow, deques
  <2>2. worker.task.type # "next"
    BY <2>1 DEF ReadTypes
  <2> QED BY <1>3, <2>1, <2>2 DEF LoopAlive
<1>8. CASE WorkerDecline
  <2>1. UNCHANGED queue_tasks /\ queue_tasks_unhandled' = Append(queue_tasks_unhandled, worker.task)
    BY <1>8 DEF WorkerDecline
  <2>2. /\ IsSeq(queue_tasks_unhandled')
        /\ NextIn(queue_tasks_unhandled') <=> NextIn(queue_tasks_unhandled) \/ worker.task.type = "next"
    BY <1>3, <2>1, AppendFacts
  <2> QED BY <1>3, <2>1, <2>2 DEF LoopAlive
<1> QED BY <1>5, <1>6, <1>7, <1>8 DEF WorkerStep

\* The ids of a request are finite, so are the entries it posts.
LEMMA PostedFinite ==
    ASSUME NEW r \in Requests
    PROVE  /\ IsFiniteSet({TaskEntry(t) : t \in TopTasks(r)})
           /\ IsFiniteSet({CancelEntry(t) : t \in TaskIds(r)})
<1>1. IsFiniteSet(TopTasks(r)) /\ IsFiniteSet(TaskIds(r))
  BY TasksAssumption, FS_Subset DEF TopTasks, TaskIds
<1>2. [t \in TopTasks(r) |-> TaskEntry(t)]
        \in Surjection(TopTasks(r), {TaskEntry(t) : t \in TopTasks(r)})
  BY DEF Surjection
<1>3. [t \in TaskIds(r) |-> CancelEntry(t)]
        \in Surjection(TaskIds(r), {CancelEntry(t) : t \in TaskIds(r)})
  BY DEF Surjection
<1> QED BY <1>1, <1>2, <1>3, FS_Surjection

\* A request posts or cancels around the NEXT_RESPONSE.
LEMMA ReqKeepsSleep ==
    ASSUME SleepInv, NEW r \in Requests, ReqStep(r) \/ ReqLeave(r)
    PROVE  SleepInv'
<1>1. WInv'
  BY ReqKeeps DEF SleepInv
<1>2. UNCHANGED <<main, worker, slot, running, sleeping>>
  BY DEF ReqStep, ReqEnter, ReqWakes, ReqCached, ReqList, ReqPost, ReqNext, ReqLeave,
         ReqUnlist, ReqPurge, ReqCancel, sleepv
<1>3. IsSeq(queue_tasks) /\ IsSeq(queue_tasks_unhandled)
  BY DEF SleepInv, DataInv
<1> DEFINE Good == /\ IsSeq(queue_tasks') /\ IsSeq(queue_tasks_unhandled')
                   /\ NextIn(queue_tasks) => NextIn(queue_tasks')
                   /\ NextIn(queue_tasks_unhandled) => NextIn(queue_tasks_unhandled')
<1> SUFFICES Good
  BY <1>1, <1>2, OthersKeep DEF LoopAlive
<1>4. CASE ReqPost(r)
  <2>1. /\ UNCHANGED queue_tasks_unhandled
        /\ \E front : queue_tasks' \in Posts(queue_tasks, {TaskEntry(t) : t \in TopTasks(r)}, front)
    BY <1>4 DEF ReqPost
  <2> QED BY <1>3, <2>1, PostedFinite, PostsFacts
<1>5. CASE ReqCancel(r)
  <2>1. /\ queue_tasks' \in Posts(Cleanup(queue_tasks, TaskIds(r)),
                                  {CancelEntry(t) : t \in TaskIds(r)}, TRUE)
        /\ queue_tasks_unhandled' = Cleanup(queue_tasks_unhandled, TaskIds(r))
    BY <1>5 DEF ReqCancel
  <2> DEFINE q == Cleanup(queue_tasks, TaskIds(r))
             es == {CancelEntry(t) : t \in TaskIds(r)}
  <2>2. IsSeq(q) /\ (NextIn(queue_tasks) => NextIn(q))
    BY <1>3, CleanupFacts
  <2>3. /\ IsSeq(queue_tasks_unhandled')
        /\ NextIn(queue_tasks_unhandled) => NextIn(queue_tasks_unhandled')
    BY <1>3, <2>1, CleanupFacts
  <2>4. IsFiniteSet(es)
    BY PostedFinite
  <2> HIDE DEF q, es
  <2>5. queue_tasks' \in Posts(q, es, TRUE)
    BY <2>1 DEF q, es
  <2> QED BY <2>2, <2>3, <2>4, <2>5, PostsFacts
<1>6. CASE UNCHANGED deques
  BY <1>3, <1>6 DEF deques
<1>7. ReqPost(r) \/ ReqCancel(r) \/ UNCHANGED deques
  BY DEF ReqStep, ReqEnter, ReqWakes, ReqCached, ReqList, ReqNext, ReqLeave, ReqUnlist, ReqPurge
<1> QED BY <1>4, <1>5, <1>6, <1>7

\* release empties a slot and moves a deferred task, no more.
LEMMA ReleaseFacts ==
    ASSUME DataInv, NEW s, Release(s), UNCHANGED worker
    PROVE  DataInv' /\ (LoopAlive => LoopAlive') /\ (AllIdle => AllIdle')
<1>1. IsSeq(queue_tasks) /\ UNCHANGED queue_tasks_unhandled
  BY DEF DataInv, Release
<1>2. IsSeq(queue_tasks') /\ (NextIn(queue_tasks) => NextIn(queue_tasks'))
  <2>1. UNCHANGED queue_tasks \/ \E e : queue_tasks' = <<e>> \o queue_tasks
    BY DEF Release, MoveDeferred
  <2> QED BY <1>1, <2>1, AppendFacts, ConcatFacts
<1>3. slot' = [slot EXCEPT ![s] = IdleSlot]
  BY DEF Release, Released
<1>4. DOMAIN slot' = Slots /\ slot' = [x \in Slots |-> slot'[x]]
  BY <1>3 DEF DataInv
<1>5. \A x \in Slots : slot'[x] = IF x = s THEN IdleSlot ELSE slot[x]
  BY <1>3 DEF DataInv
<1>6. AllIdle => AllIdle'
  BY <1>5 DEF AllIdle, HasWork, audio_wait, is_processing, IdleSlot
<1> QED BY <1>1, <1>2, <1>4, <1>6 DEF DataInv, LoopAlive

\* A NEXT_RESPONSE that is in the queue or declined is in the queue when the
\* yield is over: the worker holds nothing then.
LEMMA YieldEndFacts ==
    ASSUME SleepInv, YieldEnd
    PROVE  DataInv' /\ (LoopAlive => LoopAlive') /\ (AllIdle => AllIdle')
<1>1. worker.pc # "task" /\ UNCHANGED <<worker, slot>>
  BY DEF SleepInv, WInv, YieldInv, YieldEnd, JoinReady
<1>2. queue_tasks' = queue_tasks_unhandled \o queue_tasks /\ queue_tasks_unhandled' = <<>>
  BY DEF YieldEnd, PutBack
<1>3. IsSeq(queue_tasks) /\ IsSeq(queue_tasks_unhandled)
  BY DEF SleepInv, DataInv
<1>4. /\ IsSeq(queue_tasks')
      /\ NextIn(queue_tasks') <=> NextIn(queue_tasks_unhandled) \/ NextIn(queue_tasks)
  BY <1>2, <1>3, ConcatFacts
<1>5. IsSeq(queue_tasks_unhandled')
  <2>1. <<>> \in Seq(Range(<<>>))
    OBVIOUS
  <2> QED BY <1>2, <2>1 DEF IsSeq
<1> QED BY <1>1, <1>4, <1>5 DEF SleepInv, DataInv, LoopAlive, AllIdle, HasWork, audio_wait, is_processing

\* The places of main in update_slots, where a slot with work has its NEXT_RESPONSE.
Going == {"pre_decode", "decode", "work", "join", "abort", "post_decode", "idle", "wait"}

\* A step of main inside update_slots or its wait only has to keep the entry.
LEMMA GoingKeeps ==
    ASSUME SleepInv, WInv', main.pc \in Going, DataInv', UNCHANGED sleeping,
           LoopAlive => LoopAlive', AllIdle => AllIdle'
    PROVE  SleepInv'
BY DEF SleepInv, KeepsGoing, AsleepInv, Going

\* update_slots, its yields and the wait for new tasks.
LEMMA UpdateKeepsSleep ==
    ASSUME SleepInv, WInv',
           \/ YieldBegin \/ YieldWorkDone \/ YieldBlock \/ YieldEnd
           \/ UpdateStep \/ IdleBreak \/ IdleWait \/ IdleWakes
    PROVE  SleepInv'
<1> USE DEF deques, sleepv
<1>1. DataInv /\ main = [pc |-> main.pc, task |-> main.task, ret |-> main.ret,
                         tries |-> main.tries, rest |-> main.rest, undo |-> main.undo]
  BY DEF SleepInv, WInv, ThreadsInv
<1>2. ASSUME main.pc \in Going, UNCHANGED <<queue_tasks, queue_tasks_unhandled, worker, slot, sleeping>>
      PROVE  SleepInv'
  BY <1>2, GoingKeeps DEF SleepInv, DataInv, LoopAlive, AllIdle, HasWork, audio_wait, is_processing
<1>3. CASE \/ YieldBegin \/ YieldWorkDone \/ YieldBlock \/ UpdateThrow \/ PreDecodeDone
           \/ PostDecodeDone \/ IdleBreak \/ IdleWait \/ IdleWakes
  BY <1>2, <1>3 DEF YieldBegin, YieldWorkDone, YieldBlock, UpdateThrow, PreDecodeDone,
                    PostDecodeDone, IdleBreak, IdleWait, IdleWakes, Going
<1>4. ASSUME main.pc \in Going, NEW s \in Slots, Release(s), UNCHANGED <<worker, sleeping>>
      PROVE  SleepInv'
  BY <1>1, <1>4, ReleaseFacts, GoingKeeps
<1>5. CASE SlotFail
  BY <1>4, <1>5 DEF SlotFail, FailSlot, Going
<1>6. CASE AbortSlots
  <2>1. main.pc \in Going /\ UNCHANGED <<worker, sleeping>>
    BY <1>6 DEF AbortSlots, Going
  <2>2. \/ UNCHANGED <<queue_tasks, queue_tasks_unhandled, slot>>
        \/ \E s \in Slots : Release(s)
    BY <1>6 DEF AbortSlots, FailSlot
  <2> QED BY <1>2, <1>4, <2>1, <2>2
<1>7. CASE \E s \in Slots : SlotFinish(s)
  BY <1>4, <1>7 DEF SlotFinish, Going
<1>8. CASE \E s \in Slots : PromptDone(s)
  <2> PICK s \in Slots : PromptDone(s)
    BY <1>8
  <2>1. /\ main.pc \in Going /\ UNCHANGED <<queue_tasks, queue_tasks_unhandled, worker, sleeping>>
        /\ slot[s].state = "started"
    BY DEF PromptDone, Going
  <2>2. DOMAIN slot' = Slots /\ slot' = [x \in Slots |-> slot'[x]]
    BY DEF PromptDone
  <2>3. ~AllIdle
    BY <2>1 DEF AllIdle, HasWork, audio_wait, is_processing
  <2> QED BY <1>1, <2>1, <2>2, <2>3, GoingKeeps DEF DataInv, LoopAlive
<1>12. CASE \E s \in Slots : AudioWait(s)
  <2> PICK s \in Slots : AudioWait(s)
    BY <1>12
  <2>1. /\ main.pc \in Going /\ UNCHANGED <<queue_tasks, queue_tasks_unhandled, worker, sleeping>>
        /\ slot[s].state = "generating"
    BY DEF AudioWait, Going
  <2>2. DOMAIN slot' = Slots /\ slot' = [x \in Slots |-> slot'[x]]
    BY <1>1 DEF AudioWait, DataInv
  <2>3. ~AllIdle
    BY <2>1 DEF AllIdle, HasWork, audio_wait, is_processing
  <2> QED BY <1>1, <2>1, <2>2, <2>3, GoingKeeps DEF DataInv, LoopAlive
<1>13. CASE \E s \in Slots : AudioEnd(s)
  BY <1>4, <1>13 DEF AudioEnd, Going
<1>9. CASE YieldEnd
  BY <1>9, YieldEndFacts, GoingKeeps DEF YieldEnd, Going
<1>10. CASE UpdateIdle
  <2>1. /\ main.pc = "update" /\ AllIdle /\ main'.pc = "idle"
        /\ UNCHANGED <<queue_tasks, queue_tasks_unhandled, slot, sleeping>>
    BY <1>1, <1>10 DEF UpdateIdle, MainTo
  <2> QED BY <1>1, <2>1 DEF SleepInv, DataInv, KeepsGoing, AsleepInv, AllIdle, HasWork, audio_wait, is_processing
<1>11. CASE UpdateBegin
  <2>1. /\ main.pc = "update" /\ queue_tasks' = Append(queue_tasks, NextEntry)
        /\ UNCHANGED <<queue_tasks_unhandled, slot, sleeping>>
    BY <1>11 DEF UpdateBegin, WithNext
  <2>2. IsSeq(queue_tasks') /\ NextIn(queue_tasks')
    BY <1>1, <2>1, AppendFacts DEF DataInv, NextEntry
  <2> QED BY <1>1, <2>1, <2>2 DEF SleepInv, DataInv, KeepsGoing, AsleepInv, LoopAlive
<1> QED BY <1>3, <1>5, <1>6, <1>7, <1>8, <1>9, <1>10, <1>11, <1>12, <1>13 DEF UpdateStep

\* A launch fills slots, but then main has not asked yet whether they are idle.
LEMMA ProcessKeepsSleep ==
    ASSUME SleepInv, WInv', ProcessStep
    PROVE  SleepInv'
<1> USE DEF deques, sleepv
<1>1. DataInv /\ main = [pc |-> main.pc, task |-> main.task, ret |-> main.ret,
                         tries |-> main.tries, rest |-> main.rest, undo |-> main.undo]
  BY DEF SleepInv, WInv, ThreadsInv
<1>2. main.pc \in {"task", "undo"} /\ UNCHANGED <<sleeping, worker>>
  BY DEF ProcessStep, ProcessDefer, ProcessLaunch, ProcessRefuse, ProcessNoStream, UndoLaunch,
         ProcessReply, ProcessAudio, ProcessSlotAction, ProcessCancel, ProcessNext
<1>3. main'.pc \in {"process", "undo"}
  BY <1>1 DEF ProcessStep, ProcessDefer, ProcessLaunch, ProcessRefuse, ProcessNoStream, UndoLaunch,
         ProcessReply, ProcessAudio, ProcessSlotAction, ProcessCancel, ProcessNext, TaskDone, MainTo
<1>4. DataInv'
  <2>1. CASE UNCHANGED <<queue_tasks, queue_tasks_unhandled, slot>>
    BY <1>1, <2>1 DEF DataInv
  <2>2. CASE \E s : Release(s)
    BY <1>1, <1>2, <2>2, ReleaseFacts
  <2>3. CASE ProcessLaunch
    BY <1>1, <2>3 DEF ProcessLaunch, WithChildren, DataInv
  <2>4. CASE ProcessRefuse
    BY <1>1, <2>4 DEF ProcessRefuse, WithChildren, DataInv
  <2>5. CASE UndoLaunch
    BY <2>1, <2>2, <2>5 DEF UndoLaunch
  <2>6. CASE ProcessNoStream
    <3>1. \/ UNCHANGED queue_tasks
          \/ \E e : queue_tasks' = <<e>> \o queue_tasks
      BY <2>6 DEF ProcessNoStream, MoveDeferred
    <3>2. IsSeq(queue_tasks) /\ UNCHANGED <<queue_tasks_unhandled, slot>>
      BY <1>1, <2>6 DEF DataInv, ProcessNoStream
    <3>3. IsSeq(queue_tasks')
      BY <3>1, <3>2, AppendFacts, ConcatFacts
    <3> QED BY <1>1, <3>2, <3>3 DEF DataInv
  <2>7. CASE ProcessAudio
    BY <1>1, <2>7 DEF ProcessAudio, DataInv
  <2> QED BY <2>1, <2>2, <2>3, <2>4, <2>5, <2>6, <2>7
        DEF ProcessStep, ProcessDefer, ProcessReply, ProcessSlotAction, ProcessCancel, ProcessNext
<1> QED BY <1>2, <1>3, <1>4 DEF SleepInv, KeepsGoing, AsleepInv

\* Taking tasks, falling asleep, waking up and stopping.
LEMMA LoopKeepsSleep ==
    ASSUME SleepInv, WInv',
           MainPop \/ MainDrained \/ MainStops \/ MainJoined \/ FallAsleep \/ SleepOn \/ WakeUp
    PROVE  SleepInv'
<1> USE DEF deques, sleepv
<1>1. DataInv /\ main = [pc |-> main.pc, task |-> main.task, ret |-> main.ret,
                         tries |-> main.tries, rest |-> main.rest, undo |-> main.undo]
  BY DEF SleepInv, WInv, ThreadsInv
<1>2. ASSUME UNCHANGED slot PROVE AllIdle' <=> AllIdle
  BY <1>2 DEF AllIdle, HasWork, audio_wait, is_processing
<1>3. CASE MainPop
  <2>1. /\ main.pc = "process" /\ main'.pc = "task" /\ running /\ queue_tasks # <<>>
        /\ queue_tasks' = Tail(queue_tasks)
        /\ UNCHANGED <<queue_tasks_unhandled, slot, sleeping>>
    BY <1>1, <1>3 DEF MainPop
  <2>2. IsSeq(queue_tasks')
    BY <1>1, <2>1, TailFacts DEF DataInv
  <2> QED BY <1>1, <2>1, <2>2 DEF SleepInv, DataInv, KeepsGoing, AsleepInv
<1>4. CASE MainDrained \/ MainStops \/ MainJoined
  <2>1. /\ UNCHANGED <<queue_tasks, queue_tasks_unhandled, slot, sleeping, running>>
        /\ \/ main.pc = "process" /\ running /\ main'.pc = "update"
           \/ main.pc = "process" /\ ~running /\ main'.pc = "join_worker"
           \/ main.pc = "join_worker" /\ main'.pc = "stopped"
    BY <1>1, <1>4 DEF MainDrained, MainStops, MainJoined, MainTo
  <2> QED BY <1>1, <1>2, <2>1 DEF SleepInv, DataInv, KeepsGoing, AsleepInv
<1>5. CASE FallAsleep
  <2>1. /\ main.pc = "idle" /\ main'.pc = "sleep" /\ queue_tasks = <<>>
        /\ UNCHANGED <<queue_tasks, queue_tasks_unhandled, slot>>
    BY <1>1, <1>5 DEF FallAsleep, ShouldSleep, MainTo
  <2>2. ~LoopAlive
    <3>1. queue_tasks_unhandled = <<>> /\ worker.pc # "task"
      BY <2>1 DEF SleepInv, WInv, YieldInv, InYield
    <3>2. ~NextIn(<<>>)
      BY DEF NextIn
    <3> QED BY <2>1, <3>1, <3>2 DEF LoopAlive
  <2>3. AllIdle
    BY <2>1, <2>2 DEF SleepInv, KeepsGoing
  <2> QED BY <1>1, <1>2, <2>1, <2>3 DEF SleepInv, DataInv, KeepsGoing, AsleepInv
<1>6. CASE SleepOn
  <2>1. UNCHANGED <<queue_tasks, queue_tasks_unhandled, slot, sleeping, main>> /\ main.pc = "sleep"
    BY <1>6 DEF SleepOn
  <2> QED BY <1>1, <1>2, <2>1 DEF SleepInv, DataInv, KeepsGoing, AsleepInv
<1>7. CASE WakeUp
  <2>1. /\ main.pc = "sleep" /\ main'.pc = "process" /\ UNCHANGED <<queue_tasks, queue_tasks_unhandled, running>>
    BY <1>1, <1>7 DEF WakeUp, MainTo
  <2>2. CASE running
    <3>1. sleeping' = FALSE /\ slot' = [s \in Slots |-> IdleSlot]
      BY <1>7, <2>2 DEF WakeUp
    <3> QED BY <1>1, <2>1, <3>1 DEF SleepInv, DataInv, KeepsGoing, AsleepInv
  <2>3. CASE ~running
    <3>1. UNCHANGED <<sleeping, slot>>
      BY <1>7, <2>3 DEF WakeUp
    <3> QED BY <1>1, <1>2, <2>1, <2>3, <3>1 DEF SleepInv, DataInv, KeepsGoing, AsleepInv
  <2> QED BY <2>2, <2>3
<1> QED BY <1>3, <1>4, <1>5, <1>6, <1>7

\* Every step of the server keeps the invariant of the sleeping state.
LEMMA SleepInvInductive == SleepInv /\ [Next]_vars => SleepInv'
<1> SUFFICES ASSUME SleepInv, [Next]_vars PROVE SleepInv'
  OBVIOUS
<1>1. WInv'
  BY WInvInductive DEF SleepInv
<1>2. ASSUME UNCHANGED <<main, worker, slot, sleeping, queue_tasks, queue_tasks_unhandled>>,
             UNCHANGED running \/ running' = FALSE
      PROVE  SleepInv'
  <2>1. (AllIdle' <=> AllIdle) /\ (LoopAlive' <=> LoopAlive)
    BY <1>2 DEF LoopAlive, AllIdle, HasWork, audio_wait, is_processing
  <2>2. DataInv' /\ KeepsGoing'
    BY <1>2, <2>1 DEF SleepInv, DataInv, KeepsGoing
  <2>3. AsleepInv'
    BY <1>2, <2>1 DEF SleepInv, AsleepInv
  <2> QED BY <1>1, <2>2, <2>3 DEF SleepInv
<1>3. CASE UNCHANGED vars \/ IdleTimer \/ terminate
  BY <1>2, <1>3 DEF vars, deques, sleepv, IdleTimer, terminate
<1>4. CASE MainStep
  <2>1. \/ YieldBegin \/ YieldWorkDone \/ YieldBlock \/ YieldEnd \/ UpdateStep
        \/ IdleBreak \/ IdleWait \/ IdleWakes \/ ProcessStep
        \/ MainPop \/ MainDrained \/ MainStops \/ MainJoined \/ FallAsleep \/ SleepOn \/ WakeUp
    BY <1>4 DEF MainStep, ProcessStep, UpdateStep
  <2> QED BY <1>1, <2>1, UpdateKeepsSleep, ProcessKeepsSleep, LoopKeepsSleep
<1> QED BY <1>3, <1>4, WorkerKeepsSleep, ReqKeepsSleep DEF Next

\* The server starts in the invariant.
LEMMA SleepInvInit == Init => SleepInv
<1> SUFFICES ASSUME Init PROVE SleepInv
  OBVIOUS
<1>1. WInv
  BY DEF Init, WInv, ThreadsInv, YieldInv
<1>2. <<>> \in Seq(Range(<<>>))
  OBVIOUS
<1>3. DataInv
  BY <1>2 DEF Init, DataInv, IsSeq
<1>4. KeepsGoing /\ AsleepInv
  BY DEF Init, KeepsGoing, AsleepInv
<1> QED BY <1>1, <1>3, <1>4 DEF SleepInv

\* The idle timer never frees the model under a slot with work, a busy worker or
\* declined tasks: a slot that all_idle of update_slots counts (server-context.cpp:3668)
\* always has a NEXT_RESPONSE on its way, which keeps should_sleep
\* (server-queue.cpp:290) from being asked.  A realtime slot that waits for audio is
\* not counted: the model is freed under it.
THEOREM SleepsOnlyWhenIdle == Spec => []SleepsOnlyIdle
<1>1. SleepInv => SleepsOnlyIdle
  BY DEF SleepInv, AsleepInv, WInv, YieldInv, InYield, SleepsOnlyIdle
<1> QED BY <1>1, SleepInvInit, SleepInvInductive, PTL DEF Spec

-----------------------------------------------------------------------------
(* The order of the tasks during a yield.                                  *)

\* Joining sequences: empty ones can be left out, and the grouping is free.
LEMMA JoinFacts ==
    ASSUME NEW a, NEW b, IsSeq(a), IsSeq(b)
    PROVE  /\ (a \o <<>>) \o b = a \o b
           /\ (<<>> \o <<>>) \o a = a
           /\ \A e : (a \o <<e>>) \o <<>> = Append(a, e)
           /\ \A e : (Append(a, e) \o <<>>) \o b = (a \o <<e>>) \o b
           /\ b # <<>> => (a \o <<Head(b)>>) \o Tail(b) = a \o b
<1>1. ASSUME NEW e PROVE
        /\ (a \o <<e>>) \o <<>> = Append(a, e)
        /\ (Append(a, e) \o <<>>) \o b = (a \o <<e>>) \o b
  <2>1. a \in Seq(Range(a) \cup Range(b) \cup {e}) /\ b \in Seq(Range(a) \cup Range(b) \cup {e})
    BY DEF IsSeq
  <2> DEFINE S == Range(a) \cup Range(b) \cup {e}
  <2> HIDE DEF S
  <2>2. a \in Seq(S) /\ b \in Seq(S) /\ e \in S
    BY <2>1 DEF S
  <2>3. Append(a, e) = a \o <<e>> /\ Append(a, e) \in Seq(S)
    BY <2>2, AppendIsConcat
  <2>4. Append(a, e) \o <<>> = Append(a, e)
    BY <2>3, ConcatEmptySeq
  <2> QED BY <2>3, <2>4
<1> DEFINE S == Range(a) \cup Range(b)
<1>2. a \in Seq(S) /\ b \in Seq(S)
  BY DEF IsSeq
<1> HIDE DEF S
<1>3. a \o <<>> = a /\ <<>> \o a = a /\ <<>> \o <<>> = <<>>
  BY <1>2, ConcatEmptySeq
<1>4. ASSUME b # <<>> PROVE (a \o <<Head(b)>>) \o Tail(b) = a \o b
  <2>1. Head(b) \in S /\ Tail(b) \in Seq(S) /\ <<Head(b)>> \in Seq(S)
    BY <1>2, <1>4
  <2>2. <<Head(b)>> \o Tail(b) = b
    BY <1>2, <1>4, <2>1
  <2>3. (a \o <<Head(b)>>) \o Tail(b) = a \o (<<Head(b)>> \o Tail(b))
    BY <1>2, <2>1, ConcatAssociative
  <2> QED BY <2>2, <2>3
<1> QED BY <1>1, <1>3, <1>4

\* Each step of the worker, and the end of the yield, moves one task between two
\* neighbouring places of Pending, or removes a read-only one.
LEMMA YieldStepKeepsOrder ==
    ASSUME SleepInv, WorkerStep \/ YieldEnd
    PROVE  Pending' = IF worker.pc = "task" /\ worker'.pc # "task" /\ worker.task.type \in ReadTypes
                      THEN queue_tasks_unhandled \o queue_tasks ELSE Pending
<1> DEFINE u == queue_tasks_unhandled
           q == queue_tasks
<1>1. IsSeq(u) /\ IsSeq(q) /\ worker = [pc |-> worker.pc, task |-> worker.task]
  BY DEF SleepInv, DataInv, WInv, ThreadsInv
<1>2. CASE WorkerBegin \/ WorkerCheck \/ WorkerWakes \/ WorkerFinish
  <2>1. UNCHANGED <<queue_tasks, queue_tasks_unhandled>> /\ worker.pc # "task" /\ worker'.pc # "task"
    BY <1>1, <1>2 DEF WorkerBegin, WorkerCheck, WorkerWakes, WorkerFinish, deques, WorkerTo
  <2> QED BY <2>1 DEF Pending
<1>3. CASE WorkerPop
  <2>1. worker.pc = "process" /\ UNCHANGED queue_tasks_unhandled
    BY <1>3 DEF WorkerPop
  <2>2. CASE running /\ queue_tasks # <<>>
    <3>1. worker'.pc = "task" /\ worker'.task = Head(q) /\ queue_tasks' = Tail(q) /\ q # <<>>
      BY <1>3, <2>2 DEF WorkerPop
    <3>2. Pending' = (u \o <<Head(q)>>) \o Tail(q) /\ Pending = (u \o <<>>) \o q
      BY <2>1, <3>1 DEF Pending
    <3> QED BY <1>1, <2>1, <3>1, <3>2, JoinFacts
  <2>3. CASE ~(running /\ queue_tasks # <<>>)
    <3>1. UNCHANGED queue_tasks /\ worker'.pc # "task"
      BY <1>1, <1>3, <2>3 DEF WorkerPop, WorkerTo
    <3> QED BY <2>1, <3>1 DEF Pending
  <2> QED BY <2>2, <2>3
<1>4. CASE WorkerReply \/ WorkerThrow
  <2>1. /\ UNCHANGED <<queue_tasks, queue_tasks_unhandled>> /\ worker.task.type \in ReadTypes
        /\ worker.pc = "task" /\ worker'.pc # "task"
    <3>1. CASE WorkerReply
      BY <3>1 DEF WorkerReply, deques
    <3>2. CASE WorkerThrow
      BY <3>2 DEF WorkerThrow, deques
    <3> QED BY <1>4, <3>1, <3>2
  <2>2. Pending' = (u \o <<>>) \o q
    BY <2>1 DEF Pending
  <2> QED BY <1>1, <2>1, <2>2, JoinFacts
<1>5. CASE WorkerDecline
  <2>1. /\ queue_tasks_unhandled' = Append(u, worker.task) /\ UNCHANGED queue_tasks
        /\ worker.task.type \notin ReadTypes /\ worker.pc = "task" /\ worker'.pc # "task"
    BY <1>5 DEF WorkerDecline
  <2>2. Pending' = (Append(u, worker.task) \o <<>>) \o q /\ Pending = (u \o <<worker.task>>) \o q
    BY <2>1 DEF Pending
  <2> QED BY <1>1, <2>1, <2>2, JoinFacts
<1>6. CASE YieldEnd
  <2>1. worker.pc # "task" /\ UNCHANGED worker
    BY <1>6 DEF SleepInv, WInv, YieldInv, YieldEnd, JoinReady
  <2>2. queue_tasks' = u \o q /\ queue_tasks_unhandled' = <<>>
    BY <1>6 DEF YieldEnd, PutBack
  <2>3. Pending' = (<<>> \o <<>>) \o (u \o q) /\ Pending = (u \o <<>>) \o q
    BY <2>1, <2>2 DEF Pending
  <2>4. IsSeq(u \o q)
    BY <1>1, ConcatFacts
  <2>5. (<<>> \o <<>>) \o (u \o q) = u \o q
    BY <2>4, JoinFacts
  <2>6. (u \o <<>>) \o q = u \o q
    BY <1>1, JoinFacts
  <2> QED BY <2>1, <2>3, <2>5, <2>6
<1> QED BY <1>2, <1>3, <1>4, <1>5, <1>6 DEF WorkerStep

\* Whatever the worker takes, serves or declines during a decode, and whatever
\* requests post meanwhile: when yield_to_queue puts the declined tasks back
\* (server-queue.cpp), main is offered the tasks in the order they had.
THEOREM YieldKeepsTheOrder == Spec => YieldKeepsOrder
<1>1. Init => SleepInv
  BY SleepInvInit
<1>2. SleepInv /\ [Next]_vars =>
        [(WorkerStep \/ YieldEnd) =>
          Pending' = IF worker.pc = "task" /\ worker'.pc # "task" /\ worker.task.type \in ReadTypes
                     THEN queue_tasks_unhandled \o queue_tasks ELSE Pending]_vars
  BY YieldStepKeepsOrder
<1> QED BY <1>1, <1>2, SleepInvInductive, PTL DEF Spec, YieldKeepsOrder

-----------------------------------------------------------------------------
(* Counting the entries of a deque.                                        *)

\* How many entries of q are in S.
PlacesOf(q, S) == {i \in DOMAIN q : q[i] \in S}
Hits(q, S) == Cardinality(PlacesOf(q, S))

\* A deque is finite.
LEMMA HitsType ==
    ASSUME NEW X, NEW q \in Seq(X), NEW S
    PROVE  /\ IsFiniteSet(PlacesOf(q, S)) /\ Hits(q, S) \in Nat
           /\ Hits(q, S) = 0 <=> \A i \in DOMAIN q : q[i] \notin S
<1>1. IsFiniteSet(DOMAIN q)
  <2>1. DOMAIN q = 1 .. Len(q) /\ Len(q) \in Int
    OBVIOUS
  <2> QED BY <2>1, FS_Interval
<1>2. PlacesOf(q, S) \in SUBSET (DOMAIN q)
  BY DEF PlacesOf
<1>3. IsFiniteSet(PlacesOf(q, S))
  BY <1>1, <1>2, FS_Subset
<1>4. Hits(q, S) \in Nat /\ (Hits(q, S) = 0 <=> PlacesOf(q, S) = {})
  BY <1>3, FS_CardinalityType, FS_EmptySet DEF Hits
<1> QED BY <1>3, <1>4 DEF PlacesOf

LEMMA HitsConcat ==
    ASSUME NEW X, NEW a \in Seq(X), NEW b \in Seq(X), NEW S
    PROVE  a \o b \in Seq(X) /\ Hits(a \o b, S) = Hits(a, S) + Hits(b, S)
<1> DEFINE c == a \o b
           n == Len(a)
           A == PlacesOf(a, S)
           B == PlacesOf(b, S)
           C == {n + j : j \in B}
<1>1. n \in Nat /\ DOMAIN a = 1 .. n /\ DOMAIN b = 1 .. Len(b) /\ Len(b) \in Nat
  OBVIOUS
<1>2. c \in Seq(X) /\ Len(c) = n + Len(b) /\ DOMAIN c = 1 .. Len(c)
  BY ConcatProperties
<1>3. \A i \in 1 .. (n + Len(b)) : c[i] = IF i <= n THEN a[i] ELSE b[i - n]
  BY ConcatProperties
<1> HIDE DEF c, n
<1>4. PlacesOf(c, S) = A \cup C
  <2>1. ASSUME NEW i \in PlacesOf(c, S) PROVE i \in A \cup C
    <3>1. i \in 1 .. (n + Len(b)) /\ c[i] \in S
      BY <1>2, <2>1 DEF PlacesOf
    <3>2. CASE i <= n
      BY <1>1, <1>3, <3>1, <3>2 DEF PlacesOf
    <3>3. CASE ~(i <= n)
      <4>1. i - n \in 1 .. Len(b) /\ i = n + (i - n) /\ b[i - n] \in S
        BY <1>1, <1>3, <3>1, <3>3
      <4>2. i - n \in B
        BY <1>1, <4>1 DEF PlacesOf
      <4> QED BY <4>1, <4>2
    <3> QED BY <3>2, <3>3
  <2>2. ASSUME NEW i \in A PROVE i \in PlacesOf(c, S)
    BY <1>1, <1>2, <1>3, <2>2 DEF PlacesOf
  <2>3. ASSUME NEW j \in B PROVE n + j \in PlacesOf(c, S)
    <3>1. j \in 1 .. Len(b) /\ b[j] \in S
      BY <1>1, <2>3 DEF PlacesOf
    <3>2. n + j \in 1 .. (n + Len(b)) /\ ~(n + j <= n) /\ (n + j) - n = j
      BY <1>1, <3>1
    <3> QED BY <1>2, <1>3, <3>1, <3>2 DEF PlacesOf
  <2> QED BY <2>1, <2>2, <2>3
<1>5. IsFiniteSet(A) /\ IsFiniteSet(B) /\ A \subseteq 1 .. n /\ B \subseteq 1 .. Len(b)
  BY <1>1, HitsType DEF PlacesOf
<1>6. IsFiniteSet(C) /\ Cardinality(C) = Cardinality(B)
  <2> DEFINE f == [j \in B |-> n + j]
  <2>1. f \in Bijection(B, C)
    <3>1. f \in [B -> C]
      OBVIOUS
    <3>2. \A x, y \in B : f[x] = f[y] => x = y
      BY <1>1, <1>5
    <3>3. \A y \in C : \E x \in B : f[x] = y
      OBVIOUS
    <3> HIDE DEF f, B, C
    <3> QED BY <3>1, <3>2, <3>3 DEF Bijection, Injection, Surjection, IsInjective
  <2> HIDE DEF f
  <2> QED BY <1>5, <2>1, FS_Bijection DEF ExistsBijection
<1>7. A \cap C = {}
  BY <1>1, <1>5
<1> HIDE DEF A, B, C
<1>8. Cardinality(A \cup C) = Cardinality(A) + Cardinality(C) - Cardinality(A \cap C)
  BY <1>5, <1>6, FS_Union
<1>9. Cardinality(A) \in Nat /\ Cardinality(C) \in Nat /\ Cardinality(A \cap C) = 0
  BY <1>5, <1>6, <1>7, FS_CardinalityType, FS_EmptySet
<1>10. Hits(c, S) = Cardinality(A) + Cardinality(B)
  BY <1>4, <1>6, <1>8, <1>9 DEF Hits
<1> QED BY <1>2, <1>10 DEF c, A, B, Hits

LEMMA HitsOne ==
    ASSUME NEW e, NEW S
    PROVE  Hits(<<e>>, S) = IF e \in S THEN 1 ELSE 0
<1>1. PlacesOf(<<e>>, S) = IF e \in S THEN {1} ELSE {}
  <2>1. DOMAIN <<e>> = {1} /\ <<e>>[1] = e
    OBVIOUS
  <2> QED BY <2>1 DEF PlacesOf
<1>2. Cardinality({1}) = 1 /\ Cardinality({}) = 0
  BY FS_Singleton, FS_EmptySet
<1> QED BY <1>1, <1>2 DEF Hits

\* Entries put behind, in front of, or taken from a deque.
LEMMA HitsEnds ==
    ASSUME NEW X, NEW q \in Seq(X), NEW e \in X, NEW S
    PROVE  /\ Append(q, e) \in Seq(X) /\ Hits(Append(q, e), S) = Hits(q, S) + Hits(<<e>>, S)
           /\ <<e>> \o q \in Seq(X) /\ Hits(<<e>> \o q, S) = Hits(q, S) + Hits(<<e>>, S)
           /\ q # <<>> => /\ Head(q) \in X /\ Tail(q) \in Seq(X)
                          /\ Hits(q, S) = Hits(Tail(q), S) + Hits(<<Head(q)>>, S)
<1> DEFINE w == <<e>>
           h == <<Head(q)>>
           u == Tail(q)
<1>1. w \in Seq(X) /\ Append(q, e) = q \o w
  BY AppendIsConcat
<1>2. ASSUME q # <<>> PROVE Head(q) \in X /\ u \in Seq(X) /\ h \in Seq(X) /\ h \o u = q
  BY <1>2
<1> HIDE DEF w, h, u
<1>3. /\ q \o w \in Seq(X) /\ Hits(q \o w, S) = Hits(q, S) + Hits(w, S)
      /\ w \o q \in Seq(X) /\ Hits(w \o q, S) = Hits(w, S) + Hits(q, S)
  BY <1>1, HitsConcat
<1>4. Hits(q, S) \in Nat /\ Hits(w, S) \in Nat
  BY <1>1, HitsType
<1>5. ASSUME q # <<>> PROVE Hits(q, S) = Hits(u, S) + Hits(h, S)
  <2>1. Hits(h \o u, S) = Hits(h, S) + Hits(u, S)
    BY <1>2, <1>5, HitsConcat
  <2>2. Hits(h, S) \in Nat /\ Hits(u, S) \in Nat
    BY <1>2, <1>5, HitsType
  <2>3. Hits(q, S) = Hits(h, S) + Hits(u, S)
    BY <1>2, <1>5, <2>1, Zenon
  <2> QED BY <2>2, <2>3
<1>6. /\ Append(q, e) \in Seq(X) /\ Hits(Append(q, e), S) = Hits(q, S) + Hits(w, S)
      /\ w \o q \in Seq(X) /\ Hits(w \o q, S) = Hits(q, S) + Hits(w, S)
  BY <1>1, <1>3, <1>4
<1> QED BY <1>2, <1>5, <1>6, Zenon DEF w, h, u

LEMMA HitsAppend ==
    ASSUME NEW X, NEW q \in Seq(X), NEW e \in X, NEW S
    PROVE  Hits(Append(q, e), S) = Hits(q, S) + (IF e \in S THEN 1 ELSE 0)
<1> DEFINE w == <<e>>
<1>1. w \in Seq(X) /\ Append(q, e) = q \o w
  BY AppendIsConcat
<1>2. Hits(w, S) = IF e \in S THEN 1 ELSE 0
  BY HitsOne
<1> HIDE DEF w
<1>3. Hits(q \o w, S) = Hits(q, S) + Hits(w, S)
  BY <1>1, HitsConcat
<1> QED BY <1>1, <1>2, <1>3

\* An entry taken out of the middle of a deque.
LEMMA HitsRemoveAt ==
    ASSUME NEW X, NEW q \in Seq(X), NEW i \in DOMAIN q, NEW S
    PROVE  /\ RemoveAt(q, i) \in Seq(X) /\ q[i] \in X
           /\ Hits(q, S) = Hits(RemoveAt(q, i), S) + Hits(<<q[i]>>, S)
<1> DEFINE a == SubSeq(q, 1, i - 1)
           b == SubSeq(q, i + 1, Len(q))
           h == <<q[i]>>
<1>1. Len(q) \in Nat /\ i \in 1 .. Len(q) /\ q[i] \in X /\ h \in Seq(X)
  OBVIOUS
<1>2. a \in Seq(X) /\ b \in Seq(X)
  BY <1>1, SubSeqProperties
<1>3. SubSeq(q, i, Len(q)) = h \o b
  <2>1. Len(q) \in i .. Len(q)
    BY <1>1
  <2> QED BY <1>1, <2>1, SubSeqRecursiveFirst, Zenon
<1>4. a \o SubSeq(q, i, Len(q)) = q
  <2>1. 1 \in 1 .. (Len(q) + 1) /\ i - 1 \in (1 - 1) .. Len(q) /\ Len(q) \in (i - 1) .. Len(q)
    BY <1>1
  <2>2. SubSeq(q, 1, i - 1) \o SubSeq(q, (i - 1) + 1, Len(q)) = SubSeq(q, 1, Len(q))
    BY <2>1, ConcatAdjacentSubSeq
  <2>3. (i - 1) + 1 = i
    BY <1>1
  <2> QED BY <2>2, <2>3, SubSeqFull
<1> HIDE DEF a, b, h
<1>5. h \o b \in Seq(X) /\ Hits(h \o b, S) = Hits(h, S) + Hits(b, S)
  BY <1>1, <1>2, HitsConcat
<1>6. Hits(q, S) = Hits(a, S) + Hits(h \o b, S)
  <2> DEFINE g == h \o b
  <2>1. a \o g = q
    BY <1>3, <1>4, Zenon
  <2>2. g \in Seq(X)
    BY <1>5
  <2> HIDE DEF g
  <2>3. Hits(a \o g, S) = Hits(a, S) + Hits(g, S)
    BY <1>2, <2>2, HitsConcat
  <2> QED BY <2>1, <2>3, Zenon DEF g
<1>7. a \o b \in Seq(X) /\ Hits(a \o b, S) = Hits(a, S) + Hits(b, S)
  BY <1>2, HitsConcat
<1>8. Hits(a, S) \in Nat /\ Hits(b, S) \in Nat /\ Hits(h, S) \in Nat
  BY <1>1, <1>2, HitsType
<1>9. RemoveAt(q, i) = a \o b
  BY DEF RemoveAt, a, b
<1>10. Hits(q, S) = Hits(a \o b, S) + Hits(h, S)
  BY <1>5, <1>6, <1>7, <1>8
<1> QED BY <1>1, <1>7, <1>9, <1>10 DEF h

\* Erasing entries: what remains is counted among the indices that are kept.
LEMMA HitsKept ==
    ASSUME NEW X, NEW q \in Seq(X), NEW K \in SUBSET DOMAIN q, NEW S
    PROVE  /\ Kept(q, K) \in Seq(X)
           /\ \A k \in DOMAIN Kept(q, K) : \E i \in K : Kept(q, K)[k] = q[i]
           /\ Hits(Kept(q, K), S) = Cardinality({i \in K : q[i] \in S})
<1> DEFINE D == 1 .. Cardinality(K)
           y == Kept(q, K)
           A == {i \in K : q[i] \in S}
<1>1. /\ IsFiniteSet(K) /\ Cardinality(K) \in Nat /\ DOMAIN y = D
      /\ y = [k \in D |-> y[k]]
      /\ \E f \in Bijection(K, D) : \A i \in K : y[f[i]] = q[i]
  BY KeptBijection
<1> HIDE DEF y
<1>2. PICK f \in Bijection(K, D) : \A i \in K : y[f[i]] = q[i]
  BY <1>1
<1> HIDE DEF D
<1>3. /\ f \in [K -> D]
      /\ \A i, j \in K : f[i] = f[j] => i = j
      /\ \A k \in D : \E i \in K : f[i] = k
  BY DEF Bijection, Injection, Surjection, IsInjective
<1>4. \A k \in D : \E i \in K : y[k] = q[i]
  BY <1>2, <1>3
<1>5. y \in Seq(X)
  <2>1. \A i \in K : q[i] \in X
    OBVIOUS
  <2>2. y \in [D -> X]
    BY <1>1, <1>4, <2>1
  <2> QED BY <1>1, <2>2 DEF D
<1> DEFINE g == [i \in A |-> f[i]]
<1>6. g \in Bijection(A, PlacesOf(y, S))
  <2>1. \A i \in A : f[i] \in PlacesOf(y, S)
    BY <1>1, <1>2, <1>3 DEF PlacesOf
  <2>2. \A k \in PlacesOf(y, S) : \E i \in A : f[i] = k
    BY <1>1, <1>2, <1>3 DEF PlacesOf
  <2>3. g \in [A -> PlacesOf(y, S)]
    BY <2>1
  <2> QED BY <1>3, <2>2, <2>3 DEF Bijection, Injection, Surjection, IsInjective
<1>7. IsFiniteSet(A)
  BY <1>1, FS_Subset
<1> HIDE DEF A, g
<1>8. Cardinality(PlacesOf(y, S)) = Cardinality(A)
  BY <1>6, <1>7, FS_Bijection DEF ExistsBijection
<1> QED BY <1>1, <1>4, <1>5, <1>8 DEF y, A, Hits

\* A set of entries written down in some order.
LEMMA HitsPerm ==
    ASSUME NEW es, IsFiniteSet(es), NEW p \in SetToSeqs(es), NEW S
    PROVE  p \in Seq(es) /\ Hits(p, S) = Cardinality(es \cap S)
<1> DEFINE D == 1 .. Cardinality(es)
<1>1. p \in [D -> es] /\ \A i, j \in D : p[i] = p[j] => i = j
  BY DEF SetToSeqs
<1>2. Cardinality(es) \in Nat /\ IsFiniteSet(D) /\ Cardinality(D) = Cardinality(es)
  BY FS_CardinalityType, FS_Interval
<1>3. p \in Seq(es)
  BY <1>1, <1>2
<1> HIDE DEF D
<1>4. p \in Injection(D, es)
  BY <1>1 DEF Injection, IsInjective
<1>5. p \in Surjection(D, es)
  BY <1>2, <1>4, FS_Injection
<1> DEFINE A == PlacesOf(p, S)
           g == [i \in A |-> p[i]]
<1>6. A = {i \in D : p[i] \in S}
  BY <1>1 DEF PlacesOf
<1>7. g \in Bijection(A, es \cap S)
  <2>1. g \in [A -> es \cap S]
    BY <1>1, <1>6
  <2>2. \A i, j \in A : g[i] = g[j] => i = j
    BY <1>1, <1>6
  <2>3. \A e \in es \cap S : \E i \in A : g[i] = e
    BY <1>5, <1>6 DEF Surjection
  <2> HIDE DEF A, g
  <2> QED BY <2>1, <2>2, <2>3 DEF Bijection, Injection, Surjection, IsInjective
<1>8. IsFiniteSet(A)
  BY <1>2, <1>6, FS_Subset
<1> HIDE DEF A, g
<1>9. Cardinality(es \cap S) = Cardinality(A)
  BY <1>7, <1>8, FS_Bijection DEF ExistsBijection
<1> QED BY <1>3, <1>9 DEF A, Hits

-----------------------------------------------------------------------------
(* The tasks in the deques.                                                *)

\* The first index of a set of indices.
LEMMA FirstIndex ==
    ASSUME NEW A \in SUBSET Nat, A # {}
    PROVE  \E i \in A : \A j \in 1 .. (i - 1) : j \notin A
<1> DEFINE R == {ss \in Nat \X Nat : ss[1] < ss[2]}
<1>1. IsWellFoundedOn(R, Nat)
  BY NatLessThanWellFounded, Zenon DEF OpToRel
<1>2. \E m \in A : \A j \in A : ~(<<j, m>> \in R)
  <2> HIDE DEF R
  <2> QED BY <1>1, WFMin
<1>3. PICK m \in A : \A j \in A : ~(<<j, m>> \in R)
  BY <1>2
<1>4. \A j \in A : ~(j < m)
  BY <1>3
<1> QED BY <1>4

\* Every entry that is ever made: a task that is posted, a CANCEL, a NEXT_RESPONSE.
AllEntries ==
    {TaskEntry(t) : t \in {x \in Tasks : ParentOf[x] = None}}
    \cup {CancelEntry(t) : t \in Tasks} \cup {NextEntry}

\* An entry of the task t is TaskEntry(t).
LEMMA EntryFacts ==
    ASSUME NEW e \in AllEntries
    PROVE  /\ e \in Entry
           /\ \A t \in Tasks : (IsTask(e) /\ e.id = t) <=> e = TaskEntry(t)
           /\ IsTask(e) => e.id \in Tasks /\ ParentOf[e.id] = None /\ e.type = Type[e.id]
           /\ IsTask(e) => e = TaskEntry(e.id)
           /\ e.type = "cancel" => e.id \in Tasks /\ e = CancelEntry(e.id)
           /\ e.type = "next" => e = NextEntry
<1> USE DEF IsTask, TaskTypes, InferTypes, SlotTypes, ReplyTypes, ReadTypes, ControlTypes, Entry
<1>1. \A t \in Tasks : Type[t] \in TaskTypes
  BY TasksAssumption
<1>2. CASE e \in {TaskEntry(t) : t \in {x \in Tasks : ParentOf[x] = None}}
  BY <1>1, <1>2 DEF TaskEntry, CancelEntry, NextEntry
<1>3. CASE e \in {CancelEntry(t) : t \in Tasks}
  BY <1>1, <1>3 DEF TaskEntry, CancelEntry, NextEntry
<1>4. CASE e = NextEntry
  BY <1>1, <1>4 DEF TaskEntry, CancelEntry, NextEntry
<1> QED BY <1>2, <1>3, <1>4 DEF AllEntries

LEMMA CountIsHits ==
    ASSUME NEW q \in Seq(AllEntries), NEW t \in Tasks
    PROVE  Count(q, t) = Hits(q, {TaskEntry(t)})
<1>1. \A i \in DOMAIN q : q[i] \in AllEntries
  OBVIOUS
<1>2. {i \in DOMAIN q : IsTask(q[i]) /\ q[i].id = t} = PlacesOf(q, {TaskEntry(t)})
  BY <1>1, EntryFacts DEF PlacesOf
<1> QED BY <1>2 DEF Count, Hits

LEMMA CountOne ==
    ASSUME NEW e \in AllEntries, NEW t \in Tasks
    PROVE  Count(<<e>>, t) = IF e = TaskEntry(t) THEN 1 ELSE 0
<1>1. <<e>> \in Seq(AllEntries)
  OBVIOUS
<1>2. Hits(<<e>>, {TaskEntry(t)}) = IF e \in {TaskEntry(t)} THEN 1 ELSE 0
  BY HitsOne
<1>3. Count(<<e>>, t) = Hits(<<e>>, {TaskEntry(t)})
  BY <1>1, CountIsHits
<1> QED BY <1>2, <1>3

\* How the number of entries of a task changes with the deque.
LEMMA CountFacts ==
    ASSUME NEW X \in SUBSET AllEntries, NEW q \in Seq(X), NEW t \in Tasks
    PROVE  /\ Count(q, t) \in Nat
           /\ \A e \in X : /\ Append(q, e) \in Seq(X)
                           /\ Count(Append(q, e), t) = Count(q, t) + Count(<<e>>, t)
                           /\ <<e>> \o q \in Seq(X)
                           /\ Count(<<e>> \o q, t) = Count(q, t) + Count(<<e>>, t)
           /\ q # <<>> => /\ Head(q) \in X /\ Tail(q) \in Seq(X)
                          /\ Count(q, t) = Count(Tail(q), t) + Count(<<Head(q)>>, t)
           /\ \A b \in Seq(X) : q \o b \in Seq(X) /\ Count(q \o b, t) = Count(q, t) + Count(b, t)
           /\ \A i \in DOMAIN q : /\ q[i] \in X /\ RemoveAt(q, i) \in Seq(X)
                                  /\ Count(q, t) = Count(RemoveAt(q, i), t) + Count(<<q[i]>>, t)
<1> DEFINE T == {TaskEntry(t)}
<1>1. \A x \in Seq(X) : x \in Seq(AllEntries)
  OBVIOUS
<1>2. \A x \in Seq(X) : Count(x, t) = Hits(x, T)
  BY <1>1, CountIsHits
<1>3. ASSUME NEW e \in X PROVE Count(<<e>>, t) = Hits(<<e>>, T)
  <2>1. <<e>> \in Seq(X)
    OBVIOUS
  <2> QED BY <1>2, <2>1
<1> HIDE DEF T
<1>4. Count(q, t) \in Nat
  BY <1>2, HitsType
<1>5. ASSUME NEW e \in X
      PROVE  /\ Append(q, e) \in Seq(X) /\ <<e>> \o q \in Seq(X)
             /\ Count(Append(q, e), t) = Count(q, t) + Count(<<e>>, t)
             /\ Count(<<e>> \o q, t) = Count(q, t) + Count(<<e>>, t)
  <2> DEFINE w == <<e>>
  <2>1. w \in Seq(X) /\ Append(q, e) = q \o w
    BY AppendIsConcat
  <2>2. Count(w, t) = Hits(w, T)
    BY <1>2, <2>1
  <2> HIDE DEF w
  <2>3. /\ q \o w \in Seq(X) /\ Hits(q \o w, T) = Hits(q, T) + Hits(w, T)
        /\ w \o q \in Seq(X) /\ Hits(w \o q, T) = Hits(w, T) + Hits(q, T)
    BY <2>1, HitsConcat
  <2>4. Hits(q, T) \in Nat /\ Hits(w, T) \in Nat
    BY <2>1, HitsType
  <2>5. /\ Count(q \o w, t) = Hits(q \o w, T) /\ Count(w \o q, t) = Hits(w \o q, T)
        /\ Count(q, t) = Hits(q, T)
    BY <1>2, <2>3
  <2>6. /\ Count(q \o w, t) = Count(q, t) + Count(w, t)
        /\ Count(w \o q, t) = Count(q, t) + Count(w, t)
    BY <2>2, <2>3, <2>4, <2>5
  <2> QED BY <2>1, <2>3, <2>6, Zenon DEF w
<1>6. ASSUME q # <<>>
      PROVE  /\ Head(q) \in X /\ Tail(q) \in Seq(X)
             /\ Count(q, t) = Count(Tail(q), t) + Count(<<Head(q)>>, t)
  <2>1. Head(q) \in X
    BY <1>6
  <2>2. Tail(q) \in Seq(X) /\ Hits(q, T) = Hits(Tail(q), T) + Hits(<<Head(q)>>, T)
    BY <1>6, <2>1, HitsEnds
  <2> QED BY <1>2, <1>3, <2>1, <2>2, Zenon
<1>7. ASSUME NEW b \in Seq(X)
      PROVE  q \o b \in Seq(X) /\ Count(q \o b, t) = Count(q, t) + Count(b, t)
  <2>1. q \o b \in Seq(X) /\ Hits(q \o b, T) = Hits(q, T) + Hits(b, T)
    BY HitsConcat
  <2> QED BY <1>2, <2>1, Zenon
<1>8. ASSUME NEW i \in DOMAIN q
      PROVE  /\ q[i] \in X /\ RemoveAt(q, i) \in Seq(X)
             /\ Count(q, t) = Count(RemoveAt(q, i), t) + Count(<<q[i]>>, t)
  <2>1. /\ q[i] \in X /\ RemoveAt(q, i) \in Seq(X)
        /\ Hits(q, T) = Hits(RemoveAt(q, i), T) + Hits(<<q[i]>>, T)
    BY HitsRemoveAt, Zenon
  <2> QED BY <1>2, <1>3, <2>1, Zenon
<1> QED BY <1>4, <1>5, <1>6, <1>7, <1>8, Zenon

\* cleanup_pending_task removes the tasks of the ids and no other entry.
LEMMA CountCleanup ==
    ASSUME NEW X \in SUBSET AllEntries, NEW q \in Seq(X), NEW ids, NEW t \in Tasks
    PROVE  /\ Cleanup(q, ids) \in Seq(X)
           /\ Count(Cleanup(q, ids), t) = IF t \in ids THEN 0 ELSE Count(q, t)
<1> DEFINE K == {i \in DOMAIN q : ~(IsTask(q[i]) /\ q[i].id \in ids)}
           T == {TaskEntry(t)}
<1>1. K \in SUBSET DOMAIN q /\ Cleanup(q, ids) = Kept(q, K)
  BY DEF Cleanup
<1>2. \A i \in DOMAIN q : q[i] \in AllEntries
  OBVIOUS
<1>3. \A i \in DOMAIN q : q[i] \in T <=> IsTask(q[i]) /\ q[i].id = t
  BY <1>2, EntryFacts
<1>4. {i \in K : q[i] \in T} = IF t \in ids THEN {} ELSE PlacesOf(q, T)
  BY <1>3 DEF PlacesOf
<1> HIDE DEF K, T
<1>5. Kept(q, K) \in Seq(X) /\ Hits(Kept(q, K), T) = Cardinality({i \in K : q[i] \in T})
  BY <1>1, HitsKept
<1>6. Hits(Kept(q, K), T) = IF t \in ids THEN 0 ELSE Hits(q, T)
  BY <1>4, <1>5, FS_EmptySet DEF Hits
<1>7. Seq(X) \subseteq Seq(AllEntries)
  OBVIOUS
<1> QED BY <1>1, <1>5, <1>6, <1>7, CountIsHits DEF T

\* post adds each of its entries once.
LEMMA CountPosts ==
    ASSUME NEW X \in SUBSET AllEntries, NEW q \in Seq(X), NEW es \in SUBSET X, IsFiniteSet(es),
           NEW front, NEW x \in Posts(q, es, front), NEW t \in Tasks
    PROVE  x \in Seq(X) /\ Count(x, t) = Count(q, t) + (IF TaskEntry(t) \in es THEN 1 ELSE 0)
<1> DEFINE T == {TaskEntry(t)}
<1>1. PICK p \in SetToSeqs(es) : x = IF front THEN p \o q ELSE q \o p
  BY DEF Posts
<1>2. p \in Seq(es) /\ Hits(p, T) = Cardinality(es \cap T)
  BY HitsPerm
<1>3. es \cap T = IF TaskEntry(t) \in es THEN T ELSE {}
  OBVIOUS
<1>4. Cardinality(T) = 1 /\ Cardinality({}) = 0
  BY FS_Singleton, FS_EmptySet
<1>5. p \in Seq(X) /\ p \in Seq(AllEntries)
  BY <1>2
<1>6. Count(p, t) = IF TaskEntry(t) \in es THEN 1 ELSE 0
  BY <1>2, <1>3, <1>4, <1>5, CountIsHits
<1>7. Count(p, t) \in Nat /\ Count(q, t) \in Nat
  BY <1>5, CountFacts
<1>8. /\ p \o q \in Seq(X) /\ Count(p \o q, t) = Count(p, t) + Count(q, t)
      /\ q \o p \in Seq(X) /\ Count(q \o p, t) = Count(q, t) + Count(p, t)
  BY <1>5, CountFacts
<1>9. x \in Seq(X) /\ Count(x, t) = Count(q, t) + Count(p, t)
  BY <1>1, <1>7, <1>8
<1> QED BY <1>6, <1>9

\* pop_deferred_task and recv pick an entry that is there.
LEMMA DeferredIndexFacts ==
    ASSUME NEW X, NEW d \in Seq(X), d # <<>>, NEW s
    PROVE  DeferredIndex(d, s) \in DOMAIN d
<1> DEFINE A == {i \in DOMAIN d : UsesSlot(d[i], s)}
<1>1. DOMAIN d = 1 .. Len(d) /\ Len(d) \in Nat \ {0}
  OBVIOUS
<1>2. CASE A # {}
  <2>1. \E i \in A : \A j \in 1 .. (i - 1) : j \notin A
    <3>1. A \in SUBSET Nat
      BY <1>1
    <3> HIDE DEF A
    <3> QED BY <1>2, <3>1, FirstIndex
  <2>2. \E i \in DOMAIN d : UsesSlot(d[i], s) /\ \A j \in 1 .. (i - 1) : ~UsesSlot(d[j], s)
    BY <1>1, <2>1
  <2> QED BY <1>2, <2>2 DEF DeferredIndex
<1>3. CASE A = {}
  <2>1. DeferredIndex(d, s) = 1
    BY <1>3 DEF DeferredIndex
  <2> QED BY <1>1, <2>1
<1> QED BY <1>2, <1>3

LEMMA FirstForFacts ==
    ASSUME NEW X, NEW q \in Seq(X), NEW ids
    PROVE  /\ FirstFor(q, ids) # 0 => /\ FirstFor(q, ids) \in DOMAIN q
                                      /\ q[FirstFor(q, ids)].id \in ids
           /\ FirstFor(q, ids) = 0 => \A i \in DOMAIN q : q[i].id \notin ids
<1> DEFINE A == {i \in DOMAIN q : q[i].id \in ids}
<1>1. DOMAIN q = 1 .. Len(q) /\ Len(q) \in Nat
  OBVIOUS
<1>2. CASE A # {}
  <2>1. \E i \in A : \A j \in 1 .. (i - 1) : j \notin A
    <3>1. A \in SUBSET Nat
      BY <1>1
    <3> HIDE DEF A
    <3> QED BY <1>2, <3>1, FirstIndex
  <2>2. \E i \in DOMAIN q : q[i].id \in ids /\ \A j \in 1 .. (i - 1) : q[j].id \notin ids
    BY <1>1, <2>1
  <2>3. FirstFor(q, ids) \in DOMAIN q /\ q[FirstFor(q, ids)].id \in ids
    BY <1>2, <2>2 DEF FirstFor
  <2> QED BY <1>1, <2>3
<1>3. CASE A = {}
  BY <1>3 DEF FirstFor
<1> QED BY <1>2, <1>3

-----------------------------------------------------------------------------
(* The invariant behind NoTaskLost and ResultsOK.                          *)

\* The entries the deques and the threads may hold: a CANCEL is posted by a
\* request that is over.
Entries ==
    {TaskEntry(t) : t \in {x \in Tasks : ParentOf[x] = None}}
    \cup {CancelEntry(t) : t \in {x \in Tasks : req[Owner[x]] = "gone"}}
    \cup {NextEntry}

\* A request before it posts its tasks, and after it gave up waiting.
Before == {"new", "asleep", "ready", "listed"}
After  == {"stop", "unlisted", "purged", "gone"}

\* An error waits for the reader of r, which will then give up.
HasError(r) ==
    \E i \in DOMAIN queue_results : queue_results[i].id \in TaskIds(r) /\ queue_results[i].error

Dead(r) == req[r] \in After \/ HasError(r)

\* The parts of TypeOK, each kept by its own argument.
FlagsType ==
    /\ running \in BOOLEAN /\ sleeping \in BOOLEAN /\ req_stop_sleeping \in BOOLEAN
    /\ expired \in BOOLEAN
    /\ busy \in BOOLEAN /\ yielding \in BOOLEAN /\ stop \in BOOLEAN /\ exception \in BOOLEAN
BlockedType == blocked \subseteq Requests \cup {"main", "worker"}
ReqType == req \in [Requests -> ReqPcs] /\ received \in [Requests -> Nat]
RespType ==
    /\ waiting_task_ids \subseteq Tasks /\ queue_results \in Seq(Result)
    /\ answered \subseteq Tasks /\ destroyed \subseteq Tasks
ThreadsType ==
    /\ main \in [pc : MainPcs, task : Entries, ret : {"ok"} \cup DecodeErrs,
                 tries : 0 .. MaxRetries, rest : BOOLEAN, undo : SUBSET Slots]
    /\ worker \in [pc : WorkerPcs, task : Entries]
SlotType ==
    /\ slot \in [Slots -> [task : Tasks \cup {None}, state : SlotStates]]
    /\ \A s \in Slots : is_processing(s) <=> slot[s].task # None
DequesType ==
    /\ queue_tasks \in Seq(Entries) /\ queue_tasks_deferred \in Seq(Entries)
    /\ queue_tasks_unhandled \in Seq(Entries)

\* What main and the worker hold between two steps.
HandsInv ==
    /\ main.pc # "task" => main.task = NoEntry
    /\ worker.pc # "task" => worker.task = NoEntry
    /\ main.pc # "undo" => main.undo = {}
    /\ main.pc # "join" => main.ret = "ok"
    /\ main.ret = "retry" => main.tries < MaxRetries
    /\ main.pc = "sleep" => sleeping

\* Which ids are listed, and which results there are.
ListInv ==
    /\ \A t \in Tasks : t \in waiting_task_ids <=> req[Owner[t]] \in {"listed", "next", "stop"}
    /\ \A i \in DOMAIN queue_results : queue_results[i].id \in answered
    /\ \A r \in Requests : req[r] \in Before => received[r] = 0
    /\ \A r \in Requests : req[r] = "stop" => has_next(r)

\* The entries of a task in the deques and in the hands of the threads, and the
\* slots that run it.
Held(c) ==
    Count(queue_tasks, c) + Count(queue_tasks_deferred, c) + Count(queue_tasks_unhandled, c)
    + Count(<<main.task>>, c) + Count(<<worker.task>>, c)
Runs(t) == {s \in Slots : slot[s].task = t}
Done(t) == IF t \in answered \cup destroyed THEN 1 ELSE 0

Total(t) == Held(Carrier(t)) + Cardinality(Runs(t)) + Done(t)

\* A task is in one place or done from the moment it is posted, unless its
\* reader gave up: then it may also be gone.
PlacesInv ==
    /\ \A t \in Tasks : Total(t) \in {0, 1}
    /\ \A t \in Tasks : req[Owner[t]] \in Before => Total(t) = 0
    /\ \A t \in Tasks : req[Owner[t]] = "next" => Total(t) = 1 \/ HasError(Owner[t])
    /\ \A s \in main.undo : slot[s].task # None /\ Dead(Owner[slot[s].task])

ServerType ==
    FlagsType /\ BlockedType /\ ReqType /\ RespType /\ ThreadsType /\ SlotType /\ DequesType

TaskInv == SleepInv /\ ServerType /\ HandsInv /\ ListInv /\ PlacesInv /\ ResultsDelivered

-----------------------------------------------------------------------------
(* Types.                                                                  *)

\* Steps of main, the worker, the timer and terminate leave the requests alone.
LEMMA ReqFrame ==
    ASSUME MainStep \/ WorkerStep \/ IdleTimer \/ terminate \/ UNCHANGED vars
    PROVE  UNCHANGED <<req, received, waiting_task_ids>>
<1> USE DEF reqv, respv, Send, FailSlot
<1>1. CASE MainStep
  <2>1. CASE LoopStep
    BY <2>1 DEF LoopStep, MainPop, MainDrained, MainStops, MainJoined, IdleBreak, IdleWait,
                IdleWakes, FallAsleep, SleepOn, WakeUp
  <2>2. CASE ProcessStep
    BY <2>2 DEF ProcessStep, ProcessDefer, ProcessLaunch, ProcessRefuse, ProcessNoStream, UndoLaunch,
                ProcessReply, ProcessAudio, ProcessSlotAction, ProcessCancel, ProcessNext
  <2>3. CASE UpdateStep
    BY <2>3 DEF UpdateStep, UpdateIdle, UpdateBegin, SlotFail, UpdateThrow, PreDecodeDone,
                AudioWait, AudioEnd, AbortSlots, PromptDone, SlotFinish, PostDecodeDone
  <2>4. CASE YieldBegin \/ YieldWorkDone \/ YieldBlock \/ YieldEnd
    <3>1. CASE YieldBegin
      BY <3>1 DEF YieldBegin
    <3>2. CASE YieldWorkDone
      BY <3>2 DEF YieldWorkDone
    <3>3. CASE YieldBlock
      BY <3>3 DEF YieldBlock
    <3>4. CASE YieldEnd
      BY <3>4 DEF YieldEnd
    <3> QED BY <2>4, <3>1, <3>2, <3>3, <3>4
  <2> QED BY <1>1, <2>1, <2>2, <2>3, <2>4 DEF MainStep, LoopStep, ProcessStep, UpdateStep
<1>2. CASE WorkerStep
  BY <1>2 DEF WorkerStep, WorkerBegin, WorkerPop, WorkerReply, WorkerThrow, WorkerDecline,
              WorkerCheck, WorkerWakes, WorkerFinish
<1>3. CASE IdleTimer \/ terminate \/ UNCHANGED vars
  BY <1>3 DEF IdleTimer, terminate, vars
<1> QED BY <1>1, <1>2, <1>3

\* The requests go through their states in order.
LEMMA ReqTypeKept ==
    ASSUME ReqType, NEW r \in Requests, ReqStep(r) \/ ReqLeave(r)
    PROVE  /\ ReqType'
           /\ \A x \in Requests \ {r} : req'[x] = req[x] /\ received'[x] = received[x]
<1> USE DEF ReqType, ReqTo, ReqPcs
<1>1. CASE ReqEnter(r)
  BY <1>1 DEF ReqEnter
<1>2. CASE ReqWakes(r)
  BY <1>2 DEF ReqWakes
<1>3. CASE ReqCached(r) \/ ReqList(r) \/ ReqPost(r) \/ ReqLeave(r)
  BY <1>3 DEF ReqCached, ReqList, ReqPost, ReqLeave
<1>4. CASE ReqNext(r)
  BY <1>4 DEF ReqNext
<1>5. CASE ReqUnlist(r)
  BY <1>5 DEF ReqUnlist
<1>6. CASE ReqPurge(r) \/ ReqCancel(r)
  BY <1>6 DEF ReqPurge, ReqCancel
<1> QED BY <1>1, <1>2, <1>3, <1>4, <1>5, <1>6 DEF ReqStep

LEMMA FlagsMainKept == ASSUME FlagsType, MainStep PROVE FlagsType'
<1> USE DEF FlagsType, sleepv, yieldv, Release, FailSlot
<1>1. CASE LoopStep
  BY <1>1 DEF LoopStep, MainPop, MainDrained, MainStops, MainJoined, IdleBreak, IdleWait,
              IdleWakes, FallAsleep, SleepOn, WakeUp
<1>2. CASE ProcessStep
  BY <1>2 DEF ProcessStep, ProcessDefer, ProcessLaunch, ProcessRefuse, ProcessNoStream, UndoLaunch,
              ProcessReply, ProcessAudio, ProcessSlotAction, ProcessCancel, ProcessNext
<1>3. CASE UpdateStep
  <2>1. CASE SlotFail \/ \E s \in Slots : SlotFinish(s) \/ AudioEnd(s)
    BY <2>1 DEF SlotFail, SlotFinish, AudioEnd
  <2>2. CASE AbortSlots
    BY <2>2 DEF AbortSlots
  <2>3. CASE ~(SlotFail \/ AbortSlots \/ \E s \in Slots : SlotFinish(s) \/ AudioEnd(s))
    BY <1>3, <2>3 DEF UpdateStep, UpdateIdle, UpdateBegin, UpdateThrow, AudioWait,
                PreDecodeDone, PromptDone, PostDecodeDone
  <2> QED BY <2>1, <2>2, <2>3
<1>4. CASE YieldBegin \/ YieldWorkDone \/ YieldBlock \/ YieldEnd
  <2>1. CASE YieldBegin
    BY <2>1 DEF YieldBegin
  <2>2. CASE YieldWorkDone
    BY <2>2 DEF YieldWorkDone
  <2>3. CASE YieldBlock
    BY <2>3 DEF YieldBlock
  <2>4. CASE YieldEnd
    BY <2>4 DEF YieldEnd
  <2> QED BY <1>4, <2>1, <2>2, <2>3, <2>4
<1> QED BY <1>1, <1>2, <1>3, <1>4 DEF MainStep, LoopStep, ProcessStep, UpdateStep

LEMMA FlagsKept == ASSUME FlagsType, [Next]_vars PROVE FlagsType'
<1> USE DEF FlagsType, sleepv, yieldv
<1>1. CASE WorkerStep
  BY <1>1 DEF WorkerStep, WorkerBegin, WorkerPop, WorkerReply, WorkerThrow, WorkerDecline,
              WorkerCheck, WorkerWakes, WorkerFinish
<1>2. CASE IdleTimer \/ terminate \/ UNCHANGED vars
  BY <1>2 DEF IdleTimer, terminate, vars
<1>3. ASSUME NEW r \in Requests, ReqStep(r) \/ ReqLeave(r) PROVE FlagsType'
  <2>1. CASE ReqEnter(r)
    BY <2>1 DEF ReqEnter
  <2>2. CASE ReqPost(r)
    BY <2>2 DEF ReqPost
  <2>3. CASE ReqNext(r)
    BY <2>3 DEF ReqNext
  <2>4. CASE ~(ReqEnter(r) \/ ReqPost(r) \/ ReqNext(r))
    BY <1>3, <2>4 DEF ReqStep, ReqWakes, ReqCached, ReqList, ReqLeave, ReqUnlist, ReqPurge, ReqCancel
  <2> QED BY <2>1, <2>2, <2>3, <2>4
<1> QED BY <1>1, <1>2, <1>3, FlagsMainKept DEF Next

\* A thread is blocked only by itself, and notified by the others.
LEMMA BlockedKept == ASSUME BlockedType, [Next]_vars PROVE BlockedType'
<1>1. ASSUME NotifyOne \/ NotifyAll \/ UNCHANGED blocked PROVE BlockedType'
  BY <1>1 DEF NotifyOne, NotifyAll, BlockedType
<1> USE DEF Release, FailSlot
<1>2. CASE LoopStep
  <2>1. NotifyAll \/ UNCHANGED blocked \/ blocked' \subseteq blocked \cup {"main"}
    BY <1>2 DEF LoopStep, MainPop, MainDrained, MainStops, MainJoined, IdleBreak, IdleWait,
                IdleWakes, FallAsleep, SleepOn, WakeUp
  <2> QED BY <1>1, <2>1 DEF BlockedType
<1>3. CASE ProcessStep
  BY <1>1, <1>3 DEF ProcessStep, ProcessDefer, ProcessLaunch, ProcessRefuse, ProcessNoStream, UndoLaunch,
              ProcessReply, ProcessAudio, ProcessSlotAction, ProcessCancel, ProcessNext
<1>4. CASE UpdateStep
  BY <1>1, <1>4 DEF UpdateStep, UpdateIdle, UpdateBegin, SlotFail, UpdateThrow, PreDecodeDone,
              AudioWait, AudioEnd, AbortSlots, PromptDone, SlotFinish, PostDecodeDone
<1>5. CASE YieldBegin \/ YieldWorkDone \/ YieldBlock \/ YieldEnd
  <2>1. NotifyAll \/ UNCHANGED blocked \/ blocked' = blocked \cup {"main"}
    <3>1. CASE YieldBegin
      BY <3>1 DEF YieldBegin
    <3>2. CASE YieldWorkDone
      BY <3>2 DEF YieldWorkDone, YieldNotify
    <3>3. CASE YieldBlock
      BY <3>3 DEF YieldBlock
    <3>4. CASE YieldEnd
      BY <3>4 DEF YieldEnd
    <3> QED BY <1>5, <3>1, <3>2, <3>3, <3>4
  <2> QED BY <1>1, <2>1 DEF BlockedType
<1>6. CASE WorkerStep
  <2>1. NotifyAll \/ UNCHANGED blocked \/ blocked' = blocked \cup {"worker"}
    BY <1>6 DEF WorkerStep, WorkerBegin, WorkerPop, WorkerReply, WorkerThrow, WorkerDecline,
                WorkerCheck, WorkerWakes, WorkerFinish
  <2> QED BY <1>1, <2>1 DEF BlockedType
<1>7. CASE IdleTimer \/ terminate \/ UNCHANGED vars
  BY <1>1, <1>7 DEF IdleTimer, terminate, vars
<1>8. ASSUME NEW r \in Requests, ReqStep(r) \/ ReqLeave(r) PROVE BlockedType'
  <2>1. NotifyOne \/ UNCHANGED blocked \/ blocked' \subseteq blocked \cup {r}
    BY <1>8 DEF ReqStep, ReqEnter, ReqWakes, ReqCached, ReqList, ReqPost, ReqNext, ReqLeave,
                ReqUnlist, ReqPurge, ReqCancel
  <2> QED BY <1>1, <2>1 DEF BlockedType
<1> QED BY <1>2, <1>3, <1>4, <1>5, <1>6, <1>7, <1>8
      DEF Next, MainStep, LoopStep, ProcessStep, UpdateStep

-----------------------------------------------------------------------------
(* Where a task is.                                                        *)

LEMMA EntriesFacts ==
    /\ Entries \subseteq AllEntries /\ NoEntry \in Entries /\ NextEntry \in Entries
    /\ NoEntry = NextEntry
    /\ \A t \in Tasks : ParentOf[t] = None => TaskEntry(t) \in Entries
    /\ \A e \in Entries : e.type = "cancel" => e.id \in Tasks /\ req[Owner[e.id]] = "gone"
<1>1. Entries \subseteq AllEntries
  BY DEF Entries, AllEntries
<1>2. ASSUME NEW e \in Entries, e.type = "cancel" PROVE e.id \in Tasks /\ req[Owner[e.id]] = "gone"
  <2>1. \A t \in Tasks : TaskEntry(t).type # "cancel"
    BY TasksAssumption DEF TaskEntry, TaskTypes, InferTypes, SlotTypes, ReplyTypes, ReadTypes, ControlTypes
  <2>2. e \notin {TaskEntry(t) : t \in {x \in Tasks : ParentOf[x] = None}} /\ e # NextEntry
    BY <1>2, <2>1 DEF NextEntry
  <2>3. PICK t \in Tasks : req[Owner[t]] = "gone" /\ e = CancelEntry(t)
    BY <2>2 DEF Entries
  <2> QED BY <2>3 DEF CancelEntry
<1> QED BY <1>1, <1>2 DEF Entries, NoEntry, NextEntry

\* A request that is over stays over, so the entries remain legitimate.
LEMMA EntriesGrow ==
    ASSUME \A r \in Requests : req[r] = "gone" => req'[r] = "gone"
    PROVE  Entries \subseteq Entries'
<1>1. \A t \in Tasks : Owner[t] \in Requests
  BY TasksAssumption
<1> QED BY <1>1 DEF Entries

LEMMA CarrierFacts ==
    ASSUME NEW t \in Tasks
    PROVE  /\ Carrier(t) \in Tasks /\ ParentOf[Carrier(t)] = None
           /\ Owner[Carrier(t)] = Owner[t] /\ Owner[t] \in Requests
           /\ ParentOf[t] = None => Carrier(t) = t
           /\ Type[Carrier(t)] # "completion" => Carrier(t) = t
           /\ \A c \in Tasks : Carrier(t) = c <=> (t = c /\ ParentOf[c] = None) \/ t \in Children(c)
<1>1. /\ None \notin Tasks /\ ParentOf[t] \in Tasks \cup {None} /\ Owner[t] \in Requests
      /\ ParentOf[t] # None => /\ ParentOf[ParentOf[t]] = None /\ Owner[ParentOf[t]] = Owner[t]
                               /\ Type[ParentOf[t]] = "completion"
  BY TasksAssumption
<1>2. \A c \in Tasks : t \in Children(c) <=> ParentOf[t] = c
  BY DEF Children
<1>3. CASE ParentOf[t] = None
  BY <1>1, <1>2, <1>3 DEF Carrier
<1>4. CASE ParentOf[t] # None
  BY <1>1, <1>2, <1>4 DEF Carrier
<1> QED BY <1>3, <1>4

\* The terms of Total are natural numbers.
LEMMA TotalFacts ==
    ASSUME DequesType, ThreadsType, NEW t \in Tasks
    PROVE  /\ Count(queue_tasks, t) \in Nat /\ Count(queue_tasks_deferred, t) \in Nat
           /\ Count(queue_tasks_unhandled, t) \in Nat
           /\ Count(<<main.task>>, t) = IF main.task = TaskEntry(t) THEN 1 ELSE 0
           /\ Count(<<worker.task>>, t) = IF worker.task = TaskEntry(t) THEN 1 ELSE 0
           /\ Held(t) \in Nat
           /\ IsFiniteSet(Runs(t)) /\ Cardinality(Runs(t)) \in Nat
           /\ Cardinality(Runs(t)) = 0 <=> \A s \in Slots : slot[s].task # t
           /\ Done(t) \in {0, 1}
           /\ Done(t) = 1 <=> t \in answered \cup destroyed
<1>1. Entries \subseteq AllEntries
  BY EntriesFacts
<1>2. /\ Count(queue_tasks, t) \in Nat /\ Count(queue_tasks_deferred, t) \in Nat
      /\ Count(queue_tasks_unhandled, t) \in Nat
  BY <1>1, CountFacts DEF DequesType
<1>3. main.task \in AllEntries /\ worker.task \in AllEntries
  BY <1>1 DEF ThreadsType
<1>4. /\ Count(<<main.task>>, t) = IF main.task = TaskEntry(t) THEN 1 ELSE 0
      /\ Count(<<worker.task>>, t) = IF worker.task = TaskEntry(t) THEN 1 ELSE 0
  BY <1>3, CountOne
<1>5. Held(t) \in Nat
  BY <1>2, <1>4 DEF Held
<1>6. IsFiniteSet(Runs(t))
  BY TasksAssumption, FS_Subset DEF Runs
<1>7. Cardinality(Runs(t)) \in Nat /\ (Cardinality(Runs(t)) = 0 <=> Runs(t) = {})
  BY <1>6, FS_CardinalityType, FS_EmptySet
<1>8. Runs(t) = {} <=> \A s \in Slots : slot[s].task # t
  BY DEF Runs
<1> QED BY <1>2, <1>4, <1>5, <1>6, <1>7, <1>8 DEF Done

\* A step that leaves every task where it is, or removes tasks whose reader gave up.
LEMMA PlacesKept ==
    ASSUME PlacesInv, UNCHANGED req, \A r \in Requests : HasError(r) => HasError(r)',
           \A t \in Tasks : Total(t)' = Total(t) \/ (Total(t)' = 0 /\ Dead(Owner[t])'),
           \A s \in main'.undo : slot'[s].task # None /\ Dead(Owner[slot[s].task])'
    PROVE  PlacesInv'
<1>1. \A t \in Tasks : Owner[t] \in Requests
  BY TasksAssumption
<1>2. \A t \in Tasks : Total(t)' \in {0, 1}
  BY DEF PlacesInv
<1>3. \A t \in Tasks : req'[Owner[t]] \in Before => Total(t)' = 0
  BY DEF PlacesInv
<1>4. \A t \in Tasks : req'[Owner[t]] = "next" => Total(t)' = 1 \/ HasError(Owner[t])'
  BY <1>1 DEF PlacesInv, Dead, After
<1> QED BY <1>2, <1>3, <1>4 DEF PlacesInv

\* A step of a thread of the server that answers nothing and lets every task run
\* on where it runs.
LEMMA QuietKeeps ==
    ASSUME TaskInv, SleepInv', FlagsType', BlockedType',
           UNCHANGED <<req, received, waiting_task_ids, queue_results, answered, destroyed>>,
           ThreadsType', SlotType', DequesType', HandsInv',
           \A t \in Tasks : ParentOf[t] = None => Held(t)' = Held(t),
           \A t \in Tasks : Runs(t)' = Runs(t),
           main'.undo \subseteq main.undo
    PROVE  TaskInv'
<1>1. \A r : (HasError(r)' <=> HasError(r)) /\ (Dead(r)' <=> Dead(r))
  BY DEF HasError, Dead
<1>2. ASSUME NEW t \in Tasks PROVE Total(t)' = Total(t)
  <2>1. Carrier(t) \in Tasks /\ ParentOf[Carrier(t)] = None
    BY CarrierFacts
  <2>2. Held(Carrier(t))' = Held(Carrier(t))
    BY <2>1
  <2>3. Cardinality(Runs(t))' = Cardinality(Runs(t)) /\ Done(t)' = Done(t)
    BY DEF Done
  <2> QED BY <2>2, <2>3 DEF Total
<1>3. ASSUME NEW s \in main'.undo PROVE slot'[s].task # None /\ Dead(Owner[slot[s].task])'
  <2>1. s \in main.undo /\ s \in Slots /\ slot[s].task # None /\ Dead(Owner[slot[s].task])
    BY DEF TaskInv, PlacesInv, ServerType, ThreadsType
  <2>2. slot[s].task \in Tasks
    BY <2>1 DEF TaskInv, ServerType, SlotType
  <2>3. slot'[s].task = slot[s].task
    <3>1. s \in Runs(slot[s].task)
      BY <2>1 DEF Runs
    <3>2. PICK u \in Tasks : u = slot[s].task
      BY <2>2
    <3>3. s \in Runs(u)'
      BY <3>1, <3>2
    <3> QED BY <3>2, <3>3 DEF Runs
  <2> QED BY <1>1, <2>1, <2>3
<1>4. PlacesInv'
  BY <1>1, <1>2, <1>3, PlacesKept DEF TaskInv
<1>5. ReqType' /\ RespType' /\ ListInv' /\ ResultsDelivered'
  BY DEF TaskInv, ServerType, ReqType, RespType, ListInv, ResultsDelivered, has_next
<1> QED BY <1>4, <1>5 DEF TaskInv, ServerType

\* A step of main that moves nothing.
LEMMA MainQuiet ==
    ASSUME TaskInv, SleepInv', FlagsType', BlockedType',
           UNCHANGED <<deques, respv, reqv, worker, slot>>,
           ThreadsType', HandsInv', main'.task = main.task, main'.undo \subseteq main.undo
    PROVE  TaskInv'
<1> USE DEF deques, respv, reqv
<1>1. Entries' = Entries
  BY DEF Entries
<1>2. SlotType' /\ DequesType'
  BY <1>1 DEF TaskInv, ServerType, SlotType, DequesType, is_processing
<1>3. \A t \in Tasks : Held(t)' = Held(t) /\ Runs(t)' = Runs(t)
  BY DEF Held, Runs, Count
<1> QED BY <1>2, <1>3, QuietKeeps

LEMMA LoopQuiet ==
    ASSUME TaskInv, SleepInv', FlagsType', BlockedType',
           \/ MainDrained \/ MainStops \/ MainJoined \/ IdleBreak \/ IdleWait \/ IdleWakes
           \/ FallAsleep \/ SleepOn
    PROVE  TaskInv'
<1>1. UNCHANGED <<deques, respv, reqv, worker, slot>>
  BY DEF MainDrained, MainStops, MainJoined, IdleBreak, IdleWait, IdleWakes, FallAsleep, SleepOn
<1>2. Entries' = Entries
  BY <1>1 DEF Entries, reqv
<1>3. ThreadsType /\ HandsInv
  BY DEF TaskInv, ServerType
<1> SUFFICES ThreadsType' /\ HandsInv' /\ main'.task = main.task /\ main'.undo \subseteq main.undo
  BY <1>1, MainQuiet
<1> USE DEF ThreadsType, HandsInv, MainPcs, MainTo, sleepv
<1>4. CASE MainDrained
  BY <1>1, <1>2, <1>3, <1>4 DEF MainDrained
<1>5. CASE MainStops
  BY <1>1, <1>2, <1>3, <1>5 DEF MainStops
<1>6. CASE MainJoined
  BY <1>1, <1>2, <1>3, <1>6 DEF MainJoined
<1>7. CASE IdleBreak
  BY <1>1, <1>2, <1>3, <1>7 DEF IdleBreak
<1>8. CASE IdleWait
  BY <1>1, <1>2, <1>3, <1>8 DEF IdleWait
<1>9. CASE IdleWakes
  BY <1>1, <1>2, <1>3, <1>9 DEF IdleWakes
<1>10. CASE FallAsleep
  BY <1>1, <1>2, <1>3, <1>10 DEF FallAsleep
<1>11. CASE SleepOn
  BY <1>1, <1>2, <1>3, <1>11 DEF SleepOn
<1> QED BY <1>4, <1>5, <1>6, <1>7, <1>8, <1>9, <1>10, <1>11

\* update_slots returns with its counters reset.
LEMMA UpdateOverQuiet ==
    ASSUME ThreadsType, HandsInv, main' = UpdateOver, main.ret = "ok",
           main.pc \notin {"task", "undo", "sleep"},
           UNCHANGED <<worker, reqv>>
    PROVE  /\ ThreadsType' /\ HandsInv' /\ main'.task = main.task /\ main'.undo = main.undo
<1>1. /\ main.task \in Entries /\ main.undo \in SUBSET Slots
      /\ main = [pc |-> main.pc, task |-> main.task, ret |-> main.ret,
                 tries |-> main.tries, rest |-> main.rest, undo |-> main.undo]
  BY DEF ThreadsType
<1>2. main' = [pc |-> "idle", task |-> main.task, ret |-> "ok", tries |-> 0, rest |-> FALSE,
               undo |-> main.undo]
  BY <1>1 DEF UpdateOver
<1>3. 0 \in 0 .. MaxRetries /\ Entries' = Entries
  BY ServerAssumption DEF Entries, reqv
<1>4. ThreadsType'
  BY <1>1, <1>2, <1>3 DEF ThreadsType, MainPcs
<1>5. HandsInv'
  BY <1>2 DEF HandsInv
<1> QED BY <1>2, <1>4, <1>5

LEMMA UpdateQuiet ==
    ASSUME TaskInv, SleepInv', FlagsType', BlockedType',
           \/ UpdateIdle \/ UpdateThrow \/ PreDecodeDone \/ PostDecodeDone
           \/ YieldBegin \/ YieldWorkDone \/ YieldBlock \/ ProcessNext
    PROVE  TaskInv'
<1>1. UNCHANGED <<deques, respv, reqv, worker, slot, sleeping>>
  <2>1. CASE YieldWorkDone
    BY <2>1 DEF YieldWorkDone, sleepv
  <2>2. CASE PostDecodeDone
    BY <2>2 DEF PostDecodeDone, sleepv
  <2>3. CASE ~(YieldWorkDone \/ PostDecodeDone)
    BY <2>3 DEF UpdateIdle, UpdateThrow, PreDecodeDone, YieldBegin, YieldBlock, ProcessNext, sleepv
  <2> QED BY <2>1, <2>2, <2>3
<1>2. Entries' = Entries
  BY <1>1 DEF Entries, reqv
<1>3. ThreadsType /\ HandsInv /\ Entries \subseteq AllEntries /\ NoEntry = NextEntry
  BY EntriesFacts DEF TaskInv, ServerType
<1> SUFFICES ThreadsType' /\ HandsInv' /\ main'.task = main.task /\ main'.undo \subseteq main.undo
  BY <1>1, MainQuiet
<1>4. MaxRetries \in Nat
  BY ServerAssumption
<1> USE DEF ThreadsType, HandsInv, MainPcs, MainTo
<1>5. CASE UpdateIdle
  BY <1>1, <1>2, <1>3, <1>5 DEF UpdateIdle
<1>6. CASE UpdateThrow
  BY <1>1, <1>2, <1>3, <1>6 DEF UpdateThrow
<1>7. CASE PreDecodeDone
  BY <1>1, <1>2, <1>3, <1>7 DEF PreDecodeDone
<1>8. CASE PostDecodeDone
  <2>1. main.pc = "post_decode" /\ main.ret = "ok"
    BY <1>3, <1>8 DEF PostDecodeDone
  <2>2. CASE main' = [main EXCEPT !.pc = "decode", !.rest = FALSE]
    BY <1>1, <1>2, <1>3, <2>1, <2>2
  <2>3. CASE main' = UpdateOver
    BY <1>1, <1>3, <2>1, <2>3, UpdateOverQuiet
  <2> QED BY <1>8, <2>2, <2>3 DEF PostDecodeDone
<1>9. CASE YieldBegin
  BY <1>1, <1>2, <1>3, <1>9 DEF YieldBegin
<1>10. CASE YieldWorkDone
  <2>1. PICK ret \in {"ok"} \cup DecodeErrs :
            (ret = "retry" => MayRetry) /\ main' = [main EXCEPT !.pc = "join", !.ret = ret]
    BY <1>10 DEF YieldWorkDone
  <2>2. main.pc = "work"
    BY <1>10 DEF YieldWorkDone
  <2> QED BY <1>1, <1>2, <1>3, <2>1, <2>2 DEF MayRetry
<1>11. CASE YieldBlock
  BY <1>1, <1>2, <1>3, <1>11 DEF YieldBlock
<1>12. CASE ProcessNext
  <2>1. main.task = NextEntry
    BY <1>3, <1>12, EntryFacts DEF ProcessNext
  <2> QED BY <1>1, <1>2, <1>3, <1>12, <2>1 DEF ProcessNext, TaskDone
<1> QED BY <1>5, <1>6, <1>7, <1>8, <1>9, <1>10, <1>11, <1>12

\* The timer, terminate, and the steps of the worker that take no task.
LEMMA OthersQuiet ==
    ASSUME TaskInv, SleepInv', FlagsType', BlockedType',
           \/ IdleTimer \/ terminate \/ UNCHANGED vars
           \/ WorkerBegin \/ WorkerCheck \/ WorkerWakes \/ WorkerFinish
    PROVE  TaskInv'
<1>1. UNCHANGED <<deques, respv, reqv, main, slot, sleeping>>
  BY DEF IdleTimer, terminate, vars, WorkerBegin, WorkerCheck, WorkerWakes, WorkerFinish, sleepv
<1>2. Entries' = Entries
  BY <1>1 DEF Entries, reqv
<1>3. ThreadsType /\ HandsInv /\ SlotType /\ DequesType
  BY DEF TaskInv, ServerType
<1>4. /\ worker' \in [pc : WorkerPcs, task : Entries] /\ worker'.task = worker.task
      /\ worker'.pc # "task" => worker'.task = NoEntry
  <2> USE DEF ThreadsType, HandsInv, WorkerPcs, WorkerTo
  <2>1. CASE IdleTimer \/ terminate \/ UNCHANGED vars
    BY <1>3, <2>1 DEF IdleTimer, terminate, vars
  <2>2. CASE WorkerBegin
    BY <1>3, <2>2 DEF WorkerBegin
  <2>3. CASE WorkerCheck
    BY <1>3, <2>3 DEF WorkerCheck
  <2>4. CASE WorkerWakes
    BY <1>3, <2>4 DEF WorkerWakes
  <2>5. CASE WorkerFinish
    BY <1>3, <2>5 DEF WorkerFinish
  <2> QED BY <2>1, <2>2, <2>3, <2>4, <2>5
<1>5. ThreadsType' /\ HandsInv'
  BY <1>1, <1>2, <1>3, <1>4 DEF ThreadsType, HandsInv
<1>6. SlotType' /\ DequesType'
  BY <1>1, <1>2, <1>3 DEF SlotType, DequesType, is_processing, deques
<1>7. \A t \in Tasks : Held(t)' = Held(t) /\ Runs(t)' = Runs(t)
  BY <1>1, <1>4 DEF Held, Runs, Count, deques
<1> QED BY <1>1, <1>5, <1>6, <1>7, QuietKeeps DEF respv, reqv

\* The prompt of a slot is done, or its stream needs more audio: no slot changes
\* its task.
LEMMA SlotsQuiet ==
    ASSUME TaskInv, SleepInv', FlagsType', BlockedType',
           (\E s \in Slots : PromptDone(s)) \/ (\E s \in Slots : AudioWait(s))
    PROVE  TaskInv'
<1>1. UNCHANGED <<deques, respv, reqv, worker, main, sleeping>>
  BY DEF PromptDone, AudioWait, sleepv
<1>2. Entries' = Entries
  BY <1>1 DEF Entries, reqv
<1>3. ThreadsType /\ HandsInv /\ SlotType /\ DequesType
  BY DEF TaskInv, ServerType
<1>4. ThreadsType' /\ HandsInv'
  BY <1>1, <1>2, <1>3 DEF ThreadsType, HandsInv
<1>5. SlotType' /\ \A x \in Slots : slot'[x].task = slot[x].task
  <2> USE DEF SlotType, SlotStates, is_processing
  <2>1. CASE \E s \in Slots : PromptDone(s)
    BY <1>3, <2>1 DEF PromptDone
  <2>2. CASE \E s \in Slots : AudioWait(s)
    BY <1>3, <2>2 DEF AudioWait, Realtime
  <2> QED BY <2>1, <2>2
<1>6. DequesType'
  BY <1>1, <1>2, <1>3 DEF DequesType, deques
<1>7. \A t \in Tasks : Held(t)' = Held(t) /\ Runs(t)' = Runs(t)
  BY <1>1, <1>5 DEF Held, Runs, Count, deques
<1> QED BY <1>1, <1>4, <1>5, <1>6, <1>7, QuietKeeps DEF respv, reqv

\* The model is loaded again: what the realtime slots ran is destroyed with them.
LEMMA WakeUpKeeps ==
    ASSUME TaskInv, SleepInv', FlagsType', BlockedType', WakeUp
    PROVE  TaskInv'
<1>1. UNCHANGED <<deques, worker, req, received, waiting_task_ids, queue_results, answered>>
  BY DEF WakeUp, reqv
<1>2. Entries' = Entries
  BY <1>1 DEF Entries
<1>3. ThreadsType /\ HandsInv /\ SlotType /\ DequesType /\ RespType /\ ReqType /\ ListInv
      /\ PlacesInv /\ ResultsDelivered
  BY DEF TaskInv, ServerType
<1>4. main.pc = "sleep" /\ main' = [main EXCEPT !.pc = "process"]
  BY DEF WakeUp, MainTo
<1>5. ThreadsType' /\ HandsInv' /\ main'.task = main.task /\ main'.undo = {}
  BY <1>1, <1>2, <1>3, <1>4 DEF ThreadsType, HandsInv, MainPcs
<1>6. CASE UNCHANGED <<slot, destroyed>>
  BY <1>1, <1>5, <1>6, MainQuiet DEF respv, reqv
<1>7. CASE /\ slot' = [s \in Slots |-> IdleSlot]
           /\ destroyed' = destroyed \cup {slot[s].task : s \in Slots \ IdleSlots}
  <2>1. SlotType'
    BY <1>7 DEF SlotType, SlotStates, is_processing, IdleSlot
  <2>2. DequesType'
    BY <1>1, <1>2, <1>3 DEF DequesType, deques
  <2>3. \A s \in Slots \ IdleSlots : slot[s].task \in Tasks
    BY <1>3 DEF SlotType, IdleSlots
  <2>4. RespType' /\ ReqType' /\ ListInv' /\ ResultsDelivered'
    BY <1>1, <1>3, <1>7, <2>3 DEF RespType, ReqType, ListInv, ResultsDelivered, has_next
  <2>5. \A r : (HasError(r)' <=> HasError(r)) /\ (Dead(r)' <=> Dead(r))
    BY <1>1 DEF HasError, Dead
  <2>6. ASSUME NEW t \in Tasks PROVE Total(t)' = Total(t)
    <3>1. Carrier(t) \in Tasks
      BY CarrierFacts
    <3>2. Held(Carrier(t)) \in Nat /\ Held(Carrier(t))' = Held(Carrier(t))
      BY <1>1, <1>3, <1>5, <3>1, TotalFacts DEF Held, Count, deques
    <3>3. /\ Cardinality(Runs(t)) \in Nat /\ Done(t) \in {0, 1}
          /\ Cardinality(Runs(t)) = 0 <=> \A s \in Slots : slot[s].task # t
          /\ Done(t) = 1 <=> t \in answered \cup destroyed
      BY <1>3, TotalFacts
    <3>4. Total(t) \in {0, 1}
      BY <1>3 DEF PlacesInv
    <3>5. Runs(t)' = {} /\ Cardinality({}) = 0
      BY <1>7, FS_EmptySet, TasksAssumption DEF Runs, IdleSlot
    <3>6. t \in {slot[s].task : s \in Slots \ IdleSlots} <=> \E s \in Slots : slot[s].task = t
      BY <1>3, TasksAssumption DEF SlotType, IdleSlots
    <3>7. Done(t)' = IF t \in answered \cup destroyed \/ \E s \in Slots : slot[s].task = t
                     THEN 1 ELSE 0
      BY <1>1, <1>7, <3>6 DEF Done
    <3>8. Total(t)' = Held(Carrier(t)) + 0 + Done(t)'
      BY <3>2, <3>5 DEF Total
    <3> QED BY <3>2, <3>3, <3>4, <3>7, <3>8 DEF Total
  <2>7. PlacesInv'
    BY <1>1, <1>3, <1>5, <2>5, <2>6, PlacesKept
  <2> QED BY <1>5, <2>1, <2>2, <2>4, <2>7 DEF TaskInv, ServerType
<1> QED BY <1>6, <1>7 DEF WakeUp

-----------------------------------------------------------------------------
(* Entries that change hands.                                              *)

\* What the proofs about one step start from.
LEMMA Unpack ==
    ASSUME TaskInv
    PROVE  /\ ThreadsType /\ HandsInv /\ SlotType /\ DequesType /\ RespType /\ ReqType
           /\ ListInv /\ PlacesInv /\ ResultsDelivered
           /\ Entries \in SUBSET AllEntries /\ NoEntry \in Entries /\ NextEntry \in Entries
           /\ main.task \in Entries /\ worker.task \in Entries
BY EntriesFacts DEF TaskInv, ServerType, ThreadsType

\* No entry is NoEntry's: it stands for no task.
LEMMA NoEntryCounts == ASSUME NEW t \in Tasks PROVE Count(<<NoEntry>>, t) = 0
<1>1. NoEntry \in AllEntries
  BY EntriesFacts
<1>2. NoEntry # TaskEntry(t)
  BY TasksAssumption DEF NoEntry, TaskEntry, TaskTypes, InferTypes, SlotTypes, ReplyTypes, ReadTypes, ControlTypes
<1> QED BY <1>1, <1>2, CountOne

LEMMA MainPopKeeps ==
    ASSUME TaskInv, SleepInv', FlagsType', BlockedType', MainPop PROVE TaskInv'
<1>1. /\ main.pc = "process" /\ queue_tasks # <<>>
      /\ main' = [main EXCEPT !.pc = "task", !.task = Head(queue_tasks)]
      /\ queue_tasks' = Tail(queue_tasks)
      /\ UNCHANGED <<queue_tasks_deferred, queue_tasks_unhandled, respv, reqv, worker, slot, sleeping>>
  BY DEF MainPop, sleepv
<1>2. Entries' = Entries
  BY <1>1 DEF Entries, reqv
<1>3. Head(queue_tasks) \in Entries /\ Tail(queue_tasks) \in Seq(Entries)
  BY <1>1, Unpack DEF DequesType
<1>4. DequesType' /\ SlotType'
  BY <1>1, <1>2, <1>3, Unpack DEF DequesType, SlotType, is_processing
<1>5. /\ main = [pc |-> main.pc, task |-> main.task, ret |-> main.ret,
                 tries |-> main.tries, rest |-> main.rest, undo |-> main.undo]
      /\ main.task = NoEntry
  BY <1>1, Unpack DEF ThreadsType, HandsInv
<1>6. main' = [pc |-> "task", task |-> Head(queue_tasks), ret |-> main.ret,
               tries |-> main.tries, rest |-> main.rest, undo |-> main.undo]
  BY <1>1, <1>5
<1>7. ThreadsType' /\ HandsInv'
  BY <1>1, <1>2, <1>3, <1>6, Unpack DEF ThreadsType, HandsInv, MainPcs
<1>8. ASSUME NEW t \in Tasks PROVE Held(t)' = Held(t)
  <2>1. Count(queue_tasks, t) = Count(queue_tasks', t) + Count(<<main'.task>>, t)
    BY <1>1, <1>6, Unpack, CountFacts DEF DequesType
  <2>2. /\ Count(queue_tasks', t) \in Nat /\ Count(queue_tasks_deferred, t) \in Nat
        /\ Count(queue_tasks_unhandled, t) \in Nat
    BY <1>1, <1>3, Unpack, CountFacts DEF DequesType
  <2>3. Count(<<main.task>>, t) = 0
    BY <1>5, NoEntryCounts
  <2>4. Count(<<main'.task>>, t) \in Nat /\ Count(<<worker.task>>, t) \in Nat
    BY <1>3, <1>6, Unpack, CountOne
  <2>5. Held(t)' = Count(queue_tasks', t) + Count(queue_tasks_deferred, t)
                   + Count(queue_tasks_unhandled, t) + Count(<<main'.task>>, t) + Count(<<worker.task>>, t)
    BY <1>1 DEF Held, Count
  <2> QED BY <2>1, <2>2, <2>3, <2>4, <2>5 DEF Held
<1>9. \A t \in Tasks : Runs(t)' = Runs(t)
  BY <1>1 DEF Runs
<1>10. main'.undo \subseteq main.undo
  BY <1>6
<1> QED BY <1>1, <1>4, <1>7, <1>8, <1>9, <1>10, QuietKeeps DEF respv, reqv

\* defer: from the hand of main to the deferred queue.
LEMMA DeferKeeps ==
    ASSUME TaskInv, SleepInv', FlagsType', BlockedType', ProcessDefer PROVE TaskInv'
<1>1. /\ main.pc = "task"
      /\ main' = [main EXCEPT !.pc = "process", !.task = NoEntry, !.undo = {}]
      /\ queue_tasks_deferred' = Append(queue_tasks_deferred, main.task)
      /\ UNCHANGED <<queue_tasks, queue_tasks_unhandled, respv, reqv, worker, slot, sleeping>>
  BY DEF ProcessDefer, TaskDone, sleepv
<1>2. Entries' = Entries
  BY <1>1 DEF Entries, reqv
<1>3. queue_tasks_deferred' \in Seq(Entries)
  BY <1>1, Unpack DEF DequesType
<1>4. DequesType' /\ SlotType'
  BY <1>1, <1>2, <1>3, Unpack DEF DequesType, SlotType, is_processing
<1>5. main = [pc |-> main.pc, task |-> main.task, ret |-> main.ret,
              tries |-> main.tries, rest |-> main.rest, undo |-> main.undo]
  BY Unpack DEF ThreadsType
<1>6. main' = [pc |-> "process", task |-> NoEntry, ret |-> main.ret,
               tries |-> main.tries, rest |-> main.rest, undo |-> {}]
  BY <1>1, <1>5
<1>7. ThreadsType' /\ HandsInv'
  BY <1>1, <1>2, <1>6, Unpack DEF ThreadsType, HandsInv, MainPcs
<1>8. ASSUME NEW t \in Tasks PROVE Held(t)' = Held(t)
  <2>1. Count(queue_tasks_deferred', t) = Count(queue_tasks_deferred, t) + Count(<<main.task>>, t)
    BY <1>1, Unpack, CountFacts DEF DequesType
  <2>2. /\ Count(queue_tasks, t) \in Nat /\ Count(queue_tasks_deferred, t) \in Nat
        /\ Count(queue_tasks_unhandled, t) \in Nat
    BY Unpack, CountFacts DEF DequesType
  <2>3. Count(<<main'.task>>, t) = 0
    BY <1>6, NoEntryCounts
  <2>4. Count(<<main.task>>, t) \in Nat /\ Count(<<worker.task>>, t) \in Nat
    BY Unpack, CountOne
  <2>5. Held(t)' = Count(queue_tasks, t) + Count(queue_tasks_deferred', t)
                   + Count(queue_tasks_unhandled, t) + Count(<<main'.task>>, t) + Count(<<worker.task>>, t)
    BY <1>1 DEF Held, Count
  <2> QED BY <2>1, <2>2, <2>3, <2>4, <2>5 DEF Held
<1>9. \A t \in Tasks : Runs(t)' = Runs(t)
  BY <1>1 DEF Runs
<1>10. main'.undo \subseteq main.undo
  BY <1>6
<1> QED BY <1>1, <1>4, <1>7, <1>8, <1>9, <1>10, QuietKeeps DEF respv, reqv

\* A NEXT_RESPONSE is posted: it is no task.
LEMMA UpdateBeginKeeps ==
    ASSUME TaskInv, SleepInv', FlagsType', BlockedType', UpdateBegin PROVE TaskInv'
<1>1. /\ main.pc = "update" /\ main' = [main EXCEPT !.pc = "pre_decode"]
      /\ queue_tasks' = Append(queue_tasks, NextEntry)
      /\ UNCHANGED <<queue_tasks_deferred, queue_tasks_unhandled, respv, reqv, worker, slot, sleeping>>
  BY DEF UpdateBegin, WithNext, MainTo, sleepv
<1>2. Entries' = Entries
  BY <1>1 DEF Entries, reqv
<1>3. queue_tasks' \in Seq(Entries)
  BY <1>1, Unpack DEF DequesType
<1>4. DequesType' /\ SlotType'
  BY <1>1, <1>2, <1>3, Unpack DEF DequesType, SlotType, is_processing
<1>5. ThreadsType' /\ HandsInv' /\ main'.task = main.task /\ main'.undo \subseteq main.undo
  BY <1>1, <1>2, Unpack DEF ThreadsType, HandsInv, MainPcs
<1>6. ASSUME NEW t \in Tasks PROVE Held(t)' = Held(t)
  <2>1. Count(queue_tasks', t) = Count(queue_tasks, t) + Count(<<NextEntry>>, t)
    BY <1>1, Unpack, CountFacts DEF DequesType
  <2>2. Count(<<NextEntry>>, t) = 0 /\ Count(queue_tasks, t) \in Nat
    BY NoEntryCounts, EntriesFacts, Unpack, CountFacts DEF DequesType
  <2>3. Count(queue_tasks', t) = Count(queue_tasks, t)
    BY <2>1, <2>2
  <2> QED BY <1>1, <1>5, <2>3 DEF Held, Count
<1>7. \A t \in Tasks : Runs(t)' = Runs(t)
  BY <1>1 DEF Runs
<1> QED BY <1>1, <1>4, <1>5, <1>6, <1>7, QuietKeeps DEF respv, reqv

\* The end of a yield: declined tasks go back to the queue.
LEMMA YieldEndKeeps ==
    ASSUME TaskInv, SleepInv', FlagsType', BlockedType', YieldEnd PROVE TaskInv'
<1>1. /\ main.pc = "join"
      /\ queue_tasks' = queue_tasks_unhandled \o queue_tasks
      /\ queue_tasks_unhandled' = <<>>
      /\ UNCHANGED <<queue_tasks_deferred, respv, reqv, worker, slot, sleeping>>
  BY DEF YieldEnd, PutBack, sleepv
<1>2. Entries' = Entries
  BY <1>1 DEF Entries, reqv
<1>3. queue_tasks' \in Seq(Entries) /\ <<>> \in Seq(Entries)
  BY <1>1, Unpack DEF DequesType
<1>4. DequesType' /\ SlotType'
  BY <1>1, <1>2, <1>3, Unpack DEF DequesType, SlotType, is_processing
<1> DEFINE again == main.ret = "retry"
<1>5. /\ main = [pc |-> main.pc, task |-> main.task, ret |-> main.ret,
                 tries |-> main.tries, rest |-> main.rest, undo |-> main.undo]
      /\ main.tries \in 0 .. MaxRetries /\ (again => main.tries < MaxRetries)
      /\ main.rest \in BOOLEAN /\ main.task = NoEntry /\ main.undo = {}
  BY <1>1, Unpack DEF ThreadsType, HandsInv
<1>6. \E p \in {"abort", "decode", "post_decode"} :
        main' = [pc |-> p, task |-> main.task, ret |-> "ok",
                 tries |-> IF again THEN main.tries + 1 ELSE main.tries,
                 rest |-> main.rest \/ again, undo |-> main.undo]
  BY <1>5 DEF YieldEnd
<1>7. /\ main'.pc \in {"abort", "decode", "post_decode"} /\ main'.task = main.task
      /\ main'.undo = main.undo /\ main'.ret = "ok"
      /\ main'.tries = (IF again THEN main.tries + 1 ELSE main.tries)
      /\ main'.rest = (main.rest \/ again)
      /\ main' = [pc |-> main'.pc, task |-> main'.task, ret |-> main'.ret,
                  tries |-> main'.tries, rest |-> main'.rest, undo |-> main'.undo]
  BY <1>6
<1>8. main'.tries \in 0 .. MaxRetries
  BY <1>5, <1>7, ServerAssumption
<1>9. main'.rest \in BOOLEAN
  BY <1>7, Zenon
<1>10. ThreadsType' /\ HandsInv'
  <2>1. main'.task \in Entries /\ main'.undo \in SUBSET Slots
    BY <1>7, Unpack DEF ThreadsType
  <2>2. main'.pc \in MainPcs
    BY <1>7 DEF MainPcs
  <2>3. ThreadsType'
    BY <1>1, <1>2, <1>7, <1>8, <1>9, <2>1, <2>2, Unpack DEF ThreadsType
  <2>4. HandsInv'
    BY <1>1, <1>5, <1>7, Unpack DEF HandsInv
  <2> QED BY <2>3, <2>4
<1>11. ASSUME NEW t \in Tasks PROVE Held(t)' = Held(t)
  <2>1. Count(queue_tasks', t) = Count(queue_tasks_unhandled, t) + Count(queue_tasks, t)
    BY <1>1, Unpack, CountFacts DEF DequesType
  <2>2. /\ Count(queue_tasks, t) \in Nat /\ Count(queue_tasks_deferred, t) \in Nat
        /\ Count(queue_tasks_unhandled, t) \in Nat
    BY Unpack, CountFacts DEF DequesType
  <2>3. Count(<<>>, t) = 0
    BY FS_EmptySet DEF Count
  <2>4. Count(<<main.task>>, t) \in Nat /\ Count(<<worker.task>>, t) \in Nat
    BY Unpack, CountOne
  <2>5. Held(t)' = Count(queue_tasks', t) + Count(queue_tasks_deferred, t)
                   + Count(<<>>, t) + Count(<<main.task>>, t) + Count(<<worker.task>>, t)
    BY <1>1, <1>7 DEF Held, Count
  <2> QED BY <2>1, <2>2, <2>3, <2>4, <2>5 DEF Held
<1>12. \A t \in Tasks : Runs(t)' = Runs(t)
  BY <1>1 DEF Runs
<1>13. main'.undo \subseteq main.undo
  BY <1>7
<1> QED BY <1>1, <1>4, <1>10, <1>11, <1>12, <1>13, QuietKeeps DEF respv, reqv

\* The worker takes the first task.
LEMMA WorkerPopKeeps ==
    ASSUME TaskInv, SleepInv', FlagsType', BlockedType', WorkerPop PROVE TaskInv'
<1>1. /\ worker.pc = "process"
      /\ UNCHANGED <<queue_tasks_deferred, queue_tasks_unhandled, respv, reqv, main, slot, sleeping>>
  BY DEF WorkerPop, sleepv
<1>2. Entries' = Entries
  BY <1>1 DEF Entries, reqv
<1>3. SlotType' /\ \A t \in Tasks : Runs(t)' = Runs(t)
  BY <1>1, Unpack DEF SlotType, is_processing, Runs
<1>4. worker.task = NoEntry
  BY <1>1, Unpack DEF HandsInv
<1>5. CASE running /\ queue_tasks # <<>>
  <2>1. worker' = [pc |-> "task", task |-> Head(queue_tasks)] /\ queue_tasks' = Tail(queue_tasks)
    BY <1>5 DEF WorkerPop
  <2>2. Head(queue_tasks) \in Entries /\ Tail(queue_tasks) \in Seq(Entries)
    BY <1>5, Unpack DEF DequesType
  <2>3. DequesType'
    BY <1>1, <1>2, <2>1, <2>2, Unpack DEF DequesType
  <2>4. ThreadsType' /\ HandsInv'
    BY <1>1, <1>2, <2>1, <2>2, Unpack DEF ThreadsType, HandsInv, WorkerPcs
  <2>5. ASSUME NEW t \in Tasks PROVE Held(t)' = Held(t)
    <3>1. Count(queue_tasks, t) = Count(queue_tasks', t) + Count(<<worker'.task>>, t)
      BY <1>5, <2>1, Unpack, CountFacts DEF DequesType
    <3>2. /\ Count(queue_tasks', t) \in Nat /\ Count(queue_tasks_deferred, t) \in Nat
          /\ Count(queue_tasks_unhandled, t) \in Nat
      BY <2>1, <2>2, Unpack, CountFacts DEF DequesType
    <3>3. Count(<<worker.task>>, t) = 0
      BY <1>4, NoEntryCounts
    <3>4. Count(<<worker'.task>>, t) \in Nat /\ Count(<<main.task>>, t) \in Nat
      BY <2>1, <2>2, Unpack, CountOne
    <3>5. Held(t)' = Count(queue_tasks', t) + Count(queue_tasks_deferred, t)
                     + Count(queue_tasks_unhandled, t) + Count(<<main.task>>, t) + Count(<<worker'.task>>, t)
      BY <1>1 DEF Held, Count
    <3> QED BY <3>1, <3>2, <3>3, <3>4, <3>5 DEF Held
  <2> QED BY <1>1, <1>3, <2>3, <2>4, <2>5, QuietKeeps DEF respv, reqv
<1>6. CASE ~(running /\ queue_tasks # <<>>)
  <2>1. UNCHANGED queue_tasks /\ \E p \in {"check", "finish"} : worker' = [worker EXCEPT !.pc = p]
    BY <1>6 DEF WorkerPop, WorkerTo
  <2>2. DequesType'
    BY <1>1, <1>2, <2>1, Unpack DEF DequesType
  <2>3. ThreadsType' /\ HandsInv' /\ worker'.task = worker.task
    BY <1>1, <1>2, <1>4, <2>1, Unpack DEF ThreadsType, HandsInv, WorkerPcs
  <2>4. \A t \in Tasks : Held(t)' = Held(t)
    BY <1>1, <2>1, <2>3 DEF Held, Count
  <2> QED BY <1>1, <1>3, <2>2, <2>3, <2>4, QuietKeeps DEF respv, reqv
<1> QED BY <1>5, <1>6

\* The worker puts a task aside that it may not serve.
LEMMA DeclineKeeps ==
    ASSUME TaskInv, SleepInv', FlagsType', BlockedType', WorkerDecline PROVE TaskInv'
<1>1. /\ worker.pc = "task" /\ worker' = [pc |-> "process", task |-> NoEntry]
      /\ queue_tasks_unhandled' = Append(queue_tasks_unhandled, worker.task)
      /\ UNCHANGED <<queue_tasks, queue_tasks_deferred, respv, reqv, main, slot, sleeping>>
  BY DEF WorkerDecline, sleepv
<1>2. Entries' = Entries
  BY <1>1 DEF Entries, reqv
<1>3. queue_tasks_unhandled' \in Seq(Entries)
  BY <1>1, Unpack DEF DequesType
<1>4. DequesType' /\ SlotType'
  BY <1>1, <1>2, <1>3, Unpack DEF DequesType, SlotType, is_processing
<1>5. ThreadsType' /\ HandsInv'
  BY <1>1, <1>2, Unpack DEF ThreadsType, HandsInv, WorkerPcs
<1>6. ASSUME NEW t \in Tasks PROVE Held(t)' = Held(t)
  <2>1. Count(queue_tasks_unhandled', t) = Count(queue_tasks_unhandled, t) + Count(<<worker.task>>, t)
    BY <1>1, Unpack, CountFacts DEF DequesType
  <2>2. /\ Count(queue_tasks, t) \in Nat /\ Count(queue_tasks_deferred, t) \in Nat
        /\ Count(queue_tasks_unhandled, t) \in Nat
    BY Unpack, CountFacts DEF DequesType
  <2>3. Count(<<worker'.task>>, t) = 0
    BY <1>1, NoEntryCounts
  <2>4. Count(<<main.task>>, t) \in Nat /\ Count(<<worker.task>>, t) \in Nat
    BY Unpack, CountOne
  <2>5. Held(t)' = Count(queue_tasks, t) + Count(queue_tasks_deferred, t)
                   + Count(queue_tasks_unhandled', t) + Count(<<main.task>>, t) + Count(<<worker'.task>>, t)
    BY <1>1 DEF Held, Count
  <2> QED BY <2>1, <2>2, <2>3, <2>4, <2>5 DEF Held
<1>7. \A t \in Tasks : Runs(t)' = Runs(t)
  BY <1>1 DEF Runs
<1> QED BY <1>1, <1>4, <1>5, <1>6, <1>7, QuietKeeps DEF respv, reqv

-----------------------------------------------------------------------------
(* Results.                                                                *)

ForReader(r) == {x \in Result : x.id \in TaskIds(r)}

LEMMA ResultCount ==
    ASSUME NEW q \in Seq(Result), NEW r
    PROVE  Cardinality({i \in DOMAIN q : q[i].id \in TaskIds(r)}) = Hits(q, ForReader(r))
<1>1. \A i \in DOMAIN q : q[i] \in Result
  OBVIOUS
<1>2. {i \in DOMAIN q : q[i].id \in TaskIds(r)} = PlacesOf(q, ForReader(r))
  BY <1>1 DEF PlacesOf, ForReader
<1> QED BY <1>2 DEF Hits

\* A result is made once for each task: it reaches the list of its reader, and an
\* error tells the reader to give up.
LEMMA SendFacts ==
    ASSUME TaskInv, NEW t \in Tasks, t \notin answered, NEW err \in BOOLEAN, Send(t, err),
           UNCHANGED <<req, received>>
    PROVE  /\ RespType' /\ ReqType' /\ ListInv' /\ ResultsDelivered'
           /\ \A r \in Requests : HasError(r) => HasError(r)'
           /\ err /\ req[Owner[t]] \notin Before => Dead(Owner[t])'
           /\ answered' = answered \cup {t} /\ UNCHANGED destroyed
<1> DEFINE x == [id |-> t, error |-> err]
           q == queue_results
<1>1. /\ UNCHANGED <<waiting_task_ids, destroyed>> /\ answered' = answered \cup {t}
      /\ queue_results' = IF t \in waiting_task_ids THEN Append(q, x) ELSE q
  BY DEF Send, Sent
<1>2. x \in Result /\ q \in Seq(Result) /\ q' \in Seq(Result)
  <2>1. x \in Result
    BY DEF Result
  <2>2. q \in Seq(Result)
    BY Unpack DEF RespType
  <2> HIDE DEF x
  <2> QED BY <1>1, <2>1, <2>2
<1>3. /\ Len(q) \in Nat /\ DOMAIN q = 1 .. Len(q) /\ DOMAIN q \subseteq DOMAIN q'
      /\ \A i \in DOMAIN q : q'[i] = q[i]
      /\ \A i \in DOMAIN q' : i \in DOMAIN q \/ (t \in waiting_task_ids /\ q'[i] = x)
  <2>1. CASE t \in waiting_task_ids
    <3>1. q' = Append(q, x)
      BY <1>1, <2>1
    <3>2. Len(q') = Len(q) + 1 /\ DOMAIN q' = 1 .. (Len(q) + 1) /\ q'[Len(q) + 1] = x
      BY <1>2, <3>1
    <3>3. Len(q) \in Nat /\ DOMAIN q = 1 .. Len(q) /\ \A i \in 1 .. Len(q) : q'[i] = q[i]
      BY <1>2, <3>1
    <3> QED BY <2>1, <3>2, <3>3
  <2>2. CASE t \notin waiting_task_ids
    BY <1>1, <1>2, <2>2
  <2> QED BY <2>1, <2>2
<1>4. RespType' /\ ReqType'
  BY <1>1, <1>2, Unpack DEF RespType, ReqType
<1>5. ListInv'
  <2>1. \A i \in DOMAIN q' : q'[i].id \in answered'
    BY <1>1, <1>3, Unpack DEF ListInv
  <2> QED BY <1>1, <2>1, Unpack DEF ListInv, has_next
<1>6. \A r \in Requests : HasError(r) => HasError(r)'
  BY <1>3 DEF HasError
<1>7. Owner[t] \in Requests /\ req[Owner[t]] \in ReqPcs /\ t \in TaskIds(Owner[t])
  BY TasksAssumption, Unpack DEF ReqType, TaskIds
<1>8. ASSUME err, req[Owner[t]] \notin Before PROVE Dead(Owner[t])'
  <2>1. CASE req[Owner[t]] = "next"
    <3>1. t \in waiting_task_ids
      BY <2>1, Unpack DEF ListInv
    <3>2. q' = Append(q, x) /\ Len(q) + 1 \in DOMAIN q' /\ q'[Len(q) + 1] = x
      BY <1>1, <1>2, <3>1
    <3>3. HasError(Owner[t])'
      BY <1>7, <1>8, <3>2 DEF HasError
    <3> QED BY <3>3 DEF Dead
  <2>2. CASE req[Owner[t]] # "next"
    BY <1>7, <1>8, <2>2 DEF Dead, After, Before, ReqPcs
  <2> QED BY <2>1, <2>2
<1>9. ASSUME NEW r \in Requests, req'[r] = "next"
      PROVE  received'[r] + Hits(q', ForReader(r)) = Cardinality(answered' \cap TaskIds(r))
  <2>1. received[r] + Hits(q, ForReader(r)) = Cardinality(answered \cap TaskIds(r))
    BY <1>2, <1>9, Unpack, ResultCount DEF ResultsDelivered
  <2>2. IsFiniteSet(answered \cap TaskIds(r))
    <3>1. answered \cap TaskIds(r) \in SUBSET Tasks
      BY DEF TaskIds
    <3> QED BY <3>1, TasksAssumption, FS_Subset
  <2>3. received[r] \in Nat /\ Hits(q, ForReader(r)) \in Nat
    BY <1>2, Unpack, HitsType DEF ReqType
  <2>4. CASE Owner[t] = r
    <3>1. t \in waiting_task_ids
      BY <1>9, <2>4, Unpack DEF ListInv
    <3>2. x \in ForReader(r)
      BY <1>2, <1>7, <2>4 DEF ForReader
    <3>3. q' = Append(q, x)
      BY <1>1, <3>1
    <3>4. Hits(q', ForReader(r)) = Hits(q, ForReader(r)) + 1
      <4> HIDE DEF x, q
      <4>1. Hits(Append(q, x), ForReader(r)) = Hits(q, ForReader(r)) + 1
        BY <1>2, <3>2, HitsAppend
      <4> QED BY <3>3, <4>1
    <3>5. answered' \cap TaskIds(r) = (answered \cap TaskIds(r)) \cup {t}
      BY <1>1, <1>7, <2>4
    <3>6. t \notin answered \cap TaskIds(r)
      OBVIOUS
    <3>7. Cardinality(answered' \cap TaskIds(r)) = Cardinality(answered \cap TaskIds(r)) + 1
      BY <2>2, <3>5, <3>6, FS_AddElement
    <3> QED BY <2>1, <2>3, <3>4, <3>7
  <2>5. CASE Owner[t] # r
    <3>1. t \notin TaskIds(r) /\ x \notin ForReader(r)
      BY <2>5 DEF TaskIds, ForReader
    <3>2. answered' \cap TaskIds(r) = answered \cap TaskIds(r)
      BY <1>1, <3>1
    <3>3. Hits(q', ForReader(r)) = Hits(q, ForReader(r))
      <4>1. PlacesOf(q', ForReader(r)) = PlacesOf(q, ForReader(r))
        BY <1>3, <3>1 DEF PlacesOf
      <4> QED BY <4>1 DEF Hits
    <3> QED BY <2>1, <3>2, <3>3
  <2> QED BY <2>4, <2>5
<1>10. ResultsDelivered'
  <2>1. \A r \in Requests : req'[r] = "next" =>
          received'[r] + Cardinality({i \in DOMAIN q' : q'[i].id \in TaskIds(r)})
            = Cardinality(answered' \cap TaskIds(r))
    BY <1>2, <1>9, ResultCount
  <2>2. \A i \in DOMAIN q' : q'[i].id \in waiting_task_ids' \/ req'[Owner[q'[i].id]] = "unlisted"
    BY <1>1, <1>3, Unpack DEF ResultsDelivered
  <2> QED BY <2>1, <2>2 DEF ResultsDelivered
<1> QED BY <1>1, <1>4, <1>5, <1>6, <1>8, <1>10

-----------------------------------------------------------------------------
(* Releasing slots.                                                        *)

\* pop_deferred_task moves at most one task between two deques.
LEMMA MoveDeferredMoves ==
    ASSUME TaskInv, NEW s \in Slots, MoveDeferred(s), UNCHANGED <<queue_tasks_unhandled, reqv>>
    PROVE  /\ DequesType'
           /\ \A t \in Tasks :
                /\ Count(queue_tasks', t) \in Nat /\ Count(queue_tasks_deferred', t) \in Nat
                /\ Count(queue_tasks', t) + Count(queue_tasks_deferred', t)
                     = Count(queue_tasks, t) + Count(queue_tasks_deferred, t)
<1> DEFINE q == queue_tasks
           d == queue_tasks_deferred
<1>1. Entries' = Entries
  BY DEF Entries, reqv
<1>2. q \in Seq(Entries) /\ d \in Seq(Entries) /\ queue_tasks_unhandled \in Seq(Entries)
  BY Unpack DEF DequesType
<1>3. \/ UNCHANGED <<queue_tasks, queue_tasks_deferred>>
      \/ \E i \in DOMAIN d : q' = <<d[i]>> \o q /\ d' = RemoveAt(d, i)
  <2>1. CASE d = <<>>
    BY <2>1 DEF MoveDeferred
  <2>2. CASE d # <<>>
    <3>1. DeferredIndex(d, s) \in DOMAIN d
      BY <1>2, <2>2, DeferredIndexFacts
    <3>2. q' = <<d[DeferredIndex(d, s)]>> \o q /\ d' = RemoveAt(d, DeferredIndex(d, s))
      BY <2>2 DEF MoveDeferred
    <3> QED BY <3>1, <3>2
  <2> QED BY <2>1, <2>2
<1>4. ASSUME NEW t \in Tasks
      PROVE  /\ q' \in Seq(Entries) /\ d' \in Seq(Entries)
             /\ Count(q', t) \in Nat /\ Count(d', t) \in Nat
             /\ Count(q', t) + Count(d', t) = Count(q, t) + Count(d, t)
  <2>1. Count(q, t) \in Nat /\ Count(d, t) \in Nat /\ Entries \in SUBSET AllEntries
    BY <1>2, Unpack, CountFacts
  <2>2. CASE UNCHANGED <<queue_tasks, queue_tasks_deferred>>
    BY <1>2, <2>1, <2>2
  <2>3. CASE \E i \in DOMAIN d : q' = <<d[i]>> \o q /\ d' = RemoveAt(d, i)
    <3>1. PICK i \in DOMAIN d : q' = <<d[i]>> \o q /\ d' = RemoveAt(d, i)
      BY <2>3
    <3>2. /\ d[i] \in Entries /\ d' \in Seq(Entries)
          /\ Count(d, t) = Count(d', t) + Count(<<d[i]>>, t)
      BY <1>2, <2>1, <3>1, CountFacts
    <3>3. q' \in Seq(Entries) /\ Count(q', t) = Count(q, t) + Count(<<d[i]>>, t)
      <4>1. PICK e \in Entries : e = d[i]
        BY <3>2
      <4>2. <<e>> \o q \in Seq(Entries) /\ Count(<<e>> \o q, t) = Count(q, t) + Count(<<e>>, t)
        BY <1>2, <2>1, CountFacts
      <4> QED BY <3>1, <4>1, <4>2, Zenon
    <3>4. Count(d', t) \in Nat /\ Count(<<d[i]>>, t) \in Nat
      <4>1. Count(d', t) \in Nat
        BY <2>1, <3>2, CountFacts
      <4>2. d[i] \in AllEntries
        BY <2>1, <3>2
      <4>3. Count(<<d[i]>>, t) = IF d[i] = TaskEntry(t) THEN 1 ELSE 0
        BY <4>2, CountOne
      <4> QED BY <4>1, <4>3
    <3> QED BY <2>1, <3>2, <3>3, <3>4
  <2> QED BY <1>3, <2>2, <2>3
<1>5. q' \in Seq(Entries) /\ d' \in Seq(Entries)
  <2>1. CASE Tasks = {}
    <3>1. ASSUME NEW i \in DOMAIN d PROVE d[i] \in Entries /\ RemoveAt(d, i) \in Seq(Entries)
      BY <1>2, <3>1, HitsRemoveAt
    <3>2. ASSUME NEW e \in Entries PROVE <<e>> \o q \in Seq(Entries)
      BY <1>2, <3>2
    <3> QED BY <1>2, <1>3, <3>1, <3>2
  <2>2. CASE Tasks # {}
    BY <1>4, <2>2
  <2> QED BY <2>1, <2>2
<1>6. DequesType'
  BY <1>1, <1>2, <1>5 DEF DequesType
<1> QED BY <1>4, <1>6

\* release empties one slot and moves at most one task between two deques.
LEMMA ReleaseMoves ==
    ASSUME TaskInv, NEW s \in Slots, Release(s), UNCHANGED reqv
    PROVE  /\ DequesType' /\ SlotType' /\ UNCHANGED queue_tasks_unhandled
           /\ \A x \in Slots : slot'[x] = IF x = s THEN IdleSlot ELSE slot[x]
           /\ \A t \in Tasks :
                /\ Count(queue_tasks', t) \in Nat /\ Count(queue_tasks_deferred', t) \in Nat
                /\ Count(queue_tasks', t) + Count(queue_tasks_deferred', t)
                     = Count(queue_tasks, t) + Count(queue_tasks_deferred, t)
                /\ Cardinality(Runs(t))' = Cardinality(Runs(t)) - (IF slot[s].task = t THEN 1 ELSE 0)
<1>1. MoveDeferred(s) /\ slot' = [slot EXCEPT ![s] = IdleSlot] /\ UNCHANGED queue_tasks_unhandled
  BY DEF Release, Released
<1>2. /\ DequesType'
      /\ \A t \in Tasks :
           /\ Count(queue_tasks', t) \in Nat /\ Count(queue_tasks_deferred', t) \in Nat
           /\ Count(queue_tasks', t) + Count(queue_tasks_deferred', t)
                = Count(queue_tasks, t) + Count(queue_tasks_deferred, t)
  BY <1>1, MoveDeferredMoves
<1>3. \A x \in Slots : slot'[x] = IF x = s THEN IdleSlot ELSE slot[x]
  BY <1>1, Unpack DEF SlotType
<1>4. SlotType'
  <2>1. slot' \in [Slots -> [task : Tasks \cup {None}, state : SlotStates]]
    BY <1>1, Unpack DEF SlotType, IdleSlot, SlotStates
  <2>2. \A x \in Slots : is_processing(x)' <=> slot'[x].task # None
    BY <1>3, Unpack DEF SlotType, is_processing, IdleSlot
  <2> QED BY <2>1, <2>2 DEF SlotType
<1>5. ASSUME NEW t \in Tasks
       PROVE  Cardinality(Runs(t))' = Cardinality(Runs(t)) - (IF slot[s].task = t THEN 1 ELSE 0)
  <2>1. t # None
    BY TasksAssumption
  <2>2. Runs(t)' = Runs(t) \ {s} /\ (s \in Runs(t) <=> slot[s].task = t)
    BY <1>3, <2>1 DEF Runs, IdleSlot
  <2>3. IsFiniteSet(Runs(t)) /\ Cardinality(Runs(t)) \in Nat
    BY Unpack, TotalFacts
  <2>4. Cardinality(Runs(t) \ {s}) = IF s \in Runs(t) THEN Cardinality(Runs(t)) - 1 ELSE Cardinality(Runs(t))
    BY <2>3, FS_RemoveElement
  <2> QED BY <2>2, <2>3, <2>4
<1> QED BY <1>1, <1>2, <1>3, <1>4, <1>5

\* A slot ends with its last result or an error: its task goes from the slot to
\* the tasks that are done.
LEMMA FinishKeeps ==
    ASSUME TaskInv, SleepInv', FlagsType', BlockedType', NEW s \in Slots, is_processing(s),
           NEW err \in BOOLEAN, Send(slot[s].task, err), Release(s),
           main.pc \in {"pre_decode", "post_decode", "abort"},
           UNCHANGED <<main, worker, reqv, sleeping>>
    PROVE  TaskInv'
<1> DEFINE u == slot[s].task
<1>1. u \in Tasks /\ u # None
  BY Unpack DEF SlotType
<1>2. u \notin answered \cup destroyed /\ Cardinality(Runs(u)) # 0
  <2>1. /\ Held(Carrier(u)) \in Nat /\ Cardinality(Runs(u)) \in Nat /\ Done(u) \in {0, 1}
        /\ Done(u) = 1 <=> u \in answered \cup destroyed
        /\ Cardinality(Runs(u)) = 0 <=> \A x \in Slots : slot[x].task # u
    BY <1>1, Unpack, TotalFacts, CarrierFacts
  <2>2. Cardinality(Runs(u)) # 0
    BY <2>1
  <2>3. Total(u) \in {0, 1}
    BY <1>1, Unpack DEF PlacesInv
  <2>4. Held(Carrier(u)) + Cardinality(Runs(u)) + Done(u) \in {0, 1}
    BY <2>3 DEF Total
  <2>5. Done(u) = 0
    BY <2>1, <2>2, <2>4
  <2> QED BY <2>1, <2>2, <2>5
<1>3. /\ RespType' /\ ReqType' /\ ListInv' /\ ResultsDelivered'
      /\ \A r \in Requests : HasError(r) => HasError(r)'
      /\ answered' = answered \cup {u} /\ UNCHANGED destroyed
  BY <1>1, <1>2, SendFacts DEF reqv
<1>4. Entries' = Entries
  BY DEF Entries, reqv
<1>5. ThreadsType' /\ HandsInv'
  BY <1>4, Unpack DEF ThreadsType, HandsInv
<1>6. ASSUME NEW t \in Tasks PROVE Total(t)' = Total(t)
  <2>1. Held(Carrier(t))' = Held(Carrier(t))
    <3>1. PICK c \in Tasks : c = Carrier(t)
      BY CarrierFacts
    <3>2. /\ Count(queue_tasks', c) \in Nat /\ Count(queue_tasks_deferred', c) \in Nat
          /\ Count(queue_tasks', c) + Count(queue_tasks_deferred', c)
               = Count(queue_tasks, c) + Count(queue_tasks_deferred, c)
          /\ UNCHANGED queue_tasks_unhandled
      BY ReleaseMoves
    <3>3. /\ Count(queue_tasks, c) \in Nat /\ Count(queue_tasks_deferred, c) \in Nat
          /\ Count(queue_tasks_unhandled, c) \in Nat
          /\ Count(<<main.task>>, c) \in Nat /\ Count(<<worker.task>>, c) \in Nat
      BY Unpack, TotalFacts
    <3>4. Held(c)' = Count(queue_tasks', c) + Count(queue_tasks_deferred', c)
                     + Count(queue_tasks_unhandled, c) + Count(<<main.task>>, c) + Count(<<worker.task>>, c)
      BY <3>2 DEF Held, Count
    <3>5. Held(c)' = Held(c)
      BY <3>2, <3>3, <3>4 DEF Held
    <3>6. Carrier(t)' = Carrier(t)
      BY DEF Carrier
    <3> QED BY <3>1, <3>5
  <2>2. /\ Cardinality(Runs(t))' = Cardinality(Runs(t)) - (IF u = t THEN 1 ELSE 0)
        /\ Cardinality(Runs(t)) \in Nat
    BY Unpack, ReleaseMoves, TotalFacts
  <2>3. Done(t)' = Done(t) + (IF u = t THEN 1 ELSE 0) /\ Done(t) \in {0, 1}
    BY <1>2, <1>3 DEF Done
  <2>4. Held(Carrier(t)) \in Nat
    BY Unpack, TotalFacts, CarrierFacts
  <2>5. Total(t)' = Held(Carrier(t))' + Cardinality(Runs(t))' + Done(t)'
    BY DEF Total
  <2> QED BY <1>2, <2>1, <2>2, <2>3, <2>4, <2>5 DEF Total
<1>7. main'.undo = {}
  BY Unpack DEF HandsInv
<1>8. PlacesInv'
  <2>1. UNCHANGED req
    BY DEF reqv
  <2> QED BY <1>3, <1>6, <1>7, <2>1, Unpack, PlacesKept
<1>9. DequesType' /\ SlotType'
  BY ReleaseMoves
<1> QED BY <1>3, <1>5, <1>8, <1>9 DEF TaskInv, ServerType

\* The steps of update_slots that end a slot.
LEMMA SlotsEndKeeps ==
    ASSUME TaskInv, SleepInv', FlagsType', BlockedType',
           SlotFail \/ AbortSlots \/ \E s \in Slots : SlotFinish(s) \/ AudioEnd(s)
    PROVE  TaskInv'
<1>1. CASE SlotFail
  <2>1. PICK s \in Slots : slot[s].state \in {"started", "generating"} /\ FailSlot(s)
    BY <1>1 DEF SlotFail
  <2>2. Send(slot[s].task, TRUE) /\ Release(s) /\ is_processing(s)
    BY <2>1 DEF FailSlot, is_processing
  <2>3. main.pc \in {"pre_decode", "post_decode", "abort"} /\ UNCHANGED <<main, worker, reqv, sleeping>>
    BY <1>1 DEF SlotFail, sleepv
  <2> QED BY <2>2, <2>3, FinishKeeps
<1>2. CASE \E s \in Slots : SlotFinish(s) \/ AudioEnd(s)
  <2>1. PICK s \in Slots : SlotFinish(s) \/ AudioEnd(s)
    BY <1>2
  <2>2. Send(slot[s].task, FALSE) /\ Release(s) /\ is_processing(s)
    BY <2>1 DEF SlotFinish, AudioEnd, is_processing
  <2>3. main.pc \in {"pre_decode", "post_decode", "abort"} /\ UNCHANGED <<main, worker, reqv, sleeping>>
    BY <2>1 DEF SlotFinish, AudioEnd, sleepv
  <2> QED BY <2>2, <2>3, FinishKeeps
<1>3. CASE AbortSlots
  <2>1. main.pc = "abort" /\ UNCHANGED <<worker, reqv, sleeping>>
    BY <1>3 DEF AbortSlots, sleepv
  <2>2. CASE IdleSlots = Slots
    <3>1. main' = UpdateOver /\ UNCHANGED <<deques, respv, slot>>
      BY <1>3, <2>2 DEF AbortSlots
    <3>2. main.ret = "ok"
      BY <2>1, Unpack DEF HandsInv
    <3>3. ThreadsType' /\ HandsInv' /\ main'.task = main.task /\ main'.undo = main.undo
      BY <2>1, <3>1, <3>2, Unpack, UpdateOverQuiet
    <3> QED BY <2>1, <3>1, <3>3, MainQuiet
  <2>3. CASE IdleSlots # Slots
    <3>1. PICK s \in Slots \ IdleSlots : FailSlot(s)
      BY <1>3, <2>3 DEF AbortSlots
    <3>2. Send(slot[s].task, TRUE) /\ Release(s) /\ is_processing(s) /\ s \in Slots
      BY <3>1 DEF FailSlot, IdleSlots
    <3>3. UNCHANGED main
      BY <1>3, <2>3 DEF AbortSlots
    <3> QED BY <2>1, <3>2, <3>3, FinishKeeps
  <2> QED BY <2>2, <2>3
<1> QED BY <1>1, <1>2, <1>3

\* A slot is released without a result: the reader of its task gave up.
LEMMA DropKeeps ==
    ASSUME TaskInv, SleepInv', FlagsType', BlockedType', NEW s \in Slots, Release(s),
           slot[s].task \in Tasks, Dead(Owner[slot[s].task]),
           UNCHANGED <<respv, reqv, worker>>, ThreadsType', HandsInv',
           \A t \in Tasks : Count(<<main'.task>>, t) = Count(<<main.task>>, t),
           main'.undo \subseteq main.undo \ {s}
    PROVE  TaskInv'
<1> DEFINE u == slot[s].task
<1>1. UNCHANGED <<req, received, waiting_task_ids, queue_results, answered, destroyed>>
  BY DEF respv, reqv
<1>2. \A r : (HasError(r)' <=> HasError(r)) /\ (Dead(r)' <=> Dead(r))
  BY <1>1 DEF HasError, Dead
<1>3. ASSUME NEW t \in Tasks
      PROVE  Total(t)' = Total(t) \/ (Total(t)' = 0 /\ Dead(Owner[t])')
  <2>1. Held(Carrier(t))' = Held(Carrier(t))
    <3>1. PICK c \in Tasks : c = Carrier(t)
      BY CarrierFacts
    <3>2. /\ Count(queue_tasks', c) \in Nat /\ Count(queue_tasks_deferred', c) \in Nat
          /\ Count(queue_tasks', c) + Count(queue_tasks_deferred', c)
               = Count(queue_tasks, c) + Count(queue_tasks_deferred, c)
          /\ UNCHANGED queue_tasks_unhandled
      BY ReleaseMoves
    <3>3. /\ Count(queue_tasks, c) \in Nat /\ Count(queue_tasks_deferred, c) \in Nat
          /\ Count(queue_tasks_unhandled, c) \in Nat
          /\ Count(<<main.task>>, c) \in Nat /\ Count(<<worker.task>>, c) \in Nat
      BY Unpack, TotalFacts
    <3>4. Held(c)' = Count(queue_tasks', c) + Count(queue_tasks_deferred', c)
                     + Count(queue_tasks_unhandled, c) + Count(<<main'.task>>, c) + Count(<<worker.task>>, c)
      BY <3>2 DEF Held, Count
    <3>5. Count(<<main'.task>>, c) = Count(<<main.task>>, c)
      OBVIOUS
    <3>6. Held(c)' = Held(c)
      BY <3>2, <3>3, <3>4, <3>5 DEF Held
    <3> QED BY <3>1, <3>6
  <2>2. /\ Cardinality(Runs(t))' = Cardinality(Runs(t)) - (IF u = t THEN 1 ELSE 0)
        /\ Cardinality(Runs(t)) \in Nat /\ Held(Carrier(t)) \in Nat /\ Done(t) \in {0, 1}
        /\ u = t => Cardinality(Runs(t)) # 0
    BY Unpack, ReleaseMoves, TotalFacts, CarrierFacts
  <2>3. Done(t)' = Done(t)
    BY <1>1 DEF Done
  <2>4. Total(t)' = Held(Carrier(t)) + Cardinality(Runs(t))' + Done(t)
    BY <2>1, <2>3 DEF Total
  <2>5. Total(t) \in {0, 1} /\ Total(t) = Held(Carrier(t)) + Cardinality(Runs(t)) + Done(t)
    BY Unpack DEF PlacesInv, Total
  <2>6. CASE u = t
    <3>1. Total(t)' = 0
      BY <2>2, <2>4, <2>5, <2>6
    <3>2. Dead(Owner[t])'
      BY <1>2, <2>6
    <3> QED BY <3>1, <3>2
  <2>7. CASE u # t
    BY <2>2, <2>4, <2>5, <2>7
  <2> QED BY <2>6, <2>7
<1>4. ASSUME NEW x \in main'.undo PROVE slot'[x].task # None /\ Dead(Owner[slot[x].task])'
  <2>1. x \in main.undo /\ x # s /\ x \in Slots
    BY Unpack DEF ThreadsType
  <2>2. slot'[x] = slot[x]
    BY <2>1, ReleaseMoves
  <2>3. slot[x].task # None /\ Dead(Owner[slot[x].task])
    BY <2>1, Unpack DEF PlacesInv
  <2> QED BY <1>2, <2>2, <2>3
<1>5. PlacesInv'
  BY <1>1, <1>2, <1>3, <1>4, Unpack, PlacesKept
<1>6. ReqType' /\ RespType' /\ ListInv' /\ ResultsDelivered'
  BY <1>1, Unpack DEF ReqType, RespType, ListInv, ResultsDelivered, has_next
<1>7. DequesType' /\ SlotType'
  BY ReleaseMoves
<1> QED BY <1>5, <1>6, <1>7 DEF TaskInv, ServerType

\* release_slots after a refused launch, whose error ended the request.
LEMMA UndoKeeps ==
    ASSUME TaskInv, SleepInv', FlagsType', BlockedType', UndoLaunch PROVE TaskInv'
<1>1. main.pc = "undo" /\ UNCHANGED <<respv, reqv, worker, sleeping>>
  BY DEF UndoLaunch, sleepv
<1>2. Entries' = Entries
  BY <1>1 DEF Entries, reqv
<1>3. CASE main.undo = {}
  <2>1. main' = [main EXCEPT !.pc = "process"] /\ UNCHANGED <<deques, slot>>
    BY <1>3 DEF UndoLaunch, MainTo
  <2>2. ThreadsType' /\ HandsInv' /\ main'.task = main.task /\ main'.undo \subseteq main.undo
    BY <1>1, <1>2, <1>3, <2>1, Unpack DEF ThreadsType, HandsInv, MainPcs
  <2> QED BY <1>1, <2>1, <2>2, MainQuiet
<1>4. CASE main.undo # {}
  <2>1. PICK s \in main.undo : Release(s) /\ main' = [main EXCEPT !.undo = main.undo \ {s}]
    BY <1>4 DEF UndoLaunch
  <2>2. s \in Slots /\ slot[s].task # None /\ Dead(Owner[slot[s].task])
    BY Unpack DEF ThreadsType, PlacesInv
  <2>3. slot[s].task \in Tasks
    BY <2>2, Unpack DEF SlotType
  <2>4. ThreadsType' /\ HandsInv' /\ main'.task = main.task /\ main'.undo \subseteq main.undo \ {s}
    BY <1>1, <1>2, <2>1, Unpack DEF ThreadsType, HandsInv
  <2> QED BY <1>1, <2>1, <2>2, <2>3, <2>4, DropKeeps
<1> QED BY <1>3, <1>4

\* The handler of a task is over and main holds nothing.
LEMMA TaskDoneFacts ==
    ASSUME TaskInv, main.pc = "task", NEW undo \in SUBSET Slots, NEW pc \in {"process", "undo"},
           main' = [main EXCEPT !.pc = pc, !.task = NoEntry, !.undo = undo],
           pc = "process" => undo = {}, UNCHANGED <<worker, reqv, sleeping>>
    PROVE  ThreadsType' /\ HandsInv' /\ main'.task = NoEntry /\ main'.undo = undo
<1>1. Entries' = Entries
  BY DEF Entries, reqv
<1>2. main = [pc |-> main.pc, task |-> main.task, ret |-> main.ret,
              tries |-> main.tries, rest |-> main.rest, undo |-> main.undo]
  BY Unpack DEF ThreadsType
<1>3. main' = [pc |-> pc, task |-> NoEntry, ret |-> main.ret,
               tries |-> main.tries, rest |-> main.rest, undo |-> undo]
  BY <1>2
<1>4. ThreadsType'
  BY <1>1, <1>3, Unpack DEF ThreadsType, MainPcs
<1>5. HandsInv'
  BY <1>3, Unpack DEF HandsInv
<1> QED BY <1>3, <1>4, <1>5

\* CANCEL: the request is over when it posts one.
LEMMA CancelKeeps ==
    ASSUME TaskInv, SleepInv', FlagsType', BlockedType', ProcessCancel PROVE TaskInv'
<1>1. /\ main.pc = "task" /\ main.task.type = "cancel" /\ UNCHANGED <<respv, reqv, worker, sleeping>>
      /\ main' = [main EXCEPT !.pc = "process", !.task = NoEntry, !.undo = {}]
  BY DEF ProcessCancel, TaskDone, sleepv
<1>2. ThreadsType' /\ HandsInv' /\ main'.task = NoEntry /\ main'.undo = {}
  BY <1>1, TaskDoneFacts
<1>3. main.task.id \in Tasks /\ req[Owner[main.task.id]] = "gone"
  BY <1>1, Unpack, EntriesFacts
<1>4. ASSUME NEW t \in Tasks PROVE Count(<<main'.task>>, t) = Count(<<main.task>>, t)
  <2>1. main.task # TaskEntry(t)
    BY <1>1, TasksAssumption DEF TaskEntry, TaskTypes, InferTypes, SlotTypes, ReplyTypes, ReadTypes, ControlTypes
  <2>2. Count(<<main.task>>, t) = 0
    BY <2>1, Unpack, CountOne
  <2> QED BY <1>2, <2>2, NoEntryCounts
<1>5. CASE \E s \in Slots : slot[s].task = main.task.id
  <2>1. PICK s \in Slots : slot[s].task = main.task.id /\ Release(s)
    BY <1>5 DEF ProcessCancel
  <2>2. slot[s].task \in Tasks /\ Dead(Owner[slot[s].task])
    BY <1>3, <2>1 DEF Dead, After
  <2> QED BY <1>1, <1>2, <1>4, <2>1, <2>2, DropKeeps
<1>6. CASE ~\E s \in Slots : slot[s].task = main.task.id
  <2>1. UNCHANGED <<deques, slot>>
    BY <1>6 DEF ProcessCancel
  <2>2. Entries' = Entries
    BY <1>1 DEF Entries, reqv
  <2>3. SlotType' /\ DequesType'
    BY <2>1, <2>2, Unpack DEF SlotType, DequesType, is_processing, deques
  <2>4. ASSUME NEW t \in Tasks PROVE Held(t)' = Held(t) /\ Runs(t)' = Runs(t)
    BY <1>1, <1>4, <2>1 DEF Held, Runs, Count, deques
  <2> QED BY <1>1, <1>2, <2>3, <2>4, QuietKeeps DEF respv, reqv
<1> QED BY <1>5, <1>6

-----------------------------------------------------------------------------
(* Tasks that are answered at once.                                        *)

\* A task that is in a deque or in a hand is not done, and runs nowhere.
LEMMA HeldOnce ==
    ASSUME TaskInv, NEW t \in Tasks, Held(Carrier(t)) # 0
    PROVE  /\ Held(Carrier(t)) = 1 /\ t \notin answered \cup destroyed
           /\ \A s \in Slots : slot[s].task # t
           /\ req[Owner[t]] \notin Before
<1>1. /\ Held(Carrier(t)) \in Nat /\ Cardinality(Runs(t)) \in Nat /\ Done(t) \in {0, 1}
      /\ Done(t) = 1 <=> t \in answered \cup destroyed
      /\ Cardinality(Runs(t)) = 0 <=> \A x \in Slots : slot[x].task # t
  BY Unpack, TotalFacts, CarrierFacts
<1>2. /\ Held(Carrier(t)) + Cardinality(Runs(t)) + Done(t) \in {0, 1}
      /\ req[Owner[t]] \in Before => Held(Carrier(t)) + Cardinality(Runs(t)) + Done(t) = 0
  BY Unpack DEF PlacesInv, Total
<1> QED BY <1>1, <1>2

\* A task without children goes from a hand to the tasks that are done.
LEMMA HandAnswered ==
    ASSUME TaskInv, SleepInv', FlagsType', BlockedType',
           NEW t \in Tasks, ParentOf[t] = None, Type[t] # "completion", Held(t) # 0,
           \A c \in Tasks : Held(c)' = Held(c) - (IF c = t THEN 1 ELSE 0),
           UNCHANGED <<req, received>>, ThreadsType', HandsInv', DequesType',
           SlotType', \A x \in Tasks : Runs(x)' = Runs(x), main'.undo = {},
           \/ \E err \in BOOLEAN : Send(t, err)
           \/ destroyed' = destroyed \cup {t} /\ UNCHANGED <<waiting_task_ids, queue_results, answered>>
    PROVE  TaskInv'
<1>1. t \notin answered \cup destroyed /\ Carrier(t) = t
  BY HeldOnce, CarrierFacts
<1>2. /\ RespType' /\ ReqType' /\ ListInv' /\ ResultsDelivered'
      /\ \A r \in Requests : HasError(r) => HasError(r)'
      /\ answered' \cup destroyed' = (answered \cup destroyed) \cup {t}
  <2>1. CASE \E err \in BOOLEAN : Send(t, err)
    <3>1. PICK err \in BOOLEAN : Send(t, err)
      BY <2>1
    <3>2. /\ RespType' /\ ReqType' /\ ListInv' /\ ResultsDelivered'
          /\ \A r \in Requests : HasError(r) => HasError(r)'
          /\ answered' = answered \cup {t} /\ UNCHANGED destroyed
      BY <1>1, <3>1, SendFacts
    <3>3. answered' \cup destroyed' = (answered \cup destroyed) \cup {t}
      BY <3>2
    <3> QED BY <3>2, <3>3
  <2>2. CASE destroyed' = destroyed \cup {t} /\ UNCHANGED <<waiting_task_ids, queue_results, answered>>
    <3>1. RespType' /\ ReqType' /\ ListInv' /\ ResultsDelivered'
      BY <2>2, Unpack DEF RespType, ReqType, ListInv, ResultsDelivered, has_next
    <3>2. \A r \in Requests : HasError(r) => HasError(r)'
      BY <2>2 DEF HasError
    <3> QED BY <2>2, <3>1, <3>2
  <2> QED BY <2>1, <2>2
<1>3. ASSUME NEW x \in Tasks PROVE Total(x)' = Total(x)
  <2>1. Carrier(x) = t <=> x = t
    BY <1>1, CarrierFacts
  <2>2. PICK c \in Tasks : c = Carrier(x)
    BY CarrierFacts
  <2>3. Held(c)' = Held(c) - (IF x = t THEN 1 ELSE 0) /\ Held(c) \in Nat
    BY <2>1, <2>2, Unpack, TotalFacts
  <2>4. Done(x)' = Done(x) + (IF x = t THEN 1 ELSE 0) /\ Done(x) \in {0, 1}
    BY <1>1, <1>2 DEF Done
  <2>5. Cardinality(Runs(x))' = Cardinality(Runs(x)) /\ Cardinality(Runs(x)) \in Nat
    BY Unpack, TotalFacts
  <2>6. Total(x)' = Held(c)' + Cardinality(Runs(x))' + Done(x)'
    BY <2>2 DEF Total
  <2>7. Total(x) = Held(c) + Cardinality(Runs(x)) + Done(x)
    BY <2>2 DEF Total
  <2> QED BY <2>3, <2>4, <2>5, <2>6, <2>7
<1>4. PlacesInv'
  BY <1>2, <1>3, Unpack, PlacesKept
<1> QED BY <1>2, <1>4 DEF TaskInv, ServerType

\* The task in main's hand and its type.
LEMMA MainTaskFacts ==
    ASSUME TaskInv, main.task.type \in TaskTypes
    PROVE  /\ main.task.id \in Tasks /\ ParentOf[main.task.id] = None
           /\ Type[main.task.id] = main.task.type /\ main.task = TaskEntry(main.task.id)
           /\ Held(main.task.id) # 0
<1>1. main.task \in AllEntries
  BY Unpack
<1>2. /\ main.task.id \in Tasks /\ ParentOf[main.task.id] = None
      /\ Type[main.task.id] = main.task.type /\ main.task = TaskEntry(main.task.id)
  BY <1>1, EntryFacts DEF IsTask
<1>3. PICK t \in Tasks : t = main.task.id
  BY <1>2
<1>4. Held(t) # 0
  <2>1. /\ Count(queue_tasks, t) \in Nat /\ Count(queue_tasks_deferred, t) \in Nat
        /\ Count(queue_tasks_unhandled, t) \in Nat
        /\ Count(<<worker.task>>, t) = IF worker.task = TaskEntry(t) THEN 1 ELSE 0
        /\ Count(<<main.task>>, t) = IF main.task = TaskEntry(t) THEN 1 ELSE 0
    BY Unpack, TotalFacts, Zenon
  <2>2. main.task = TaskEntry(t)
    BY <1>2, <1>3, Zenon
  <2> QED BY <2>1, <2>2 DEF Held
<1> QED BY <1>2, <1>3, <1>4

\* Main lets go of its task; beside that an entry may move between two deques.
LEMMA MainLetsGo ==
    ASSUME TaskInv, main.task.type \in TaskTypes, main'.task = NoEntry,
           UNCHANGED <<queue_tasks_unhandled, worker>>, NEW c \in Tasks,
           Count(queue_tasks', c) \in Nat, Count(queue_tasks_deferred', c) \in Nat,
           Count(queue_tasks', c) + Count(queue_tasks_deferred', c)
             = Count(queue_tasks, c) + Count(queue_tasks_deferred, c)
    PROVE  Held(c)' = Held(c) - (IF c = main.task.id THEN 1 ELSE 0)
<1>1. main.task = TaskEntry(c) <=> c = main.task.id
  BY MainTaskFacts DEF TaskEntry
<1>2. Count(<<main'.task>>, c) = 0
  BY NoEntryCounts
<1>3. /\ Count(queue_tasks, c) \in Nat /\ Count(queue_tasks_deferred, c) \in Nat
      /\ Count(queue_tasks_unhandled, c) \in Nat
      /\ Count(<<worker.task>>, c) = IF worker.task = TaskEntry(c) THEN 1 ELSE 0
      /\ Count(<<main.task>>, c) = IF main.task = TaskEntry(c) THEN 1 ELSE 0
  BY Unpack, TotalFacts, Zenon
<1>4. Held(c)' = Count(queue_tasks', c) + Count(queue_tasks_deferred', c) + Count(queue_tasks_unhandled, c)
                 + Count(<<main'.task>>, c) + Count(<<worker.task>>, c)
  BY DEF Held, Count
<1> QED BY <1>1, <1>2, <1>3, <1>4 DEF Held

\* The same when no deque changes.
LEMMA MainLetsGoOnly ==
    ASSUME TaskInv, main.task.type \in TaskTypes, main'.task = NoEntry,
           UNCHANGED <<deques, worker>>, NEW c \in Tasks
    PROVE  Held(c)' = Held(c) - (IF c = main.task.id THEN 1 ELSE 0)
<1>1. Count(queue_tasks, c) \in Nat /\ Count(queue_tasks_deferred, c) \in Nat
  BY Unpack, TotalFacts
<1>2. /\ UNCHANGED <<queue_tasks_unhandled, worker>>
      /\ Count(queue_tasks', c) = Count(queue_tasks, c)
      /\ Count(queue_tasks_deferred', c) = Count(queue_tasks_deferred, c)
  BY DEF deques
<1> QED BY <1>1, <1>2, MainLetsGo

\* Tasks that main answers at once, audio, and slot actions.
LEMMA MainReplyKeeps ==
    ASSUME TaskInv, SleepInv', FlagsType', BlockedType',
           ProcessReply \/ ProcessSlotAction \/ ProcessAudio
    PROVE  TaskInv'
<1>1. /\ main.pc = "task" /\ main.task.type \in TaskTypes /\ main.task.type # "completion"
      /\ \E err \in BOOLEAN : Send(main.task.id, err)
      /\ main' = [main EXCEPT !.pc = "process", !.task = NoEntry, !.undo = {}]
      /\ UNCHANGED <<deques, reqv, worker, sleeping>>
  <2> USE DEF TaskTypes, InferTypes, SlotTypes, ReplyTypes, ReadTypes, ControlTypes, TaskDone, sleepv
  <2>1. CASE ProcessReply \/ ProcessAudio
    BY <2>1 DEF ProcessReply, ProcessAudio
  <2>2. CASE ProcessSlotAction
    <3>1. PICK err \in {FALSE, main.task.id \in Failing} : Send(main.task.id, err)
      BY <2>2 DEF ProcessSlotAction
    <3>2. err \in BOOLEAN
      <4>1. (main.task.id \in Failing) \in BOOLEAN
        OBVIOUS
      <4> QED BY <4>1
    <3> QED BY <2>2, <3>1, <3>2 DEF ProcessSlotAction
  <2> QED BY <2>1, <2>2
<1>2. ThreadsType' /\ HandsInv' /\ main'.task = NoEntry /\ main'.undo = {}
  BY <1>1, TaskDoneFacts
<1>3. Entries' = Entries
  BY <1>1 DEF Entries, reqv
<1>4. DequesType'
  BY <1>1, <1>3, Unpack DEF DequesType, deques
<1>5. \A c \in Tasks : Held(c)' = Held(c) - (IF c = main.task.id THEN 1 ELSE 0)
  BY <1>1, <1>2, MainLetsGoOnly
<1>6. /\ main.task.id \in Tasks /\ ParentOf[main.task.id] = None
      /\ Type[main.task.id] # "completion" /\ Held(main.task.id) # 0
  BY <1>1, MainTaskFacts
<1>7. SlotType' /\ \A x \in Slots : slot'[x].task = slot[x].task
  <2> USE DEF SlotType, SlotStates, is_processing
  <2>1. CASE UNCHANGED slot
    BY <2>1, Unpack
  <2>2. CASE ProcessAudio
    BY <2>2, Unpack DEF ProcessAudio, audio_wait
  <2> QED BY <2>1, <2>2 DEF ProcessReply, ProcessSlotAction
<1>8. \A x \in Tasks : Runs(x)' = Runs(x)
  BY <1>7 DEF Runs
<1> QED BY <1>1, <1>2, <1>4, <1>5, <1>6, <1>7, <1>8, HandAnswered DEF reqv

\* A realtime task gets an error instead of a slot, and a deferred task its turn.
LEMMA NoStreamKeeps ==
    ASSUME TaskInv, SleepInv', FlagsType', BlockedType', ProcessNoStream
    PROVE  TaskInv'
<1>1. /\ main.pc = "task" /\ main.task.type = "realtime" /\ main.task.type \in TaskTypes
      /\ Send(main.task.id, TRUE)
      /\ main' = [main EXCEPT !.pc = "process", !.task = NoEntry, !.undo = {}]
      /\ UNCHANGED <<queue_tasks_unhandled, reqv, worker, slot, sleeping>>
  BY DEF ProcessNoStream, TaskTypes, InferTypes, TaskDone, sleepv
<1>2. ThreadsType' /\ HandsInv' /\ main'.task = NoEntry /\ main'.undo = {}
  BY <1>1, TaskDoneFacts
<1>3. /\ main.task.id \in Tasks /\ ParentOf[main.task.id] = None
      /\ Type[main.task.id] # "completion" /\ Held(main.task.id) # 0
  BY <1>1, MainTaskFacts
<1>4. PICK s \in Slots : MoveDeferred(s)
  <2>1. get_available_slot(main.task.id) \subseteq Slots
    BY <1>3, TasksAssumption DEF get_available_slot, IdleSlots
  <2> QED BY <2>1 DEF ProcessNoStream
<1>5. /\ DequesType'
      /\ \A c \in Tasks :
           /\ Count(queue_tasks', c) \in Nat /\ Count(queue_tasks_deferred', c) \in Nat
           /\ Count(queue_tasks', c) + Count(queue_tasks_deferred', c)
                = Count(queue_tasks, c) + Count(queue_tasks_deferred, c)
  BY <1>1, <1>4, MoveDeferredMoves
<1>6. \A c \in Tasks : Held(c)' = Held(c) - (IF c = main.task.id THEN 1 ELSE 0)
  BY <1>1, <1>2, <1>5, MainLetsGo
<1>7. SlotType' /\ \A x \in Tasks : Runs(x)' = Runs(x)
  BY <1>1, Unpack DEF SlotType, is_processing, Runs
<1>8. \E err \in BOOLEAN : Send(main.task.id, err)
  BY <1>1
<1> QED BY <1>1, <1>2, <1>3, <1>5, <1>6, <1>7, <1>8, HandAnswered DEF reqv

\* The worker answers a read-only task, or throws over it.
LEMMA WorkerReplyKeeps ==
    ASSUME TaskInv, SleepInv', FlagsType', BlockedType', WorkerReply \/ WorkerThrow
    PROVE  TaskInv'
<1> DEFINE t == worker.task.id
<1>1. /\ worker.pc = "task" /\ worker.task.type \in ReadTypes
      /\ \E p \in {"process", "finish"} : worker' = [pc |-> p, task |-> NoEntry]
      /\ \/ \E err \in BOOLEAN : Send(t, err)
         \/ destroyed' = destroyed \cup {t} /\ UNCHANGED <<waiting_task_ids, queue_results, answered>>
      /\ UNCHANGED <<deques, reqv, main, slot, sleeping>>
  <2>1. CASE WorkerReply
    BY <2>1 DEF WorkerReply, sleepv
  <2>2. CASE WorkerThrow
    BY <2>2 DEF WorkerThrow, sleepv
  <2> QED BY <2>1, <2>2
<1>2. Entries' = Entries
  BY <1>1 DEF Entries, reqv
<1>3. ThreadsType' /\ HandsInv' /\ worker'.task = NoEntry
  BY <1>1, <1>2, Unpack DEF ThreadsType, HandsInv, WorkerPcs
<1>4. DequesType'
  BY <1>1, <1>2, Unpack DEF DequesType, deques
<1>5. worker.task \in AllEntries /\ IsTask(worker.task) /\ worker.task.type # "completion"
  BY <1>1, Unpack DEF IsTask, TaskTypes, ReplyTypes, ReadTypes, ControlTypes
<1>6. t \in Tasks /\ ParentOf[t] = None /\ Type[t] # "completion" /\ worker.task = TaskEntry(t)
  BY <1>5, EntryFacts
<1>7. ASSUME NEW c \in Tasks
      PROVE  /\ Held(c)' = Held(c) - (IF c = t THEN 1 ELSE 0)
             /\ c = t => Held(c) # 0
  <2>1. worker.task = TaskEntry(c) <=> c = t
    BY <1>6 DEF TaskEntry
  <2>2. Count(<<worker'.task>>, c) = 0
    BY <1>3, NoEntryCounts
  <2>3. /\ Count(queue_tasks, c) \in Nat /\ Count(queue_tasks_deferred, c) \in Nat
        /\ Count(queue_tasks_unhandled, c) \in Nat /\ Count(<<main.task>>, c) \in Nat
        /\ Count(<<worker.task>>, c) = IF c = t THEN 1 ELSE 0
    BY <2>1, Unpack, TotalFacts
  <2>4. Held(c)' = Count(queue_tasks, c) + Count(queue_tasks_deferred, c) + Count(queue_tasks_unhandled, c)
                   + Count(<<main.task>>, c) + Count(<<worker'.task>>, c)
    BY <1>1 DEF Held, Count, deques
  <2> QED BY <2>2, <2>3, <2>4 DEF Held
<1>8. main'.undo = {}
  <2>1. main.pc # "undo"
    BY <1>1 DEF TaskInv, SleepInv, WInv, YieldInv, InYield
  <2> QED BY <1>1, <2>1, Unpack DEF HandsInv
<1>9. Held(t) # 0
  BY <1>6, <1>7
<1>10. SlotType' /\ \A x \in Tasks : Runs(x)' = Runs(x)
  BY <1>1, Unpack DEF SlotType, is_processing, Runs
<1> QED BY <1>1, <1>3, <1>4, <1>6, <1>7, <1>8, <1>9, <1>10, HandAnswered DEF reqv

-----------------------------------------------------------------------------
(* Launching a task and its children.                                      *)

LEMMA WithChildrenFacts ==
    ASSUME SlotType, NEW D \in SUBSET Tasks, NEW f \in [D -> Slots], IsInjective(f)
    PROVE  /\ WithChildren(f) = [x \in Slots |-> WithChildren(f)[x]]
           /\ \A c \in D : WithChildren(f)[f[c]] = Launched(c)
           /\ \A x \in Slots : (\A c \in D : f[c] # x) => WithChildren(f)[x] = slot[x]
<1>1. DOMAIN f = D
  OBVIOUS
<1>2. ASSUME NEW c \in D PROVE WithChildren(f)[f[c]] = Launched(c)
  <2>1. \A d \in D : f[d] = f[c] => d = c
    BY <1>1 DEF IsInjective
  <2>2. (CHOOSE d \in D : f[d] = f[c]) = c
    BY <2>1
  <2>3. WithChildren(f)[f[c]] = Launched(CHOOSE d \in D : f[d] = f[c])
    BY <1>1 DEF WithChildren
  <2> QED BY <2>2, <2>3
<1>3. \A x \in Slots : (\A c \in D : f[c] # x) => WithChildren(f)[x] = slot[x]
  BY <1>1 DEF WithChildren
<1>4. WithChildren(f) = [x \in Slots |-> WithChildren(f)[x]]
  BY DEF WithChildren
<1> QED BY <1>2, <1>3, <1>4

\* Tasks that ran nowhere are put into idle slots, one each.
LEMMA LaunchMoves ==
    ASSUME TaskInv, NEW D \in SUBSET Tasks, NEW g \in [D -> IdleSlots],
           \A a, b \in D : g[a] = g[b] => a = b,
           slot' = [x \in Slots |-> slot'[x]],
           \A c \in D : slot'[g[c]] = Launched(c),
           \A x \in Slots : (\A c \in D : g[c] # x) => slot'[x] = slot[x],
           \A c \in D : \A x \in Slots : slot[x].task # c
    PROVE  /\ SlotType'
           /\ \A t \in Tasks : Cardinality(Runs(t))' = Cardinality(Runs(t)) + (IF t \in D THEN 1 ELSE 0)
<1>1. /\ IdleSlots \subseteq Slots /\ None \notin Tasks
      /\ \A x \in IdleSlots : slot[x].task = None
  BY Unpack, TasksAssumption DEF IdleSlots, SlotType
<1>2. \A c \in D : g[c] \in Slots /\ slot[g[c]].task = None
  BY <1>1
<1>3. ASSUME NEW x \in Slots
      PROVE  /\ slot'[x] \in [task : Tasks \cup {None}, state : SlotStates]
             /\ is_processing(x)' <=> slot'[x].task # None
  <2>1. CASE \E c \in D : g[c] = x
    <3>1. PICK c \in D : g[c] = x
      BY <2>1
    <3>2. slot'[x] = Launched(c) /\ c \in Tasks /\ c # None
      BY <1>1, <3>1
    <3> QED BY <3>2 DEF Launched, SlotStates, is_processing
  <2>2. CASE \A c \in D : g[c] # x
    BY <2>2, Unpack DEF SlotType, is_processing
  <2> QED BY <2>1, <2>2
<1>4. SlotType'
  BY <1>3 DEF SlotType
<1>5. ASSUME NEW t \in Tasks
      PROVE  Cardinality(Runs(t))' = Cardinality(Runs(t)) + (IF t \in D THEN 1 ELSE 0)
  <2>1. ASSUME NEW c \in D PROVE slot'[g[c]].task = c
    <3>1. slot'[g[c]] = Launched(c)
      OBVIOUS
    <3> QED BY <3>1 DEF Launched
  <2>2. CASE t \in D
    <3>1. Runs(t) = {} /\ Cardinality(Runs(t)) = 0
      BY <2>2, FS_EmptySet DEF Runs
    <3>2. ASSUME NEW x \in Slots PROVE slot'[x].task = t <=> x = g[t]
      <4>1. CASE \E c \in D : g[c] = x
        BY <2>1, <2>2, <4>1
      <4>2. CASE \A c \in D : g[c] # x
        BY <2>2, <4>2
      <4> QED BY <4>1, <4>2
    <3>3. Runs(t)' = {g[t]}
      BY <1>2, <2>2, <3>2 DEF Runs
    <3>4. Cardinality(Runs(t))' = 1
      BY <3>3, FS_Singleton
    <3> QED BY <2>2, <3>1, <3>4
  <2>3. CASE t \notin D
    <3>1. ASSUME NEW x \in Slots PROVE slot'[x].task = t <=> slot[x].task = t
      <4>1. CASE \E c \in D : g[c] = x
        BY <1>1, <1>2, <2>1, <2>3, <4>1
      <4>2. CASE \A c \in D : g[c] # x
        BY <4>2
      <4> QED BY <4>1, <4>2
    <3>2. Runs(t)' = Runs(t)
      BY <3>1 DEF Runs
    <3>3. Cardinality(Runs(t)) \in Nat
      BY Unpack, TotalFacts
    <3> QED BY <2>3, <3>2, <3>3
  <2> QED BY <2>2, <2>3
<1> QED BY <1>4, <1>5

\* The slot of a launch is idle, and the tasks of one entry run nowhere yet.
LEMMA LaunchFacts ==
    ASSUME TaskInv, main.task.type \in InferTypes, ~MustDefer(main.task)
    PROVE  /\ get_available_slot(main.task.id) \subseteq IdleSlots
           /\ {main.task.id} \cup Children(main.task.id) \subseteq Tasks
           /\ \A c \in Tasks : c \in {main.task.id} \cup Children(main.task.id)
                               <=> Carrier(c) = main.task.id
           /\ \A c \in {main.task.id} \cup Children(main.task.id) :
                /\ Owner[c] = Owner[main.task.id] /\ c \notin answered \cup destroyed
                /\ Held(Carrier(c)) = 1 /\ \A s \in Slots : slot[s].task # c
                /\ req[Owner[c]] \notin Before
<1>1. /\ main.task.id \in Tasks /\ ParentOf[main.task.id] = None
      /\ Held(main.task.id) # 0
  BY MainTaskFacts DEF TaskTypes
<1>2. get_available_slot(main.task.id) \subseteq IdleSlots
  <2>1. get_available_slot(main.task.id) \cap IdleSlots # {}
    BY DEF MustDefer, InferTypes, SlotTypes
  <2> QED BY <2>1 DEF get_available_slot
<1>3. {main.task.id} \cup Children(main.task.id) \subseteq Tasks
  BY <1>1 DEF Children
<1>4. \A c \in Tasks : c \in {main.task.id} \cup Children(main.task.id) <=> Carrier(c) = main.task.id
  BY <1>1, CarrierFacts
<1>5. ASSUME NEW c \in {main.task.id} \cup Children(main.task.id)
      PROVE  /\ Owner[c] = Owner[main.task.id] /\ c \notin answered \cup destroyed
             /\ Held(Carrier(c)) = 1 /\ \A s \in Slots : slot[s].task # c
             /\ req[Owner[c]] \notin Before
  <2>1. c \in Tasks /\ Carrier(c) = main.task.id
    BY <1>3, <1>4
  <2>2. Owner[c] = Owner[main.task.id]
    BY <2>1, CarrierFacts
  <2>3. Held(Carrier(c)) # 0
    BY <1>1, <2>1
  <2> QED BY <2>1, <2>2, <2>3, HeldOnce
<1> QED BY <1>2, <1>3, <1>4, <1>5

LEMMA LaunchKeeps ==
    ASSUME TaskInv, SleepInv', FlagsType', BlockedType', ProcessLaunch PROVE TaskInv'
<1> DEFINE t == main.task.id
           D == {t} \cup Children(t)
<1>1. /\ main.pc = "task" /\ main.task.type \in InferTypes /\ ~MustDefer(main.task)
      /\ main.task.type \in TaskTypes
      /\ main' = [main EXCEPT !.pc = "process", !.task = NoEntry, !.undo = {}]
      /\ UNCHANGED <<deques, respv, reqv, worker, sleeping>>
  BY DEF ProcessLaunch, TaskDone, sleepv, TaskTypes
<1>0. PICK s \in get_available_slot(t) : \E f \in [Children(t) -> IdleSlots \ {s}] :
         IsInjective(f) /\ slot' = [WithChildren(f) EXCEPT ![s] = Launched(t)]
  BY DEF ProcessLaunch
<1>2. PICK f \in [Children(t) -> IdleSlots \ {s}] :
         IsInjective(f) /\ slot' = [WithChildren(f) EXCEPT ![s] = Launched(t)]
  BY <1>0
<1>3. /\ s \in IdleSlots /\ IdleSlots \subseteq Slots /\ D \in SUBSET Tasks
      /\ t \notin Children(t) /\ SlotType
  <2>1. t \in Tasks /\ ParentOf[t] = None /\ None \notin Tasks
    BY <1>1, MainTaskFacts, TasksAssumption
  <2>2. t \notin Children(t)
    BY <2>1 DEF Children
  <2> QED BY <1>1, <1>2, <2>2, Unpack, LaunchFacts DEF IdleSlots
<1>4. /\ WithChildren(f) = [x \in Slots |-> WithChildren(f)[x]]
      /\ \A c \in Children(t) : WithChildren(f)[f[c]] = Launched(c)
      /\ \A x \in Slots : (\A c \in Children(t) : f[c] # x) => WithChildren(f)[x] = slot[x]
  <2>1. Children(t) \in SUBSET Tasks /\ f \in [Children(t) -> Slots]
    BY <1>3
  <2> QED BY <1>2, <1>3, <2>1, WithChildrenFacts
<1> DEFINE g == [c \in D |-> IF c = t THEN s ELSE f[c]]
<1>5. /\ g \in [D -> IdleSlots]
      /\ \A a, b \in D : g[a] = g[b] => a = b
      /\ g[t] = s /\ \A c \in Children(t) : g[c] = f[c] /\ f[c] # s
  <2>1. \A a, b \in Children(t) : f[a] = f[b] => a = b
    BY <1>2 DEF IsInjective
  <2>2. \A c \in Children(t) : f[c] \in IdleSlots /\ f[c] # s
    OBVIOUS
  <2> QED BY <1>3, <2>1, <2>2
<1> HIDE DEF g
<1>6. /\ slot' = [x \in Slots |-> slot'[x]]
      /\ slot'[s] = Launched(t)
      /\ \A x \in Slots \ {s} : slot'[x] = WithChildren(f)[x]
  BY <1>2, <1>3, <1>4
<1>7. \A c \in D : slot'[g[c]] = Launched(c)
  <2>1. \A c \in Children(t) : f[c] \in Slots \ {s}
    BY <1>3
  <2> QED BY <1>4, <1>5, <1>6, <2>1
<1>8. \A x \in Slots : (\A c \in D : g[c] # x) => slot'[x] = slot[x]
  BY <1>4, <1>5, <1>6
<1>9. /\ \A c \in Tasks : c \in D <=> Carrier(c) = t
      /\ \A c \in D : \A x \in Slots : slot[x].task # c
  BY <1>1, LaunchFacts
<1>10. /\ SlotType'
       /\ \A c \in Tasks : Cardinality(Runs(c))' = Cardinality(Runs(c)) + (IF c \in D THEN 1 ELSE 0)
  <2> HIDE DEF D, t
  <2> QED BY <1>3, <1>5, <1>6, <1>7, <1>8, <1>9, LaunchMoves
<1>11. ThreadsType' /\ HandsInv' /\ main'.task = NoEntry /\ main'.undo = {}
  BY <1>1, TaskDoneFacts
<1>12. \A c \in Tasks : Held(c)' = Held(c) - (IF c = t THEN 1 ELSE 0)
  BY <1>1, <1>11, MainLetsGoOnly
<1>13. ASSUME NEW c \in Tasks PROVE Total(c)' = Total(c)
  <2>1. PICK k \in Tasks : k = Carrier(c)
    BY CarrierFacts
  <2>2. Held(k)' = Held(k) - (IF c \in D THEN 1 ELSE 0)
    BY <1>9, <1>12, <2>1
  <2>3. Cardinality(Runs(c))' = Cardinality(Runs(c)) + (IF c \in D THEN 1 ELSE 0)
    BY <1>10
  <2>4. Done(c)' = Done(c)
    BY <1>1 DEF Done, respv
  <2>5. Total(c)' = Held(k)' + Cardinality(Runs(c))' + Done(c)'
    BY <2>1 DEF Total
  <2>6. Total(c) = Held(k) + Cardinality(Runs(c)) + Done(c)
    BY <2>1 DEF Total
  <2>7. Held(k) \in Nat /\ Cardinality(Runs(c)) \in Nat /\ Done(c) \in {0, 1}
    BY Unpack, TotalFacts
  <2> HIDE DEF D, t
  <2> QED BY <2>2, <2>3, <2>4, <2>5, <2>6, <2>7
<1>14. \A r \in Requests : HasError(r) => HasError(r)'
  BY <1>1 DEF HasError, respv
<1>15. PlacesInv'
  BY <1>1, <1>11, <1>13, <1>14, Unpack, PlacesKept DEF reqv
<1>16. ReqType' /\ RespType' /\ ListInv' /\ ResultsDelivered'
  BY <1>1, Unpack DEF ReqType, RespType, ListInv, ResultsDelivered, has_next, reqv, respv
<1>17. DequesType'
  <2>1. Entries' = Entries
    BY <1>1 DEF Entries, reqv
  <2> QED BY <1>1, <2>1, Unpack DEF DequesType, deques
<1> QED BY <1>10, <1>11, <1>15, <1>16, <1>17 DEF TaskInv, ServerType

\* A launch is refused: the refused task gets an error, which ends the request of
\* all tasks of the entry; those launched before it are in slots to be released.
LEMMA RefuseKeeps ==
    ASSUME TaskInv, SleepInv', FlagsType', BlockedType', ProcessRefuse PROVE TaskInv'
<1> DEFINE t == main.task.id
           D == {t} \cup Children(t)
<1>1. /\ main.pc = "task" /\ main.task.type \in InferTypes /\ ~MustDefer(main.task)
      /\ main.task.type \in TaskTypes
      /\ UNCHANGED <<deques, reqv, worker, sleeping>>
  BY DEF ProcessRefuse, sleepv, TaskTypes
<1> DEFINE Refusal(bad, before, f) ==
              /\ bad = t => before = Children(t)
              /\ IsInjective(f)
              /\ Send(bad, TRUE)
              /\ slot' = WithChildren(f)
              /\ TaskDone("undo", {f[c] : c \in before})
<1>0. PICK bad \in D \cap Refused :
         \E before \in SUBSET (Children(t) \ {bad}) : \E s \in get_available_slot(t) :
         \E f \in [before -> IdleSlots \ {s}] : Refusal(bad, before, f)
  BY Zenon DEF ProcessRefuse
<1>2. PICK before \in SUBSET (Children(t) \ {bad}) :
         \E s \in get_available_slot(t) : \E f \in [before -> IdleSlots \ {s}] : Refusal(bad, before, f)
  BY <1>0
<1>3. PICK f \in [before -> IdleSlots] : Refusal(bad, before, f)
  <2> HIDE DEF Refusal
  <2>1. PICK s \in get_available_slot(t) : \E f \in [before -> IdleSlots \ {s}] : Refusal(bad, before, f)
    BY <1>2
  <2>2. PICK f \in [before -> IdleSlots \ {s}] : Refusal(bad, before, f)
    BY <2>1
  <2>3. f \in [before -> IdleSlots]
    OBVIOUS
  <2> QED BY <2>2, <2>3
<1> DEFINE U == {f[c] : c \in before}
<1>4. /\ IdleSlots \subseteq Slots /\ D \in SUBSET Tasks /\ bad \in D /\ before \in SUBSET D
      /\ before \in SUBSET Tasks /\ f \in [before -> Slots] /\ U \in SUBSET Slots
  <2>1. IdleSlots \subseteq Slots /\ D \in SUBSET Tasks /\ bad \in D /\ before \in SUBSET D
    BY <1>1, LaunchFacts DEF IdleSlots
  <2> HIDE DEF D
  <2> QED BY <2>1
<1>5. /\ \A c \in Tasks : c \in D <=> Carrier(c) = t
      /\ \A c \in D : /\ Owner[c] = Owner[bad] /\ c \notin answered \cup destroyed
                      /\ Held(Carrier(c)) = 1 /\ \A x \in Slots : slot[x].task # c
                      /\ req[Owner[c]] \notin Before
  BY <1>1, LaunchFacts
<1>6. /\ RespType' /\ ReqType' /\ ListInv' /\ ResultsDelivered'
      /\ \A r \in Requests : HasError(r) => HasError(r)'
      /\ Dead(Owner[bad])'
      /\ answered' = answered \cup {bad} /\ UNCHANGED destroyed
  <2>1. bad \in Tasks /\ bad \notin answered /\ req[Owner[bad]] \notin Before
    BY <1>4, <1>5
  <2> QED BY <1>1, <1>3, <2>1, SendFacts DEF reqv
<1>7. /\ slot' = [x \in Slots |-> slot'[x]]
      /\ \A c \in before : slot'[f[c]] = Launched(c)
      /\ \A x \in Slots : (\A c \in before : f[c] # x) => slot'[x] = slot[x]
  <2>1. SlotType /\ IsInjective(f) /\ slot' = WithChildren(f)
    BY <1>3, Unpack
  <2>2. /\ WithChildren(f) = [x \in Slots |-> WithChildren(f)[x]]
        /\ \A c \in before : WithChildren(f)[f[c]] = Launched(c)
        /\ \A x \in Slots : (\A c \in before : f[c] # x) => WithChildren(f)[x] = slot[x]
    BY <1>4, <2>1, WithChildrenFacts
  <2> QED BY <2>1, <2>2
<1>8. \A a, b \in before : f[a] = f[b] => a = b
  BY <1>3 DEF IsInjective
<1>9. \A c \in before : \A x \in Slots : slot[x].task # c
  BY <1>4, <1>5
<1>10. /\ SlotType'
       /\ \A c \in Tasks : Cardinality(Runs(c))' = Cardinality(Runs(c)) + (IF c \in before THEN 1 ELSE 0)
  BY <1>4, <1>7, <1>8, <1>9, LaunchMoves
<1>11. ThreadsType' /\ HandsInv' /\ main'.task = NoEntry /\ main'.undo = U
  <2>1. main' = [main EXCEPT !.pc = "undo", !.task = NoEntry, !.undo = U]
    BY <1>3 DEF TaskDone
  <2> HIDE DEF U
  <2> QED BY <1>1, <1>4, <2>1, TaskDoneFacts
<1>12. \A c \in Tasks : Held(c)' = Held(c) - (IF c = t THEN 1 ELSE 0)
  BY <1>1, <1>11, MainLetsGoOnly
<1>13. ASSUME NEW c \in Tasks PROVE Total(c)' = Total(c) \/ (Total(c)' = 0 /\ Dead(Owner[c])')
  <2>1. PICK k \in Tasks : k = Carrier(c)
    BY CarrierFacts
  <2>2. Held(k)' = Held(k) - (IF c \in D THEN 1 ELSE 0)
    BY <1>5, <1>12, <2>1
  <2>3. Cardinality(Runs(c))' = Cardinality(Runs(c)) + (IF c \in before THEN 1 ELSE 0)
    BY <1>10
  <2>4. Done(c)' = IF c = bad THEN 1 ELSE Done(c)
    BY <1>6 DEF Done
  <2>5. Total(c)' = Held(k)' + Cardinality(Runs(c))' + Done(c)'
    BY <2>1 DEF Total
  <2>6. Total(c) = Held(k) + Cardinality(Runs(c)) + Done(c)
    BY <2>1 DEF Total
  <2>7. /\ Held(k) \in Nat /\ Cardinality(Runs(c)) \in Nat /\ Done(c) \in {0, 1}
        /\ Total(c) \in {0, 1}
    BY Unpack, TotalFacts DEF PlacesInv
  <2>8. c \in D => Held(k) = 1 /\ Dead(Owner[c])'
    BY <1>5, <1>6, <2>1
  <2>9. (c = bad => c \in D) /\ (c \in before => c \in D) /\ ~(c = bad /\ c \in before)
    BY <1>2, <1>4
  <2> HIDE DEF D, t
  <2>10. CASE c \in D
    BY <2>2, <2>3, <2>4, <2>5, <2>6, <2>7, <2>8, <2>9, <2>10
  <2>11. CASE c \notin D
    BY <2>2, <2>3, <2>4, <2>5, <2>6, <2>7, <2>9, <2>11
  <2> QED BY <2>10, <2>11
<1>14. ASSUME NEW x \in main'.undo PROVE slot'[x].task # None /\ Dead(Owner[slot[x].task])'
  <2>1. PICK c \in before : x = f[c]
    BY <1>11
  <2>2. slot'[x].task = c
    <3>1. slot'[x] = Launched(c)
      BY <1>7, <2>1
    <3> QED BY <3>1 DEF Launched
  <2>3. c \in Tasks /\ c # None /\ Owner[c] = Owner[bad]
    BY <1>4, <1>5, TasksAssumption
  <2> QED BY <1>6, <2>2, <2>3
<1>15. PlacesInv'
  BY <1>1, <1>6, <1>13, <1>14, Unpack, PlacesKept DEF reqv
<1>16. DequesType'
  <2>1. Entries' = Entries
    BY <1>1 DEF Entries, reqv
  <2> QED BY <1>1, <2>1, Unpack DEF DequesType, deques
<1> QED BY <1>6, <1>10, <1>11, <1>15, <1>16 DEF TaskInv, ServerType

-----------------------------------------------------------------------------
(* The requests.                                                           *)

\* A step of the request r leaves the tasks of the other requests where they are.
LEMMA ReqPlaces ==
    ASSUME TaskInv, NEW r \in Requests, UNCHANGED <<main, slot>>,
           \A x \in Requests \ {r} : req'[x] = req[x] /\ (HasError(x) => HasError(x)'),
           Dead(r) => Dead(r)',
           \A t \in Tasks : Owner[t] # r => Total(t)' = Total(t),
           \A t \in TaskIds(r) : /\ Total(t)' \in {0, 1}
                                 /\ req'[r] \in Before => Total(t)' = 0
                                 /\ req'[r] = "next" => Total(t)' = 1 \/ HasError(r)'
    PROVE  PlacesInv'
<1>1. \A t \in Tasks : Owner[t] \in Requests /\ (t \in TaskIds(r) <=> Owner[t] = r)
  BY TasksAssumption DEF TaskIds
<1>2. ASSUME NEW t \in Tasks
      PROVE  /\ Total(t)' \in {0, 1}
             /\ req'[Owner[t]] \in Before => Total(t)' = 0
             /\ req'[Owner[t]] = "next" => Total(t)' = 1 \/ HasError(Owner[t])'
  <2>1. CASE Owner[t] = r
    BY <1>1, <2>1
  <2>2. CASE Owner[t] # r
    BY <1>1, <2>2, Unpack DEF PlacesInv
  <2> QED BY <2>1, <2>2
<1>3. ASSUME NEW s \in main'.undo PROVE slot'[s].task # None /\ Dead(Owner[slot[s].task])'
  <2>1. s \in Slots /\ slot[s].task # None /\ Dead(Owner[slot[s].task]) /\ slot[s].task \in Tasks
    BY Unpack DEF ThreadsType, PlacesInv, SlotType
  <2>2. PICK x \in Requests : x = Owner[slot[s].task]
    BY <1>1, <2>1
  <2>3. Dead(x)'
    BY <2>1, <2>2 DEF Dead
  <2>4. Owner[slot'[s].task] = x /\ slot'[s].task # None
    BY <2>1, <2>2
  <2> QED BY <2>3, <2>4
<1> QED BY <1>2, <1>3 DEF PlacesInv

\* A request that is over takes no step, so every entry remains legitimate.
LEMMA ReqGrows ==
    ASSUME TaskInv, NEW r \in Requests, ReqStep(r) \/ ReqLeave(r)
    PROVE  /\ Entries \subseteq Entries' /\ ReqType'
           /\ \A x \in Requests \ {r} : req'[x] = req[x] /\ received'[x] = received[x]
           /\ UNCHANGED <<main, worker, slot, answered, destroyed, sleeping>>
           /\ ThreadsType' /\ SlotType' /\ HandsInv'
<1>1. ReqType' /\ \A x \in Requests \ {r} : req'[x] = req[x] /\ received'[x] = received[x]
  BY Unpack, ReqTypeKept
<1>2. req[r] # "gone"
  BY DEF ReqStep, ReqEnter, ReqWakes, ReqCached, ReqList, ReqPost, ReqNext, ReqLeave,
         ReqUnlist, ReqPurge, ReqCancel
<1>3. Entries \subseteq Entries'
  BY <1>1, <1>2, EntriesGrow
<1>4. UNCHANGED <<main, worker, slot, answered, destroyed, sleeping>>
  <2> USE DEF respv, sleepv
  <2>1. CASE ReqEnter(r) \/ ReqWakes(r) \/ ReqCached(r) \/ ReqLeave(r)
    BY <2>1 DEF ReqEnter, ReqWakes, ReqCached, ReqLeave
  <2>2. CASE ReqList(r) \/ ReqPost(r) \/ ReqUnlist(r)
    BY <2>2 DEF ReqList, ReqPost, ReqUnlist
  <2>3. CASE ReqNext(r) \/ ReqPurge(r) \/ ReqCancel(r)
    BY <2>3 DEF ReqNext, ReqPurge, ReqCancel
  <2> QED BY <2>1, <2>2, <2>3 DEF ReqStep
<1>5. ThreadsType' /\ SlotType' /\ HandsInv'
  BY <1>3, <1>4, Unpack DEF ThreadsType, SlotType, HandsInv, is_processing
<1> QED BY <1>1, <1>3, <1>4, <1>5

\* A step that leaves the deques alone leaves every task where it is.
LEMMA ReqStill ==
    ASSUME TaskInv, NEW r \in Requests, ReqStep(r) \/ ReqLeave(r), UNCHANGED deques
    PROVE  DequesType' /\ \A t \in Tasks : Total(t)' = Total(t)
<1>1. Entries \subseteq Entries' /\ UNCHANGED <<main, worker, slot, answered, destroyed>>
  BY ReqGrows
<1>2. DequesType'
  BY <1>1, Unpack DEF DequesType, deques
<1>3. ASSUME NEW t \in Tasks PROVE Total(t)' = Total(t)
  <2>1. \A c : Held(c)' = Held(c)
    BY <1>1 DEF Held, Count, deques
  <2>2. Runs(t)' = Runs(t) /\ Done(t)' = Done(t)
    BY <1>1 DEF Runs, Done
  <2> QED BY <2>1, <2>2 DEF Total
<1> QED BY <1>2, <1>3

\* Steps before posting, and giving up.
LEMMA ReqQuiet ==
    ASSUME TaskInv, SleepInv', FlagsType', BlockedType', NEW r \in Requests,
           ReqEnter(r) \/ ReqWakes(r) \/ ReqCached(r) \/ ReqLeave(r)
    PROVE  TaskInv'
<1>1. UNCHANGED <<deques, respv, received>> /\ (ReqStep(r) \/ ReqLeave(r))
  BY DEF ReqEnter, ReqWakes, ReqCached, ReqLeave, ReqStep
<1>2. /\ ReqType' /\ ThreadsType' /\ SlotType' /\ HandsInv'
      /\ \A x \in Requests \ {r} : req'[x] = req[x] /\ received'[x] = received[x]
      /\ UNCHANGED <<main, slot>>
  BY <1>1, ReqGrows
<1>3. DequesType' /\ \A t \in Tasks : Total(t)' = Total(t)
  BY <1>1, ReqStill
<1>4. \/ req[r] \in {"new", "asleep"} /\ req'[r] \in {"ready", "asleep"}
      \/ req[r] = "ready" /\ req'[r] = "gone"
      \/ req[r] = "next" /\ req'[r] = "stop" /\ has_next(r)
  <2> USE Unpack DEF ReqTo, ReqType
  <2>1. CASE ReqEnter(r)
    BY <2>1 DEF ReqEnter
  <2>2. CASE ReqWakes(r)
    BY <2>2 DEF ReqWakes
  <2>3. CASE ReqCached(r)
    BY <2>3 DEF ReqCached
  <2>4. CASE ReqLeave(r)
    BY <2>4 DEF ReqLeave
  <2> QED BY <2>1, <2>2, <2>3, <2>4
<1>5. \A x \in Requests : HasError(x)' <=> HasError(x)
  BY <1>1 DEF HasError, respv
<1>6. Dead(r) => Dead(r)'
  BY <1>4, <1>5 DEF Dead, After
<1>7. ASSUME NEW t \in TaskIds(r)
      PROVE  /\ Total(t)' \in {0, 1}
             /\ req'[r] \in Before => Total(t)' = 0
             /\ req'[r] = "next" => Total(t)' = 1 \/ HasError(r)'
  <2>1. t \in Tasks /\ Owner[t] = r
    BY DEF TaskIds
  <2>2. Total(t)' = Total(t) /\ Total(t) \in {0, 1} /\ (req[r] \in Before => Total(t) = 0)
    BY <1>3, <2>1, Unpack DEF PlacesInv
  <2> QED BY <1>4, <2>2 DEF Before
<1>8. PlacesInv'
  BY <1>2, <1>3, <1>5, <1>6, <1>7, ReqPlaces
<1>9. RespType'
  BY <1>1, Unpack DEF RespType, respv
<1>10. \A t \in Tasks : Owner[t] \in Requests
  BY TasksAssumption
<1>11. ListInv'
  <2>1. \A t \in Tasks : t \in waiting_task_ids' <=> req'[Owner[t]] \in {"listed", "next", "stop"}
    BY <1>1, <1>2, <1>4, <1>10, Unpack DEF ListInv, respv
  <2>2. \A x \in Requests : req'[x] \in Before => received'[x] = 0
    BY <1>1, <1>2, <1>4, Unpack DEF ListInv, Before
  <2>3. \A x \in Requests : req'[x] = "stop" => has_next(x)'
    BY <1>1, <1>2, <1>4, Unpack DEF ListInv, has_next
  <2>4. \A i \in DOMAIN queue_results' : queue_results'[i].id \in answered'
    BY <1>1, Unpack DEF ListInv, respv
  <2> QED BY <2>1, <2>2, <2>3, <2>4 DEF ListInv
<1>12. ResultsDelivered'
  <2>1. \A x \in Requests : req'[x] = "next" => req[x] = "next"
    BY <1>2, <1>4
  <2>2. \A x \in Requests : req[x] = "unlisted" => req'[x] = "unlisted"
    BY <1>2, <1>4
  <2>3. \A i \in DOMAIN queue_results : queue_results[i].id \in Tasks
    <3>1. \A i \in DOMAIN queue_results : queue_results[i] \in Result
      BY Unpack DEF RespType
    <3> QED BY <3>1 DEF Result
  <2> QED BY <1>1, <1>10, <2>1, <2>2, <2>3, Unpack DEF ResultsDelivered, respv
<1> QED BY <1>2, <1>3, <1>8, <1>9, <1>11, <1>12 DEF TaskInv, ServerType

\* The results are those of tasks.
LEMMA ResultTasks ==
    ASSUME TaskInv, NEW i \in DOMAIN queue_results
    PROVE  /\ queue_results[i] \in Result /\ queue_results[i].id \in Tasks
           /\ Owner[queue_results[i].id] \in Requests
<1>1. queue_results[i] \in Result
  BY Unpack DEF RespType
<1> QED BY <1>1, TasksAssumption DEF Result

\* post_tasks: the ids are listed before the tasks are posted.
LEMMA ReqListKeeps ==
    ASSUME TaskInv, SleepInv', FlagsType', BlockedType', NEW r \in Requests, ReqList(r)
    PROVE  TaskInv'
<1>1. /\ UNCHANGED <<deques, queue_results, received>> /\ ReqStep(r)
      /\ waiting_task_ids' = waiting_task_ids \cup TaskIds(r)
      /\ req[r] = "ready" /\ req'[r] = "listed"
  BY Unpack DEF ReqList, ReqStep, ReqTo, ReqType
<1>2. /\ ReqType' /\ ThreadsType' /\ SlotType' /\ HandsInv'
      /\ \A x \in Requests \ {r} : req'[x] = req[x] /\ received'[x] = received[x]
      /\ UNCHANGED <<main, slot, answered, destroyed>>
  BY <1>1, ReqGrows
<1>3. DequesType' /\ \A t \in Tasks : Total(t)' = Total(t)
  BY <1>1, ReqStill
<1>4. \A x \in Requests : HasError(x)' <=> HasError(x)
  BY <1>1 DEF HasError
<1>5. Dead(r) => Dead(r)'
  BY <1>1, <1>4 DEF Dead, After
<1>6. ASSUME NEW t \in TaskIds(r) PROVE Total(t)' = 0
  BY <1>1, <1>3, Unpack DEF TaskIds, PlacesInv, Before
<1>7. PlacesInv'
  BY <1>1, <1>2, <1>3, <1>4, <1>5, <1>6, ReqPlaces
<1>8. \A t \in Tasks : Owner[t] \in Requests /\ (t \in TaskIds(r) <=> Owner[t] = r)
  BY TasksAssumption DEF TaskIds
<1>9. RespType'
  BY <1>1, <1>2, Unpack DEF RespType, TaskIds
<1>10. ListInv'
  <2>1. \A t \in Tasks : t \in waiting_task_ids' <=> req'[Owner[t]] \in {"listed", "next", "stop"}
    BY <1>1, <1>2, <1>8, Unpack DEF ListInv
  <2>2. \A x \in Requests : req'[x] \in Before => received'[x] = 0
    BY <1>1, <1>2, Unpack DEF ListInv, Before
  <2>3. \A x \in Requests : req'[x] = "stop" => has_next(x)'
    BY <1>1, <1>2, Unpack DEF ListInv, has_next
  <2>4. \A i \in DOMAIN queue_results' : queue_results'[i].id \in answered'
    BY <1>1, <1>2, Unpack DEF ListInv
  <2> QED BY <2>1, <2>2, <2>3, <2>4 DEF ListInv
<1>11. ResultsDelivered'
  <2>1. \A x \in Requests : req'[x] = "next" => req[x] = "next"
    BY <1>1, <1>2
  <2>2. \A x \in Requests : req[x] = "unlisted" => req'[x] = "unlisted"
    BY <1>1, <1>2
  <2> QED BY <1>1, <1>2, <2>1, <2>2, Unpack, ResultTasks DEF ResultsDelivered
<1> QED BY <1>2, <1>3, <1>7, <1>9, <1>10, <1>11 DEF TaskInv, ServerType

\* remove_waiting_task_ids: a reader that got all its results leaves none behind.
LEMMA ReqUnlistKeeps ==
    ASSUME TaskInv, SleepInv', FlagsType', BlockedType', NEW r \in Requests, ReqUnlist(r)
    PROVE  TaskInv'
<1>1. /\ UNCHANGED <<deques, queue_results, received>> /\ ReqStep(r)
      /\ waiting_task_ids' = waiting_task_ids \ TaskIds(r)
      /\ req[r] = "stop" \/ (req[r] = "next" /\ ~has_next(r))
      /\ req'[r] = IF has_next(r) THEN "unlisted" ELSE "gone"
  BY Unpack DEF ReqUnlist, ReqStep, ReqTo, ReqType
<1>2. /\ ReqType' /\ ThreadsType' /\ SlotType' /\ HandsInv'
      /\ \A x \in Requests \ {r} : req'[x] = req[x] /\ received'[x] = received[x]
      /\ UNCHANGED <<main, slot, answered, destroyed>>
  BY <1>1, ReqGrows
<1>3. DequesType' /\ \A t \in Tasks : Total(t)' = Total(t)
  BY <1>1, ReqStill
<1>4. \A x \in Requests : HasError(x)' <=> HasError(x)
  BY <1>1 DEF HasError
<1>5. req'[r] \in After /\ Dead(r)'
  BY <1>1 DEF Dead, After
<1>6. ASSUME NEW t \in TaskIds(r)
      PROVE  Total(t)' \in {0, 1} /\ req'[r] \notin Before /\ req'[r] # "next"
  BY <1>1, <1>3, Unpack DEF TaskIds, PlacesInv, Before
<1>7. PlacesInv'
  BY <1>2, <1>3, <1>4, <1>5, <1>6, ReqPlaces
<1>8. \A t \in Tasks : Owner[t] \in Requests /\ (t \in TaskIds(r) <=> Owner[t] = r)
  BY TasksAssumption DEF TaskIds
<1>9. RespType'
  BY <1>1, <1>2, Unpack DEF RespType
<1>10. ListInv'
  <2>1. \A t \in Tasks : t \in waiting_task_ids' <=> req'[Owner[t]] \in {"listed", "next", "stop"}
    BY <1>1, <1>2, <1>8, Unpack DEF ListInv
  <2>2. \A x \in Requests : req'[x] \in Before => received'[x] = 0
    BY <1>1, <1>2, Unpack DEF ListInv, Before
  <2>3. \A x \in Requests : req'[x] = "stop" => has_next(x)'
    BY <1>1, <1>2, Unpack DEF ListInv, has_next
  <2>4. \A i \in DOMAIN queue_results' : queue_results'[i].id \in answered'
    BY <1>1, <1>2, Unpack DEF ListInv
  <2> QED BY <2>1, <2>2, <2>3, <2>4 DEF ListInv
<1>11. ASSUME ~has_next(r), NEW i \in DOMAIN queue_results PROVE queue_results[i].id \notin TaskIds(r)
  <2>1. req[r] = "next"
    BY <1>1, <1>11, Unpack DEF ListInv
  <2>2. queue_results \in Seq(Result) /\ received[r] \in Nat
    BY Unpack DEF RespType, ReqType
  <2>3. received[r] + Hits(queue_results, ForReader(r)) = Cardinality(answered \cap TaskIds(r))
    BY <2>1, <2>2, Unpack, ResultCount DEF ResultsDelivered
  <2>4. /\ IsFiniteSet(TaskIds(r)) /\ Cardinality(TaskIds(r)) \in Nat
        /\ Cardinality(answered \cap TaskIds(r)) \in Nat
        /\ Cardinality(answered \cap TaskIds(r)) <= Cardinality(TaskIds(r))
    <3>1. IsFiniteSet(TaskIds(r))
      <4>1. TaskIds(r) \in SUBSET Tasks
        BY DEF TaskIds
      <4> QED BY <4>1, TasksAssumption, FS_Subset
    <3>2. answered \cap TaskIds(r) \in SUBSET TaskIds(r)
      OBVIOUS
    <3> QED BY <3>1, <3>2, FS_Subset, FS_CardinalityType
  <2>5. ~(received[r] < Cardinality(TaskIds(r)))
    BY <1>11 DEF has_next
  <2>6. Hits(queue_results, ForReader(r)) \in Nat
    BY <2>2, HitsType
  <2>7. Hits(queue_results, ForReader(r)) = 0
    BY <2>2, <2>3, <2>4, <2>5, <2>6
  <2>8. queue_results[i] \notin ForReader(r)
    BY <2>2, <2>7, HitsType
  <2> QED BY <2>8, ResultTasks DEF ForReader
<1>12. ResultsDelivered'
  <2>1. \A x \in Requests : req'[x] = "next" => req[x] = "next"
    BY <1>1, <1>2
  <2>2. ASSUME NEW i \in DOMAIN queue_results
        PROVE  \/ queue_results[i].id \in waiting_task_ids'
               \/ req'[Owner[queue_results[i].id]] = "unlisted"
    <3>1. PICK t \in Tasks : t = queue_results[i].id
      BY ResultTasks
    <3>2. t \in waiting_task_ids \/ req[Owner[t]] = "unlisted"
      BY <3>1, Unpack DEF ResultsDelivered
    <3>3. CASE t \in TaskIds(r)
      BY <1>1, <1>8, <1>11, <3>1, <3>3
    <3>4. CASE t \notin TaskIds(r)
      BY <1>1, <1>2, <1>8, <3>1, <3>2, <3>4
    <3> QED BY <3>3, <3>4
  <2> QED BY <1>1, <1>2, <2>1, <2>2, Unpack DEF ResultsDelivered
<1> QED BY <1>2, <1>3, <1>7, <1>9, <1>10, <1>12 DEF TaskInv, ServerType

\* The errors for the reader of r.
Errors(r) == {x \in Result : x.id \in TaskIds(r) /\ x.error}

LEMMA ErrorCount ==
    ASSUME NEW q \in Seq(Result), NEW r
    PROVE  (\E i \in DOMAIN q : q[i].id \in TaskIds(r) /\ q[i].error) <=> Hits(q, Errors(r)) # 0
<1>1. \A i \in DOMAIN q : q[i] \in Result
  OBVIOUS
<1>2. Hits(q, Errors(r)) # 0 <=> \E i \in DOMAIN q : q[i] \in Errors(r)
  BY HitsType
<1> QED BY <1>1, <1>2 DEF Errors

\* A reader takes results of its own.
LEMMA FewerKeeps ==
    ASSUME TaskInv, SleepInv', FlagsType', BlockedType', NEW r \in Requests, ReqStep(r),
           UNCHANGED <<deques, waiting_task_ids>>, queue_results' \in Seq(Result),
           \A k \in DOMAIN queue_results' : \E i \in DOMAIN queue_results :
                queue_results'[k] = queue_results[i],
           \A x \in Requests \ {r} :
                /\ Hits(queue_results', ForReader(x)) = Hits(queue_results, ForReader(x))
                /\ Hits(queue_results', Errors(x)) = Hits(queue_results, Errors(x)),
           \/ /\ req[r] = "unlisted" /\ req'[r] = "purged" /\ received'[r] = received[r]
              /\ \A k \in DOMAIN queue_results' : queue_results'[k].id \notin TaskIds(r)
           \/ req[r] = "next" /\ has_next(r) /\ req'[r] = "stop" /\ received'[r] = received[r]
           \/ /\ req[r] = "next" /\ req'[r] = "next"
              /\ received'[r] + Hits(queue_results', ForReader(r))
                   = received[r] + Hits(queue_results, ForReader(r))
              /\ Hits(queue_results', Errors(r)) = Hits(queue_results, Errors(r))
    PROVE  TaskInv'
<1>1. /\ ReqType' /\ ThreadsType' /\ SlotType' /\ HandsInv'
      /\ \A x \in Requests \ {r} : req'[x] = req[x] /\ received'[x] = received[x]
      /\ UNCHANGED <<main, slot, answered, destroyed>>
  BY ReqGrows
<1>2. DequesType' /\ \A t \in Tasks : Total(t)' = Total(t)
  BY ReqStill
<1>3. queue_results \in Seq(Result) /\ RespType'
  BY <1>1, Unpack DEF RespType
<1>4. \A x \in Requests : /\ HasError(x) <=> Hits(queue_results, Errors(x)) # 0
                          /\ HasError(x)' <=> Hits(queue_results', Errors(x)) # 0
  BY <1>3, ErrorCount DEF HasError
<1>5. Dead(r) => Dead(r)'
  BY <1>4 DEF Dead, After
<1>6. ASSUME NEW t \in TaskIds(r)
      PROVE  /\ Total(t)' \in {0, 1}
             /\ req'[r] \in Before => Total(t)' = 0
             /\ req'[r] = "next" => Total(t)' = 1 \/ HasError(r)'
  <2>1. t \in Tasks /\ Owner[t] = r
    BY DEF TaskIds
  <2>2. /\ Total(t)' = Total(t) /\ Total(t) \in {0, 1}
        /\ req[r] = "next" => Total(t) = 1 \/ HasError(r)
    BY <1>2, <2>1, Unpack DEF PlacesInv
  <2> QED BY <1>4, <2>2 DEF Before
<1>7. PlacesInv'
  BY <1>1, <1>2, <1>4, <1>5, <1>6, ReqPlaces
<1>8. \A t \in Tasks : Owner[t] \in Requests /\ (t \in TaskIds(r) <=> Owner[t] = r)
  BY TasksAssumption DEF TaskIds
<1>9. ListInv'
  <2>1. \A t \in Tasks : t \in waiting_task_ids' <=> req'[Owner[t]] \in {"listed", "next", "stop"}
    BY <1>1, <1>8, Unpack DEF ListInv
  <2>2. \A x \in Requests : req'[x] \in Before => received'[x] = 0
    BY <1>1, Unpack DEF ListInv, Before
  <2>3. \A x \in Requests : req'[x] = "stop" => has_next(x)'
    BY <1>1, Unpack DEF ListInv, has_next
  <2>4. \A i \in DOMAIN queue_results' : queue_results'[i].id \in answered'
    BY <1>1, Unpack DEF ListInv
  <2> QED BY <2>1, <2>2, <2>3, <2>4 DEF ListInv
<1>10. ASSUME NEW x \in Requests, req'[x] = "next"
       PROVE  received'[x] + Hits(queue_results', ForReader(x)) = Cardinality(answered' \cap TaskIds(x))
  <2>1. req[x] = "next"
    BY <1>1, <1>10
  <2>2. received[x] + Hits(queue_results, ForReader(x)) = Cardinality(answered \cap TaskIds(x))
    BY <1>3, <2>1, Unpack, ResultCount DEF ResultsDelivered
  <2> QED BY <1>1, <1>10, <2>2
<1>11. ASSUME NEW k \in DOMAIN queue_results'
       PROVE  \/ queue_results'[k].id \in waiting_task_ids'
              \/ req'[Owner[queue_results'[k].id]] = "unlisted"
  <2>1. PICK i \in DOMAIN queue_results : queue_results'[k] = queue_results[i]
    OBVIOUS
  <2>2. PICK t \in Tasks : t = queue_results[i].id
    BY ResultTasks
  <2>3. t \in waiting_task_ids \/ req[Owner[t]] = "unlisted"
    BY <2>2, Unpack DEF ResultsDelivered
  <2>4. queue_results'[k].id = t
    BY <2>1, <2>2
  <2>5. CASE Owner[t] = r
    BY <1>8, <2>3, <2>4, <2>5
  <2>6. CASE Owner[t] # r
    BY <1>1, <1>8, <2>3, <2>4, <2>6
  <2> QED BY <2>5, <2>6
<1>12. ResultsDelivered'
  <2>1. \A x \in Requests : req'[x] = "next" =>
          received'[x] + Cardinality({i \in DOMAIN queue_results' : queue_results'[i].id \in TaskIds(x)})
            = Cardinality(answered' \cap TaskIds(x))
    BY <1>10, ResultCount
  <2> QED BY <1>11, <2>1 DEF ResultsDelivered
<1> QED BY <1>1, <1>2, <1>3, <1>7, <1>9, <1>12 DEF TaskInv, ServerType

\* The tasks of two requests are different.
LEMMA ReadersApart ==
    ASSUME NEW r, NEW x, x # r
    PROVE  TaskIds(x) \cap TaskIds(r) = {}
BY DEF TaskIds

\* recv hands one result of its own to a reader.
LEMMA ReqNextKeeps ==
    ASSUME TaskInv, SleepInv', FlagsType', BlockedType', NEW r \in Requests, ReqNext(r)
    PROVE  TaskInv'
<1> DEFINE q == queue_results
           i == FirstFor(q, TaskIds(r))
<1>1. q \in Seq(Result) /\ req[r] = "next" /\ has_next(r)
  BY Unpack DEF RespType, ReqNext
<1>2. /\ i # 0 /\ q' = RemoveAt(q, i)
      /\ IF q[i].error THEN ReqTo(r, "stop") /\ UNCHANGED received
                       ELSE received' = [received EXCEPT ![r] = @ + 1] /\ UNCHANGED req
      /\ UNCHANGED <<deques, waiting_task_ids>>
  BY DEF ReqNext
<1>3. i \in DOMAIN q /\ q[i].id \in TaskIds(r)
  BY <1>1, <1>2, FirstForFacts
<1> HIDE DEF i
<1>4. q[i] \in Result /\ q' \in Seq(Result)
  BY <1>1, <1>2, <1>3, HitsRemoveAt
<1>5. ASSUME NEW S
      PROVE  /\ Hits(q, S) = Hits(q', S) + (IF q[i] \in S THEN 1 ELSE 0)
             /\ Hits(q, S) \in Nat /\ Hits(q', S) \in Nat
  <2>1. Hits(q, S) = Hits(RemoveAt(q, i), S) + Hits(<<q[i]>>, S)
    BY <1>1, <1>3, HitsRemoveAt
  <2>2. Hits(<<q[i]>>, S) = IF q[i] \in S THEN 1 ELSE 0
    BY HitsOne
  <2> QED BY <1>1, <1>2, <1>4, <2>1, <2>2, HitsType
<1>6. ASSUME NEW k \in DOMAIN q' PROVE \E j \in DOMAIN q : q'[k] = q[j]
  <2> DEFINE S == {q'[k]}
  <2>1. q'[k] \in S
    OBVIOUS
  <2> HIDE DEF S
  <2>2. Hits(q', S) # 0
    BY <1>4, <2>1, HitsType
  <2>3. Hits(q, S) # 0
    BY <1>5, <2>2
  <2>4. \E j \in DOMAIN q : q[j] \in S
    BY <1>1, <2>3, HitsType
  <2> QED BY <2>4 DEF S
<1>7. ASSUME NEW x \in Requests \ {r}
      PROVE  Hits(q', ForReader(x)) = Hits(q, ForReader(x)) /\ Hits(q', Errors(x)) = Hits(q, Errors(x))
  <2>1. q[i] \notin ForReader(x) /\ q[i] \notin Errors(x)
    BY <1>3, ReadersApart DEF ForReader, Errors
  <2> QED BY <1>5, <2>1
<1>8. q[i] \in ForReader(r) /\ (q[i] \in Errors(r) <=> q[i].error)
  BY <1>3, <1>4 DEF ForReader, Errors
<1>9. /\ Hits(q, ForReader(r)) = Hits(q', ForReader(r)) + 1
      /\ Hits(q, ForReader(r)) \in Nat /\ Hits(q', ForReader(r)) \in Nat
      /\ ~q[i].error => Hits(q', Errors(r)) = Hits(q, Errors(r))
  BY <1>5, <1>8
<1>10. req \in [Requests -> ReqPcs] /\ received \in [Requests -> Nat] /\ ReqStep(r)
  BY Unpack DEF ReqType, ReqStep
<1>11. \/ req'[r] = "stop" /\ received'[r] = received[r]
       \/ /\ req'[r] = "next" /\ received'[r] + Hits(q', ForReader(r)) = received[r] + Hits(q, ForReader(r))
          /\ Hits(q', Errors(r)) = Hits(q, Errors(r))
  <2>1. CASE q[i].error
    BY <1>2, <1>10, <2>1 DEF ReqTo
  <2>2. CASE ~q[i].error
    <3>1. received'[r] = received[r] + 1 /\ req'[r] = "next"
      BY <1>1, <1>2, <1>10, <2>2
    <3> QED BY <1>9, <1>10, <2>2, <3>1
  <2> QED BY <2>1, <2>2
<1> QED BY <1>1, <1>2, <1>4, <1>6, <1>7, <1>10, <1>11, FewerKeeps

\* remove_waiting_task_id: the results of the reader go, and no other.
LEMMA ReqPurgeKeeps ==
    ASSUME TaskInv, SleepInv', FlagsType', BlockedType', NEW r \in Requests, ReqPurge(r)
    PROVE  TaskInv'
<1> DEFINE q == queue_results
           K == {i \in DOMAIN q : q[i].id \notin TaskIds(r)}
<1>1. q \in Seq(Result) /\ K \in SUBSET DOMAIN q /\ req \in [Requests -> ReqPcs]
  BY Unpack DEF RespType, ReqType
<1>2. /\ req[r] = "unlisted" /\ req'[r] = "purged" /\ received'[r] = received[r]
      /\ q' = Kept(q, K) /\ UNCHANGED <<deques, waiting_task_ids>> /\ ReqStep(r)
  BY <1>1 DEF ReqPurge, ReqTo, Purged, ReqStep
<1>3. \A i \in K : q[i].id \notin TaskIds(r) /\ i \in DOMAIN q
  OBVIOUS
<1>4. ASSUME NEW x \in Requests \ {r}
      PROVE  /\ {i \in K : q[i] \in ForReader(x)} = PlacesOf(q, ForReader(x))
             /\ {i \in K : q[i] \in Errors(x)} = PlacesOf(q, Errors(x))
  <2>1. \A y \in Result : y.id \in TaskIds(x) => y.id \notin TaskIds(r)
    BY ReadersApart
  <2> QED BY <2>1 DEF PlacesOf, ForReader, Errors
<1> HIDE DEF K
<1>5. /\ q' \in Seq(Result) /\ \A k \in DOMAIN q' : \E i \in K : q'[k] = q[i]
      /\ \A S : Hits(q', S) = Cardinality({i \in K : q[i] \in S})
  <2>1. ASSUME NEW S
        PROVE  /\ Kept(q, K) \in Seq(Result)
               /\ \A k \in DOMAIN Kept(q, K) : \E i \in K : Kept(q, K)[k] = q[i]
               /\ Hits(Kept(q, K), S) = Cardinality({i \in K : q[i] \in S})
    <3> HIDE DEF q
    <3> QED BY <1>1, HitsKept
  <2> QED BY <1>2, <2>1, Zenon
<1>6. \A x \in Requests \ {r} : /\ Hits(q', ForReader(x)) = Hits(q, ForReader(x))
                                /\ Hits(q', Errors(x)) = Hits(q, Errors(x))
  BY <1>4, <1>5 DEF Hits
<1>7. \A k \in DOMAIN q' : /\ \E i \in DOMAIN q : q'[k] = q[i]
                           /\ q'[k].id \notin TaskIds(r)
  BY <1>3, <1>5
<1> QED BY <1>2, <1>5, <1>6, <1>7, FewerKeeps

\* A request that posted nothing yet has no result and no answered task.
LEMMA BeforePosting ==
    ASSUME TaskInv, NEW r \in Requests, req[r] \in Before
    PROVE  /\ answered \cap TaskIds(r) = {}
           /\ \A i \in DOMAIN queue_results : queue_results[i].id \notin TaskIds(r)
<1>1. ASSUME NEW t \in TaskIds(r) PROVE t \notin answered
  <2>1. t \in Tasks /\ Owner[t] = r
    BY DEF TaskIds
  <2>2. Total(t) = 0
    BY <2>1, Unpack DEF PlacesInv
  <2>3. /\ Held(Carrier(t)) \in Nat /\ Cardinality(Runs(t)) \in Nat /\ Done(t) \in {0, 1}
        /\ Done(t) = 1 <=> t \in answered \cup destroyed
    BY <2>1, Unpack, TotalFacts, CarrierFacts
  <2>4. Done(t) = 0
    BY <2>2, <2>3 DEF Total
  <2> QED BY <2>3, <2>4
<1> QED BY <1>1, Unpack DEF ListInv

\* post: the tasks of the request are now in the queue, each once, the children in
\* the entry of their parent.
LEMMA ReqPostKeeps ==
    ASSUME TaskInv, SleepInv', FlagsType', BlockedType', NEW r \in Requests, ReqPost(r)
    PROVE  TaskInv'
<1> DEFINE es == {TaskEntry(t) : t \in TopTasks(r)}
           q == queue_tasks
<1>1. /\ UNCHANGED <<queue_tasks_deferred, queue_tasks_unhandled, respv, received>> /\ ReqStep(r)
      /\ req[r] = "listed" /\ req'[r] = "next"
  BY Unpack DEF ReqPost, ReqStep, ReqTo, ReqType
<1>2. \E front \in BOOLEAN : q' \in Posts(q, es, front)
  BY DEF ReqPost
<1>3. /\ ReqType' /\ ThreadsType' /\ SlotType' /\ HandsInv' /\ Entries \subseteq Entries'
      /\ \A x \in Requests \ {r} : req'[x] = req[x] /\ received'[x] = received[x]
      /\ UNCHANGED <<main, worker, slot, answered, destroyed>>
  BY <1>1, ReqGrows
<1>4. es \in SUBSET Entries /\ IsFiniteSet(es) /\ q \in Seq(Entries) /\ Entries \in SUBSET AllEntries
  BY Unpack, PostedFinite DEF Entries, TopTasks, DequesType
<1>5. \A c \in Tasks : TaskEntry(c) \in es <=> c \in TopTasks(r)
  BY DEF TaskEntry
<1> HIDE DEF es
<1>6. PICK front \in BOOLEAN : q' \in Posts(q, es, front)
  BY <1>2
<1>7. ASSUME NEW c \in Tasks
      PROVE  q' \in Seq(Entries) /\ Count(q', c) = Count(q, c) + (IF c \in TopTasks(r) THEN 1 ELSE 0)
  BY <1>4, <1>5, <1>6, CountPosts
<1>8. q' \in Seq(Entries)
  <2>1. PICK p \in SetToSeqs(es) : q' = IF front THEN p \o q ELSE q \o p
    BY <1>6 DEF Posts
  <2>2. p \in Seq(es)
    BY <1>4, HitsPerm
  <2>3. p \in Seq(Entries)
    BY <1>4, <2>2
  <2> QED BY <1>4, <2>1, <2>3
<1>9. DequesType'
  BY <1>1, <1>3, <1>8, Unpack DEF DequesType
<1>10. ASSUME NEW t \in Tasks
       PROVE  /\ Owner[t] # r => Total(t)' = Total(t)
              /\ Owner[t] = r => Total(t)' = 1
  <2>1. PICK c \in Tasks : c = Carrier(t)
    BY CarrierFacts
  <2>2. c \in TopTasks(r) <=> Owner[t] = r
    BY <2>1, CarrierFacts DEF TopTasks
  <2>3. Count(q', c) = Count(q, c) + (IF Owner[t] = r THEN 1 ELSE 0)
    BY <1>7, <2>2
  <2>4. /\ Count(q, c) \in Nat /\ Count(queue_tasks_deferred, c) \in Nat
        /\ Count(queue_tasks_unhandled, c) \in Nat
        /\ Count(<<main.task>>, c) = IF main.task = TaskEntry(c) THEN 1 ELSE 0
        /\ Count(<<worker.task>>, c) = IF worker.task = TaskEntry(c) THEN 1 ELSE 0
        /\ Held(c) \in Nat
    BY Unpack, TotalFacts, Zenon
  <2>5. Held(c)' = Count(q', c) + Count(queue_tasks_deferred, c) + Count(queue_tasks_unhandled, c)
                   + Count(<<main.task>>, c) + Count(<<worker.task>>, c)
    BY <1>1, <1>3 DEF Held, Count
  <2>6. Held(c)' = Held(c) + (IF Owner[t] = r THEN 1 ELSE 0)
    BY <2>3, <2>4, <2>5 DEF Held
  <2>7. Runs(t)' = Runs(t) /\ Done(t)' = Done(t)
    BY <1>3 DEF Runs, Done
  <2>8. Total(t)' = Held(c)' + Cardinality(Runs(t)) + Done(t)
    BY <2>1, <2>7 DEF Total
  <2>9. Total(t) = Held(c) + Cardinality(Runs(t)) + Done(t)
    BY <2>1 DEF Total
  <2>10. Cardinality(Runs(t)) \in Nat /\ Done(t) \in {0, 1}
    BY Unpack, TotalFacts
  <2>11. Owner[t] = r => Total(t) = 0
    BY <1>1, Unpack DEF PlacesInv, Before
  <2> QED BY <2>4, <2>6, <2>8, <2>9, <2>10, <2>11
<1>11. \A x \in Requests : HasError(x)' <=> HasError(x)
  BY <1>1 DEF HasError, respv
<1>12. Dead(r) => Dead(r)'
  BY <1>1, <1>11 DEF Dead, After
<1>13. \A t \in TaskIds(r) : Total(t)' = 1
  BY <1>10 DEF TaskIds
<1>14. PlacesInv'
  BY <1>1, <1>3, <1>10, <1>11, <1>12, <1>13, ReqPlaces DEF Before
<1>15. \A t \in Tasks : Owner[t] \in Requests
  BY TasksAssumption
<1>16. RespType'
  BY <1>1, Unpack DEF RespType, respv
<1>17. ListInv'
  <2>1. \A t \in Tasks : t \in waiting_task_ids' <=> req'[Owner[t]] \in {"listed", "next", "stop"}
    BY <1>1, <1>3, <1>15, Unpack DEF ListInv, respv
  <2>2. \A x \in Requests : req'[x] \in Before => received'[x] = 0
    BY <1>1, <1>3, Unpack DEF ListInv, Before
  <2>3. \A x \in Requests : req'[x] = "stop" => has_next(x)'
    BY <1>1, <1>3, Unpack DEF ListInv, has_next
  <2>4. \A i \in DOMAIN queue_results' : queue_results'[i].id \in answered'
    BY <1>1, Unpack DEF ListInv, respv
  <2> QED BY <2>1, <2>2, <2>3, <2>4 DEF ListInv
<1>18. ResultsDelivered'
  <2>1. received[r] = 0 /\ answered \cap TaskIds(r) = {}
        /\ {i \in DOMAIN queue_results : queue_results[i].id \in TaskIds(r)} = {}
    BY <1>1, Unpack, BeforePosting DEF ListInv, Before
  <2>2. received[r] + Cardinality({i \in DOMAIN queue_results : queue_results[i].id \in TaskIds(r)})
          = Cardinality(answered \cap TaskIds(r))
    <3>1. /\ Cardinality(answered \cap TaskIds(r)) = 0
          /\ Cardinality({i \in DOMAIN queue_results : queue_results[i].id \in TaskIds(r)}) = 0
      BY <2>1, FS_EmptySet, Zenon
    <3> QED BY <2>1, <3>1
  <2>3. \A x \in Requests \ {r} : req'[x] = req[x]
    BY <1>3
  <2>4. \A x \in Requests : req[x] = "unlisted" => req'[x] = "unlisted"
    BY <1>1, <1>3
  <2> QED BY <1>1, <2>2, <2>3, <2>4, Unpack, ResultTasks DEF ResultsDelivered, respv
<1> QED BY <1>3, <1>9, <1>14, <1>16, <1>17, <1>18 DEF TaskInv, ServerType

\* stop: what is pending of the request is erased and a CANCEL is posted for each
\* task; what is in a hand or in a slot is left for the CANCEL.
LEMMA ReqCancelKeeps ==
    ASSUME TaskInv, SleepInv', FlagsType', BlockedType', NEW r \in Requests, ReqCancel(r)
    PROVE  TaskInv'
<1> DEFINE es == {CancelEntry(t) : t \in TaskIds(r)}
           X == Entries'
           ids == TaskIds(r)
           q == queue_tasks
           d == queue_tasks_deferred
           u == queue_tasks_unhandled
<1>1. /\ UNCHANGED <<respv, received>> /\ ReqStep(r)
      /\ req[r] = "purged" /\ req'[r] = "gone"
      /\ q' \in Posts(Cleanup(q, ids), es, TRUE) /\ d' = Cleanup(d, ids) /\ u' = Cleanup(u, ids)
  BY Unpack DEF ReqCancel, ReqStep, ReqTo, ReqType
<1>2. /\ ReqType' /\ ThreadsType' /\ SlotType' /\ HandsInv' /\ Entries \subseteq Entries'
      /\ \A x \in Requests \ {r} : req'[x] = req[x] /\ received'[x] = received[x]
      /\ UNCHANGED <<main, worker, slot, answered, destroyed>>
  BY <1>1, ReqGrows
<1>3. /\ es \in SUBSET X /\ IsFiniteSet(es) /\ X \in SUBSET AllEntries
      /\ q \in Seq(X) /\ d \in Seq(X) /\ u \in Seq(X)
  <2>1. es \in SUBSET X
    BY <1>1 DEF Entries, TaskIds
  <2>2. X \in SUBSET AllEntries
    BY DEF Entries, AllEntries
  <2>3. q \in Seq(X) /\ d \in Seq(X) /\ u \in Seq(X)
    BY <1>2, Unpack DEF DequesType
  <2> QED BY <2>1, <2>2, <2>3, PostedFinite
<1>4. \A c \in Tasks : TaskEntry(c) \notin es
  <2>1. "cancel" \notin TaskTypes /\ \A c \in Tasks : Type[c] \in TaskTypes
    BY TasksAssumption DEF TaskTypes, InferTypes, SlotTypes, ReplyTypes, ReadTypes, ControlTypes
  <2> QED BY <2>1 DEF TaskEntry, CancelEntry
<1> HIDE DEF es, X, ids
<1>5. Cleanup(q, ids) \in Seq(X) /\ d' \in Seq(X) /\ u' \in Seq(X)
  <2>1. ASSUME NEW b \in Seq(X) PROVE Cleanup(b, ids) \in Seq(X)
    <3>1. PICK K \in SUBSET DOMAIN b : Cleanup(b, ids) = Kept(b, K)
      BY DEF Cleanup
    <3> QED BY <3>1, HitsKept
  <2> QED BY <1>1, <1>3, <2>1
<1>6. q' \in Seq(X)
  <2>1. PICK p \in SetToSeqs(es) : q' = p \o Cleanup(q, ids)
    BY <1>1 DEF Posts
  <2>2. p \in Seq(es)
    BY <1>3, HitsPerm
  <2>3. p \in Seq(X)
    BY <1>3, <2>2
  <2> QED BY <1>5, <2>1, <2>3
<1>7. ASSUME NEW c \in Tasks
      PROVE  /\ Count(q', c) = IF c \in ids THEN 0 ELSE Count(q, c)
             /\ Count(d', c) = IF c \in ids THEN 0 ELSE Count(d, c)
             /\ Count(u', c) = IF c \in ids THEN 0 ELSE Count(u, c)
  <2>1. /\ Count(Cleanup(q, ids), c) = IF c \in ids THEN 0 ELSE Count(q, c)
        /\ Count(Cleanup(d, ids), c) = IF c \in ids THEN 0 ELSE Count(d, c)
        /\ Count(Cleanup(u, ids), c) = IF c \in ids THEN 0 ELSE Count(u, c)
    <3>1. ASSUME NEW b \in Seq(X) PROVE Count(Cleanup(b, ids), c) = IF c \in ids THEN 0 ELSE Count(b, c)
      BY <1>3, CountCleanup
    <3> QED BY <1>3, <3>1, Zenon
  <2>2. Count(q', c) = Count(Cleanup(q, ids), c) + 0 /\ Count(Cleanup(q, ids), c) \in Nat
    <3>1. Count(Cleanup(q, ids), c) \in Nat
      BY <1>3, <1>5, CountFacts
    <3>2. Count(q', c) = Count(Cleanup(q, ids), c) + (IF TaskEntry(c) \in es THEN 1 ELSE 0)
      <4>1. PICK b \in Seq(X) : b = Cleanup(q, ids)
        BY <1>5
      <4>2. PICK front : front = TRUE
        OBVIOUS
      <4>3. PICK y \in Posts(b, es, front) : y = q'
        BY <1>1, <4>1, <4>2, Zenon
      <4>4. Count(y, c) = Count(b, c) + (IF TaskEntry(c) \in es THEN 1 ELSE 0)
        BY <1>3, CountPosts
      <4> QED BY <4>1, <4>3, <4>4, Zenon
    <3> QED BY <1>4, <3>1, <3>2
  <2> QED BY <1>1, <2>1, <2>2
<1>8. DequesType'
  BY <1>5, <1>6 DEF DequesType, X
<1>9. ASSUME NEW t \in Tasks
      PROVE  /\ Owner[t] # r => Total(t)' = Total(t)
             /\ Total(t)' \in {0, 1}
  <2>1. PICK c \in Tasks : c = Carrier(t)
    BY CarrierFacts
  <2>2. c \in ids <=> Owner[t] = r
    BY <2>1, CarrierFacts DEF TaskIds, ids
  <2>3. /\ Count(q, c) \in Nat /\ Count(d, c) \in Nat /\ Count(u, c) \in Nat
        /\ Count(<<main.task>>, c) = IF main.task = TaskEntry(c) THEN 1 ELSE 0
        /\ Count(<<worker.task>>, c) = IF worker.task = TaskEntry(c) THEN 1 ELSE 0
    BY Unpack, TotalFacts, Zenon
  <2>4. Held(c)' = Count(q', c) + Count(d', c) + Count(u', c)
                   + Count(<<main.task>>, c) + Count(<<worker.task>>, c)
    BY <1>2 DEF Held, Count
  <2>5. /\ Owner[t] # r => Held(c)' = Held(c)
        /\ Held(c)' \in Nat /\ Held(c) \in Nat /\ Held(c)' <= Held(c)
    BY <1>7, <2>2, <2>3, <2>4 DEF Held
  <2>6. Runs(t)' = Runs(t) /\ Done(t)' = Done(t)
    BY <1>2 DEF Runs, Done
  <2>7. Total(t)' = Held(c)' + Cardinality(Runs(t)) + Done(t)
    BY <2>1, <2>6 DEF Total
  <2>8. Total(t) = Held(c) + Cardinality(Runs(t)) + Done(t) /\ Total(t) \in {0, 1}
    BY <2>1, Unpack DEF Total, PlacesInv
  <2>9. Cardinality(Runs(t)) \in Nat /\ Done(t) \in {0, 1}
    BY Unpack, TotalFacts
  <2> QED BY <2>5, <2>7, <2>8, <2>9
<1>10. \A x \in Requests : HasError(x)' <=> HasError(x)
  BY <1>1 DEF HasError, respv
<1>11. Dead(r)'
  BY <1>1 DEF Dead, After
<1>12. \A t \in TaskIds(r) : Total(t)' \in {0, 1} /\ req'[r] \notin Before /\ req'[r] # "next"
  BY <1>1, <1>9 DEF TaskIds, Before
<1>13. PlacesInv'
  BY <1>2, <1>9, <1>10, <1>11, <1>12, ReqPlaces
<1>14. \A t \in Tasks : Owner[t] \in Requests
  BY TasksAssumption
<1>15. RespType'
  BY <1>1, Unpack DEF RespType, respv
<1>16. ListInv'
  <2>1. \A t \in Tasks : t \in waiting_task_ids' <=> req'[Owner[t]] \in {"listed", "next", "stop"}
    BY <1>1, <1>2, <1>14, Unpack DEF ListInv, respv
  <2>2. \A x \in Requests : req'[x] \in Before => received'[x] = 0
    BY <1>1, <1>2, Unpack DEF ListInv, Before
  <2>3. \A x \in Requests : req'[x] = "stop" => has_next(x)'
    BY <1>1, <1>2, Unpack DEF ListInv, has_next
  <2>4. \A i \in DOMAIN queue_results' : queue_results'[i].id \in answered'
    BY <1>1, Unpack DEF ListInv, respv
  <2> QED BY <2>1, <2>2, <2>3, <2>4 DEF ListInv
<1>17. ResultsDelivered'
  <2>1. \A x \in Requests : req'[x] = "next" => req[x] = "next"
    BY <1>1, <1>2
  <2>2. \A x \in Requests : req[x] = "unlisted" => req'[x] = "unlisted"
    BY <1>1, <1>2
  <2> QED BY <1>1, <2>1, <2>2, Unpack, ResultTasks DEF ResultsDelivered, respv
<1> QED BY <1>2, <1>8, <1>13, <1>15, <1>16, <1>17 DEF TaskInv, ServerType

-----------------------------------------------------------------------------
(* The theorems.                                                           *)

\* No task is anywhere before a request posts it.
LEMMA TaskInvInit == Init => TaskInv
<1> SUFFICES ASSUME Init PROVE TaskInv
  OBVIOUS
<1>1. NoEntry \in Entries /\ Entries \in SUBSET AllEntries
  BY EntriesFacts
<1>2. FlagsType /\ BlockedType /\ ReqType /\ RespType
  <2>1. FlagsType
    BY DEF Init, FlagsType
  <2>2. BlockedType /\ RespType
    BY DEF Init, BlockedType, RespType
  <2>3. ReqType
    BY DEF Init, ReqType, ReqPcs
  <2> QED BY <2>1, <2>2, <2>3
<1>3. ThreadsType
  BY <1>1, ServerAssumption DEF Init, ThreadsType, MainPcs, WorkerPcs
<1>4. SlotType
  BY TasksAssumption DEF Init, SlotType, IdleSlot, is_processing, SlotStates
<1>5. DequesType /\ HandsInv
  BY DEF Init, DequesType, HandsInv
<1>6. \A t \in Tasks : Owner[t] \in Requests
  BY TasksAssumption
<1>7. ListInv
  BY <1>6 DEF Init, ListInv, Before
<1>8. ResultsDelivered
  BY DEF Init, ResultsDelivered
<1>9. ASSUME NEW t \in Tasks PROVE Total(t) = 0
  <2>1. PICK c \in Tasks : c = Carrier(t)
    BY CarrierFacts
  <2>2. Count(<<>>, c) = 0
    <3>1. {i \in DOMAIN <<>> : IsTask(<<>>[i]) /\ <<>>[i].id = c} = {}
      OBVIOUS
    <3> QED BY <3>1, FS_EmptySet DEF Count
  <2>3. Count(<<NoEntry>>, c) = 0
    BY NoEntryCounts
  <2>4. Held(c) = 0
    <3>1. /\ queue_tasks = <<>> /\ queue_tasks_deferred = <<>> /\ queue_tasks_unhandled = <<>>
          /\ main.task = NoEntry /\ worker.task = NoEntry
      BY DEF Init
    <3>2. Held(c) = 0 + 0 + 0 + 0 + 0
      BY <2>2, <2>3, <3>1, Zenon DEF Held
    <3> QED BY <3>2
  <2>5. Cardinality(Runs(t)) = 0
    <3>1. Runs(t) = {}
      BY TasksAssumption DEF Init, Runs, IdleSlot
    <3> QED BY <3>1, FS_EmptySet
  <2>6. Done(t) = 0
    BY DEF Init, Done
  <2> QED BY <2>1, <2>4, <2>5, <2>6 DEF Total
<1>10. PlacesInv
  BY <1>6, <1>9 DEF Init, PlacesInv, Before
<1> QED BY <1>2, <1>3, <1>4, <1>5, <1>7, <1>8, <1>10, SleepInvInit DEF TaskInv, ServerType

LEMMA TaskInvInductive == TaskInv /\ [Next]_vars => TaskInv'
<1> SUFFICES ASSUME TaskInv, [Next]_vars PROVE TaskInv'
  OBVIOUS
<1>1. SleepInv' /\ FlagsType' /\ BlockedType'
  BY SleepInvInductive, FlagsKept, BlockedKept DEF TaskInv, ServerType
<1>2. CASE MainStep
  <2>1. CASE \/ MainDrained \/ MainStops \/ MainJoined \/ IdleBreak \/ IdleWait \/ IdleWakes
             \/ FallAsleep \/ SleepOn \/ WakeUp \/ MainPop
    BY <1>1, <2>1, LoopQuiet, WakeUpKeeps, MainPopKeeps
  <2>2. CASE \/ ProcessDefer \/ ProcessLaunch \/ ProcessRefuse \/ ProcessNoStream \/ UndoLaunch
             \/ ProcessReply \/ ProcessAudio \/ ProcessSlotAction \/ ProcessCancel \/ ProcessNext
    BY <1>1, <2>2, DeferKeeps, LaunchKeeps, RefuseKeeps, NoStreamKeeps, UndoKeeps, MainReplyKeeps,
       CancelKeeps, UpdateQuiet
  <2>3. CASE \/ UpdateIdle \/ UpdateBegin \/ SlotFail \/ UpdateThrow \/ PreDecodeDone
             \/ (\E s \in Slots : AudioWait(s)) \/ (\E s \in Slots : AudioEnd(s))
             \/ YieldBegin \/ YieldWorkDone \/ YieldBlock \/ YieldEnd \/ AbortSlots
             \/ (\E s \in Slots : PromptDone(s)) \/ (\E s \in Slots : SlotFinish(s)) \/ PostDecodeDone
    BY <1>1, <2>3, UpdateQuiet, UpdateBeginKeeps, SlotsEndKeeps, YieldEndKeeps, SlotsQuiet
  <2> QED BY <1>2, <2>1, <2>2, <2>3 DEF MainStep
<1>3. CASE WorkerStep
  BY <1>1, <1>3, OthersQuiet, WorkerPopKeeps, WorkerReplyKeeps, DeclineKeeps DEF WorkerStep
<1>4. ASSUME NEW r \in Requests, ReqStep(r) \/ ReqLeave(r) PROVE TaskInv'
  <2>1. CASE ReqEnter(r) \/ ReqWakes(r) \/ ReqCached(r) \/ ReqLeave(r)
    BY <1>1, <2>1, ReqQuiet
  <2>2. CASE ReqList(r)
    BY <1>1, <2>2, ReqListKeeps
  <2>3. CASE ReqPost(r)
    BY <1>1, <2>3, ReqPostKeeps
  <2>4. CASE ReqNext(r)
    BY <1>1, <2>4, ReqNextKeeps
  <2>5. CASE ReqUnlist(r)
    BY <1>1, <2>5, ReqUnlistKeeps
  <2>6. CASE ReqPurge(r)
    BY <1>1, <2>6, ReqPurgeKeeps
  <2>7. CASE ReqCancel(r)
    BY <1>1, <2>7, ReqCancelKeeps
  <2> QED BY <1>4, <2>1, <2>2, <2>3, <2>4, <2>5, <2>6, <2>7 DEF ReqStep
<1>5. CASE IdleTimer \/ terminate \/ UNCHANGED vars
  BY <1>1, <1>5, OthersQuiet
<1> QED BY <1>2, <1>3, <1>4, <1>5 DEF Next

\* From the moment it is posted a task is in one place of the server or done, once,
\* unless its reader gave up; a listed id belongs to a reader that can still take
\* its result.
THEOREM TaskInvariant == Spec => []TaskInv
BY TaskInvInit, TaskInvInductive, PTL DEF Spec

\* Deferring (server-queue.cpp:76), declining during a decode and putting back
\* (:158, :254), cancelling (:368) and sleeping lose no task and duplicate none: while its
\* client waits, a posted task is in exactly one queue, hand or slot until its last
\* result is sent, an exception takes it or a loaded model replaces its slot, and
\* nowhere after that.
THEOREM NoTaskIsLost == Spec => []NoTaskLost
<1>1. ASSUME TaskInv, NEW t \in Tasks, Live(Owner[t])
      PROVE  Places(t) = IF t \in answered \cup destroyed THEN 0 ELSE 1
  <2>1. PICK c \in Tasks : c = Carrier(t)
    BY CarrierFacts
  <2>2. Total(t) = 1
    BY <1>1, Unpack DEF Live, PlacesInv, HasError
  <2>3. /\ Held(c) \in Nat /\ Cardinality(Runs(t)) \in Nat /\ Done(t) \in {0, 1}
        /\ Done(t) = 1 <=> t \in answered \cup destroyed
    BY <1>1, Unpack, TotalFacts
  <2>4. Total(t) = Held(c) + Cardinality(Runs(t)) + Done(t)
    BY <2>1 DEF Total
  <2>5. Places(t) = Held(c) + Cardinality(Runs(t))
    BY <2>1, Zenon DEF Places, Held, Runs
  <2> QED BY <2>2, <2>3, <2>4, <2>5
<1>2. TaskInv => NoTaskLost
  BY <1>1 DEF NoTaskLost
<1> QED BY <1>2, TaskInvariant, PTL

\* server_response (server-queue.cpp:389-490): no result is dropped because its id is not listed yet, none is
\* left for a reader that is done, and a reader gets each result once; and every
\* queue, thread and slot keeps its type.
THEOREM ResultsReachReaders == Spec => []ResultsOK
<1>1. ASSUME TaskInv PROVE TypeOK
  <2>1. ServerType /\ Entries \subseteq Entry
    <3>1. \A e \in Entries : e \in Entry
      BY EntriesFacts, EntryFacts
    <3> QED BY <1>1, <3>1 DEF TaskInv
  <2>2. {queue_tasks, queue_tasks_deferred, queue_tasks_unhandled} \subseteq Seq(Entry)
    BY <2>1 DEF ServerType, DequesType
  <2>3. /\ main \in [pc : MainPcs, task : Entry, ret : {"ok"} \cup DecodeErrs,
                     tries : 0 .. MaxRetries, rest : BOOLEAN, undo : SUBSET Slots]
        /\ worker \in [pc : WorkerPcs, task : Entry]
    BY <2>1 DEF ServerType, ThreadsType
  <2>4. /\ {running, sleeping, req_stop_sleeping, expired} \subseteq BOOLEAN
        /\ {busy, yielding, stop, exception} \subseteq BOOLEAN
    BY <2>1, Zenon DEF ServerType, FlagsType
  <2> QED BY <2>1, <2>2, <2>3, <2>4 DEF TypeOK, ServerType, BlockedType, ReqType, RespType, SlotType
<1>2. TaskInv => ResultsOK
  BY <1>1 DEF ResultsOK, TaskInv
<1> QED BY <1>2, TaskInvariant, PTL

=============================================================================
