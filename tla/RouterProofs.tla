---------------------------- MODULE RouterProofs ----------------------------
(***************************************************************************)
(* Proofs about Router, for any number of models, requests and slots.      *)
(*                                                                         *)
(* The invariant has three parts that hardly meet: RqInv (the handlers'    *)
(* locals), QInv (the queue counts its waiters) and RegInv (the registry,  *)
(* the children and the commands on their way to the monitor).             *)
(***************************************************************************)
EXTENDS Router, FiniteSetTheorems, SequenceTheorems, WellFoundedInduction, TLAPS

Pcs == {"idle", "done", "meta", "check", "join", "wait", "lru", "lru_unload", "lru_wait",
        "spawn", "claim_done", "ticket", "proxy", "count", "proxied", "unload",
        "unload_all", "all_wait"}

\* Where a request may be that has joined the queue.
InLine == {"wait", "lru", "lru_unload", "lru_wait", "spawn", "claim_done"}

\* Where a handler of the load route never is.
Asking == {"meta", "check", "join", "wait", "claim_done"}

Request == [pc : Pcs, kind : AllKinds \cup {"none"}, model : Models \cup {NoModel},
            seen : Statuses, queued : BOOLEAN, saw_loading : BOOLEAN, did_load : BOOLEAN,
            ok : BOOLEAN, victim : Models \cup {NoModel}, cancelled : BOOLEAN]

Instance == [status : Statuses, failed : BOOLEAN, count : Nat]
QEntry   == [model : Models, n_waiters : Nat \ {0}, loading : BOOLEAN]
Command  == [type : {"WATCH", "STOP"}, model : Models, send_exit : BOOLEAN]
Process  == [state : {"loading", "ready", "asleep", "dead"}, code : BOOLEAN,
             out : Seq(Statuses \ {"UNLOADED"}), current : BOOLEAN, watched : BOOLEAN,
             exit : BOOLEAN, deadline : BOOLEAN]

\* A handler knows its model; only one that waits for it is in the queue.
RequestOK(x) ==
    /\ x.pc \notin {"idle", "done"} => x.model \in Models
    /\ x.queued => x.pc \in InLine /\ x.kind # "load"
    /\ x.pc \in Asking => x.kind # "load"
    /\ x.pc \in {"lru_unload", "lru_wait"} => x.victim \in Models

RqInv == rq \in [Requests -> Request] /\ \A r \in Requests : RequestOK(rq[r])

QInv == queue \in Seq(QEntry) /\ QueueOwned

RegTypes ==
    /\ inst \in [Models -> Instance]
    /\ stopping \subseteq Models
    /\ lru \in [1 .. Cardinality(Models) -> Models] /\ Range(lru) = Models
    /\ cmds \in Seq(Command)
    /\ procs \in [Models -> Seq(Process)]
    /\ faults \in 0 .. MaxFaults

LimitInv == MaxModels > 0 => Cardinality(Running(inst)) <= MaxModels

\* The one child of a running model; it has been told to stop only if its model is.
ProcInv(m) ==
    /\ Len(procs[m]) = IF is_running(inst, m) THEN 1 ELSE 0
    /\ \A k \in DOMAIN procs[m] :
         /\ procs[m][k].current
         /\ procs[m][k].exit \/ procs[m][k].deadline => m \in stopping

Watches(c, m) == c.type = "WATCH" /\ c.model = m

\* The monitor learns of a child once.  A stop on its way is for a model that is stopping or,
\* if that one has gone in the meantime, arrives before the monitor learns of its successor.
CmdInv(j) ==
    LET m == cmds[j].model
    IN /\ cmds[j].type = "WATCH" =>
            /\ procs[m] # <<>> /\ Watched(m) = {}
            /\ \A i \in DOMAIN cmds : Watches(cmds[i], m) => i = j
       /\ cmds[j].type = "STOP" =>
            \/ m \in stopping
            \/ Watched(m) = {} /\ \A i \in 1 .. (j - 1) : ~Watches(cmds[i], m)

RegInv == /\ RegTypes /\ LimitInv
          /\ \A m \in Models : ProcInv(m)
          /\ \A j \in DOMAIN cmds : CmdInv(j)

RouterInv == RqInv /\ QInv /\ RegInv

-----------------------------------------------------------------------------
(* Places and sequences. *)

\* Every non-empty set of natural numbers has a least element.
LEMMA LeastPlace ==
    ASSUME NEW S \in SUBSET Nat, S # {}
    PROVE  \E m \in S : \A j \in S : m <= j
<1> DEFINE R == {ss \in Nat \X Nat : ss[1] < ss[2]}
<1>1. IsWellFoundedOn(R, Nat)
  BY NatLessThanWellFounded, Zenon DEF OpToRel
<1>2. \E m \in S : \A j \in S : ~(<<j, m>> \in R)
  <2> HIDE DEF R
  <2> QED BY <1>1, WFMin
<1>3. PICK m \in S : \A j \in S : ~(<<j, m>> \in R)
  BY <1>2
<1>4. ASSUME NEW j \in S PROVE m <= j
  <2>1. j \in Nat /\ m \in Nat /\ ~(<<j, m>> \in R)
    BY <1>3
  <2> QED BY <2>1
<1> QED BY <1>4

\* Nth finds a place for every number up to the size of the set.
LEMMA NthIsPlace ==
    ASSUME NEW N \in Nat, NEW S \in SUBSET (1 .. N), NEW n \in 1 .. Cardinality(S)
    PROVE  Nth(S, n) \in S
<1> DEFINE Upto(k) == {j \in S : j <= k}
<1>1. IsFiniteSet(S) /\ Cardinality(S) \in Nat
  <2>1. IsFiniteSet(1 .. N)
    BY FS_Interval
  <2>2. IsFiniteSet(S)
    BY <2>1, FS_Subset
  <2> QED BY <2>2, FS_CardinalityType
<1>1a. \A j \in S : j \in Nat /\ j >= 1 /\ j <= N
  OBVIOUS
<1>2. \A k \in Nat : IsFiniteSet(Upto(k)) /\ Cardinality(Upto(k)) \in Nat
  BY <1>1, FS_Subset, FS_CardinalityType
<1>3. Upto(N) = S
  BY <1>1a
<1> DEFINE E == {k \in Nat : Cardinality(Upto(k)) >= n}
<1>4. E # {} /\ E \in SUBSET Nat
  BY <1>1, <1>3
<1>5. PICK k \in E : \A j \in E : k <= j
  BY <1>4, LeastPlace
<1>6. k \in Nat /\ Cardinality(Upto(k)) >= n
  BY <1>5
<1>7. k > 0
  <2>1. Upto(0) = {}
    <3>1. \A j \in S : ~(j <= 0)
      BY <1>1a
    <3> QED BY <3>1
  <2>2. Cardinality(Upto(0)) = 0
    BY <2>1, FS_EmptySet
  <2> HIDE DEF Upto
  <2> QED BY <1>1, <1>6, <2>2
<1>8. k - 1 \in Nat /\ Cardinality(Upto(k - 1)) < n
  <2>1. k - 1 \in Nat /\ k - 1 \notin E
    <3>1. k - 1 \in Nat /\ ~(k <= k - 1)
      BY <1>6, <1>7
    <3> HIDE DEF E
    <3> QED BY <1>5, <3>1
  <2> HIDE DEF Upto
  <2> QED BY <1>1, <1>2, <2>1
<1>9. k \in S
  <2>1. SUFFICES ASSUME k \notin S PROVE FALSE
    OBVIOUS
  <2>2. Upto(k) = Upto(k - 1)
    <3>1. \A j \in S : j <= k <=> j <= k - 1
      BY <1>1a, <1>6, <2>1
    <3> QED BY <3>1
  <2> HIDE DEF Upto
  <2> QED BY <1>1, <1>2, <1>6, <1>8, <2>2
<1>10. Upto(k) = Upto(k - 1) \cup {k} /\ k \notin Upto(k - 1)
  <2>1. \A j \in S : j <= k <=> (j <= k - 1 \/ j = k)
    BY <1>1a, <1>6
  <2>2. k <= k /\ ~(k <= k - 1)
    BY <1>6
  <2> QED BY <1>9, <2>1, <2>2
<1>11. Cardinality(Upto(k)) = n
  <2>1. Cardinality(Upto(k - 1) \cup {k}) = Cardinality(Upto(k - 1)) + 1
    <3> HIDE DEF Upto
    <3> QED BY <1>2, <1>8, <1>10, FS_AddElement
  <2> HIDE DEF Upto
  <2> QED BY <1>1, <1>2, <1>6, <1>8, <1>10, <2>1
<1> QED BY <1>9, <1>11 DEF Nth

\* Without drops one entry and closes the gap.
LEMMA WithoutIs ==
    ASSUME NEW S, NEW q \in Seq(S), NEW k \in 1 .. Len(q)
    PROVE  /\ Without(q, k) \in Seq(S)
           /\ Len(Without(q, k)) = Len(q) - 1
           /\ \A j \in 1 .. (Len(q) - 1) : Without(q, k)[j] = IF j < k THEN q[j] ELSE q[j + 1]
<1> DEFINE a == SubSeq(q, 1, k - 1)
<1> DEFINE b == SubSeq(q, k + 1, Len(q))
<1>1. Len(q) \in Nat /\ k \in Nat /\ \A j \in 1 .. Len(q) : q[j] \in S
  BY LenProperties, ElementOfSeq
<1>2. /\ a \in Seq(S) /\ Len(a) = k - 1
      /\ \A j \in 1 .. (k - 1) : a[j] = q[j]
  <2>1. \A j \in 1 .. (k - 1) : q[j] \in S
    BY <1>1
  <2>2. /\ SubSeq(q, 1, k - 1) \in Seq(S)
        /\ Len(SubSeq(q, 1, k - 1)) = IF 1 <= k - 1 THEN (k - 1) - 1 + 1 ELSE 0
        /\ \A i \in 1 .. ((k - 1) - 1 + 1) : SubSeq(q, 1, k - 1)[i] = q[1 + i - 1]
    BY <1>1, <2>1, SubSeqProperties, k - 1 \in Int, 1 \in Int
  <2> HIDE DEF a
  <2>3. a = SubSeq(q, 1, k - 1)
    BY DEF a
  <2> QED BY <1>1, <2>2, <2>3
<1>3. /\ b \in Seq(S) /\ Len(b) = Len(q) - k
      /\ \A j \in 1 .. (Len(q) - k) : b[j] = q[k + j]
  <2>1. \A j \in (k + 1) .. Len(q) : q[j] \in S
    BY <1>1
  <2>2. /\ SubSeq(q, k + 1, Len(q)) \in Seq(S)
        /\ Len(SubSeq(q, k + 1, Len(q))) = IF k + 1 <= Len(q) THEN Len(q) - (k + 1) + 1 ELSE 0
        /\ \A i \in 1 .. (Len(q) - (k + 1) + 1) : SubSeq(q, k + 1, Len(q))[i] = q[(k + 1) + i - 1]
    BY <1>1, <2>1, SubSeqProperties, k + 1 \in Int, Len(q) \in Int
  <2> HIDE DEF b
  <2>3. b = SubSeq(q, k + 1, Len(q))
    BY DEF b
  <2> QED BY <1>1, <2>2, <2>3
<1> HIDE DEF a, b
<1>4. /\ a \o b \in Seq(S)
      /\ Len(a \o b) = Len(a) + Len(b)
      /\ \A i \in 1 .. Len(a) + Len(b) : (a \o b)[i] = IF i <= Len(a) THEN a[i] ELSE b[i - Len(a)]
  BY <1>2, <1>3, ConcatProperties
<1>5. Without(q, k) = a \o b
  BY DEF Without, a, b
<1>6. Len(a) + Len(b) = Len(q) - 1
  BY <1>1, <1>2, <1>3
<1>7. ASSUME NEW j \in 1 .. (Len(q) - 1) PROVE (a \o b)[j] = IF j < k THEN q[j] ELSE q[j + 1]
  <2>1. CASE j < k
    BY <1>1, <1>2, <1>4, <1>6, <2>1
  <2>2. CASE j >= k
    <3>1. (a \o b)[j] = b[j - (k - 1)] /\ j - (k - 1) \in 1 .. (Len(q) - k)
      BY <1>1, <1>2, <1>4, <1>6, <2>2
    <3>2. b[j - (k - 1)] = q[k + (j - (k - 1))] /\ k + (j - (k - 1)) = j + 1
      BY <1>1, <1>3, <3>1
    <3> QED BY <1>1, <2>2, <3>1, <3>2
  <2>3. j < k \/ j >= k
    BY <1>1
  <2> QED BY <2>1, <2>2, <2>3
<1> QED BY <1>4, <1>5, <1>6, <1>7

\* A model that is used goes to the end of the list, which keeps all of them.
LEMMA UsedKeeps ==
    ASSUME RegTypes, NEW m \in Models, lru' = Used(m)
    PROVE  lru' \in [1 .. Cardinality(Models) -> Models] /\ Range(lru') = Models
<1> DEFINE N == Cardinality(Models)
<1> DEFINE k == CHOOSE k \in DOMAIN lru : lru[k] = m
<1>1. N \in Nat /\ lru \in [1 .. N -> Models] /\ Range(lru) = Models
  BY RouterAssumption, FS_CardinalityType DEF RegTypes
<1>2. lru \in Seq(Models) /\ Len(lru) = N /\ DOMAIN lru = 1 .. N
  <2>1. lru \in Seq(Models) /\ DOMAIN lru = 1 .. N
    BY <1>1, SeqDef
  <2> QED BY <1>1, <2>1, LenProperties
<1>3. k \in 1 .. N /\ lru[k] = m
  <2>1. \E j \in DOMAIN lru : lru[j] = m
    BY <1>1 DEF Range
  <2> QED BY <1>2, <2>1
<1> DEFINE w == Without(lru, k)
<1>4. /\ w \in Seq(Models) /\ Len(w) = N - 1
      /\ \A j \in 1 .. (N - 1) : w[j] = IF j < k THEN lru[j] ELSE lru[j + 1]
  <2> HIDE DEF k
  <2> QED BY <1>2, <1>3, WithoutIs
<1>5. lru' = Append(w, m)
  BY DEF Used
<1> HIDE DEF k, w
<1>6. /\ lru' \in Seq(Models) /\ Len(lru') = N
      /\ \A j \in 1 .. N : lru'[j] = IF j = N THEN m ELSE w[j]
  BY <1>1, <1>3, <1>4, <1>5
<1>7. lru' \in [1 .. N -> Models] /\ DOMAIN lru' = 1 .. N
  <2> HIDE DEF N
  <2> QED BY <1>1, <1>6, LenProperties
<1>8. Range(lru') \subseteq Models
  BY <1>7 DEF Range
<1>9. ASSUME NEW x \in Models PROVE x \in Range(lru')
  <2>1. PICK j \in 1 .. N : lru[j] = x
    BY <1>1, <1>2 DEF Range
  <2>2. CASE j = k
    <3>1. lru'[N] = x /\ N \in 1 .. N
      BY <1>1, <1>3, <1>6, <2>1, <2>2
    <3> QED BY <1>7, <3>1 DEF Range
  <2>3. CASE j < k
    <3>1. lru'[j] = x
      BY <1>1, <1>3, <1>4, <1>6, <2>1, <2>3
    <3> QED BY <1>7, <3>1 DEF Range
  <2>4. CASE j > k
    <3>1. j - 1 \in 1 .. (N - 1) /\ ~(j - 1 < k) /\ (j - 1) + 1 = j
      BY <1>1, <1>3, <2>4
    <3>2. w[j - 1] = lru[j]
      BY <1>4, <3>1
    <3>3. lru'[j - 1] = x /\ j - 1 \in 1 .. N
      BY <1>1, <1>6, <2>1, <3>1, <3>2
    <3> QED BY <1>7, <3>3 DEF Range
  <2> QED BY <1>1, <1>3, <2>2, <2>3, <2>4
<1> QED BY <1>7, <1>8, <1>9

-----------------------------------------------------------------------------
(* Stops. *)

\* A step that asks for the stop of some models more than those of s, by commands at the end.
AddsStops(s) ==
    /\ s \subseteq stopping' /\ stopping' \subseteq Models
    /\ cmds' \in Seq(Command) /\ Len(cmds) <= Len(cmds')
    /\ \A j \in 1 .. Len(cmds) : cmds'[j] = cmds[j]
    /\ \A j \in (Len(cmds) + 1) .. Len(cmds') :
          cmds'[j].type = "STOP" /\ cmds'[j].model \in stopping'

LEMMA StopCmdIs ==
    ASSUME NEW m \in Models, NEW b \in BOOLEAN
    PROVE  /\ StopCmd(m, b) \in Command
           /\ StopCmd(m, b).type = "STOP" /\ StopCmd(m, b).model = m
BY DEF StopCmd, Command

LEMMA StopsAdded ==
    ASSUME cmds \in Seq(Command), NEW s, s \subseteq stopping', stopping' \subseteq Models,
           NEW f \in Seq(Command), cmds' = cmds \o f,
           \A j \in 1 .. Len(f) : f[j].type = "STOP" /\ f[j].model \in stopping'
    PROVE  AddsStops(s)
<1>1. Len(cmds) \in Nat /\ Len(f) \in Nat
  BY LenProperties
<1>2. /\ cmds' \in Seq(Command)
      /\ Len(cmds') = Len(cmds) + Len(f)
      /\ \A i \in 1 .. Len(cmds) + Len(f) :
            cmds'[i] = IF i <= Len(cmds) THEN cmds[i] ELSE f[i - Len(cmds)]
  BY ConcatProperties
<1>3. \A j \in 1 .. Len(cmds) : cmds'[j] = cmds[j]
  BY <1>1, <1>2
<1>4. ASSUME NEW j \in (Len(cmds) + 1) .. Len(cmds')
      PROVE  cmds'[j].type = "STOP" /\ cmds'[j].model \in stopping'
  <2>1. cmds'[j] = f[j - Len(cmds)] /\ j - Len(cmds) \in 1 .. Len(f)
    BY <1>1, <1>2
  <2> QED BY <2>1
<1> QED BY <1>1, <1>2, <1>3, <1>4 DEF AddsStops

LEMMA NoStopsAdded ==
    ASSUME RegTypes, UNCHANGED <<stopping, cmds>>
    PROVE  AddsStops(stopping)
<1>1. Len(cmds) \in Nat
  BY LenProperties DEF RegTypes
<1> QED BY <1>1 DEF RegTypes, AddsStops

\* The models at some places of lru.
LEMMA PlacesAreModels ==
    ASSUME RegTypes
    PROVE  /\ Cardinality(Models) \in Nat
           /\ DOMAIN lru = 1 .. Cardinality(Models)
           /\ \A k \in DOMAIN lru : lru[k] \in Models
           /\ \A S \in SUBSET DOMAIN lru :
                /\ Cardinality(S) \in Nat
                /\ \A n \in 1 .. Cardinality(S) : Nth(S, n) \in S /\ lru[Nth(S, n)] \in Models
<1>1. Cardinality(Models) \in Nat /\ lru \in [1 .. Cardinality(Models) -> Models]
  BY RouterAssumption, FS_CardinalityType DEF RegTypes
<1>2. ASSUME NEW S \in SUBSET DOMAIN lru
      PROVE  /\ Cardinality(S) \in Nat
             /\ \A n \in 1 .. Cardinality(S) : Nth(S, n) \in S /\ lru[Nth(S, n)] \in Models
  <2>1. S \in SUBSET (1 .. Cardinality(Models))
    BY <1>1
  <2>2. IsFiniteSet(1 .. Cardinality(Models))
    BY <1>1, FS_Interval
  <2>3. IsFiniteSet(S)
    BY <2>1, <2>2, FS_Subset
  <2>4. Cardinality(S) \in Nat
    BY <2>3, FS_CardinalityType
  <2>5. \A n \in 1 .. Cardinality(S) : Nth(S, n) \in S
    BY <1>1, <2>1, NthIsPlace
  <2> QED BY <1>1, <2>1, <2>4, <2>5
<1> QED BY <1>1, <1>2

\* A sequence of stops for the models at the first n places of S.
LEMMA PlacesStopped ==
    ASSUME RegTypes, NEW s \in SUBSET Models, NEW S \in SUBSET DOMAIN lru,
           NEW n \in 0 .. Cardinality(S), s \subseteq stopping', stopping' \subseteq Models,
           \A k \in 1 .. n : lru[Nth(S, k)] \in stopping',
           NEW f, f = [k \in 1 .. n |-> f[k]], cmds' = cmds \o f,
           \A k \in 1 .. n : \E b \in BOOLEAN : f[k] = StopCmd(lru[Nth(S, k)], b)
    PROVE  AddsStops(s)
<1>1. n \in Nat /\ Cardinality(S) \in Nat
  BY PlacesAreModels
<1>2. ASSUME NEW k \in 1 .. n
      PROVE  /\ f[k] \in Command /\ f[k].type = "STOP" /\ f[k].model \in stopping'
  <2>1. k \in 1 .. Cardinality(S)
    BY <1>1
  <2>2. lru[Nth(S, k)] \in Models
    BY <2>1, PlacesAreModels
  <2>3. PICK b \in BOOLEAN : f[k] = StopCmd(lru[Nth(S, k)], b)
    OBVIOUS
  <2> QED BY <2>2, <2>3, StopCmdIs
<1>3. f \in [1 .. n -> Command] /\ DOMAIN f = 1 .. n
  BY <1>2
<1>4. f \in Seq(Command)
  BY <1>1, <1>3, SeqDef
<1>5. Len(f) = n
  BY <1>1, <1>3, <1>4, LenProperties
<1>6. cmds \in Seq(Command)
  BY DEF RegTypes
<1> QED BY <1>2, <1>4, <1>5, <1>6, StopsAdded

LEMMA MissingIsInt ==
    ASSUME NEW i, NEW s, NEW q \in Seq(QEntry)
    PROVE  Missing(i, s, q) \in Int
<1>1. \A T \in SUBSET DOMAIN q : Cardinality(T) \in Nat
  <2>1. IsFiniteSet(DOMAIN q)
    BY LenProperties, FS_Interval
  <2> QED BY <2>1, FS_Subset, FS_CardinalityType
<1>2. \A T \in SUBSET Models : Cardinality(T) \in Nat
  BY RouterAssumption, FS_Subset, FS_CardinalityType
<1> DEFINE A == {k \in DOMAIN q : ~q[k].loading}
<1> DEFINE B == {k \in DOMAIN q : q[k].loading /\ ~is_running(i, q[k].model)}
<1>3. Cardinality(A) \in Nat /\ Cardinality(B) \in Nat
  BY <1>1
<1>4. Cardinality(Running(i)) \in Nat /\ Cardinality(Running(i) \cap s) \in Nat
  BY <1>2 DEF Running
<1>5. MaxModels \in Nat
  BY RouterAssumption
<1>6. Missing(i, s, q) = Cardinality(A)
          - (MaxModels - Cardinality(Running(i)) + Cardinality(Running(i) \cap s) - Cardinality(B))
  BY DEF Missing
<1> HIDE DEF A, B
<1> QED BY <1>3, <1>4, <1>5, <1>6

\* tick stops idle models only, and by commands.
LEMMA TickAdds ==
    ASSUME RegTypes, NEW i, NEW s \in SUBSET Models, NEW q \in Seq(QEntry), tick(i, s, q)
    PROVE  AddsStops(s)
<1> DEFINE idle == Victims(i, s, q)
<1> DEFINE n == IF MaxModels = 0 \/ q = <<>> THEN 0
                ELSE LET k == Missing(i, s, q)
                     IN IF k < 0 THEN 0
                        ELSE IF k > Cardinality(idle) THEN Cardinality(idle) ELSE k
<1> DEFINE f == [k \in 1 .. n |-> StopCmd(lru[Nth(idle, k)], TRUE)]
<1>1. idle \in SUBSET DOMAIN lru
  BY DEF Victims
<1>2. Cardinality(idle) \in Nat
  BY <1>1, PlacesAreModels
<1>3. n \in 0 .. Cardinality(idle)
  <2>1. Missing(i, s, q) \in Int
    BY MissingIsInt
  <2> HIDE DEF idle
  <2> QED BY <1>2, <2>1
<1>4. stopping' = s \cup {lru[Nth(idle, k)] : k \in 1 .. n} /\ cmds' = cmds \o f
  BY DEF tick
<1>5. /\ f = [k \in 1 .. n |-> f[k]]
      /\ \A k \in 1 .. n : \E b \in BOOLEAN : f[k] = StopCmd(lru[Nth(idle, k)], b)
  <2> HIDE DEF n, idle
  <2> QED OBVIOUS
<1> HIDE DEF n, idle, f
<1>6. stopping' \subseteq Models /\ s \subseteq stopping' /\ \A k \in 1 .. n : lru[Nth(idle, k)] \in stopping'
  <2>1. \A k \in 1 .. n : k \in 1 .. Cardinality(idle)
    BY <1>2, <1>3
  <2>2. \A k \in 1 .. n : lru[Nth(idle, k)] \in Models
    BY <1>1, <2>1, PlacesAreModels
  <2> QED BY <1>4, <2>2
<1> QED BY <1>1, <1>3, <1>4, <1>5, <1>6, PlacesStopped

-----------------------------------------------------------------------------
(* Steps that spawn and reap nothing. *)

\* The children are the same as before, as far as the monitor and the registry know them.
ProcsKept ==
    /\ procs' \in [Models -> Seq(Process)]
    /\ \A m \in Models :
         /\ DOMAIN procs'[m] = DOMAIN procs[m]
         /\ \A k \in DOMAIN procs[m] :
              /\ procs'[m][k].current = procs[m][k].current
              /\ procs'[m][k].watched = procs[m][k].watched
              /\ procs'[m][k].exit => procs[m][k].exit
              /\ procs'[m][k].deadline => procs[m][k].deadline

LEMMA ProcTypes ==
    ASSUME RegTypes, NEW m \in Models
    PROVE  /\ procs[m] \in Seq(Process) /\ Len(procs[m]) \in Nat /\ DOMAIN procs[m] = 1 .. Len(procs[m])
           /\ \A k \in DOMAIN procs[m] : procs[m][k] \in Process
<1>1. procs[m] \in Seq(Process)
  BY DEF RegTypes
<1> QED BY <1>1, LenProperties, ElementOfSeq

LEMMA CmdTypes ==
    ASSUME RegTypes
    PROVE  /\ cmds \in Seq(Command) /\ Len(cmds) \in Nat /\ DOMAIN cmds = 1 .. Len(cmds)
           /\ \A j \in DOMAIN cmds : cmds[j] \in Command /\ cmds[j].model \in Models
<1>1. cmds \in Seq(Command)
  BY DEF RegTypes
<1>2. Len(cmds) \in Nat /\ DOMAIN cmds = 1 .. Len(cmds) /\ \A j \in DOMAIN cmds : cmds[j] \in Command
  BY <1>1, LenProperties, ElementOfSeq
<1> QED BY <1>1, <1>2 DEF Command

LEMMA ProcsStay ==
    ASSUME RegTypes, UNCHANGED procs
    PROVE  ProcsKept
BY DEF ProcsKept, RegTypes

\* A step that leaves every model running or down as it is, and every child in place.
LEMMA RegFrame ==
    ASSUME RegInv, AddsStops(stopping), ProcsKept,
           inst' \in [Models -> Instance],
           \A m \in Models : is_running(inst', m) <=> is_running(inst, m),
           lru' \in [1 .. Cardinality(Models) -> Models], Range(lru') = Models,
           faults' \in 0 .. MaxFaults
    PROVE  RegInv'
<1>1. RegTypes /\ LimitInv /\ (\A m \in Models : ProcInv(m)) /\ \A j \in DOMAIN cmds : CmdInv(j)
  BY DEF RegInv
<1>2. RegTypes'
  BY DEF RegTypes, AddsStops, ProcsKept
<1>3. LimitInv'
  <2>1. Running(inst') = Running(inst)
    BY DEF Running
  <2> QED BY <1>1, <2>1 DEF LimitInv
<1>4. ASSUME NEW m \in Models PROVE ProcInv(m)'
  <2>1. ProcInv(m) /\ stopping \subseteq stopping'
    BY <1>1 DEF AddsStops
  <2>2. Len(procs'[m]) = Len(procs[m]) /\ DOMAIN procs'[m] = DOMAIN procs[m]
    <3>1. procs[m] \in Seq(Process) /\ procs'[m] \in Seq(Process) /\ DOMAIN procs'[m] = DOMAIN procs[m]
      BY <1>1, ProcTypes DEF ProcsKept
    <3>2. Len(procs[m]) \in Nat /\ Len(procs'[m]) \in Nat /\ 1 .. Len(procs[m]) = 1 .. Len(procs'[m])
      BY <3>1, LenProperties
    <3> QED BY <3>1, <3>2
  <2>3. \A k \in DOMAIN procs[m] :
              /\ procs'[m][k].current = procs[m][k].current
              /\ procs'[m][k].exit => procs[m][k].exit
              /\ procs'[m][k].deadline => procs[m][k].deadline
    BY DEF ProcsKept
  <2> QED BY <2>1, <2>2, <2>3 DEF ProcInv
<1>5. ASSUME NEW j \in DOMAIN cmds' PROVE CmdInv(j)'
  <2>1. /\ Len(cmds) \in Nat /\ DOMAIN cmds = 1 .. Len(cmds)
        /\ Len(cmds') \in Nat /\ DOMAIN cmds' = 1 .. Len(cmds') /\ Len(cmds) <= Len(cmds')
        /\ \A i \in 1 .. Len(cmds) : cmds'[i] = cmds[i]
        /\ \A i \in (Len(cmds) + 1) .. Len(cmds') :
             cmds'[i].type = "STOP" /\ cmds'[i].model \in stopping'
    BY <1>1, CmdTypes, LenProperties DEF AddsStops
  <2>2. CASE j > Len(cmds)
    <3>1. cmds'[j].type = "STOP" /\ cmds'[j].model \in stopping'
      BY <2>1, <2>2
    <3> QED BY <3>1 DEF CmdInv
  <2>3. CASE j <= Len(cmds)
    <3> DEFINE m == cmds[j].model
    <3>1. j \in 1 .. Len(cmds) /\ cmds'[j] = cmds[j] /\ m \in Models /\ CmdInv(j)
      BY <1>1, <2>1, <2>3, CmdTypes
    <3>2. Watched(m) = {} => {k \in DOMAIN procs'[m] : procs'[m][k].watched} = {}
      BY <3>1 DEF Watched, ProcsKept
    <3>3. procs[m] # <<>> => procs'[m] # <<>>
      <4>1. procs[m] \in Seq(Process) /\ procs'[m] \in Seq(Process) /\ DOMAIN procs'[m] = DOMAIN procs[m]
        BY <1>1, <3>1, ProcTypes DEF ProcsKept
      <4> QED BY <4>1
    <3>4. cmds[j].type = "WATCH" => \A i \in DOMAIN cmds' : Watches(cmds'[i], m) => i = j
      <4> SUFFICES ASSUME cmds[j].type = "WATCH", NEW i \in DOMAIN cmds', Watches(cmds'[i], m) PROVE i = j
        OBVIOUS
      <4>1. i \in 1 .. Len(cmds)
        BY <2>1 DEF Watches
      <4>2. Watches(cmds[i], m)
        BY <2>1, <4>1
      <4> QED BY <2>1, <3>1, <4>1, <4>2 DEF CmdInv
    <3>5. \A i \in 1 .. (j - 1) : cmds'[i] = cmds[i]
      BY <2>1, <3>1
    <3>6. stopping \subseteq stopping'
      BY DEF AddsStops
    <3>7. cmds[j].type = "WATCH" => procs'[m] # <<>> /\ {k \in DOMAIN procs'[m] : procs'[m][k].watched} = {}
      BY <3>1, <3>2, <3>3 DEF CmdInv
    <3>8. cmds[j].type = "STOP" =>
            \/ m \in stopping'
            \/ /\ {k \in DOMAIN procs'[m] : procs'[m][k].watched} = {}
               /\ \A i \in 1 .. (j - 1) : ~Watches(cmds'[i], m)
      BY <3>1, <3>2, <3>5, <3>6 DEF CmdInv
    <3> HIDE DEF m
    <3>9. cmds'[j].model = m
      BY <3>1 DEF m
    <3> QED BY <3>1, <3>4, <3>7, <3>8, <3>9 DEF CmdInv, Watched
  <2> QED BY <2>1, <2>2, <2>3
<1> QED BY <1>2, <1>3, <1>4, <1>5 DEF RegInv

\* A step of a handler that leaves the registry alone.
LEMMA RegUnchanged ==
    ASSUME RegInv, UNCHANGED <<inst, stopping, lru, cmds, procs>>, faults' \in 0 .. MaxFaults
    PROVE  RegInv'
<1>1. RegTypes
  BY DEF RegInv
<1>2. AddsStops(stopping) /\ ProcsKept
  BY <1>1, NoStopsAdded, ProcsStay
<1> QED BY <1>1, <1>2, RegFrame DEF RegTypes

\* terminate() of a process changes nothing that ProcsKept speaks of.
LEMMA KilledIs ==
    ASSUME NEW x \in Process
    PROVE  /\ Killed(x) \in Process
           /\ Killed(x).current = x.current /\ Killed(x).watched = x.watched
           /\ Killed(x).exit = x.exit /\ Killed(x).deadline = x.deadline
<1>1. CASE ~Alive(x)
  BY <1>1 DEF Killed
<1>2. CASE Alive(x)
  <2> DEFINE y == [x EXCEPT !.state = "dead", !.code = TRUE]
  <2>1. Killed(x) = y
    BY <1>2 DEF Killed
  <2>2. y \in Process
    BY Zenon DEF Process
  <2>3. y.current = x.current /\ y.watched = x.watched /\ y.exit = x.exit /\ y.deadline = x.deadline
    BY DEF Process
  <2> QED BY <2>1, <2>2, <2>3
<1> QED BY <1>1, <1>2

\* unload kills a child that loads and asks for the stop of its model.
KillCurrent(ps) == [k \in DOMAIN ps |-> IF ps[k].current THEN Killed(ps[k]) ELSE ps[k]]

LEMMA KillCurrentKeeps ==
    ASSUME NEW ps \in Seq(Process)
    PROVE  /\ KillCurrent(ps) \in Seq(Process)
           /\ DOMAIN KillCurrent(ps) = DOMAIN ps
           /\ \A k \in DOMAIN ps :
                /\ KillCurrent(ps)[k].current = ps[k].current
                /\ KillCurrent(ps)[k].watched = ps[k].watched
                /\ KillCurrent(ps)[k].exit = ps[k].exit
                /\ KillCurrent(ps)[k].deadline = ps[k].deadline
<1>1. Len(ps) \in Nat /\ DOMAIN ps = 1 .. Len(ps) /\ \A k \in DOMAIN ps : ps[k] \in Process
  BY LenProperties, ElementOfSeq
<1>2. \A k \in DOMAIN ps : KillCurrent(ps)[k] \in {ps[k], Killed(ps[k])}
  BY DEF KillCurrent
<1>3. KillCurrent(ps) \in [1 .. Len(ps) -> Process]
  <2>1. \A k \in DOMAIN ps : KillCurrent(ps)[k] \in Process
    BY <1>1, <1>2, KilledIs
  <2>2. KillCurrent(ps) = [k \in 1 .. Len(ps) |-> KillCurrent(ps)[k]]
    BY <1>1 DEF KillCurrent
  <2> QED BY <1>1, <2>1, <2>2
<1>4. KillCurrent(ps) \in Seq(Process) /\ DOMAIN KillCurrent(ps) = DOMAIN ps
  BY <1>1, <1>3, SeqDef
<1> QED BY <1>1, <1>2, <1>4, KilledIs

LEMMA ProcsKeptAt ==
    ASSUME RegTypes, NEW m \in Models, procs' = [procs EXCEPT ![m] = KillCurrent(procs[m])]
    PROVE  ProcsKept
<1>1. procs[m] \in Seq(Process) /\ procs \in [Models -> Seq(Process)]
  BY DEF RegTypes
<1>2. /\ KillCurrent(procs[m]) \in Seq(Process)
      /\ DOMAIN KillCurrent(procs[m]) = DOMAIN procs[m]
      /\ \A k \in DOMAIN procs[m] :
                /\ KillCurrent(procs[m])[k].current = procs[m][k].current
                /\ KillCurrent(procs[m])[k].watched = procs[m][k].watched
                /\ KillCurrent(procs[m])[k].exit = procs[m][k].exit
                /\ KillCurrent(procs[m])[k].deadline = procs[m][k].deadline
  BY <1>1, KillCurrentKeeps
<1>3. \A n \in Models : procs'[n] = IF n = m THEN KillCurrent(procs[m]) ELSE procs[n]
  BY <1>1
<1>4. procs' \in [Models -> Seq(Process)]
  BY <1>1, <1>2
<1> QED BY <1>2, <1>3, <1>4 DEF ProcsKept

\* unload(m) keeps the registry and its children in order.
LEMMA DoUnloadKeeps ==
    ASSUME RegInv, NEW m \in Models, DoUnload(m)
    PROVE  RegInv'
<1>1. RegTypes
  BY DEF RegInv
<1>2. UNCHANGED <<inst, lru, faults>>
  BY DEF DoUnload
<1>3. AddsStops(stopping) /\ ProcsKept
  <2>1. CASE ~is_running(inst, m)
    BY <1>1, <2>1, NoStopsAdded, ProcsStay DEF DoUnload
  <2>2. CASE is_running(inst, m)
    <3> DEFINE loading == inst[m].status = "LOADING"
    <3>1. /\ procs' = IF ~loading THEN procs ELSE [procs EXCEPT ![m] = KillCurrent(procs[m])]
          /\ IF m \in stopping THEN UNCHANGED <<stopping, cmds>>
             ELSE stopping' = stopping \cup {m} /\ cmds' = Append(cmds, StopCmd(m, ~loading))
      BY <2>2 DEF DoUnload, KillCurrent
    <3>2. ProcsKept
      BY <1>1, <3>1, ProcsStay, ProcsKeptAt
    <3>3. CASE m \in stopping
      BY <1>1, <3>1, <3>2, <3>3, NoStopsAdded
    <3>4. CASE m \notin stopping
      <4> DEFINE b == ~loading
      <4>1. b \in BOOLEAN /\ stopping' = stopping \cup {m} /\ cmds' = Append(cmds, StopCmd(m, b))
        BY <3>1, <3>4
      <4> HIDE DEF b
      <4>2. StopCmd(m, b) \in Command /\ StopCmd(m, b).type = "STOP" /\ StopCmd(m, b).model = m
        BY <4>1, StopCmdIs
      <4>3. cmds \in Seq(Command) /\ stopping \subseteq Models
        BY <1>1 DEF RegTypes
      <4>4. cmds' \in Seq(Command) /\ Len(cmds') = Len(cmds) + 1 /\ Len(cmds) \in Nat
            /\ (\A j \in 1 .. Len(cmds) : cmds'[j] = cmds[j])
            /\ cmds'[Len(cmds) + 1] = StopCmd(m, b)
        BY <4>1, <4>2, <4>3, AppendProperties, LenProperties
      <4>5. \A j \in (Len(cmds) + 1) .. Len(cmds') : j = Len(cmds) + 1
        BY <4>4
      <4>6. AddsStops(stopping)
        BY <4>1, <4>2, <4>3, <4>4, <4>5 DEF AddsStops
      <4> QED BY <3>2, <4>6
    <3> QED BY <3>3, <3>4
  <2> QED BY <2>1, <2>2
<1>4. /\ inst' \in [Models -> Instance]
      /\ lru' \in [1 .. Cardinality(Models) -> Models] /\ Range(lru') = Models
      /\ faults' \in 0 .. MaxFaults
      /\ \A n \in Models : is_running(inst', n) <=> is_running(inst, n)
  BY <1>1, <1>2 DEF RegTypes
<1> QED BY <1>3, <1>4, RegFrame

LEMMA UnloadAllKeeps ==
    ASSUME RegInv, NEW r \in Requests, UnloadAll(r)
    PROVE  RegInv'
<1>1. RegTypes
  BY DEF RegInv
<1> DEFINE new == {k \in DOMAIN lru : is_running(inst, lru[k]) /\ lru[k] \notin stopping}
<1> DEFINE f == [k \in 1 .. Cardinality(new) |->
                    StopCmd(lru[Nth(new, k)], inst[lru[Nth(new, k)]].status # "LOADING")]
<1>2. /\ procs' = [m \in Models |-> IF inst[m].status # "LOADING" THEN procs[m] ELSE KillCurrent(procs[m])]
      /\ stopping' = stopping \cup {lru[k] : k \in new}
      /\ cmds' = cmds \o f
      /\ UNCHANGED <<inst, lru, faults>>
  BY Zenon DEF UnloadAll, KillCurrent
<1>3. ProcsKept
  <2>1. \A m \in Models : procs[m] \in Seq(Process)
    BY <1>1 DEF RegTypes
  <2>2. ASSUME NEW m \in Models
        PROVE  /\ procs'[m] \in Seq(Process)
               /\ DOMAIN procs'[m] = DOMAIN procs[m]
               /\ \A k \in DOMAIN procs[m] :
                    /\ procs'[m][k].current = procs[m][k].current
                    /\ procs'[m][k].watched = procs[m][k].watched
                    /\ procs'[m][k].exit => procs[m][k].exit
                    /\ procs'[m][k].deadline => procs[m][k].deadline
    <3>1. procs'[m] = procs[m] \/ procs'[m] = KillCurrent(procs[m])
      BY <1>2
    <3> QED BY <2>1, <3>1, KillCurrentKeeps
  <2>3. procs' \in [Models -> Seq(Process)]
    BY <1>2, <2>2
  <2> QED BY <2>2, <2>3 DEF ProcsKept
<1>4. AddsStops(stopping)
  <2>1. new \in SUBSET DOMAIN lru /\ stopping \in SUBSET Models
    BY <1>1 DEF RegTypes
  <2>2. Cardinality(new) \in Nat
    BY <1>1, <2>1, PlacesAreModels
  <2>3. \A k \in 1 .. Cardinality(new) : Nth(new, k) \in new
    <3> HIDE DEF new
    <3> QED BY <1>1, <2>1, PlacesAreModels
  <2>4. /\ f = [k \in 1 .. Cardinality(new) |-> f[k]]
        /\ \A k \in 1 .. Cardinality(new) : \E b \in BOOLEAN : f[k] = StopCmd(lru[Nth(new, k)], b)
    <3> HIDE DEF new
    <3> QED OBVIOUS
  <2>5. stopping \subseteq stopping' /\ \A k \in 1 .. Cardinality(new) : lru[Nth(new, k)] \in stopping'
    <3> HIDE DEF new, f
    <3> QED BY <1>2, <2>3
  <2>6. stopping' \subseteq Models
    BY <1>1, <1>2, <2>1, PlacesAreModels
  <2> HIDE DEF new, f
  <2>7. Cardinality(new) \in 0 .. Cardinality(new)
    BY <2>2
  <2> QED BY <1>1, <1>2, <2>1, <2>4, <2>5, <2>6, <2>7, PlacesStopped
<1>5. /\ inst' \in [Models -> Instance]
      /\ lru' \in [1 .. Cardinality(Models) -> Models] /\ Range(lru') = Models
      /\ faults' \in 0 .. MaxFaults
      /\ \A n \in Models : is_running(inst', n) <=> is_running(inst, n)
  BY <1>1, <1>2 DEF RegTypes
<1> QED BY <1>3, <1>4, <1>5, RegFrame

-----------------------------------------------------------------------------
(* The children and the monitor. *)

LEMMA OneProcKept ==
    ASSUME RegTypes, NEW m \in Models, NEW k \in DOMAIN procs[m], NEW y \in Process,
           procs' = [procs EXCEPT ![m] = [procs[m] EXCEPT ![k] = y]],
           y.current = procs[m][k].current, y.watched = procs[m][k].watched,
           y.exit => procs[m][k].exit, y.deadline => procs[m][k].deadline
    PROVE  ProcsKept
<1> DEFINE ps == procs[m]
<1> DEFINE qs == [ps EXCEPT ![k] = y]
<1>1. procs \in [Models -> Seq(Process)]
  BY DEF RegTypes
<1>2. ps \in Seq(Process) /\ Len(ps) \in Nat /\ DOMAIN ps = 1 .. Len(ps)
      /\ (\A j \in DOMAIN ps : ps[j] \in Process) /\ ps = [j \in DOMAIN ps |-> ps[j]]
  <2>1. ps \in Seq(Process)
    BY <1>1
  <2> QED BY <2>1, LenProperties, ElementOfSeq, SeqDef
<1>3. DOMAIN qs = DOMAIN ps /\ qs[k] = y /\ \A j \in DOMAIN ps : j # k => qs[j] = ps[j]
  BY <1>2
<1>4. qs \in Seq(Process)
  BY <1>2, ExceptSeq
<1> HIDE DEF qs
<1>5. procs' = [procs EXCEPT ![m] = qs]
  BY DEF qs
<1>6. \A n \in Models : procs'[n] = IF n = m THEN qs ELSE procs[n]
  BY <1>1, <1>5
<1>7. procs' \in [Models -> Seq(Process)]
  BY <1>1, <1>4, <1>5
<1>8. ASSUME NEW n \in Models
      PROVE  /\ DOMAIN procs'[n] = DOMAIN procs[n]
             /\ \A j \in DOMAIN procs[n] :
                  /\ procs'[n][j].current = procs[n][j].current
                  /\ procs'[n][j].watched = procs[n][j].watched
                  /\ procs'[n][j].exit => procs[n][j].exit
                  /\ procs'[n][j].deadline => procs[n][j].deadline
  <2>1. CASE n # m
    BY <1>6, <2>1
  <2>2. CASE n = m
    <3>1. procs'[n] = qs /\ procs[n] = ps
      BY <1>6, <2>2
    <3> QED BY <1>3, <3>1
  <2> QED BY <2>1, <2>2
<1> QED BY <1>7, <1>8 DEF ProcsKept

\* What a step of one child leaves alone.
LEMMA ChildFrame ==
    ASSUME RegInv, NEW m \in Models, NEW k \in DOMAIN procs[m], NEW y \in Process,
           procs' = [procs EXCEPT ![m] = [procs[m] EXCEPT ![k] = y]],
           y.current = procs[m][k].current, y.watched = procs[m][k].watched,
           y.exit => procs[m][k].exit, y.deadline => procs[m][k].deadline,
           UNCHANGED <<inst, stopping, lru, cmds>>, faults' \in 0 .. MaxFaults
    PROVE  RegInv'
<1>1. RegTypes
  BY DEF RegInv
<1>2. ProcsKept
  BY <1>1, OneProcKept
<1>3. AddsStops(stopping)
  BY <1>1, NoStopsAdded
<1>4. /\ inst' \in [Models -> Instance]
      /\ lru' \in [1 .. Cardinality(Models) -> Models] /\ Range(lru') = Models
      /\ \A n \in Models : is_running(inst', n) <=> is_running(inst, n)
  BY <1>1 DEF RegTypes
<1> QED BY <1>2, <1>3, <1>4, RegFrame

LEMMA SendsKeeps ==
    ASSUME RegInv, NEW m \in Models, NEW k \in DOMAIN procs[m],
           NEW state \in {"loading", "ready", "asleep"}, NEW line \in Statuses \ {"UNLOADED"},
           Sends(m, k, state, line)
    PROVE  RegInv'
<1>1. RegTypes
  BY DEF RegInv
<1> DEFINE x == procs[m][k]
<1> DEFINE o == Append(x.out, line)
<1> DEFINE y == [x EXCEPT !.state = state, !.out = o]
<1>2. x \in Process
  BY <1>1, ProcTypes
<1>3. o \in Seq(Statuses \ {"UNLOADED"})
  <2>1. x.out \in Seq(Statuses \ {"UNLOADED"})
    BY <1>2 DEF Process
  <2> QED BY <2>1, AppendProperties
<1>4. procs' = [procs EXCEPT ![m] = [procs[m] EXCEPT ![k] = y]]
  BY DEF Sends
<1> HIDE DEF o, x
<1>5. y \in Process
  BY <1>2, <1>3, Zenon DEF Process
<1>6. y.current = x.current /\ y.watched = x.watched /\ y.exit = x.exit /\ y.deadline = x.deadline
  BY <1>2 DEF Process
<1>7. UNCHANGED <<inst, stopping, lru, cmds>> /\ faults' \in 0 .. MaxFaults
  BY <1>1 DEF Sends, registry, RegTypes
<1> HIDE DEF y
<1> QED BY <1>4, <1>5, <1>6, <1>7, ChildFrame DEF x

LEMMA ChildKeeps ==
    ASSUME RegInv, NEW m \in Models, NEW k \in DOMAIN procs[m],
           Child(m, k) \/ ChildReady(m, k) \/ ChildWake(m, k) \/ MonitorKill(m, k)
    PROVE  RegInv'
<1>1. RegTypes
  BY DEF RegInv
<1> DEFINE x == procs[m][k]
<1>2. x \in Process
  BY <1>1, ProcTypes
<1>3. CASE ChildReady(m, k)
  BY <1>3, SendsKeeps DEF ChildReady, Statuses
<1>4. CASE ChildWake(m, k)
  BY <1>4, SendsKeeps DEF ChildWake, Statuses
<1>5. CASE ChildSleep(m, k)
  BY <1>5, SendsKeeps DEF ChildSleep, Statuses
<1>6. CASE ChildExit(m, k)
  <2> DEFINE y == [x EXCEPT !.state = "dead"]
  <2>1. procs' = [procs EXCEPT ![m] = [procs[m] EXCEPT ![k] = y]]
    BY <1>6 DEF ChildExit
  <2> HIDE DEF x
  <2>2. y \in Process
    BY <1>2, Zenon DEF Process
  <2>3. y.current = x.current /\ y.watched = x.watched /\ y.exit = x.exit /\ y.deadline = x.deadline
    BY <1>2 DEF Process
  <2>4. UNCHANGED <<inst, stopping, lru, cmds>> /\ faults' \in 0 .. MaxFaults
    BY <1>1, <1>6 DEF ChildExit, registry, RegTypes
  <2> HIDE DEF y
  <2> QED BY <2>1, <2>2, <2>3, <2>4, ChildFrame DEF x
<1>7. CASE ChildCrash(m, k)
  <2>1. procs' = [procs EXCEPT ![m] = [procs[m] EXCEPT ![k] = Killed(x)]]
    BY <1>7 DEF ChildCrash
  <2>4. UNCHANGED <<inst, stopping, lru, cmds>> /\ faults' \in 0 .. MaxFaults
    BY <1>1, <1>7, RouterAssumption DEF ChildCrash, registry, RegTypes
  <2> QED BY <1>2, <2>1, <2>4, KilledIs, ChildFrame
<1>8. CASE MonitorKill(m, k)
  <2> DEFINE z == Killed(x)
  <2> DEFINE y == [z EXCEPT !.deadline = FALSE]
  <2>1. procs' = [procs EXCEPT ![m] = [procs[m] EXCEPT ![k] = y]]
    BY <1>8 DEF MonitorKill
  <2>0. z \in Process /\ z.current = x.current /\ z.watched = x.watched /\ z.exit = x.exit
    BY <1>2, KilledIs
  <2> HIDE DEF x, z
  <2>2. y \in Process
    BY <2>0, Zenon DEF Process
  <2>3. y.current = z.current /\ y.watched = z.watched /\ y.exit = z.exit /\ ~y.deadline
    BY <2>0 DEF Process
  <2>4. UNCHANGED <<inst, stopping, lru, cmds>> /\ faults' \in 0 .. MaxFaults
    BY <1>1, <1>8 DEF MonitorKill, registry, RegTypes
  <2> HIDE DEF y
  <2> QED BY <2>0, <2>1, <2>2, <2>3, <2>4, ChildFrame DEF x
<1> QED BY <1>3, <1>4, <1>5, <1>6, <1>7, <1>8 DEF Child

\* A child that writes a line is that of a running model, which the line leaves running.
LEMMA MonitorReadKeeps ==
    ASSUME RegInv, queue \in Seq(QEntry), NEW m \in Models, NEW k \in DOMAIN procs[m],
           MonitorRead(m, k)
    PROVE  RegInv'
<1>1. RegTypes /\ ProcInv(m)
  BY DEF RegInv
<1> DEFINE x == procs[m][k]
<1> DEFINE status == Head(x.out)
<1> DEFINE o == Tail(x.out)
<1> DEFINE y == [x EXCEPT !.out = o]
<1>2. x \in Process
  BY <1>1, ProcTypes
<1>3. status \in Statuses \ {"UNLOADED"} /\ o \in Seq(Statuses \ {"UNLOADED"})
  <2>1. x.out \in Seq(Statuses \ {"UNLOADED"}) /\ x.out # <<>>
    BY <1>2 DEF Process, MonitorRead
  <2> HIDE DEF x
  <2> QED BY <2>1, HeadTailProperties
<1>4. /\ inst' = [inst EXCEPT ![m].status = status, ![m].failed = FALSE]
      /\ tick(inst', stopping, queue)
      /\ procs' = [procs EXCEPT ![m] = [procs[m] EXCEPT ![k] = y]]
      /\ UNCHANGED <<lru, faults>>
  <2>1. update_status(m, status, FALSE)
    BY DEF MonitorRead
  <2>2. inst' = [inst EXCEPT ![m].status = status, ![m].failed = FALSE] /\ tick(inst', stopping, queue)
    <3> HIDE DEF status
    <3> QED BY <1>3, <2>1, Zenon DEF update_status
  <2>3. procs' = [procs EXCEPT ![m] = [procs[m] EXCEPT ![k] = y]] /\ UNCHANGED <<lru, faults>>
    BY DEF MonitorRead
  <2> QED BY <2>2, <2>3
<1>5. ProcsKept
  <2> HIDE DEF x, o
  <2>1. y \in Process
    BY <1>2, <1>3, Zenon DEF Process
  <2>2. y.current = x.current /\ y.watched = x.watched /\ y.exit = x.exit /\ y.deadline = x.deadline
    BY <1>2 DEF Process
  <2> HIDE DEF y
  <2> QED BY <1>1, <1>4, <2>1, <2>2, OneProcKept DEF x
<1>6. AddsStops(stopping)
  <2>1. stopping \in SUBSET Models
    BY <1>1 DEF RegTypes
  <2> QED BY <1>1, <1>4, <2>1, TickAdds
<1>7. is_running(inst, m)
  <2>1. DOMAIN procs[m] = 1 .. Len(procs[m]) /\ Len(procs[m]) \in Nat
    BY <1>1, ProcTypes
  <2> QED BY <1>1, <2>1 DEF ProcInv
<1> HIDE DEF status
<1>8. inst' \in [Models -> Instance] /\ \A n \in Models : is_running(inst', n) <=> is_running(inst, n)
  <2>1. inst \in [Models -> Instance]
    BY <1>1 DEF RegTypes
  <2> DEFINE i == [inst[m] EXCEPT !.status = status, !.failed = FALSE]
  <2>2. inst' = [inst EXCEPT ![m] = i]
    BY <1>4, <2>1
  <2>3. inst[m] \in Instance
    BY <2>1
  <2>4. i \in Instance
    BY <1>3, <2>3, Zenon DEF Instance
  <2>5. i.status = status
    BY <2>3 DEF Instance
  <2> HIDE DEF i
  <2>6. \A n \in Models : inst'[n] = IF n = m THEN i ELSE inst[n]
    BY <2>1, <2>2
  <2> QED BY <1>3, <1>7, <2>1, <2>2, <2>4, <2>5, <2>6 DEF is_running
<1>9. lru' \in [1 .. Cardinality(Models) -> Models] /\ Range(lru') = Models /\ faults' \in 0 .. MaxFaults
  BY <1>1, <1>4 DEF RegTypes
<1> QED BY <1>5, <1>6, <1>8, <1>9, RegFrame

\* A reaped child was the only one of its model, and the monitor knew it.
LEMMA MonitorReapKeeps ==
    ASSUME RegInv, queue \in Seq(QEntry), NEW m \in Models, NEW k \in DOMAIN procs[m],
           MonitorReap(m, k)
    PROVE  RegInv'
<1>1. RegTypes /\ LimitInv /\ (\A n \in Models : ProcInv(n)) /\ \A j \in DOMAIN cmds : CmdInv(j)
  BY DEF RegInv
<1>2. /\ procs[m] \in Seq(Process) /\ Len(procs[m]) = 1 /\ k = 1 /\ DOMAIN procs[m] = 1 .. 1
      /\ procs[m][k].current /\ procs[m][k] \in Process /\ is_running(inst, m)
  <2>1. /\ procs[m] \in Seq(Process) /\ Len(procs[m]) \in Nat
        /\ DOMAIN procs[m] = 1 .. Len(procs[m]) /\ procs[m][k] \in Process
    BY <1>1, ProcTypes
  <2>2. ProcInv(m)
    BY <1>1
  <2>3. Len(procs[m]) = 1 /\ is_running(inst, m) /\ procs[m][k].current
    BY <2>1, <2>2 DEF ProcInv
  <2> QED BY <2>1, <2>3
<1> DEFINE code == procs[m][k].code
<1>3. code \in BOOLEAN
  BY <1>2 DEF Process
<1>4. /\ inst' = [inst EXCEPT ![m].status = "UNLOADED", ![m].failed = code]
      /\ tick(inst', stopping \ {m}, queue)
      /\ procs' = [procs EXCEPT ![m] = Without(procs[m], k)]
      /\ procs[m][k].watched
      /\ UNCHANGED <<lru, faults>>
  <2>1. update_status(m, "UNLOADED", code)
    BY <1>2, Zenon DEF MonitorReap
  <2>2. inst' = [inst EXCEPT ![m].status = "UNLOADED", ![m].failed = code] /\ tick(inst', stopping \ {m}, queue)
    BY <2>1, Zenon DEF update_status
  <2>3. /\ procs' = [procs EXCEPT ![m] = Without(procs[m], k)]
        /\ procs[m][k].watched /\ UNCHANGED <<lru, faults>>
    BY DEF MonitorReap
  <2> QED BY <2>2, <2>3
<1>5. AddsStops(stopping \ {m})
  <2>1. stopping \ {m} \in SUBSET Models
    BY <1>1 DEF RegTypes
  <2> QED BY <1>1, <1>4, <2>1, TickAdds
<1>6. /\ procs' \in [Models -> Seq(Process)] /\ procs'[m] = <<>>
      /\ \A n \in Models : n # m => procs'[n] = procs[n]
  <2>0. k \in 1 .. Len(procs[m])
    BY <1>2
  <2>1. Without(procs[m], k) \in Seq(Process) /\ Len(Without(procs[m], k)) = 0
    <3>1. Without(procs[m], k) \in Seq(Process) /\ Len(Without(procs[m], k)) = Len(procs[m]) - 1
      BY <1>2, <2>0, WithoutIs
    <3> QED BY <1>2, <3>1
  <2>2. Without(procs[m], k) = <<>>
    BY <2>1
  <2>3. procs \in [Models -> Seq(Process)]
    BY <1>1 DEF RegTypes
  <2> QED BY <1>4, <2>1, <2>2, <2>3
<1> HIDE DEF code
<1>7. /\ inst' \in [Models -> Instance] /\ ~is_running(inst', m)
      /\ \A n \in Models : n # m => inst'[n] = inst[n]
  <2>1. inst \in [Models -> Instance]
    BY <1>1 DEF RegTypes
  <2> DEFINE i == [inst[m] EXCEPT !.status = "UNLOADED", !.failed = code]
  <2>2. inst' = [inst EXCEPT ![m] = i]
    BY <1>4, <2>1
  <2>3. inst[m] \in Instance
    BY <2>1
  <2>4. i \in Instance
    BY <1>3, <2>3, Zenon DEF Instance, Statuses
  <2>5. i.status = "UNLOADED"
    BY <2>3 DEF Instance
  <2> HIDE DEF i
  <2>6. \A n \in Models : inst'[n] = IF n = m THEN i ELSE inst[n]
    BY <2>1, <2>2
  <2> QED BY <2>1, <2>2, <2>4, <2>5, <2>6 DEF is_running
<1>8. RegTypes'
  BY <1>1, <1>4, <1>5, <1>6, <1>7 DEF RegTypes, AddsStops
<1>9. LimitInv'
  <2>1. Running(inst') \subseteq Running(inst) /\ IsFiniteSet(Running(inst))
    <3>1. Running(inst') \subseteq Running(inst) /\ Running(inst) \subseteq Models
      BY <1>7 DEF Running, is_running
    <3> QED BY <3>1, RouterAssumption, FS_Subset
  <2>2. Cardinality(Running(inst')) <= Cardinality(Running(inst))
    BY <2>1, FS_Subset
  <2>3. Cardinality(Running(inst')) \in Nat /\ Cardinality(Running(inst)) \in Nat /\ MaxModels \in Nat
    BY <2>1, FS_Subset, FS_CardinalityType, RouterAssumption
  <2> QED BY <1>1, <2>2, <2>3 DEF LimitInv
<1>10. ASSUME NEW n \in Models PROVE ProcInv(n)'
  <2>1. CASE n = m
    BY <1>6, <1>7, <2>1 DEF ProcInv
  <2>2. CASE n # m
    <3>1. ProcInv(n) /\ procs'[n] = procs[n] /\ inst'[n] = inst[n]
      BY <1>1, <1>6, <1>7, <2>2
    <3>2. n \in stopping => n \in stopping'
      BY <1>5, <2>2 DEF AddsStops
    <3> QED BY <3>1, <3>2 DEF ProcInv, is_running
  <2> QED BY <2>1, <2>2
<1>11. ASSUME NEW j \in DOMAIN cmds' PROVE CmdInv(j)'
  <2>1. /\ Len(cmds) \in Nat /\ DOMAIN cmds = 1 .. Len(cmds)
        /\ Len(cmds') \in Nat /\ DOMAIN cmds' = 1 .. Len(cmds') /\ Len(cmds) <= Len(cmds')
        /\ \A i \in 1 .. Len(cmds) : cmds'[i] = cmds[i]
        /\ \A i \in (Len(cmds) + 1) .. Len(cmds') :
             cmds'[i].type = "STOP" /\ cmds'[i].model \in stopping'
    BY <1>1, <1>5, CmdTypes, LenProperties DEF AddsStops
  <2>2. \A i \in DOMAIN cmds : ~Watches(cmds[i], m)
    <3>1. Watched(m) # {}
      BY <1>4 DEF Watched
    <3> QED BY <1>1, <3>1 DEF CmdInv, Watches
  <2>3. CASE j > Len(cmds)
    <3>1. cmds'[j].type = "STOP" /\ cmds'[j].model \in stopping'
      BY <2>1, <2>3
    <3> QED BY <3>1 DEF CmdInv
  <2>4. CASE j <= Len(cmds)
    <3>1. j \in 1 .. Len(cmds) /\ cmds'[j] = cmds[j] /\ cmds[j].model \in Models /\ CmdInv(j)
      BY <1>1, <2>1, <2>4, CmdTypes
    <3>2. \A i \in 1 .. (j - 1) : cmds'[i] = cmds[i] /\ i \in DOMAIN cmds
      BY <2>1, <3>1
    <3>3. CASE cmds[j].model = m
      <4>1. cmds[j].type # "WATCH"
        BY <2>1, <2>2, <3>1, <3>3 DEF Watches
      <4>2. {i \in DOMAIN procs'[m] : procs'[m][i].watched} = {}
        BY <1>6
      <4>3. \A i \in 1 .. (j - 1) : ~Watches(cmds'[i], m)
        BY <2>2, <3>2
      <4> QED BY <3>1, <3>3, <4>1, <4>2, <4>3 DEF CmdInv, Watched
    <3>4. CASE cmds[j].model # m
      <4> DEFINE n == cmds[j].model
      <4>1. procs'[n] = procs[n]
        BY <1>6, <3>1, <3>4
      <4>2. cmds[j].type = "WATCH" => \A i \in DOMAIN cmds' : Watches(cmds'[i], n) => i = j
        <5> SUFFICES ASSUME cmds[j].type = "WATCH", NEW i \in DOMAIN cmds', Watches(cmds'[i], n) PROVE i = j
          OBVIOUS
        <5>1. i \in 1 .. Len(cmds)
          BY <2>1 DEF Watches
        <5>2. Watches(cmds[i], n)
          BY <2>1, <5>1
        <5> QED BY <2>1, <3>1, <5>1, <5>2 DEF CmdInv
      <4>3. n \in stopping => n \in stopping'
        BY <1>5, <3>4 DEF AddsStops
      <4>4. cmds[j].type = "WATCH" => procs[n] # <<>> /\ Watched(n) = {}
        BY <3>1 DEF CmdInv
      <4>5. cmds[j].type = "STOP" =>
              n \in stopping' \/ (Watched(n) = {} /\ \A i \in 1 .. (j - 1) : ~Watches(cmds'[i], n))
        <5>1. cmds[j].type = "STOP" =>
                n \in stopping \/ (Watched(n) = {} /\ \A i \in 1 .. (j - 1) : ~Watches(cmds[i], n))
          BY <3>1, Zenon DEF CmdInv
        <5> HIDE DEF n
        <5> QED BY <3>2, <4>3, <5>1
      <4> HIDE DEF n
      <4>6. cmds'[j].model = n
        BY <3>1 DEF n
      <4> QED BY <3>1, <4>1, <4>2, <4>4, <4>5, <4>6 DEF CmdInv, Watched
    <3> QED BY <3>3, <3>4
  <2> QED BY <2>1, <2>3, <2>4
<1> QED BY <1>8, <1>9, <1>10, <1>11 DEF RegInv

\* A spawn finds no child of the model, none that the monitor has still to learn of, and room.
LEMMA SpawnKeeps ==
    ASSUME RegInv, NEW m \in Models, inst[m].status = "UNLOADED", has_capacity,
           inst' = [inst EXCEPT ![m].status = "LOADING", ![m].count = 0],
           procs' = [procs EXCEPT ![m] =
               Append([k \in DOMAIN procs[m] |-> [Killed(procs[m][k]) EXCEPT !.current = FALSE]], NewProc)],
           lru' = Used(m), cmds' = Append(cmds, WatchCmd(m)), UNCHANGED <<stopping, faults>>
    PROVE  RegInv'
<1>1. RegTypes /\ LimitInv /\ (\A n \in Models : ProcInv(n)) /\ \A j \in DOMAIN cmds : CmdInv(j)
  BY DEF RegInv
<1>2. procs[m] = <<>>
  <2>1. procs[m] \in Seq(Process) /\ ProcInv(m)
    BY <1>1, ProcTypes
  <2> QED BY <2>1 DEF ProcInv, is_running
<1>3. procs' = [procs EXCEPT ![m] = <<NewProc>>]
  <2>1. [k \in DOMAIN procs[m] |-> [Killed(procs[m][k]) EXCEPT !.current = FALSE]] = <<>>
    BY <1>2
  <2>2. Append(<<>>, NewProc) = <<NewProc>>
    OBVIOUS
  <2> QED BY <2>1, <2>2
<1>4. NewProc \in Process /\ NewProc.current /\ ~NewProc.watched /\ ~NewProc.exit /\ ~NewProc.deadline
  <2>1. <<>> \in Seq(Statuses \ {"UNLOADED"})
    OBVIOUS
  <2>2. NewProc \in Process
    BY <2>1, Zenon DEF NewProc, Process
  <2> QED BY <2>2 DEF NewProc
<1>5. /\ procs' \in [Models -> Seq(Process)] /\ procs'[m] = <<NewProc>>
      /\ \A n \in Models : n # m => procs'[n] = procs[n]
  <2>1. <<NewProc>> \in Seq(Process)
    BY <1>4
  <2>2. procs \in [Models -> Seq(Process)]
    BY <1>1 DEF RegTypes
  <2> DEFINE one == <<NewProc>>
  <2> HIDE DEF one
  <2>3. procs' = [procs EXCEPT ![m] = one] /\ one \in Seq(Process)
    BY <1>3, <2>1 DEF one
  <2>4. procs' \in [Models -> Seq(Process)] /\ procs'[m] = one /\ \A n \in Models : n # m => procs'[n] = procs[n]
    BY <2>2, <2>3
  <2> QED BY <2>4 DEF one
<1>5a. Len(<<NewProc>>) = 1 /\ DOMAIN <<NewProc>> = {1} /\ <<NewProc>>[1] = NewProc
  OBVIOUS
<1>6. /\ inst' \in [Models -> Instance] /\ is_running(inst', m)
      /\ \A n \in Models : n # m => inst'[n] = inst[n]
  <2>1. inst \in [Models -> Instance]
    BY <1>1 DEF RegTypes
  <2> DEFINE i == [inst[m] EXCEPT !.status = "LOADING", !.count = 0]
  <2>2. inst' = [inst EXCEPT ![m] = i]
    BY <2>1
  <2>3. inst[m] \in Instance
    BY <2>1
  <2>4. i \in Instance
    BY <2>3, 0 \in Nat, Zenon DEF Instance, Statuses
  <2>5. i.status = "LOADING"
    BY <2>3 DEF Instance
  <2> HIDE DEF i
  <2>6. \A n \in Models : inst'[n] = IF n = m THEN i ELSE inst[n]
    BY <2>1, <2>2
  <2> QED BY <2>1, <2>2, <2>4, <2>5, <2>6 DEF is_running
<1>7. WatchCmd(m) \in Command /\ WatchCmd(m).type = "WATCH" /\ WatchCmd(m).model = m
  BY DEF WatchCmd, Command
<1>8. /\ Len(cmds) \in Nat /\ DOMAIN cmds = 1 .. Len(cmds) /\ cmds \in Seq(Command)
      /\ cmds' \in Seq(Command) /\ Len(cmds') = Len(cmds) + 1 /\ DOMAIN cmds' = 1 .. (Len(cmds) + 1)
      /\ \A j \in 1 .. Len(cmds) : cmds'[j] = cmds[j]
      /\ cmds'[Len(cmds) + 1] = WatchCmd(m)
  <2>1. Len(cmds) \in Nat /\ DOMAIN cmds = 1 .. Len(cmds) /\ cmds \in Seq(Command)
    BY <1>1, CmdTypes
  <2> QED BY <1>7, <2>1, AppendProperties, LenProperties
<1>9. RegTypes'
  <2>1. lru' \in [1 .. Cardinality(Models) -> Models] /\ Range(lru') = Models
    BY <1>1, UsedKeeps
  <2> QED BY <1>1, <1>5, <1>6, <1>8, <2>1 DEF RegTypes
<1>10. LimitInv'
  <2>1. Running(inst') = Running(inst) \cup {m} /\ m \notin Running(inst) /\ IsFiniteSet(Running(inst))
    <3>1. Running(inst) \subseteq Models /\ m \notin Running(inst)
      BY DEF Running, is_running
    <3>2. Running(inst') = Running(inst) \cup {m}
      BY <1>6 DEF Running, is_running
    <3> QED BY <3>1, <3>2, RouterAssumption, FS_Subset
  <2>2. Cardinality(Running(inst')) = Cardinality(Running(inst)) + 1 /\ Cardinality(Running(inst)) \in Nat
    BY <2>1, FS_AddElement, FS_CardinalityType
  <2>3. MaxModels \in Nat
    BY RouterAssumption
  <2> QED BY <2>2, <2>3 DEF LimitInv, has_capacity
<1>11. ASSUME NEW n \in Models PROVE ProcInv(n)'
  <2>1. CASE n = m
    <3>1. Len(procs'[n]) = 1 /\ \A k \in DOMAIN procs'[n] : procs'[n][k] = NewProc
      BY <1>5, <1>5a, <2>1
    <3> QED BY <1>4, <1>6, <2>1, <3>1 DEF ProcInv
  <2>2. CASE n # m
    <3>1. ProcInv(n) /\ procs'[n] = procs[n] /\ inst'[n] = inst[n]
      BY <1>1, <1>5, <1>6, <2>2
    <3> QED BY <3>1 DEF ProcInv, is_running
  <2> QED BY <2>1, <2>2
<1>12. \A i \in DOMAIN cmds : ~Watches(cmds[i], m)
  BY <1>1, <1>2 DEF CmdInv, Watches
<1>13. {k \in DOMAIN procs'[m] : procs'[m][k].watched} = {} /\ procs'[m] # <<>>
  <2>1. Len(procs'[m]) = 1 /\ \A k \in DOMAIN procs'[m] : procs'[m][k] = NewProc
    BY <1>5, <1>5a
  <2>2. procs'[m] # <<>>
    <3>1. Len(procs'[m]) = 1
      BY <2>1
    <3>2. Len(<<>>) = 0
      OBVIOUS
    <3>3. 1 # 0
      OBVIOUS
    <3> QED BY <3>1, <3>2, <3>3, Zenon
  <2> QED BY <1>4, <2>1, <2>2
<1>14. ASSUME NEW j \in DOMAIN cmds' PROVE CmdInv(j)'
  <2>1. CASE j = Len(cmds) + 1
    <3>1. cmds'[j].type = "WATCH" /\ cmds'[j].model = m
      BY <1>7, <1>8, <2>1
    <3>2. ASSUME NEW i \in DOMAIN cmds', Watches(cmds'[i], m) PROVE i = j
      <4>1. i \in 1 .. Len(cmds) => ~Watches(cmds'[i], m)
        BY <1>8, <1>12
      <4> QED BY <1>8, <2>1, <3>2, <4>1
    <3> QED BY <1>13, <3>1, <3>2 DEF CmdInv, Watched
  <2>2. CASE j \in 1 .. Len(cmds)
    <3> DEFINE n == cmds[j].model
    <3>1. cmds'[j] = cmds[j] /\ n \in Models /\ CmdInv(j)
      BY <1>1, <1>8, <2>2, CmdTypes
    <3>2. \A i \in 1 .. (j - 1) : cmds'[i] = cmds[i] /\ i \in DOMAIN cmds
      BY <1>8, <2>2
    <3>3. Watched(n) = {} => {k \in DOMAIN procs'[n] : procs'[n][k].watched} = {}
      <4>1. n = m \/ procs'[n] = procs[n]
        BY <1>5, <3>1
      <4> QED BY <1>13, <4>1 DEF Watched
    <3>4. cmds[j].type = "WATCH" =>
            /\ procs'[n] # <<>> /\ Watched(n) = {}
            /\ \A i \in DOMAIN cmds' : Watches(cmds'[i], n) => i = j
      <4> SUFFICES ASSUME cmds[j].type = "WATCH"
                   PROVE  /\ procs'[n] # <<>> /\ Watched(n) = {}
                          /\ \A i \in DOMAIN cmds' : Watches(cmds'[i], n) => i = j
        OBVIOUS
      <4>1. n # m
        BY <1>8, <1>12, <2>2 DEF Watches
      <4>2. procs[n] # <<>> /\ Watched(n) = {} /\ \A i \in DOMAIN cmds : Watches(cmds[i], n) => i = j
        BY <3>1 DEF CmdInv
      <4>3. ~Watches(cmds'[Len(cmds) + 1], n)
        BY <1>7, <1>8, <4>1 DEF Watches
      <4>4. procs'[n] # <<>>
        BY <1>5, <3>1, <4>1, <4>2
      <4>5. ASSUME NEW i \in DOMAIN cmds', Watches(cmds'[i], n) PROVE i = j
        <5>1. i \in 1 .. Len(cmds)
          BY <1>8, <4>3, <4>5
        <5> QED BY <1>8, <4>2, <4>5, <5>1
      <4> QED BY <4>2, <4>4, <4>5
    <3>5. cmds[j].type = "STOP" =>
            n \in stopping \/ (Watched(n) = {} /\ \A i \in 1 .. (j - 1) : ~Watches(cmds'[i], n))
      <4>1. cmds[j].type = "STOP" =>
              n \in stopping \/ (Watched(n) = {} /\ \A i \in 1 .. (j - 1) : ~Watches(cmds[i], n))
        BY <3>1, Zenon DEF CmdInv
      <4> HIDE DEF n
      <4> QED BY <3>2, <4>1
    <3> HIDE DEF n
    <3>6. cmds'[j].model = n
      BY <3>1 DEF n
    <3> QED BY <3>1, <3>3, <3>4, <3>5, <3>6 DEF CmdInv, Watched
  <2> QED BY <1>8, <2>1, <2>2
<1> QED BY <1>9, <1>10, <1>11, <1>14 DEF RegInv

\* Taking a command: its model alone may be touched, and learnt of only by a WATCH.
LEMMA CommandTaken ==
    ASSUME RegInv, cmds # <<>>, cmds' = Tail(cmds), UNCHANGED <<inst, stopping, lru, faults>>,
           procs' \in [Models -> Seq(Process)],
           \A n \in Models :
              /\ Len(procs'[n]) = Len(procs[n])
              /\ \A k \in DOMAIN procs'[n] :
                   /\ procs'[n][k].current = procs[n][k].current
                   /\ procs'[n][k].exit \/ procs'[n][k].deadline => n \in stopping
                   /\ ~Watches(Head(cmds), n) => procs'[n][k].watched = procs[n][k].watched
    PROVE  RegInv'
<1>1. RegTypes /\ LimitInv /\ (\A n \in Models : ProcInv(n)) /\ \A j \in DOMAIN cmds : CmdInv(j)
  BY DEF RegInv
<1>2. cmds \in Seq(Command) /\ Len(cmds) \in Nat /\ DOMAIN cmds = 1 .. Len(cmds)
  BY <1>1, CmdTypes
<1>3. /\ cmds' \in Seq(Command) /\ Len(cmds') = Len(cmds) - 1 /\ DOMAIN cmds' = 1 .. (Len(cmds) - 1)
      /\ \A j \in 1 .. (Len(cmds) - 1) : cmds'[j] = cmds[j + 1]
      /\ Head(cmds) = cmds[1] /\ Len(cmds) > 0
  <2>1. Tail(cmds) \in Seq(Command) /\ Len(Tail(cmds)) = Len(cmds) - 1
        /\ \A j \in 1 .. (Len(cmds) - 1) : Tail(cmds)[j] = cmds[j + 1]
    BY <1>2, HeadTailProperties
  <2>2. Head(cmds) = cmds[1] /\ Len(cmds) > 0
    BY <1>2
  <2> QED BY <2>1, <2>2, LenProperties
<1>4. RegTypes'
  BY <1>1, <1>3 DEF RegTypes
<1>5. LimitInv'
  BY <1>1 DEF LimitInv, Running, is_running
<1>6. ASSUME NEW n \in Models
      PROVE  /\ DOMAIN procs'[n] = DOMAIN procs[n] /\ Len(procs'[n]) = Len(procs[n])
             /\ procs[n] # <<>> => procs'[n] # <<>>
  <2>1. procs'[n] \in Seq(Process) /\ procs[n] \in Seq(Process) /\ Len(procs'[n]) = Len(procs[n])
    BY <1>1, ProcTypes
  <2> QED BY <2>1, LenProperties
<1>7. ASSUME NEW n \in Models PROVE ProcInv(n)'
  <2>1. ProcInv(n)
    BY <1>1
  <2> QED BY <1>6, <2>1 DEF ProcInv, is_running
<1>8. ASSUME NEW j \in DOMAIN cmds' PROVE CmdInv(j)'
  <2>1. j \in 1 .. (Len(cmds) - 1) /\ j + 1 \in DOMAIN cmds /\ 1 \in DOMAIN cmds /\ j + 1 # 1
    BY <1>2, <1>3
  <2> DEFINE n == cmds[j + 1].model
  <2>2. cmds'[j] = cmds[j + 1] /\ n \in Models /\ CmdInv(j + 1) /\ CmdInv(1)
    BY <1>1, <1>3, <2>1, CmdTypes
  <2>3. ~Watches(cmds[1], n) => Watched(n) = {k \in DOMAIN procs'[n] : procs'[n][k].watched}
    BY <1>3, <1>6, <2>2 DEF Watched
  <2>4. cmds[j + 1].type = "WATCH" =>
          /\ procs'[n] # <<>> /\ {k \in DOMAIN procs'[n] : procs'[n][k].watched} = {}
          /\ \A i \in DOMAIN cmds' : Watches(cmds'[i], n) => i = j
    <3> SUFFICES ASSUME cmds[j + 1].type = "WATCH"
                 PROVE  /\ procs'[n] # <<>> /\ {k \in DOMAIN procs'[n] : procs'[n][k].watched} = {}
                        /\ \A i \in DOMAIN cmds' : Watches(cmds'[i], n) => i = j
      OBVIOUS
    <3>1. procs[n] # <<>> /\ Watched(n) = {} /\ \A i \in DOMAIN cmds : Watches(cmds[i], n) => i = j + 1
      BY <2>2 DEF CmdInv
    <3>2. ~Watches(cmds[1], n)
      BY <2>1, <3>1
    <3>3. ASSUME NEW i \in DOMAIN cmds', Watches(cmds'[i], n) PROVE i = j
      <4>1. i \in Nat /\ i + 1 \in DOMAIN cmds /\ cmds'[i] = cmds[i + 1] /\ j \in Nat
        BY <1>2, <1>3, <2>1
      <4>2. i + 1 = j + 1
        BY <3>1, <3>3, <4>1
      <4> QED BY <4>1, <4>2
    <3> QED BY <1>6, <2>2, <2>3, <3>1, <3>2, <3>3
  <2>5. cmds[j + 1].type = "STOP" =>
          \/ n \in stopping
          \/ /\ {k \in DOMAIN procs'[n] : procs'[n][k].watched} = {}
             /\ \A i \in 1 .. (j - 1) : ~Watches(cmds'[i], n)
    <3> SUFFICES ASSUME cmds[j + 1].type = "STOP", n \notin stopping
                 PROVE  /\ {k \in DOMAIN procs'[n] : procs'[n][k].watched} = {}
                        /\ \A i \in 1 .. (j - 1) : ~Watches(cmds'[i], n)
      OBVIOUS
    <3>1. Watched(n) = {} /\ \A i \in 1 .. ((j + 1) - 1) : ~Watches(cmds[i], n)
      BY <2>2 DEF CmdInv
    <3>2. 1 \in 1 .. ((j + 1) - 1)
      BY <1>2, <2>1
    <3>3. ~Watches(cmds[1], n)
      BY <3>1, <3>2
    <3>4. ASSUME NEW i \in 1 .. (j - 1) PROVE ~Watches(cmds'[i], n)
      <4>1. i + 1 \in 1 .. ((j + 1) - 1) /\ i \in 1 .. (Len(cmds) - 1)
        BY <1>2, <2>1
      <4>2. ~Watches(cmds[i + 1], n)
        BY <3>1, <4>1
      <4> QED BY <1>3, <4>1, <4>2
    <3> QED BY <2>3, <3>1, <3>3, <3>4
  <2> HIDE DEF n
  <2>6. cmds'[j].model = n /\ cmds'[j].type = cmds[j + 1].type
    BY <2>2 DEF n
  <2> QED BY <2>4, <2>5, <2>6 DEF CmdInv, Watched
<1> QED BY <1>4, <1>5, <1>7, <1>8 DEF RegInv

LEMMA MonitorCommandKeeps ==
    ASSUME RegInv, MonitorCommand
    PROVE  RegInv'
<1>1. RegTypes /\ (\A n \in Models : ProcInv(n)) /\ \A j \in DOMAIN cmds : CmdInv(j)
  BY DEF RegInv
<1> DEFINE c == Head(cmds)
<1> DEFINE m == Head(cmds).model
<1>2. cmds # <<>> /\ cmds' = Tail(cmds) /\ UNCHANGED <<inst, stopping, lru, faults>>
  BY DEF MonitorCommand
<1>3. c = cmds[1] /\ 1 \in DOMAIN cmds /\ c \in Command /\ m \in Models /\ CmdInv(1)
  <2>1. cmds \in Seq(Command) /\ Len(cmds) \in Nat /\ DOMAIN cmds = 1 .. Len(cmds)
    BY <1>1, CmdTypes
  <2>2. c = cmds[1] /\ 1 \in DOMAIN cmds
    BY <1>2, <2>1
  <2> QED BY <1>1, <2>2, CmdTypes
<1>4. /\ procs \in [Models -> Seq(Process)] /\ Len(procs[m]) \in Nat
      /\ DOMAIN procs[m] = 1 .. Len(procs[m]) /\ \A k \in DOMAIN procs[m] : procs[m][k] \in Process
  BY <1>1, <1>3, ProcTypes DEF RegTypes
<1>5. ASSUME NEW qs \in Seq(Process), procs' = [procs EXCEPT ![m] = qs], Len(qs) = Len(procs[m]),
             \A k \in DOMAIN qs :
                   /\ qs[k].current = procs[m][k].current
                   /\ qs[k].exit \/ qs[k].deadline => m \in stopping
                   /\ c.type # "WATCH" => qs[k].watched = procs[m][k].watched
      PROVE  RegInv'
  <2>1. procs' \in [Models -> Seq(Process)] /\ \A n \in Models : procs'[n] = IF n = m THEN qs ELSE procs[n]
    BY <1>3, <1>4, <1>5
  <2>2. ASSUME NEW n \in Models
        PROVE  /\ Len(procs'[n]) = Len(procs[n])
               /\ \A k \in DOMAIN procs'[n] :
                   /\ procs'[n][k].current = procs[n][k].current
                   /\ procs'[n][k].exit \/ procs'[n][k].deadline => n \in stopping
                   /\ ~Watches(Head(cmds), n) => procs'[n][k].watched = procs[n][k].watched
    <3>1. CASE n = m
      <4>1. procs'[n] = qs /\ procs[n] = procs[m]
        BY <2>1, <3>1
      <4> QED BY <1>5, <3>1, <4>1 DEF Watches
    <3>2. CASE n # m
      <4>1. procs'[n] = procs[n] /\ ProcInv(n)
        BY <1>1, <2>1, <3>2
      <4> QED BY <4>1 DEF ProcInv
    <3> QED BY <3>1, <3>2
  <2> QED BY <1>2, <2>1, <2>2, CommandTaken
<1>6. CASE c.type = "WATCH"
  <2> DEFINE y(k) == [procs[m][k] EXCEPT !.watched = TRUE]
  <2> DEFINE qs == [k \in DOMAIN procs[m] |-> IF procs[m][k].current THEN y(k) ELSE procs[m][k]]
  <2>1. procs' = [procs EXCEPT ![m] = qs]
    BY <1>4, <1>6 DEF MonitorCommand
  <2>2. ASSUME NEW k \in DOMAIN procs[m]
        PROVE  /\ y(k) \in Process /\ y(k).current = procs[m][k].current
               /\ y(k).exit = procs[m][k].exit /\ y(k).deadline = procs[m][k].deadline
    <3> DEFINE x == procs[m][k]
    <3>1. x \in Process
      BY <1>4
    <3> HIDE DEF x
    <3>2. [x EXCEPT !.watched = TRUE] \in Process
      BY <3>1, Zenon DEF Process
    <3>3. /\ [x EXCEPT !.watched = TRUE].current = x.current
          /\ [x EXCEPT !.watched = TRUE].exit = x.exit
          /\ [x EXCEPT !.watched = TRUE].deadline = x.deadline
      BY <3>1 DEF Process
    <3> QED BY <3>2, <3>3 DEF x
  <2> HIDE DEF y
  <2>3. qs \in [1 .. Len(procs[m]) -> Process] /\ DOMAIN qs = 1 .. Len(procs[m])
    BY <1>4, <2>2
  <2>4. qs \in Seq(Process) /\ Len(qs) = Len(procs[m])
    <3> DEFINE L == Len(procs[m])
    <3> HIDE DEF qs, L
    <3>1. L \in Nat /\ qs \in [1 .. L -> Process] /\ DOMAIN qs = 1 .. L
      BY <1>4, <2>3 DEF L
    <3>2. qs \in Seq(Process)
      BY <3>1, SeqDef
    <3>3. Len(qs) = L
      BY <3>1, <3>2, LenProperties
    <3> QED BY <3>2, <3>3 DEF L
  <2>5. ASSUME NEW k \in DOMAIN qs
        PROVE  /\ qs[k].current = procs[m][k].current
               /\ qs[k].exit \/ qs[k].deadline => m \in stopping
    <3>1. k \in DOMAIN procs[m] /\ qs[k] \in {y(k), procs[m][k]}
      BY <1>4, <2>3
    <3>2. ProcInv(m)
      BY <1>1, <1>3
    <3> QED BY <2>2, <3>1, <3>2 DEF ProcInv
  <2> HIDE DEF qs
  <2> QED BY <1>5, <1>6, <2>1, <2>4, <2>5
<1>7. CASE c.type = "STOP" /\ Watched(m) # {}
  <2> DEFINE k == Newest(m)
  <2>1. Len(procs[m]) = 1 /\ DOMAIN procs[m] = {1} /\ k = 1
    <3>1. ProcInv(m)
      BY <1>1, <1>3
    <3>2. Len(procs[m]) = 1 /\ DOMAIN procs[m] = {1}
      BY <1>4, <1>7, <3>1 DEF ProcInv, Watched
    <3>3. Watched(m) = {1}
      BY <1>7, <3>2 DEF Watched
    <3> QED BY <3>2, <3>3 DEF Newest
  <2> DEFINE x == procs[m][1]
  <2> DEFINE e == x.exit \/ c.send_exit
  <2> DEFINE y == [x EXCEPT !.exit = e, !.deadline = TRUE]
  <2> DEFINE qs == [procs[m] EXCEPT ![1] = y]
  <2>2. procs' = [procs EXCEPT ![m] = qs]
    <3> DEFINE told(j) == [procs EXCEPT ![m] = [procs[m] EXCEPT ![j] =
                             [procs[m][j] EXCEPT !.exit = procs[m][j].exit \/ c.send_exit, !.deadline = TRUE]]]
    <3>1. procs' = told(k)
      BY <1>7 DEF MonitorCommand
    <3>2. told(k) = told(1)
      BY <2>1
    <3> QED BY <3>1, <3>2
  <2>3. m \in stopping
    BY <1>3, <1>7 DEF CmdInv
  <2>4. x \in Process /\ x.current /\ e \in BOOLEAN
    <3>1. x \in Process /\ ProcInv(m) /\ c.send_exit \in BOOLEAN
      BY <1>1, <1>3, <1>4, <2>1 DEF Command
    <3> QED BY <2>1, <3>1 DEF ProcInv, Process
  <2> HIDE DEF e, x
  <2>5. y \in Process
    BY <2>4, Zenon DEF Process
  <2>6. y.current = x.current /\ y.watched = x.watched
    BY <2>4 DEF Process
  <2> HIDE DEF y
  <2>7. qs \in Seq(Process) /\ Len(qs) = Len(procs[m]) /\ DOMAIN qs = {1} /\ qs[1] = y
    <3>1. procs[m] \in Seq(Process)
      BY <1>3, <1>4
    <3>2. qs \in Seq(Process) /\ DOMAIN qs = {1} /\ qs[1] = y
      BY <2>1, <2>5, <3>1, ExceptSeq
    <3>3. Len(qs) = 1
      <4> HIDE DEF qs
      <4>1. Len(qs) \in Nat /\ 1 .. Len(qs) = {1}
        BY <3>2, LenProperties
      <4>2. 1 \in 1 .. Len(qs)
        BY <4>1
      <4>3. Len(qs) \in 1 .. Len(qs)
        BY <4>1, <4>2
      <4> QED BY <4>1, <4>3
    <3> QED BY <2>1, <3>2, <3>3
  <2> HIDE DEF qs
  <2>8. \A i \in DOMAIN qs : qs[i] = y /\ procs[m][i] = x
    BY <2>7 DEF x
  <2> QED BY <1>5, <2>2, <2>3, <2>6, <2>7, <2>8
<1>8. CASE c.type # "WATCH" /\ ~(c.type = "STOP" /\ Watched(m) # {})
  <2>1. procs' = procs
    BY <1>8 DEF MonitorCommand
  <2>2. procs' = [procs EXCEPT ![m] = procs[m]] /\ procs[m] \in Seq(Process)
    BY <1>3, <1>4, <2>1
  <2>3. ProcInv(m)
    BY <1>1, <1>3
  <2>4. \A k \in DOMAIN procs[m] : procs[m][k].exit \/ procs[m][k].deadline => m \in stopping
    BY <2>3 DEF ProcInv
  <2> QED BY <1>5, <2>2, <2>4
<1> QED BY <1>6, <1>7, <1>8

-----------------------------------------------------------------------------
(* The handlers' locals and the queue. *)

\* The requests that wait for m by what f says of each.
Waiters(f, m) == {r \in Requests : f[r].queued /\ f[r].model = m}

LEMMA OneMoves ==
    ASSUME RqInv, NEW r \in Requests, NEW x \in Request, RequestOK(x), rq' = [rq EXCEPT ![r] = x]
    PROVE  RqInv' /\ \A s \in Requests : rq'[s] = IF s = r THEN x ELSE rq[s]
<1>1. rq \in [Requests -> Request] /\ \A s \in Requests : RequestOK(rq[s])
  BY DEF RqInv
<1>2. rq' \in [Requests -> Request] /\ \A s \in Requests : rq'[s] = IF s = r THEN x ELSE rq[s]
  BY <1>1
<1>3. \A s \in Requests : RequestOK(rq'[s])
  BY <1>1, <1>2
<1> QED BY <1>2, <1>3 DEF RqInv, RequestOK

\* A handler that moves on and stays in the queue, or out of it, as it was.
LEMMA MoveRq ==
    ASSUME RqInv, QInv, NEW r \in Requests, NEW x \in Request, RequestOK(x),
           rq' = [rq EXCEPT ![r] = x], UNCHANGED queue,
           x.queued = rq[r].queued, x.queued => x.model = rq[r].model
    PROVE  RqInv' /\ QInv'
<1>1. RqInv' /\ \A s \in Requests : rq'[s] = IF s = r THEN x ELSE rq[s]
  BY OneMoves
<1>2. \A n : {s \in Requests : rq'[s].queued /\ rq'[s].model = n} = {s \in Requests : rq[s].queued /\ rq[s].model = n}
  BY <1>1
<1>3. QueueOwned'
  <2>1. QueueOwned
    BY DEF QInv
  <2>2. \A k \in DOMAIN queue :
          queue[k].n_waiters = Cardinality({s \in Requests : rq'[s].queued /\ rq'[s].model = queue[k].model})
    BY <1>2, <2>1 DEF QueueOwned, Mine
  <2>3. \A s \in Requests : rq'[s].queued => InQueue(queue, rq'[s].model)
    <3>1. \A s \in Requests : rq[s].queued => InQueue(queue, rq[s].model)
      BY <2>1 DEF QueueOwned, Mine
    <3> QED BY <1>1, <3>1
  <2> QED BY <2>1, <2>2, <2>3 DEF QueueOwned, Mine, InQueue
<1> QED BY <1>1, <1>3 DEF QInv

LEMMA QueueTypes ==
    ASSUME QInv
    PROVE  /\ queue \in Seq(QEntry) /\ Len(queue) \in Nat /\ DOMAIN queue = 1 .. Len(queue)
           /\ \A k \in DOMAIN queue : queue[k] \in QEntry /\ queue[k].model \in Models
                                      /\ queue[k].n_waiters \in Nat \ {0} /\ queue[k].loading \in BOOLEAN
           /\ \A k \in DOMAIN queue : queue[k].n_waiters = Cardinality(Waiters(rq, queue[k].model))
           /\ \A j, k \in DOMAIN queue : queue[j].model = queue[k].model => j = k
           /\ \A s \in Requests : rq[s].queued => \E k \in DOMAIN queue : queue[k].model = rq[s].model
<1>1. queue \in Seq(QEntry) /\ QueueOwned
  BY DEF QInv
<1>2. Len(queue) \in Nat /\ DOMAIN queue = 1 .. Len(queue) /\ \A k \in DOMAIN queue : queue[k] \in QEntry
  BY <1>1, LenProperties, ElementOfSeq
<1>3. \A k \in DOMAIN queue : queue[k].model \in Models /\ queue[k].n_waiters \in Nat \ {0} /\ queue[k].loading \in BOOLEAN
  BY <1>2 DEF QEntry
<1> QED BY <1>1, <1>2, <1>3 DEF QueueOwned, Waiters, Mine, InQueue

LEMMA PlaceIs ==
    ASSUME NEW m, InQueue(queue, m)
    PROVE  Place(queue, m) \in DOMAIN queue /\ queue[Place(queue, m)].model = m
BY DEF InQueue, Place

LEMMA WaitersFinite ==
    ASSUME NEW f, NEW m
    PROVE  IsFiniteSet(Waiters(f, m)) /\ Cardinality(Waiters(f, m)) \in Nat
<1>1. Waiters(f, m) \in SUBSET Requests
  BY DEF Waiters
<1> QED BY <1>1, RouterAssumption, FS_Subset, FS_CardinalityType

\* What QInv' asks of the queue, without the primes inside.
LEMMA QueueNow ==
    ASSUME queue' \in Seq(QEntry),
           \A k \in DOMAIN queue' : queue'[k].n_waiters = Cardinality(Waiters(rq', queue'[k].model)),
           \A j, k \in DOMAIN queue' : queue'[j].model = queue'[k].model => j = k,
           \A s \in Requests : rq'[s].queued => \E k \in DOMAIN queue' : queue'[k].model = rq'[s].model
    PROVE  QInv'
BY DEF QInv, QueueOwned, Waiters, Mine, InQueue

\* One entry is replaced by another of the same model.
LEMMA EntryReplaced ==
    ASSUME QInv, NEW k \in DOMAIN queue, NEW y \in QEntry, y.model = queue[k].model,
           queue' = [queue EXCEPT ![k] = y],
           \A s \in Requests : rq'[s].queued => \E j \in DOMAIN queue : queue[j].model = rq'[s].model,
           \A n \in Models : n # y.model => Waiters(rq', n) = Waiters(rq, n),
           y.n_waiters = Cardinality(Waiters(rq', y.model))
    PROVE  QInv'
<1>1. DOMAIN queue' = DOMAIN queue /\ queue'[k] = y /\ \A j \in DOMAIN queue : j # k => queue'[j] = queue[j]
  BY QueueTypes
<1>2. queue' \in Seq(QEntry)
  BY QueueTypes, ExceptSeq
<1>3. \A j \in DOMAIN queue : queue'[j].model = queue[j].model
  BY <1>1
<1>4. ASSUME NEW j \in DOMAIN queue' PROVE queue'[j].n_waiters = Cardinality(Waiters(rq', queue'[j].model))
  <2>1. CASE j = k
    BY <1>1, <2>1
  <2>2. CASE j # k
    <3>1. queue'[j] = queue[j] /\ j \in DOMAIN queue
      BY <1>1, <2>2
    <3>2. queue[j].model # y.model /\ queue[j].model \in Models
      BY <2>2, <3>1, QueueTypes
    <3> QED BY <3>1, <3>2, QueueTypes
  <2> QED BY <2>1, <2>2
<1>5. \A j, i \in DOMAIN queue' : queue'[j].model = queue'[i].model => j = i
  BY <1>1, <1>3, QueueTypes
<1>6. \A s \in Requests : rq'[s].queued => \E j \in DOMAIN queue' : queue'[j].model = rq'[s].model
  BY <1>1, <1>3
<1> QED BY <1>2, <1>4, <1>5, <1>6, QueueNow

\* A handler joins the queue.
LEMMA JoinKeeps ==
    ASSUME RqInv, QInv, NEW r \in Requests, NEW x \in Request, RequestOK(x),
           rq' = [rq EXCEPT ![r] = x], ~rq[r].queued, x.queued, x.model \in Models,
           queue' = Join(queue, x.model)
    PROVE  QInv'
<1> DEFINE m == x.model
<1>1. \A s \in Requests : rq'[s] = IF s = r THEN x ELSE rq[s]
  BY OneMoves
<1>2. Waiters(rq', m) = Waiters(rq, m) \cup {r} /\ r \notin Waiters(rq, m)
      /\ \A n \in Models : n # m => Waiters(rq', n) = Waiters(rq, n)
  BY <1>1 DEF Waiters
<1>3. Cardinality(Waiters(rq', m)) = Cardinality(Waiters(rq, m)) + 1 /\ Cardinality(Waiters(rq, m)) \in Nat
  BY <1>2, WaitersFinite, FS_AddElement
<1>4. CASE InQueue(queue, m)
  <2> DEFINE k == Place(queue, m)
  <2> DEFINE y == [queue[k] EXCEPT !.n_waiters = queue[k].n_waiters + 1]
  <2>1. k \in DOMAIN queue /\ queue[k].model = m
    BY <1>4, PlaceIs
  <2>2. queue' = [queue EXCEPT ![k] = y]
    BY <1>4 DEF Join
  <2> HIDE DEF k
  <2>3. queue[k] \in QEntry /\ queue[k].n_waiters \in Nat \ {0} /\ queue[k].n_waiters = Cardinality(Waiters(rq, m))
    BY <2>1, QueueTypes
  <2>4. y \in QEntry /\ y.model = m /\ y.n_waiters = queue[k].n_waiters + 1
    <3>1. queue[k].n_waiters + 1 \in Nat \ {0}
      BY <2>3
    <3>2. y \in QEntry
      BY <2>3, <3>1, Zenon DEF QEntry
    <3> QED BY <2>1, <2>3, <3>2 DEF QEntry
  <2>5. \A s \in Requests : rq'[s].queued => \E j \in DOMAIN queue : queue[j].model = rq'[s].model
    <3>1. \A s \in Requests : rq[s].queued => \E j \in DOMAIN queue : queue[j].model = rq[s].model
      BY QueueTypes
    <3> QED BY <1>1, <2>1, <3>1
  <2> HIDE DEF y
  <2>6. y.n_waiters = Cardinality(Waiters(rq', y.model))
    BY <1>3, <2>3, <2>4
  <2>7. \A n \in Models : n # y.model => Waiters(rq', n) = Waiters(rq, n)
    BY <1>2, <2>4
  <2>8. y.model = queue[k].model
    BY <2>1, <2>4
  <2> HIDE DEF m
  <2> QED BY <2>1, <2>2, <2>4, <2>5, <2>6, <2>7, <2>8, EntryReplaced
<1>5. CASE ~InQueue(queue, m)
  <2> DEFINE y == Entry(m, 1, FALSE)
  <2>1. queue' = Append(queue, y)
    BY <1>5 DEF Join
  <2>2. y \in QEntry /\ y.model = m /\ y.n_waiters = 1
    BY DEF Entry, QEntry
  <2>3. \A j \in DOMAIN queue : queue[j].model # m
    BY <1>5 DEF InQueue
  <2>4. Waiters(rq, m) = {}
    BY <2>3, QueueTypes DEF Waiters
  <2>5. Cardinality(Waiters(rq', m)) = 1
    BY <1>3, <2>4, FS_EmptySet
  <2> DEFINE L == Len(queue)
  <2> HIDE DEF y, m, L
  <2>6. /\ L \in Nat /\ DOMAIN queue = 1 .. L /\ queue' \in Seq(QEntry)
        /\ DOMAIN queue' = 1 .. (L + 1) /\ queue'[L + 1] = y
        /\ \A j \in 1 .. L : queue'[j] = queue[j]
    BY <2>1, <2>2, QueueTypes, AppendProperties, LenProperties DEF L
  <2>7. ASSUME NEW j \in DOMAIN queue' PROVE queue'[j].n_waiters = Cardinality(Waiters(rq', queue'[j].model))
    <3>1. CASE j = L + 1
      BY <2>2, <2>5, <2>6, <3>1
    <3>2. CASE j \in 1 .. L
      <4>1. queue'[j] = queue[j] /\ queue[j].model # m /\ queue[j].model \in Models
        BY <2>3, <2>6, <3>2, QueueTypes
      <4>2. queue[j].n_waiters = Cardinality(Waiters(rq, queue[j].model))
        BY <2>6, <3>2, QueueTypes
      <4> QED BY <1>2, <4>1, <4>2
    <3> QED BY <2>6, <3>1, <3>2
  <2>8. ASSUME NEW j \in DOMAIN queue', NEW i \in DOMAIN queue', queue'[j].model = queue'[i].model PROVE j = i
    <3>1. (j = L + 1 \/ j \in 1 .. L) /\ (i = L + 1 \/ i \in 1 .. L)
      BY <2>6
    <3>2. CASE j \in 1 .. L /\ i \in 1 .. L
      BY <2>6, <2>8, <3>2, QueueTypes
    <3> QED BY <2>2, <2>3, <2>6, <2>8, <3>1, <3>2
  <2>9. ASSUME NEW s \in Requests, rq'[s].queued PROVE \E j \in DOMAIN queue' : queue'[j].model = rq'[s].model
    <3>1. CASE s = r
      <4>1. rq'[s].model = m /\ L + 1 \in DOMAIN queue' /\ queue'[L + 1].model = m
        BY <1>1, <2>2, <2>6, <3>1 DEF m
      <4> QED BY <4>1
    <3>2. CASE s # r
      <4>1. rq'[s] = rq[s]
        BY <1>1, <3>2
      <4>2. PICK j \in DOMAIN queue : queue[j].model = rq[s].model
        BY <2>9, <4>1, QueueTypes
      <4>3. j \in DOMAIN queue' /\ queue'[j] = queue[j]
        BY <2>6
      <4> QED BY <4>1, <4>2, <4>3
    <3> QED BY <3>1, <3>2
  <2> QED BY <2>6, <2>7, <2>8, <2>9, QueueNow
<1> QED BY <1>4, <1>5

\* A handler leaves the queue, its entry with it if it is the last.
LEMMA LeaveKeeps ==
    ASSUME RqInv, QInv, NEW r \in Requests, NEW x \in Request, RequestOK(x),
           rq' = [rq EXCEPT ![r] = x], ~x.queued, LeaveQueue(r)
    PROVE  QInv'
<1>0. CASE ~rq[r].queued
  <2>1. UNCHANGED queue /\ x.queued = rq[r].queued
    <3>1. x.queued \in BOOLEAN /\ rq[r].queued \in BOOLEAN
      BY DEF Request, RqInv
    <3> QED BY <1>0, <3>1 DEF LeaveQueue
  <2> QED BY <2>1, MoveRq
<1>1. CASE rq[r].queued
  <2> DEFINE m == rq[r].model
  <2> DEFINE k == Place(queue, m)
  <2> DEFINE n == queue[k].n_waiters
  <2>1. \A s \in Requests : rq'[s] = IF s = r THEN x ELSE rq[s]
    BY OneMoves
  <2>2. Waiters(rq', m) = Waiters(rq, m) \ {r} /\ r \in Waiters(rq, m)
        /\ \A i \in Models : i # m => Waiters(rq', i) = Waiters(rq, i)
    BY <1>1, <2>1 DEF Waiters
  <2>3. Cardinality(Waiters(rq', m)) = Cardinality(Waiters(rq, m)) - 1
    <3>1. IsFiniteSet(Waiters(rq, m))
      BY WaitersFinite
    <3> HIDE DEF m
    <3>2. Cardinality(Waiters(rq, m) \ {r}) = Cardinality(Waiters(rq, m)) - 1
      BY <2>2, <3>1, FS_RemoveElement
    <3> QED BY <2>2, <3>2
  <2>4. InQueue(queue, m)
    BY <1>1, QueueTypes DEF InQueue
  <2>5. k \in DOMAIN queue /\ queue[k].model = m
    BY <2>4, PlaceIs
  <2>6. queue[k] \in QEntry /\ n \in Nat \ {0} /\ n = Cardinality(Waiters(rq, m))
    <3> HIDE DEF k
    <3> QED BY <2>5, QueueTypes
  <2>7. queue' = IF n = 1 THEN Without(queue, k) ELSE [queue EXCEPT ![k].n_waiters = n - 1]
    BY <1>1, <2>4 DEF LeaveQueue, Leave, Mine
  <2> HIDE DEF n, k
  <2>8. CASE n # 1
    <3> DEFINE y == [queue[k] EXCEPT !.n_waiters = n - 1]
    <3>1. queue' = [queue EXCEPT ![k] = y]
      BY <2>7, <2>8
    <3>2. y \in QEntry /\ y.model = m /\ y.n_waiters = n - 1
      <4>1. n - 1 \in Nat \ {0}
        BY <2>6, <2>8
      <4>2. y \in QEntry
        BY <2>6, <4>1, Zenon DEF QEntry
      <4> QED BY <2>5, <2>6, <4>2 DEF QEntry
    <3>3. \A s \in Requests : rq'[s].queued => \E j \in DOMAIN queue : queue[j].model = rq'[s].model
      <4>1. \A s \in Requests : rq[s].queued => \E j \in DOMAIN queue : queue[j].model = rq[s].model
        BY QueueTypes
      <4> QED BY <2>1, <4>1
    <3> HIDE DEF y, m
    <3>4. y.n_waiters = Cardinality(Waiters(rq', y.model))
      BY <2>3, <2>6, <3>2
    <3> QED BY <2>2, <2>5, <3>1, <3>2, <3>3, <3>4, EntryReplaced
  <2>9. CASE n = 1
    <3> DEFINE L == Len(queue)
    <3> HIDE DEF m, L
    <3>1. L \in Nat /\ DOMAIN queue = 1 .. L /\ k \in 1 .. L
      BY <2>5, QueueTypes DEF L
    <3>2. /\ queue' \in Seq(QEntry) /\ Len(queue') = L - 1
          /\ \A j \in 1 .. (L - 1) : queue'[j] = IF j < k THEN queue[j] ELSE queue[j + 1]
      <4>1. queue' = Without(queue, k) /\ queue \in Seq(QEntry) /\ k \in 1 .. Len(queue)
        BY <2>7, <2>9, <3>1, QueueTypes DEF L
      <4> QED BY <4>1, WithoutIs DEF L
    <3>3. DOMAIN queue' = 1 .. (L - 1)
      BY <3>2, LenProperties
    <3> DEFINE old(j) == IF j < k THEN j ELSE j + 1
    <3>4. \A j \in 1 .. (L - 1) : old(j) \in 1 .. L /\ old(j) # k /\ queue'[j] = queue[old(j)]
      BY <3>1, <3>2
    <3>5. Waiters(rq', m) = {}
      BY <2>3, <2>6, <2>9, WaitersFinite, FS_EmptySet
    <3>6. ASSUME NEW j \in DOMAIN queue' PROVE queue'[j].n_waiters = Cardinality(Waiters(rq', queue'[j].model))
      <4>1. old(j) \in DOMAIN queue /\ old(j) # k /\ queue'[j] = queue[old(j)]
        BY <3>1, <3>3, <3>4
      <4> HIDE DEF old
      <4>2. queue[old(j)].model # m /\ queue[old(j)].model \in Models
        BY <2>5, <4>1, QueueTypes
      <4>3. queue[old(j)].n_waiters = Cardinality(Waiters(rq, queue[old(j)].model))
        BY <4>1, QueueTypes
      <4> QED BY <2>2, <4>1, <4>2, <4>3
    <3>7. ASSUME NEW j \in DOMAIN queue', NEW i \in DOMAIN queue', queue'[j].model = queue'[i].model PROVE j = i
      <4>1. old(j) = old(i)
        <5>1. old(j) \in DOMAIN queue /\ queue'[j] = queue[old(j)] /\ old(i) \in DOMAIN queue /\ queue'[i] = queue[old(i)]
          BY <3>1, <3>3, <3>4
        <5> HIDE DEF old
        <5> QED BY <3>7, <5>1, QueueTypes
      <4> QED BY <3>1, <3>3, <4>1
    <3>8. ASSUME NEW s \in Requests, rq'[s].queued PROVE \E j \in DOMAIN queue' : queue'[j].model = rq'[s].model
      <4>1. s # r /\ rq'[s] = rq[s]
        BY <2>1, <3>8
      <4>2. rq[s].model # m
        BY <3>5, <3>8, <4>1 DEF Waiters
      <4>3. PICK j \in DOMAIN queue : queue[j].model = rq[s].model
        BY <3>8, <4>1, QueueTypes
      <4>4. j # k
        BY <2>5, <4>2, <4>3
      <4>5. CASE j < k
        <5>1. j \in DOMAIN queue' /\ queue'[j] = queue[j]
          BY <3>1, <3>2, <3>3, <4>5
        <5> QED BY <4>1, <4>3, <5>1
      <4>6. CASE j > k
        <5>1. j - 1 \in 1 .. (L - 1) /\ ~(j - 1 < k) /\ (j - 1) + 1 = j
          BY <3>1, <4>6
        <5>2. queue'[j - 1] = queue[j]
          BY <3>2, <5>1
        <5> QED BY <3>3, <4>1, <4>3, <5>1, <5>2
      <4> QED BY <3>1, <4>4, <4>5, <4>6
    <3> QED BY <3>2, <3>6, <3>7, <3>8, QueueNow
  <2> QED BY <2>8, <2>9
<1> QED BY <1>0, <1>1

\* One flag of an entry changes.
LEMMA FlagKeeps ==
    ASSUME RqInv, QInv, NEW r \in Requests, NEW x \in Request, RequestOK(x),
           rq' = [rq EXCEPT ![r] = x], x.queued = rq[r].queued, x.model = rq[r].model,
           NEW k \in DOMAIN queue, NEW b \in BOOLEAN, queue' = [queue EXCEPT ![k].loading = b]
    PROVE  QInv'
<1>1. \A s \in Requests : rq'[s] = IF s = r THEN x ELSE rq[s]
  BY OneMoves
<1>2. \A n : Waiters(rq', n) = Waiters(rq, n)
  BY <1>1 DEF Waiters
<1> DEFINE y == [queue[k] EXCEPT !.loading = b]
<1>3. queue' = [queue EXCEPT ![k] = y]
  OBVIOUS
<1>4. queue[k] \in QEntry /\ queue[k].n_waiters = Cardinality(Waiters(rq, queue[k].model))
  BY QueueTypes
<1>5. y \in QEntry /\ y.model = queue[k].model /\ y.n_waiters = queue[k].n_waiters
  <2>1. y \in QEntry
    BY <1>4, Zenon DEF QEntry
  <2> QED BY <1>4, <2>1 DEF QEntry
<1>6. \A s \in Requests : rq'[s].queued => \E j \in DOMAIN queue : queue[j].model = rq'[s].model
  <2>1. \A s \in Requests : rq[s].queued => \E j \in DOMAIN queue : queue[j].model = rq[s].model
    BY QueueTypes
  <2> QED BY <1>1, <2>1
<1> HIDE DEF y
<1>7. y.n_waiters = Cardinality(Waiters(rq', y.model))
  BY <1>2, <1>4, <1>5
<1>8. \A n \in Models : n # y.model => Waiters(rq', n) = Waiters(rq, n)
  BY <1>2
<1> QED BY <1>3, <1>5, <1>6, <1>7, <1>8, EntryReplaced

LEMMA RqTypes ==
    ASSUME RqInv, NEW r \in Requests
    PROVE  /\ rq \in [Requests -> Request] /\ rq[r] \in Request /\ RequestOK(rq[r])
           /\ rq[r].pc \in Pcs /\ rq[r].queued \in BOOLEAN /\ rq[r].kind \in AllKinds \cup {"none"}
           /\ rq[r].cancelled \in BOOLEAN /\ rq[r].model \in Models \cup {NoModel}
<1>1. rq \in [Requests -> Request] /\ rq[r] \in Request /\ RequestOK(rq[r])
  BY DEF RqInv
<1> QED BY <1>1 DEF Request

\* The handler goes on to another place.
LEMMA GotoKeeps ==
    ASSUME RqInv, QInv, NEW r \in Requests, NEW to \in Pcs \ {"idle", "done"}, Goto(r, to),
           UNCHANGED queue, rq[r].pc \notin {"idle", "done"},
           rq[r].queued => to \in InLine, to \in Asking => rq[r].kind # "load",
           to \in {"lru_unload", "lru_wait"} => rq[r].victim \in Models
    PROVE  RqInv' /\ QInv'
<1> DEFINE o == rq[r]
<1> DEFINE x == [o EXCEPT !.pc = to]
<1>1. rq' = [rq EXCEPT ![r] = x]
  BY DEF Goto
<1>2. o \in Request /\ RequestOK(o)
  BY RqTypes
<1> HIDE DEF o
<1>3. x \in Request
  BY <1>2, Zenon DEF Request
<1>4. /\ x.pc = to /\ x.queued = o.queued /\ x.model = o.model /\ x.kind = o.kind
      /\ x.victim = o.victim
  BY <1>2 DEF Request
<1>5. RequestOK(x)
  BY <1>2, <1>4 DEF RequestOK, o
<1> HIDE DEF x
<1> QED BY <1>1, <1>3, <1>4, <1>5, MoveRq DEF o

\* What a handler leaves behind.
LEMMA IdleIs ==
    /\ Idle \in Request /\ RequestOK(Idle) /\ ~Idle.queued /\ Idle.model = NoModel /\ Idle.victim = NoModel
    /\ Idle.pc = "idle"
<1>1. Idle \in Request
  BY Zenon DEF Idle, Request, Pcs, AllKinds, Statuses
<1> QED BY <1>1 DEF Idle, RequestOK, Asking

LEMMA EndIs ==
    ASSUME RqInv, NEW r \in Requests, End(r)
    PROVE  \E x \in Request : RequestOK(x) /\ rq' = [rq EXCEPT ![r] = x] /\ ~x.queued
<1> DEFINE o == rq[r].kind
<1> DEFINE z == Idle
<1> DEFINE x == [z EXCEPT !.pc = "done", !.kind = o]
<1>1. rq' = [rq EXCEPT ![r] = x]
  BY DEF End
<1>2. o \in AllKinds \cup {"none"} /\ z \in Request /\ ~z.queued
  BY RqTypes, IdleIs
<1> HIDE DEF o, z
<1>3. x \in Request
  BY <1>2, Zenon DEF Request, Pcs
<1>4. x.pc = "done" /\ ~x.queued
  BY <1>2 DEF Request
<1>5. RequestOK(x)
  BY <1>4 DEF RequestOK, Asking
<1> HIDE DEF x
<1> QED BY <1>1, <1>3, <1>4, <1>5

LEMMA EndKeeps ==
    ASSUME RqInv, QInv, NEW r \in Requests, End(r), UNCHANGED queue, ~rq[r].queued
    PROVE  RqInv' /\ QInv'
<1>1. PICK x \in Request : RequestOK(x) /\ rq' = [rq EXCEPT ![r] = x] /\ ~x.queued
  BY EndIs
<1>2. x.queued = rq[r].queued
  <2>1. x.queued \in BOOLEAN /\ rq[r].queued \in BOOLEAN
    BY RqTypes DEF Request
  <2> QED BY <1>1, <2>1
<1> QED BY <1>1, <1>2, MoveRq

-----------------------------------------------------------------------------
(* The steps of a handler. *)

LEMMA ArriveStep ==
    ASSUME RouterInv, NEW r \in Requests, Arrive(r)
    PROVE  RouterInv'
<1>1. RqInv /\ QInv /\ RegInv /\ RegTypes
  BY DEF RouterInv, RegInv
<1>2. RegInv' /\ UNCHANGED queue
  BY <1>1, RegUnchanged DEF Arrive, registry, RegTypes
<1>3. PICK ask \in Asks[r] :
        LET kind    == ask[1]
            m       == ask[2]
            refused == \/ kind \in {"direct", "unload"} /\ ~is_running(inst, m)
                       \/ kind = "load" /\ is_running(inst, m)
            next    == IF refused THEN "done"
                       ELSE CASE kind = "load"   -> "lru"
                              [] kind = "unload" -> "unload"
                              [] kind = "direct" -> "proxy"
                              [] kind = "shutdown" -> "unload_all"
                              [] OTHER           -> "meta"
        IN rq' = [rq EXCEPT ![r] = [Idle EXCEPT !.pc = next, !.kind = kind,
                                        !.model = IF refused THEN NoModel ELSE m]]
  BY Zenon DEF Arrive
<1> DEFINE kind == ask[1]
<1> DEFINE m == ask[2]
<1> DEFINE refused == \/ kind \in {"direct", "unload"} /\ ~is_running(inst, m)
                      \/ kind = "load" /\ is_running(inst, m)
<1> DEFINE next == IF refused THEN "done"
                   ELSE CASE kind = "load"   -> "lru"
                          [] kind = "unload" -> "unload"
                          [] kind = "direct" -> "proxy"
                          [] kind = "shutdown" -> "unload_all"
                          [] OTHER           -> "meta"
<1> DEFINE model == IF refused THEN NoModel ELSE m
<1> DEFINE z == Idle
<1> DEFINE x == [z EXCEPT !.pc = next, !.kind = kind, !.model = model]
<1>4. rq' = [rq EXCEPT ![r] = x]
  BY <1>3
<1>5. kind \in AllKinds /\ m \in Models
  BY RouterAssumption
<1> HIDE DEF kind, m
<1>6. next \in {"done", "lru", "unload", "proxy", "unload_all", "meta"} /\ (next = "meta" => kind # "load")
  <2> HIDE DEF refused
  <2> QED BY <1>5 DEF AllKinds
<1>7. model \in Models \cup {NoModel} /\ (next # "done" => model \in Models)
  <2>1. next # "done" => ~refused
    <3> HIDE DEF refused
    <3> QED OBVIOUS
  <2> HIDE DEF refused, next
  <2> QED BY <1>5, <2>1
<1>8. z \in Request /\ ~z.queued /\ z.victim = NoModel
  BY IdleIs
<1> HIDE DEF z, next, model, refused
<1>9. x \in Request
  <2>1. next \in Pcs /\ kind \in AllKinds \cup {"none"}
    BY <1>5, <1>6 DEF Pcs
  <2> QED BY <1>7, <1>8, <2>1, Zenon DEF Request
<1>10. x.pc = next /\ ~x.queued /\ x.model = model /\ x.kind = kind
  BY <1>8 DEF Request
<1>11. RequestOK(x)
  BY <1>6, <1>7, <1>10 DEF RequestOK, Asking
<1>12. ~rq[r].queued
  <2>1. RequestOK(rq[r]) /\ rq[r].pc = "idle"
    BY <1>1, RqTypes DEF Arrive, At
  <2> QED BY <2>1 DEF RequestOK, InLine
<1>13. x.queued = rq[r].queued
  <2>1. x.queued \in BOOLEAN /\ rq[r].queued \in BOOLEAN
    BY <1>1, <1>9, RqTypes DEF Request
  <2> QED BY <1>10, <1>12, <2>1
<1> HIDE DEF x
<1>14. RqInv' /\ QInv'
  BY <1>1, <1>2, <1>4, <1>9, <1>10, <1>11, <1>13, MoveRq
<1> QED BY <1>2, <1>14 DEF RouterInv

LEMMA AtIs ==
    ASSUME RqInv, NEW r \in Requests
    PROVE  /\ rq[r].pc \notin {"idle", "done"} => Mine(r) \in Models /\ rq[r].model \in Models
           /\ rq[r].pc \in {"lru_unload", "lru_wait"} => rq[r].victim \in Models
           /\ rq[r].pc \notin InLine => ~rq[r].queued
           /\ rq[r].kind = "load" => ~rq[r].queued
           /\ rq[r].pc \in Asking => rq[r].kind # "load"
<1>1. RequestOK(rq[r])
  BY RqTypes
<1> QED BY <1>1 DEF RequestOK, Mine

\* Steps that only move the handler.
LEMMA MovesStep ==
    ASSUME RouterInv, NEW r \in Requests,
           \/ GetMeta(r) \/ Check(r) \/ WaitLoading(r) \/ UnloadLru(r) \/ LruWait(r)
           \/ Ticket(r) \/ Proxy(r) \/ AllDown(r)
    PROVE  RouterInv'
<1>1. RqInv /\ QInv /\ RegInv /\ RegTypes
  BY DEF RouterInv, RegInv
<1>2. RegInv' /\ UNCHANGED queue
  <2>1. UNCHANGED <<registry, procs, faults>>
    BY Zenon DEF GetMeta, Check, WaitLoading, UnloadLru, LruWait, Ticket, Proxy, AllDown
  <2> QED BY <1>1, <2>1, RegUnchanged DEF registry, RegTypes
<1> SUFFICES RqInv' /\ QInv'
  BY <1>2 DEF RouterInv
<1> DEFINE o == rq[r]
<1>3. o \in Request /\ RequestOK(o)
  BY <1>1, RqTypes
<1>4. CASE GetMeta(r)
  <2> DEFINE st == inst[Mine(r)].status
  <2> DEFINE x == [o EXCEPT !.pc = "check", !.seen = st]
  <2>1. rq' = [rq EXCEPT ![r] = x] /\ o.pc = "meta"
    BY <1>4 DEF GetMeta, At
  <2>2. st \in Statuses
    <3>1. Mine(r) \in Models
      BY <1>1, <2>1, AtIs
    <3>2. inst[Mine(r)] \in Instance
      BY <1>1, <3>1 DEF RegTypes
    <3> QED BY <3>2 DEF Instance
  <2> HIDE DEF o, st
  <2>3. x \in Request
    BY <1>3, <2>2, Zenon DEF Request, Pcs
  <2>4. x.pc = "check" /\ x.queued = o.queued /\ x.model = o.model /\ x.kind = o.kind
    BY <1>3 DEF Request
  <2>5. RequestOK(x)
    BY <1>3, <2>1, <2>4 DEF RequestOK, InLine, Asking
  <2> HIDE DEF x
  <2> QED BY <1>1, <1>2, <2>1, <2>3, <2>4, <2>5, MoveRq DEF o
<1>5. CASE Check(r)
  <2> DEFINE to == IF Mine(r) \notin stopping /\ rq[r].seen \in {"LOADED", "SLEEPING"} THEN "ticket" ELSE "join"
  <2>1. Goto(r, to) /\ rq[r].pc = "check"
    BY <1>5 DEF Check, At
  <2>2. to \in {"ticket", "join"}
    OBVIOUS
  <2>3. ~rq[r].queued /\ rq[r].kind # "load"
    BY <1>1, <2>1, AtIs DEF InLine, Asking
  <2> HIDE DEF to
  <2> QED BY <1>1, <1>2, <2>1, <2>2, <2>3, GotoKeeps DEF Pcs
<1>6. CASE WaitLoading(r)
  <2> DEFINE x == [o EXCEPT !.saw_loading = TRUE]
  <2>1. rq' = [rq EXCEPT ![r] = x]
    BY <1>6 DEF WaitLoading
  <2> HIDE DEF o
  <2>3. x \in Request
    BY <1>3, Zenon DEF Request
  <2>4. /\ x.pc = o.pc /\ x.queued = o.queued /\ x.model = o.model /\ x.kind = o.kind
        /\ x.victim = o.victim
    BY <1>3 DEF Request
  <2>5. RequestOK(x)
    BY <1>3, <2>4 DEF RequestOK
  <2> HIDE DEF x
  <2> QED BY <1>1, <1>2, <2>1, <2>3, <2>4, <2>5, MoveRq DEF o
<1>7. CASE UnloadLru(r)
  <2> DEFINE idle == Victims(inst, stopping, queue)
  <2> DEFINE v == lru[Nth(idle, 1)]
  <2>0. o.pc = "lru" /\ rq[r].pc = "lru"
    BY <1>7 DEF UnloadLru, At
  <2>1. CASE has_capacity \/ idle = {}
    <3>1. Goto(r, "spawn")
      BY <1>7, <2>1 DEF UnloadLru
    <3> QED BY <1>1, <1>2, <2>0, <3>1, GotoKeeps DEF Pcs, InLine, Asking
  <2>2. CASE ~(has_capacity \/ idle = {})
    <3> DEFINE x == [o EXCEPT !.pc = "lru_unload", !.victim = v]
    <3>1. rq' = [rq EXCEPT ![r] = x]
      BY <1>7, <2>2 DEF UnloadLru
    <3>2. v \in Models
      <4>1. idle \in SUBSET DOMAIN lru
        BY DEF Victims
      <4> HIDE DEF idle
      <4>2. idle \in SUBSET (1 .. Cardinality(Models)) /\ Cardinality(Models) \in Nat
        BY <1>1, <4>1, PlacesAreModels
      <4>3. IsFiniteSet(1 .. Cardinality(Models))
        BY <4>2, FS_Interval
      <4>4. IsFiniteSet(idle)
        BY <4>2, <4>3, FS_Subset
      <4>5. Cardinality(idle) \in Nat /\ Cardinality(idle) # 0
        BY <2>2, <4>4, FS_CardinalityType, FS_EmptySet
      <4>6. 1 \in 1 .. Cardinality(idle)
        BY <4>5
      <4> QED BY <1>1, <4>1, <4>6, PlacesAreModels
    <3> HIDE DEF o, v
    <3>3. x \in Request
      BY <1>3, <3>2, Zenon DEF Request, Pcs
    <3>4. /\ x.pc = "lru_unload" /\ x.queued = o.queued /\ x.model = o.model /\ x.kind = o.kind
          /\ x.victim = v
      BY <1>3 DEF Request
    <3>5. RequestOK(x)
      BY <1>3, <2>0, <3>2, <3>4 DEF RequestOK, InLine, Asking
    <3> HIDE DEF x
    <3> QED BY <1>1, <1>2, <3>1, <3>3, <3>4, <3>5, MoveRq DEF o
  <2> QED BY <2>1, <2>2
<1>8. CASE LruWait(r)
  <2> DEFINE x == [o EXCEPT !.pc = "spawn", !.victim = NoModel]
  <2>1. rq' = [rq EXCEPT ![r] = x] /\ o.pc = "lru_wait"
    BY <1>8 DEF LruWait, At
  <2> HIDE DEF o
  <2>3. x \in Request
    BY <1>3, Zenon DEF Request, Pcs
  <2>4. x.pc = "spawn" /\ x.queued = o.queued /\ x.model = o.model /\ x.kind = o.kind
    BY <1>3 DEF Request
  <2>5. RequestOK(x)
    BY <1>3, <2>1, <2>4 DEF RequestOK, InLine, Asking
  <2> HIDE DEF x
  <2> QED BY <1>1, <1>2, <2>1, <2>3, <2>4, <2>5, MoveRq DEF o
<1>9. CASE Ticket(r)
  <2>0. rq[r].pc = "ticket" /\ ~rq[r].queued
    BY <1>1, <1>9, AtIs DEF Ticket, At, InLine
  <2>1. End(r) \/ Goto(r, "proxy")
    BY <1>9 DEF Ticket
  <2> QED BY <1>1, <1>2, <2>0, <2>1, EndKeeps, GotoKeeps DEF Pcs, Asking
<1>10. CASE Proxy(r)
  <2>0. rq[r].pc = "proxy" /\ ~rq[r].queued
    BY <1>1, <1>10, AtIs DEF Proxy, At, InLine
  <2>1. End(r) \/ Goto(r, "count")
    BY <1>10 DEF Proxy
  <2> QED BY <1>1, <1>2, <2>0, <2>1, EndKeeps, GotoKeeps DEF Pcs, Asking
<1>11. CASE AllDown(r)
  <2>0. rq[r].pc = "all_wait" /\ ~rq[r].queued
    BY <1>1, <1>11, AtIs DEF AllDown, At, InLine
  <2>1. End(r)
    BY <1>11 DEF AllDown
  <2> QED BY <1>1, <1>2, <2>0, <2>1, EndKeeps
<1> QED BY <1>4, <1>5, <1>6, <1>7, <1>8, <1>9, <1>10, <1>11

LEMMA CancelStep ==
    ASSUME RouterInv, NEW r \in Requests, Cancel(r)
    PROVE  RouterInv'
<1>1. RqInv /\ QInv /\ RegInv /\ RegTypes
  BY DEF RouterInv, RegInv
<1>2. RegInv' /\ UNCHANGED queue
  <2>1. UNCHANGED <<registry, procs>> /\ faults' = faults + 1 /\ faults < MaxFaults
    BY DEF Cancel
  <2>2. faults' \in 0 .. MaxFaults
    BY <1>1, <2>1, RouterAssumption DEF RegTypes
  <2> QED BY <1>1, <2>1, <2>2, RegUnchanged DEF registry
<1> DEFINE o == rq[r]
<1> DEFINE x == [o EXCEPT !.cancelled = TRUE]
<1>3. o \in Request /\ RequestOK(o)
  BY <1>1, RqTypes
<1>4. rq' = [rq EXCEPT ![r] = x]
  BY DEF Cancel
<1> HIDE DEF o
<1>5. x \in Request
  BY <1>3, Zenon DEF Request
<1>6. /\ x.pc = o.pc /\ x.queued = o.queued /\ x.model = o.model /\ x.kind = o.kind
      /\ x.victim = o.victim
  BY <1>3 DEF Request
<1>7. RequestOK(x)
  BY <1>3, <1>6 DEF RequestOK
<1> HIDE DEF x
<1>8. RqInv' /\ QInv'
  BY <1>1, <1>2, <1>4, <1>5, <1>6, <1>7, MoveRq DEF o
<1> QED BY <1>2, <1>8 DEF RouterInv

LEMMA LoadedKeeps ==
    ASSUME RqInv, QInv, NEW r \in Requests, rq[r].pc = "spawn", NEW ok \in BOOLEAN, Loaded(r, ok), UNCHANGED queue
    PROVE  RqInv' /\ QInv'
<1>1. CASE rq[r].kind = "load"
  BY <1>1, AtIs, EndKeeps DEF Loaded
<1>2. CASE rq[r].kind # "load"
  <2> DEFINE o == rq[r]
  <2> DEFINE x == [o EXCEPT !.pc = "claim_done", !.ok = ok, !.did_load = ok]
  <2>1. o \in Request /\ RequestOK(o) /\ o.pc = "spawn"
    BY RqTypes
  <2>2. rq' = [rq EXCEPT ![r] = x]
    BY <1>2 DEF Loaded
  <2> HIDE DEF o
  <2>3. x \in Request
    BY <2>1, Zenon DEF Request, Pcs
  <2>4. x.pc = "claim_done" /\ x.queued = o.queued /\ x.model = o.model /\ x.kind = o.kind
    BY <2>1 DEF Request
  <2>5. RequestOK(x)
    BY <1>2, <2>1, <2>4 DEF RequestOK, InLine, o
  <2> HIDE DEF x
  <2> QED BY <2>2, <2>3, <2>4, <2>5, MoveRq DEF o
<1> QED BY <1>1, <1>2

LEMMA SpawnStep ==
    ASSUME RouterInv, NEW r \in Requests, Spawn(r) \/ SpawnNot(r)
    PROVE  RouterInv'
<1>1. RqInv /\ QInv /\ RegInv /\ RegTypes
  BY DEF RouterInv, RegInv
<1>2. rq[r].pc = "spawn" /\ UNCHANGED queue /\ \E ok \in BOOLEAN : Loaded(r, ok)
  BY Zenon DEF Spawn, SpawnNot, At, registry
<1>3. RqInv' /\ QInv'
  BY <1>1, <1>2, LoadedKeeps
<1>4. RegInv'
  <2>1. CASE Spawn(r)
    <3> DEFINE m == Mine(r)
    <3>1. m \in Models
      BY <1>1, <1>2, AtIs
    <3>2. /\ inst[m].status = "UNLOADED" /\ has_capacity
          /\ inst' = [inst EXCEPT ![m].status = "LOADING", ![m].count = 0]
          /\ procs' = [procs EXCEPT ![m] =
               Append([k \in DOMAIN procs[m] |-> [Killed(procs[m][k]) EXCEPT !.current = FALSE]], NewProc)]
          /\ lru' = Used(m) /\ cmds' = Append(cmds, WatchCmd(m)) /\ UNCHANGED <<stopping, faults>>
      BY <2>1 DEF Spawn
    <3> HIDE DEF m
    <3> QED BY <1>1, <3>1, <3>2, SpawnKeeps
  <2>2. CASE SpawnNot(r)
    <3>1. UNCHANGED <<registry, procs>> /\ (UNCHANGED faults \/ (faults < MaxFaults /\ faults' = faults + 1))
      BY <2>2, Zenon DEF SpawnNot
    <3>2. faults' \in 0 .. MaxFaults
      BY <1>1, <3>1, RouterAssumption DEF RegTypes
    <3> QED BY <1>1, <3>1, <3>2, RegUnchanged DEF registry
  <2> QED BY <2>1, <2>2
<1> QED BY <1>3, <1>4 DEF RouterInv

LEMMA UnloadStep ==
    ASSUME RouterInv, NEW r \in Requests, LruUnload(r) \/ Unload(r) \/ UnloadAll(r)
    PROVE  RouterInv'
<1>1. RqInv /\ QInv /\ RegInv /\ RegTypes
  BY DEF RouterInv, RegInv
<1>2. CASE LruUnload(r)
  <2>1. rq[r].pc = "lru_unload" /\ DoUnload(rq[r].victim) /\ Goto(r, "lru_wait")
    BY <1>2 DEF LruUnload, At
  <2>2. rq[r].victim \in Models /\ UNCHANGED queue
    BY <1>1, <2>1, AtIs DEF DoUnload
  <2>3. RegInv'
    BY <1>1, <2>1, <2>2, DoUnloadKeeps
  <2>4. RqInv' /\ QInv'
    BY <1>1, <2>1, <2>2, GotoKeeps DEF Pcs, InLine, Asking
  <2> QED BY <2>3, <2>4 DEF RouterInv
<1>3. CASE Unload(r)
  <2>1. rq[r].pc = "unload" /\ DoUnload(Mine(r)) /\ End(r)
    BY <1>3 DEF Unload, At
  <2>2. Mine(r) \in Models /\ UNCHANGED queue /\ ~rq[r].queued
    BY <1>1, <2>1, AtIs DEF DoUnload, InLine
  <2>3. RegInv'
    BY <1>1, <2>1, <2>2, DoUnloadKeeps
  <2>4. RqInv' /\ QInv'
    BY <1>1, <2>1, <2>2, EndKeeps
  <2> QED BY <2>3, <2>4 DEF RouterInv
<1>4. CASE UnloadAll(r)
  <2>1. rq[r].pc = "unload_all" /\ Goto(r, "all_wait") /\ UNCHANGED queue
    BY <1>4 DEF UnloadAll, At
  <2>2. ~rq[r].queued
    BY <1>1, <2>1, AtIs DEF InLine
  <2>3. RegInv'
    BY <1>1, <1>4, UnloadAllKeeps
  <2>4. RqInv' /\ QInv'
    BY <1>1, <2>1, <2>2, GotoKeeps DEF Pcs, Asking
  <2> QED BY <2>3, <2>4 DEF RouterInv
<1> QED BY <1>2, <1>3, <1>4

\* The request count of one model changes.
LEMMA CountSet ==
    ASSUME RegTypes, NEW m \in Models, NEW c \in Nat, inst' = [inst EXCEPT ![m].count = c]
    PROVE  inst' \in [Models -> Instance] /\ \A n \in Models : is_running(inst', n) <=> is_running(inst, n)
<1>1. inst \in [Models -> Instance] /\ inst[m] \in Instance
  BY DEF RegTypes
<1> DEFINE i == [inst[m] EXCEPT !.count = c]
<1>2. inst' = [inst EXCEPT ![m] = i]
  OBVIOUS
<1>3. i \in Instance
  BY <1>1, Zenon DEF Instance
<1>4. i.status = inst[m].status
  BY <1>1 DEF Instance
<1> HIDE DEF i
<1>5. \A n \in Models : inst'[n] = IF n = m THEN i ELSE inst[n]
  BY <1>1, <1>2
<1> QED BY <1>1, <1>2, <1>3, <1>4, <1>5 DEF is_running

LEMMA CountStep ==
    ASSUME RouterInv, NEW r \in Requests, Count(r) \/ Cleanup(r)
    PROVE  RouterInv'
<1>1. RqInv /\ QInv /\ RegInv /\ RegTypes
  BY DEF RouterInv, RegInv
<1> DEFINE m == Mine(r)
<1> DEFINE c == inst[m].count
<1>2. rq[r].pc \in {"count", "proxied"}
  BY DEF Count, Cleanup, At
<1>3. m \in Models /\ ~rq[r].queued
  BY <1>1, <1>2, AtIs DEF InLine
<1>4. c \in Nat
  <2>1. inst[m] \in Instance
    BY <1>1, <1>3 DEF RegTypes
  <2> QED BY <2>1 DEF Instance
<1>5. CASE Count(r)
  <2>1. /\ lru' = Used(m) /\ inst' = [inst EXCEPT ![m].count = c + 1] /\ Goto(r, "proxied")
        /\ UNCHANGED <<stopping, queue, cmds, procs, faults>>
    BY <1>5 DEF Count
  <2> HIDE DEF c, m
  <2>2. c + 1 \in Nat
    BY <1>4
  <2>3. inst' \in [Models -> Instance] /\ \A n \in Models : is_running(inst', n) <=> is_running(inst, n)
    BY <1>1, <1>3, <2>1, <2>2, CountSet
  <2>4. lru' \in [1 .. Cardinality(Models) -> Models] /\ Range(lru') = Models
    BY <1>1, <1>3, <2>1, UsedKeeps
  <2>5. AddsStops(stopping) /\ ProcsKept
    BY <1>1, <2>1, NoStopsAdded, ProcsStay
  <2>6. faults' \in 0 .. MaxFaults
    BY <1>1, <2>1 DEF RegTypes
  <2>7. RegInv'
    BY <1>1, <2>3, <2>4, <2>5, <2>6, RegFrame
  <2>8. RqInv' /\ QInv'
    BY <1>1, <1>2, <1>3, <2>1, GotoKeeps DEF Pcs, Asking
  <2> QED BY <2>7, <2>8 DEF RouterInv
<1>6. CASE Cleanup(r)
  <2> DEFINE d == IF c > 0 THEN c - 1 ELSE 0
  <2>1. /\ inst' = [inst EXCEPT ![m].count = d] /\ End(r)
        /\ UNCHANGED <<lru, queue, procs, faults>>
        /\ tick(inst', stopping, queue) \/ UNCHANGED <<stopping, cmds>>
    BY <1>6, Zenon DEF Cleanup
  <2>2. d \in Nat
    <3> HIDE DEF c
    <3> QED BY <1>4
  <2> HIDE DEF c, m, d
  <2>3. inst' \in [Models -> Instance] /\ \A n \in Models : is_running(inst', n) <=> is_running(inst, n)
    BY <1>1, <1>3, <2>1, <2>2, CountSet
  <2>5. AddsStops(stopping) /\ ProcsKept
    <3>1. stopping \in SUBSET Models /\ queue \in Seq(QEntry)
      BY <1>1 DEF RegTypes, QInv
    <3>2. AddsStops(stopping)
      BY <1>1, <2>1, <3>1, NoStopsAdded, TickAdds
    <3> QED BY <1>1, <2>1, <3>2, ProcsStay
  <2>6. lru' \in [1 .. Cardinality(Models) -> Models] /\ Range(lru') = Models /\ faults' \in 0 .. MaxFaults
    BY <1>1, <2>1 DEF RegTypes
  <2>7. RegInv'
    BY <1>1, <2>3, <2>5, <2>6, RegFrame
  <2>8. RqInv' /\ QInv'
    BY <1>1, <1>3, <2>1, EndKeeps
  <2> QED BY <2>7, <2>8 DEF RouterInv
<1> QED BY <1>5, <1>6

\* A tick at the end of a step leaves the rest of the registry alone.
LEMMA TickKeeps ==
    ASSUME RegInv, queue' \in Seq(QEntry), tick(inst, stopping, queue'), UNCHANGED <<inst, lru, procs, faults>>
    PROVE  RegInv'
<1>1. RegTypes
  BY DEF RegInv
<1>2. stopping \in SUBSET Models
  BY <1>1 DEF RegTypes
<1>3. AddsStops(stopping)
  <2> DEFINE q == queue'
  <2>1. q \in Seq(QEntry) /\ tick(inst, stopping, q)
    OBVIOUS
  <2> HIDE DEF q
  <2> QED BY <1>1, <1>2, <2>1, TickAdds
<1>4. ProcsKept
  BY <1>1, ProcsStay
<1>5. /\ inst' \in [Models -> Instance]
      /\ lru' \in [1 .. Cardinality(Models) -> Models] /\ Range(lru') = Models
      /\ faults' \in 0 .. MaxFaults
      /\ \A n \in Models : is_running(inst', n) <=> is_running(inst, n)
  BY <1>1 DEF RegTypes
<1> QED BY <1>3, <1>4, <1>5, RegFrame

\* Joining the queue.
LEMMA JoinStep ==
    ASSUME RouterInv, NEW r \in Requests, JoinQueue(r) \/ WaitStopping(r)
    PROVE  RouterInv'
<1>1. RqInv /\ QInv /\ RegInv /\ RegTypes
  BY DEF RouterInv, RegInv
<1> DEFINE o == rq[r]
<1>2. o \in Request /\ RequestOK(o)
  BY <1>1, RqTypes
<1>3. CASE UNCHANGED <<queue, stopping, cmds>> /\ Goto(r, "wait") /\ At(r, "join") /\ UNCHANGED <<inst, lru, procs, faults>>
  <2>1. RegInv'
    BY <1>1, <1>3, RegUnchanged DEF RegTypes
  <2>2. RqInv' /\ QInv'
    <3>1. rq[r].pc = "join" /\ ~rq[r].queued /\ rq[r].kind # "load"
      BY <1>1, <1>3, AtIs DEF At, InLine, Asking
    <3> QED BY <1>1, <1>3, <3>1, GotoKeeps DEF Pcs, InLine
  <2> QED BY <2>1, <2>2 DEF RouterInv
<1>4. ASSUME NEW x \in Request, rq' = [rq EXCEPT ![r] = x], x.pc = "wait", x.queued, x.model = o.model,
             x.kind = o.kind, o.pc \in {"join", "wait"}, ~o.queued,
             queue' = Join(queue, Mine(r)), tick(inst, stopping, queue'), UNCHANGED <<inst, lru, procs, faults>>
      PROVE  RouterInv'
  <2>1. x.model \in Models /\ Mine(r) = x.model /\ x.kind # "load"
    BY <1>1, <1>4, AtIs DEF Mine, Asking
  <2>2. RequestOK(x)
    BY <1>4, <2>1 DEF RequestOK, InLine
  <2>3. RqInv'
    BY <1>1, <1>4, <2>2, OneMoves
  <2>4. QInv'
    BY <1>1, <1>4, <2>1, <2>2, JoinKeeps
  <2>5. RegInv'
    BY <1>1, <1>4, <2>4, TickKeeps DEF QInv
  <2> QED BY <2>3, <2>4, <2>5 DEF RouterInv
<1>5. CASE JoinQueue(r) /\ inst[Mine(r)].status = "UNLOADED"
  <2> DEFINE x == [o EXCEPT !.pc = "wait", !.queued = TRUE]
  <2>1. /\ rq' = [rq EXCEPT ![r] = x] /\ o.pc = "join"
        /\ queue' = Join(queue, Mine(r)) /\ tick(inst, stopping, queue') /\ UNCHANGED <<inst, lru, procs, faults>>
    BY <1>5 DEF JoinQueue, At
  <2>2. ~o.queued
    BY <1>1, <2>1, AtIs DEF InLine
  <2> HIDE DEF o
  <2>3. x \in Request
    BY <1>2, Zenon DEF Request, Pcs
  <2>4. x.pc = "wait" /\ x.queued /\ x.model = o.model /\ x.kind = o.kind
    BY <1>2 DEF Request
  <2> HIDE DEF x
  <2> QED BY <1>4, <2>1, <2>2, <2>3, <2>4
<1>6. CASE WaitStopping(r)
  <2> DEFINE x == [o EXCEPT !.queued = TRUE]
  <2>1. /\ rq' = [rq EXCEPT ![r] = x] /\ o.pc = "wait" /\ ~o.queued
        /\ queue' = Join(queue, Mine(r)) /\ tick(inst, stopping, queue') /\ UNCHANGED <<inst, lru, procs, faults>>
    BY <1>6 DEF WaitStopping, At
  <2> HIDE DEF o
  <2>3. x \in Request
    BY <1>2, Zenon DEF Request
  <2>4. x.pc = o.pc /\ x.queued /\ x.model = o.model /\ x.kind = o.kind
    BY <1>2 DEF Request
  <2> HIDE DEF x
  <2> QED BY <1>4, <2>1, <2>3, <2>4
<1> QED BY <1>3, <1>5, <1>6 DEF JoinQueue

\* Leaving the queue, by an exception or a break.
LEMMA LeaveStep ==
    ASSUME RouterInv, NEW r \in Requests, WaitThrow(r) \/ WaitBreak(r)
    PROVE  RouterInv'
<1>1. RqInv /\ QInv /\ RegInv /\ RegTypes
  BY DEF RouterInv, RegInv
<1>2. CASE WaitThrow(r)
  <2>1. LeaveQueue(r) /\ tick(inst, stopping, queue') /\ End(r) /\ UNCHANGED <<inst, lru, procs, faults>>
    BY <1>2 DEF WaitThrow
  <2>2. PICK x \in Request : RequestOK(x) /\ rq' = [rq EXCEPT ![r] = x] /\ ~x.queued
    BY <1>1, <2>1, EndIs
  <2>3. RqInv' /\ QInv'
    BY <1>1, <2>1, <2>2, OneMoves, LeaveKeeps
  <2>4. RegInv'
    BY <1>1, <2>1, <2>3, TickKeeps DEF QInv
  <2> QED BY <2>3, <2>4 DEF RouterInv
<1>3. CASE WaitBreak(r)
  <2> DEFINE z == Idle
  <2> DEFINE k == rq[r].kind
  <2> DEFINE m == Mine(r)
  <2> DEFINE c == rq[r].cancelled
  <2> DEFINE x == [z EXCEPT !.pc = "ticket", !.kind = k, !.model = m, !.cancelled = c]
  <2>1. /\ rq' = [rq EXCEPT ![r] = x] /\ LeaveQueue(r)
        /\ UNCHANGED <<inst, stopping, lru, cmds, procs, faults>> /\ rq[r].pc = "wait"
    BY <1>3 DEF WaitBreak, At
  <2>2. k \in AllKinds \cup {"none"} /\ m \in Models /\ c \in BOOLEAN /\ z \in Request /\ ~z.queued
    BY <1>1, <2>1, AtIs, RqTypes, IdleIs
  <2> HIDE DEF z, k, m, c
  <2>3. x \in Request
    <3>1. m \in Models \cup {NoModel}
      BY <2>2
    <3> QED BY <2>2, <3>1, Zenon DEF Request, Pcs
  <2>4. x.pc = "ticket" /\ ~x.queued /\ x.model = m
    BY <2>2 DEF Request
  <2>5. RequestOK(x)
    BY <2>2, <2>4 DEF RequestOK, Asking
  <2> HIDE DEF x
  <2>6. RqInv' /\ QInv'
    BY <1>1, <2>1, <2>3, <2>4, <2>5, OneMoves, LeaveKeeps
  <2>7. RegInv'
    BY <1>1, <2>1, RegUnchanged DEF RegTypes
  <2> QED BY <2>6, <2>7 DEF RouterInv
<1> QED BY <1>2, <1>3

\* The head of the queue claims a slot, and gives the claim back if its load fails.
LEMMA ClaimStep ==
    ASSUME RouterInv, NEW r \in Requests, TryClaim(r) \/ ClaimDone(r)
    PROVE  RouterInv'
<1>1. RqInv /\ QInv /\ RegInv /\ RegTypes
  BY DEF RouterInv, RegInv
<1> DEFINE o == rq[r]
<1>2. o \in Request /\ RequestOK(o)
  BY <1>1, RqTypes
<1>3. CASE TryClaim(r)
  <2> DEFINE x == [o EXCEPT !.pc = "lru"]
  <2>1. /\ rq' = [rq EXCEPT ![r] = x] /\ queue' = [queue EXCEPT ![1].loading = TRUE] /\ queue # <<>>
        /\ UNCHANGED <<inst, stopping, lru, cmds, procs, faults>> /\ o.pc = "wait"
    BY <1>3 DEF TryClaim, At, Goto, CanClaim
  <2>2. 1 \in DOMAIN queue
    BY <1>1, <2>1, QueueTypes
  <2> HIDE DEF o
  <2>3. x \in Request
    BY <1>2, Zenon DEF Request, Pcs
  <2>4. x.pc = "lru" /\ x.queued = o.queued /\ x.model = o.model /\ x.kind = o.kind
    BY <1>2 DEF Request
  <2>5. RequestOK(x)
    BY <1>2, <2>1, <2>4 DEF RequestOK, InLine, Asking
  <2> HIDE DEF x
  <2>6. RqInv'
    BY <1>1, <2>1, <2>3, <2>5, OneMoves
  <2>7. QInv'
    BY <1>1, <2>1, <2>2, <2>3, <2>4, <2>5, FlagKeeps DEF o
  <2>8. RegInv'
    BY <1>1, <2>1, RegUnchanged DEF RegTypes
  <2> QED BY <2>6, <2>7, <2>8 DEF RouterInv
<1>4. CASE ClaimDone(r)
  <2> DEFINE x == [o EXCEPT !.pc = "wait", !.ok = TRUE]
  <2> DEFINE m == Mine(r)
  <2>1. /\ rq' = [rq EXCEPT ![r] = x] /\ queue' = claim_done(queue, m, o.ok) /\ o.pc = "claim_done"
        /\ tick(inst, stopping, queue') /\ UNCHANGED <<inst, lru, procs, faults>>
    BY <1>4 DEF ClaimDone, At
  <2> HIDE DEF o, m
  <2>3. x \in Request
    BY <1>2, Zenon DEF Request, Pcs
  <2>4. x.pc = "wait" /\ x.queued = o.queued /\ x.model = o.model /\ x.kind = o.kind
    BY <1>2 DEF Request
  <2>5. RequestOK(x)
    BY <1>2, <2>1, <2>4 DEF RequestOK, InLine, Asking
  <2> HIDE DEF x
  <2>6. RqInv'
    BY <1>1, <2>1, <2>3, <2>5, OneMoves
  <2>7. QInv'
    <3>1. CASE o.ok \/ ~InQueue(queue, m)
      <4>1. UNCHANGED queue
        BY <2>1, <3>1 DEF claim_done
      <4> QED BY <1>1, <2>1, <2>3, <2>4, <2>5, <4>1, MoveRq DEF o
    <3>2. CASE ~(o.ok \/ ~InQueue(queue, m))
      <4> DEFINE k == Place(queue, m)
      <4>1. k \in DOMAIN queue
        BY <3>2, PlaceIs
      <4>2. queue' = [queue EXCEPT ![k].loading = FALSE]
        BY <2>1, <3>2 DEF claim_done
      <4> HIDE DEF k
      <4> QED BY <1>1, <2>1, <2>3, <2>4, <2>5, <4>1, <4>2, FlagKeeps DEF o
    <3> QED BY <3>1, <3>2
  <2>8. RegInv'
    BY <1>1, <2>1, <2>7, TickKeeps DEF QInv
  <2> QED BY <2>6, <2>7, <2>8 DEF RouterInv
<1> QED BY <1>3, <1>4

-----------------------------------------------------------------------------
(* The initial states, and the theorems. *)

\* Models loaded on startup come last in lru, each once: the first commands are for them.
LEMMA StartupOrder ==
    ASSUME NEW up \in SUBSET Models, NEW s \in [1 .. Cardinality(Models) -> Models], Range(s) = Models,
           \A j, k \in DOMAIN s : s[j] \in up /\ s[k] \notin up => k < j
    PROVE  /\ \A k \in 1 .. Cardinality(up) :
                /\ Cardinality(Models \ up) + k \in 1 .. Cardinality(Models)
                /\ s[Cardinality(Models \ up) + k] \in up
           /\ \A j, k \in 1 .. Cardinality(Models) : s[j] = s[k] => j = k
           /\ Cardinality(up) \in Nat /\ Cardinality(Models \ up) \in Nat
<1> DEFINE N == Cardinality(Models)
<1> DEFINE D == Cardinality(Models \ up)
<1> DEFINE U == Cardinality(up)
<1>1. IsFiniteSet(Models) /\ IsFiniteSet(up) /\ IsFiniteSet(Models \ up)
  <2>1. IsFiniteSet(Models) /\ Models \ up \in SUBSET Models
    BY RouterAssumption
  <2> QED BY <2>1, FS_Subset
<1>2. N \in Nat /\ D \in Nat /\ U \in Nat
  BY <1>1, FS_CardinalityType
<1>3. N = D + U
  <2>1. up \cup (Models \ up) = Models /\ up \cap (Models \ up) = {}
    OBVIOUS
  <2>2. Cardinality(up \cup (Models \ up)) = U + D - Cardinality(up \cap (Models \ up))
    BY <1>1, FS_Union
  <2>3. Cardinality({}) = 0
    BY FS_EmptySet
  <2>4. N = U + D - 0
    BY <2>1, <2>2, <2>3
  <2> HIDE DEF N, D, U
  <2> QED BY <1>2, <2>4
<1>4. \A j, k \in 1 .. N : s[j] = s[k] => j = k
  <2>1. s \in Surjection(1 .. N, Models)
    BY DEF Surjection, Range
  <2>2. IsFiniteSet(1 .. N) /\ Cardinality(1 .. N) = N
    <3> HIDE DEF N
    <3>1. IsFiniteSet(1 .. N) /\ Cardinality(1 .. N) = IF 1 > N THEN 0 ELSE N - 1 + 1
      BY <1>2, 1 \in Int, N \in Int, FS_Interval
    <3> QED BY <1>2, <3>1
  <2>3. s \in Injection(1 .. N, Models)
    BY <2>1, <2>2, FS_SurjSameCardinalityImpliesInj
  <2> QED BY <2>3 DEF Injection, IsInjective
<1>5. ASSUME NEW k \in 1 .. U PROVE D + k \in 1 .. N /\ s[D + k] \in up
  <2> DEFINE E == D + k
  <2>1. E \in 1 .. N /\ E > D /\ E \in Nat
    <3> HIDE DEF N, D, U
    <3> QED BY <1>2, <1>3
  <2> HIDE DEF E
  <2>2. SUFFICES ASSUME s[E] \notin up PROVE FALSE
    BY <2>1 DEF E
  <2>3. \A i \in 1 .. E : i \in 1 .. N /\ s[i] \in Models \ up
    <3>1. ASSUME NEW i \in 1 .. E PROVE i \in 1 .. N
      <4> HIDE DEF N
      <4> QED BY <1>2, <2>1
    <3>2. ASSUME NEW i \in 1 .. E PROVE s[i] \notin up
      <4>1. i \in DOMAIN s /\ E \in DOMAIN s
        BY <2>1, <3>1
      <4>2. ~(E < i)
        BY <2>1
      <4> QED BY <2>2, <4>1, <4>2
    <3> QED BY <3>1, <3>2
  <2> DEFINE g == [i \in 1 .. E |-> s[i]]
  <2>4. g \in Injection(1 .. E, Models \ up)
    <3>1. g \in [1 .. E -> Models \ up]
      BY <2>3
    <3>2. \A i, j \in 1 .. E : g[i] = g[j] => i = j
      BY <1>4, <2>3
    <3> QED BY <3>1, <3>2 DEF Injection, IsInjective
  <2> HIDE DEF g
  <2>5. Cardinality(1 .. E) <= D
    BY <1>1, <2>4, FS_Injection
  <2>6. Cardinality(1 .. E) = E
    <3>1. Cardinality(1 .. E) = IF 1 > E THEN 0 ELSE E - 1 + 1
      BY <2>1, FS_Interval
    <3> QED BY <2>1, <3>1
  <2> HIDE DEF D
  <2> QED BY <1>2, <2>1, <2>5, <2>6
<1> QED BY <1>2, <1>4, <1>5

LEMMA RouterInit == Init => RouterInv
<1> SUFFICES ASSUME Init PROVE RouterInv
  OBVIOUS
<1>1. RqInv
  BY IdleIs DEF Init, RqInv
<1>2. QInv
  <2>1. queue = <<>> /\ \A r \in Requests : ~rq[r].queued
    BY IdleIs DEF Init
  <2>2. DOMAIN queue = {} /\ queue \in Seq(QEntry)
    BY <2>1
  <2> QED BY <2>1, <2>2 DEF QInv, QueueOwned
<1>3. PICK up \in Startups :
         /\ inst = [m \in Models |-> [status |-> IF m \in up THEN "LOADING" ELSE "UNLOADED",
                                     failed |-> FALSE, count |-> 0]]
         /\ procs = [m \in Models |-> IF m \in up THEN <<NewProc>> ELSE <<>>]
         /\ lru \in {s \in [1 .. Cardinality(Models) -> Models] :
                       /\ Range(s) = Models
                       /\ \A j, k \in DOMAIN s : s[j] \in up /\ s[k] \notin up => k < j}
         /\ cmds = [k \in 1 .. Cardinality(up) |-> WatchCmd(lru[Cardinality(Models \ up) + k])]
  BY Zenon DEF Init
<1> DEFINE N == Cardinality(Models)
<1> DEFINE D == Cardinality(Models \ up)
<1> DEFINE U == Cardinality(up)
<1>4. up \in SUBSET Models /\ (up # {} => U <= MaxModels) /\ MaxModels \in Nat /\ MaxFaults \in Nat
  BY RouterAssumption
<1>5. /\ lru \in [1 .. N -> Models] /\ Range(lru) = Models
      /\ \A k \in 1 .. U : D + k \in 1 .. N /\ lru[D + k] \in up
      /\ \A j, k \in 1 .. N : lru[j] = lru[k] => j = k
      /\ U \in Nat /\ D \in Nat
  BY <1>3, <1>4, StartupOrder
<1> DEFINE wake == [k \in 1 .. U |-> WatchCmd(lru[D + k])]
<1>6. cmds = wake
  BY <1>3
<1> HIDE DEF N, D, U
<1>7. ASSUME NEW k \in 1 .. U
      PROVE  /\ wake[k] \in Command /\ wake[k].type = "WATCH" /\ wake[k].model = lru[D + k]
             /\ wake[k].model \in up
  <2>1. lru[D + k] \in up /\ lru[D + k] \in Models
    BY <1>4, <1>5
  <2>2. wake[k] = WatchCmd(lru[D + k])
    OBVIOUS
  <2> DEFINE m == lru[D + k]
  <2> HIDE DEF m, wake
  <2>3. wake[k] = WatchCmd(m) /\ m \in up /\ m \in Models
    BY <2>1, <2>2 DEF m
  <2>4. WatchCmd(m) \in Command /\ WatchCmd(m).type = "WATCH" /\ WatchCmd(m).model = m
    BY <2>3 DEF WatchCmd, Command
  <2> QED BY <2>3, <2>4 DEF m
<1>8. wake \in [1 .. U -> Command]
  BY <1>7
<1> HIDE DEF wake
<1>9. cmds \in Seq(Command) /\ DOMAIN cmds = 1 .. U
  BY <1>5, <1>6, <1>8, SeqDef
<1>10. \A m \in Models : is_running(inst, m) <=> m \in up
  BY <1>3 DEF is_running
<1>11. NewProc \in Process /\ NewProc.current /\ ~NewProc.watched /\ ~NewProc.exit /\ ~NewProc.deadline
  <2>1. <<>> \in Seq(Statuses \ {"UNLOADED"})
    OBVIOUS
  <2>2. NewProc \in Process
    BY <2>1, Zenon DEF NewProc, Process
  <2> QED BY <2>2 DEF NewProc
<1>12. ASSUME NEW m \in Models
       PROVE  /\ procs[m] \in Seq(Process) /\ Len(procs[m]) = IF m \in up THEN 1 ELSE 0
              /\ \A k \in DOMAIN procs[m] : procs[m][k] = NewProc
  <2>1. CASE m \in up
    <3>1. procs[m] = <<NewProc>>
      BY <1>3, <2>1
    <3> QED BY <1>11, <2>1, <3>1
  <2>2. CASE m \notin up
    <3>1. procs[m] = <<>>
      BY <1>3, <2>2
    <3> QED BY <2>2, <3>1
  <2> QED BY <2>1, <2>2
<1>13. RegTypes
  <2>1. inst \in [Models -> Instance]
    <3>1. ASSUME NEW m \in Models PROVE inst[m] \in Instance
      <4> DEFINE st == IF m \in up THEN "LOADING" ELSE "UNLOADED"
      <4>1. st \in Statuses
        BY DEF Statuses
      <4>2. inst[m] = [status |-> st, failed |-> FALSE, count |-> 0]
        BY <1>3
      <4> HIDE DEF st
      <4>3. 0 \in Nat
        OBVIOUS
      <4>4. [status |-> st, failed |-> FALSE, count |-> 0] \in Instance
        BY <4>1, <4>3, Zenon DEF Instance
      <4> QED BY <4>2, <4>4
    <3> QED BY <1>3, <3>1
  <2>2. procs \in [Models -> Seq(Process)]
    BY <1>3, <1>12
  <2>3. stopping \subseteq Models /\ faults \in 0 .. MaxFaults
    BY <1>4 DEF Init
  <2> QED BY <1>5, <1>9, <2>1, <2>2, <2>3 DEF RegTypes, N
<1>14. LimitInv
  <2>1. Running(inst) = up
    BY <1>4, <1>10 DEF Running
  <2>2. up = {} => Cardinality(up) = 0
    BY FS_EmptySet
  <2> QED BY <1>4, <2>1, <2>2 DEF LimitInv, U
<1>15. \A m \in Models : ProcInv(m)
  BY <1>10, <1>11, <1>12 DEF ProcInv
<1>16. ASSUME NEW j \in DOMAIN cmds PROVE CmdInv(j)
  <2> DEFINE m == lru[D + j]
  <2>1. j \in 1 .. U /\ cmds[j].type = "WATCH" /\ cmds[j].model = m /\ m \in up /\ m \in Models
    BY <1>4, <1>6, <1>7, <1>9
  <2>2. Len(procs[m]) = 1 /\ procs[m] # <<>>
    <3>1. Len(procs[m]) = 1
      BY <1>12, <2>1
    <3>2. Len(<<>>) = 0 /\ 1 # 0
      OBVIOUS
    <3> QED BY <3>1, <3>2, Zenon
  <2>3. Watched(m) = {}
    BY <1>11, <1>12, <2>1 DEF Watched
  <2>4. ASSUME NEW i \in DOMAIN cmds, Watches(cmds[i], m) PROVE i = j
    <3>1. lru[D + i] = lru[D + j] /\ i \in 1 .. U
      BY <1>6, <1>7, <1>9, <2>4 DEF Watches
    <3>2. D + i = D + j
      BY <1>5, <2>1, <3>1
    <3> QED BY <1>5, <2>1, <3>1, <3>2
  <2> HIDE DEF m
  <2> QED BY <2>1, <2>2, <2>3, <2>4 DEF CmdInv
<1>17. RegInv
  BY <1>13, <1>14, <1>15, <1>16 DEF RegInv
<1> QED BY <1>1, <1>2, <1>17 DEF RouterInv

LEMMA RouterStep == RouterInv /\ [Next]_vars => RouterInv'
<1> SUFFICES ASSUME RouterInv, [Next]_vars PROVE RouterInv'
  OBVIOUS
<1>1. RqInv /\ QInv /\ RegInv /\ RegTypes /\ queue \in Seq(QEntry)
  BY DEF RouterInv, RegInv, QInv
<1>2. ASSUME UNCHANGED <<queue, rq>> PROVE RqInv' /\ QInv'
  BY <1>1, <1>2 DEF RqInv, RequestOK, QInv, QueueOwned, Mine, InQueue
<1>3. ASSUME NEW r \in Requests, Arrive(r) \/ Handler(r) \/ Cancel(r) PROVE RouterInv'
  <2>1. CASE GetMeta(r) \/ Check(r) \/ WaitLoading(r) \/ UnloadLru(r) \/ LruWait(r)
             \/ Ticket(r) \/ Proxy(r) \/ AllDown(r)
    BY <2>1, MovesStep
  <2>2. CASE JoinQueue(r) \/ WaitStopping(r)
    BY <2>2, JoinStep
  <2>3. CASE WaitThrow(r) \/ WaitBreak(r)
    BY <2>3, LeaveStep
  <2>4. CASE TryClaim(r) \/ ClaimDone(r)
    BY <2>4, ClaimStep
  <2>5. CASE Spawn(r) \/ SpawnNot(r)
    BY <2>5, SpawnStep
  <2>6. CASE LruUnload(r) \/ Unload(r) \/ UnloadAll(r)
    BY <2>6, UnloadStep
  <2>7. CASE Count(r) \/ Cleanup(r)
    BY <2>7, CountStep
  <2>8. CASE Arrive(r)
    BY <2>8, ArriveStep
  <2>9. CASE Cancel(r)
    BY <2>9, CancelStep
  <2> QED BY <1>3, <2>1, <2>2, <2>3, <2>4, <2>5, <2>6, <2>7, <2>8, <2>9, Zenon DEF Handler, Wait
<1>4. ASSUME NEW m \in Models, NEW k \in DOMAIN procs[m],
             Child(m, k) \/ ChildReady(m, k) \/ ChildWake(m, k) \/ Monitor(m, k)
      PROVE  RouterInv'
  <2>1. UNCHANGED <<queue, rq>>
    BY <1>4, Zenon DEF Child, ChildReady, ChildWake, ChildSleep, ChildExit, ChildCrash, Sends, registry,
                       Monitor, MonitorRead, MonitorKill, MonitorReap
  <2>2. RegInv'
    BY <1>1, <1>4, ChildKeeps, MonitorReadKeeps, MonitorReapKeeps DEF Monitor
  <2> QED BY <1>2, <2>1, <2>2 DEF RouterInv
<1>5. CASE MonitorCommand
  <2>1. UNCHANGED <<queue, rq>>
    BY <1>5 DEF MonitorCommand
  <2>2. RegInv'
    BY <1>1, <1>5, MonitorCommandKeeps
  <2> QED BY <1>2, <2>1, <2>2 DEF RouterInv
<1>6. CASE UNCHANGED vars
  <2>1. UNCHANGED <<queue, rq>> /\ UNCHANGED <<inst, stopping, lru, cmds, procs>> /\ faults' \in 0 .. MaxFaults
    BY <1>1, <1>6 DEF vars, registry, RegTypes
  <2>2. RegInv'
    BY <1>1, <2>1, RegUnchanged
  <2> QED BY <1>2, <2>1, <2>2 DEF RouterInv
<1> QED BY <1>3, <1>4, <1>5, <1>6, Zenon DEF Next

\* The inductive invariant of the router: the locals of every handler, the queue that counts
\* them, the registry, the children and the commands on their way to the monitor agree.
THEOREM RouterInductive == Spec => []RouterInv
BY RouterInit, RouterStep, PTL DEF Spec

\* For any number of requests that load, evict, unload and cancel at once, and whatever dies:
\* models_max is never exceeded, and a model has one process exactly while the registry says
\* it runs (load checks the limit again in the section that spawns).
THEOREM LimitHolds == Spec => []WithinLimit
<1>1. RouterInv => WithinLimit
  BY DEF RouterInv, RegInv, LimitInv, ProcInv, WithinLimit
<1> QED BY <1>1, RouterInductive, PTL

\* Every entry of server_lru_sched's queue counts exactly the requests that wait in it,
\* there is one per model, and it goes with its last waiter, however the waits end.
THEOREM QueueCountsWaiters == Spec => []QueueOK
<1>1. RouterInv => QueueOK
  <2> SUFFICES ASSUME RouterInv PROVE QueueOK
    OBVIOUS
  <2>1. RegTypes /\ QInv
    BY DEF RouterInv, RegInv
  <2>2. TypeOK
    BY <2>1 DEF RegTypes, QInv, TypeOK, Instance, QEntry, Command, Process
  <2> QED BY <2>1, <2>2 DEF QInv, QueueOK
<1> QED BY <1>1, RouterInductive, PTL

\* A stop sent by name never reaches the next instance of the model: it arrives either while
\* the model is stopping or before the monitor learns of the new child.
THEOREM StopsHitTheirInstance == Spec => []StopHitsItsInstance
<1>1. RouterInv => StopHitsItsInstance
  BY DEF RouterInv, RegInv, ProcInv, StopHitsItsInstance
<1> QED BY <1>1, RouterInductive, PTL

=============================================================================
