------------------------- MODULE StreamSessionProofs -------------------------
(***************************************************************************)
(* Proofs about StreamSession, for any number of POST and GET requests and *)
(* any cap: what readers get and what a finished session holds.            *)
(*                                                                         *)
(* The invariant has two parts.  SessionInv relates the buffer of a        *)
(* session to the progress of the request that fills it; ReaderInv relates *)
(* what a reader has got to the buffer it reads.                           *)
(***************************************************************************)
EXTENDS StreamSession, SequenceTheorems, TLAPS

\* The n bytes of a generation that follow byte a.
Run(a, n) == [k \in 1 .. n |-> a + k]

\* Where a POST request has made nothing yet, and where it has a chunk in hand.
Waiting == {"idle", "replace", "first", "failed"}
Writing == {"tee", "drain_write"}

\* The session of p: its buffer is a run of bytes, full unless everything fits, that ends
\* where the generation stands unless somebody has closed the session; and only somebody
\* who has taken it out of the map closes it before its request is over.
SessionInv(p) ==
    /\ sess[p].buffer = Run(sess[p].prefix_dropped, Len(sess[p].buffer))
    /\ sess[p].prefix_dropped > 0 => Len(sess[p].buffer) = CapBytes
    /\ chunk[p] <= made[p]
    /\ chunk[p] > 0 => pc[p] \in Writing
    /\ pc[p] \in Waiting => made[p] = 0
    /\ End(sess[p]) <= made[p] - chunk[p]
    /\ (sess[p].done /\ p \in removed) \/ End(sess[p]) = made[p] - chunk[p]
    /\ p \notin removed /\ pc[p] # "done" =>
           ~sess[p].done /\ ~sess[p].cancelled /\ closing[p] = "no"
    /\ pc[p] = "idle" => p # current /\ p \notin removed
    /\ p \notin removed /\ pc[p] \in {"destroy", "done"} => made[p] \in {0, GenBytes}

\* The session in the map has not been taken out of it.
CurrentInv == current # NoPost => current \notin removed

\* A reader has got the bytes between its two offsets; one that has come to the end
\* of a session has seen it closed.
ReaderInv(r) ==
    /\ rd[r].pc \in {"check", "read"} =>
           /\ rd[r].s \in Posts
           /\ rd[r].from <= rd[r].offset
           /\ rd[r].got = Run(rd[r].from, rd[r].offset - rd[r].from)
    /\ rd[r].pc = "end" =>
           /\ rd[r].s \in Posts
           /\ sess[rd[r].s].done
           /\ rd[r].offset >= End(sess[rd[r].s])

StreamInv == /\ TypeOK
             /\ CurrentInv
             /\ \A p \in Posts : SessionInv(p)
             /\ \A r \in Readers : ReaderInv(r)

-----------------------------------------------------------------------------
(* Runs of bytes. *)

\* A run is a sequence of its length, of bytes between its ends.
LEMMA RunIsSeq ==
    ASSUME NEW a \in Nat, NEW n \in Nat
    PROVE  /\ Run(a, n) \in Seq((a + 1) .. (a + n))
           /\ Len(Run(a, n)) = n
           /\ \A k \in 1 .. n : Run(a, n)[k] = a + k
<1>1. \A k \in 1 .. n : a + k \in (a + 1) .. (a + n)
  OBVIOUS
<1>2. Run(a, n) \in [1 .. n -> (a + 1) .. (a + n)]
  BY <1>1 DEF Run
<1>3. Run(a, n) \in Seq((a + 1) .. (a + n))
  BY <1>2, SeqDef
<1>4. DOMAIN Run(a, n) = 1 .. n
  BY DEF Run
<1>5. Len(Run(a, n)) = n
  BY <1>3, <1>4, LenProperties
<1> QED BY <1>3, <1>5 DEF Run

\* A run that ends within the generation is a sequence of its bytes.
LEMMA RunOfBytes ==
    ASSUME NEW a \in Nat, NEW n \in Nat, NEW m \in Nat, a + n <= m
    PROVE  Run(a, n) \in Seq(1 .. m)
<1>1. (a + 1) .. (a + n) \subseteq 1 .. m
  OBVIOUS
<1>2. Run(a, n) \in Seq((a + 1) .. (a + n))
  BY RunIsSeq
<1> QED BY <1>1, <1>2, SeqMonotonic

LEMMA RunEmpty ==
    ASSUME NEW a \in Nat
    PROVE  Run(a, 0) = <<>>
<1>1. 0 \in Nat /\ a + 0 \in Nat
  OBVIOUS
<1>2. Run(a, 0) \in Seq((a + 1) .. (a + 0)) /\ Len(Run(a, 0)) = 0
  BY <1>1, RunIsSeq
<1> QED BY <1>2, EmptySeq

\* Two runs of which the second starts where the first ends make one run.
LEMMA RunConcat ==
    ASSUME NEW a \in Nat, NEW n \in Nat, NEW m \in Nat
    PROVE  Run(a, n) \o Run(a + n, m) = Run(a, n + m)
<1> DEFINE x == Run(a, n)
<1> DEFINE y == Run(a + n, m)
<1> DEFINE z == Run(a, n + m)
<1>1. /\ Len(x) = n /\ Len(y) = m /\ Len(z) = n + m
      /\ \A k \in 1 .. n : x[k] = a + k
      /\ \A k \in 1 .. m : y[k] = a + n + k
      /\ \A k \in 1 .. (n + m) : z[k] = a + k
  <2>1. a + n \in Nat /\ n + m \in Nat
    OBVIOUS
  <2> HIDE DEF x, y, z
  <2>2. Len(x) = n /\ \A k \in 1 .. n : x[k] = a + k
    BY RunIsSeq DEF x
  <2>3. Len(y) = m /\ \A k \in 1 .. m : y[k] = (a + n) + k
    BY <2>1, RunIsSeq DEF y
  <2>4. Len(z) = n + m /\ \A k \in 1 .. (n + m) : z[k] = a + k
    BY <2>1, RunIsSeq DEF z
  <2> QED BY <2>2, <2>3, <2>4
<1>2. x \in Seq(Nat) /\ y \in Seq(Nat) /\ z \in Seq(Nat)
  <2>1. /\ x \in Seq((a + 1) .. (a + n))
        /\ y \in Seq((a + n + 1) .. (a + n + m))
        /\ z \in Seq((a + 1) .. (a + (n + m)))
    BY RunIsSeq, a + n \in Nat, n + m \in Nat
  <2>2. /\ (a + 1) .. (a + n) \subseteq Nat
        /\ (a + n + 1) .. (a + n + m) \subseteq Nat
        /\ (a + 1) .. (a + (n + m)) \subseteq Nat
    OBVIOUS
  <2> HIDE DEF x, y, z
  <2> QED BY <2>1, <2>2, SeqMonotonic
<1> HIDE DEF x, y, z
<1>3. /\ x \o y \in Seq(Nat)
      /\ Len(x \o y) = n + m
      /\ \A k \in 1 .. (n + m) : (x \o y)[k] = IF k <= n THEN x[k] ELSE y[k - n]
  BY <1>1, <1>2, ConcatProperties
<1>4. \A k \in 1 .. (n + m) : (x \o y)[k] = z[k]
  BY <1>1, <1>3
<1>5. x \o y = z
  BY <1>1, <1>2, <1>3, <1>4, SeqEqual
<1> QED BY <1>5 DEF x, y, z

\* The rest of a run after its first i bytes is a run.
LEMMA RunSuffix ==
    ASSUME NEW a \in Nat, NEW n \in Nat, NEW i \in 0 .. n
    PROVE  SubSeq(Run(a, n), i + 1, n) = Run(a + i, n - i)
<1> DEFINE x == Run(a, n)
<1> DEFINE z == Run(a + i, n - i)
<1>0. a + i \in Nat /\ n - i \in Nat
  OBVIOUS
<1>1. \A k \in 1 .. n : x[k] = a + k
  BY RunIsSeq
<1>2. Len(z) = n - i /\ \A k \in 1 .. (n - i) : z[k] = (a + i) + k
  BY <1>0, RunIsSeq
<1>3. z \in Seq(Nat)
  <2>1. z \in Seq(((a + i) + 1) .. ((a + i) + (n - i)))
    BY <1>0, RunIsSeq
  <2>2. ((a + i) + 1) .. ((a + i) + (n - i)) \subseteq Nat
    OBVIOUS
  <2> HIDE DEF z
  <2> QED BY <2>1, <2>2, SeqMonotonic
<1> HIDE DEF x, z
<1>4. \A k \in (i + 1) .. n : x[k] \in Nat
  BY <1>1
<1>5. /\ SubSeq(x, i + 1, n) \in Seq(Nat)
      /\ Len(SubSeq(x, i + 1, n)) = IF i + 1 <= n THEN n - (i + 1) + 1 ELSE 0
      /\ \A k \in 1 .. (n - (i + 1) + 1) : SubSeq(x, i + 1, n)[k] = x[(i + 1) + k - 1]
  BY <1>4, SubSeqProperties, i + 1 \in Int, n \in Int
<1>6. Len(SubSeq(x, i + 1, n)) = n - i
  BY <1>5
<1>7. \A k \in 1 .. (n - i) : SubSeq(x, i + 1, n)[k] = z[k]
  BY <1>1, <1>2, <1>5
<1>8. SubSeq(x, i + 1, n) = z
  BY <1>2, <1>3, <1>5, <1>6, <1>7, SeqEqual
<1> QED BY <1>8 DEF x, z

-----------------------------------------------------------------------------
(* append. *)

Session == [buffer : Seq(1 .. GenBytes), prefix_dropped : 0 .. GenBytes,
            done : BOOLEAN, cancelled : BOOLEAN]

\* Updates of one field of a session.
LEMMA NewBuffer ==
    ASSUME NEW a, NEW b, NEW c, NEW d, NEW y, NEW s,
           s = [buffer |-> b, prefix_dropped |-> a, done |-> d, cancelled |-> c]
    PROVE  [s EXCEPT !.buffer = y] = [buffer |-> y, prefix_dropped |-> a, done |-> d, cancelled |-> c]
BY SMT

LEMMA NewDropped ==
    ASSUME NEW a, NEW b, NEW c, NEW d, NEW x, NEW s,
           s = [buffer |-> b, prefix_dropped |-> a, done |-> d, cancelled |-> c]
    PROVE  [s EXCEPT !.prefix_dropped = x]
             = [buffer |-> b, prefix_dropped |-> x, done |-> d, cancelled |-> c]
BY SMT

Window(a, n, c, d) == [buffer |-> Run(a, n), prefix_dropped |-> a, done |-> d, cancelled |-> c]

\* append of the next m bytes to an open session: the buffer is the tail of the longer run, as
\* much of it as the cap holds.
LEMMA AppendRun ==
    ASSUME NEW a \in Nat, NEW n \in Nat, NEW m \in Nat, NEW c, NEW d, ~d,
           n <= CapBytes, a > 0 => n = CapBytes,
           NEW s, s = Window(a, n, c, d), NEW bytes, bytes = Run(a + n, m)
    PROVE  \E e, l \in Nat :
              /\ append(s, bytes) = Window(e, l, c, d)
              /\ e + l = a + n + m
              /\ l <= CapBytes
              /\ e > 0 => l = CapBytes
<1> DEFINE t == append(s, bytes)
<1>1. CapBytes \in Nat /\ CapBytes > 0
  BY StreamAssumption
<1>2. s.buffer = Run(a, n) /\ s.prefix_dropped = a /\ ~s.done
  BY DEF Window
<1>2a. s = [buffer |-> Run(a, n), prefix_dropped |-> a, done |-> d, cancelled |-> c]
  BY DEF Window
<1>2b. \A y : [s EXCEPT !.buffer = y]
                 = [buffer |-> y, prefix_dropped |-> a, done |-> d, cancelled |-> c]
  BY NewBuffer DEF Window
<1>3. Len(s.buffer) = n
  BY <1>2, RunIsSeq
<1>4. Len(bytes) = m
  <2>1. a + n \in Nat
    OBVIOUS
  <2> QED BY <2>1, RunIsSeq
<1>5. CASE m >= CapBytes
  <2>1. PICK i \in 0 .. m : i = m - CapBytes
    BY <1>1, <1>5
  <2>2. t = [s EXCEPT !.prefix_dropped = a + n + i, !.buffer = SubSeq(bytes, i + 1, m)]
    <3>1. t = [s EXCEPT !.prefix_dropped = @ + Len(s.buffer) + (Len(bytes) - CapBytes),
                        !.buffer = SubSeq(bytes, (Len(bytes) - CapBytes) + 1, Len(bytes))]
      <4>1. Len(bytes) >= CapBytes
        BY <1>4, <1>5
      <4> QED BY <1>2, <4>1 DEF append
    <3> HIDE DEF t
    <3> QED BY <1>2, <1>3, <1>4, <2>1, <3>1
  <2>3. SubSeq(bytes, i + 1, m) = Run((a + n) + i, m - i)
    <3>1. a + n \in Nat
      OBVIOUS
    <3> QED BY <3>1, RunSuffix
  <2>4. m - i = CapBytes /\ (a + n) + i \in Nat /\ ((a + n) + i) + CapBytes = a + n + m
    BY <1>1, <2>1
  <2>5. t = Window((a + n) + i, CapBytes, c, d)
    <3> DEFINE s1 == [s EXCEPT !.prefix_dropped = (a + n) + i]
    <3>1. t = [s1 EXCEPT !.buffer = Run((a + n) + i, CapBytes)]
      BY <2>2, <2>3, <2>4
    <3>2. s1 = [buffer |-> Run(a, n), prefix_dropped |-> (a + n) + i, done |-> d, cancelled |-> c]
      BY <1>2a, NewDropped
    <3> HIDE DEF t, s1
    <3> QED BY <3>1, <3>2, NewBuffer DEF Window
  <2> HIDE DEF t
  <2> QED BY <1>1, <2>4, <2>5 DEF t
<1>6. CASE m < CapBytes /\ n + m > CapBytes
  <2>1. PICK i \in 0 .. n : i = n + m - CapBytes /\ i > 0
    BY <1>1, <1>6
  <2>2. t = [s EXCEPT !.prefix_dropped = a + i, !.buffer = SubSeq(s.buffer, i + 1, n) \o bytes]
    <3>1. ~(Len(bytes) >= CapBytes) /\ Len(s.buffer) + Len(bytes) - CapBytes > 0
      BY <1>1, <1>3, <1>4, <1>6
    <3>2. t = [s EXCEPT !.prefix_dropped = @ + (Len(s.buffer) + Len(bytes) - CapBytes),
                        !.buffer = SubSeq(@, (Len(s.buffer) + Len(bytes) - CapBytes) + 1, Len(@)) \o bytes]
      BY <1>2, <3>1 DEF append
    <3> HIDE DEF t
    <3> QED BY <1>2, <1>3, <1>4, <2>1, <3>2
  <2>3. a + i \in Nat /\ n - i \in Nat /\ (a + i) + (n - i) = a + n /\ (n - i) + m = CapBytes
        /\ (a + i) + CapBytes = a + n + m
    BY <1>1, <2>1
  <2>4. SubSeq(s.buffer, i + 1, n) = Run(a + i, n - i)
    BY <1>2, <2>1, RunSuffix
  <2>5. Run(a + i, n - i) \o bytes = Run(a + i, CapBytes)
    <3>1. Run(a + i, n - i) \o Run((a + i) + (n - i), m) = Run(a + i, (n - i) + m)
      BY <2>3, RunConcat
    <3> QED BY <2>3, <3>1
  <2>6. t = Window(a + i, CapBytes, c, d)
    <3> DEFINE s1 == [s EXCEPT !.prefix_dropped = a + i]
    <3>1. t = [s1 EXCEPT !.buffer = Run(a + i, CapBytes)]
      BY <2>2, <2>4, <2>5
    <3>2. s1 = [buffer |-> Run(a, n), prefix_dropped |-> a + i, done |-> d, cancelled |-> c]
      BY <1>2a, NewDropped
    <3> HIDE DEF t, s1
    <3> QED BY <3>1, <3>2, NewBuffer DEF Window
  <2> HIDE DEF t
  <2> QED BY <1>1, <2>3, <2>6 DEF t
<1>7. CASE m < CapBytes /\ n + m <= CapBytes
  <2>1. t = [s EXCEPT !.buffer = s.buffer \o bytes]
    <3>1. ~(Len(s.buffer) + Len(bytes) - CapBytes > 0) /\ ~(Len(bytes) >= CapBytes)
      BY <1>1, <1>3, <1>4, <1>7
    <3> QED BY <1>2, <3>1 DEF append
  <2>2. s.buffer \o bytes = Run(a, n + m)
    <3>1. Run(a, n) \o Run(a + n, m) = Run(a, n + m)
      BY RunConcat
    <3> QED BY <1>2, <3>1
  <2>3. t = Window(a, n + m, c, d)
    BY <1>2b, <2>1, <2>2 DEF Window
  <2>4. n + m \in Nat /\ a + (n + m) = a + n + m /\ (a > 0 => n + m = CapBytes)
    BY <1>1, <1>7
  <2> HIDE DEF t
  <2> QED BY <1>7, <2>3, <2>4 DEF t
<1> QED BY <1>1, <1>5, <1>6, <1>7

\* The same for a session given by its fields.
LEMMA AppendExtends ==
    ASSUME NEW s \in Session, ~s.done, NEW m \in Nat,
           s.buffer = Run(s.prefix_dropped, Len(s.buffer)),
           Len(s.buffer) <= CapBytes,
           s.prefix_dropped > 0 => Len(s.buffer) = CapBytes,
           End(s) + m <= GenBytes,
           NEW t, t = append(s, Run(End(s), m))
    PROVE  /\ t \in Session
           /\ t.buffer = Run(t.prefix_dropped, Len(t.buffer))
           /\ Len(t.buffer) <= CapBytes
           /\ t.prefix_dropped > 0 => Len(t.buffer) = CapBytes
           /\ End(t) = End(s) + m
           /\ t.done = s.done /\ t.cancelled = s.cancelled
<1>1. s.buffer \in Seq(1 .. GenBytes) /\ s.prefix_dropped \in 0 .. GenBytes
  BY DEF Session
<1>2. GenBytes \in Nat /\ s.prefix_dropped \in Nat /\ Len(s.buffer) \in Nat
  BY <1>1, LenProperties, StreamAssumption
<1>3. s = Window(s.prefix_dropped, Len(s.buffer), s.cancelled, s.done)
  BY DEF Session, Window
<1>4. PICK e, l \in Nat :
          /\ t = Window(e, l, s.cancelled, s.done)
          /\ e + l = End(s) + m
          /\ l <= CapBytes
          /\ e > 0 => l = CapBytes
  <2> DEFINE a == s.prefix_dropped
  <2> DEFINE n == Len(s.buffer)
  <2> DEFINE bytes == Run(a + n, m)
  <2>1. \E e, l \in Nat :
          /\ append(s, bytes) = Window(e, l, s.cancelled, s.done)
          /\ e + l = a + n + m
          /\ l <= CapBytes
          /\ e > 0 => l = CapBytes
    <3>1. a \in Nat /\ n \in Nat /\ n <= CapBytes /\ (a > 0 => n = CapBytes)
      BY <1>2
    <3>2. s = Window(a, n, s.cancelled, s.done)
      BY <1>3
    <3> HIDE DEF a, n
    <3> QED BY <3>1, <3>2, AppendRun
  <2>2. t = append(s, bytes) /\ End(s) = a + n
    BY DEF End
  <2> QED BY <2>1, <2>2
<1>5. e + l <= GenBytes
  BY <1>4
<1>6. Run(e, l) \in Seq(1 .. GenBytes) /\ Len(Run(e, l)) = l
  BY <1>2, <1>5, RunOfBytes, RunIsSeq
<1>7. /\ t.buffer = Run(e, l) /\ t.prefix_dropped = e
      /\ t.done = s.done /\ t.cancelled = s.cancelled
  BY <1>4 DEF Window
<1>8. e \in 0 .. GenBytes
  BY <1>2, <1>5
<1>9. t \in Session
  BY <1>4, <1>6, <1>8 DEF Session, Window
<1> QED BY <1>4, <1>6, <1>7, <1>9 DEF End

-----------------------------------------------------------------------------
(* Frames. *)

\* Nothing is added to a session that has been closed, and it stays closed.
ClosedStays == \A p \in Posts : sess[p].done => sess'[p].done /\ End(sess'[p]) = End(sess[p])

\* SessionInv(p) looks only at the session and the request of p.
LEMMA SessionFrame ==
    ASSUME NEW p \in Posts, SessionInv(p),
           sess'[p] = sess[p], chunk'[p] = chunk[p], made'[p] = made[p], pc'[p] = pc[p],
           closing'[p] = closing[p], p \in removed' <=> p \in removed,
           p = current' => p = current
    PROVE  SessionInv(p)'
BY DEF SessionInv, End

\* A reader that does nothing keeps its invariant while sessions grow.
LEMMA ReaderFrame ==
    ASSUME NEW r \in Readers, ReaderInv(r), rd'[r] = rd[r], ClosedStays
    PROVE  ReaderInv(r)'
BY DEF ReaderInv, ClosedStays

\* The parts of the invariant in the form in which the steps use them.
LEMMA SessionTypes ==
    ASSUME TypeOK, NEW p \in Posts
    PROVE  /\ sess[p] \in Session /\ Len(sess[p].buffer) \in Nat
           /\ sess[p].prefix_dropped \in Nat /\ End(sess[p]) \in Nat
           /\ Len(sess[p].buffer) <= CapBytes
           /\ made[p] \in 0 .. GenBytes /\ chunk[p] \in 0 .. GenBytes
           /\ GenBytes \in Nat /\ CapBytes \in Nat \ {0}
<1>1. sess[p] \in Session
  BY DEF TypeOK, Session
<1>2. sess[p].buffer \in Seq(1 .. GenBytes) /\ sess[p].prefix_dropped \in 0 .. GenBytes
  BY <1>1 DEF Session
<1>3. Len(sess[p].buffer) \in Nat /\ sess[p].prefix_dropped \in Nat
  BY <1>2, LenProperties
<1> QED BY <1>1, <1>3, StreamAssumption DEF TypeOK, End

\* p leaves the map while nothing but the place of one other request, or of a
\* request that has failed, changes.
LEMMA RemovesKeeps ==
    ASSUME StreamInv, current # NoPost, NEW step \in {"cancel", "finalize"},
           Removes(current, step), current' = NoPost \/ current' # current,
           UNCHANGED <<sess, made, chunk>>,
           NEW q \in Posts, q # current' \/ pc'[q] # "idle",
           \/ pc'[q] = pc[q]
           \/ pc[q] = "failed" /\ pc'[q] = "destroy"
           \/ pc[q] = "idle" /\ pc'[q] = "replace"
    PROVE  SessionInv(q)'
<1>1. TypeOK /\ CurrentInv /\ SessionInv(q) /\ current \in Posts /\ SessionInv(current)
  BY DEF StreamInv, TypeOK
<1>2. pc[current] # "idle"
  BY <1>1 DEF SessionInv
<1>3. /\ closing' = [closing EXCEPT ![current] = step]
      /\ removed' = IF sess[current].done THEN removed ELSE removed \cup {current}
  BY DEF Removes
<1>4. CASE q # current
  <2>1. closing'[q] = closing[q] /\ (q \in removed' <=> q \in removed)
    BY <1>1, <1>3, <1>4 DEF TypeOK
  <2> QED BY <1>1, <2>1, SessionTypes DEF SessionInv, End, Waiting, Writing
<1>5. CASE q = current
  <2>1. q \notin removed /\ (sess[q].done => pc[q] = "done")
    BY <1>1, <1>5 DEF CurrentInv, SessionInv
  <2>2. q \notin removed' => sess[q].done
    BY <1>3, <1>5
  <2> QED BY <1>1, <1>2, <1>3, <1>5, <2>1, <2>2, SessionTypes DEF SessionInv, End, Waiting, Writing
<1> QED BY <1>4, <1>5

-----------------------------------------------------------------------------
(* The steps. *)

\* The readers keep their invariant in a step that is not theirs.
LEMMA ReadersFrame ==
    ASSUME StreamInv, UNCHANGED rd, ClosedStays
    PROVE  \A r \in Readers : ReaderInv(r)'
BY ReaderFrame DEF StreamInv

LEMMA SessionsStay ==
    ASSUME UNCHANGED sess
    PROVE  ClosedStays
BY DEF ClosedStays

\* cancel and finalize set one flag of one session.
LEMMA CancelMarks ==
    ASSUME TypeOK, NEW p \in Posts, sess' = [sess EXCEPT ![p].cancelled = TRUE]
    PROVE  /\ sess' \in [Posts -> Session]
           /\ sess'[p].done = sess[p].done
           /\ sess'[p].buffer = sess[p].buffer /\ sess'[p].prefix_dropped = sess[p].prefix_dropped
           /\ \A q \in Posts \ {p} : sess'[q] = sess[q]
<1>1. sess \in [Posts -> Session]
  BY DEF TypeOK, Session
<1> QED BY <1>1 DEF Session

LEMMA FinalizeMarks ==
    ASSUME TypeOK, NEW p \in Posts, finalize(p)
    PROVE  /\ sess' \in [Posts -> Session]
           /\ sess'[p].done /\ sess'[p].cancelled = sess[p].cancelled
           /\ sess'[p].buffer = sess[p].buffer /\ sess'[p].prefix_dropped = sess[p].prefix_dropped
           /\ \A q \in Posts \ {p} : sess'[q] = sess[q]
<1>1. sess \in [Posts -> Session]
  BY DEF TypeOK, Session
<1> QED BY <1>1 DEF Session, finalize

\* The evictor's two steps touch a session that is out of the map, or whose request is over.
LEMMA CloseKeeps ==
    ASSUME StreamInv, NEW p \in Posts, CloseCancel(p) \/ CloseFinalize(p)
    PROVE  StreamInv'
<1>1. TypeOK /\ CurrentInv /\ SessionInv(p) /\ \A q \in Posts : SessionInv(q)
  BY DEF StreamInv
<1>2. p \in removed \/ pc[p] = "done"
  BY <1>1 DEF SessionInv, CloseCancel, CloseFinalize
<1>3. /\ sess' \in [Posts -> Session]
      /\ sess[p].done => sess'[p].done
      /\ sess'[p].buffer = sess[p].buffer /\ sess'[p].prefix_dropped = sess[p].prefix_dropped
      /\ \A q \in Posts \ {p} : sess'[q] = sess[q]
  BY <1>1, CancelMarks, FinalizeMarks DEF CloseCancel, CloseFinalize
<1>4. /\ closing' \in [Posts -> {"no", "cancel", "finalize"}]
      /\ \A q \in Posts \ {p} : closing'[q] = closing[q]
      /\ UNCHANGED <<current, pc, prev, made, chunk, rd, running, removed>>
  BY <1>1 DEF CloseCancel, CloseFinalize, TypeOK
<1>5. TypeOK'
  <2>1. \A q \in Posts : sess'[q].buffer = sess[q].buffer
    BY <1>3
  <2> QED BY <1>1, <1>3, <1>4, <2>1 DEF TypeOK, Session
<1>6. CurrentInv'
  BY <1>1, <1>4 DEF CurrentInv
<1>7. ASSUME NEW q \in Posts PROVE SessionInv(q)'
  <2>1. CASE q = p
    <3>1. End(sess'[p]) = End(sess[p])
      BY <1>3 DEF End
    <3> QED BY <1>1, <1>2, <1>3, <1>4, <2>1, <3>1 DEF SessionInv
  <2>2. CASE q # p
    BY <1>1, <1>3, <1>4, <2>2, SessionFrame
  <2> QED BY <2>1, <2>2
<1>8. ClosedStays
  BY <1>3 DEF ClosedStays, End
<1>9. \A r \in Readers : ReaderInv(r)'
  BY <1>4, <1>8, ReadersFrame
<1> QED BY <1>5, <1>6, <1>7, <1>9 DEF StreamInv

\* DELETE, the collector and the manager's stop take the session in the map out of it; the
\* collector only takes one whose request is over.
LEMMA MapKeeps ==
    ASSUME StreamInv, Delete \/ Gc \/ StopGc
    PROVE  StreamInv'
<1>1. TypeOK /\ CurrentInv /\ \A q \in Posts : SessionInv(q)
  BY DEF StreamInv
<1>2. /\ UNCHANGED <<sess, pc, prev, made, chunk, rd>>
      /\ current' = NoPost /\ running' \in BOOLEAN
  BY <1>1 DEF Delete, Gc, StopGc, TypeOK
<1>3. TypeOK'
  <2>1. CASE current = NoPost
    BY <1>1, <1>2, <2>1 DEF TypeOK, Delete, Gc, StopGc
  <2>2. CASE current # NoPost
    <3>1. current \in Posts
      BY <1>1, <2>2 DEF TypeOK
    <3>2. \E step \in {"cancel", "finalize"} : closing' = [closing EXCEPT ![current] = step]
      BY <2>2 DEF Delete, Gc, StopGc, Removes
    <3>3. removed' \subseteq Posts
      BY <1>1, <2>2, <3>1 DEF Delete, Gc, StopGc, Removes, TypeOK
    <3>4. closing' \in [Posts -> {"no", "cancel", "finalize"}]
      BY <1>1, <3>2 DEF TypeOK
    <3> QED BY <1>1, <1>2, <3>3, <3>4 DEF TypeOK
  <2> QED BY <2>1, <2>2
<1>4. CurrentInv'
  BY <1>2 DEF CurrentInv
<1>5. ASSUME NEW q \in Posts PROVE SessionInv(q)'
  <2>1. q # NoPost
    BY StreamAssumption
  <2>2. CASE StopGc /\ current = NoPost
    BY <1>1, <1>2, <2>1, <2>2, SessionFrame DEF StopGc
  <2>3. CASE Delete \/ (StopGc /\ current # NoPost)
    <3>1. current # NoPost /\ \E step \in {"cancel", "finalize"} : Removes(current, step)
      BY <2>3 DEF Delete, StopGc
    <3> QED BY <1>2, <2>1, <3>1, RemovesKeeps
  <2>4. CASE Gc
    <3>1. /\ current \in Posts /\ sess[current].done /\ UNCHANGED removed
          /\ closing' = [closing EXCEPT ![current] = "finalize"]
      BY <1>1, <2>4 DEF Gc, TypeOK
    <3>2. pc[current] = "done"
      BY <1>1, <2>4, <3>1 DEF SessionInv, CurrentInv, Gc
    <3>3. CASE q = current
      BY <1>1, <1>2, <2>1, <3>1, <3>2, <3>3 DEF SessionInv, End
    <3>4. CASE q # current
      BY <1>1, <1>2, <2>1, <3>1, <3>4, SessionFrame DEF TypeOK
    <3> QED BY <3>3, <3>4
  <2> QED BY <2>2, <2>3, <2>4
<1>6. \A r \in Readers : ReaderInv(r)'
  BY <1>2, SessionsStay, ReadersFrame
<1> QED BY <1>3, <1>4, <1>5, <1>6 DEF StreamInv

\* A request that moves on without touching its session.
LEMMA WalkKeeps ==
    ASSUME StreamInv, NEW p \in Posts, Replaced(p) \/ First(p)
    PROVE  StreamInv'
<1>1. TypeOK /\ CurrentInv /\ \A q \in Posts : SessionInv(q)
  BY DEF StreamInv
<1>2. /\ UNCHANGED <<current, sess, closing, made, chunk, rd, running, removed>>
      /\ prev' \in [Posts -> Posts \cup {NoPost}]
  BY <1>1 DEF Replaced, First, TypeOK
<1>3. /\ pc' \in [Posts -> Pcs] /\ \A q \in Posts \ {p} : pc'[q] = pc[q]
      /\ pc[p] \in {"replace", "first"} /\ pc'[p] \in {"first", "failed", "stream"}
  BY <1>1 DEF Replaced, First, Goto, TypeOK, Pcs
<1>4. TypeOK'
  BY <1>1, <1>2, <1>3 DEF TypeOK
<1>5. CurrentInv'
  BY <1>1, <1>2 DEF CurrentInv
<1>6. ASSUME NEW q \in Posts PROVE SessionInv(q)'
  <2>1. CASE q = p
    <3>1. made[p] = 0 /\ chunk[p] <= 0 /\ chunk[p] \in Nat
      BY <1>1, <1>3, SessionTypes DEF SessionInv, Waiting
    <3> QED BY <1>1, <1>2, <1>3, <2>1, <3>1 DEF SessionInv, End, Waiting
  <2>2. CASE q # p
    BY <1>1, <1>2, <1>3, <2>2, SessionFrame
  <2> QED BY <2>1, <2>2
<1>7. \A r \in Readers : ReaderInv(r)'
  BY <1>2, SessionsStay, ReadersFrame
<1> QED BY <1>4, <1>5, <1>6, <1>7 DEF StreamInv

\* A new request replaces the session in the map; a failed one evicts whichever is there.
LEMMA ReplaceKeeps ==
    ASSUME StreamInv, NEW p \in Posts, SetReq(p) \/ Evict(p)
    PROVE  StreamInv'
<1>1. TypeOK /\ CurrentInv /\ \A q \in Posts : SessionInv(q)
  BY DEF StreamInv
<1>2. UNCHANGED <<sess, made, chunk, rd, running>> /\ p # NoPost
  BY StreamAssumption DEF SetReq, Evict
<1>3. /\ prev' \in [Posts -> Posts \cup {NoPost}] /\ current' \in Posts \cup {NoPost}
      /\ pc' \in [Posts -> Pcs] /\ \A q \in Posts \ {p} : pc'[q] = pc[q]
      /\ \/ pc[p] = "idle" /\ pc'[p] = "replace" /\ current' = p
         \/ pc[p] = "failed" /\ pc'[p] = "destroy" /\ current' = NoPost
  <2>1. current \in Posts \cup {NoPost} /\ prev \in [Posts -> Posts \cup {NoPost}] /\ pc \in [Posts -> Pcs]
    BY <1>1 DEF TypeOK
  <2>2. CASE SetReq(p)
    BY <2>1, <2>2 DEF SetReq, Goto, Pcs
  <2>3. CASE Evict(p)
    BY <2>1, <2>3 DEF Evict, Goto, Pcs
  <2> QED BY <2>2, <2>3
<1>4. current # NoPost => \E step \in {"cancel", "finalize"} : Removes(current, step)
  BY DEF SetReq, Evict
<1>5. current = NoPost => UNCHANGED <<closing, removed>>
  BY DEF SetReq, Evict
<1>6. /\ closing' \in [Posts -> {"no", "cancel", "finalize"}] /\ removed' \subseteq Posts
      /\ p \in removed' => p \in removed \/ p = current
  BY <1>1, <1>4, <1>5 DEF TypeOK, Removes
<1>7. TypeOK'
  BY <1>1, <1>2, <1>3, <1>6 DEF TypeOK
<1>8. pc[p] = "idle" => p # current /\ p \notin removed
  BY <1>1 DEF SessionInv
<1>9. CurrentInv'
  BY <1>2, <1>3, <1>6, <1>8 DEF CurrentInv
<1>10. ASSUME NEW q \in Posts PROVE SessionInv(q)'
  <2>1. q # NoPost
    BY StreamAssumption
  <2>2. \/ pc'[q] = pc[q]
        \/ pc[q] = "failed" /\ pc'[q] = "destroy"
        \/ pc[q] = "idle" /\ pc'[q] = "replace"
    BY <1>3
  <2>3. q # current' \/ pc'[q] # "idle"
    BY <1>3, <2>1
  <2>4. CASE current # NoPost
    <3>1. current' = NoPost \/ current' # current
      BY <1>3, <1>8
    <3> QED BY <1>2, <1>4, <2>2, <2>3, <2>4, <3>1, RemovesKeeps
  <2>5. CASE current = NoPost
    <3>1. SessionInv(q)
      BY <1>1
    <3> QED BY <1>1, <1>2, <1>3, <1>5, <2>1, <2>2, <2>3, <2>5, <3>1, SessionTypes
            DEF SessionInv, End, Waiting, Writing
  <2> QED BY <2>4, <2>5
<1>11. \A r \in Readers : ReaderInv(r)'
  BY <1>2, SessionsStay, ReadersFrame
<1> QED BY <1>7, <1>9, <1>10, <1>11 DEF StreamInv

\* The generation goes on, or ends because the session has been cancelled: then somebody has
\* taken it out of the map.
LEMMA NextChunkKeeps ==
    ASSUME StreamInv, NEW p \in Posts, NextChunk(p)
    PROVE  StreamInv'
<1>1. TypeOK /\ CurrentInv /\ \A q \in Posts : SessionInv(q)
  BY DEF StreamInv
<1>2. UNCHANGED <<current, sess, closing, prev, rd, running, removed>> /\ pc[p] \in {"stream", "drain"}
  BY DEF NextChunk
<1>3. chunk[p] = 0
  BY <1>1, <1>2, SessionTypes DEF SessionInv, Writing
<1>4. /\ made[p] \in 0 .. GenBytes /\ GenBytes \in Nat
      /\ pc \in [Posts -> Pcs] /\ made \in [Posts -> 0 .. GenBytes] /\ chunk \in [Posts -> 0 .. GenBytes]
  BY <1>1, SessionTypes DEF TypeOK
<1>5. \/ /\ sess[p].cancelled /\ pc'[p] = "destroy"
         /\ UNCHANGED <<made, chunk>>
      \/ /\ pc'[p] \in Writing
         /\ \E n \in 1 .. (GenBytes - made[p]) :
              chunk' = [chunk EXCEPT ![p] = n] /\ made' = [made EXCEPT ![p] = @ + n]
  BY <1>4 DEF NextChunk, Goto, Writing
<1>6. /\ pc' \in [Posts -> Pcs] /\ made' \in [Posts -> 0 .. GenBytes] /\ chunk' \in [Posts -> 0 .. GenBytes]
      /\ \A q \in Posts \ {p} : pc'[q] = pc[q] /\ made'[q] = made[q] /\ chunk'[q] = chunk[q]
  <2>1. pc' \in [Posts -> Pcs] /\ \A q \in Posts \ {p} : pc'[q] = pc[q]
    BY <1>4 DEF NextChunk, Goto, Pcs
  <2>2. CASE UNCHANGED <<made, chunk>>
    BY <1>4, <2>1, <2>2
  <2>3. CASE \E n \in 1 .. (GenBytes - made[p]) :
               chunk' = [chunk EXCEPT ![p] = n] /\ made' = [made EXCEPT ![p] = @ + n]
    <3>1. PICK n \in 1 .. (GenBytes - made[p]) :
               chunk' = [chunk EXCEPT ![p] = n] /\ made' = [made EXCEPT ![p] = @ + n]
      BY <2>3
    <3>2. n \in 0 .. GenBytes /\ made[p] + n \in 0 .. GenBytes
      BY <1>4
    <3> QED BY <1>4, <2>1, <3>1, <3>2
  <2> QED BY <1>5, <2>2, <2>3
<1>7. TypeOK'
  BY <1>1, <1>2, <1>6 DEF TypeOK
<1>8. CurrentInv'
  BY <1>1, <1>2 DEF CurrentInv
<1>9. SessionInv(p)'
  <2>1. SessionInv(p)
    BY <1>1
  <2>2. CASE sess[p].cancelled /\ pc'[p] = "destroy" /\ UNCHANGED <<made, chunk>>
    <3>1. p \in removed
      BY <1>2, <2>1, <2>2 DEF SessionInv
    <3> QED BY <1>2, <1>3, <2>1, <2>2, <3>1 DEF SessionInv, End, Waiting
  <2>3. CASE /\ pc'[p] \in Writing
             /\ \E n \in 1 .. (GenBytes - made[p]) :
                   chunk' = [chunk EXCEPT ![p] = n] /\ made' = [made EXCEPT ![p] = @ + n]
    <3>1. PICK n \in 1 .. (GenBytes - made[p]) : chunk'[p] = n /\ made'[p] = made[p] + n
      BY <1>4, <2>3
    <3>2. /\ pc'[p] \notin Waiting /\ pc'[p] \notin {"idle", "destroy", "done"}
          /\ pc[p] # "done"
      BY <1>2, <2>3 DEF Writing, Waiting
    <3>3. n \in Nat /\ made'[p] - chunk'[p] = made[p] - chunk[p] /\ chunk'[p] <= made'[p]
      BY <1>3, <1>4, <3>1
    <3> QED BY <1>2, <2>1, <2>3, <3>2, <3>3 DEF SessionInv, End
  <2> QED BY <1>5, <2>2, <2>3
<1>10. \A q \in Posts : SessionInv(q)'
  BY <1>1, <1>2, <1>6, <1>9, SessionFrame
<1>11. \A r \in Readers : ReaderInv(r)'
  BY <1>2, SessionsStay, ReadersFrame
<1> QED BY <1>7, <1>8, <1>10, <1>11 DEF StreamInv

\* A chunk goes to the session: it starts where the session ends unless the session is closed,
\* which drops it.
LEMMA WriteKeeps ==
    ASSUME StreamInv, NEW p \in Posts, Tee(p) \/ DrainWrite(p)
    PROVE  StreamInv'
<1>1. TypeOK /\ CurrentInv /\ SessionInv(p) /\ \A q \in Posts : SessionInv(q)
  BY DEF StreamInv
<1>2. UNCHANGED <<current, closing, prev, made, rd, running, removed>> /\ pc[p] \in Writing
  BY DEF Tee, DrainWrite, Writing
<1>3. /\ sess \in [Posts -> Session] /\ pc \in [Posts -> Pcs] /\ chunk \in [Posts -> 0 .. GenBytes]
      /\ made[p] \in 0 .. GenBytes /\ chunk[p] \in 0 .. GenBytes /\ GenBytes \in Nat
      /\ CapBytes \in Nat \ {0}
  BY <1>1, SessionTypes DEF TypeOK, Session
<1>4. /\ chunk' \in [Posts -> 0 .. GenBytes] /\ chunk'[p] = 0
      /\ \A q \in Posts \ {p} : chunk'[q] = chunk[q]
  <2>1. chunk' = [chunk EXCEPT ![p] = 0]
    BY DEF Tee, DrainWrite
  <2>2. 0 \in 0 .. GenBytes
    BY <1>3
  <2> QED BY <1>3, <2>1, <2>2
<1>5. /\ pc' \in [Posts -> Pcs] /\ \A q \in Posts \ {p} : pc'[q] = pc[q]
      /\ pc'[p] \in {"stream", "drain", "destroy"}
      /\ pc'[p] = "destroy" => made[p] = GenBytes
  BY <1>3 DEF Tee, DrainWrite, Goto, Pcs
<1> DEFINE s == sess[p]
<1> DEFINE t == sess'[p]
<1>6. t = append(s, Bytes(p)) /\ \A q \in Posts \ {p} : sess'[q] = sess[q]
  BY <1>3 DEF Tee, DrainWrite
<1>7. /\ s \in Session /\ Len(s.buffer) \in Nat /\ s.prefix_dropped \in Nat /\ End(s) \in Nat
      /\ Len(s.buffer) <= CapBytes
  BY <1>1, SessionTypes
<1>8. CASE s.done
  <2>1. t = s
    BY <1>6, <1>8 DEF append
  <2> HIDE DEF s, t
  <2>2. sess' = sess
    <3>1. sess' \in [Posts -> Session]
      <4>1. sess' = [sess EXCEPT ![p] = append(@, Bytes(p))]
        BY DEF Tee, DrainWrite
      <4>2. append(sess[p], Bytes(p)) \in Session
        BY <1>6, <1>7, <2>1 DEF s
      <4> QED BY <1>3, <4>1, <4>2
    <3> QED BY <1>3, <1>6, <2>1, <3>1 DEF s, t
  <2>3. TypeOK'
    BY <1>1, <1>2, <1>4, <1>5, <2>2 DEF TypeOK
  <2>4. SessionInv(p)'
    <3>1. p \in removed
      BY <1>1, <1>2, <1>8 DEF SessionInv, s, Writing
    <3>2. made[p] - 0 >= made[p] - chunk[p]
      BY <1>3
    <3>3. pc'[p] \notin Waiting /\ pc'[p] # "idle"
      BY <1>5 DEF Waiting
    <3> QED BY <1>1, <1>2, <1>3, <1>4, <1>7, <1>8, <2>2, <3>1, <3>2, <3>3 DEF SessionInv, s
  <2>5. \A q \in Posts : SessionInv(q)'
    BY <1>1, <1>2, <1>4, <1>5, <2>2, <2>4, SessionFrame
  <2>6. CurrentInv' /\ \A r \in Readers : ReaderInv(r)'
    BY <1>1, <1>2, <2>2, SessionsStay, ReadersFrame DEF CurrentInv
  <2> QED BY <2>3, <2>5, <2>6 DEF StreamInv
<1>9. CASE ~s.done
  <2>1. End(s) = made[p] - chunk[p] /\ s.buffer = Run(s.prefix_dropped, Len(s.buffer))
        /\ (s.prefix_dropped > 0 => Len(s.buffer) = CapBytes)
    BY <1>1, <1>9 DEF SessionInv
  <2>2. Bytes(p) = Run(End(s), chunk[p])
    BY <2>1 DEF Bytes, Run
  <2>3. End(s) + chunk[p] = made[p] /\ chunk[p] \in Nat
    BY <1>3, <2>1
  <2> HIDE DEF s, t
  <2>4. /\ t \in Session
        /\ t.buffer = Run(t.prefix_dropped, Len(t.buffer))
        /\ Len(t.buffer) <= CapBytes
        /\ t.prefix_dropped > 0 => Len(t.buffer) = CapBytes
        /\ End(t) = End(s) + chunk[p]
        /\ t.done = s.done /\ t.cancelled = s.cancelled
    <3>1. t = append(s, Run(End(s), chunk[p])) /\ End(s) + chunk[p] <= GenBytes
      BY <1>3, <1>6, <2>2, <2>3
    <3>2. s \in Session /\ chunk[p] \in Nat /\ Len(s.buffer) <= CapBytes
      BY <1>7, <2>3
    <3> QED BY <1>9, <2>1, <3>1, <3>2, AppendExtends, Zenon
  <2>5. sess' \in [Posts -> Session]
    <3>1. sess' = [sess EXCEPT ![p] = append(@, Bytes(p))]
      BY DEF Tee, DrainWrite
    <3>2. append(sess[p], Bytes(p)) \in Session
      BY <1>6, <2>4 DEF s
    <3> QED BY <1>3, <3>1, <3>2
  <2>6. \A q \in Posts : Len(sess'[q].buffer) <= CapBytes
    BY <1>1, <1>6, <2>4 DEF TypeOK, t
  <2>7. TypeOK'
    BY <1>1, <1>2, <1>4, <1>5, <2>5, <2>6 DEF TypeOK, Session
  <2>8. SessionInv(p)'
    <3>1. pc'[p] \notin Waiting /\ pc'[p] \notin {"idle", "done"} /\ pc[p] # "done"
      BY <1>2, <1>5 DEF Waiting, Writing
    <3>2. End(t) = made[p] - 0 /\ made[p] - 0 = made[p] /\ 0 <= made[p]
      BY <1>3, <2>3, <2>4
    <3>3. p \notin removed => ~t.done /\ ~t.cancelled /\ closing[p] = "no"
      BY <1>1, <2>4, <3>1 DEF SessionInv, s
    <3>4. made[p] = made'[p] /\ chunk'[p] = 0 /\ closing'[p] = closing[p] /\ removed' = removed
      BY <1>2, <1>4
    <3>5. /\ sess'[p].buffer = Run(sess'[p].prefix_dropped, Len(sess'[p].buffer))
          /\ sess'[p].prefix_dropped > 0 => Len(sess'[p].buffer) = CapBytes
          /\ End(sess'[p]) = made'[p] - chunk'[p] /\ End(sess'[p]) <= made'[p] - chunk'[p]
      BY <1>3, <2>4, <3>2, <3>4 DEF t
    <3>6. /\ p \notin removed' => ~sess'[p].done /\ ~sess'[p].cancelled /\ closing'[p] = "no"
          /\ p \notin removed' /\ pc'[p] \in {"destroy", "done"} => made'[p] \in {0, GenBytes}
      BY <1>5, <3>1, <3>3, <3>4 DEF t
    <3>7. chunk'[p] <= made'[p] /\ ~(chunk'[p] > 0)
      BY <3>2, <3>4
    <3> QED BY <3>1, <3>5, <3>6, <3>7 DEF SessionInv
  <2>9. \A q \in Posts : SessionInv(q)'
    BY <1>1, <1>2, <1>4, <1>5, <1>6, <2>8, SessionFrame
  <2>10. ClosedStays
    BY <1>6, <1>9 DEF ClosedStays, s
  <2>11. CurrentInv' /\ \A r \in Readers : ReaderInv(r)'
    BY <1>1, <1>2, <2>10, ReadersFrame DEF CurrentInv
  <2> QED BY <2>7, <2>9, <2>11 DEF StreamInv
<1> QED BY <1>8, <1>9

\* The producer's destructor closes the session, after the last chunk.
LEMMA DestroyKeeps ==
    ASSUME StreamInv, NEW p \in Posts, Destroy(p)
    PROVE  StreamInv'
<1>1. TypeOK /\ CurrentInv /\ SessionInv(p) /\ \A q \in Posts : SessionInv(q)
  BY DEF StreamInv
<1>2. UNCHANGED <<current, closing, prev, made, chunk, rd, running, removed>> /\ pc[p] = "destroy"
  BY DEF Destroy
<1>3. /\ sess' \in [Posts -> Session]
      /\ sess'[p].done
      /\ sess'[p].buffer = sess[p].buffer /\ sess'[p].prefix_dropped = sess[p].prefix_dropped
      /\ \A q \in Posts \ {p} : sess'[q] = sess[q]
  BY <1>1, FinalizeMarks DEF Destroy
<1>4. pc' \in [Posts -> Pcs] /\ pc'[p] = "done" /\ \A q \in Posts \ {p} : pc'[q] = pc[q]
  BY <1>1 DEF Destroy, Goto, TypeOK, Pcs
<1>5. TypeOK'
  <2>1. \A q \in Posts : sess'[q].buffer = sess[q].buffer
    BY <1>3
  <2> QED BY <1>1, <1>2, <1>3, <1>4, <2>1 DEF TypeOK, Session
<1>6. CurrentInv'
  BY <1>1, <1>2 DEF CurrentInv
<1>7. SessionInv(p)'
  <2>1. End(sess'[p]) = End(sess[p])
    BY <1>3 DEF End
  <2> QED BY <1>1, <1>2, <1>3, <1>4, <2>1, SessionTypes DEF SessionInv, Waiting, Writing
<1>8. \A q \in Posts : SessionInv(q)'
  BY <1>1, <1>2, <1>3, <1>4, <1>7, SessionFrame
<1>9. ClosedStays
  BY <1>3 DEF ClosedStays, End
<1>10. \A r \in Readers : ReaderInv(r)'
  BY <1>2, <1>9, ReadersFrame
<1> QED BY <1>5, <1>6, <1>8, <1>10 DEF StreamInv

\* What a reader is made of.
Reader == [pc : {"idle", "check", "read", "not_found", "refused", "lost", "end", "left"},
           s : Posts \cup {NoPost}, from : 0 .. GenBytes,
           offset : 0 .. GenBytes, got : Seq(1 .. GenBytes)]

\* A step of one reader keeps the invariant when it does for that reader.
LEMMA ReaderStep ==
    ASSUME StreamInv, NEW r \in Readers, NEW x \in Reader, rd' = [rd EXCEPT ![r] = x],
           UNCHANGED <<current, sess, closing, pc, prev, made, chunk, running, removed>>,
           x.pc \in {"check", "read"} =>
              /\ x.s \in Posts /\ x.from <= x.offset
              /\ x.got = Run(x.from, x.offset - x.from),
           x.pc = "end" => x.s \in Posts /\ sess[x.s].done /\ x.offset >= End(sess[x.s])
    PROVE  StreamInv'
<1>1. TypeOK /\ CurrentInv /\ (\A q \in Posts : SessionInv(q)) /\ \A q \in Readers : ReaderInv(q)
  BY DEF StreamInv
<1>2. rd \in [Readers -> Reader] /\ rd'[r] = x /\ \A q \in Readers \ {r} : rd'[q] = rd[q]
  BY <1>1 DEF TypeOK, Reader
<1>3. rd' \in [Readers -> Reader]
  BY <1>2
<1>4. TypeOK'
  BY <1>1, <1>3 DEF TypeOK, Reader
<1>5. CurrentInv' /\ \A q \in Posts : SessionInv(q)'
  BY <1>1, SessionFrame DEF CurrentInv
<1>6. ASSUME NEW q \in Readers PROVE ReaderInv(q)'
  <2>1. CASE q = r
    BY <1>2, <2>1 DEF ReaderInv, End
  <2>2. CASE q # r
    BY <1>1, <1>2, <2>2, ReaderFrame, SessionsStay
  <2> QED BY <2>1, <2>2
<1> QED BY <1>4, <1>5, <1>6 DEF StreamInv

LEMMA AwayIsReader ==
    ASSUME NEW why \in {"idle", "not_found", "refused", "lost", "left"}
    PROVE  Away(why) \in Reader /\ Away(why).pc \notin {"check", "read", "end"}
<1>1. <<>> \in Seq(1 .. GenBytes) /\ 0 \in 0 .. GenBytes
  BY StreamAssumption, EmptySeq
<1> QED BY <1>1 DEF Away, Reader

\* Updates of one field of a reader.
LEMMA ReaderSession ==
    ASSUME NEW a, NEW b, NEW c, NEW d, NEW e, NEW v, NEW y,
           y = [pc |-> a, s |-> b, from |-> c, offset |-> d, got |-> e]
    PROVE  [y EXCEPT !.s = v] = [pc |-> a, s |-> v, from |-> c, offset |-> d, got |-> e]
BY SMT

LEMMA ReaderOffset ==
    ASSUME NEW a, NEW b, NEW c, NEW d, NEW e, NEW v, NEW y,
           y = [pc |-> a, s |-> b, from |-> c, offset |-> d, got |-> e]
    PROVE  [y EXCEPT !.offset = v] = [pc |-> a, s |-> b, from |-> c, offset |-> v, got |-> e]
BY SMT

LEMMA ReaderGot ==
    ASSUME NEW a, NEW b, NEW c, NEW d, NEW e, NEW v, NEW y,
           y = [pc |-> a, s |-> b, from |-> c, offset |-> d, got |-> e]
    PROVE  [y EXCEPT !.got = v] = [pc |-> a, s |-> b, from |-> c, offset |-> d, got |-> v]
BY SMT

\* A reader's steps.
LEMMA ReaderKeeps ==
    ASSUME StreamInv, NEW r \in Readers, Get(r) \/ Read(r) \/ ReaderLeaves(r)
    PROVE  StreamInv'
<1>1. TypeOK /\ (\A q \in Posts : SessionInv(q)) /\ ReaderInv(r)
  BY DEF StreamInv
<1>2. rd \in [Readers -> Reader] /\ rd[r] \in Reader
  BY <1>1 DEF TypeOK, Reader
<1>3. UNCHANGED <<current, sess, closing, pc, prev, made, chunk, running, removed>>
  BY Zenon DEF Get, Read, CheckFrom, ReadFrom, ReaderLeaves
<1>4. GenBytes \in Nat
  BY StreamAssumption
<1>5. ASSUME NEW why \in {"idle", "not_found", "refused", "lost", "left"}, Stops(r, why)
      PROVE  StreamInv'
  BY <1>3, <1>5, AwayIsReader, ReaderStep DEF Stops
<1>6. CASE Get(r) /\ current # NoPost
  <2>1. PICK from \in Offsets :
           rd' = [rd EXCEPT ![r] = [pc |-> "check", s |-> current, from |-> from,
                                    offset |-> from, got |-> <<>>]]
    BY <1>6 DEF Get
  <2> DEFINE x == [pc |-> "check", s |-> current, from |-> from, offset |-> from, got |-> <<>>]
  <2>2. from \in 0 .. GenBytes /\ current \in Posts /\ <<>> \in Seq(1 .. GenBytes)
    BY <1>1, <1>6, StreamAssumption, EmptySeq DEF TypeOK
  <2>3. x \in Reader
    BY <2>2 DEF Reader
  <2>4. Run(from, from - from) = <<>>
    <3>1. from - from = 0 /\ from \in Nat
      BY <1>4, <2>2
    <3> QED BY <3>1, RunEmpty
  <2>5. from <= from
    BY <2>2
  <2>6. x.pc = "check" /\ x.s = current /\ x.from = from /\ x.offset = from /\ x.got = <<>>
    OBVIOUS
  <2> HIDE DEF x
  <2>7. rd' = [rd EXCEPT ![r] = x]
    BY <2>1 DEF x
  <2> QED BY <1>3, <2>2, <2>3, <2>4, <2>5, <2>6, <2>7, ReaderStep
<1>7. CASE CheckFrom(r) /\ rd' = [rd EXCEPT ![r].pc = "read"]
  <2> DEFINE x == [rd[r] EXCEPT !.pc = "read"]
  <2>1. rd' = [rd EXCEPT ![r] = x] /\ rd[r].pc = "check"
    BY <1>2, <1>7 DEF CheckFrom
  <2>2. /\ x \in Reader /\ x.pc = "read" /\ x.s = rd[r].s /\ x.from = rd[r].from
        /\ x.offset = rd[r].offset /\ x.got = rd[r].got
    BY <1>2 DEF Reader
  <2> HIDE DEF x
  <2> QED BY <1>1, <1>3, <2>1, <2>2, ReaderStep DEF ReaderInv
<1>8. CASE ReadFrom(r)
  <2> DEFINE s == sess[rd[r].s]
  <2> DEFINE off == rd[r].offset
  <2>1. rd[r].pc = "read" /\ rd[r].s \in Posts
    <3>1. rd[r].pc = "read"
      BY <1>8, Zenon DEF ReadFrom
    <3> QED BY <1>1, <3>1 DEF ReaderInv
  <2>2. /\ rd[r].from \in Nat /\ off \in Nat /\ rd[r].from <= off
        /\ rd[r].got = Run(rd[r].from, off - rd[r].from)
    BY <1>1, <1>2, <2>1 DEF ReaderInv, Reader
  <2>3. /\ s \in Session /\ Len(s.buffer) \in Nat /\ s.prefix_dropped \in Nat /\ End(s) \in Nat
        /\ s.buffer = Run(s.prefix_dropped, Len(s.buffer)) /\ End(s) <= GenBytes
    <3>1. SessionInv(rd[r].s)
      BY <1>1, <2>1
    <3>2. made[rd[r].s] \in 0 .. GenBytes /\ chunk[rd[r].s] \in 0 .. GenBytes
      BY <1>1, <2>1, SessionTypes
    <3> QED BY <1>1, <1>4, <2>1, <3>1, <3>2, SessionTypes DEF SessionInv
  <2>4. CASE off < s.prefix_dropped /\ Stops(r, "lost")
    BY <1>5, <2>4
  <2>5. CASE /\ off >= s.prefix_dropped /\ off < End(s)
             /\ rd' = [rd EXCEPT ![r].offset = End(s),
                          ![r].got = @ \o SubSeq(s.buffer, off - s.prefix_dropped + 1, Len(s.buffer))]
    <3> DEFINE a == rd[r].from
    <3> DEFINE d == s.prefix_dropped
    <3> DEFINE n == Len(s.buffer)
    <3> DEFINE e == End(s)
    <3> DEFINE i == off - d
    <3> DEFINE got == rd[r].got \o SubSeq(s.buffer, i + 1, n)
    <3> DEFINE x == [pc |-> "read", s |-> rd[r].s, from |-> a, offset |-> e, got |-> got]
    <3>1. /\ a \in Nat /\ off \in Nat /\ d \in Nat /\ n \in Nat /\ e \in Nat /\ a <= off
          /\ off >= d /\ off < e /\ e = d + n /\ e <= GenBytes
          /\ s.buffer = Run(d, n) /\ rd[r].got = Run(a, off - a)
      BY <2>2, <2>3, <2>5 DEF End
    <3> HIDE DEF s, off, a, d, n, e
    <3>1a. i \in 0 .. n /\ n - i \in Nat /\ d + i = off
      BY <3>1
    <3>1b. off - a \in Nat /\ a + (off - a) = off
      BY <3>1
    <3>1c. (off - a) + (n - i) = e - a /\ e - a \in Nat /\ a <= e /\ a + (e - a) <= GenBytes
      BY <1>4, <3>1
    <3> HIDE DEF i
    <3>2. SubSeq(s.buffer, i + 1, n) = Run(off, n - i)
      <4>1. SubSeq(Run(d, n), i + 1, n) = Run(d + i, n - i)
        BY <3>1, <3>1a, RunSuffix
      <4> QED BY <3>1, <3>1a, <4>1
    <3>3. got = Run(a, e - a)
      <4>1. Run(a, off - a) \o Run(a + (off - a), n - i) = Run(a, (off - a) + (n - i))
        <5>1. a \in Nat /\ off - a \in Nat /\ n - i \in Nat
          BY <3>1, <3>1a, <3>1b
        <5> QED BY <5>1, RunConcat, Zenon
      <4> QED BY <3>1, <3>1b, <3>1c, <3>2, <4>1
    <3>4. got \in Seq(1 .. GenBytes)
      <4> HIDE DEF got
      <4> QED BY <1>4, <3>1, <3>1c, <3>3, RunOfBytes
    <3>5. rd' = [rd EXCEPT ![r] = x]
      <4>1. rd[r] = [pc |-> "read", s |-> rd[r].s, from |-> a, offset |-> off, got |-> rd[r].got]
        BY <1>2, <2>1 DEF Reader, a, off
      <4>2. [rd[r] EXCEPT !.offset = e]
              = [pc |-> "read", s |-> rd[r].s, from |-> a, offset |-> e, got |-> rd[r].got]
        BY <4>1, ReaderOffset
      <4> DEFINE y == [rd[r] EXCEPT !.offset = e]
      <4>2a. y = [pc |-> "read", s |-> rd[r].s, from |-> a, offset |-> e, got |-> rd[r].got]
        BY <4>2
      <4> HIDE DEF y, got
      <4>3. [y EXCEPT !.got = got] = x
        BY <4>2a, ReaderGot
      <4>4. rd' = [rd EXCEPT ![r] = [y EXCEPT !.got = got]]
        <5>1. rd' = [rd EXCEPT ![r].offset = e, ![r].got = rd[r].got \o SubSeq(s.buffer, i + 1, n)]
          BY <2>5 DEF e, i, n, d, s, off
        <5> QED BY <1>2, <5>1 DEF y, got
      <4> QED BY <4>3, <4>4
    <3>6. x \in Reader
      <4>1. e \in 0 .. GenBytes
        BY <1>4, <3>1
      <4>2. a \in 0 .. GenBytes
        BY <1>2 DEF Reader, a
      <4> HIDE DEF got
      <4> QED BY <2>1, <3>4, <4>1, <4>2 DEF Reader
    <3>7. x.pc = "read" /\ x.s = rd[r].s /\ x.from = a /\ x.offset = e /\ x.got = got
      OBVIOUS
    <3> HIDE DEF x, got
    <3> QED BY <1>3, <2>1, <3>1c, <3>3, <3>5, <3>6, <3>7, ReaderStep
  <2>6. CASE /\ off >= End(s) /\ s.done
             /\ rd' = [rd EXCEPT ![r] = [Away("end") EXCEPT !.s = rd[r].s, !.offset = off]]
    <3> DEFINE x == [pc |-> "end", s |-> rd[r].s, from |-> 0, offset |-> off, got |-> <<>>]
    <3>1. [Away("end") EXCEPT !.s = rd[r].s, !.offset = off] = x
      <4>1. [Away("end") EXCEPT !.s = rd[r].s]
              = [pc |-> "end", s |-> rd[r].s, from |-> 0, offset |-> 0, got |-> <<>>]
        BY ReaderSession DEF Away
      <4>2. [Away("end") EXCEPT !.s = rd[r].s, !.offset = off]
              = [[Away("end") EXCEPT !.s = rd[r].s] EXCEPT !.offset = off]
        OBVIOUS
      <4> DEFINE y == [Away("end") EXCEPT !.s = rd[r].s]
      <4>2a. y = [pc |-> "end", s |-> rd[r].s, from |-> 0, offset |-> 0, got |-> <<>>]
        BY <4>1
      <4> HIDE DEF y, off
      <4>3. [y EXCEPT !.offset = off] = x
        BY <4>2a, ReaderOffset
      <4> QED BY <4>2, <4>3 DEF y
    <3>2. x \in Reader
      <4>1. <<>> \in Seq(1 .. GenBytes) /\ 0 \in 0 .. GenBytes /\ off \in 0 .. GenBytes
        BY <1>2, <1>4, EmptySeq DEF Reader
      <4> QED BY <2>1, <4>1 DEF Reader
    <3>3. x.pc = "end" /\ x.s = rd[r].s /\ x.offset = off
      OBVIOUS
    <3>4. rd' = [rd EXCEPT ![r] = x]
      BY <2>6, <3>1
    <3> HIDE DEF x
    <3> QED BY <1>3, <2>1, <2>6, <3>2, <3>3, <3>4, ReaderStep
  <2> QED BY <1>8, <2>4, <2>5, <2>6, Zenon DEF ReadFrom
<1> QED BY <1>5, <1>6, <1>7, <1>8 DEF Get, Read, CheckFrom, ReaderLeaves

-----------------------------------------------------------------------------

LEMMA InitHolds ==
    ASSUME Init
    PROVE  StreamInv
<1>1. <<>> \in Seq(1 .. GenBytes) /\ 0 \in 0 .. GenBytes /\ Len(<<>>) = 0 /\ GenBytes \in Nat
      /\ CapBytes \in Nat /\ CapBytes > 0
  BY StreamAssumption, EmptySeq
<1>2. NoSession \in Session
  BY <1>1 DEF NoSession, Session
<1>3. rd \in [Readers -> Reader] /\ \A r \in Readers : rd[r].pc = "idle"
  BY AwayIsReader DEF Init, Away
<1>4. \A p \in Posts : sess[p] = NoSession /\ made[p] = 0 /\ chunk[p] = 0 /\ pc[p] = "idle"
                       /\ closing[p] = "no"
  BY DEF Init
<1>5. NoSession.buffer = <<>> /\ NoSession.prefix_dropped = 0 /\ ~NoSession.done /\ ~NoSession.cancelled
  BY DEF NoSession
<1>6. End(NoSession) = 0
  BY <1>1, <1>5 DEF End
<1>7. TypeOK
  <2>1. sess \in [Posts -> Session] /\ \A p \in Posts : Len(sess[p].buffer) <= CapBytes
    BY <1>1, <1>2, <1>4, <1>5 DEF Init
  <2> QED BY <1>1, <1>3, <2>1 DEF TypeOK, Init, Session, Reader, Pcs
<1>8. <<>> = Run(0, 0)
  BY RunEmpty
<1>9. ASSUME NEW p \in Posts PROVE SessionInv(p)
  <2>1. p # NoPost /\ p # current /\ p \notin removed
    BY StreamAssumption DEF Init
  <2> QED BY <1>1, <1>4, <1>5, <1>6, <1>8, <2>1 DEF SessionInv, Writing
<1>10. \A r \in Readers : ReaderInv(r)
  BY <1>3 DEF ReaderInv
<1>11. CurrentInv
  BY DEF Init, CurrentInv
<1> QED BY <1>7, <1>9, <1>10, <1>11 DEF StreamInv

\* The invariant of sessions and readers holds for any number of requests, readers and bytes.
THEOREM StreamInductive == Spec => []StreamInv
<1>1. Init => StreamInv
  BY InitHolds
<1>2. StreamInv /\ [Next]_vars => StreamInv'
  <2> SUFFICES ASSUME StreamInv, [Next]_vars PROVE StreamInv'
    OBVIOUS
  <2>1. CASE UNCHANGED vars
    BY <2>1 DEF vars, StreamInv, TypeOK, CurrentInv, SessionInv, ReaderInv, End
  <2>2. ASSUME NEW p \in Posts, Post(p) \/ CloseCancel(p) \/ CloseFinalize(p) PROVE StreamInv'
    BY <2>2, CloseKeeps, WalkKeeps, ReplaceKeeps, NextChunkKeeps, WriteKeeps, DestroyKeeps DEF Post
  <2>3. ASSUME NEW r \in Readers, Get(r) \/ Read(r) \/ ReaderLeaves(r) PROVE StreamInv'
    BY <2>3, ReaderKeeps
  <2>4. CASE Delete \/ Gc \/ StopGc
    BY <2>4, MapKeeps
  <2> QED BY <2>1, <2>2, <2>3, <2>4 DEF Next
<1> QED BY <1>1, <1>2, PTL DEF Spec

\* Readers: whatever a reader of server-stream's read_from has got is the part of the generation
\* between its two offsets, and it is told the end only after the last byte of the session.
THEOREM ReadsAlwaysOK == Spec => []ReadsOK
<1>1. StreamInv => ReadsOK
  <2> SUFFICES ASSUME StreamInv PROVE ReadsOK
    OBVIOUS
  <2>1. TypeOK /\ \A r \in Readers : ReaderInv(r)
    BY DEF StreamInv
  <2>2. ReadsAreContiguous
    BY <2>1 DEF ReadsAreContiguous, ReaderInv, Run
  <2>3. EndIsTheEnd
    BY <2>1 DEF EndIsTheEnd, ReaderInv
  <2> QED BY <2>1, <2>2, <2>3 DEF ReadsOK
<1> QED BY <1>1, StreamInductive, PTL

\* The response outlives its client: a session that nobody took out of the map while it was
\* being written holds the end of the whole generation once its request is over.
THEOREM ResponseSurvives == Spec => []SurvivesDisconnect
<1>1. StreamInv => SurvivesDisconnect
  <2> SUFFICES ASSUME StreamInv, NEW p \in Posts, pc[p] = "done", p \notin removed, made[p] > 0
               PROVE  /\ End(sess[p]) = GenBytes
                      /\ sess[p].buffer =
                           [k \in 1 .. (IF CapBytes < GenBytes THEN CapBytes ELSE GenBytes) |->
                                GenBytes - Len(sess[p].buffer) + k]
    BY DEF SurvivesDisconnect
  <2>1. TypeOK /\ SessionInv(p)
    BY DEF StreamInv
  <2> DEFINE a == sess[p].prefix_dropped
  <2> DEFINE n == Len(sess[p].buffer)
  <2>2. /\ a \in Nat /\ n \in Nat /\ n <= CapBytes /\ GenBytes \in Nat /\ CapBytes \in Nat
        /\ made[p] \in Nat /\ chunk[p] \in Nat
    BY <2>1, SessionTypes
  <2>3. made[p] = GenBytes /\ chunk[p] = 0 /\ End(sess[p]) = GenBytes
    BY <2>1, <2>2 DEF SessionInv, Writing
  <2>4. End(sess[p]) = a + n /\ (a > 0 => n = CapBytes) /\ sess[p].buffer = Run(a, n)
    BY <2>1 DEF SessionInv, End
  <2> HIDE DEF a, n
  <2>5. a = GenBytes - n /\ n = IF CapBytes < GenBytes THEN CapBytes ELSE GenBytes
    BY <2>2, <2>3, <2>4
  <2>6. n = Len(sess[p].buffer)
    BY DEF n
  <2> QED BY <2>3, <2>4, <2>5, <2>6 DEF Run
<1> QED BY <1>1, StreamInductive, PTL

=============================================================================
