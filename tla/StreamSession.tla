---------------------------- MODULE StreamSession ----------------------------
(***************************************************************************)
(* Resumable response streams (src/tools/server/server-stream.cpp): the    *)
(* session buffer of one conversation, the POST requests that produce into *)
(* it and outlive their client, the GET requests that read it from any     *)
(* offset, the DELETE route, and the garbage collector.                    *)
(*                                                                         *)
(* Conversations share only the lock of the map, so the model has one.  A  *)
(* request makes at most one session, which is named after it.  Byte n of  *)
(* a generation is the number n.  One action per section under a lock.     *)
(***************************************************************************)
EXTENDS Integers, Sequences, FiniteSets

CONSTANTS
    Posts,       \* the POST requests of the conversation
    NoPost,
    Readers,     \* the GET requests
    CapBytes,    \* STREAM_SESSION_MAX_BYTES
    GenBytes,    \* bytes of a generation
    Offsets      \* offsets that readers resume from

ASSUME StreamAssumption ==
    /\ NoPost \notin Posts
    /\ CapBytes \in Nat \ {0} /\ GenBytes \in Nat \ {0}
    /\ Offsets \subseteq 0 .. GenBytes

VARIABLES
    current,    \* sessions[conversation_id], NoPost for none
    sess,       \* per session: buffer, prefix_dropped, done, cancelled
    closing,    \* per session out of the map: what its evictor still has to do
    pc,         \* per POST
    prev,       \* per POST: the session it has replaced
    made,       \* per POST: bytes generated
    chunk,      \* per POST: bytes of the chunk in hand
    rd,         \* per reader: where it is, its session, first and next offset, bytes got
    running,    \* the manager has not been stopped
    removed     \* sessions taken out of the map while their generation went on

vars == <<current, sess, closing, pc, prev, made, chunk, rd, running, removed>>

Goto(p, to) == pc' = [pc EXCEPT ![p] = to]

NoSession == [buffer |-> <<>>, prefix_dropped |-> 0, done |-> FALSE, cancelled |-> FALSE]
End(s)    == s.prefix_dropped + Len(s.buffer)

-----------------------------------------------------------------------------
(* stream_session. *)

\* Mutant: the bytes that make room are not counted.
Bug_append(s, bytes) ==
    IF s.done THEN s
    ELSE LET over == Len(s.buffer) + Len(bytes) - CapBytes
         IN IF over <= 0 THEN [s EXCEPT !.buffer = @ \o bytes]
            ELSE [s EXCEPT !.buffer = SubSeq(@ \o bytes, over + 1, Len(@) + Len(bytes))]

\* append: a chunk as large as the cap leaves only its own tail; otherwise the oldest
\* bytes make room.
append(s, bytes) ==
    LET n    == Len(bytes)
        skip == n - CapBytes
        drop == Len(s.buffer) + n - CapBytes
    IN IF s.done THEN s
       ELSE IF n >= CapBytes
       THEN [s EXCEPT !.prefix_dropped = @ + Len(s.buffer) + skip,
                      !.buffer = SubSeq(bytes, skip + 1, n)]
       ELSE IF drop > 0
       THEN [s EXCEPT !.prefix_dropped = @ + drop,
                      !.buffer = SubSeq(@, drop + 1, Len(@)) \o bytes]
       ELSE [s EXCEPT !.buffer = @ \o bytes]

finalize(p) == sess' = [sess EXCEPT ![p].done = TRUE]

-----------------------------------------------------------------------------
(* stream_session_manager. *)

\* p leaves the map: its evictor goes on outside the lock, from the given step.
Removes(p, step) ==
    /\ closing' = [closing EXCEPT ![p] = step]
    /\ removed' = IF sess[p].done THEN removed ELSE removed \cup {p}

\* The evictor cancels, then finalizes.
CloseCancel(p) ==
    /\ closing[p] = "cancel"
    /\ sess' = [sess EXCEPT ![p].cancelled = TRUE]
    /\ closing' = [closing EXCEPT ![p] = "finalize"]
    /\ UNCHANGED <<current, pc, prev, made, chunk, rd, running, removed>>

CloseFinalize(p) ==
    /\ closing[p] = "finalize"
    /\ finalize(p)
    /\ closing' = [closing EXCEPT ![p] = "no"]
    /\ UNCHANGED <<current, pc, prev, made, chunk, rd, running, removed>>

\* DELETE: evict_and_cancel.
Delete ==
    /\ current # NoPost
    /\ Removes(current, "cancel")
    /\ current' = NoPost
    /\ UNCHANGED <<sess, pc, prev, made, chunk, rd, running>>

\* Mutant: a session that is not complete has completed_at 0, which is long ago.
Bug_Gc ==
    /\ running /\ current # NoPost
    /\ current' = NoPost
    /\ closing' = [closing EXCEPT ![current] = "finalize"]
    /\ UNCHANGED <<sess, pc, prev, made, chunk, rd, running, removed>>

\* gc_loop: a session that has been complete for long enough is dropped.
Gc ==
    /\ running /\ current # NoPost /\ sess[current].done
    /\ current' = NoPost
    /\ closing' = [closing EXCEPT ![current] = "finalize"]
    /\ UNCHANGED <<sess, pc, prev, made, chunk, rd, running, removed>>

\* stop_gc: the map is cleared and its sessions finalized.
StopGc ==
    /\ running
    /\ running' = FALSE
    /\ current' = NoPost
    /\ IF current = NoPost THEN UNCHANGED <<closing, removed>> ELSE Removes(current, "finalize")
    /\ UNCHANGED <<sess, pc, prev, made, chunk, rd>>

-----------------------------------------------------------------------------
(* A POST request: server_res_spipe around the generation. *)

\* set_req: create_or_replace installs the session ...
SetReq(p) ==
    /\ pc[p] = "idle"
    /\ current' = p
    /\ prev' = [prev EXCEPT ![p] = current]
    /\ IF current = NoPost THEN UNCHANGED <<closing, removed>> ELSE Removes(current, "cancel")
    /\ Goto(p, "replace")
    /\ UNCHANGED <<sess, made, chunk, rd, running>>

\* ... and closes the one it has replaced.
Replaced(p) ==
    /\ pc[p] = "replace" /\ (prev[p] # NoPost => closing[prev[p]] = "no")
    /\ Goto(p, "first")
    /\ prev' = [prev EXCEPT ![p] = NoPost]
    /\ UNCHANGED <<current, sess, closing, made, chunk, rd, running, removed>>

\* The first result: an error or a client that has left ends the request ...
First(p) ==
    /\ pc[p] = "first"
    /\ \/ Goto(p, "stream")
       \/ Goto(p, "failed")
    /\ UNCHANGED <<current, sess, closing, prev, made, chunk, rd, running, removed>>

\* ... whose on_complete evicts by conversation id.
Evict(p) ==
    /\ pc[p] = "failed"
    /\ Goto(p, "destroy")
    /\ current' = NoPost
    /\ IF current = NoPost THEN UNCHANGED <<closing, removed>> ELSE Removes(current, "finalize")
    /\ UNCHANGED <<sess, prev, made, chunk, rd, running>>

\* next_orig, called by the HTTP server or, once the client is gone, by the loop of
\* on_complete: nothing more for a cancelled session, else a chunk.
NextChunk(p) ==
    /\ pc[p] \in {"stream", "drain"}
    /\ IF sess[p].cancelled
       THEN Goto(p, "destroy") /\ UNCHANGED <<made, chunk>>
       ELSE \E n \in 1 .. (GenBytes - made[p]) :
               /\ chunk' = [chunk EXCEPT ![p] = n]
               /\ made' = [made EXCEPT ![p] = @ + n]
               /\ Goto(p, IF pc[p] = "stream" THEN "tee" ELSE "drain_write")
    /\ UNCHANGED <<current, sess, closing, prev, rd, running, removed>>

Bytes(p) == [k \in 1 .. chunk[p] |-> made[p] - chunk[p] + k]

\* The chunk goes to the session, then to the client, who may have left.
Tee(p) ==
    /\ pc[p] = "tee"
    /\ sess' = [sess EXCEPT ![p] = append(@, Bytes(p))]
    /\ chunk' = [chunk EXCEPT ![p] = 0]
    /\ IF made[p] = GenBytes THEN Goto(p, "destroy") ELSE Goto(p, "stream") \/ Goto(p, "drain")
    /\ UNCHANGED <<current, closing, prev, made, rd, running, removed>>

\* on_complete: the loop that drains the generation into the session.
DrainWrite(p) ==
    /\ pc[p] = "drain_write"
    /\ sess' = [sess EXCEPT ![p] = append(@, Bytes(p))]
    /\ chunk' = [chunk EXCEPT ![p] = 0]
    /\ Goto(p, IF made[p] = GenBytes THEN "destroy" ELSE "drain")
    /\ UNCHANGED <<current, closing, prev, made, rd, running, removed>>

\* Mutant: the producer's destructor leaves the session open.
Bug_Destroy(p) ==
    /\ pc[p] = "destroy"
    /\ Goto(p, "done")
    /\ UNCHANGED <<current, sess, closing, prev, made, chunk, rd, running, removed>>

\* ~stream_pipe_producer.
Destroy(p) ==
    /\ pc[p] = "destroy"
    /\ finalize(p)
    /\ Goto(p, "done")
    /\ UNCHANGED <<current, closing, prev, made, chunk, rd, running, removed>>

Post(p) == \/ SetReq(p) \/ Replaced(p) \/ First(p) \/ Evict(p)
           \/ NextChunk(p) \/ Tee(p) \/ DrainWrite(p) \/ Destroy(p)

-----------------------------------------------------------------------------
(* A GET request. *)

Away(why) == [pc |-> why, s |-> NoPost, from |-> 0, offset |-> 0, got |-> <<>>]
Stops(r, why) == rd' = [rd EXCEPT ![r] = Away(why)]

\* The session is looked up ...
Get(r) ==
    /\ rd[r].pc = "idle"
    /\ IF current = NoPost THEN Stops(r, "not_found")
       ELSE \E from \in Offsets :
               rd' = [rd EXCEPT ![r] = [pc |-> "check", s |-> current, from |-> from,
                                        offset |-> from, got |-> <<>>]]
    /\ UNCHANGED <<current, sess, closing, pc, prev, made, chunk, running, removed>>

\* ... and the offset is refused if its bytes are gone.
CheckFrom(r) ==
    /\ rd[r].pc = "check"
    /\ IF rd[r].from < sess[rd[r].s].prefix_dropped THEN Stops(r, "refused")
       ELSE rd' = [rd EXCEPT ![r].pc = "read"]
    /\ UNCHANGED <<current, sess, closing, pc, prev, made, chunk, running, removed>>

\* One call of the response's next: read_from gives all there is beyond the offset, or
\* waits; it ends when the session is done or the offset is lost.
ReadFrom(r) ==
    /\ rd[r].pc = "read"
    /\ LET s == sess[rd[r].s]  off == rd[r].offset
       IN \/ off < s.prefix_dropped /\ Stops(r, "lost")
          \/ /\ off >= s.prefix_dropped /\ off < End(s)
             /\ rd' = [rd EXCEPT ![r].offset = End(s),
                          ![r].got = @ \o SubSeq(s.buffer, off - s.prefix_dropped + 1, Len(s.buffer))]
          \/ /\ off >= End(s) /\ s.done
             /\ rd' = [rd EXCEPT ![r] = [Away("end") EXCEPT !.s = rd[r].s, !.offset = off]]
    /\ UNCHANGED <<current, sess, closing, pc, prev, made, chunk, running, removed>>

\* should_stop: the reader's client has left.
ReaderLeaves(r) ==
    /\ rd[r].pc = "read" /\ Stops(r, "left")
    /\ UNCHANGED <<current, sess, closing, pc, prev, made, chunk, running, removed>>

Read(r) == CheckFrom(r) \/ ReadFrom(r)

-----------------------------------------------------------------------------

Init ==
    /\ current = NoPost /\ running = TRUE /\ removed = {}
    /\ sess = [p \in Posts |-> NoSession]
    /\ closing = [p \in Posts |-> "no"]
    /\ pc = [p \in Posts |-> "idle"]
    /\ prev = [p \in Posts |-> NoPost]
    /\ made = [p \in Posts |-> 0] /\ chunk = [p \in Posts |-> 0]
    /\ rd = [r \in Readers |-> Away("idle")]

Next ==
    \/ \E p \in Posts : Post(p) \/ CloseCancel(p) \/ CloseFinalize(p)
    \/ \E r \in Readers : Get(r) \/ Read(r) \/ ReaderLeaves(r)
    \/ Delete \/ Gc \/ StopGc

\* Threads go on: a generation produces its next chunk, an evictor finishes, and a reader
\* looks again at the latest after STREAM_READ_WAKE_INTERVAL_MS.
Fairness ==
    /\ \A p \in Posts : /\ WF_vars(Post(p) /\ pc[p] # "idle")
                        /\ WF_vars(CloseCancel(p) \/ CloseFinalize(p))
    /\ \A r \in Readers : WF_vars(Read(r))

Spec == Init /\ [][Next]_vars /\ Fairness

-----------------------------------------------------------------------------
(* Properties. *)

Pcs == {"idle", "replace", "first", "failed", "stream", "tee", "drain", "drain_write",
        "destroy", "done"}

\* Types of the sessions and the threads: in particular a session never holds
\* more than its cap.
TypeOK ==
    /\ current \in Posts \cup {NoPost} /\ running \in BOOLEAN /\ removed \subseteq Posts
    /\ sess \in [Posts -> [buffer : Seq(1 .. GenBytes), prefix_dropped : 0 .. GenBytes,
                           done : BOOLEAN, cancelled : BOOLEAN]]
    /\ \A p \in Posts : Len(sess[p].buffer) <= CapBytes
    /\ closing \in [Posts -> {"no", "cancel", "finalize"}]
    /\ pc \in [Posts -> Pcs] /\ prev \in [Posts -> Posts \cup {NoPost}]
    /\ made \in [Posts -> 0 .. GenBytes] /\ chunk \in [Posts -> 0 .. GenBytes]
    /\ rd \in [Readers -> [pc : {"idle", "check", "read", "not_found", "refused", "lost",
                                 "end", "left"},
                           s : Posts \cup {NoPost}, from : 0 .. GenBytes,
                           offset : 0 .. GenBytes, got : Seq(1 .. GenBytes)]]

\* Bytes that append has dropped stay accounted for: whatever a reader has got, from whatever
\* offset, is that part of the generation, without a gap or a repetition.
ReadsAreContiguous ==
    \A r \in Readers : rd[r].pc = "read" =>
        rd[r].got = [k \in 1 .. (rd[r].offset - rd[r].from) |-> rd[r].from + k]

\* A reader that comes to the end of a session has all of it: nothing is appended after
\* finalize, and finalize never overtakes an append.
EndIsTheEnd ==
    \A r \in Readers : rd[r].pc = "end" => rd[r].offset >= End(sess[rd[r].s])

\* A reader gets the stream: the ring within its cap, no gap, no repetition, and the end
\* only after the last byte.
ReadsOK == TypeOK /\ ReadsAreContiguous /\ EndIsTheEnd

\* The response survives its client: a session that nobody stopped, replaced or evicted holds
\* the end of the whole generation when its request is over, whether the client stayed, left
\* in the middle, or the collector ran.
SurvivesDisconnect ==
    \A p \in Posts : pc[p] = "done" /\ p \notin removed /\ made[p] > 0 =>
        /\ End(sess[p]) = GenBytes
        /\ sess[p].buffer = [k \in 1 .. (IF CapBytes < GenBytes THEN CapBytes ELSE GenBytes) |->
                                GenBytes - Len(sess[p].buffer) + k]

\* No reader waits for ever, whoever takes the session out of the map.
ReadersEnd == \A r \in Readers : rd[r].pc = "read" ~> rd[r].pc # "read"

\* on_complete of a failed request evicts "the session installed by set_req()": its own.
EvictsOwnSession ==
    [][\A p \in Posts : pc[p] = "failed" /\ pc'[p] # "failed" /\ current # NoPost => current = p]_vars

=============================================================================
