------------------------------- MODULE BusTSO -------------------------------
(***************************************************************************)
(* Bus on a machine with store buffers (x86): a plain or release store     *)
(* goes into the buffer of its thread and reaches memory later, in order;  *)
(* its own thread sees it at once, the others do not; a read-modify-write  *)
(* empties the buffer first.  publish commits a slot with such a store and *)
(* then loads other slots without a fence in between (bus.rs 447-461,      *)
(* 508-525), so that two producers can each miss the other's commit.       *)
(*                                                                         *)
(* The actions that store, or load what their own thread may have stored,  *)
(* are given anew here; the others are those of Bus.                       *)
(***************************************************************************)
EXTENDS BusProperties, SequencesExt

VARIABLE buf  \* each thread's stores on their way to memory

tsoVars == <<vars, buf>>

Threads == Producers \cup Subscribers

TsoInit == Init /\ buf = [t \in Threads |-> <<>>]

Unbuffered(A) == A /\ UNCHANGED buf
Fenced(t, A)  == buf[t] = <<>> /\ A /\ UNCHANGED buf

Store(t, where, k, v) ==
  buf' = [buf EXCEPT ![t] = Append(@, [where |-> where, k |-> k, v |-> v])]

\* What thread t sees at a place: its own last store to it, or else memory.
Sees(t, where, k, memory) ==
  LET own == SelectSeq(buf[t], LAMBDA e : e.where = where /\ e.k = k) IN
  IF own = <<>> THEN memory ELSE Last(own).v

Drain(t) ==
  /\ buf[t] # <<>> /\ buf' = [buf EXCEPT ![t] = Tail(@)]
  /\ LET e == Head(buf[t]) IN
       /\ slot_msg' = IF e.where = "msg" THEN [slot_msg EXCEPT ![e.k] = e.v] ELSE slot_msg
       /\ slot_seq' = IF e.where = "seq" THEN [slot_seq EXCEPT ![e.k] = e.v] ELSE slot_seq
       /\ sub_read_seq' = IF e.where = "cursor" THEN [sub_read_seq EXCEPT ![e.k] = e.v]
                          ELSE sub_read_seq
  /\ UNCHANGED <<write_seq, claim_seq, n_subs, pc, frame, reader, crashed, hist>>

-----------------------------------------------------------------------------
(* Producer.                                                               *)

TsoCopy(p) ==
  /\ At(p, "copy")
  /\ Store(p, "msg", Idx(claim[p]), msg[p])
  /\ Goto(p, "store")
  /\ UNCHANGED <<header, ring, frame, reader, crashed, hist>>

TsoCommit(p) ==
  /\ At(p, "store")
  /\ Store(p, "seq", Idx(claim[p]), claim[p] + 1)
  /\ Goto(p, "adv_load")
  /\ UNCHANGED <<header, ring, frame, reader, crashed, hist>>

SeesCommit(p, q) == Sees(p, "seq", Idx(q), slot_seq[Idx(q)]) = q + 1

TsoAdvCheck(p) ==
  /\ At(p, "adv_check") /\ SeesCommit(p, w[p])
  /\ Goto(p, "adv_cas")
  /\ UNCHANGED <<header, ring, frame, reader, crashed, hist, buf>>

TsoAdvDone(p) ==
  /\ At(p, "adv_check") /\ ~SeesCommit(p, w[p])
  /\ Return(p)
  /\ UNCHANGED <<header, ring, reader, crashed, hist, buf>>

-----------------------------------------------------------------------------
(* Subscriber.                                                             *)

OwnCursor(s) == Sees(s, "cursor", sub_id[s], Cursor(s))

TsoJoinStore(s) ==
  /\ SAt(s, "join_store")
  /\ Store(s, "cursor", sub_id[s], start[s])
  /\ SGoto(s, "ready")
  /\ UNCHANGED <<header, ring, pc, frame, sub_id, start, out, crashed, hist>>

TsoPoll(s) ==
  /\ SAt(s, "ready") /\ IsCommitted(OwnCursor(s))
  /\ SGoto(s, "copying")
  /\ UNCHANGED <<header, ring, pc, frame, sub_id, start, out, crashed, hist, buf>>

TsoCopyOut(s) ==
  LET m == slot_msg[Idx(OwnCursor(s))] IN
  /\ SAt(s, "copying") /\ Length(m) <= BufBytes[s]
  /\ out' = [out EXCEPT ![s] = m]
  /\ SGoto(s, "advance")
  /\ UNCHANGED <<header, ring, pc, frame, sub_id, start, crashed, hist, buf>>

TsoCopyTooLarge(s) ==
  /\ SAt(s, "copying") /\ Length(slot_msg[Idx(OwnCursor(s))]) > BufBytes[s]
  /\ SGoto(s, "ready")
  /\ UNCHANGED <<header, ring, pc, frame, sub_id, start, out, crashed, hist, buf>>

TsoAdvance(s) ==
  /\ SAt(s, "advance")
  /\ Store(s, "cursor", sub_id[s], OwnCursor(s) + 1)
  /\ delivered' = [delivered EXCEPT ![s] = Append(@, out[s])]
  /\ out' = [out EXCEPT ![s] = NoMsg]
  /\ SGoto(s, "ready")
  /\ UNCHANGED <<header, ring, pc, frame, sub_id, start, crashed, log>>

-----------------------------------------------------------------------------
TsoProducerStep(p) ==
  \/ Unbuffered(LoadSubs(p) \/ LoadWrite(p) \/ ScanCursor(p) \/ ScanPanic(p))
  \/ Unbuffered(Admit(p) \/ Retry(p) \/ Backpressured(p) \/ AdvLoad(p))
  \/ Fenced(p, Reserve(p) \/ ReserveLost(p) \/ AdvCas(p))
  \/ TsoCopy(p) \/ TsoCommit(p) \/ TsoAdvCheck(p) \/ TsoAdvDone(p)

TsoSubscriberStep(s) ==
  \/ Unbuffered(JoinLoad(s))
  \/ TsoJoinStore(s) \/ TsoPoll(s) \/ TsoCopyOut(s) \/ TsoCopyTooLarge(s) \/ TsoAdvance(s)

TsoNext ==
  \/ \E p \in Producers : Fenced(p, Publish(p)) \/ Unbuffered(TryPublish(p)) \/ TsoProducerStep(p)
  \/ \E s \in Subscribers : Fenced(s, Subscribe(s)) \/ TsoSubscriberStep(s)
  \/ \E t \in Threads : Drain(t)

\* The scheduler runs every thread that has begun a call, a subscriber that has
\* joined keeps calling try_recv, and a store reaches memory in the end; nobody
\* has to start a call or to join.
TsoSpec ==
  /\ TsoInit /\ [][TsoNext]_tsoVars
  /\ \A p \in Producers : WF_tsoVars(TsoProducerStep(p))
  /\ \A s \in Subscribers : WF_tsoVars(TsoSubscriberStep(s))
  /\ \A t \in Threads : WF_tsoVars(Drain(t))

-----------------------------------------------------------------------------
(* What holds.                                                             *)

(* With store buffers the ring still implements the log, payloads         *)
(* included: a claim is completed when its commit reaches memory, and a    *)
(* subscriber stands where it sees itself (bus.rs 438-461, 555-575).       *)
TsoFanout == INSTANCE FanoutLog WITH
  entries  <- absEntries, received <- delivered,
  pos      <- [s \in Subscribers |-> CASE Joined(s) -> OwnCursor(s)
                                       [] spc[s] = "join_store" -> start[s]
                                       [] OTHER -> -1]

TsoRefinesFanout == TsoFanout!FanSpec

\* No subscriber stands at a message longer than its buffer (bus.rs:568).
BuffersSuffice ==
  \A s \in Subscribers : Joined(s) /\ OwnCursor(s) < claim_seq =>
    MsgLen[log[OwnCursor(s) + 1]] <= BufBytes[s]

(* What a fence after the commit would restore, and what holds without     *)
(* store buffers: if every commit is in memory before its producer looks   *)
(* at other slots (bus.rs 447-461, 508-525), then publish "blocks [...]     *)
(* until the slot is available" (bus.rs:466) and no longer, and in the end *)
(* every message claimed after a subscriber joined has reached it.         *)
CommitsAtOnce ==
  \A p \in Producers : pc[p] \in {"adv_check", "adv_cas", "idle"} => buf[p] = <<>>

ReturnsAlways(p) == []<>(pc[p] = "idle")

FencedProgress ==
  [](CommitsAtOnce /\ BuffersSuffice) =>
    /\ \A p \in Producers : ReturnsAlways(p)
    /\ \A s \in Subscribers : <>[](Joined(s) => OwnCursor(s) = claim_seq)

(* Without the fence a message that is committed still reaches everyone who *)
(* joined before it: try_recv reads the slot's own sequence and not        *)
(* write_seq, which may stay behind (bus.rs 555-575).                      *)
CommittedArrives ==
  []BuffersSuffice => \A s \in Subscribers :
    <>[](Joined(s) => \A c \in start[s]..claim_seq-1 : Committed(c) => OwnCursor(s) > c)

-----------------------------------------------------------------------------
(* What the repository says and does not hold.                             *)

(* publish "blocks [...] on backpressure until the slot is available"      *)
(* (bus.rs:466), subscribers or none.                                      *)
PublishReturns == \A p \in Producers : ReturnsAlways(p)
=============================================================================
