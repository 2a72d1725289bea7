-------------------------------- MODULE Bus --------------------------------
(***************************************************************************)
(* The shared-memory ring of src/bus.rs: producers claim a global sequence *)
(* number, wait for room, write the slot, commit it through the slot's own *)
(* sequence, and help to advance the contiguous prefix write_seq; every    *)
(* subscriber reads every message through a cursor of its own, and the     *)
(* slowest cursor holds the producers back.                                *)
(*                                                                         *)
(* One action is one access to shared memory (an atomic load, store or     *)
(* read-modify-write, or one payload copy) with the local computation that *)
(* follows it.  Memory is sequentially consistent here.  Calls that the    *)
(* code rejects before touching shared memory (an empty or oversized       *)
(* payload) change nothing, so they are guards and not actions.            *)
(***************************************************************************)
EXTENDS Naturals, Sequences

CONSTANTS
  Producers,    \* threads that publish
  Subscribers,  \* threads that subscribe once and then receive
  Cap,          \* desc_capacity, the number of slots
  MaxSubs,      \* MAX_SUBSCRIBERS, the number of cursors in the header
  SlotBytes,    \* slot_bytes, the payload bytes of a slot
  Msgs,         \* payloads
  NoMsg,        \* what an unused slot or buffer holds
  MsgLen,       \* the length of each payload
  Outbox,       \* the payloads each producer's client publishes
  BufBytes,     \* the size of each subscriber's receive buffer
  MaxClaims,    \* BOUND: no new publish call starts after this many claims
  JoinAnytime,  \* FALSE: subscribe() is called only while no publish runs
  Mortal        \* the threads that may die between any two steps

ASSUME CapAssumption     == Cap \in Nat \ {0}
ASSUME MaxSubsAssumption == MaxSubs \in Nat
ASSUME BoundsAssumption  == MaxClaims \in Nat /\ SlotBytes \in Nat
ASSUME MsgAssumption     == /\ NoMsg \notin Msgs
                            /\ MsgLen \in [Msgs -> Nat]
                            /\ Outbox \in [Producers -> SUBSET Msgs]
ASSUME ReaderAssumption  == BufBytes \in [Subscribers -> Nat]
ASSUME ModeAssumption    == JoinAnytime \in BOOLEAN

VARIABLES
  write_seq, claim_seq, n_subs, sub_read_seq,  \* Header
  slot_seq, slot_msg,                          \* Slot.seq; Slot.desc + payload
  pc, mode, msg, claim, n, min_read, i, w,     \* a producer's call frame
  spc, sub_id, start, out,                     \* a subscriber's handle and buffer
  crashed,                                     \* threads that have died
  log, delivered                               \* history: payload of each claim,
                                               \* payloads each subscriber got

header == <<write_seq, claim_seq, n_subs, sub_read_seq>>
ring   == <<slot_seq, slot_msg>>
scan   == <<n, min_read, i>>
frame  == <<mode, msg, claim, n, min_read, i, w>>
reader == <<spc, sub_id, start, out>>
hist   == <<log, delivered>>
vars   == <<write_seq, claim_seq, n_subs, sub_read_seq, slot_seq, slot_msg,
            pc, mode, msg, claim, n, min_read, i, w,
            spc, sub_id, start, out, crashed, log, delivered>>

Idx(q)       == q % Cap       \* q & (cap - 1), cap a power of two
Lesser(a, b) == IF a < b THEN a ELSE b
Live(x)      == x \notin crashed

ScanPcs   == {"load_write", "scan"}
WritePcs  == {"copy", "store"}
AdvPcs    == {"adv_load", "adv_check", "adv_cas"}
PcLabels  == {"idle", "load_subs", "cas", "panicked"}
               \cup ScanPcs \cup WritePcs \cup AdvPcs
JoinedPcs == {"ready", "copying", "advance"}
SpcLabels == {"new", "refused", "join_load", "join_store"} \cup JoinedPcs

\* The publish protocol's two comparisons.
HasRoomOffByOne(c, m) == c <= m + Cap       \* mutant: one slot too many
HasRoom(c, m)  == c < m + Cap               \* against the slowest reader
IsCommitted(q) == slot_seq[Idx(q)] = q + 1  \* message q sits in its slot

Init ==
  /\ write_seq = 0 /\ claim_seq = 0 /\ n_subs = 0
  /\ sub_read_seq = [j \in 0..MaxSubs-1 |-> 0]
  /\ slot_seq = [k \in 0..Cap-1 |-> 0]
  /\ slot_msg = [k \in 0..Cap-1 |-> NoMsg]
  /\ pc = [p \in Producers |-> "idle"] /\ mode = [p \in Producers |-> "idle"]
  /\ msg = [p \in Producers |-> NoMsg] /\ claim = [p \in Producers |-> 0]
  /\ n = [p \in Producers |-> 0] /\ min_read = [p \in Producers |-> 0]
  /\ i = [p \in Producers |-> 0] /\ w = [p \in Producers |-> 0]
  /\ spc = [s \in Subscribers |-> "new"] /\ sub_id = [s \in Subscribers |-> 0]
  /\ start = [s \in Subscribers |-> 0] /\ out = [s \in Subscribers |-> NoMsg]
  /\ crashed = {}
  /\ log = <<>> /\ delivered = [s \in Subscribers |-> <<>>]

-----------------------------------------------------------------------------
(* Producer: claiming a sequence number.                                   *)

At(p, l)   == Live(p) /\ pc[p] = l
Goto(p, l) == pc' = [pc EXCEPT ![p] = l]

\* The call's locals go out of scope; nothing reads them again.
Return(p) ==
  /\ Goto(p, "idle")
  /\ mode' = [mode EXCEPT ![p] = "idle"] /\ msg' = [msg EXCEPT ![p] = NoMsg]
  /\ claim' = [claim EXCEPT ![p] = 0] /\ w' = [w EXCEPT ![p] = 0]
  /\ n' = [n EXCEPT ![p] = 0] /\ min_read' = [min_read EXCEPT ![p] = 0]
  /\ i' = [i EXCEPT ![p] = 0]

\* A call with a payload the length check accepts.
Call(p, m, kind) ==
  /\ At(p, "idle") /\ claim_seq < MaxClaims
  /\ m \in Outbox[p] /\ MsgLen[m] \in 1..SlotBytes
  /\ mode' = [mode EXCEPT ![p] = kind] /\ msg' = [msg EXCEPT ![p] = m]
  /\ claim' = [claim EXCEPT ![p] = claim_seq]
  /\ Goto(p, "load_subs")
  /\ UNCHANGED <<write_seq, n_subs, sub_read_seq, ring, scan, w, reader,
                 crashed, delivered>>

\* publish(): fetch_add takes the sequence number before there is room for it.
Publish(p) ==
  \E m \in Outbox[p] :
    /\ Call(p, m, "publish")
    /\ claim_seq' = claim_seq + 1
    /\ log' = Append(log, m)

\* try_publish(): only reads claim_seq (the local `tail`).
TryPublish(p) ==
  \E m \in Outbox[p] :
    /\ Call(p, m, "try")
    /\ UNCHANGED <<claim_seq, log>>

-----------------------------------------------------------------------------
(* Producer: the scan for the slowest cursor.                              *)

LoadSubs(p) ==
  /\ At(p, "load_subs")
  /\ n' = [n EXCEPT ![p] = n_subs]
  /\ Goto(p, "load_write")
  /\ UNCHANGED <<header, ring, mode, msg, claim, min_read, i, w, reader,
                 crashed, hist>>

LoadWriteClaimed(p) ==  \* mutant: starts from the claims, not the commits
  /\ At(p, "load_write")
  /\ min_read' = [min_read EXCEPT ![p] = claim_seq]
  /\ i' = [i EXCEPT ![p] = 0]
  /\ Goto(p, "scan")
  /\ UNCHANGED <<header, ring, mode, msg, claim, n, w, reader, crashed, hist>>

LoadWrite(p) ==
  /\ At(p, "load_write")
  /\ min_read' = [min_read EXCEPT ![p] = write_seq]
  /\ i' = [i EXCEPT ![p] = 0]
  /\ Goto(p, "scan")
  /\ UNCHANGED <<header, ring, mode, msg, claim, n, w, reader, crashed, hist>>

ScanDoneEarly(p) == i[p] + 1 >= n[p]  \* mutant: leaves out the last cursor
ScanDone(p) == i[p] >= n[p]

ScanCursor(p) ==
  /\ At(p, "scan") /\ ~ScanDone(p) /\ i[p] < MaxSubs
  /\ min_read' = [min_read EXCEPT ![p] = Lesser(sub_read_seq[i[p]], @)]
  /\ i' = [i EXCEPT ![p] = @ + 1]
  /\ UNCHANGED <<header, ring, pc, mode, msg, claim, n, w, reader, crashed,
                 hist>>

\* n_subs also counts refused subscribers: sub_read_seq[i] is then out of
\* bounds, the index check panics, and a blocking call loses its claim.
ScanPanic(p) ==
  /\ At(p, "scan") /\ ~ScanDone(p) /\ i[p] >= MaxSubs
  /\ Goto(p, "panicked")
  /\ UNCHANGED <<header, ring, frame, reader, crashed, hist>>

EndScan(p) ==
  /\ n' = [n EXCEPT ![p] = 0] /\ min_read' = [min_read EXCEPT ![p] = 0]
  /\ i' = [i EXCEPT ![p] = 0]

Admit(p) ==
  /\ At(p, "scan") /\ ScanDone(p) /\ HasRoom(claim[p], min_read[p])
  /\ Goto(p, IF mode[p] = "publish" THEN "copy" ELSE "cas")
  /\ EndScan(p)
  /\ UNCHANGED <<header, ring, mode, msg, claim, w, reader, crashed, hist>>

RetryStale(p) ==  \* mutant: keeps the first scan's result
  /\ At(p, "scan") /\ ScanDone(p) /\ ~HasRoom(claim[p], min_read[p])
  /\ mode[p] = "publish"
  /\ UNCHANGED vars

RetryGivesUp(p) ==  \* mutant: returns while it holds a claim
  /\ At(p, "scan") /\ ScanDone(p) /\ ~HasRoom(claim[p], min_read[p])
  /\ mode[p] = "publish"
  /\ Return(p)
  /\ UNCHANGED <<header, ring, reader, crashed, hist>>

\* publish() holds its claim and scans again (yield_now on std).
Retry(p) ==
  /\ At(p, "scan") /\ ScanDone(p) /\ ~HasRoom(claim[p], min_read[p])
  /\ mode[p] = "publish"
  /\ Goto(p, "load_subs")
  /\ EndScan(p)
  /\ UNCHANGED <<header, ring, mode, msg, claim, w, reader, crashed, hist>>

\* try_publish() returns Ok(false).
Backpressured(p) ==
  /\ At(p, "scan") /\ ScanDone(p) /\ ~HasRoom(claim[p], min_read[p])
  /\ mode[p] = "try"
  /\ Return(p)
  /\ UNCHANGED <<header, ring, reader, crashed, hist>>

\* try_publish(): compare_exchange_weak(tail, tail + 1).
Reserve(p) ==
  /\ At(p, "cas") /\ claim_seq = claim[p]
  /\ claim_seq' = claim_seq + 1
  /\ log' = Append(log, msg[p])
  /\ Goto(p, "copy")
  /\ UNCHANGED <<write_seq, n_subs, sub_read_seq, ring, frame, reader, crashed,
                 delivered>>

\* The exchange fails: another producer claimed, or spuriously.  Ok(false).
ReserveLost(p) ==
  /\ At(p, "cas")
  /\ Return(p)
  /\ UNCHANGED <<header, ring, reader, crashed, hist>>

-----------------------------------------------------------------------------
(* Producer: writing and committing the slot, then helping write_seq on.   *)

Copy(p) ==
  /\ At(p, "copy")
  /\ slot_msg' = [slot_msg EXCEPT ![Idx(claim[p])] = msg[p]]
  /\ Goto(p, "store")
  /\ UNCHANGED <<header, slot_seq, frame, reader, crashed, hist>>

Commit(p) ==
  /\ At(p, "store")
  /\ slot_seq' = [slot_seq EXCEPT ![Idx(claim[p])] = claim[p] + 1]
  /\ Goto(p, "adv_load")
  /\ UNCHANGED <<header, slot_msg, frame, reader, crashed, hist>>

AdvLoad(p) ==
  /\ At(p, "adv_load")
  /\ w' = [w EXCEPT ![p] = write_seq]
  /\ Goto(p, "adv_check")
  /\ UNCHANGED <<header, ring, mode, msg, claim, scan, reader, crashed, hist>>

AdvCheckAny(p) ==  \* mutant: any committed message in the slot will do
  /\ At(p, "adv_check") /\ slot_seq[Idx(w[p])] # 0
  /\ Goto(p, "adv_cas")
  /\ UNCHANGED <<header, ring, frame, reader, crashed, hist>>

AdvCheck(p) ==
  /\ At(p, "adv_check") /\ IsCommitted(w[p])
  /\ Goto(p, "adv_cas")
  /\ UNCHANGED <<header, ring, frame, reader, crashed, hist>>

\* The slot after the prefix is not committed: the call returns.
AdvDone(p) ==
  /\ At(p, "adv_check") /\ ~IsCommitted(w[p])
  /\ Return(p)
  /\ UNCHANGED <<header, ring, reader, crashed, hist>>

AdvCasOnce(p) ==  \* mutant: advances by one message and returns
  /\ At(p, "adv_cas")
  /\ write_seq' = IF write_seq = w[p] THEN w[p] + 1 ELSE write_seq
  /\ Return(p)
  /\ UNCHANGED <<claim_seq, n_subs, sub_read_seq, ring, reader, crashed, hist>>

AdvCasStore(p) ==  \* mutant: a plain store instead of the exchange
  /\ At(p, "adv_cas")
  /\ write_seq' = w[p] + 1
  /\ Goto(p, "adv_load")
  /\ UNCHANGED <<claim_seq, n_subs, sub_read_seq, ring, frame, reader, crashed,
                 hist>>

\* compare_exchange(w, w + 1); whoever loses it goes round again.
AdvCas(p) ==
  /\ At(p, "adv_cas")
  /\ write_seq' = IF write_seq = w[p] THEN w[p] + 1 ELSE write_seq
  /\ Goto(p, "adv_load")
  /\ UNCHANGED <<claim_seq, n_subs, sub_read_seq, ring, frame, reader, crashed,
                 hist>>

-----------------------------------------------------------------------------
(* Subscriber: subscribe().                                                *)

SAt(s, l)   == Live(s) /\ spc[s] = l
SGoto(s, l) == spc' = [spc EXCEPT ![s] = l]
Cursor(s)   == sub_read_seq[sub_id[s]]
Joined(s)   == spc[s] \in JoinedPcs

SlotLeftOffByOne == n_subs <= MaxSubs  \* mutant: one subscriber too many
SlotLeft == n_subs < MaxSubs

\* fetch_add on n_subs, which is never undone, not even by a refusal.
\* The gate is the usage rule, not code: see JoinAnytime.
Subscribe(s) ==
  /\ SAt(s, "new")
  /\ JoinAnytime \/ \A p \in Producers : Live(p) => pc[p] \in {"idle", "panicked"}
  /\ n_subs' = n_subs + 1
  /\ \/ /\ SlotLeft
        /\ sub_id' = [sub_id EXCEPT ![s] = n_subs]
        /\ SGoto(s, "join_load")
     \/ /\ ~SlotLeft              \* Err(NoSubscriberSlots)
        /\ SGoto(s, "refused")
        /\ UNCHANGED sub_id
  /\ UNCHANGED <<write_seq, claim_seq, sub_read_seq, ring, pc, frame, start, out,
                 crashed, hist>>

JoinLoadClaimed(s) ==  \* mutant: starts after the claims, not the commits
  /\ SAt(s, "join_load")
  /\ start' = [start EXCEPT ![s] = claim_seq]
  /\ SGoto(s, "join_store")
  /\ UNCHANGED <<header, ring, pc, frame, sub_id, out, crashed, hist>>

JoinLoad(s) ==
  /\ SAt(s, "join_load")
  /\ start' = [start EXCEPT ![s] = write_seq]
  /\ SGoto(s, "join_store")
  /\ UNCHANGED <<header, ring, pc, frame, sub_id, out, crashed, hist>>

JoinStore(s) ==
  /\ SAt(s, "join_store")
  /\ sub_read_seq' = [sub_read_seq EXCEPT ![sub_id[s]] = start[s]]
  /\ SGoto(s, "ready")
  /\ UNCHANGED <<write_seq, claim_seq, n_subs, ring, pc, frame, sub_id, start,
                 out, crashed, hist>>

-----------------------------------------------------------------------------
(* Subscriber: try_recv(), and recv_blocking(), which repeats it.  Only its *)
(* own subscriber stores a cursor, so loading it is no step of its own; a   *)
(* poll that finds nothing (Ok(None), and NotReady at the deadline) changes *)
(* nothing.                                                                *)

PollNonZero(s) ==  \* mutant: takes whatever the slot holds
  /\ SAt(s, "ready") /\ slot_seq[Idx(Cursor(s))] # 0
  /\ SGoto(s, "copying")
  /\ UNCHANGED <<header, ring, pc, frame, sub_id, start, out, crashed, hist>>

Poll(s) ==
  /\ SAt(s, "ready") /\ IsCommitted(Cursor(s))
  /\ SGoto(s, "copying")
  /\ UNCHANGED <<header, ring, pc, frame, sub_id, start, out, crashed, hist>>

Length(m) == IF m = NoMsg THEN 0 ELSE MsgLen[m]

CopyOut(s) ==
  /\ SAt(s, "copying") /\ Length(slot_msg[Idx(Cursor(s))]) <= BufBytes[s]
  /\ out' = [out EXCEPT ![s] = slot_msg[Idx(Cursor(s))]]
  /\ SGoto(s, "advance")
  /\ UNCHANGED <<header, ring, pc, frame, sub_id, start, crashed, hist>>

\* Err(MsgTooLarge): the cursor stays, so the next call meets it again.
CopyTooLarge(s) ==
  /\ SAt(s, "copying") /\ Length(slot_msg[Idx(Cursor(s))]) > BufBytes[s]
  /\ SGoto(s, "ready")
  /\ UNCHANGED <<header, ring, pc, frame, sub_id, start, out, crashed, hist>>

\* The store that frees the slot; Ok(Some(len)).
Advance(s) ==
  /\ SAt(s, "advance")
  /\ sub_read_seq' = [sub_read_seq EXCEPT ![sub_id[s]] = @ + 1]
  /\ delivered' = [delivered EXCEPT ![s] = Append(@, out[s])]
  /\ out' = [out EXCEPT ![s] = NoMsg]
  /\ SGoto(s, "ready")
  /\ UNCHANGED <<write_seq, claim_seq, n_subs, ring, pc, frame, sub_id, start,
                 crashed, log>>

-----------------------------------------------------------------------------
(* A thread dies where it stands; its frame and the memory stay as they are. *)
Crash(x) ==
  /\ x \in Mortal /\ Live(x)
  /\ crashed' = crashed \cup {x}
  /\ UNCHANGED <<header, ring, pc, frame, reader, hist>>

ProducerStep(p) ==
  \/ LoadSubs(p) \/ LoadWrite(p) \/ ScanCursor(p) \/ ScanPanic(p) \/ Admit(p)
  \/ Retry(p) \/ Backpressured(p) \/ Reserve(p) \/ ReserveLost(p)
  \/ Copy(p) \/ Commit(p) \/ AdvLoad(p) \/ AdvCheck(p) \/ AdvDone(p) \/ AdvCas(p)

SubscriberStep(s) ==
  \/ JoinLoad(s) \/ JoinStore(s)
  \/ Poll(s) \/ CopyOut(s) \/ CopyTooLarge(s) \/ Advance(s)

Next ==
  \/ \E p \in Producers : Publish(p) \/ TryPublish(p) \/ ProducerStep(p)
  \/ \E s \in Subscribers : Subscribe(s) \/ SubscriberStep(s)
  \/ \E x \in Producers \cup Subscribers : Crash(x)

Spec == Init /\ [][Next]_vars
=============================================================================
