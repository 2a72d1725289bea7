--------------------------- MODULE BusOrderProofs ---------------------------
(***************************************************************************)
(* Theorems about what the ring's calls amount to: no advance of write_seq *)
(* is lost, no counter goes back, every subscriber is given the log in     *)
(* order, and the ring implements FanoutLog.                               *)
(***************************************************************************)
EXTENDS BusReaderProofs

USE DEF AdvPcs, ScanPcs, WritePcs, PcLabels, JoinedPcs, SpcLabels

-----------------------------------------------------------------------------
(* What one step of a producer may change.                                 *)

LEMMA OthersStay ==
  ASSUME TypeOK, NEW p \in Producers, Publish(p) \/ TryPublish(p) \/ ProducerStep(p)
  PROVE  \A q \in Producers \ {p} :
           pc'[q] = pc[q] /\ w'[q] = w[q] /\ mode'[q] = mode[q] /\ msg'[q] = msg[q]
           /\ claim'[q] = claim[q]
<1>1. /\ pc \in [Producers -> PcLabels] /\ w \in [Producers -> Nat]
      /\ mode \in [Producers -> {"idle", "publish", "try"}]
      /\ msg \in [Producers -> Msgs \cup {NoMsg}] /\ claim \in [Producers -> Nat]
  BY DEF TypeOK
<1> QED
  BY <1>1 DEF Publish, TryPublish, Call, ProducerStep, LoadSubs, LoadWrite, ScanCursor,
       ScanPanic, Admit, Retry, Backpressured, Reserve, ReserveLost, Copy, Commit,
       AdvLoad, AdvCheck, AdvDone, AdvCas, Return, EndScan, Goto, frame, scan

\* The slot's sequence is that of the claim itself, not of a later lap.
LEMMA OwnLap ==
  ASSUME SlotShape, slot_seq \in [0..Cap-1 -> Nat], NEW c \in Nat, Committed(c),
         slot_seq[Idx(c)] <= c + Cap
  PROVE  IsCommitted(c)
<1> DEFINE q == slot_seq[Idx(c)]
<1>1. q \in Nat /\ q >= c + 1 /\ q <= c + Cap /\ Idx(q - 1) = Idx(c)
  BY IdxType DEF Committed, SlotShape
<1>2. SUFFICES ASSUME q # c + 1 PROVE FALSE
  BY DEF IsCommitted
<1> HIDE DEF q
<1>3. q - 1 \in Nat /\ c < q - 1
  BY <1>1, <1>2
<1>4. c + Cap <= q - 1
  BY <1>1, <1>3, SameSlot
<1> QED
  BY <1>1, <1>4, CapAssumption

-----------------------------------------------------------------------------
(* Helping: AdvanceInv is inductive.                                        *)

LEMMA AdvanceStep ==
  ASSUME AdvanceInv, NEW p \in Producers, Publish(p) \/ TryPublish(p) \/ ProducerStep(p)
  PROVE  HelperShape'
<1>0. /\ TypeOK /\ SlotShape /\ HelperShape
      /\ write_seq \in Nat /\ pc \in [Producers -> PcLabels] /\ w \in [Producers -> Nat]
      /\ slot_seq \in [0..Cap-1 -> Nat]
  BY DEF AdvanceInv, CoreInv, TypeOK
<1>1. \A q \in Producers \ {p} : pc'[q] = pc[q] /\ w'[q] = w[q]
  BY <1>0, OthersStay
<1> DEFINE Helps(q) == \/ pc[q] \in {"adv_load", "adv_cas"}
                       \/ pc[q] = "adv_check" /\ w[q] = write_seq
<1>2. SUFFICES ASSUME Committed(write_seq)'
               PROVE  \E q \in Producers : Helps(q)'
  BY DEF HelperShape
<1>3. CASE Commit(p) \/ AdvCas(p) \/ AdvCheck(p)
  BY <1>0, <1>3 DEF Commit, AdvCas, AdvCheck, Goto
<1>4. CASE ~(Commit(p) \/ AdvCas(p) \/ AdvCheck(p))
  <2>1. UNCHANGED <<write_seq, slot_seq>>
    BY <1>4 DEF Publish, TryPublish, Call, ProducerStep, LoadSubs, LoadWrite, ScanCursor,
         ScanPanic, Admit, Retry, Backpressured, Reserve, ReserveLost, Copy, AdvLoad,
         AdvDone, header, ring
  <2>2. PICK q \in Producers : Helps(q)
    BY <1>0, <1>2, <2>1 DEF HelperShape, Committed
  <2>3. CASE q # p
    BY <1>1, <2>1, <2>2, <2>3
  <2>4. CASE q = p /\ AdvLoad(p)
    BY <1>0, <2>1, <2>4 DEF AdvLoad, Goto
  <2>5. CASE q = p /\ ~AdvLoad(p)
    <3>1. pc[p] = "adv_check" /\ w[p] = write_seq /\ ~IsCommitted(write_seq)
      BY <1>4, <2>2, <2>5 DEF Publish, TryPublish, Call, ProducerStep, At, LoadSubs,
           LoadWrite, ScanCursor, ScanPanic, Admit, Retry, Backpressured, Reserve,
           ReserveLost, Copy, AdvDone
    <3>2. Committed(write_seq)
      BY <1>2, <2>1 DEF Committed
    <3>3. slot_seq[Idx(write_seq)] <= write_seq + Cap
      BY <1>0, IdxType DEF SlotShape
    <3> QED
      BY <1>0, <3>1, <3>2, <3>3, OwnLap
  <2> QED
    BY <2>3, <2>4, <2>5
<1> QED
  BY <1>3, <1>4

LEMMA NextAdvance == AdvanceInv /\ [Next]_vars => AdvanceInv'
<1> SUFFICES ASSUME AdvanceInv, [Next]_vars PROVE HelperShape'
  BY NextCore DEF AdvanceInv
<1>1. ASSUME UNCHANGED <<write_seq, slot_seq, pc, w>>
      PROVE  HelperShape'
  BY <1>1 DEF AdvanceInv, HelperShape, Committed
<1>2. ASSUME NEW s \in Subscribers, Subscribe(s) \/ SubscriberStep(s)
      PROVE  HelperShape'
  BY <1>1, <1>2 DEF Subscribe, SubscriberStep, JoinLoad, JoinStore, Poll, CopyOut,
       CopyTooLarge, Advance, header, ring, frame
<1>3. ASSUME NEW x \in Producers \cup Subscribers, Crash(x)
      PROVE  HelperShape'
  BY <1>1, <1>3 DEF Crash, header, ring, frame
<1>4. CASE UNCHANGED vars
  BY <1>1, <1>4 DEF vars
<1> QED
  BY <1>2, <1>3, <1>4, AdvanceStep DEF Next

(* Whatever is committed right after the prefix has a helper on its way to *)
(* it (bus.rs 448-460, 510-521), although helpers give up as soon as the   *)
(* message they look at is not there and may lose every exchange.          *)
THEOREM AdvanceInvariant == Spec => []AdvanceInv
<1>1. Init => AdvanceInv
  <2>1. Init => ~Committed(write_seq)
    BY CapAssumption DEF Init, Committed, Idx
  <2> QED
    BY <2>1, InitCore DEF AdvanceInv, HelperShape
<1> QED
  BY <1>1, NextAdvance, PTL DEF Spec

(* Once every call has returned, write_seq has caught up with the claims:  *)
(* the best-effort helping of concurrent publishers loses no advance.      *)
THEOREM AdvancesKept == Spec => []NoLostAdvance
<1>1. AdvanceInv => NoLostAdvance
  <2> SUFFICES ASSUME AdvanceInv, \A p \in Producers : pc[p] = "idle"
               PROVE  write_seq = claim_seq
    BY DEF NoLostAdvance
  <2>1. /\ write_seq \in Nat /\ claim_seq \in Nat /\ write_seq <= claim_seq
        /\ ~Committed(write_seq)
    BY DEF AdvanceInv, CoreInv, TypeOK, ContiguousPrefix, HelperShape
  <2>2. \A p \in Producers : ~Holds(p)
    BY DEF Holds
  <2>3. ~(write_seq \in 0..claim_seq-1)
    BY <2>1, <2>2 DEF AdvanceInv, CoreInv, NoOrphanClaim
  <2> QED
    BY <2>1, <2>3
<1> QED
  BY <1>1, AdvanceInvariant, PTL

-----------------------------------------------------------------------------
(* Monotonicity: cursors need the ids to be unique, and nothing else of    *)
(* what ReaderInv says, so this holds whoever joins when.                  *)

\* The part of ReaderInv that holds whenever anybody joins.
IdInv == CoreInv /\ IdShape

LEMMA NextIds == IdInv /\ [Next]_vars => IdInv'
<1> SUFFICES ASSUME IdInv, [Next]_vars PROVE IdShape'
  BY NextCore DEF IdInv
<1>0. TypeOK /\ TypeOK' /\ IdShape
  BY NextType DEF IdInv, CoreInv
<1>1. ASSUME UNCHANGED <<n_subs, sub_read_seq, spc, sub_id>>
      PROVE  IdShape'
  BY <1>0, <1>1 DEF IdShape, Enrolled, Cursor
<1>2. ASSUME NEW p \in Producers, Publish(p) \/ TryPublish(p) \/ ProducerStep(p)
      PROVE  IdShape'
  BY <1>1, <1>2, ProducerKeeps
<1>3. ASSUME NEW s \in Subscribers, Subscribe(s) \/ SubscriberStep(s)
      PROVE  IdShape'
  BY <1>0, <1>3, SubscriberIds
<1>4. ASSUME NEW x \in Producers \cup Subscribers, Crash(x)
      PROVE  IdShape'
  BY <1>1, <1>4 DEF Crash, header, reader
<1>5. CASE UNCHANGED vars
  BY <1>1, <1>5 DEF vars
<1> QED
  BY <1>2, <1>3, <1>4, <1>5 DEF Next

LEMMA CountersStep ==
  ASSUME IdInv, [Next]_vars
  PROVE  /\ write_seq' >= write_seq /\ claim_seq' >= claim_seq
         /\ \A j \in 0..MaxSubs-1 : sub_read_seq'[j] >= sub_read_seq[j]
         /\ \A k \in 0..Cap-1 : slot_seq'[k] >= slot_seq[k]
<1> DEFINE Grow == /\ write_seq' >= write_seq /\ claim_seq' >= claim_seq
                   /\ \A j \in 0..MaxSubs-1 : sub_read_seq'[j] >= sub_read_seq[j]
                   /\ \A k \in 0..Cap-1 : slot_seq'[k] >= slot_seq[k]
<1>0. /\ TypeOK /\ TypeOK' /\ IdShape /\ CoreInv /\ write_seq \in Nat /\ claim_seq \in Nat
      /\ sub_read_seq \in [0..MaxSubs-1 -> Nat] /\ slot_seq \in [0..Cap-1 -> Nat]
  BY NextType DEF IdInv, CoreInv, TypeOK
<1>1. ASSUME UNCHANGED header, UNCHANGED slot_seq PROVE Grow
  BY <1>0, <1>1 DEF header
<1>2. ASSUME NEW p \in Producers, Publish(p) \/ TryPublish(p) \/ ProducerStep(p)
      PROVE  Grow
  <2>1. sub_read_seq' = sub_read_seq
    BY <1>2, ProducerKeeps
  <2> QED
    BY <1>0, <1>2, <2>1, SlotsGrow
<1>3. ASSUME NEW s \in Subscribers, Subscribe(s) \/ SubscriberStep(s)
      PROVE  Grow
  <2>1. UNCHANGED <<write_seq, claim_seq, slot_seq>>
    BY <1>3, SubscriberKeeps
  <2> QED
    BY <1>0, <1>3, <2>1, SubscriberIds
<1>4. ASSUME NEW x \in Producers \cup Subscribers, Crash(x)
      PROVE  Grow
  BY <1>1, <1>4 DEF Crash, ring
<1>5. CASE UNCHANGED vars
  BY <1>1, <1>5 DEF vars, header
<1> QED
  BY <1>2, <1>3, <1>4, <1>5 DEF Next

(* No step of any thread, dying or not, takes a counter of the region back: *)
(* not the exchange of a slow helper, not a slot's store (bus.rs 447, 508), *)
(* not a cursor's (bus.rs 378, 573), also when subscribers join at any time *)
(* or are refused.                                                         *)
THEOREM CountersMonotone == Spec => CountersGrow
<1> DEFINE Grow == /\ write_seq' >= write_seq /\ claim_seq' >= claim_seq
                   /\ \A j \in 0..MaxSubs-1 : sub_read_seq'[j] >= sub_read_seq[j]
                   /\ \A k \in 0..Cap-1 : slot_seq'[k] >= slot_seq[k]
<1>1. Init => IdInv
  BY InitReader DEF ReaderInv, IdInv
<1>2. IdInv /\ [Next]_vars => IdInv'
  BY NextIds
<1>3. IdInv /\ [Next]_vars => [Grow]_vars
  BY CountersStep
<1>4. CountersGrow <=> [][Grow]_vars
  BY DEF CountersGrow
<1> HIDE DEF Grow
<1> QED
  BY <1>1, <1>2, <1>3, <1>4, PTL DEF Spec

-----------------------------------------------------------------------------
(* Payloads: OrderInv is inductive while nobody joins during a publish.    *)

LEMMA LogGrows ==
  ASSUME OrderInv, NEW p \in Producers, Publish(p) \/ TryPublish(p) \/ ProducerStep(p)
  PROVE  /\ log' \in Seq(Msgs) /\ Len(log) = claim_seq
         /\ \A c \in 1..claim_seq : log'[c] = log[c]
         /\ \/ log' = log /\ claim_seq' = claim_seq
            \/ \E m \in Msgs : log' = Append(log, m) /\ claim_seq' = claim_seq + 1
<1>0. log \in Seq(Msgs) /\ Len(log) = claim_seq /\ claim_seq \in Nat
  BY DEF OrderInv, FrameShape, ReaderInv, CoreInv, NoOrphanClaim, TypeOK
<1>1. ASSUME NEW m \in Msgs, log' = Append(log, m)
      PROVE  /\ log' \in Seq(Msgs) /\ \A c \in 1..claim_seq : log'[c] = log[c]
  BY <1>0, <1>1
<1>2. CASE Publish(p)
  BY <1>0, <1>1, <1>2, MsgAssumption DEF Publish, Call
<1>3. CASE Reserve(p)
  <2>1. msg[p] \in Msgs
    BY <1>3 DEF Reserve, At, OrderInv, FrameShape
  <2> QED
    BY <1>0, <1>1, <1>3, <2>1 DEF Reserve
<1>4. CASE ~(Publish(p) \/ Reserve(p))
  BY <1>0, <1>4 DEF TryPublish, Call, ProducerStep, LoadSubs, LoadWrite, ScanCursor,
       ScanPanic, Admit, Retry, Backpressured, ReserveLost, Copy, Commit, AdvLoad,
       AdvCheck, AdvDone, AdvCas, hist, header
<1> QED
  BY <1>2, <1>3, <1>4

LEMMA FrameStep ==
  ASSUME OrderInv, NEW p \in Producers, Publish(p) \/ TryPublish(p) \/ ProducerStep(p)
  PROVE  FrameShape'
<1>0. /\ TypeOK /\ FrameShape /\ ClaimShape /\ claim_seq \in Nat
      /\ pc \in [Producers -> PcLabels] /\ msg \in [Producers -> Msgs \cup {NoMsg}]
      /\ claim \in [Producers -> Nat] /\ mode \in [Producers -> {"idle", "publish", "try"}]
      /\ log \in Seq(Msgs) /\ Len(log) = claim_seq
  BY DEF OrderInv, ReaderInv, CoreInv, TypeOK, NoOrphanClaim, FrameShape
<1>1. log' \in Seq(Msgs) /\ \A c \in 1..claim_seq : log'[c] = log[c]
  BY LogGrows
<1>2. \A q \in Producers \ {p} :
        pc'[q] = pc[q] /\ mode'[q] = mode[q] /\ msg'[q] = msg[q] /\ claim'[q] = claim[q]
  BY <1>0, OthersStay
<1>3. \A q \in Producers : Holds(q) => claim[q] + 1 \in 1..claim_seq
  BY <1>0 DEF ClaimShape
<1>4. ASSUME NEW q \in Producers, q # p
      PROVE  /\ pc'[q] # "idle" => msg'[q] \in Msgs
             /\ Holds(q)' => msg'[q] = log'[claim'[q] + 1]
  BY <1>0, <1>1, <1>2, <1>3, <1>4 DEF FrameShape, Holds
<1> SUFFICES /\ pc'[p] # "idle" => msg'[p] \in Msgs
             /\ Holds(p)' => msg'[p] = log'[claim'[p] + 1]
  BY <1>1, <1>4 DEF FrameShape
<1>5. CASE Publish(p)
  <2>1. PICK m \in Outbox[p] : Call(p, m, "publish") /\ log' = Append(log, m)
    BY <1>5 DEF Publish
  <2>2. m \in Msgs /\ msg'[p] = m /\ claim'[p] = claim_seq
    BY <1>0, <2>1, MsgAssumption DEF Call
  <2>3. log'[claim_seq + 1] = m
    BY <1>0, <2>1, <2>2
  <2> QED
    BY <2>2, <2>3
<1>6. CASE TryPublish(p)
  <2>1. PICK m \in Outbox[p] : Call(p, m, "try")
    BY <1>6 DEF TryPublish
  <2>2. msg'[p] \in Msgs /\ mode'[p] = "try" /\ pc'[p] = "load_subs"
    BY <1>0, <2>1, MsgAssumption DEF Call, Goto
  <2> QED
    BY <2>2 DEF Holds
<1>7. CASE Reserve(p)
  <2>1. /\ log' = Append(log, msg[p]) /\ claim'[p] = claim_seq /\ msg'[p] = msg[p]
        /\ pc[p] = "cas"
    BY <1>7 DEF Reserve, At, frame
  <2>2. msg[p] \in Msgs
    BY <1>0, <2>1 DEF FrameShape
  <2>3. log'[claim_seq + 1] = msg[p]
    BY <1>0, <2>1, <2>2
  <2> QED
    BY <2>1, <2>2, <2>3
<1>8. CASE Backpressured(p) \/ ReserveLost(p) \/ AdvDone(p)
  <2>1. pc'[p] = "idle"
    BY <1>0, <1>8 DEF Backpressured, ReserveLost, AdvDone, Return, Goto
  <2> QED
    BY <2>1 DEF Holds
<1>9. CASE \/ LoadSubs(p) \/ LoadWrite(p) \/ ScanCursor(p) \/ ScanPanic(p) \/ Admit(p)
           \/ Retry(p) \/ Copy(p) \/ Commit(p) \/ AdvLoad(p) \/ AdvCheck(p) \/ AdvCas(p)
  <2>1. pc[p] # "idle" /\ msg'[p] = msg[p] /\ claim'[p] = claim[p] /\ mode'[p] = mode[p]
    BY <1>9 DEF LoadSubs, LoadWrite, ScanCursor, ScanPanic, Admit, Retry, Copy, Commit,
         AdvLoad, AdvCheck, AdvCas, At, frame
  <2>2. Holds(p)' => Holds(p)
    BY <1>0, <1>9, <2>1 DEF LoadSubs, LoadWrite, ScanCursor, ScanPanic, Admit, Retry, Copy,
         Commit, AdvLoad, AdvCheck, AdvCas, At, Goto, Holds
  <2> QED
    BY <1>0, <1>1, <1>3, <2>1, <2>2 DEF FrameShape
<1> QED
  BY <1>5, <1>6, <1>7, <1>8, <1>9 DEF ProducerStep

LEMMA ContentsStep ==
  ASSUME OrderInv, NEW p \in Producers,
         Publish(p) \/ TryPublish(p) \/ ProducerStep(p)
  PROVE  SlotContents'
<1>0. /\ TypeOK /\ FrameShape /\ ClaimShape /\ SlotShape /\ SlotContents /\ SlotExclusive
      /\ claim_seq \in Nat /\ claim \in [Producers -> Nat]
      /\ pc \in [Producers -> PcLabels] /\ slot_seq \in [0..Cap-1 -> Nat]
      /\ slot_msg \in [0..Cap-1 -> Msgs \cup {NoMsg}]
  BY CoreExclusive DEF OrderInv, ReaderInv, CoreInv, TypeOK
<1>1. /\ \A c \in 1..claim_seq : log'[c] = log[c]
      /\ claim_seq' \in {claim_seq, claim_seq + 1}
  BY LogGrows
<1>2. \A q \in Producers \ {p} : pc'[q] = pc[q] /\ claim'[q] = claim[q]
  BY <1>0, OthersStay
<1>3. \A q \in Producers : pc[q] = "store" =>
        /\ claim[q] + 1 \in 1..claim_seq /\ Idx(claim[q]) \in 0..Cap-1
        /\ slot_msg[Idx(claim[q])] = log[claim[q] + 1]
  <2> SUFFICES ASSUME NEW q \in Producers, pc[q] = "store"
               PROVE  /\ claim[q] + 1 \in 1..claim_seq /\ Idx(claim[q]) \in 0..Cap-1
                      /\ slot_msg[Idx(claim[q])] = log[claim[q] + 1]
    OBVIOUS
  <2>1. Holds(q) /\ claim[q] \in Nat
    BY <1>0 DEF Holds
  <2>2. claim[q] < claim_seq
    BY <1>0, <2>1 DEF ClaimShape
  <2>3. claim[q] + 1 \in 1..claim_seq
    BY <1>0, <2>1, <2>2
  <2>4. slot_msg[Idx(claim[q])] = log[claim[q] + 1]
    BY <1>0 DEF SlotContents
  <2> QED
    BY <2>1, <2>3, <2>4, IdxType
<1>4. CASE Copy(p)
  <2> DEFINE k == Idx(claim[p])
  <2>1. /\ pc[p] = "copy" /\ pc'[p] = "store" /\ UNCHANGED <<claim, claim_seq, slot_seq, log>>
        /\ slot_msg' = [slot_msg EXCEPT ![k] = msg[p]]
    BY <1>0, <1>4 DEF Copy, At, Goto, frame, header, hist
  <2>2. k \in 0..Cap-1 /\ msg[p] = log[claim[p] + 1]
    BY <1>0, <2>1, IdxType DEF FrameShape, Holds
  <2>3. \A q \in Producers : q # p /\ pc[q] = "store" => Idx(claim[q]) # k
    BY <1>0, <2>1 DEF SlotExclusive, Writing
  <2>4. slot_msg'[k] = log[claim[p] + 1] /\ \A j \in 0..Cap-1 : j # k => slot_msg'[j] = slot_msg[j]
    BY <1>0, <2>1, <2>2
  <2> HIDE DEF k
  <2>5. ASSUME NEW q \in Producers, pc'[q] = "store"
        PROVE  slot_msg'[Idx(claim'[q])] = log'[claim'[q] + 1]
    BY <1>2, <1>3, <2>1, <2>3, <2>4, <2>5 DEF k
  <2>6. ASSUME NEW c \in 0..claim_seq'-1, IsCommitted(c)',
               \A q \in Producers : pc'[q] = "store" => Idx(claim'[q]) # Idx(c)
        PROVE  slot_msg'[Idx(c)] = log'[c + 1]
    <3>1. Idx(c) # k /\ Idx(c) \in 0..Cap-1 /\ IsCommitted(c)
      <4>1. c \in Nat /\ IsCommitted(c)
        BY <1>0, <2>1, <2>6 DEF IsCommitted
      <4>2. Idx(c) # k
        BY <2>1, <2>6 DEF k
      <4> QED
        BY <4>1, <4>2, IdxType
    <3>2. \A q \in Producers : pc[q] = "store" => Idx(claim[q]) # Idx(c)
      BY <1>2, <2>1, <2>6
    <3> QED
      BY <1>0, <2>1, <2>4, <2>6, <3>1, <3>2 DEF SlotContents
  <2> QED
    BY <2>5, <2>6 DEF SlotContents
<1>5. CASE Commit(p)
  <2> DEFINE k == Idx(claim[p])
  <2>1. /\ pc[p] = "store" /\ pc'[p] # "store" /\ UNCHANGED <<claim, claim_seq, slot_msg, log>>
        /\ slot_seq' = [slot_seq EXCEPT ![k] = claim[p] + 1]
    BY <1>0, <1>5 DEF Commit, At, Goto, frame, header, hist
  <2>2. k \in 0..Cap-1 /\ slot_msg[k] = log[claim[p] + 1]
    BY <1>3, <2>1
  <2>3. slot_seq'[k] = claim[p] + 1 /\ \A j \in 0..Cap-1 : j # k => slot_seq'[j] = slot_seq[j]
    BY <1>0, <2>1, <2>2
  <2> HIDE DEF k
  <2>4. ASSUME NEW q \in Producers, pc'[q] = "store"
        PROVE  slot_msg'[Idx(claim'[q])] = log'[claim'[q] + 1]
    BY <1>2, <1>3, <2>1, <2>4
  <2>5. ASSUME NEW c \in 0..claim_seq'-1, IsCommitted(c)',
               \A q \in Producers : pc'[q] = "store" => Idx(claim'[q]) # Idx(c)
        PROVE  slot_msg'[Idx(c)] = log'[c + 1]
    <3>1. c \in Nat /\ c \in 0..claim_seq-1 /\ Idx(c) \in 0..Cap-1 /\ slot_seq'[Idx(c)] = c + 1
      BY <1>0, <2>1, <2>5, IdxType DEF IsCommitted
    <3>2. CASE Idx(c) = k
      <4>1. c = claim[p]
        BY <1>0, <2>3, <3>1, <3>2
      <4> QED
        BY <2>1, <2>2, <3>2, <4>1
    <3>3. CASE Idx(c) # k
      <4>1. IsCommitted(c)
        BY <2>3, <3>1, <3>3 DEF IsCommitted
      <4>2. \A q \in Producers : pc[q] = "store" => Idx(claim[q]) # Idx(c)
        BY <1>2, <2>1, <2>5, <3>3 DEF k
      <4> QED
        BY <1>0, <2>1, <3>1, <4>1, <4>2 DEF SlotContents
    <3> QED
      BY <3>2, <3>3
  <2> QED
    BY <2>4, <2>5 DEF SlotContents
<1>6. CASE ~(Copy(p) \/ Commit(p))
  <2>1. pc[p] # "store" /\ pc'[p] # "store" /\ UNCHANGED <<slot_seq, slot_msg>>
    BY <1>0, <1>6 DEF Publish, TryPublish, Call, ProducerStep, LoadSubs, LoadWrite,
         ScanCursor, ScanPanic, Admit, Retry, Backpressured, Reserve, ReserveLost, AdvLoad,
         AdvCheck, AdvDone, AdvCas, Return, At, Goto, ring
  <2>2. \A q \in Producers : (pc'[q] = "store") <=> (pc[q] = "store")
    BY <1>2, <2>1
  <2>3. \A q \in Producers : pc[q] = "store" => claim'[q] = claim[q]
    BY <1>2, <2>1
  <2>4. ASSUME NEW c \in 0..claim_seq'-1, IsCommitted(c)',
               \A q \in Producers : pc'[q] = "store" => Idx(claim'[q]) # Idx(c)
        PROVE  slot_msg'[Idx(c)] = log'[c + 1]
    <3>1. c \in Nat /\ Idx(c) \in 0..Cap-1 /\ IsCommitted(c) /\ slot_seq[Idx(c)] = c + 1
      BY <1>0, <1>1, <2>1, <2>4, IdxType DEF IsCommitted
    <3>2. c \in 0..claim_seq-1
      BY <1>0, <3>1 DEF SlotShape
    <3>3. slot_msg[Idx(c)] = log[c + 1]
      BY <1>0, <2>2, <2>3, <2>4, <3>1, <3>2 DEF SlotContents
    <3> QED
      BY <1>0, <1>1, <2>1, <3>2, <3>3
  <2>5. ASSUME NEW q \in Producers, pc'[q] = "store"
        PROVE  slot_msg'[Idx(claim'[q])] = log'[claim'[q] + 1]
    BY <1>1, <1>3, <2>1, <2>2, <2>3, <2>5
  <2> QED
    BY <2>4, <2>5 DEF SlotContents
<1> QED
  BY <1>4, <1>5, <1>6

\* The message a subscriber copies, or has copied, is its next one and is there.
LEMMA CopiesNext ==
  ASSUME OrderInv, NEW s \in Subscribers, spc[s] \in {"copying", "advance"}
  PROVE  /\ IsCommitted(Cursor(s)) /\ Cursor(s) \in 0..claim_seq-1
         /\ slot_msg[Idx(Cursor(s))] = log[Cursor(s) + 1]
<1> DEFINE c == Cursor(s)
<1>0. /\ SlotShape /\ LapShape /\ CopyShape /\ SlotContents /\ ReaderUndisturbed
      /\ slot_seq \in [0..Cap-1 -> Nat] /\ claim_seq \in Nat
  BY ReaderAlone DEF OrderInv, ReaderInv, CoreInv, TypeOK
<1>1. c \in Nat /\ Started(s) /\ Position(s) = c
  BY DEF OrderInv, ReaderInv, CoreInv, TypeOK, Cursor, Enrolled, Started, Joined, Position
<1>2. Committed(c) /\ slot_seq[Idx(c)] <= c + Cap
  BY <1>0, <1>1, IdxType DEF CopyShape, LapShape
<1>3. IsCommitted(c)
  BY <1>0, <1>1, <1>2, OwnLap
<1>4. c \in 0..claim_seq-1
  <2>1. slot_seq[Idx(c)] <= claim_seq /\ slot_seq[Idx(c)] = c + 1
    BY <1>0, <1>1, <1>3, IdxType DEF SlotShape, IsCommitted
  <2> QED
    BY <1>0, <1>1, <2>1
<1>5. \A q \in Producers : pc[q] = "store" => Idx(claim[q]) # Idx(c)
  BY <1>0 DEF ReaderUndisturbed, Writing
<1> QED
  BY <1>0, <1>3, <1>4, <1>5 DEF SlotContents

LEMMA DeliveryKept ==
  ASSUME OrderInv, NEW p \in Producers, Publish(p) \/ TryPublish(p) \/ ProducerStep(p)
  PROVE  DeliveryShape'
<1>0. DeliveryShape /\ claim_seq \in Nat
  BY DEF OrderInv, ReaderInv, CoreInv, TypeOK
<1>1. UNCHANGED <<sub_read_seq, spc, sub_id, start, out, delivered>>
  BY DEF Publish, TryPublish, Call, ProducerStep, LoadSubs, LoadWrite, ScanCursor,
       ScanPanic, Admit, Retry, Backpressured, Reserve, ReserveLost, Copy, Commit,
       AdvLoad, AdvCheck, AdvDone, AdvCas, header, reader, hist
<1>2. /\ \A c \in 1..claim_seq : log'[c] = log[c]
      /\ claim_seq' \in Nat /\ claim_seq <= claim_seq'
  <2>1. claim_seq' \in {claim_seq, claim_seq + 1}
    BY LogGrows
  <2> QED
    BY <1>0, <2>1, LogGrows
<1> SUFFICES ASSUME NEW s \in Subscribers
             PROVE  /\ start[s] <= claim_seq'
                    /\ spc[s] = "advance" => out[s] = log'[Cursor(s) + 1]
                    /\ ~Joined(s) => delivered[s] = <<>>
                    /\ Joined(s) => /\ start[s] + Len(delivered[s]) = Cursor(s)
                                    /\ Cursor(s) <= claim_seq'
                    /\ \A j \in 1..Len(delivered[s]) : delivered[s][j] = log'[start[s] + j]
  BY <1>1 DEF DeliveryShape, Joined, Cursor
<1>3. /\ start[s] \in Nat /\ Len(delivered[s]) \in Nat
      /\ Joined(s) => Cursor(s) \in Nat
  <2>1. /\ start \in [Subscribers -> Nat] /\ sub_read_seq \in [0..MaxSubs-1 -> Nat]
        /\ delivered \in [Subscribers -> Seq(Msgs \cup {NoMsg})]
        /\ Enrolled(s) => sub_id[s] \in 0..MaxSubs-1
    BY DEF OrderInv, ReaderInv, CoreInv, TypeOK
  <2>2. delivered[s] \in Seq(Msgs \cup {NoMsg})
    BY <2>1
  <2>3. Joined(s) => Cursor(s) \in Nat
    BY <2>1 DEF Joined, Enrolled, Cursor
  <2> QED
    BY <2>1, <2>2, <2>3
<1>4. start[s] <= claim_seq' /\ (Joined(s) => Cursor(s) <= claim_seq')
  <2>1. start[s] <= claim_seq /\ (Joined(s) => Cursor(s) <= claim_seq)
    BY <1>0 DEF DeliveryShape
  <2> QED
    BY <1>0, <1>2, <1>3, <2>1
<1>5. ASSUME spc[s] = "advance" PROVE out[s] = log'[Cursor(s) + 1]
  <2>1. Cursor(s) \in 0..claim_seq-1 /\ out[s] = log[Cursor(s) + 1]
    BY <1>0, <1>5, CopiesNext DEF DeliveryShape
  <2>2. Cursor(s) + 1 \in 1..claim_seq
    BY <1>0, <2>1
  <2> QED
    BY <1>2, <2>1, <2>2
<1>6. ASSUME NEW j \in 1..Len(delivered[s]) PROVE delivered[s][j] = log'[start[s] + j]
  <2>1. Joined(s)
    BY <1>0, <1>3, <1>6 DEF DeliveryShape
  <2>2. start[s] + Len(delivered[s]) <= claim_seq
    BY <1>0, <2>1 DEF DeliveryShape
  <2>3. start[s] + j \in 1..claim_seq
    BY <1>0, <1>3, <2>2
  <2>4. delivered[s][j] = log[start[s] + j]
    BY <1>0 DEF DeliveryShape
  <2> QED
    BY <1>2, <2>3, <2>4
<1> QED
  BY <1>0, <1>4, <1>5, <1>6 DEF DeliveryShape

LEMMA DeliveryStep ==
  ASSUME OrderInv, TypeOK', NEW s \in Subscribers, Subscribe(s) \/ SubscriberStep(s)
  PROVE  DeliveryShape'
<1>0. /\ TypeOK /\ IdShape /\ DeliveryShape /\ write_seq \in Nat /\ claim_seq \in Nat
      /\ write_seq <= claim_seq /\ sub_read_seq \in [0..MaxSubs-1 -> Nat]
      /\ spc \in [Subscribers -> SpcLabels] /\ sub_id \in [Subscribers -> Nat]
      /\ start \in [Subscribers -> Nat] /\ out \in [Subscribers -> Msgs \cup {NoMsg}]
      /\ delivered \in [Subscribers -> Seq(Msgs \cup {NoMsg})]
      /\ \A r \in Subscribers : Enrolled(r) => sub_id[r] \in 0..MaxSubs-1
  BY DEF OrderInv, ReaderInv, CoreInv, TypeOK, ContiguousPrefix
<1>1. UNCHANGED <<log, claim_seq>>
  BY DEF Subscribe, SubscriberStep, JoinLoad, JoinStore, Poll, CopyOut, CopyTooLarge,
       Advance, header, hist
<1> DEFINE Shape(t) ==
      /\ start[t] <= claim_seq
      /\ spc[t] = "advance" => out[t] = log[Cursor(t) + 1]
      /\ ~Joined(t) => delivered[t] = <<>>
      /\ Joined(t) => /\ start[t] + Len(delivered[t]) = Cursor(t)
                      /\ Cursor(t) <= claim_seq
      /\ \A j \in 1..Len(delivered[t]) : delivered[t][j] = log[start[t] + j]
<1>2. ASSUME NEW t \in Subscribers, t # s PROVE Shape(t)'
  <2>1. /\ spc'[t] = spc[t] /\ start'[t] = start[t]
        /\ Joined(t) => Cursor(t)' = Cursor(t)
    BY <1>0, <1>2, OtherSubscriber DEF Joined, Enrolled
  <2>2. out'[t] = out[t] /\ delivered'[t] = delivered[t]
    BY <1>0, <1>2 DEF Subscribe, SubscriberStep, JoinLoad, JoinStore, Poll, CopyOut,
         CopyTooLarge, Advance, hist
  <2>3. Shape(t)
    BY <1>0 DEF DeliveryShape
  <2> QED
    BY <1>1, <2>1, <2>2, <2>3 DEF Joined
<1>3. SUFFICES Shape(s)'
  <2>1. \A t \in Subscribers : Shape(t)'
    BY <1>2, <1>3
  <2> QED
    BY <2>1 DEF DeliveryShape
<1>4. Shape(s)
  BY <1>0 DEF DeliveryShape
<1>5. CASE Subscribe(s)
  <2>1. /\ spc[s] = "new" /\ spc'[s] \in {"join_load", "refused"}
        /\ UNCHANGED <<start, delivered>>
    BY <1>0, <1>5 DEF Subscribe, SAt, SGoto, hist
  <2> QED
    BY <1>1, <1>4, <2>1 DEF Joined
<1>6. CASE JoinLoad(s)
  <2>1. /\ spc[s] = "join_load" /\ spc'[s] = "join_store" /\ start'[s] = write_seq
        /\ delivered' = delivered
    BY <1>0, <1>6 DEF JoinLoad, SAt, SGoto, hist
  <2>2. delivered'[s] = <<>> /\ Len(<<>>) = 0
    BY <1>4, <2>1 DEF Joined
  <2> QED
    BY <1>0, <1>1, <2>1, <2>2 DEF Joined
<1>7. CASE JoinStore(s)
  <2>1. /\ spc[s] = "join_store" /\ spc'[s] = "ready" /\ sub_id' = sub_id /\ start' = start
        /\ delivered' = delivered /\ sub_read_seq' = [sub_read_seq EXCEPT ![sub_id[s]] = start[s]]
    BY <1>0, <1>7 DEF JoinStore, SAt, SGoto, hist
  <2>2. sub_id[s] \in 0..MaxSubs-1 /\ start[s] \in Nat
    BY <1>0, <2>1 DEF Enrolled
  <2>3. Cursor(s)' = start[s]
    BY <1>0, <2>1, <2>2 DEF Cursor
  <2>4. delivered'[s] = <<>> /\ Len(<<>>) = 0
    BY <1>4, <2>1 DEF Joined
  <2> QED
    BY <1>1, <1>4, <2>1, <2>2, <2>3, <2>4 DEF Joined
<1>8. CASE Poll(s) \/ CopyTooLarge(s)
  <2>1. /\ Joined(s) /\ Joined(s)' /\ spc'[s] # "advance"
        /\ UNCHANGED <<sub_id, start, delivered, sub_read_seq>>
    BY <1>0, <1>8 DEF Poll, CopyTooLarge, SAt, SGoto, Joined, header, hist
  <2> QED
    BY <1>1, <1>4, <2>1 DEF Cursor
<1>9. CASE CopyOut(s)
  <2>1. /\ spc[s] = "copying" /\ Joined(s) /\ Joined(s)'
        /\ UNCHANGED <<sub_id, start, delivered, sub_read_seq>>
        /\ out'[s] = slot_msg[Idx(Cursor(s))]
    BY <1>0, <1>9 DEF CopyOut, SAt, SGoto, Joined, header, hist
  <2>2. slot_msg[Idx(Cursor(s))] = log[Cursor(s) + 1]
    BY <2>1, CopiesNext
  <2> QED
    BY <1>1, <1>4, <2>1, <2>2 DEF Cursor
<1>10. CASE Advance(s)
  <2>1. /\ spc[s] = "advance" /\ spc'[s] = "ready" /\ sub_id' = sub_id /\ start' = start
        /\ sub_read_seq' = [sub_read_seq EXCEPT ![sub_id[s]] = @ + 1]
        /\ delivered'[s] = Append(delivered[s], out[s])
    BY <1>0, <1>10 DEF Advance, SAt, SGoto
  <2>2. sub_id[s] \in 0..MaxSubs-1 /\ Joined(s)
    BY <1>0, <2>1 DEF Enrolled, Joined
  <2>3. Cursor(s)' = Cursor(s) + 1 /\ Cursor(s) \in Nat
    BY <1>0, <2>1, <2>2 DEF Cursor
  <2>4. Cursor(s) + 1 <= claim_seq /\ out[s] = log[Cursor(s) + 1]
    BY <1>0, <1>4, <2>1, <2>3, CopiesNext
  <2>5. /\ delivered[s] \in Seq(Msgs \cup {NoMsg}) /\ out[s] \in Msgs \cup {NoMsg}
        /\ start[s] \in Nat /\ start[s] + Len(delivered[s]) = Cursor(s)
    BY <1>0, <1>4, <2>2
  <2>6. /\ Len(delivered'[s]) = Len(delivered[s]) + 1
        /\ \A j \in 1..Len(delivered[s]) : delivered'[s][j] = delivered[s][j]
        /\ delivered'[s][Len(delivered[s]) + 1] = out[s]
    BY <2>1, <2>5
  <2>7. ASSUME NEW j \in 1..Len(delivered'[s]) PROVE delivered'[s][j] = log[start[s] + j]
    <3>1. CASE j \in 1..Len(delivered[s])
      BY <1>4, <2>6, <3>1
    <3>2. CASE j = Len(delivered[s]) + 1
      <4>1. start[s] + j = Cursor(s) + 1
        BY <2>5, <3>2
      <4> QED
        BY <2>4, <2>6, <3>2, <4>1
    <3>3. Len(delivered[s]) \in Nat
      BY <2>5
    <3> QED
      BY <2>6, <3>1, <3>2, <3>3
  <2>8. start[s] + Len(delivered'[s]) = Cursor(s) + 1
    BY <2>5, <2>6
  <2>9. Joined(s)' /\ spc'[s] # "advance"
    BY <2>1 DEF Joined
  <2> QED
    BY <1>1, <1>4, <2>1, <2>3, <2>4, <2>7, <2>8, <2>9
<1> QED
  BY <1>5, <1>6, <1>7, <1>8, <1>9, <1>10 DEF SubscriberStep

LEMMA NextOrder ==
  ASSUME JoinAnytime = FALSE, OrderInv, [Next]_vars
  PROVE  OrderInv'
<1>0. /\ ReaderInv /\ FrameShape /\ SlotContents /\ DeliveryShape
      /\ ReaderInv' /\ TypeOK'
  BY NextReader DEF OrderInv, ReaderInv, CoreInv
<1>1. ASSUME NEW p \in Producers, Publish(p) \/ TryPublish(p) \/ ProducerStep(p)
      PROVE  OrderInv'
  BY <1>0, <1>1, FrameStep, ContentsStep, DeliveryKept DEF OrderInv
<1>2. ASSUME UNCHANGED <<pc, mode, msg, claim, claim_seq, slot_seq, slot_msg, log>>
      PROVE  FrameShape' /\ SlotContents'
  BY <1>0, <1>2 DEF FrameShape, SlotContents, Holds, IsCommitted
<1>3. ASSUME UNCHANGED <<claim_seq, sub_read_seq, spc, sub_id, start, out, log, delivered>>
      PROVE  DeliveryShape'
  BY <1>0, <1>3 DEF DeliveryShape, Joined, Cursor
<1>4. ASSUME NEW s \in Subscribers, Subscribe(s) \/ SubscriberStep(s)
      PROVE  OrderInv'
  <2>1. UNCHANGED <<pc, mode, msg, claim, claim_seq, slot_seq, slot_msg, log>>
    BY <1>4 DEF Subscribe, SubscriberStep, JoinLoad, JoinStore, Poll, CopyOut,
         CopyTooLarge, Advance, header, ring, frame, hist
  <2> QED
    BY <1>0, <1>2, <1>4, <2>1, DeliveryStep DEF OrderInv
<1>5. ASSUME NEW x \in Producers \cup Subscribers, Crash(x)
      PROVE  OrderInv'
  BY <1>0, <1>2, <1>3, <1>5 DEF OrderInv, Crash, header, ring, frame, reader, hist
<1>6. CASE UNCHANGED vars
  BY <1>0, <1>2, <1>3, <1>6 DEF OrderInv, vars
<1> QED
  BY <1>1, <1>4, <1>5, <1>6 DEF Next

LEMMA InitOrder == Init => OrderInv
<1> SUFFICES ASSUME Init PROVE OrderInv
  OBVIOUS
<1>1. ReaderInv
  BY InitReader
<1>2. FrameShape
  BY DEF Init, FrameShape, Holds
<1>3. SlotContents
  BY CapAssumption DEF Init, SlotContents
<1>4. DeliveryShape
  BY DEF Init, DeliveryShape, Joined
<1> QED
  BY <1>1, <1>2, <1>3, <1>4 DEF OrderInv

(* Which payload is where: a claim's holder, its slot once committed, and   *)
(* whoever is copying it out all have the claim's own payload, and what a  *)
(* subscriber has been given ends where its cursor stands.                 *)
THEOREM OrderInvariant ==
  ASSUME JoinAnytime = FALSE
  PROVE  Spec => []OrderInv
<1>1. Init => OrderInv
  BY InitOrder
<1>2. OrderInv /\ [Next]_vars => OrderInv'
  BY NextOrder
<1> QED
  BY <1>1, <1>2, PTL DEF Spec

(* Fan-out: each subscriber has been given the payloads of consecutive     *)
(* claims from the one it joined at, none lost, repeated, reordered or     *)
(* mixed, for any number of producers and subscribers (bus.rs 555-577).    *)
THEOREM DeliveryCorrect ==
  ASSUME JoinAnytime = FALSE
  PROVE  Spec => []InOrderDelivery
<1>1. OrderInv => InOrderDelivery
  <2> SUFFICES ASSUME OrderInv, NEW s \in Subscribers
               PROVE  /\ start[s] + Len(delivered[s]) <= Len(log)
                      /\ delivered[s] = SubSeq(log, start[s] + 1, start[s] + Len(delivered[s]))
    BY DEF InOrderDelivery
  <2> DEFINE d == delivered[s]
             a == start[s]
             e == SubSeq(log, a + 1, a + Len(d))
  <2>1. /\ d \in Seq(Msgs \cup {NoMsg}) /\ a \in Nat /\ Len(d) \in Nat
        /\ log \in Seq(Msgs) /\ Len(log) = claim_seq /\ claim_seq \in Nat
    BY DEF OrderInv, ReaderInv, CoreInv, TypeOK, NoOrphanClaim, FrameShape
  <2>2. /\ a <= claim_seq /\ (~Joined(s) => d = <<>>)
        /\ Joined(s) => a + Len(d) = Cursor(s) /\ Cursor(s) <= claim_seq
        /\ \A j \in 1..Len(d) : d[j] = log[a + j]
    BY DEF OrderInv, DeliveryShape
  <2>3. a + Len(d) <= Len(log)
    <3>1. CASE Joined(s)
      BY <2>1, <2>2, <3>1
    <3>2. CASE ~Joined(s)
      <4>1. Len(d) = 0
        BY <2>2, <3>2
      <4> QED
        BY <2>1, <2>2, <4>1
    <3> QED
      BY <3>1, <3>2
  <2> HIDE DEF d, a
  <2>4. /\ e \in Seq(Msgs) /\ Len(e) = Len(d)
        /\ \A j \in 1..Len(d) : e[j] = log[a + j]
    BY <2>1, <2>3
  <2>5. d = e
    BY <2>1, <2>2, <2>4
  <2> QED
    BY <2>3, <2>5 DEF d, a
<1>2. Spec => []OrderInv
  BY OrderInvariant
<1> QED
  BY <1>1, <1>2, PTL

-----------------------------------------------------------------------------
(* Refinement: every step of the ring is one of FanoutLog, or none.        *)

LEMMA SeqOfFunction ==
  ASSUME NEW S, NEW N \in Nat, NEW f \in [1..N -> S]
  PROVE  f \in Seq(S)
OBVIOUS

LEMMA AbsEntries ==
  ASSUME OrderInv
  PROVE  /\ absEntries \in Seq([msg : Msgs, done : BOOLEAN])
         /\ Len(absEntries) = claim_seq /\ DOMAIN absEntries = 1..claim_seq
         /\ claim_seq \in Nat /\ Len(log) = claim_seq
         /\ \A c \in 1..claim_seq : /\ absEntries[c].msg = log[c]
                                   /\ absEntries[c].done = Committed(c - 1)
<1>1. log \in Seq(Msgs) /\ Len(log) = claim_seq /\ claim_seq \in Nat
  BY DEF OrderInv, FrameShape, ReaderInv, CoreInv, NoOrphanClaim, TypeOK
<1>2. \A c \in 1..claim_seq : [msg |-> log[c], done |-> Committed(c - 1)] \in [msg : Msgs, done : BOOLEAN]
  BY <1>1 DEF Committed
<1>3. absEntries \in [1..claim_seq -> [msg : Msgs, done : BOOLEAN]]
  BY <1>1, <1>2 DEF absEntries
<1>4. DOMAIN absEntries = 1..claim_seq
  BY <1>3
<1>5. absEntries \in Seq([msg : Msgs, done : BOOLEAN])
  BY <1>1, <1>3, SeqOfFunction
<1>6. Len(absEntries) = claim_seq
  BY <1>1, <1>4, <1>5
<1>7. \A c \in 1..claim_seq : /\ absEntries[c].msg = log[c]
                            /\ absEntries[c].done = Committed(c - 1)
  BY <1>1 DEF absEntries
<1> QED
  BY <1>1, <1>4, <1>5, <1>6, <1>7

LEMMA PublishAbs ==
  ASSUME OrderInv, OrderInv', NEW m \in Msgs, log' = Append(log, m),
         claim_seq' = claim_seq + 1, UNCHANGED <<slot_seq, sub_read_seq, spc, sub_id, start, delivered>>
  PROVE  Fanout!Claim
<1>1. /\ absEntries \in Seq([msg : Msgs, done : BOOLEAN]) /\ Len(absEntries) = claim_seq
      /\ claim_seq \in Nat /\ Len(log) = claim_seq /\ log \in Seq(Msgs)
  BY AbsEntries DEF OrderInv, FrameShape
<1>2. ~Committed(claim_seq)
  <2>1. slot_seq[Idx(claim_seq)] <= claim_seq /\ slot_seq[Idx(claim_seq)] \in Nat
    BY <1>1, IdxType DEF OrderInv, ReaderInv, CoreInv, SlotShape, TypeOK
  <2> QED
    BY <1>1, <2>1 DEF Committed
<1> DEFINE new == [msg |-> m, done |-> FALSE]
           ext == Append(absEntries, new)
<1>3. /\ ext \in Seq([msg : Msgs, done : BOOLEAN]) /\ DOMAIN ext = 1..claim_seq+1
      /\ \A c \in 1..claim_seq : ext[c] = absEntries[c]
      /\ ext[claim_seq + 1] = new
  BY <1>1
<1>4. /\ DOMAIN log' = 1..claim_seq+1 /\ Len(log') = claim_seq + 1
      /\ \A c \in 1..claim_seq : log'[c] = log[c]
      /\ log'[claim_seq + 1] = m
  BY <1>1
<1>5. /\ absEntries' = [c \in 1..claim_seq+1 |-> [msg |-> log'[c], done |-> Committed(c - 1)]]
      /\ absEntries = [c \in 1..claim_seq |-> [msg |-> log[c], done |-> Committed(c - 1)]]
  BY <1>1, <1>4 DEF absEntries, Committed
<1>6. ASSUME NEW c \in 1..claim_seq+1
      PROVE  [msg |-> log'[c], done |-> Committed(c - 1)] = ext[c]
  <2>1. CASE c \in 1..claim_seq
    BY <1>3, <1>4, <1>5, <2>1
  <2>2. CASE c = claim_seq + 1
    <3>1. c - 1 = claim_seq
      BY <1>1, <2>2
    <3>2. Committed(c - 1) = FALSE
      BY <1>2, <3>1 DEF Committed
    <3> QED
      BY <1>3, <1>4, <2>2, <3>2
  <2> QED
    BY <1>1, <2>1, <2>2
<1> HIDE DEF ext
<1>7. absEntries' = ext
  <2>1. ext = [c \in 1..claim_seq+1 |-> ext[c]]
    BY <1>3
  <2> QED
    BY <1>5, <1>6, <2>1
<1>8. absPos' = absPos
  BY DEF absPos, Started, Joined, Position, Cursor
<1> QED
  BY <1>7, <1>8 DEF Fanout!Claim, ext

LEMMA SetDone ==
  ASSUME NEW m, NEW x, NEW y
  PROVE  [[msg |-> m, done |-> x] EXCEPT !.done = y] = [msg |-> m, done |-> y]
BY Z3

LEMMA CommitAbs ==
  ASSUME OrderInv, NEW p \in Producers, Commit(p)
  PROVE  Fanout!Complete
<1> DEFINE d == claim[p]
           k == Idx(d)
<1>0. /\ TypeOK /\ SlotShape /\ ContiguousPrefix /\ LapShape
      /\ slot_seq \in [0..Cap-1 -> Nat] /\ write_seq \in Nat
  BY DEF OrderInv, ReaderInv, CoreInv, TypeOK
<1>1. /\ pc[p] = "store" /\ UNCHANGED <<claim_seq, log, delivered, sub_read_seq, spc, sub_id, start>>
      /\ slot_seq' = [slot_seq EXCEPT ![k] = d + 1]
  BY DEF Commit, At, header, hist, reader
<1>2. Holds(p) /\ Admitted(p) /\ d \in Nat
  BY <1>0, <1>1 DEF Holds, Admitted, Writing, TypeOK
<1>3. /\ d < claim_seq /\ slot_seq[k] <= d /\ d < write_seq + Cap
  BY <1>2 DEF OrderInv, ReaderInv, CoreInv, ClaimShape, ScanShape
<1>4. k \in 0..Cap-1
  BY <1>2, IdxType
<1>5. \A j \in 0..Cap-1 : slot_seq'[j] = IF j = k THEN d + 1 ELSE slot_seq[j]
  BY <1>0, <1>1, <1>4
<1> HIDE DEF d, k
<1>6. ASSUME NEW c \in Nat PROVE Committed(c)' <=> Committed(c) \/ c = d
  <2>1. Idx(c) \in 0..Cap-1 /\ slot_seq[Idx(c)] \in Nat
    BY <1>0, IdxType
  <2>2. CASE Idx(c) # k
    BY <1>5, <2>1, <2>2 DEF Committed, k
  <2>3. CASE Idx(c) = k /\ c >= d
    BY <1>2, <1>3, <1>5, <2>1, <2>3 DEF Committed
  <2>4. CASE Idx(c) = k /\ c < d
    <3>1. c + Cap <= d
      BY <1>2, <2>4, SameSlot DEF k
    <3>2. c \in 0..write_seq-1
      BY <1>0, <1>2, <1>3, <3>1, CapAssumption
    <3>3. Committed(c)
      BY <1>0, <3>2 DEF ContiguousPrefix
    <3> QED
      BY <1>2, <1>5, <2>1, <2>4, <3>3 DEF Committed
  <2> QED
    BY <1>2, <2>2, <2>3, <2>4
<1>7. ~Committed(d)
  BY <1>0, <1>2, <1>3, <1>4 DEF Committed, k
<1>8. /\ absEntries \in Seq([msg : Msgs, done : BOOLEAN]) /\ DOMAIN absEntries = 1..claim_seq
      /\ claim_seq \in Nat /\ Len(log) = claim_seq
  BY AbsEntries
<1>9. d + 1 \in DOMAIN absEntries /\ ~absEntries[d + 1].done
  <2>1. d + 1 \in 1..claim_seq /\ (d + 1) - 1 = d
    BY <1>2, <1>3, <1>8
  <2>2. absEntries[d + 1].done = Committed((d + 1) - 1)
    BY <1>8, <2>1 DEF absEntries
  <2> QED
    BY <1>7, <1>8, <2>1, <2>2
<1>10. ASSUME NEW s \in Subscribers, absPos[s] # -1 PROVE d + 1 <= absPos[s] + Cap
  <2>1. Started(s) /\ absPos[s] = Position(s)
    BY <1>10 DEF absPos
  <2>2. d < Position(s) + Cap /\ Position(s) \in Nat
    BY <1>0, <1>2, <2>1 DEF LapShape, TypeOK, Position, Cursor, Started, Joined, Enrolled, d
  <2> QED
    BY <1>2, <2>1, <2>2, CapAssumption
<1>11. absEntries' = [absEntries EXCEPT ![d + 1].done = TRUE]
  <2>1. /\ absEntries' = [c \in 1..claim_seq |-> [msg |-> log[c], done |-> Committed(c - 1)']]
        /\ absEntries = [c \in 1..claim_seq |-> [msg |-> log[c], done |-> Committed(c - 1)]]
    BY <1>1, <1>8 DEF absEntries
  <2>2. ASSUME NEW c \in 1..claim_seq
        PROVE  [msg |-> log[c], done |-> Committed(c - 1)']
                 = [absEntries EXCEPT ![d + 1].done = TRUE][c]
    <3>1. c - 1 \in Nat
      BY <1>8
    <3>2. CASE c = d + 1
      <4>1. Committed(c - 1)' = TRUE
        BY <1>2, <1>6, <3>1, <3>2 DEF Committed
      <4>2. [absEntries EXCEPT ![d + 1].done = TRUE][c] = [absEntries[c] EXCEPT !.done = TRUE]
        BY <2>1, <3>2
      <4>3. absEntries[c] = [msg |-> log[c], done |-> Committed(c - 1)]
        BY <2>1
      <4>4. [[msg |-> log[c], done |-> Committed(c - 1)] EXCEPT !.done = TRUE]
              = [msg |-> log[c], done |-> TRUE]
        BY SetDone, Zenon
      <4> QED
        BY <4>1, <4>2, <4>3, <4>4
    <3>3. CASE c # d + 1
      <4>1. Committed(c - 1)' = Committed(c - 1)
        BY <1>2, <1>6, <3>1, <3>3 DEF Committed
      <4> QED
        BY <2>1, <3>3, <4>1
    <3> QED
      BY <3>2, <3>3
  <2> DEFINE upd == [absEntries EXCEPT ![d + 1].done = TRUE]
  <2>3. upd = [c \in 1..claim_seq |-> upd[c]]
    BY <1>8
  <2> HIDE DEF upd
  <2>4. absEntries' = upd
    BY <2>1, <2>2, <2>3 DEF upd
  <2> QED
    BY <2>4 DEF upd
<1>12. absPos' = absPos
  BY <1>1 DEF absPos, Started, Joined, Position, Cursor
<1> QED
  BY <1>1, <1>9, <1>10, <1>11, <1>12 DEF Fanout!Complete, Fanout!Attached, Fanout!Detached

\* Every other step of a producer is the log's stutter.
LEMMA ProducerAbs ==
  ASSUME OrderInv, OrderInv', NEW p \in Producers,
         Publish(p) \/ TryPublish(p) \/ ProducerStep(p)
  PROVE  [Fanout!FanNext]_(Fanout!fanVars)
<1>1. UNCHANGED <<sub_read_seq, spc, sub_id, start>>
  BY ProducerKeeps
<1>2. CASE Publish(p)
  <2>1. PICK m \in Outbox[p] : Call(p, m, "publish") /\ log' = Append(log, m)
    BY <1>2 DEF Publish
  <2>2. m \in Msgs /\ claim_seq' = claim_seq + 1 /\ UNCHANGED <<slot_seq, delivered>>
    BY <1>2, <2>1, MsgAssumption DEF Publish, Call, ring
  <2> QED
    BY <1>1, <2>1, <2>2, PublishAbs DEF Fanout!FanNext
<1>3. CASE Reserve(p)
  <2>1. msg[p] \in Msgs
    BY <1>3 DEF Reserve, At, OrderInv, FrameShape
  <2>2. /\ log' = Append(log, msg[p]) /\ claim_seq' = claim_seq + 1
        /\ UNCHANGED <<slot_seq, delivered>>
    BY <1>3 DEF Reserve, ring
  <2> QED
    BY <1>1, <2>1, <2>2, PublishAbs DEF Fanout!FanNext
<1>4. CASE Commit(p)
  BY <1>4, CommitAbs DEF Fanout!FanNext
<1>5. CASE ~(Publish(p) \/ Reserve(p) \/ Commit(p))
  <2>1. UNCHANGED <<log, slot_seq, delivered>>
    BY <1>5 DEF TryPublish, Call, ProducerStep, LoadSubs, LoadWrite, ScanCursor, ScanPanic,
         Admit, Retry, Backpressured, ReserveLost, Copy, AdvLoad, AdvCheck, AdvDone, AdvCas,
         hist, ring
  <2>2. absEntries' = absEntries /\ absPos' = absPos
    BY <1>1, <2>1 DEF absEntries, Committed, absPos, Started, Joined, Position, Cursor
  <2> QED
    BY <2>1, <2>2 DEF Fanout!fanVars
<1> QED
  BY <1>2, <1>3, <1>4, <1>5

\* A subscriber that is let in stands at the prefix: everything before it is
\* complete, and nothing after it lies more than a lap ahead.
LEMMA JoinAbs ==
  ASSUME OrderInv, NEW s \in Subscribers, JoinLoad(s),
         absEntries' = absEntries, absPos' = [absPos EXCEPT ![s] = write_seq]
  PROVE  Fanout!Join(s)
<1>1. /\ absEntries \in Seq([msg : Msgs, done : BOOLEAN]) /\ DOMAIN absEntries = 1..claim_seq
      /\ Len(absEntries) = claim_seq /\ claim_seq \in Nat /\ Len(log) = claim_seq
      /\ \A c \in 1..claim_seq : /\ absEntries[c].msg = log[c]
                                /\ absEntries[c].done = Committed(c - 1)
  BY AbsEntries
<1>2. /\ write_seq \in Nat /\ write_seq <= claim_seq /\ slot_seq \in [0..Cap-1 -> Nat]
      /\ SlotShape /\ \A c \in 0..write_seq-1 : Committed(c)
  BY DEF OrderInv, ReaderInv, CoreInv, TypeOK, ContiguousPrefix
<1>3. ASSUME NEW c \in 1..claim_seq, c <= write_seq PROVE absEntries[c].done
  <2>1. c - 1 \in 0..write_seq-1
    BY <1>1, <1>2, <1>3
  <2> QED
    BY <1>1, <1>2, <2>1
<1>4. ASSUME NEW c \in 1..claim_seq, absEntries[c].done PROVE c <= write_seq + Cap
  <2>1. c - 1 \in Nat
    BY <1>1
  <2>2. Committed(c - 1)
    BY <1>1, <1>4, Zenon
  <2>3. /\ Idx(c - 1) \in 0..Cap-1 /\ slot_seq[Idx(c - 1)] \in Nat
        /\ slot_seq[Idx(c - 1)] <= write_seq + Cap
    BY <1>2, <2>1, IdxType DEF SlotShape
  <2> QED
    BY <1>1, <1>2, <2>2, <2>3, CapAssumption DEF Committed
<1>5. absPos[s] = -1
  BY DEF JoinLoad, SAt, absPos, Started, Joined
<1>6. write_seq \in 0..Len(absEntries) /\ delivered' = delivered
  BY <1>1, <1>2 DEF JoinLoad, hist
<1> QED
  BY <1>1, <1>3, <1>4, <1>5, <1>6 DEF Fanout!Join, Fanout!Attached, Fanout!Detached

LEMMA ReceiveAbs ==
  ASSUME OrderInv, NEW s \in Subscribers, Advance(s),
         absEntries' = absEntries, absPos' = [absPos EXCEPT ![s] = @ + 1]
  PROVE  Fanout!Receive(s)
<1>1. /\ DOMAIN absEntries = 1..claim_seq /\ claim_seq \in Nat /\ Len(log) = claim_seq
      /\ \A c \in 1..claim_seq : /\ absEntries[c].msg = log[c]
                                /\ absEntries[c].done = Committed(c - 1)
  BY AbsEntries
<1>2. spc[s] = "advance" /\ Joined(s) /\ absPos[s] = Cursor(s)
  BY DEF Advance, SAt, Joined, absPos, Started, Position
<1>3. Cursor(s) \in 0..claim_seq-1 /\ IsCommitted(Cursor(s)) /\ out[s] = log[Cursor(s) + 1]
  BY <1>2, CopiesNext DEF OrderInv, DeliveryShape
<1>4. /\ Cursor(s) + 1 \in 1..claim_seq /\ (Cursor(s) + 1) - 1 = Cursor(s)
      /\ Cursor(s) # -1 /\ Committed(Cursor(s))
  <2>1. Cursor(s) \in Nat /\ Committed(Cursor(s))
    BY <1>3 DEF IsCommitted, Committed
  <2> QED
    BY <1>1, <1>3, <2>1
<1>5. absEntries[Cursor(s) + 1].done /\ absEntries[Cursor(s) + 1].msg = out[s]
  BY <1>1, <1>3, <1>4
<1>6. delivered' = [delivered EXCEPT ![s] = Append(@, out[s])]
  BY DEF Advance
<1> QED
  BY <1>1, <1>2, <1>4, <1>5, <1>6 DEF Fanout!Receive, Fanout!Attached, Fanout!Detached

LEMMA SubscriberAbs ==
  ASSUME OrderInv, TypeOK', NEW s \in Subscribers, Subscribe(s) \/ SubscriberStep(s)
  PROVE  [Fanout!FanNext]_(Fanout!fanVars)
<1>0. /\ TypeOK /\ IdShape /\ sub_read_seq \in [0..MaxSubs-1 -> Nat]
      /\ spc \in [Subscribers -> SpcLabels] /\ sub_id \in [Subscribers -> Nat]
      /\ start \in [Subscribers -> Nat]
      /\ \A r \in Subscribers : Enrolled(r) => sub_id[r] \in 0..MaxSubs-1
  BY DEF OrderInv, ReaderInv, CoreInv, TypeOK
<1>1. absEntries' = absEntries
  <2>1. UNCHANGED <<log, slot_seq>>
    BY DEF Subscribe, SubscriberStep, JoinLoad, JoinStore, Poll, CopyOut, CopyTooLarge,
           Advance, ring, hist
  <2> QED
    BY <2>1 DEF absEntries, Committed
<1> DEFINE P(t) == IF Started(t) THEN Position(t) ELSE -1
<1>2. ASSUME NEW t \in Subscribers, t # s PROVE P(t)' = P(t)
  BY <1>0, <1>2, OtherSubscriber DEF Started, Joined, Enrolled, Position
<1>3. absPos = [t \in Subscribers |-> P(t)] /\ absPos' = [t \in Subscribers |-> P(t)']
  BY DEF absPos
<1>4. ASSUME P(s)' = P(s), delivered' = delivered
      PROVE  UNCHANGED Fanout!fanVars
  <2>1. \A t \in Subscribers : P(t)' = P(t)
    BY <1>2, <1>4
  <2>2. absPos' = absPos
    BY <1>3, <2>1
  <2> QED
    BY <1>1, <1>4, <2>2 DEF Fanout!fanVars
<1>5. CASE Subscribe(s)
  <2>1. /\ spc[s] = "new" /\ spc'[s] \in {"join_load", "refused"} /\ delivered' = delivered
    BY <1>0, <1>5 DEF Subscribe, SAt, SGoto, hist
  <2> QED
    BY <1>4, <2>1 DEF Started, Joined
<1>6. CASE JoinLoad(s)
  <2>1. spc'[s] = "join_store" /\ start'[s] = write_seq
    BY <1>0, <1>6 DEF JoinLoad, SGoto
  <2>2. P(s)' = write_seq
    BY <2>1 DEF Started, Joined, Position
  <2>3. absPos' = [absPos EXCEPT ![s] = write_seq]
    BY <1>2, <1>3, <2>2
  <2> QED
    BY <1>1, <1>6, <2>3, JoinAbs DEF Fanout!FanNext
<1>7. CASE JoinStore(s)
  <2>1. /\ spc[s] = "join_store" /\ spc'[s] = "ready" /\ sub_id' = sub_id
        /\ delivered' = delivered /\ sub_read_seq' = [sub_read_seq EXCEPT ![sub_id[s]] = start[s]]
    BY <1>0, <1>7 DEF JoinStore, SAt, SGoto, hist
  <2>2. sub_id[s] \in 0..MaxSubs-1
    BY <1>0, <2>1 DEF Enrolled
  <2>3. Cursor(s)' = start[s]
    BY <1>0, <2>1, <2>2 DEF Cursor
  <2> QED
    BY <1>4, <2>1, <2>3 DEF Started, Joined, Position
<1>8. CASE Poll(s) \/ CopyOut(s) \/ CopyTooLarge(s)
  <2>1. Joined(s) /\ Joined(s)' /\ UNCHANGED <<sub_id, delivered, sub_read_seq>>
    BY <1>0, <1>8 DEF Poll, CopyOut, CopyTooLarge, SAt, SGoto, Joined, header, hist
  <2> QED
    BY <1>4, <2>1 DEF Started, Position, Cursor
<1>9. CASE Advance(s)
  <2>1. /\ Joined(s) /\ Joined(s)' /\ sub_id' = sub_id
        /\ sub_read_seq' = [sub_read_seq EXCEPT ![sub_id[s]] = @ + 1]
    BY <1>0, <1>9 DEF Advance, SAt, SGoto, Joined
  <2>2. sub_id[s] \in 0..MaxSubs-1
    BY <1>0, <2>1 DEF Joined, Enrolled
  <2>3. Cursor(s)' = Cursor(s) + 1
    BY <1>0, <2>1, <2>2 DEF Cursor
  <2>4. P(s)' = P(s) + 1
    BY <2>1, <2>3 DEF Started, Position
  <2>5. absPos' = [absPos EXCEPT ![s] = @ + 1]
    BY <1>2, <1>3, <2>4
  <2> QED
    BY <1>1, <1>9, <2>5, ReceiveAbs DEF Fanout!FanNext
<1> QED
  BY <1>5, <1>6, <1>7, <1>8, <1>9 DEF SubscriberStep

LEMMA NextAbs ==
  ASSUME OrderInv, OrderInv', [Next]_vars
  PROVE  [Fanout!FanNext]_(Fanout!fanVars)
<1>1. TypeOK'
  BY DEF OrderInv, ReaderInv, CoreInv
<1>2. ASSUME NEW p \in Producers, Publish(p) \/ TryPublish(p) \/ ProducerStep(p)
      PROVE  [Fanout!FanNext]_(Fanout!fanVars)
  BY <1>2, ProducerAbs
<1>3. ASSUME NEW s \in Subscribers, Subscribe(s) \/ SubscriberStep(s)
      PROVE  [Fanout!FanNext]_(Fanout!fanVars)
  BY <1>1, <1>3, SubscriberAbs
<1>4. ASSUME UNCHANGED <<log, slot_seq, delivered, sub_read_seq, spc, sub_id, start>>
      PROVE  UNCHANGED Fanout!fanVars
  BY <1>4 DEF absEntries, Committed, absPos, Started, Joined, Position, Cursor,
              Fanout!fanVars
<1>5. ASSUME NEW x \in Producers \cup Subscribers, Crash(x)
      PROVE  UNCHANGED Fanout!fanVars
  BY <1>4, <1>5 DEF Crash, header, ring, reader, hist
<1>6. CASE UNCHANGED vars
  BY <1>4, <1>6 DEF vars
<1> QED
  BY <1>2, <1>3, <1>5, <1>6 DEF Next

(* The ring implements the log it stands for (FanoutLog): a claim, by      *)
(* publish or by try_publish's exchange, appends an entry; the store of    *)
(* the slot's sequence completes it, never more than a lap ahead of an     *)
(* attached subscriber; subscribe() attaches at the prefix; the store of a *)
(* cursor receives the next entry; every other access, a death too, is     *)
(* invisible.                                                              *)
THEOREM RingIsFanout ==
  ASSUME JoinAnytime = FALSE
  PROVE  Spec => RefinesFanout
<1>1. Init => Fanout!FanInit
  <2> SUFFICES ASSUME Init PROVE Fanout!FanInit
    OBVIOUS
  <2>1. absEntries = <<>>
    BY DEF Init, absEntries
  <2>2. absPos = [s \in Subscribers |-> -1]
    BY DEF Init, absPos, Started, Joined
  <2> QED
    BY <2>1, <2>2 DEF Init, Fanout!FanInit, Fanout!Detached
<1>2. OrderInv /\ OrderInv' /\ [Next]_vars => [Fanout!FanNext]_(Fanout!fanVars)
  BY NextAbs
<1>3. Spec => []OrderInv
  BY OrderInvariant
<1> QED
  BY <1>1, <1>2, <1>3, PTL DEF Spec, RefinesFanout, Fanout!FanSpec
=============================================================================
