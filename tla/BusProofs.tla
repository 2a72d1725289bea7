----------------------------- MODULE BusProofs -----------------------------
(***************************************************************************)
(* Theorems about the ring of Bus, for every number of producers,          *)
(* subscribers, slots and cursors, every payload and every crash.          *)
(***************************************************************************)
EXTENDS BusInvariant, TLAPS

USE DEF AdvPcs, ScanPcs, WritePcs, PcLabels, JoinedPcs, SpcLabels

-----------------------------------------------------------------------------
(* Slots: which claims share one.                                          *)

LEMMA IdxType == ASSUME NEW q \in Nat PROVE Idx(q) \in 0..Cap-1
BY CapAssumption DEF Idx

LEMMA Division ==
  \A q \in Nat : /\ q = Cap * (q \div Cap) + (q % Cap)
                 /\ (q \div Cap) \in Nat /\ (q % Cap) \in Nat
BY CapAssumption

LEMMA NextMultiple ==
  \A x \in Int, y \in Int, k \in Nat : x >= y + 1 => k*x >= k*y + k
BY Z3

LEMMA DistinctSlots ==
  ASSUME NEW c \in Nat, NEW d \in Nat, c < d, d < c + Cap
  PROVE  Idx(c) # Idx(d)
<1> DEFINE qc == c \div Cap
           qd == d \div Cap
<1>1. SUFFICES ASSUME Idx(c) = Idx(d) PROVE FALSE
  OBVIOUS
<1>2. /\ qc \in Nat /\ qd \in Nat /\ Cap*qc \in Nat /\ Cap*qd \in Nat
      /\ d - c = Cap*qd - Cap*qc
  BY Division, CapAssumption, <1>1 DEF Idx
<1> HIDE DEF qc, qd
<1>3. CASE qc = qd
  BY <1>2, <1>3
<1>4. CASE qc + 1 <= qd
  BY <1>2, <1>4, NextMultiple, CapAssumption
<1>5. CASE qd + 1 <= qc
  <2>1. Cap*qc >= Cap*qd + Cap
    BY <1>2, <1>5, NextMultiple, CapAssumption
  <2> QED
    BY <1>2, <2>1, CapAssumption
<1> QED
  BY <1>2, <1>3, <1>4, <1>5

LEMMA SameSlot ==
  ASSUME NEW c \in Nat, NEW d \in Nat, c < d, Idx(c) = Idx(d)
  PROVE  c + Cap <= d
BY DistinctSlots, CapAssumption

-----------------------------------------------------------------------------
(* Type correctness.                                                       *)

LEMMA InitType == Init => TypeOK
BY CapAssumption, MaxSubsAssumption DEF Init, TypeOK, Enrolled

LEMMA AppendType ==
  ASSUME NEW S, NEW q \in Seq(S), NEW e \in S PROVE Append(q, e) \in Seq(S)
OBVIOUS

LEMMA ReturnType ==
  ASSUME TypeOK, NEW p \in Producers, Return(p)
  PROVE  /\ pc' \in [Producers -> PcLabels]
         /\ mode' \in [Producers -> {"idle", "publish", "try"}]
         /\ msg' \in [Producers -> Msgs \cup {NoMsg}]
         /\ claim' \in [Producers -> Nat] /\ w' \in [Producers -> Nat]
         /\ n' \in [Producers -> Nat] /\ min_read' \in [Producers -> Nat]
         /\ i' \in [Producers -> 0..MaxSubs]
BY MaxSubsAssumption DEF TypeOK, Return, Goto

LEMMA EndScanType ==
  ASSUME TypeOK, NEW p \in Producers, EndScan(p)
  PROVE  /\ n' \in [Producers -> Nat] /\ min_read' \in [Producers -> Nat]
         /\ i' \in [Producers -> 0..MaxSubs]
BY MaxSubsAssumption DEF TypeOK, EndScan

LEMMA CallType ==
  ASSUME TypeOK, NEW p \in Producers, Publish(p) \/ TryPublish(p)
  PROVE  TypeOK'
<1>1. PICK m \in Outbox[p] :
        /\ Call(p, m, "publish") \/ Call(p, m, "try")
        /\ claim_seq' \in {claim_seq, claim_seq + 1}
        /\ log' \in {log, Append(log, m)}
  BY DEF Publish, TryPublish
<1>2. m \in Msgs \cup {NoMsg}
  BY MsgAssumption
<1>3. claim_seq' \in Nat
  BY <1>1 DEF TypeOK
<1>4. log' \in Seq(Msgs \cup {NoMsg})
  <2>1. log \in Seq(Msgs \cup {NoMsg})
    BY DEF TypeOK
  <2> QED
    BY <1>1, <1>2, <2>1, AppendType
<1>5. PICK kind \in {"publish", "try"} : Call(p, m, kind)
  BY <1>1
<1>6. /\ pc' \in [Producers -> PcLabels]
      /\ mode' \in [Producers -> {"idle", "publish", "try"}]
      /\ msg' \in [Producers -> Msgs \cup {NoMsg}]
      /\ claim' \in [Producers -> Nat]
  BY <1>2, <1>5 DEF TypeOK, Call, Goto
<1> QED
  BY <1>3, <1>4, <1>5, <1>6 DEF TypeOK, Call, reader, ring, scan, Enrolled

LEMMA ProducerType ==
  ASSUME TypeOK, NEW p \in Producers, ProducerStep(p)
  PROVE  TypeOK'
<1> USE MaxSubsAssumption, CapAssumption
<1>1. CASE LoadSubs(p)
  BY <1>1 DEF TypeOK, LoadSubs, Goto, header, ring, reader, hist, Enrolled
<1>2. CASE LoadWrite(p)
  <2>1. min_read' \in [Producers -> Nat] /\ i' \in [Producers -> 0..MaxSubs]
    BY <1>2 DEF TypeOK, LoadWrite
  <2>2. pc' \in [Producers -> PcLabels]
    BY <1>2 DEF TypeOK, LoadWrite, Goto
  <2> QED
    BY <1>2, <2>1, <2>2 DEF TypeOK, LoadWrite, header, ring, reader, hist, Enrolled
<1>3. CASE ScanCursor(p)
  <2>1. i[p] \in 0..MaxSubs-1
    BY <1>3 DEF TypeOK, ScanCursor
  <2>2. Lesser(sub_read_seq[i[p]], min_read[p]) \in Nat
    BY <2>1 DEF TypeOK, Lesser
  <2>3. min_read' \in [Producers -> Nat]
    BY <1>3, <2>2 DEF TypeOK, ScanCursor
  <2>4. i' \in [Producers -> 0..MaxSubs]
    <3>1. i[p] + 1 \in 0..MaxSubs
      BY <2>1
    <3>2. i' = [i EXCEPT ![p] = i[p] + 1] /\ i \in [Producers -> 0..MaxSubs]
      BY <1>3 DEF TypeOK, ScanCursor
    <3> QED
      BY <3>1, <3>2
  <2> QED
    BY <1>3, <2>3, <2>4 DEF TypeOK, ScanCursor, header, ring, reader, hist, Enrolled
<1>4. CASE ScanPanic(p)
  BY <1>4 DEF TypeOK, ScanPanic, Goto, header, ring, frame, reader, hist, Enrolled
<1>5. CASE Admit(p)
  BY <1>5, EndScanType DEF TypeOK, Admit, Goto, header, ring, reader, hist, Enrolled
<1>6. CASE Retry(p)
  BY <1>6, EndScanType DEF TypeOK, Retry, Goto, header, ring, reader, hist, Enrolled
<1>7. CASE Backpressured(p)
  BY <1>7, ReturnType DEF TypeOK, Backpressured, header, ring, reader, hist, Enrolled
<1>8. CASE Reserve(p)
  <2>1. log' \in Seq(Msgs \cup {NoMsg})
    BY <1>8, AppendType DEF TypeOK, Reserve
  <2>2. claim_seq' \in Nat /\ pc' \in [Producers -> PcLabels]
    BY <1>8 DEF TypeOK, Reserve, Goto
  <2> QED
    BY <1>8, <2>1, <2>2 DEF TypeOK, Reserve, ring, frame, reader, Enrolled
<1>9. CASE ReserveLost(p)
  BY <1>9, ReturnType DEF TypeOK, ReserveLost, header, ring, reader, hist, Enrolled
<1>10. CASE Copy(p)
  BY <1>10 DEF TypeOK, Copy, Goto, header, frame, reader, hist, Enrolled
<1>11. CASE Commit(p)
  <2>1. slot_seq' \in [0..Cap-1 -> Nat]
    <3>1. slot_seq \in [0..Cap-1 -> Nat] /\ claim[p] + 1 \in Nat
      BY DEF TypeOK
    <3> QED
      BY <1>11, <3>1 DEF Commit
  <2>2. pc' \in [Producers -> PcLabels]
    BY <1>11 DEF TypeOK, Commit, Goto
  <2> QED
    BY <1>11, <2>1, <2>2 DEF TypeOK, Commit, header, frame, reader, hist, Enrolled
<1>12. CASE AdvLoad(p)
  BY <1>12 DEF TypeOK, AdvLoad, Goto, header, ring, scan, reader, hist, Enrolled
<1>13. CASE AdvCheck(p)
  BY <1>13 DEF TypeOK, AdvCheck, Goto, header, ring, frame, reader, hist, Enrolled
<1>14. CASE AdvDone(p)
  BY <1>14, ReturnType DEF TypeOK, AdvDone, header, ring, reader, hist, Enrolled
<1>15. CASE AdvCas(p)
  <2>1. write_seq' \in Nat /\ pc' \in [Producers -> PcLabels]
    BY <1>15 DEF TypeOK, AdvCas, Goto
  <2> QED
    BY <1>15, <2>1 DEF TypeOK, AdvCas, ring, frame, reader, hist, Enrolled
<1> QED
  BY <1>1, <1>2, <1>3, <1>4, <1>5, <1>6, <1>7, <1>8, <1>9, <1>10, <1>11, <1>12,
     <1>13, <1>14, <1>15 DEF ProducerStep

LEMMA SubscriberType ==
  ASSUME TypeOK, NEW s \in Subscribers, Subscribe(s) \/ SubscriberStep(s)
  PROVE  TypeOK'
<1> USE MaxSubsAssumption, CapAssumption
<1>1. CASE Subscribe(s)
  <2>1. /\ n_subs' \in Nat /\ sub_id' \in [Subscribers -> Nat]
        /\ spc' \in [Subscribers -> SpcLabels]
    <3>1. n_subs \in Nat /\ sub_id \in [Subscribers -> Nat]
            /\ spc \in [Subscribers -> SpcLabels]
      BY DEF TypeOK
    <3>2. n_subs' \in Nat
      BY <1>1, <3>1 DEF Subscribe
    <3>3. CASE SlotLeft
      BY <1>1, <3>1, <3>2, <3>3 DEF Subscribe, SGoto
    <3>4. CASE ~SlotLeft
      BY <1>1, <3>1, <3>2, <3>4 DEF Subscribe, SGoto
    <3> QED
      BY <3>3, <3>4
  <2>2. ASSUME NEW t \in Subscribers, Enrolled(t)'
        PROVE  sub_id'[t] \in 0..MaxSubs-1
    <3>1. CASE t = s /\ SlotLeft
      BY <1>1, <3>1 DEF TypeOK, Subscribe, SlotLeft
    <3>2. CASE t = s /\ ~SlotLeft
      BY <1>1, <2>2, <3>2 DEF TypeOK, Subscribe, SGoto, Enrolled
    <3>3. CASE t # s
      BY <1>1, <2>2, <3>3 DEF TypeOK, Subscribe, SGoto, Enrolled
    <3> QED
      BY <3>1, <3>2, <3>3
  <2> QED
    BY <1>1, <2>1, <2>2 DEF TypeOK, Subscribe, ring, frame, hist
<1>2. CASE JoinLoad(s)
  BY <1>2 DEF TypeOK, JoinLoad, SAt, SGoto, header, ring, frame, hist, Enrolled
<1>3. CASE JoinStore(s)
  BY <1>3 DEF TypeOK, JoinStore, SAt, SGoto, ring, frame, hist, Enrolled
<1>4. CASE Poll(s)
  BY <1>4 DEF TypeOK, Poll, SAt, SGoto, header, ring, frame, hist, Enrolled
<1>5. CASE CopyOut(s)
  <2>1. Idx(Cursor(s)) \in 0..Cap-1
    <3>1. Cursor(s) \in Nat
      BY <1>5 DEF TypeOK, CopyOut, SAt, Cursor, Enrolled
    <3> QED
      BY <3>1, IdxType
  <2>2. out' \in [Subscribers -> Msgs \cup {NoMsg}]
    BY <1>5, <2>1 DEF TypeOK, CopyOut
  <2> QED
    BY <1>5, <2>2 DEF TypeOK, CopyOut, SAt, SGoto, header, ring, frame, hist, Enrolled
<1>6. CASE CopyTooLarge(s)
  BY <1>6 DEF TypeOK, CopyTooLarge, SAt, SGoto, header, ring, frame, hist, Enrolled
<1>7. CASE Advance(s)
  <2>1. sub_read_seq' \in [0..MaxSubs-1 -> Nat]
    <3>1. sub_read_seq \in [0..MaxSubs-1 -> Nat]
            /\ sub_id[s] \in 0..MaxSubs-1
      BY <1>7 DEF TypeOK, Advance, SAt, Enrolled
    <3> QED
      BY <1>7, <3>1 DEF Advance
  <2>2. delivered' \in [Subscribers -> Seq(Msgs \cup {NoMsg})]
    BY <1>7, AppendType DEF TypeOK, Advance
  <2>3. spc' \in [Subscribers -> SpcLabels] /\ out' \in [Subscribers -> Msgs \cup {NoMsg}]
    BY <1>7 DEF TypeOK, Advance, SGoto
  <2> QED
    BY <1>7, <2>1, <2>2, <2>3 DEF TypeOK, Advance, SAt, SGoto, ring, frame, hist, Enrolled
<1> QED
  BY <1>1, <1>2, <1>3, <1>4, <1>5, <1>6, <1>7 DEF SubscriberStep

LEMMA NextType == TypeOK /\ [Next]_vars => TypeOK'
<1> SUFFICES ASSUME TypeOK, [Next]_vars PROVE TypeOK'
  OBVIOUS
<1>1. ASSUME NEW p \in Producers, Publish(p) \/ TryPublish(p) PROVE TypeOK'
  BY <1>1, CallType
<1>2. ASSUME NEW p \in Producers, ProducerStep(p) PROVE TypeOK'
  BY <1>2, ProducerType
<1>3. ASSUME NEW s \in Subscribers, Subscribe(s) \/ SubscriberStep(s) PROVE TypeOK'
  BY <1>3, SubscriberType
<1>4. ASSUME NEW x \in Producers \cup Subscribers, Crash(x) PROVE TypeOK'
  BY <1>4 DEF TypeOK, Crash, header, ring, frame, reader, hist, Enrolled
<1>5. CASE UNCHANGED vars
  BY <1>5 DEF TypeOK, vars, Enrolled
<1> QED
  BY <1>1, <1>2, <1>3, <1>4, <1>5 DEF Next

(* The header, the slots, the call frames and the handles keep their types; *)
(* no id and no scan index leaves the array of MAX_SUBSCRIBERS cursors.     *)
THEOREM TypeCorrect == Spec => []TypeOK
<1>1. Init => TypeOK
  BY InitType
<1>2. TypeOK /\ [Next]_vars => TypeOK'
  BY NextType
<1> QED
  BY <1>1, <1>2, PTL DEF Spec

-----------------------------------------------------------------------------
(* The producers and the slots: CoreInv is inductive.                       *)

LEMMA InitCore == Init => CoreInv
<1> SUFFICES ASSUME Init PROVE CoreInv
  OBVIOUS
<1>1. TypeOK
  BY InitType
<1>2. ContiguousPrefix /\ SlotShape /\ ScanShape /\ HelpShape
  BY CapAssumption DEF Init, ContiguousPrefix, SlotShape, ScanShape, HelpShape,
                       Admitted, Writing
<1>3. ClaimShape
  BY DEF Init, ClaimShape, Holds
<1>4. NoOrphanClaim
  BY DEF Init, NoOrphanClaim, Holds
<1> QED
  BY <1>1, <1>2, <1>3, <1>4 DEF CoreInv

\* A step of one producer that leaves the counters and the slots alone.
LEMMA LocalStep ==
  ASSUME CoreInv, TypeOK', NEW p \in Producers,
         UNCHANGED <<write_seq, claim_seq, slot_seq, log>>,
         \A q \in Producers \ {p} :
           /\ pc'[q] = pc[q] /\ mode'[q] = mode[q] /\ claim'[q] = claim[q]
           /\ min_read'[q] = min_read[q] /\ w'[q] = w[q],
         Holds(p)' <=> Holds(p),
         Holds(p) => claim'[p] = claim[p],
         pc'[p] = "scan" => min_read'[p] <= write_seq,
         Admitted(p)' => claim'[p] < write_seq + Cap,
         pc'[p] = "adv_cas" => Committed(w'[p])
  PROVE  CoreInv'
<1>1. \A q \in Producers :
        /\ Holds(q)' <=> Holds(q)
        /\ Holds(q) => claim'[q] = claim[q]
  BY DEF Holds
<1>2. \A c : Committed(c)' <=> Committed(c)
  BY DEF Committed
<1>3. ContiguousPrefix'
  BY <1>2 DEF CoreInv, ContiguousPrefix
<1>4. NoOrphanClaim'
  BY <1>1, <1>2 DEF CoreInv, NoOrphanClaim
<1>5. SlotShape'
  BY DEF CoreInv, SlotShape
<1>6. ClaimShape'
  BY <1>1 DEF CoreInv, ClaimShape
<1>7. ScanShape'
  BY DEF CoreInv, ScanShape, Admitted, Writing
<1>8. HelpShape'
  BY <1>2 DEF CoreInv, HelpShape
<1> QED
  BY <1>3, <1>4, <1>5, <1>6, <1>7, <1>8 DEF CoreInv

\* A step that touches nothing CoreInv is about.
LEMMA OutsideStep ==
  ASSUME CoreInv, TypeOK',
         UNCHANGED <<write_seq, claim_seq, slot_seq, log, pc, mode, claim,
                     min_read, w>>
  PROVE  CoreInv'
<1>1. \A q \in Producers : /\ Holds(q)' <=> Holds(q)
                           /\ Admitted(q)' <=> Admitted(q)
  BY DEF Holds, Admitted, Writing
<1>2. \A c : Committed(c)' <=> Committed(c)
  BY DEF Committed
<1>3. NoOrphanClaim'
  BY <1>1, <1>2 DEF CoreInv, NoOrphanClaim
<1>4. ContiguousPrefix' /\ HelpShape'
  BY <1>2 DEF CoreInv, ContiguousPrefix, HelpShape
<1>5. SlotShape' /\ ClaimShape' /\ ScanShape'
  BY <1>1 DEF CoreInv, SlotShape, ClaimShape, ScanShape
<1> QED
  BY <1>3, <1>4, <1>5 DEF CoreInv

LEMMA TryPublishCore ==
  ASSUME CoreInv, TypeOK', NEW p \in Producers, TryPublish(p)
  PROVE  CoreInv'
<1>1. PICK m \in Outbox[p] : Call(p, m, "try")
  BY DEF TryPublish
<1>2. pc'[p] = "load_subs" /\ mode'[p] = "try" /\ pc[p] = "idle"
  BY <1>1 DEF CoreInv, TypeOK, Call, Goto, At
<1>3. ~Holds(p) /\ ~Holds(p)' /\ ~Admitted(p)'
  BY <1>2 DEF Holds, Admitted, Writing
<1>4. \A q \in Producers \ {p} :
        /\ pc'[q] = pc[q] /\ mode'[q] = mode[q] /\ claim'[q] = claim[q]
        /\ min_read'[q] = min_read[q] /\ w'[q] = w[q]
  BY <1>1 DEF CoreInv, TypeOK, Call, Goto, scan
<1>5. UNCHANGED <<write_seq, claim_seq, slot_seq, log>>
  BY <1>1 DEF TryPublish, Call, ring
<1> QED
  BY <1>2, <1>3, <1>4, <1>5, LocalStep

\* A sequence number is taken, by publish or by try_publish's exchange.
LEMMA TakeClaim ==
  ASSUME CoreInv, TypeOK', NEW p \in Producers,
         UNCHANGED <<write_seq, slot_seq>>,
         claim_seq' = claim_seq + 1, Len(log') = Len(log) + 1,
         claim'[p] = claim_seq, ~Holds(p), Holds(p)',
         \A q \in Producers \ {p} :
           /\ pc'[q] = pc[q] /\ mode'[q] = mode[q] /\ claim'[q] = claim[q]
           /\ min_read'[q] = min_read[q] /\ w'[q] = w[q],
         pc'[p] \notin {"scan", "adv_cas"},
         Admitted(p)' => claim'[p] < write_seq + Cap
  PROVE  CoreInv'
<1>1. \A q \in Producers \ {p} : Holds(q)' <=> Holds(q)
  BY DEF Holds
<1>2. \A c : Committed(c)' <=> Committed(c)
  BY DEF Committed
<1>3. /\ write_seq \in Nat /\ claim_seq \in Nat /\ Len(log) = claim_seq
      /\ \A k \in 0..Cap-1 : slot_seq[k] \in Nat
  BY DEF CoreInv, TypeOK, NoOrphanClaim
<1>4. ContiguousPrefix'
  BY <1>2, <1>3 DEF CoreInv, ContiguousPrefix
<1>5. NoOrphanClaim'
  <2>1. \A q \in Producers \ {p} : Holds(q) => claim[q] < claim_seq /\ claim[q] \in Nat
    BY DEF CoreInv, TypeOK, ClaimShape
  <2>2. ASSUME NEW c \in 0..claim_seq'-1
        PROVE  Committed(c)' \/ \E q \in Producers : Holds(q)' /\ claim'[q] = c
    <3>1. CASE c = claim_seq
      BY <3>1
    <3>2. CASE c # claim_seq
      <4>1. c \in 0..claim_seq-1
        BY <1>3, <3>2
      <4> QED
        BY <4>1, <1>1, <1>2 DEF CoreInv, NoOrphanClaim
    <3> QED
      BY <3>1, <3>2
  <2>3. ASSUME NEW q \in Producers, NEW r \in Producers, q # r, Holds(q)', Holds(r)'
        PROVE  claim'[q] # claim'[r]
    BY <2>1, <2>3, <1>1, <1>3 DEF CoreInv, NoOrphanClaim
  <2> QED
    BY <1>3, <2>2, <2>3 DEF NoOrphanClaim
<1>6. SlotShape'
  BY <1>3 DEF CoreInv, SlotShape
<1>7. ClaimShape'
  <2>1. Idx(claim_seq) \in 0..Cap-1
    BY <1>3, IdxType
  <2>2. slot_seq[Idx(claim_seq)] <= claim_seq
    BY <2>1 DEF CoreInv, SlotShape
  <2>3. ASSUME NEW q \in Producers, Holds(q)'
        PROVE  claim'[q] < claim_seq' /\ slot_seq'[Idx(claim'[q])] <= claim'[q]
    <3>1. CASE q = p
      BY <1>3, <2>2, <3>1
    <3>2. CASE q # p
      <4>1. Holds(q) /\ claim'[q] = claim[q] /\ claim[q] \in Nat
        BY <1>1, <2>3, <3>2 DEF CoreInv, TypeOK
      <4> QED
        BY <1>3, <4>1 DEF CoreInv, ClaimShape
    <3> QED
      BY <3>1, <3>2
  <2> QED
    BY <2>3 DEF ClaimShape
<1>8. ScanShape' /\ HelpShape'
  BY <1>2 DEF CoreInv, ScanShape, HelpShape, Admitted, Writing
<1> QED
  BY <1>4, <1>5, <1>6, <1>7, <1>8 DEF CoreInv

LEMMA PublishCore ==
  ASSUME CoreInv, TypeOK', NEW p \in Producers, Publish(p)
  PROVE  CoreInv'
<1>1. PICK m \in Outbox[p] : Call(p, m, "publish") /\ log' = Append(log, m)
  BY DEF Publish
<1>2. /\ pc'[p] = "load_subs" /\ mode'[p] = "publish" /\ pc[p] = "idle"
      /\ claim'[p] = claim_seq
  BY <1>1 DEF CoreInv, TypeOK, Call, Goto, At
<1>3. ~Holds(p) /\ Holds(p)' /\ ~Admitted(p)'
  BY <1>2 DEF Holds, Admitted, Writing
<1>4. \A q \in Producers \ {p} :
        /\ pc'[q] = pc[q] /\ mode'[q] = mode[q] /\ claim'[q] = claim[q]
        /\ min_read'[q] = min_read[q] /\ w'[q] = w[q]
  BY <1>1 DEF CoreInv, TypeOK, Call, Goto, scan
<1>5. Len(log') = Len(log) + 1
  BY <1>1 DEF CoreInv, TypeOK
<1>6. UNCHANGED <<write_seq, slot_seq>> /\ claim_seq' = claim_seq + 1
  BY <1>1 DEF Publish, Call, ring
<1> QED
  BY <1>2, <1>3, <1>4, <1>5, <1>6, TakeClaim

LEMMA ReserveCore ==
  ASSUME CoreInv, TypeOK', NEW p \in Producers, Reserve(p)
  PROVE  CoreInv'
<1>1. pc[p] = "cas" /\ pc'[p] = "copy" /\ claim'[p] = claim_seq
  BY DEF CoreInv, TypeOK, Reserve, At, Goto, frame
<1>2. ~Holds(p) /\ Holds(p)' /\ Admitted(p)
  BY <1>1 DEF Holds, Admitted, Writing
<1>3. \A q \in Producers \ {p} :
        /\ pc'[q] = pc[q] /\ mode'[q] = mode[q] /\ claim'[q] = claim[q]
        /\ min_read'[q] = min_read[q] /\ w'[q] = w[q]
  BY DEF CoreInv, TypeOK, Reserve, Goto, frame
<1>4. Len(log') = Len(log) + 1
  BY DEF CoreInv, TypeOK, Reserve
<1>5. UNCHANGED <<write_seq, slot_seq>> /\ claim_seq' = claim_seq + 1
  BY DEF Reserve, ring
<1>6. claim'[p] < write_seq + Cap
  BY <1>2 DEF CoreInv, ScanShape, Reserve, frame
<1> QED
  BY <1>1, <1>2, <1>3, <1>4, <1>5, <1>6, TakeClaim

LEMMA CommitCore ==
  ASSUME CoreInv, TypeOK', NEW p \in Producers, Commit(p)
  PROVE  CoreInv'
<1> DEFINE k == Idx(claim[p])
<1>1. /\ write_seq \in Nat /\ claim_seq \in Nat /\ claim \in [Producers -> Nat]
      /\ slot_seq \in [0..Cap-1 -> Nat]
  BY DEF CoreInv, TypeOK
<1>2. /\ pc[p] = "store" /\ pc' = [pc EXCEPT ![p] = "adv_load"]
      /\ pc \in [Producers -> PcLabels]
      /\ UNCHANGED <<write_seq, claim_seq, log, mode, claim, min_read, w>>
      /\ slot_seq' = [slot_seq EXCEPT ![k] = claim[p] + 1]
  BY DEF CoreInv, TypeOK, Commit, At, Goto, header, frame, hist
<1>3. /\ Holds(p) /\ ~Holds(p)' /\ Admitted(p) /\ ~Admitted(p)'
      /\ \A q \in Producers \ {p} : (Holds(q)' <=> Holds(q)) /\ (Admitted(q)' <=> Admitted(q))
  BY <1>2 DEF Holds, Admitted, Writing
<1>4. /\ claim[p] < claim_seq /\ slot_seq[k] <= claim[p]
      /\ claim[p] < write_seq + Cap
  BY <1>3 DEF CoreInv, ClaimShape, ScanShape
<1>5. k \in 0..Cap-1
  BY <1>1, IdxType
<1> HIDE DEF k
<1>6. \A j \in 0..Cap-1 : slot_seq'[j] = IF j = k THEN claim[p] + 1 ELSE slot_seq[j]
  BY <1>1, <1>2
<1>7. \A c \in Nat : Committed(c) => Committed(c)'
  <2> SUFFICES ASSUME NEW c \in Nat, Committed(c) PROVE Committed(c)'
    OBVIOUS
  <2>1. Idx(c) \in 0..Cap-1
    BY IdxType
  <2> QED
    BY <1>1, <1>4, <1>6, <2>1 DEF Committed
<1>8. Committed(claim[p])'
  BY <1>1, <1>2, <1>5, <1>6 DEF Committed, k
<1>9. ContiguousPrefix'
  BY <1>1, <1>2, <1>7 DEF CoreInv, ContiguousPrefix
<1>10. NoOrphanClaim'
  <2>1. ASSUME NEW c \in 0..claim_seq-1
        PROVE  Committed(c)' \/ \E q \in Producers : Holds(q)' /\ claim[q] = c
    <3>1. CASE c = claim[p]
      BY <1>2, <1>8, <3>1 DEF Committed
    <3>2. CASE Committed(c)
      BY <1>7, <3>2
    <3>3. CASE c # claim[p] /\ ~Committed(c)
      <4>1. PICK q \in Producers : Holds(q) /\ claim[q] = c
        BY <3>3 DEF CoreInv, NoOrphanClaim
      <4> QED
        BY <1>3, <3>3, <4>1
    <3> QED
      BY <3>1, <3>2, <3>3
  <2> QED
    BY <1>2, <1>3, <2>1 DEF CoreInv, NoOrphanClaim
<1>11. SlotShape'
  <2>1. ASSUME NEW j \in 0..Cap-1
        PROVE  /\ slot_seq'[j] <= claim_seq /\ slot_seq'[j] <= write_seq + Cap
               /\ slot_seq'[j] # 0 => Idx(slot_seq'[j] - 1) = j
    <3>1. CASE j = k
      <4>1. slot_seq'[j] = claim[p] + 1 /\ slot_seq'[j] - 1 = claim[p]
        BY <1>1, <1>6, <3>1
      <4>2. Idx(slot_seq'[j] - 1) = j
        BY <4>1, <3>1 DEF k
      <4> QED
        BY <1>1, <1>4, <4>1, <4>2, CapAssumption
    <3>2. CASE j # k
      BY <1>6, <3>2 DEF CoreInv, SlotShape
    <3> QED
      BY <3>1, <3>2
  <2> QED
    BY <1>2, <2>1 DEF SlotShape
<1>12. ClaimShape'
  <2>1. ASSUME NEW q \in Producers, Holds(q)'
        PROVE  claim[q] < claim_seq /\ slot_seq'[Idx(claim[q])] <= claim[q]
    <3>1. /\ q # p /\ Holds(q) /\ claim[q] # claim[p] /\ claim[q] \in Nat
          /\ claim[q] < claim_seq /\ slot_seq[Idx(claim[q])] <= claim[q]
      BY <1>1, <1>3, <2>1 DEF CoreInv, ClaimShape, NoOrphanClaim
    <3>2. Idx(claim[q]) \in 0..Cap-1
      BY <3>1, IdxType
    <3>3. CASE Idx(claim[q]) # k
      BY <1>6, <3>1, <3>2, <3>3
    <3>4. CASE Idx(claim[q]) = k /\ claim[p] < claim[q]
      BY <1>1, <1>6, <3>1, <3>2, <3>4
    <3>5. CASE Idx(claim[q]) = k /\ claim[q] < claim[p]
      <4>1. claim[q] + Cap <= claim[p]
        BY <1>1, <3>1, <3>5, SameSlot DEF k
      <4>2. claim[q] \in 0..write_seq-1
        BY <1>1, <1>4, <3>1, <4>1, CapAssumption
      <4>3. Committed(claim[q])
        BY <4>2 DEF CoreInv, ContiguousPrefix
      <4> QED
        BY <1>1, <3>1, <3>2, <4>3 DEF Committed
    <3> QED
      BY <1>1, <3>1, <3>3, <3>4, <3>5
  <2> QED
    BY <1>2, <2>1 DEF ClaimShape
<1>13. ScanShape'
  BY <1>2, <1>3 DEF CoreInv, ScanShape
<1>14. HelpShape'
  <2>1. \A q \in Producers : w[q] \in Nat
    BY DEF CoreInv, TypeOK
  <2> QED
    BY <1>2, <1>7, <2>1 DEF CoreInv, HelpShape
<1> QED
  BY <1>9, <1>10, <1>11, <1>12, <1>13, <1>14 DEF CoreInv

LEMMA AdvCasCore ==
  ASSUME CoreInv, TypeOK', NEW p \in Producers, AdvCas(p)
  PROVE  CoreInv'
<1>1. /\ write_seq \in Nat /\ claim_seq \in Nat /\ claim \in [Producers -> Nat]
      /\ slot_seq \in [0..Cap-1 -> Nat] /\ w[p] \in Nat
      /\ min_read \in [Producers -> Nat]
  BY DEF CoreInv, TypeOK
<1>2. /\ pc[p] = "adv_cas" /\ pc' = [pc EXCEPT ![p] = "adv_load"]
      /\ pc \in [Producers -> PcLabels]
      /\ UNCHANGED <<claim_seq, slot_seq, log, mode, claim, min_read, w>>
      /\ write_seq' = IF write_seq = w[p] THEN w[p] + 1 ELSE write_seq
  BY DEF CoreInv, TypeOK, AdvCas, At, Goto, ring, frame, hist
<1>3. /\ \A q \in Producers : (Holds(q)' <=> Holds(q)) /\ (Admitted(q)' <=> Admitted(q))
      /\ \A c : Committed(c)' <=> Committed(c)
  BY <1>2 DEF Holds, Admitted, Writing, Committed
<1>4. Committed(w[p])
  BY <1>2 DEF CoreInv, HelpShape
<1>5. w[p] < claim_seq
  <2>1. Idx(w[p]) \in 0..Cap-1
    BY <1>1, IdxType
  <2>2. slot_seq[Idx(w[p])] <= claim_seq
    BY <2>1 DEF CoreInv, SlotShape
  <2> QED
    BY <1>1, <1>4, <2>1, <2>2 DEF Committed
<1>6. write_seq' \in Nat /\ write_seq <= write_seq'
  BY <1>1, <1>2
<1>7. ContiguousPrefix'
  <2>1. ASSUME NEW c \in 0..write_seq'-1 PROVE Committed(c)
    <3>1. CASE c < write_seq
      BY <1>1, <3>1 DEF CoreInv, ContiguousPrefix
    <3>2. CASE c >= write_seq
      <4>1. c = w[p]
        BY <1>1, <1>2, <3>2
      <4> QED
        BY <1>4, <4>1
    <3> QED
      BY <1>1, <3>1, <3>2
  <2> QED
    BY <1>1, <1>2, <1>3, <1>5, <2>1 DEF CoreInv, ContiguousPrefix
<1>8. NoOrphanClaim'
  BY <1>2, <1>3 DEF CoreInv, NoOrphanClaim
<1>9. SlotShape'
  <2>1. ASSUME NEW j \in 0..Cap-1 PROVE slot_seq[j] <= write_seq' + Cap
    <3>1. slot_seq[j] <= write_seq + Cap /\ slot_seq[j] \in Nat
      BY <1>1 DEF CoreInv, SlotShape
    <3> QED
      BY <1>1, <1>6, <3>1, CapAssumption
  <2> QED
    BY <1>2, <2>1 DEF CoreInv, SlotShape
<1>10. ClaimShape'
  BY <1>2, <1>3 DEF CoreInv, ClaimShape
<1>11. ScanShape'
  <2> SUFFICES ASSUME NEW q \in Producers
               PROVE  /\ pc'[q] = "scan" => min_read[q] <= write_seq'
                      /\ Admitted(q) => claim[q] < write_seq' + Cap
    BY <1>2, <1>3 DEF ScanShape
  <2>1. /\ pc[q] = "scan" => min_read[q] <= write_seq
        /\ Admitted(q) => claim[q] < write_seq + Cap
        /\ min_read[q] \in Nat /\ claim[q] \in Nat
    BY <1>1 DEF CoreInv, ScanShape
  <2>2. pc'[q] = "scan" => pc[q] = "scan"
    BY <1>2
  <2> QED
    BY <1>1, <1>6, <2>1, <2>2, CapAssumption
<1>12. HelpShape'
  BY <1>2, <1>3 DEF CoreInv, HelpShape
<1> QED
  BY <1>7, <1>8, <1>9, <1>10, <1>11, <1>12 DEF CoreInv

LEMMA ProducerCore ==
  ASSUME CoreInv, TypeOK', NEW p \in Producers, ProducerStep(p)
  PROVE  CoreInv'
<1> DEFINE Others == \A q \in Producers \ {p} :
             /\ pc'[q] = pc[q] /\ mode'[q] = mode[q] /\ claim'[q] = claim[q]
             /\ min_read'[q] = min_read[q] /\ w'[q] = w[q]
           Shared == UNCHANGED <<write_seq, claim_seq, slot_seq, log>>
<1> USE DEF At, Goto
<1>0. /\ pc \in [Producers -> PcLabels]
      /\ mode \in [Producers -> {"idle", "publish", "try"}]
      /\ claim \in [Producers -> Nat] /\ w \in [Producers -> Nat]
      /\ min_read \in [Producers -> Nat] /\ write_seq \in Nat
  BY DEF CoreInv, TypeOK
<1>1. CASE LoadSubs(p)
  <2>1. Others /\ Shared
    BY <1>0, <1>1 DEF LoadSubs, header, ring, hist
  <2>2. /\ Holds(p)' <=> Holds(p)
        /\ claim'[p] = claim[p] /\ pc'[p] = "load_write" /\ ~Admitted(p)'
    BY <1>0, <1>1 DEF LoadSubs, Holds, Admitted, Writing
  <2> QED
    BY <2>1, <2>2, LocalStep
<1>2. CASE LoadWrite(p)
  <2>1. Others /\ Shared
    BY <1>0, <1>2 DEF LoadWrite, header, ring, hist
  <2>2. /\ Holds(p)' <=> Holds(p)
        /\ claim'[p] = claim[p] /\ pc'[p] = "scan" /\ ~Admitted(p)'
        /\ min_read'[p] = write_seq
    BY <1>0, <1>2 DEF LoadWrite, Holds, Admitted, Writing
  <2> QED
    BY <1>0, <2>1, <2>2, LocalStep
<1>3. CASE ScanCursor(p)
  <2>1. Others /\ Shared
    BY <1>0, <1>3 DEF ScanCursor, header, ring, hist
  <2>2. /\ Holds(p)' <=> Holds(p)
        /\ claim'[p] = claim[p] /\ pc'[p] = "scan" /\ ~Admitted(p)'
    BY <1>0, <1>3 DEF ScanCursor, Holds, Admitted, Writing
  <2>3. min_read[p] <= write_seq
    BY <1>3 DEF ScanCursor, CoreInv, ScanShape
  <2>4. i[p] \in 0..MaxSubs-1 /\ sub_read_seq[i[p]] \in Nat
    BY <1>3, MaxSubsAssumption DEF ScanCursor, CoreInv, TypeOK
  <2>5. min_read'[p] <= write_seq
    BY <1>0, <1>3, <2>3, <2>4 DEF ScanCursor, Lesser
  <2> QED
    BY <2>1, <2>2, <2>5, LocalStep
<1>4. CASE ScanPanic(p)
  <2>1. Others /\ Shared
    BY <1>0, <1>4 DEF ScanPanic, header, ring, hist, frame
  <2>2. /\ Holds(p)' <=> Holds(p)
        /\ claim'[p] = claim[p] /\ pc'[p] = "panicked" /\ ~Admitted(p)'
    BY <1>0, <1>4 DEF ScanPanic, Holds, Admitted, Writing, frame
  <2> QED
    BY <2>1, <2>2, LocalStep
<1>5. CASE Admit(p)
  <2>1. Others /\ Shared
    BY <1>0, <1>5 DEF Admit, EndScan, header, ring, hist
  <2>2. /\ Holds(p)' <=> Holds(p)
        /\ claim'[p] = claim[p] /\ pc'[p] \in {"copy", "cas"}
    BY <1>0, <1>5 DEF Admit, Holds
  <2>3. claim[p] < write_seq + Cap
    BY <1>0, <1>5, CapAssumption DEF Admit, HasRoom, CoreInv, ScanShape
  <2> QED
    BY <2>1, <2>2, <2>3, LocalStep
<1>6. CASE Retry(p)
  <2>1. Others /\ Shared
    BY <1>0, <1>6 DEF Retry, EndScan, header, ring, hist
  <2>2. /\ Holds(p)' <=> Holds(p)
        /\ claim'[p] = claim[p] /\ pc'[p] = "load_subs" /\ ~Admitted(p)'
    BY <1>0, <1>6 DEF Retry, Holds, Admitted, Writing
  <2> QED
    BY <2>1, <2>2, LocalStep
<1>7. ASSUME Return(p), Shared, ~Holds(p) PROVE CoreInv'
  <2>1. Others
    BY <1>0, <1>7 DEF Return
  <2>2. pc'[p] = "idle" /\ ~Holds(p)' /\ ~Admitted(p)'
    BY <1>0, <1>7 DEF Return, Holds, Admitted, Writing
  <2> QED
    BY <1>7, <2>1, <2>2, LocalStep
<1>8. CASE Backpressured(p)
  BY <1>7, <1>8 DEF Backpressured, Holds, header, ring, hist
<1>9. CASE Reserve(p)
  BY <1>9, ReserveCore
<1>10. CASE ReserveLost(p)
  BY <1>7, <1>10 DEF ReserveLost, Holds, header, ring, hist
<1>11. CASE Copy(p)
  <2>1. Others /\ Shared
    BY <1>0, <1>11 DEF Copy, header, hist, frame
  <2>2. /\ Holds(p)' /\ Holds(p) /\ Admitted(p)
        /\ claim'[p] = claim[p] /\ pc'[p] = "store"
    BY <1>0, <1>11 DEF Copy, Holds, Admitted, Writing, frame
  <2>3. claim[p] < write_seq + Cap
    BY <2>2 DEF CoreInv, ScanShape
  <2> QED
    BY <2>1, <2>2, <2>3, LocalStep
<1>12. CASE Commit(p)
  BY <1>12, CommitCore
<1>13. CASE AdvLoad(p)
  <2>1. Others /\ Shared
    BY <1>0, <1>13 DEF AdvLoad, header, ring, hist, scan
  <2>2. ~Holds(p)' /\ ~Holds(p) /\ ~Admitted(p)' /\ pc'[p] = "adv_check"
    BY <1>0, <1>13 DEF AdvLoad, Holds, Admitted, Writing
  <2> QED
    BY <2>1, <2>2, LocalStep
<1>14. CASE AdvCheck(p)
  <2>1. Others /\ Shared
    BY <1>0, <1>14 DEF AdvCheck, header, ring, hist, frame
  <2>2. ~Holds(p)' /\ ~Holds(p) /\ ~Admitted(p)' /\ pc'[p] = "adv_cas" /\ w' = w
    BY <1>0, <1>14 DEF AdvCheck, Holds, Admitted, Writing, frame
  <2>3. Committed(w'[p])
    BY <1>0, <1>14, <2>2 DEF AdvCheck, IsCommitted, Committed
  <2> QED
    BY <2>1, <2>2, <2>3, LocalStep
<1>15. CASE AdvDone(p)
  BY <1>7, <1>15 DEF AdvDone, Holds, header, ring, hist
<1>16. CASE AdvCas(p)
  BY <1>16, AdvCasCore
<1> QED
  BY <1>1, <1>2, <1>3, <1>4, <1>5, <1>6, <1>8, <1>9, <1>10, <1>11, <1>12, <1>13,
     <1>14, <1>15, <1>16 DEF ProducerStep

LEMMA NextCore == CoreInv /\ [Next]_vars => CoreInv'
<1> SUFFICES ASSUME CoreInv, [Next]_vars PROVE CoreInv'
  OBVIOUS
<1>1. TypeOK'
  BY NextType DEF CoreInv
<1>2. ASSUME NEW p \in Producers, Publish(p) \/ TryPublish(p) \/ ProducerStep(p)
      PROVE  CoreInv'
  BY <1>1, <1>2, PublishCore, TryPublishCore, ProducerCore
<1>3. ASSUME NEW s \in Subscribers, Subscribe(s) \/ SubscriberStep(s)
      PROVE  CoreInv'
  <2>1. UNCHANGED <<write_seq, claim_seq, slot_seq, log, pc, mode, claim,
                    min_read, w>>
    BY <1>3 DEF Subscribe, SubscriberStep, JoinLoad, JoinStore, Poll, CopyOut,
                CopyTooLarge, Advance, header, ring, frame, hist
  <2> QED
    BY <1>1, <2>1, OutsideStep
<1>4. ASSUME NEW x \in Producers \cup Subscribers, Crash(x) PROVE CoreInv'
  BY <1>1, <1>4, OutsideStep DEF Crash, header, ring, frame, hist
<1>5. CASE UNCHANGED vars
  BY <1>1, <1>5, OutsideStep DEF vars
<1> QED
  BY <1>2, <1>3, <1>4, <1>5 DEF Next

(* The strengthening that carries the producers' safety.                   *)
THEOREM CoreInvariant == Spec => []CoreInv
<1>1. Init => CoreInv
  BY InitCore
<1>2. CoreInv /\ [Next]_vars => CoreInv'
  BY NextCore
<1> QED
  BY <1>1, <1>2, PTL DEF Spec

(* Everything below write_seq is committed, for any number of helpers, any *)
(* interleaving of their exchanges, and any crash.                         *)
THEOREM PrefixCorrect == Spec => []ContiguousPrefix
<1>1. CoreInv => ContiguousPrefix
  BY DEF CoreInv
<1> QED
  BY <1>1, CoreInvariant, PTL

(* Every sequence number taken is committed or held by exactly one call,   *)
(* under way or dead: killed, or panicked in its scan.                     *)
THEOREM ClaimsCorrect == Spec => []NoOrphanClaim
<1>1. CoreInv => NoOrphanClaim
  BY DEF CoreInv
<1> QED
  BY <1>1, CoreInvariant, PTL

LEMMA CoreExclusive == CoreInv => SlotExclusive
<1> SUFFICES ASSUME CoreInv, NEW p \in Producers, NEW q \in Producers,
                    p # q, Writing(p), Writing(q), Idx(claim[p]) = Idx(claim[q])
             PROVE  FALSE
  BY DEF SlotExclusive
<1>1. ASSUME NEW r \in Producers, Writing(r)
      PROVE  /\ Holds(r) /\ claim[r] \in Nat /\ claim[r] < write_seq + Cap
             /\ ~Committed(claim[r]) /\ claim[r] >= write_seq
  <2>1. Holds(r) /\ Admitted(r) /\ claim[r] \in Nat /\ write_seq \in Nat
    BY <1>1 DEF Holds, Admitted, Writing, CoreInv, TypeOK
  <2>2. claim[r] < write_seq + Cap /\ slot_seq[Idx(claim[r])] <= claim[r]
    BY <2>1 DEF CoreInv, ScanShape, ClaimShape
  <2>3. slot_seq[Idx(claim[r])] \in Nat
    BY <2>1, IdxType DEF CoreInv, TypeOK
  <2>4. ~Committed(claim[r])
    BY <2>1, <2>2, <2>3 DEF Committed
  <2> QED
    BY <2>1, <2>2, <2>4 DEF CoreInv, ContiguousPrefix
<1>2. claim[p] # claim[q]
  BY <1>1 DEF CoreInv, NoOrphanClaim
<1>3. write_seq \in Nat
  BY DEF CoreInv, TypeOK
<1>4. CASE claim[p] < claim[q]
  BY <1>1, <1>3, <1>4, DistinctSlots, CapAssumption
<1>5. CASE claim[q] < claim[p]
  BY <1>1, <1>3, <1>5, DistinctSlots, CapAssumption
<1> QED
  BY <1>1, <1>2, <1>4, <1>5

(* No two producers are ever inside the same slot.                         *)
THEOREM ExclusionCorrect == Spec => []SlotExclusive
BY CoreExclusive, CoreInvariant, PTL
=============================================================================
