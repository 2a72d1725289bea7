-------------------------- MODULE BusReaderProofs --------------------------
(***************************************************************************)
(* Theorems about the subscribers of the ring, for every number of         *)
(* threads, slots and cursors, with deaths and refusals, as long as nobody *)
(* subscribes while a publish runs.                                        *)
(***************************************************************************)
EXTENDS BusProofs

USE DEF AdvPcs, ScanPcs, WritePcs, PcLabels, JoinedPcs, SpcLabels

LEMMA InitReader == Init => ReaderInv
<1> SUFFICES ASSUME Init PROVE ReaderInv
  OBVIOUS
<1>1. CoreInv
  BY InitCore
<1>2. IdShape /\ CoverShape /\ LapShape /\ CopyShape
  BY MaxSubsAssumption DEF Init, IdShape, CoverShape, LapShape, CopyShape, Enrolled,
                           Started, Joined
<1> QED
  BY <1>1, <1>2 DEF ReaderInv

LEMMA ProducerKeeps ==
  ASSUME NEW p \in Producers, Publish(p) \/ TryPublish(p) \/ ProducerStep(p)
  PROVE  UNCHANGED <<n_subs, sub_read_seq, spc, sub_id, start, crashed>>
BY DEF Publish, TryPublish, Call, ProducerStep, LoadSubs, LoadWrite, ScanCursor,
       ScanPanic, Admit, Retry, Backpressured, Reserve, ReserveLost, Copy, Commit,
       AdvLoad, AdvCheck, AdvDone, AdvCas, header, reader

LEMMA SubscriberKeeps ==
  ASSUME NEW s \in Subscribers, Subscribe(s) \/ SubscriberStep(s)
  PROVE  UNCHANGED <<write_seq, claim_seq, slot_seq, pc, mode, claim, n, min_read, i,
                     crashed>>
BY DEF Subscribe, SubscriberStep, JoinLoad, JoinStore, Poll, CopyOut, CopyTooLarge,
       Advance, header, ring, frame

\* The steps of a subscriber, as far as ids and cursors are concerned.
LEMMA SubscriberMoves ==
  ASSUME TypeOK, NEW s \in Subscribers, Subscribe(s) \/ SubscriberStep(s)
  PROVE  \/ /\ spc[s] = "new" /\ SlotLeft /\ spc' = [spc EXCEPT ![s] = "join_load"]
            /\ sub_id' = [sub_id EXCEPT ![s] = n_subs] /\ n_subs' = n_subs + 1
            /\ UNCHANGED <<sub_read_seq, start>>
            /\ JoinAnytime \/ \A p \in Producers : Live(p) => pc[p] \in {"idle", "panicked"}
         \/ /\ spc[s] = "new" /\ ~SlotLeft /\ spc' = [spc EXCEPT ![s] = "refused"]
            /\ n_subs' = n_subs + 1
            /\ UNCHANGED <<sub_read_seq, start, sub_id>>
            /\ JoinAnytime \/ \A p \in Producers : Live(p) => pc[p] \in {"idle", "panicked"}
         \/ /\ spc[s] = "join_load" /\ spc' = [spc EXCEPT ![s] = "join_store"]
            /\ start' = [start EXCEPT ![s] = write_seq]
            /\ UNCHANGED <<sub_read_seq, sub_id, n_subs>>
         \/ /\ spc[s] = "join_store" /\ spc' = [spc EXCEPT ![s] = "ready"]
            /\ sub_read_seq' = [sub_read_seq EXCEPT ![sub_id[s]] = start[s]]
            /\ UNCHANGED <<start, sub_id, n_subs>>
         \/ /\ spc[s] = "ready" /\ IsCommitted(Cursor(s))
            /\ spc' = [spc EXCEPT ![s] = "copying"]
            /\ UNCHANGED <<sub_read_seq, start, sub_id, n_subs>>
         \/ /\ spc[s] = "copying" /\ spc' \in {[spc EXCEPT ![s] = "advance"],
                                              [spc EXCEPT ![s] = "ready"]}
            /\ UNCHANGED <<sub_read_seq, start, sub_id, n_subs>>
         \/ /\ spc[s] = "advance" /\ spc' = [spc EXCEPT ![s] = "ready"]
            /\ sub_read_seq' = [sub_read_seq EXCEPT ![sub_id[s]] = @ + 1]
            /\ UNCHANGED <<start, sub_id, n_subs>>
<1>1. CASE Subscribe(s)
  BY <1>1 DEF Subscribe, SAt, SGoto
<1>2. CASE JoinLoad(s)
  BY <1>2 DEF JoinLoad, SAt, SGoto, header
<1>3. CASE JoinStore(s)
  BY <1>3 DEF JoinStore, SAt, SGoto
<1>4. CASE Poll(s)
  BY <1>4 DEF Poll, SAt, SGoto, header
<1>5. CASE CopyOut(s)
  BY <1>5 DEF CopyOut, SAt, SGoto, header
<1>6. CASE CopyTooLarge(s)
  BY <1>6 DEF CopyTooLarge, SAt, SGoto, header
<1>7. CASE Advance(s)
  BY <1>7 DEF Advance, SAt, SGoto
<1> QED
  BY <1>1, <1>2, <1>3, <1>4, <1>5, <1>6, <1>7 DEF SubscriberStep

\* Cursors only grow, and ids stay what they are.
LEMMA SubscriberIds ==
  ASSUME TypeOK, TypeOK', IdShape, NEW s \in Subscribers,
         Subscribe(s) \/ SubscriberStep(s)
  PROVE  /\ IdShape'
         /\ \A j \in 0..MaxSubs-1 : sub_read_seq'[j] >= sub_read_seq[j]
<1> USE MaxSubsAssumption
<1>0. /\ n_subs \in Nat /\ sub_read_seq \in [0..MaxSubs-1 -> Nat]
      /\ spc \in [Subscribers -> SpcLabels] /\ sub_id \in [Subscribers -> Nat]
      /\ start \in [Subscribers -> Nat]
      /\ \A t \in Subscribers : Enrolled(t) => sub_id[t] \in 0..MaxSubs-1
  BY DEF TypeOK
<1>1. ASSUME spc[s] = "new", SlotLeft, spc' = [spc EXCEPT ![s] = "join_load"],
             sub_id' = [sub_id EXCEPT ![s] = n_subs], n_subs' = n_subs + 1,
             sub_read_seq' = sub_read_seq
      PROVE  IdShape'
  <2>1. sub_id'[s] = n_subs /\ \A t \in Subscribers \ {s} : sub_id'[t] = sub_id[t]
    BY <1>0, <1>1
  <2>2. \A t \in Subscribers \ {s} : spc'[t] = spc[t]
    BY <1>0, <1>1
  <2>3. sub_read_seq[n_subs] = 0
    BY <1>0, <1>1 DEF IdShape, SlotLeft
  <2>4. \A t \in Subscribers \ {s} : Enrolled(t) => sub_id[t] < n_subs
    BY DEF IdShape
  <2>5. \A t \in Subscribers : Enrolled(t)' => sub_id'[t] < n_subs'
    BY <1>0, <1>1, <2>1, <2>2, <2>4 DEF Enrolled
  <2>6. \A t, u \in Subscribers :
          t # u /\ Enrolled(t)' /\ Enrolled(u)' => sub_id'[t] # sub_id'[u]
    <3>1. \A t \in Subscribers \ {s} : Enrolled(t)' => Enrolled(t) /\ sub_id[t] \in Nat
      BY <1>0, <2>2 DEF Enrolled
    <3>2. \A t \in Subscribers \ {s} : Enrolled(t)' => sub_id'[t] # sub_id'[s]
      BY <1>0, <2>1, <2>4, <3>1
    <3> QED
      BY <2>1, <3>1, <3>2 DEF IdShape
  <2>7. \A t \in Subscribers : spc'[t] \in {"join_load", "join_store"} => Cursor(t)' = 0
    BY <1>1, <2>1, <2>2, <2>3 DEF IdShape, Cursor
  <2>8. \A j \in 0..MaxSubs-1 : j >= n_subs' => sub_read_seq'[j] = 0
    BY <1>0, <1>1 DEF IdShape
  <2> QED
    BY <2>5, <2>6, <2>7, <2>8 DEF IdShape
<1>2. ASSUME spc[s] = "new", spc' = [spc EXCEPT ![s] = "refused"],
             n_subs' = n_subs + 1, UNCHANGED <<sub_id, sub_read_seq>>
      PROVE  IdShape'
  BY <1>0, <1>2 DEF IdShape, Enrolled, Cursor
<1>3. ASSUME Enrolled(s), spc' \in {[spc EXCEPT ![s] = "join_store"], [spc EXCEPT ![s] = "ready"],
                        [spc EXCEPT ![s] = "copying"], [spc EXCEPT ![s] = "advance"]},
             spc'[s] = "join_store" => spc[s] = "join_load",
             UNCHANGED <<n_subs, sub_id, sub_read_seq>>
      PROVE  IdShape'
  <2>1. \A t \in Subscribers : Enrolled(t)' <=> Enrolled(t)
    BY <1>0, <1>3 DEF Enrolled
  <2>2. \A t \in Subscribers : spc'[t] \in {"join_load", "join_store"} =>
                                 spc[t] \in {"join_load", "join_store"}
    BY <1>0, <1>3
  <2> QED
    BY <1>3, <2>1, <2>2 DEF IdShape, Cursor
<1>4. ASSUME NEW v \in Nat, Enrolled(s), spc' = [spc EXCEPT ![s] = "ready"],
             sub_read_seq' = [sub_read_seq EXCEPT ![sub_id[s]] = v],
             UNCHANGED <<n_subs, sub_id>>
      PROVE  IdShape'
  <2>1. \A t \in Subscribers : Enrolled(t)' <=> Enrolled(t)
    BY <1>0, <1>4 DEF Enrolled
  <2>2. \A j \in 0..MaxSubs-1 : j # sub_id[s] => sub_read_seq'[j] = sub_read_seq[j]
    BY <1>0, <1>4
  <2>3. \A t \in Subscribers : spc'[t] \in {"join_load", "join_store"} => Cursor(t)' = 0
    <3> SUFFICES ASSUME NEW t \in Subscribers, spc'[t] \in {"join_load", "join_store"}
                 PROVE  sub_read_seq'[sub_id'[t]] = 0
      BY DEF Cursor
    <3>1. t # s /\ spc'[t] = spc[t]
      BY <1>0, <1>4
    <3>2. Enrolled(t) /\ sub_id[t] # sub_id[s] /\ sub_id[t] \in 0..MaxSubs-1
      BY <1>0, <1>4, <3>1 DEF Enrolled, IdShape
    <3> QED
      BY <1>4, <2>2, <3>1, <3>2 DEF IdShape, Cursor
  <2>4. \A j \in 0..MaxSubs-1 : j >= n_subs' => sub_read_seq'[j] = 0
    BY <1>0, <1>4, <2>2 DEF IdShape
  <2> QED
    BY <1>4, <2>1, <2>3, <2>4 DEF IdShape
<1>5. ASSUME NEW v \in Nat, Enrolled(s), v >= sub_read_seq[sub_id[s]],
             sub_read_seq' = [sub_read_seq EXCEPT ![sub_id[s]] = v]
      PROVE  \A j \in 0..MaxSubs-1 : sub_read_seq'[j] >= sub_read_seq[j]
  <2> TAKE j \in 0..MaxSubs-1
  <2>1. sub_read_seq[j] \in Nat
    BY <1>0
  <2>2. CASE j = sub_id[s]
    BY <1>0, <1>5, <2>2
  <2>3. CASE j # sub_id[s]
    <3>1. sub_read_seq'[j] = sub_read_seq[j]
      BY <1>0, <1>5, <2>3
    <3> QED
      BY <2>1, <3>1
  <2> QED
    BY <2>2, <2>3
<1>6. CASE UNCHANGED sub_read_seq
  <2>1. IdShape'
    BY <1>0, <1>1, <1>2, <1>3, <1>4, <1>6, SubscriberMoves DEF Enrolled
  <2> QED
    BY <1>0, <1>6, <2>1
<1>7. CASE spc[s] = "join_store" /\ spc' = [spc EXCEPT ![s] = "ready"]
           /\ sub_read_seq' = [sub_read_seq EXCEPT ![sub_id[s]] = start[s]]
           /\ UNCHANGED <<start, sub_id, n_subs>>
  <2>1. Enrolled(s) /\ start[s] \in Nat /\ sub_read_seq[sub_id[s]] = 0
    BY <1>0, <1>7 DEF Enrolled, IdShape, Cursor
  <2>2. IdShape'
    BY <1>4, <1>7, <2>1
  <2>3. start[s] >= sub_read_seq[sub_id[s]]
    BY <2>1
  <2> QED
    BY <1>5, <1>7, <2>1, <2>2, <2>3
<1>8. CASE spc[s] = "advance" /\ spc' = [spc EXCEPT ![s] = "ready"]
           /\ sub_read_seq' = [sub_read_seq EXCEPT ![sub_id[s]] = @ + 1]
           /\ UNCHANGED <<start, sub_id, n_subs>>
  <2> DEFINE v == sub_read_seq[sub_id[s]] + 1
  <2>1. Enrolled(s)
    BY <1>8 DEF Enrolled
  <2>2. v \in Nat /\ v >= sub_read_seq[sub_id[s]]
    <3>1. sub_read_seq[sub_id[s]] \in Nat
      BY <1>0, <2>1
    <3> QED
      BY <3>1
  <2>3. sub_read_seq' = [sub_read_seq EXCEPT ![sub_id[s]] = v]
    BY <1>8
  <2> HIDE DEF v
  <2>4. IdShape'
    BY <1>4, <1>8, <2>1, <2>2, <2>3
  <2> QED
    BY <1>5, <2>1, <2>2, <2>3, <2>4
<1> QED
  BY <1>6, <1>7, <1>8, SubscriberMoves

\* A step of one subscriber is no step of another, nor of its cursor.
LEMMA OtherSubscriber ==
  ASSUME TypeOK, IdShape, NEW s \in Subscribers, Subscribe(s) \/ SubscriberStep(s),
         NEW t \in Subscribers, t # s
  PROVE  /\ spc'[t] = spc[t] /\ start'[t] = start[t] /\ sub_id'[t] = sub_id[t]
         /\ Enrolled(t) => Cursor(t)' = Cursor(t)
<1>0. /\ sub_read_seq \in [0..MaxSubs-1 -> Nat]
      /\ spc \in [Subscribers -> SpcLabels] /\ sub_id \in [Subscribers -> Nat]
      /\ start \in [Subscribers -> Nat]
      /\ \A r \in Subscribers : Enrolled(r) => sub_id[r] \in 0..MaxSubs-1
  BY DEF TypeOK
<1>1. spc'[t] = spc[t] /\ start'[t] = start[t] /\ sub_id'[t] = sub_id[t]
  BY <1>0, SubscriberMoves
<1>2. ASSUME Enrolled(t) PROVE sub_read_seq'[sub_id[t]] = sub_read_seq[sub_id[t]]
  <2>1. Enrolled(s) => sub_id[t] # sub_id[s]
    BY <1>2 DEF IdShape
  <2>2. CASE Enrolled(s)
    BY <1>0, <1>2, <2>1, <2>2, SubscriberMoves
  <2>3. CASE ~Enrolled(s)
    BY <1>0, <2>3, SubscriberMoves DEF Enrolled
  <2> QED
    BY <2>2, <2>3
<1> QED
  BY <1>1, <1>2 DEF Cursor

\* What a subscriber's position can do: start behind the prefix, and grow.
LEMMA PositionGrows ==
  ASSUME TypeOK, TypeOK', IdShape, NEW s \in Subscribers,
         Subscribe(s) \/ SubscriberStep(s), NEW t \in Subscribers, Started(t)'
  PROVE  \/ ~Started(t) /\ Position(t)' = write_seq
         \/ Started(t) /\ Position(t)' >= Position(t) /\ Position(t) \in Nat
<1>0. /\ sub_read_seq \in [0..MaxSubs-1 -> Nat]
      /\ spc \in [Subscribers -> SpcLabels] /\ sub_id \in [Subscribers -> Nat]
      /\ start \in [Subscribers -> Nat]
      /\ \A r \in Subscribers : Enrolled(r) => sub_id[r] \in 0..MaxSubs-1
  BY DEF TypeOK
<1>1. \A j \in 0..MaxSubs-1 : sub_read_seq'[j] >= sub_read_seq[j]
  BY SubscriberIds
<1>2. CASE t = s
  <2>1. CASE spc[s] = "new"
    BY <1>0, <1>2, <2>1, SubscriberMoves DEF Started, Joined
  <2>2. CASE spc[s] = "join_load"
    BY <1>0, <1>2, <2>2, SubscriberMoves DEF Started, Joined, Position
  <2>3. CASE spc[s] = "join_store"
    <3>1. /\ spc'[s] = "ready" /\ sub_id'[s] = sub_id[s]
          /\ sub_read_seq' = [sub_read_seq EXCEPT ![sub_id[s]] = start[s]]
      BY <1>0, <2>3, SubscriberMoves
    <3>2. sub_id[s] \in 0..MaxSubs-1
      BY <1>0, <2>3 DEF Enrolled
    <3> QED
      BY <1>0, <1>2, <2>3, <3>1, <3>2 DEF Started, Joined, Position, Cursor
  <2>4. CASE Joined(s)
    <3>1. Joined(s)' /\ sub_id'[s] = sub_id[s]
      BY <1>0, <2>4, SubscriberMoves DEF Joined
    <3>2. sub_id[s] \in 0..MaxSubs-1
      BY <1>0, <2>4 DEF Enrolled, Joined
    <3> QED
      BY <1>0, <1>1, <1>2, <2>4, <3>1, <3>2 DEF Started, Position, Cursor
  <2>5. CASE spc[s] = "refused"
    BY <2>5, SubscriberMoves
  <2> QED
    BY <1>0, <2>1, <2>2, <2>3, <2>4, <2>5 DEF Joined
<1>3. CASE t # s
  <2>1. spc'[t] = spc[t] /\ start'[t] = start[t] /\ sub_id'[t] = sub_id[t]
    BY <1>0, <1>3, SubscriberMoves
  <2>2. Started(t) /\ (Joined(t)' <=> Joined(t))
    BY <2>1 DEF Started, Joined
  <2>3. sub_id[t] \in 0..MaxSubs-1
    BY <1>0, <2>2 DEF Enrolled, Started, Joined
  <2> QED
    BY <1>0, <1>1, <2>1, <2>2, <2>3 DEF Position, Cursor
<1> QED
  BY <1>2, <1>3

-----------------------------------------------------------------------------
(* The steps of a subscriber.                                              *)

LEMMA SubscriberCover ==
  ASSUME JoinAnytime = FALSE, ReaderInv, TypeOK', NEW s \in Subscribers,
         Subscribe(s) \/ SubscriberStep(s)
  PROVE  CoverShape'
<1>0. TypeOK /\ IdShape /\ CoverShape
  BY DEF ReaderInv, CoreInv
<1>1. UNCHANGED <<pc, n, min_read, i, crashed>>
  BY SubscriberKeeps
<1>2. CASE \A p \in Producers : Live(p) => pc[p] \in {"idle", "panicked"}
  BY <1>1, <1>2 DEF CoverShape, Live
<1>3. CASE n_subs' = n_subs
  <2>1. \A j \in 0..MaxSubs-1 : sub_read_seq'[j] >= sub_read_seq[j]
    BY <1>0, SubscriberIds
  <2>2. \A j \in 0..MaxSubs-1 : sub_read_seq[j] \in Nat /\ sub_read_seq'[j] \in Nat
    BY <1>0 DEF TypeOK
  <2>3. min_read \in [Producers -> Nat]
    BY <1>0 DEF TypeOK
  <2> SUFFICES ASSUME NEW p \in Producers, Live(p)
               PROVE  /\ pc[p] \in ScanPcs => n[p] = n_subs
                      /\ pc[p] = "scan" => \A j \in 0..MaxSubs-1 :
                           j < i[p] => min_read[p] <= sub_read_seq'[j]
    BY <1>1, <1>3 DEF CoverShape, Live
  <2>4. pc[p] \in ScanPcs => n[p] = n_subs
    BY <1>0 DEF CoverShape
  <2>5. ASSUME pc[p] = "scan", NEW j \in 0..MaxSubs-1, j < i[p]
        PROVE  min_read[p] <= sub_read_seq'[j]
    <3>1. min_read[p] <= sub_read_seq[j]
      BY <1>0, <2>5 DEF CoverShape
    <3> QED
      BY <2>1, <2>2, <2>3, <3>1
  <2> QED
    BY <2>4, <2>5
<1> QED
  BY <1>0, <1>2, <1>3, SubscriberMoves

LEMMA SubscriberLap ==
  ASSUME ReaderInv, TypeOK', NEW s \in Subscribers, Subscribe(s) \/ SubscriberStep(s)
  PROVE  LapShape'
<1>0. /\ TypeOK /\ IdShape /\ LapShape /\ ScanShape /\ SlotShape
      /\ write_seq \in Nat /\ claim \in [Producers -> Nat]
      /\ slot_seq \in [0..Cap-1 -> Nat]
  BY DEF ReaderInv, CoreInv, TypeOK
<1>1. UNCHANGED <<write_seq, slot_seq, pc, claim>>
  BY SubscriberKeeps
<1> SUFFICES ASSUME NEW t \in Subscribers, Started(t)'
             PROVE  /\ \A p \in Producers : Admitted(p) => claim[p] < Position(t)' + Cap
                    /\ \A k \in 0..Cap-1 : slot_seq[k] <= Position(t)' + Cap
  BY <1>1 DEF LapShape, Admitted, Writing
<1>2. Position(t)' \in Nat
  BY DEF TypeOK, Position, Cursor, Started, Joined, Enrolled
<1>3. CASE ~Started(t) /\ Position(t)' = write_seq
  BY <1>0, <1>3 DEF ScanShape, SlotShape
<1>4. CASE Started(t) /\ Position(t)' >= Position(t) /\ Position(t) \in Nat
  <2>1. \A p \in Producers : Admitted(p) => claim[p] < Position(t) + Cap
    BY <1>0, <1>4 DEF LapShape
  <2>2. \A k \in 0..Cap-1 : slot_seq[k] <= Position(t) + Cap
    BY <1>0, <1>4 DEF LapShape
  <2> QED
    BY <1>0, <1>2, <1>4, <2>1, <2>2, CapAssumption
<1> QED
  BY <1>0, <1>3, <1>4, PositionGrows

LEMMA SubscriberCopy ==
  ASSUME ReaderInv, TypeOK', NEW s \in Subscribers, Subscribe(s) \/ SubscriberStep(s)
  PROVE  CopyShape'
<1>0. /\ TypeOK /\ IdShape /\ CopyShape
      /\ sub_read_seq \in [0..MaxSubs-1 -> Nat]
      /\ spc \in [Subscribers -> SpcLabels] /\ sub_id \in [Subscribers -> Nat]
      /\ slot_seq \in [0..Cap-1 -> Nat]
      /\ \A r \in Subscribers : Enrolled(r) => sub_id[r] \in 0..MaxSubs-1
  BY DEF ReaderInv, CoreInv, TypeOK
<1>1. slot_seq' = slot_seq
  BY SubscriberKeeps
<1> SUFFICES ASSUME NEW t \in Subscribers, spc'[t] \in {"copying", "advance"}
             PROVE  Committed(Cursor(t)')
  BY <1>1 DEF CopyShape, Committed
<1>2. CASE t = s
  <2>1. Cursor(s)' = Cursor(s) /\ spc[s] \in {"ready", "copying"}
    BY <1>0, <1>2, SubscriberMoves DEF Cursor
  <2>2. CASE spc[s] = "ready"
    <3>1. IsCommitted(Cursor(s))
      BY <1>0, <2>2, SubscriberMoves
    <3>2. Cursor(s) \in Nat
      BY <1>0, <2>2 DEF Cursor, Enrolled
    <3> QED
      BY <1>2, <2>1, <3>1, <3>2 DEF IsCommitted, Committed
  <2> QED
    BY <1>0, <1>2, <2>1, <2>2 DEF CopyShape
<1>3. CASE t # s
  <2>1. spc[t] = spc'[t] /\ Cursor(t)' = Cursor(t)
    BY <1>0, <1>3, OtherSubscriber DEF Enrolled
  <2> QED
    BY <1>0, <2>1 DEF CopyShape
<1> QED
  BY <1>2, <1>3

-----------------------------------------------------------------------------
(* The steps of a producer.                                                *)

LEMMA ProducerCover ==
  ASSUME ReaderInv, TypeOK', NEW p \in Producers,
         Publish(p) \/ TryPublish(p) \/ ProducerStep(p)
  PROVE  CoverShape'
<1>0. /\ CoverShape /\ n_subs \in Nat /\ sub_read_seq \in [0..MaxSubs-1 -> Nat]
      /\ pc \in [Producers -> PcLabels] /\ n \in [Producers -> Nat]
      /\ min_read \in [Producers -> Nat] /\ i \in [Producers -> 0..MaxSubs]
  BY DEF ReaderInv, CoreInv, TypeOK
<1>1. UNCHANGED <<n_subs, sub_read_seq, crashed>>
  BY ProducerKeeps
<1>2. \A q \in Producers \ {p} :
        pc'[q] = pc[q] /\ n'[q] = n[q] /\ min_read'[q] = min_read[q] /\ i'[q] = i[q]
  BY <1>0 DEF Publish, TryPublish, Call, ProducerStep, LoadSubs, LoadWrite, ScanCursor,
       ScanPanic, Admit, Retry, Backpressured, Reserve, ReserveLost, Copy, Commit,
       AdvLoad, AdvCheck, AdvDone, AdvCas, Return, EndScan, Goto, frame, scan
<1> DEFINE Covers == /\ pc'[p] \in ScanPcs => n'[p] = n_subs
                     /\ pc'[p] = "scan" => \A j \in 0..MaxSubs-1 :
                          j < i'[p] => min_read'[p] <= sub_read_seq[j]
<1>3. SUFFICES ASSUME Live(p) PROVE Covers
  <2>1. \A q \in Producers \ {p} : Live(q) =>
          /\ pc'[q] \in ScanPcs => n'[q] = n_subs
          /\ pc'[q] = "scan" => \A j \in 0..MaxSubs-1 :
               j < i'[q] => min_read'[q] <= sub_read_seq[j]
    BY <1>0, <1>2 DEF CoverShape
  <2> QED
    BY <1>1, <1>3, <2>1 DEF CoverShape, Live
<1>4. CASE LoadSubs(p)
  BY <1>0, <1>4 DEF LoadSubs, Goto
<1>5. CASE LoadWrite(p)
  <2>1. n'[p] = n[p] /\ i'[p] = 0 /\ pc[p] = "load_write"
    BY <1>0, <1>5 DEF LoadWrite, At
  <2> QED
    BY <1>0, <1>3, <2>1 DEF CoverShape
<1>6. CASE ScanCursor(p)
  <2>1. /\ pc[p] = "scan" /\ pc'[p] = "scan" /\ n'[p] = n[p]
        /\ i[p] \in 0..MaxSubs-1 /\ i'[p] = i[p] + 1
        /\ min_read'[p] = Lesser(sub_read_seq[i[p]], min_read[p])
    BY <1>0, <1>6, MaxSubsAssumption DEF ScanCursor, At
  <2>2. n[p] = n_subs
    BY <1>0, <1>3, <2>1 DEF CoverShape
  <2>3. min_read'[p] <= sub_read_seq[i[p]] /\ min_read'[p] <= min_read[p]
        /\ min_read'[p] \in Nat
    <3>1. sub_read_seq[i[p]] \in Nat /\ min_read[p] \in Nat
      BY <1>0, <2>1
    <3> QED
      BY <2>1, <3>1 DEF Lesser
  <2>4. ASSUME NEW j \in 0..MaxSubs-1, j < i'[p]
        PROVE  min_read'[p] <= sub_read_seq[j]
    <3>1. CASE j = i[p]
      BY <2>3, <3>1
    <3>2. CASE j < i[p]
      <4>1. min_read[p] <= sub_read_seq[j]
        BY <1>0, <1>3, <2>1, <3>2 DEF CoverShape
      <4>2. sub_read_seq[j] \in Nat /\ min_read[p] \in Nat
        BY <1>0
      <4> QED
        BY <2>3, <4>1, <4>2
    <3> QED
      BY <1>0, <2>1, <2>4, <3>1, <3>2
  <2> QED
    BY <2>1, <2>2, <2>4
<1>7. CASE ~(LoadSubs(p) \/ LoadWrite(p) \/ ScanCursor(p))
  <2>1. pc'[p] \notin ScanPcs
    BY <1>0, <1>7 DEF Publish, TryPublish, Call, ProducerStep, ScanPanic, Admit, Retry,
         Backpressured, Reserve, ReserveLost, Copy, Commit, AdvLoad, AdvCheck, AdvDone,
         AdvCas, Return, EndScan, Goto
  <2> QED
    BY <2>1
<1> QED
  BY <1>4, <1>5, <1>6, <1>7

\* A scan that has run to its end has found nobody it lets through behind it.
LEMMA ScanBehind ==
  ASSUME ReaderInv, NEW p \in Producers, Live(p), pc[p] = "scan", ScanDone(p),
         NEW s \in Subscribers, Started(s)
  PROVE  min_read[p] <= Position(s)
<1>0. /\ IdShape /\ CoverShape /\ n_subs \in Nat
      /\ sub_read_seq \in [0..MaxSubs-1 -> Nat] /\ sub_id \in [Subscribers -> Nat]
      /\ min_read[p] \in Nat /\ i[p] \in 0..MaxSubs /\ start[s] \in Nat
      /\ \A r \in Subscribers : Enrolled(r) => sub_id[r] \in 0..MaxSubs-1
  BY DEF ReaderInv, CoreInv, TypeOK
<1>1. Enrolled(s)
  BY DEF Started, Joined, Enrolled
<1>2. n[p] = n_subs /\ i[p] >= n_subs
  BY <1>0 DEF CoverShape, ScanDone
<1>3. sub_id[s] \in 0..MaxSubs-1 /\ sub_id[s] < n_subs
  BY <1>0, <1>1 DEF IdShape
<1>4. sub_id[s] < i[p]
  BY <1>0, <1>2, <1>3
<1>5. min_read[p] <= Cursor(s) /\ Cursor(s) \in Nat
  BY <1>0, <1>3, <1>4 DEF CoverShape, Cursor
<1>6. CASE Joined(s)
  BY <1>5, <1>6 DEF Position
<1>7. CASE spc[s] = "join_store"
  <2>1. Cursor(s) = 0
    BY <1>0, <1>7 DEF IdShape
  <2> QED
    BY <1>0, <1>5, <1>7, <2>1 DEF Position, Joined
<1> QED
  BY <1>6, <1>7 DEF Started

\* Which claims a step admits, and what it commits.
LEMMA ProducerLap ==
  ASSUME ReaderInv, TypeOK', NEW p \in Producers,
         Publish(p) \/ TryPublish(p) \/ ProducerStep(p)
  PROVE  LapShape'
<1>0. /\ LapShape /\ slot_seq \in [0..Cap-1 -> Nat] /\ spc \in [Subscribers -> SpcLabels]
      /\ pc \in [Producers -> PcLabels] /\ claim \in [Producers -> Nat]
      /\ min_read \in [Producers -> Nat] /\ start \in [Subscribers -> Nat]
  BY DEF ReaderInv, CoreInv, TypeOK
<1>1. UNCHANGED <<sub_read_seq, spc, sub_id, start>>
  BY ProducerKeeps
<1>2. \A q \in Producers \ {p} : pc'[q] = pc[q] /\ claim'[q] = claim[q]
  BY <1>0 DEF Publish, TryPublish, Call, ProducerStep, LoadSubs, LoadWrite, ScanCursor,
       ScanPanic, Admit, Retry, Backpressured, Reserve, ReserveLost, Copy, Commit,
       AdvLoad, AdvCheck, AdvDone, AdvCas, Return, EndScan, Goto, frame, scan
<1> SUFFICES ASSUME NEW s \in Subscribers, Started(s)
             PROVE  /\ \A q \in Producers : Admitted(q)' => claim'[q] < Position(s) + Cap
                    /\ \A k \in 0..Cap-1 : slot_seq'[k] <= Position(s) + Cap
  BY <1>1 DEF LapShape, Started, Joined, Position, Cursor
<1>3. Position(s) \in Nat
  BY DEF ReaderInv, CoreInv, TypeOK, Position, Cursor, Started, Joined, Enrolled
<1>4. /\ \A q \in Producers : Admitted(q) => claim[q] < Position(s) + Cap
      /\ \A k \in 0..Cap-1 : slot_seq[k] <= Position(s) + Cap
  BY <1>0 DEF LapShape
<1>5. ASSUME Admitted(p)' => claim'[p] < Position(s) + Cap
      PROVE  \A q \in Producers : Admitted(q)' => claim'[q] < Position(s) + Cap
  BY <1>2, <1>4, <1>5 DEF Admitted, Writing
<1>6. CASE Admit(p)
  <2>1. /\ Live(p) /\ pc[p] = "scan" /\ ScanDone(p) /\ claim'[p] = claim[p]
        /\ claim[p] < min_read[p] + Cap
    BY <1>6 DEF Admit, At, HasRoom
  <2>2. min_read[p] <= Position(s)
    BY <2>1, ScanBehind
  <2>3. claim'[p] < Position(s) + Cap
    BY <1>0, <1>3, <2>1, <2>2, CapAssumption
  <2>4. slot_seq' = slot_seq
    BY <1>6 DEF Admit, ring
  <2> QED
    BY <1>4, <1>5, <2>3, <2>4
<1>7. CASE Commit(p)
  <2>1. /\ Admitted(p) /\ ~Admitted(p)'
        /\ slot_seq' = [slot_seq EXCEPT ![Idx(claim[p])] = claim[p] + 1]
    BY <1>0, <1>7 DEF Commit, At, Goto, Admitted, Writing
  <2>2. claim[p] + 1 <= Position(s) + Cap
    BY <1>0, <1>3, <1>4, <2>1, CapAssumption
  <2> QED
    BY <1>0, <1>4, <1>5, <2>1, <2>2
<1>8. CASE Reserve(p) \/ Copy(p)
  <2>1. Admitted(p) /\ claim'[p] = claim[p] /\ slot_seq' = slot_seq
    BY <1>8 DEF Reserve, Copy, At, Admitted, Writing, frame, ring
  <2> QED
    BY <1>4, <1>5, <2>1
<1>9. CASE ~(Admit(p) \/ Commit(p) \/ Reserve(p) \/ Copy(p))
  <2>1. ~Admitted(p)' /\ slot_seq' = slot_seq
    BY <1>0, <1>9 DEF Publish, TryPublish, Call, ProducerStep, LoadSubs, LoadWrite,
         ScanCursor, ScanPanic, Retry, Backpressured, ReserveLost, AdvLoad, AdvCheck,
         AdvDone, AdvCas, Return, EndScan, Goto, At, ring, Admitted, Writing
  <2> QED
    BY <1>4, <1>5, <2>1
<1> QED
  BY <1>6, <1>7, <1>8, <1>9

\* No step of a producer takes a slot or a counter back.
LEMMA SlotsGrow ==
  ASSUME CoreInv, NEW p \in Producers,
         Publish(p) \/ TryPublish(p) \/ ProducerStep(p)
  PROVE  /\ \A k \in 0..Cap-1 : slot_seq'[k] >= slot_seq[k]
         /\ write_seq' >= write_seq /\ claim_seq' >= claim_seq
<1>0. /\ ClaimShape /\ slot_seq \in [0..Cap-1 -> Nat] /\ write_seq \in Nat
      /\ claim_seq \in Nat /\ claim \in [Producers -> Nat] /\ w \in [Producers -> Nat]
  BY DEF CoreInv, TypeOK
<1>1. write_seq' >= write_seq
  <2>1. CASE AdvCas(p)
    <3>1. w[p] \in Nat /\ write_seq' = IF write_seq = w[p] THEN w[p] + 1 ELSE write_seq
      BY <1>0, <2>1 DEF AdvCas
    <3> QED
      BY <1>0, <3>1
  <2>2. CASE ~AdvCas(p)
    <3>1. write_seq' = write_seq
      BY <2>2 DEF Publish, TryPublish, Call, ProducerStep, LoadSubs, LoadWrite,
           ScanCursor, ScanPanic, Admit, Retry, Backpressured, Reserve, ReserveLost,
           Copy, Commit, AdvLoad, AdvCheck, AdvDone, header
    <3> QED
      BY <1>0, <3>1
  <2> QED
    BY <2>1, <2>2
<1>2. claim_seq' >= claim_seq
  <2>1. claim_seq' \in {claim_seq, claim_seq + 1}
    BY DEF Publish, TryPublish, Call, ProducerStep, LoadSubs, LoadWrite, ScanCursor,
         ScanPanic, Admit, Retry, Backpressured, Reserve, ReserveLost, Copy, Commit,
         AdvLoad, AdvCheck, AdvDone, AdvCas, header
  <2> QED
    BY <1>0, <2>1
<1>3. \A k \in 0..Cap-1 : slot_seq'[k] >= slot_seq[k]
  <2>1. CASE Commit(p)
    <3>1. /\ Holds(p) /\ slot_seq' = [slot_seq EXCEPT ![Idx(claim[p])] = claim[p] + 1]
      BY <2>1 DEF Commit, At, Holds
    <3>2. slot_seq[Idx(claim[p])] <= claim[p] /\ Idx(claim[p]) \in 0..Cap-1
      BY <1>0, <3>1, IdxType DEF ClaimShape
    <3> QED
      BY <1>0, <3>1, <3>2
  <2>2. CASE ~Commit(p)
    <3>1. slot_seq' = slot_seq
      BY <2>2 DEF Publish, TryPublish, Call, ProducerStep, LoadSubs, LoadWrite, ScanCursor,
           ScanPanic, Admit, Retry, Backpressured, Reserve, ReserveLost, Copy, AdvLoad,
           AdvCheck, AdvDone, AdvCas, ring
    <3> QED
      BY <1>0, <3>1
  <2> QED
    BY <2>1, <2>2
<1> QED
  BY <1>1, <1>2, <1>3

LEMMA ProducerCopy ==
  ASSUME ReaderInv, TypeOK', NEW p \in Producers,
         Publish(p) \/ TryPublish(p) \/ ProducerStep(p)
  PROVE  CopyShape'
<1>0. CopyShape
  BY DEF ReaderInv
<1>1. UNCHANGED <<sub_read_seq, spc, sub_id>>
  BY ProducerKeeps
<1>2. \A k \in 0..Cap-1 : slot_seq'[k] >= slot_seq[k]
  BY SlotsGrow DEF ReaderInv
<1> SUFFICES ASSUME NEW s \in Subscribers, spc[s] \in {"copying", "advance"}
             PROVE  slot_seq'[Idx(Cursor(s))] >= Cursor(s) + 1
  BY <1>1 DEF CopyShape, Committed, Cursor
<1>3. Cursor(s) \in Nat
  BY DEF ReaderInv, CoreInv, TypeOK, Cursor, Enrolled
<1>4. slot_seq[Idx(Cursor(s))] >= Cursor(s) + 1
  BY <1>0 DEF CopyShape, Committed
<1>5. /\ Idx(Cursor(s)) \in 0..Cap-1
      /\ slot_seq[Idx(Cursor(s))] \in Nat /\ slot_seq'[Idx(Cursor(s))] \in Nat
  BY <1>3, IdxType DEF ReaderInv, CoreInv, TypeOK
<1> QED
  BY <1>2, <1>3, <1>4, <1>5

-----------------------------------------------------------------------------
(* The theorems.                                                           *)

LEMMA NextReader ==
  ASSUME JoinAnytime = FALSE, ReaderInv, [Next]_vars
  PROVE  ReaderInv'
<1>1. CoreInv' /\ TypeOK'
  BY NextCore DEF ReaderInv, CoreInv
<1>2. TypeOK /\ IdShape /\ CoverShape /\ LapShape /\ CopyShape
  BY DEF ReaderInv, CoreInv
<1>3. ASSUME NEW p \in Producers, Publish(p) \/ TryPublish(p) \/ ProducerStep(p)
      PROVE  ReaderInv'
  <2>1. IdShape'
    BY <1>2, <1>3, ProducerKeeps DEF IdShape, Enrolled, Cursor
  <2> QED
    BY <1>1, <1>3, <2>1, ProducerCover, ProducerLap, ProducerCopy DEF ReaderInv
<1>4. ASSUME NEW s \in Subscribers, Subscribe(s) \/ SubscriberStep(s)
      PROVE  ReaderInv'
  BY <1>1, <1>2, <1>4, SubscriberIds, SubscriberCover, SubscriberLap, SubscriberCopy
     DEF ReaderInv
<1>5. ASSUME NEW x \in Producers \cup Subscribers, Crash(x)
      PROVE  ReaderInv'
  <2>1. /\ UNCHANGED <<n_subs, sub_read_seq, spc, sub_id, start, pc, n, min_read, i,
                       claim, slot_seq>>
        /\ crashed' = crashed \cup {x}
    BY <1>5 DEF Crash, header, ring, frame, reader
  <2>2. IdShape' /\ LapShape' /\ CopyShape'
    BY <1>2, <2>1 DEF IdShape, LapShape, CopyShape, Enrolled, Started, Joined, Position,
                      Cursor, Admitted, Writing, Committed
  <2>3. CoverShape'
    BY <1>2, <2>1 DEF CoverShape, Live
  <2> QED
    BY <1>1, <2>2, <2>3 DEF ReaderInv
<1>6. CASE UNCHANGED vars
  <2>1. IdShape' /\ LapShape' /\ CopyShape' /\ CoverShape'
    BY <1>2, <1>6 DEF vars, IdShape, LapShape, CopyShape, CoverShape, Live, Enrolled,
                      Started, Joined, Position, Cursor, Admitted, Writing, Committed
  <2> QED
    BY <1>1, <2>1 DEF ReaderInv
<1> QED
  BY <1>3, <1>4, <1>5, <1>6 DEF Next

(* The invariant of the subscribers: ids are unique, a scan covers every   *)
(* subscriber there is, and nothing is a lap ahead of any of them, whatever *)
(* dies and whoever is refused.                                            *)
THEOREM ReaderInvariant ==
  ASSUME JoinAnytime = FALSE
  PROVE  Spec => []ReaderInv
<1>1. Init => ReaderInv
  BY InitReader
<1>2. ReaderInv /\ [Next]_vars => ReaderInv'
  BY NextReader
<1> QED
  BY <1>1, <1>2, PTL DEF Spec

LEMMA ReaderOverrun == ReaderInv => NoOverrun
<1> SUFFICES ASSUME ReaderInv, NEW s \in Subscribers, Joined(s)
             PROVE  /\ slot_seq[Idx(Cursor(s))] <= Cursor(s) + 1
                    /\ \A p \in Producers : Writing(p) => claim[p] < Cursor(s) + Cap
  BY DEF NoOverrun
<1> DEFINE c == Cursor(s)
           q == slot_seq[Idx(c)]
<1>1. c \in Nat
  BY DEF ReaderInv, CoreInv, TypeOK, Cursor, Joined, Enrolled
<1>2. Idx(c) \in 0..Cap-1 /\ q \in Nat
  BY <1>1, IdxType DEF ReaderInv, CoreInv, TypeOK
<1>3. /\ q <= c + Cap
      /\ \A p \in Producers : Writing(p) => claim[p] < c + Cap
  BY <1>2 DEF ReaderInv, LapShape, Started, Position, Admitted
<1>4. q # 0 => Idx(q - 1) = Idx(c)
  BY <1>2 DEF ReaderInv, CoreInv, SlotShape
<1>5. q <= c + 1
  <2> HIDE DEF c, q
  <2>1. SUFFICES ASSUME q > c + 1 PROVE FALSE
    BY <1>1, <1>2
  <2>2. q - 1 \in Nat /\ c < q - 1 /\ Idx(c) = Idx(q - 1)
    BY <1>1, <1>2, <1>4, <2>1
  <2>3. c + Cap <= q - 1
    BY <1>1, <2>2, SameSlot
  <2> QED
    BY <1>1, <1>2, <1>3, <2>3, CapAssumption
<1> QED
  BY <1>3, <1>5

(* "ensure we don't overrun slowest subscriber" (bus.rs:477): neither a    *)
(* committed message nor a producer in its slot is ever a lap past what a  *)
(* joined subscriber still has to read.                                    *)
THEOREM OverrunFree ==
  ASSUME JoinAnytime = FALSE
  PROVE  Spec => []NoOverrun
<1>1. Spec => []ReaderInv
  BY ReaderInvariant
<1> QED
  BY <1>1, ReaderOverrun, PTL

LEMMA ReaderAlone == ReaderInv => ReaderUndisturbed
<1> SUFFICES ASSUME ReaderInv, NEW p \in Producers, NEW s \in Subscribers, Writing(p),
                    spc[s] \in {"copying", "advance"}, Idx(claim[p]) = Idx(Cursor(s))
             PROVE  FALSE
  BY DEF ReaderUndisturbed
<1> DEFINE c == Cursor(s)
           d == claim[p]
           q == slot_seq[Idx(c)]
<1>1. c \in Nat /\ d \in Nat
  BY DEF ReaderInv, CoreInv, TypeOK, Cursor, Enrolled
<1>2. q \in Nat
  BY <1>1, IdxType DEF ReaderInv, CoreInv, TypeOK
<1>3. q <= d
  BY DEF ReaderInv, CoreInv, ClaimShape, Holds, Writing
<1>4. q >= c + 1
  BY DEF ReaderInv, CopyShape, Committed
<1>5. d < c + Cap
  BY DEF ReaderInv, LapShape, Started, Joined, Position, Admitted
<1>6. Idx(c) = Idx(d)
  OBVIOUS
<1> HIDE DEF c, d, q
<1>7. c < d
  BY <1>1, <1>2, <1>3, <1>4
<1>8. c + Cap <= d
  BY <1>1, <1>6, <1>7, SameSlot
<1> QED
  BY <1>1, <1>5, <1>8, CapAssumption

(* No payload is ever torn: a slot that a subscriber is copying out of has *)
(* no producer in it (bus.rs 559-573 against 438-447 and 497-508).         *)
THEOREM UndisturbedReads ==
  ASSUME JoinAnytime = FALSE
  PROVE  Spec => []ReaderUndisturbed
<1>1. Spec => []ReaderInv
  BY ReaderInvariant
<1> QED
  BY <1>1, ReaderAlone, PTL
=============================================================================
