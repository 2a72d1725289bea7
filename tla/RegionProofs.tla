---------------------------- MODULE RegionProofs ----------------------------
(***************************************************************************)
(* Theorems about the regions of BusRegion, for any number of creators and *)
(* openers with any geometries, any of which may end between two steps.    *)
(***************************************************************************)
EXTENDS RegionProperties, BusLayoutProofs

Pcs == InitPcs \cup {"new", "check_desc", "check_slot", "ready", "join", "joined", "gone"}
Calls == [at : {"none", "scan", "write", "advance"}, claim : 0..MaxClaims,
          cap : {0} \cup Descs]

\* The steps of publish and try_publish.
Publishing(p) ==
  Claim(p) \/ Admit(p) \/ Reserve(p) \/ ScanPanics(p) \/ Commit(p) \/ Advance(p)

-----------------------------------------------------------------------------
(* Types.                                                                  *)

LEMMA GeoType ==
  ASSUME NEW p \in Processes
  PROVE  /\ Geo[p].desc \in Nat \ {0} /\ Geo[p].slot \in Nat /\ Geo[p].desc \in Descs
         /\ 0..Geo[p].desc-1 \subseteq Indexes /\ Total(Geo[p]) \in Nat
<1>1. /\ Geo[p].desc \in Nat \ {0} /\ Geo[p].slot \in Nat
  BY GeoAssumption DEF NamedAccepts
<1>2. Geo[p].desc \in Descs /\ 0..Geo[p].desc-1 \subseteq Indexes
  BY DEF Descs, Indexes
<1>3. Total(Geo[p]) \in Nat
  <2>1. Geo[p].desc * Geo[p].slot \in Nat /\ Geo[p].desc * SlotSize \in Nat
    BY <1>1, LayoutAssumption
  <2>2. HeaderSize + Geo[p].desc * SlotSize \in Nat /\ CacheLine \in Nat \ {0}
    BY <2>1, LayoutAssumption
  <2>3. LayoutSize(Geo[p].desc) \in Nat
    BY <2>2, AlignUpBound DEF LayoutSize
  <2> QED
    BY <2>1, <2>3 DEF Total, NamedLength
<1> QED
  BY <1>1, <1>2, <1>3

LEMMA Cancel ==
  ASSUME NEW d \in Nat \ {0}, NEW x \in Nat, NEW y \in Nat, d * x = d * y
  PROVE  x = y
<1>1. ASSUME NEW a \in Nat, NEW b \in Nat, a < b PROVE d * a # d * b
  <2>1. PICK k \in Nat : b = a + 1 + k
    <3>1. b - a - 1 \in Nat /\ b = a + 1 + (b - a - 1)
      BY <1>1
    <3> QED
      BY <3>1
  <2>2. d * b = d * a + d + d * k
    BY <2>1
  <2>3. d * k \in Nat /\ d * a \in Nat
    OBVIOUS
  <2> QED
    BY <2>2, <2>3
<1> QED
  BY <1>1

LEMMA ModRange ==
  ASSUME NEW c \in Nat, NEW d \in Nat \ {0}
  PROVE  c % d \in 0..d-1
OBVIOUS

\* What the types say of the header, field by field.
LEMMA Header ==
  ASSUME TypeOK
  PROVE  /\ hdr.write_seq \in 0..MaxClaims /\ hdr.claim_seq \in 0..MaxClaims
         /\ hdr.desc \in {0} \cup Descs /\ hdr.slot \in Nat /\ hdr.n_subs \in Nat
         /\ hdr.sub_read_seq \in [0..MaxSubs-1 -> 0..MaxClaims]
         /\ MaxSubs \in Nat \ {0} /\ MaxClaims \in Nat
BY GeoAssumption DEF TypeOK

\* A publish takes place in a handle, and leaves everything else as it is, unless it
\* panics, which ends the process.
LEMMA PublishKeeps ==
  ASSUME TypeOK, NEW p \in Processes, Publishing(p)
  PROVE  /\ HasHandle(p) /\ UNCHANGED <<size, disturbed, torn>>
         /\ \A q \in Processes \ {p} :
              /\ pc'[q] = pc[q] /\ i'[q] = i[q] /\ id'[q] = id[q]
              /\ start'[q] = start[q] /\ call'[q] = call[q]
         /\ ScanPanics(p) => Ends(p) /\ UNCHANGED <<hdr, slot_seq>>
         /\ ~ScanPanics(p) => UNCHANGED <<pc, i, id, start>>
<1>1. /\ pc \in [Processes -> Pcs] /\ i \in [Processes -> Nat]
      /\ id \in [Processes -> -1..MaxSubs-1] /\ start \in [Processes -> 0..MaxClaims]
      /\ call \in [Processes -> Calls]
      /\ (call[p].at # "none" => HasHandle(p))
  BY DEF TypeOK, Pcs, Calls
<1>2. CASE ScanPanics(p)
  BY <1>1, <1>2 DEF ScanPanics, Ends, Goto
<1>3. CASE ~ScanPanics(p)
  <2>1. HasHandle(p) /\ UNCHANGED <<size, disturbed, torn, pc, i, id, start>>
    <3>1. Claim(p) \/ Admit(p) \/ Reserve(p) \/ Commit(p) \/ Advance(p)
      BY <1>3 DEF Publishing
    <3>2. call[p].at \in {"scan", "write", "advance"} => HasHandle(p)
      BY <1>1
    <3> QED
      BY <3>1, <3>2 DEF Claim, Admit, Reserve, Commit, Advance
  <2>2. \E c : call' = [call EXCEPT ![p] = c]
    <3>1. call' = call => call' = [call EXCEPT ![p] = call[p]]
      BY <1>1
    <3> QED
      BY <1>3, <3>1 DEF Publishing, Claim, Admit, Reserve, Commit, Advance
  <2>3. \A q \in Processes \ {p} : call'[q] = call[q]
    BY <1>1, <2>2
  <2> QED
    BY <1>3, <2>1, <2>3
<1> QED
  BY <1>2, <1>3

LEMMA OthersStay ==
  ASSUME TypeOK, NEW p \in Processes, Step(p)
  PROVE  \A q \in Processes \ {p} :
           /\ pc'[q] = pc[q] /\ i'[q] = i[q] /\ id'[q] = id[q] /\ start'[q] = start[q]
           /\ call'[q] = call[q]
           /\ q \in Creating' <=> q \in Creating
           /\ q \in InSession' <=> q \in InSession
<1>1. \A q \in Processes \ {p} :
        /\ pc'[q] = pc[q] /\ i'[q] = i[q] /\ id'[q] = id[q] /\ start'[q] = start[q]
        /\ call'[q] = call[q]
  <2>1. CASE Publishing(p)
    BY <2>1, PublishKeeps
  <2>2. CASE ~Publishing(p)
    BY <2>2 DEF TypeOK, Step, Create, Truncate, WriteZero, WriteDesc, WriteSlot, WriteSubs,
       WritesHeader, WriteSlotSeq, OpenNone, Open, CheckDesc, CheckSlot, Check, Subscribe,
       SubscribeStart, Receive, End, Ends, Goto, Publishing
  <2> QED
    BY <2>1, <2>2
<1> QED
  BY <1>1 DEF Creating, InSession

\* Where each step takes the process that makes it.
LEMMA Places ==
  ASSUME TypeOK, NEW p \in Processes, Step(p)
  PROVE  /\ pc' \in [Processes -> Pcs]
         /\ Create(p) => pc[p] = "new" /\ pc'[p] = "truncate"
         /\ Truncate(p) => pc[p] = "truncate" /\ pc'[p] = "zero"
         /\ WriteZero(p) => pc[p] = "zero" /\ pc'[p] = "desc"
         /\ WriteDesc(p) => pc[p] = "desc" /\ pc'[p] = "slot"
         /\ WriteSlot(p) => pc[p] = "slot" /\ pc'[p] = "subs"
         /\ WriteSubs(p) => pc[p] = "subs" /\ pc'[p] = "slots"
         /\ WriteSlotSeq(p) => /\ pc[p] = "slots"
                               /\ pc'[p] = (IF LastSlot(p) THEN "ready" ELSE "slots")
         /\ OpenNone(p) => pc[p] = "new" /\ pc'[p] = "gone"
         /\ Open(p) => pc[p] = "new" /\ pc'[p] = "check_desc"
         /\ CheckDesc(p) => pc[p] = "check_desc" /\ pc'[p] \in {"check_slot", "gone"}
         /\ CheckSlot(p) => pc[p] = "check_slot" /\ pc'[p] \in {"ready", "gone"}
         /\ Subscribe(p) => pc[p] = "ready" /\ pc'[p] \in {"join", "gone"}
         /\ SubscribeStart(p) => pc[p] = "join" /\ pc'[p] = "joined"
         /\ Publishing(p) => HasHandle(p) /\ pc'[p] \in {pc[p], "gone"}
         /\ Receive(p) => pc[p] = "joined" /\ pc'[p] = "joined"
         /\ End(p) => pc[p] \notin {"new", "gone"} /\ pc'[p] = "gone"
<1>1. pc \in [Processes -> Pcs]
  BY DEF TypeOK, Pcs
<1>2. Publishing(p) =>
        pc' \in [Processes -> Pcs] /\ HasHandle(p) /\ pc'[p] \in {pc[p], "gone"}
  BY <1>1, PublishKeeps DEF Ends, Goto, Pcs
<1>3. HasHandle(p) => pc[p] \in {"ready", "join", "joined"}
  BY DEF HasHandle
<1>4. CASE Publishing(p)
  BY <1>1, <1>2, <1>3, <1>4 DEF Create, Truncate, WriteZero, WriteDesc, WriteSlot, WriteSubs,
     WritesHeader, WriteSlotSeq, OpenNone, Open, CheckDesc, CheckSlot, Check, Subscribe,
     SubscribeStart, Receive, End, Ends, Goto, At, InSession, Pcs, InitPcs
<1>5. CASE ~Publishing(p)
  BY <1>1, <1>5 DEF Step, Create, Truncate, WriteZero, WriteDesc, WriteSlot, WriteSubs,
     WritesHeader, WriteSlotSeq, OpenNone, Open, CheckDesc, CheckSlot, Check, Subscribe,
     SubscribeStart, Receive, End, Ends, Goto, At, HasHandle, InSession, Pcs, InitPcs,
     Publishing
<1> QED
  BY <1>4, <1>5

\* Ending resets what a process has.
LEMMA EndsType ==
  ASSUME TypeOK, NEW p \in Processes, Ends(p),
         UNCHANGED <<size, hdr, slot_seq>>, disturbed' \subseteq Processes, torn' \in BOOLEAN
  PROVE  TypeOK'
<1>1. /\ pc' \in [Processes -> Pcs] /\ pc'[p] = "gone"
      /\ i' \in [Processes -> Nat] /\ i'[p] = 0
      /\ id' \in [Processes -> -1..MaxSubs-1] /\ id'[p] = -1
      /\ start' \in [Processes -> 0..MaxClaims]
      /\ \A q \in Processes : q # p => pc'[q] = pc[q] /\ i'[q] = i[q] /\ id'[q] = id[q]
  <2>1. pc \in [Processes -> Pcs] /\ "gone" \in Pcs /\ i \in [Processes -> Nat]
        /\ id \in [Processes -> -1..MaxSubs-1] /\ start \in [Processes -> 0..MaxClaims]
    BY DEF TypeOK, Pcs
  <2>2. -1 \in -1..MaxSubs-1 /\ 0 \in 0..MaxClaims /\ 0 \in Nat
    BY Header
  <2> QED
    BY <2>1, <2>2 DEF Ends, Goto
<1>2. \A q \in Processes :
        /\ i'[q] \in 0..Geo[q].desc-1 /\ (pc'[q] # "slots" => i'[q] = 0)
        /\ id'[q] # -1 <=> pc'[q] \in {"join", "joined"}
  <2>1. \A q \in Processes : 0 \in 0..Geo[q].desc-1
    BY GeoType
  <2> QED
    BY <1>1, <2>1 DEF TypeOK
<1>3. Creating' \subseteq Creators
  BY <1>1 DEF TypeOK, Creating, InitPcs
<1>4. /\ call' \in [Processes -> Calls]
      /\ \A q \in Processes : call'[q].at # "none" => HasHandle(q)' /\ call'[q].claim < MaxClaims
  <2>1. call \in [Processes -> Calls] /\ NoCall \in Calls /\ NoCall.at = "none"
    BY Header DEF TypeOK, Calls, NoCall
  <2>2. call' = [call EXCEPT ![p] = NoCall]
    BY DEF Ends
  <2> QED
    BY <1>1, <2>1, <2>2 DEF TypeOK, HasHandle
<1> QED
  BY <1>1, <1>2, <1>3, <1>4 DEF TypeOK, Pcs, Calls

\* Who goes on, or comes to have a handle, with nothing changed in any publish.
LEMMA CallsKept ==
  ASSUME TypeOK, NEW p \in Processes, call' = call,
         \A q \in Processes : q # p => pc'[q] = pc[q],
         HasHandle(p) => HasHandle(p)'
  PROVE  /\ call' \in [Processes -> Calls]
         /\ \A q \in Processes :
              call'[q].at # "none" => HasHandle(q)' /\ call'[q].claim < MaxClaims
<1>1. call \in [Processes -> Calls]
  BY DEF TypeOK, Calls
<1> QED
  BY <1>1 DEF TypeOK, HasHandle

\* A step that moves one process on, or nobody, and writes only the object.
LEMMA MovesType ==
  ASSUME TypeOK, NEW p \in Processes, NEW l \in Pcs, pc' = [pc EXCEPT ![p] = l],
         UNCHANGED <<i, id, start, call>>, disturbed' \subseteq Processes, torn' \in BOOLEAN,
         ~HasHandle(p), size' \in {Absent, 0} \cup {Total(Geo[q]) : q \in Creators},
         hdr' \in [write_seq : 0..MaxClaims, claim_seq : 0..MaxClaims, desc : {0} \cup Descs,
                   slot : Nat, n_subs : Nat, sub_read_seq : [0..MaxSubs-1 -> 0..MaxClaims]],
         slot_seq' \in [Indexes -> 0..MaxClaims],
         i[p] = 0, l \in {"join", "joined"} <=> pc[p] \in {"join", "joined"},
         l \in InitPcs => p \in Creators
  PROVE  TypeOK'
<1>1. /\ pc' \in [Processes -> Pcs] /\ pc'[p] = l
      /\ \A q \in Processes : q # p => pc'[q] = pc[q]
  BY DEF TypeOK, Pcs
<1>2. \A q \in Processes :
        /\ i'[q] \in 0..Geo[q].desc-1 /\ (pc'[q] # "slots" => i'[q] = 0)
        /\ id'[q] # -1 <=> pc'[q] \in {"join", "joined"}
  BY <1>1 DEF TypeOK
<1>3. Creating' \subseteq Creators
  BY <1>1 DEF TypeOK, Creating
<1>4. /\ call' \in [Processes -> Calls]
      /\ \A q \in Processes :
           call'[q].at # "none" => HasHandle(q)' /\ call'[q].claim < MaxClaims
  BY <1>1, CallsKept
<1>5. /\ i' \in [Processes -> Nat] /\ id' \in [Processes -> -1..MaxSubs-1]
      /\ start' \in [Processes -> 0..MaxClaims]
  BY DEF TypeOK
<1> QED
  BY <1>1, <1>2, <1>3, <1>4, <1>5 DEF TypeOK, Pcs, Calls

LEMMA ZeroType ==
  /\ ZeroHeader \in [write_seq : 0..MaxClaims, claim_seq : 0..MaxClaims, desc : {0} \cup Descs,
                     slot : Nat, n_subs : Nat, sub_read_seq : [0..MaxSubs-1 -> 0..MaxClaims]]
  /\ ZeroHeader.write_seq = 0 /\ ZeroHeader.claim_seq = 0 /\ ZeroHeader.desc = 0
BY GeoAssumption DEF ZeroHeader

LEMMA PublishType ==
  ASSUME TypeOK, NEW p \in Processes, Publishing(p)
  PROVE  TypeOK'
<1> DEFINE HdrType == [write_seq : 0..MaxClaims, claim_seq : 0..MaxClaims,
                       desc : {0} \cup Descs, slot : Nat, n_subs : Nat,
                       sub_read_seq : [0..MaxSubs-1 -> 0..MaxClaims]]
<1>0. /\ hdr \in HdrType /\ call \in [Processes -> Calls] /\ MaxClaims \in Nat
      /\ slot_seq \in [Indexes -> 0..MaxClaims]
      /\ \A q \in Processes : call[q].at # "none" => HasHandle(q) /\ call[q].claim < MaxClaims
  BY Header DEF TypeOK, Calls
<1>1. HasHandle(p) /\ UNCHANGED <<size, disturbed, torn>>
  BY PublishKeeps
<1>2. CASE ScanPanics(p)
  BY <1>2, PublishKeeps, EndsType DEF TypeOK
<1>3. ASSUME ~ScanPanics(p), hdr' \in HdrType, slot_seq' \in [Indexes -> 0..MaxClaims],
             NEW c \in Calls, call' = [call EXCEPT ![p] = c],
             c.at # "none" => c.claim < MaxClaims
      PROVE  TypeOK'
  <2>1. UNCHANGED <<size, disturbed, torn, pc, i, id, start>>
    BY <1>1, <1>3, PublishKeeps
  <2>2. /\ call' \in [Processes -> Calls]
        /\ \A q \in Processes :
             call'[q].at # "none" => HasHandle(q)' /\ call'[q].claim < MaxClaims
    BY <1>0, <1>1, <1>3, <2>1 DEF HasHandle
  <2> QED
    BY <1>3, <2>1, <2>2 DEF TypeOK, Calls, Creating
<1>4. CASE (Claim(p) \/ Reserve(p)) /\ ~ScanPanics(p)
  <2>1. PICK l \in {"scan", "write"} :
          /\ hdr' = [hdr EXCEPT !.claim_seq = hdr.claim_seq + 1] /\ slot_seq' = slot_seq
          /\ hdr.claim_seq < MaxClaims
          /\ call' = [call EXCEPT ![p] =
                        [at |-> l, claim |-> hdr.claim_seq, cap |-> hdr.desc]]
    BY <1>4 DEF Claim, Reserve
  <2>2. hdr' \in HdrType
    <3>1. hdr.claim_seq + 1 \in 0..MaxClaims
      BY <1>0, <2>1, Header
    <3> QED
      BY <1>0, <2>1, <3>1
  <2> DEFINE c == [at |-> l, claim |-> hdr.claim_seq, cap |-> hdr.desc]
  <2>3. c \in Calls /\ c.claim < MaxClaims
    BY <2>1, Header DEF Calls
  <2> QED
    BY <1>0, <1>3, <1>4, <2>1, <2>2, <2>3
<1>5. CASE Admit(p) /\ ~ScanPanics(p)
  <2> DEFINE c == [call[p] EXCEPT !.at = "write"]
  <2>1. UNCHANGED <<hdr, slot_seq>> /\ call' = [call EXCEPT ![p] = c] /\ call[p].at = "scan"
    BY <1>5 DEF Admit
  <2>2. c \in Calls /\ c.claim < MaxClaims
    BY <1>0, <2>1 DEF Calls
  <2> HIDE DEF c
  <2> QED
    BY <1>0, <1>3, <1>5, <2>1, <2>2
<1>6. CASE Commit(p) /\ ~ScanPanics(p)
  <2> DEFINE c == [call[p] EXCEPT !.at = "advance"]
  <2>1. /\ UNCHANGED hdr /\ call' = [call EXCEPT ![p] = c] /\ call[p].at = "write"
        /\ slot_seq' = [j \in Indexes |-> IF j = Index(call[p].claim, call[p].cap)
                                          THEN call[p].claim + 1 ELSE slot_seq[j]]
    BY <1>6 DEF Commit
  <2>0. call[p] \in Calls /\ call[p].claim < MaxClaims
    BY <1>0, <2>1
  <2>2. c \in Calls /\ c.claim < MaxClaims
    BY <2>0 DEF Calls
  <2>4. call[p].claim + 1 \in 0..MaxClaims
    <3>1. call[p].claim \in 0..MaxClaims
      BY <2>0 DEF Calls
    <3> QED
      BY <1>0, <2>0, <3>1
  <2>3. slot_seq' \in [Indexes -> 0..MaxClaims]
    BY <1>0, <2>1, <2>4
  <2> HIDE DEF c
  <2> QED
    BY <1>0, <1>3, <1>6, <2>1, <2>2, <2>3
<1>7. CASE Advance(p) /\ ~ScanPanics(p)
  <2>1. CASE CommittedAt(hdr.write_seq, call[p].cap)
    <3>1. /\ hdr' = [hdr EXCEPT !.write_seq = hdr.write_seq + 1] /\ UNCHANGED <<slot_seq, call>>
      BY <1>7, <2>1 DEF Advance
    <3>2. hdr.write_seq + 1 \in 0..MaxClaims
      BY <1>0, <2>1, Header DEF CommittedAt
    <3>3. hdr' \in HdrType
      BY <1>0, <3>1, <3>2
    <3>4. call[p] \in Calls /\ call' = [call EXCEPT ![p] = call[p]]
      BY <1>0, <3>1
    <3> QED
      BY <1>0, <1>3, <1>7, <3>1, <3>3, <3>4
  <2>2. CASE ~CommittedAt(hdr.write_seq, call[p].cap)
    <3>1. UNCHANGED <<hdr, slot_seq>> /\ call' = [call EXCEPT ![p] = NoCall]
      BY <1>7, <2>2 DEF Advance
    <3>2. NoCall \in Calls /\ NoCall.at = "none"
      BY <1>0 DEF NoCall, Calls
    <3> QED
      BY <1>0, <1>3, <1>7, <3>1, <3>2
  <2> QED
    BY <2>1, <2>2
<1> QED
  BY <1>2, <1>4, <1>5, <1>6, <1>7 DEF Publishing

LEMMA TypeStep ==
  ASSUME TypeOK, NEW p \in Processes, Step(p)
  PROVE  TypeOK'
<1> DEFINE HdrType == [write_seq : 0..MaxClaims, claim_seq : 0..MaxClaims,
                       desc : {0} \cup Descs, slot : Nat, n_subs : Nat,
                       sub_read_seq : [0..MaxSubs-1 -> 0..MaxClaims]]
<1>0. /\ hdr \in HdrType /\ MaxClaims \in Nat
      /\ MaxSubs \in Nat \ {0}
      /\ slot_seq \in [Indexes -> 0..MaxClaims] /\ pc \in [Processes -> Pcs]
      /\ i \in [Processes -> Nat] /\ id \in [Processes -> -1..MaxSubs-1]
      /\ start \in [Processes -> 0..MaxClaims]
      /\ size \in {Absent, 0} \cup {Total(Geo[q]) : q \in Creators}
      /\ disturbed \subseteq Processes /\ torn \in BOOLEAN /\ InSession \subseteq Processes
      /\ Geo[p].desc \in Descs /\ Geo[p].slot \in Nat
  BY Header, GeoType DEF TypeOK, Pcs, InSession
<1>1. \A l \in InitPcs : pc[p] = l => p \in Creators
  BY DEF TypeOK, Creating
<1>2. CASE Create(p)
  <2>1. /\ pc[p] = "new" /\ pc' = [pc EXCEPT ![p] = "truncate"] /\ p \in Creators
        /\ UNCHANGED <<hdr, slot_seq, i, id, start, call>> /\ torn' = TRUE
        /\ size' = (IF size = Absent THEN 0 ELSE size)
        /\ disturbed' = disturbed \cup InSession \cup (IF InSession # {} THEN {p} ELSE {})
    BY <1>2 DEF Create, At, Goto
  <2>2. size' \in {Absent, 0} \cup {Total(Geo[q]) : q \in Creators}
    BY <1>0, <2>1
  <2>3. disturbed' \subseteq Processes /\ torn' \in BOOLEAN
    BY <1>0, <2>1
  <2>4. i[p] = 0 /\ "truncate" \in Pcs /\ ~HasHandle(p)
    BY <2>1 DEF TypeOK, Pcs, InitPcs, HasHandle
  <2> QED
    BY <1>0, <2>1, <2>2, <2>3, <2>4, MovesType
<1>3. CASE Truncate(p)
  <2>1. /\ pc[p] = "truncate" /\ pc' = [pc EXCEPT ![p] = "zero"] /\ size' = Total(Geo[p])
        /\ UNCHANGED <<hdr, i, id, start, call, disturbed, torn>>
        /\ slot_seq' = [k \in Indexes |-> IF SlotAt(k) < size' THEN slot_seq[k] ELSE 0]
    BY <1>3 DEF Truncate, At, Goto
  <2>2. slot_seq' \in [Indexes -> 0..MaxClaims]
    BY <1>0, <2>1
  <2>3. p \in Creators /\ i[p] = 0 /\ "zero" \in Pcs /\ ~HasHandle(p)
    BY <1>1, <2>1 DEF TypeOK, Pcs, InitPcs, HasHandle
  <2> QED
    BY <1>0, <2>1, <2>2, <2>3, MovesType
<1>4. ASSUME NEW from \in InitPcs, NEW h \in HdrType, NEW to \in InitPcs, from # "slots",
             WritesHeader(p, from, h, to)
      PROVE  TypeOK'
  <2>1. /\ pc[p] = from /\ pc' = [pc EXCEPT ![p] = to] /\ hdr' = h
        /\ UNCHANGED <<size, slot_seq, i, id, start, call, disturbed, torn>>
    BY <1>4 DEF WritesHeader, At, Goto
  <2>2. p \in Creators /\ i[p] = 0 /\ to \in Pcs
    BY <1>1, <1>4, <2>1 DEF TypeOK, Pcs
  <2>3. (to \in {"join", "joined"} <=> pc[p] \in {"join", "joined"}) /\ ~HasHandle(p)
    BY <2>1 DEF InitPcs, HasHandle
  <2> QED
    BY <1>0, <1>4, <2>1, <2>2, <2>3, MovesType
<1>5. CASE WriteZero(p) \/ WriteDesc(p) \/ WriteSlot(p) \/ WriteSubs(p)
  <2>1. [hdr EXCEPT !.write_seq = 0, !.claim_seq = 0, !.desc = Geo[p].desc] \in HdrType
    <3>1. 0 \in 0..MaxClaims
      BY <1>0
    <3> QED
      BY <1>0, <3>1
  <2>2. [hdr EXCEPT !.slot = Geo[p].slot] \in HdrType /\ [hdr EXCEPT !.n_subs = 0] \in HdrType
    BY <1>0
  <2>3. {"zero", "desc", "slot", "subs", "slots"} \subseteq InitPcs
    BY DEF InitPcs
  <2>4. CASE WriteZero(p)
    BY <1>4, <2>3, <2>4, ZeroType DEF WriteZero
  <2>5. CASE WriteDesc(p)
    BY <1>4, <2>1, <2>3, <2>5 DEF WriteDesc
  <2>6. CASE WriteSlot(p)
    BY <1>4, <2>2, <2>3, <2>6 DEF WriteSlot
  <2>7. CASE WriteSubs(p)
    BY <1>4, <2>2, <2>3, <2>7 DEF WriteSubs
  <2> QED
    BY <1>5, <2>4, <2>5, <2>6, <2>7
<1>6. CASE WriteSlotSeq(p)
  <2>1. /\ pc[p] = "slots" /\ UNCHANGED <<size, hdr, id, start, call, disturbed>>
        /\ slot_seq' = [slot_seq EXCEPT ![i[p]] = 0]
        /\ i' = [i EXCEPT ![p] = IF LastSlot(p) THEN 0 ELSE i[p] + 1]
    BY <1>6 DEF WriteSlotSeq, At
  <2>2. /\ pc' \in [Processes -> Pcs] /\ torn' \in BOOLEAN
        /\ \A q \in Processes : q # p => pc'[q] = pc[q]
        /\ pc'[p] = (IF LastSlot(p) THEN "ready" ELSE "slots")
    <3>1. torn' \in BOOLEAN
      <4>1. CASE LastSlot(p)
        BY <1>6, <4>1 DEF WriteSlotSeq
      <4>2. CASE ~LastSlot(p)
        BY <1>0, <1>6, <4>2 DEF WriteSlotSeq
      <4> QED
        BY <4>1, <4>2
    <3> QED
      BY <1>6, <3>1, Places, OthersStay
  <2>3. i[p] \in 0..Geo[p].desc-1 /\ Geo[p].desc \in Nat
    BY GeoType DEF TypeOK
  <2>4. slot_seq' \in [Indexes -> 0..MaxClaims]
    <3>1. 0 \in 0..MaxClaims
      BY <1>0
    <3> QED
      BY <1>0, <2>1, <3>1
  <2>5. /\ i' \in [Processes -> Nat] /\ i'[p] \in 0..Geo[p].desc-1
        /\ (LastSlot(p) => i'[p] = 0) /\ \A q \in Processes : q # p => i'[q] = i[q]
    <3>1. (IF LastSlot(p) THEN 0 ELSE i[p] + 1) \in 0..Geo[p].desc-1
      BY <2>3 DEF LastSlot
    <3> QED
      BY <1>0, <2>1, <3>1
  <2>6. \A q \in Processes :
          /\ i'[q] \in 0..Geo[q].desc-1 /\ (pc'[q] # "slots" => i'[q] = 0)
          /\ id'[q] # -1 <=> pc'[q] \in {"join", "joined"}
    BY <2>1, <2>2, <2>5 DEF TypeOK
  <2>7. Creating' \subseteq Creators
    BY <1>1, <2>1, <2>2 DEF TypeOK, Creating, InitPcs
  <2>8. ~HasHandle(p)
    BY <2>1 DEF HasHandle
  <2>9. /\ call' \in [Processes -> Calls]
        /\ \A q \in Processes :
             call'[q].at # "none" => HasHandle(q)' /\ call'[q].claim < MaxClaims
    BY <2>1, <2>2, <2>8, CallsKept
  <2> HIDE DEF HdrType
  <2>10. size' \in {Absent, 0} \cup {Total(Geo[q]) : q \in Creators} /\ hdr' \in HdrType
        /\ id' \in [Processes -> -1..MaxSubs-1] /\ start' \in [Processes -> 0..MaxClaims]
        /\ disturbed' \subseteq Processes
    BY <1>0, <2>1 DEF TypeOK
  <2> QED
    BY <2>2, <2>4, <2>5, <2>6, <2>7, <2>9, <2>10 DEF TypeOK, Pcs, Calls, HdrType
<1>7. CASE OpenNone(p) \/ End(p)
  BY <1>0, <1>7, EndsType DEF OpenNone, End
<1>8. CASE Open(p)
  <2>1. /\ pc[p] = "new" /\ pc' = [pc EXCEPT ![p] = "check_desc"]
        /\ UNCHANGED <<size, hdr, slot_seq, i, id, start, call, torn>>
        /\ disturbed' \subseteq Processes
    BY <1>0, <1>8 DEF Open, At, Goto, Creating
  <2>2. i[p] = 0 /\ "check_desc" \in Pcs /\ "check_desc" \notin InitPcs /\ ~HasHandle(p)
    BY <2>1 DEF TypeOK, Pcs, InitPcs, HasHandle
  <2> QED
    BY <1>0, <2>1, <2>2, MovesType
<1>9. CASE CheckDesc(p) \/ CheckSlot(p)
  <2>1. /\ pc[p] \in {"check_desc", "check_slot"}
        /\ UNCHANGED <<size, hdr, slot_seq, disturbed, torn>>
        /\ Ends(p) \/ \E l \in {"check_slot", "ready"} :
                        pc' = [pc EXCEPT ![p] = l] /\ UNCHANGED <<i, id, start, call>>
    BY <1>9 DEF CheckDesc, CheckSlot, Check, At, Goto
  <2>2. i[p] = 0 /\ ~HasHandle(p)
        /\ \A l \in {"check_slot", "ready"} : l \in Pcs /\ l \notin InitPcs
    BY <2>1 DEF TypeOK, Pcs, InitPcs, HasHandle
  <2> QED
    BY <1>0, <2>1, <2>2, MovesType, EndsType
<1>10. CASE Subscribe(p)
  <2>1. /\ pc[p] = "ready" /\ id[p] = -1 /\ hdr' = [hdr EXCEPT !.n_subs = hdr.n_subs + 1]
        /\ UNCHANGED <<size, slot_seq, disturbed, torn>>
    BY <1>10 DEF Subscribe, At
  <2>2. hdr' \in HdrType
    <3>1. hdr.n_subs + 1 \in Nat
      BY Header
    <3> QED
      BY <1>0, <2>1, <3>1
  <2>3. CASE SlotLeft
    <3>1. /\ id' = [id EXCEPT ![p] = hdr.n_subs] /\ pc' = [pc EXCEPT ![p] = "join"]
          /\ UNCHANGED <<i, start, call>> /\ hdr.n_subs \in 0..MaxSubs-1
      BY <1>0, <1>10, <2>3 DEF Subscribe, Goto, SlotLeft
    <3>2. /\ id' \in [Processes -> -1..MaxSubs-1] /\ id'[p] # -1
          /\ pc' \in [Processes -> Pcs] /\ pc'[p] = "join" /\ i[p] = 0
          /\ \A q \in Processes : q # p => pc'[q] = pc[q] /\ id'[q] = id[q]
      BY <1>0, <2>1, <3>1 DEF Pcs, TypeOK
    <3>3. Creating' \subseteq Creators
      BY <3>2 DEF TypeOK, Creating, InitPcs
    <3>4. \A q \in Processes :
            /\ i'[q] \in 0..Geo[q].desc-1 /\ (pc'[q] # "slots" => i'[q] = 0)
            /\ id'[q] # -1 <=> pc'[q] \in {"join", "joined"}
      BY <3>1, <3>2 DEF TypeOK
    <3>5. HasHandle(p)'
      BY <3>2 DEF HasHandle
    <3>6. /\ call' \in [Processes -> Calls]
          /\ \A q \in Processes :
               call'[q].at # "none" => HasHandle(q)' /\ call'[q].claim < MaxClaims
      BY <3>1, <3>2, <3>5, CallsKept
    <3>7. size' \in {Absent, 0} \cup {Total(Geo[q]) : q \in Creators}
          /\ slot_seq' \in [Indexes -> 0..MaxClaims] /\ i' \in [Processes -> Nat]
          /\ start' \in [Processes -> 0..MaxClaims]
          /\ disturbed' \subseteq Processes /\ torn' \in BOOLEAN
      BY <1>0, <2>1, <3>1 DEF TypeOK
    <3> QED
      BY <2>2, <3>2, <3>3, <3>4, <3>6, <3>7 DEF TypeOK, Pcs, Calls
  <2>4. CASE ~SlotLeft
    <3>1. Ends(p)
      BY <1>10, <2>4 DEF Subscribe
    <3>2. /\ pc' \in [Processes -> Pcs] /\ pc'[p] = "gone"
          /\ i' = i /\ id' = id /\ start' \in [Processes -> 0..MaxClaims]
          /\ \A q \in Processes : q # p => pc'[q] = pc[q]
      BY <1>0, <2>1, <3>1 DEF Ends, Goto, Pcs, TypeOK
    <3>3. Creating' \subseteq Creators
      BY <3>2 DEF TypeOK, Creating, InitPcs
    <3>4. \A q \in Processes :
            /\ i'[q] \in 0..Geo[q].desc-1 /\ (pc'[q] # "slots" => i'[q] = 0)
            /\ id'[q] # -1 <=> pc'[q] \in {"join", "joined"}
      BY <2>1, <3>2 DEF TypeOK
    <3>5. /\ call' \in [Processes -> Calls]
          /\ \A q \in Processes :
               call'[q].at # "none" => HasHandle(q)' /\ call'[q].claim < MaxClaims
      <4>1. call \in [Processes -> Calls] /\ NoCall \in Calls /\ NoCall.at = "none"
        BY <1>0 DEF TypeOK, Calls, NoCall
      <4>2. call' = [call EXCEPT ![p] = NoCall]
        BY <3>1 DEF Ends
      <4> QED
        BY <3>2, <4>1, <4>2 DEF TypeOK, HasHandle
    <3> QED
      BY <1>0, <2>1, <2>2, <3>2, <3>3, <3>4, <3>5 DEF TypeOK, Pcs, Calls
  <2> QED
    BY <2>3, <2>4
<1>11. CASE SubscribeStart(p)
  <2>1. /\ pc[p] = "join" /\ pc' = [pc EXCEPT ![p] = "joined"]
        /\ start' = [start EXCEPT ![p] = hdr.write_seq]
        /\ hdr' = [hdr EXCEPT !.sub_read_seq = [hdr.sub_read_seq EXCEPT ![id[p]] = hdr.write_seq]]
        /\ UNCHANGED <<size, slot_seq, i, id, call, disturbed, torn>>
    BY <1>11 DEF SubscribeStart, At, Goto
  <2>2. hdr' \in HdrType
    <3>1. [hdr.sub_read_seq EXCEPT ![id[p]] = hdr.write_seq] \in [0..MaxSubs-1 -> 0..MaxClaims]
      BY Header
    <3> QED
      BY <1>0, <2>1, <3>1
  <2>3. /\ pc' \in [Processes -> Pcs] /\ pc'[p] = "joined"
        /\ start' \in [Processes -> 0..MaxClaims]
        /\ \A q \in Processes : q # p => pc'[q] = pc[q]
    BY <1>0, <2>1 DEF Pcs
  <2>4. Creating' \subseteq Creators
    BY <2>3 DEF TypeOK, Creating, InitPcs
  <2>5. \A q \in Processes :
          /\ i'[q] \in 0..Geo[q].desc-1 /\ (pc'[q] # "slots" => i'[q] = 0)
          /\ id'[q] # -1 <=> pc'[q] \in {"join", "joined"}
    BY <2>1, <2>3 DEF TypeOK
  <2>6. HasHandle(p)'
    BY <2>3 DEF HasHandle
  <2>7. /\ call' \in [Processes -> Calls]
        /\ \A q \in Processes :
             call'[q].at # "none" => HasHandle(q)' /\ call'[q].claim < MaxClaims
    BY <2>1, <2>3, <2>6, CallsKept
  <2>8. size' \in {Absent, 0} \cup {Total(Geo[q]) : q \in Creators}
        /\ slot_seq' \in [Indexes -> 0..MaxClaims] /\ i' \in [Processes -> Nat]
        /\ id' \in [Processes -> -1..MaxSubs-1]
        /\ disturbed' \subseteq Processes /\ torn' \in BOOLEAN
    BY <1>0, <2>1 DEF TypeOK
  <2> QED
    BY <2>2, <2>3, <2>4, <2>5, <2>7, <2>8 DEF TypeOK, Pcs, Calls
<1>12. CASE Publishing(p)
  BY <1>12, PublishType
<1>13. CASE Receive(p)
  <2> DEFINE c == hdr.sub_read_seq[id[p]]
  <2>1. /\ pc[p] = "joined" /\ CommittedAt(c, hdr.desc)
        /\ hdr' = [hdr EXCEPT !.sub_read_seq = [hdr.sub_read_seq EXCEPT ![id[p]] = c + 1]]
        /\ UNCHANGED <<size, slot_seq, pc, i, id, start, call, disturbed, torn>>
    BY <1>13 DEF Receive, At
  <2>2. c \in 0..MaxClaims /\ id[p] \in 0..MaxSubs-1
    <3>1. id[p] \in 0..MaxSubs-1
      BY <1>0, <2>1 DEF TypeOK
    <3> QED
      BY <3>1, Header
  <2>3. c + 1 \in 0..MaxClaims
    BY <1>0, <2>1 DEF CommittedAt
  <2> HIDE DEF c
  <2>4. [hdr.sub_read_seq EXCEPT ![id[p]] = c + 1] \in [0..MaxSubs-1 -> 0..MaxClaims]
    BY <2>2, <2>3, Header
  <2>5. hdr' \in HdrType
    BY <1>0, <2>1, <2>4
  <2> QED
    BY <1>0, <2>1, <2>5 DEF TypeOK, Creating, HasHandle
<1> QED
  BY <1>2, <1>3, <1>5, <1>6, <1>7, <1>8, <1>9, <1>10, <1>11, <1>12, <1>13 DEF Step, Publishing

-----------------------------------------------------------------------------
(* Who is alone with the region.                                           *)

\* A step that begins no session, ends no create(), and disturbs nobody.
LEMMA QuietStep ==
  ASSUME TypeOK, Overlaps, UNCHANGED <<disturbed, torn>>, size # Absent => size' # Absent,
         \A q \in Processes : q \in InSession' =>
           q \in InSession /\ (q \in Creating' <=> q \in Creating),
         \A q \in Processes : q \in Creating' => q \in InSession',
         \A q \in Processes : pc'[q] = "new" => pc[q] = "new"
  PROVE  Overlaps'
<1>1. /\ InSession' \subseteq InSession /\ Creating' \subseteq Creating
      /\ InSession' \subseteq Processes /\ Creating' \subseteq Processes
  BY DEF InSession, Creating
<1>2. \A q \in Creating' \ disturbed' : InSession' = {q}
  <2> SUFFICES ASSUME NEW q \in Creating' \ disturbed' PROVE InSession' = {q}
    OBVIOUS
  <2>1. InSession = {q} /\ q \in InSession'
    BY <1>1 DEF Overlaps
  <2> QED
    BY <1>1, <2>1
<1>3. \A q \in InSession' \ (Creating' \cup disturbed') : ~torn'
  BY <1>1 DEF Overlaps
<1>4. \A q \in disturbed' : pc'[q] # "new"
  BY DEF Overlaps, TypeOK
<1> QED
  BY <1>1, <1>2, <1>3, <1>4 DEF Overlaps

LEMMA Sessions ==
  /\ Creating \subseteq InSession /\ InSession \subseteq Processes
  /\ \A q : q \in Creating <=> q \in Processes /\ pc[q] \in InitPcs
  /\ \A q : q \in InSession <=> q \in Processes /\ pc[q] \notin {"new", "gone"}
BY DEF Creating, InSession, InitPcs

LEMMA OverlapStep ==
  ASSUME TypeOK, Overlaps, NEW p \in Processes, Step(p)
  PROVE  Overlaps'
<1>0. \A q \in Processes \ {p} :
        /\ pc'[q] = pc[q]
        /\ q \in Creating' <=> q \in Creating
        /\ q \in InSession' <=> q \in InSession
  BY OthersStay
<1>1. /\ Creating' \subseteq InSession' /\ InSession' \subseteq Processes
      /\ p \in Creating' <=> pc'[p] \in InitPcs
      /\ p \in InSession' <=> pc'[p] \notin {"new", "gone"}
  BY Sessions DEF Creating, InSession, InitPcs
<1>2. CASE Create(p)
  <2>1. /\ pc[p] = "new" /\ pc'[p] = "truncate" /\ torn' = TRUE
        /\ size' = (IF size = Absent THEN 0 ELSE size)
        /\ disturbed' = disturbed \cup InSession \cup (IF InSession # {} THEN {p} ELSE {})
    BY <1>2, Places DEF Create
  <2>2. InSession' = InSession \cup {p} /\ p \notin InSession
    BY <1>0, <1>1, <2>1, Sessions
  <2>3. size' # Absent
    BY <2>1 DEF Absent
  <2>4. \A q \in Creating' \ disturbed' : InSession' = {q}
    BY <1>1, <2>1, <2>2
  <2>5. InSession' \subseteq disturbed' \/ InSession' = {p}
    BY <2>1, <2>2
  <2>6. p \in Creating'
    BY <1>1, <2>1 DEF InitPcs
  <2>7. \A q \in disturbed' : pc'[q] # "new"
    BY <1>0, <1>1, <2>1, Sessions DEF Overlaps, TypeOK
  <2> QED
    BY <2>1, <2>3, <2>4, <2>5, <2>6, <2>7 DEF Overlaps
<1>3. CASE Open(p)
  <2>1. /\ pc[p] = "new" /\ pc'[p] = "check_desc" /\ torn' = torn /\ size' = size
        /\ size # Absent
        /\ disturbed' = IF Sound THEN disturbed ELSE disturbed \cup {p} \cup Creating
    BY <1>3, Places DEF Open
  <2>2. InSession' = InSession \cup {p} /\ p \notin InSession /\ Creating' = Creating
    BY <1>0, <1>1, <2>1, Sessions DEF InitPcs
  <2>3. CASE Sound
    <3>1. ~torn /\ Creating = {} /\ disturbed \cap InSession = {} /\ disturbed' = disturbed
      BY <2>1, <2>3 DEF Sound, Overlaps
    <3>2. p \notin disturbed
      BY <2>1 DEF Overlaps
    <3>3. \A q \in disturbed' : pc'[q] # "new"
      BY <1>0, <2>1, <3>1 DEF Overlaps, TypeOK
    <3> QED
      BY <2>1, <2>2, <3>1, <3>2, <3>3 DEF Overlaps
  <2>4. CASE ~Sound
    <3>1. torn
      BY <2>4 DEF Sound, Overlaps
    <3>2. Creating \subseteq disturbed' /\ p \in disturbed' /\ disturbed \subseteq disturbed'
      BY <2>1, <2>4
    <3>3. \A q \in disturbed' : pc'[q] # "new"
      BY <1>0, <2>1, <2>4, Sessions DEF Overlaps, TypeOK, InitPcs
    <3> QED
      BY <2>1, <2>2, <3>1, <3>2, <3>3 DEF Overlaps
  <2> QED
    BY <2>3, <2>4
<1>4. CASE WriteSlotSeq(p) /\ LastSlot(p)
  <2>1. /\ pc[p] = "slots" /\ pc'[p] = "ready" /\ torn' = (p \in disturbed)
        /\ UNCHANGED <<size, disturbed>>
    BY <1>4, Places DEF WriteSlotSeq
  <2>2. /\ p \in Creating /\ p \in InSession /\ InSession' = InSession
        /\ Creating' = Creating \ {p} /\ size # Absent /\ torn
    BY <1>0, <1>1, <2>1, Sessions DEF InitPcs, Overlaps
  <2>3. \A q \in disturbed' : pc'[q] # "new"
    BY <1>0, <2>1 DEF Overlaps, TypeOK
  <2>4. CASE p \in disturbed
    BY <2>1, <2>2, <2>3, <2>4 DEF Overlaps
  <2>5. CASE p \notin disturbed
    <3>1. InSession = {p} /\ ~torn'
      BY <2>1, <2>2, <2>5 DEF Overlaps
    <3> QED
      BY <2>1, <2>2, <2>3, <2>5, <3>1, Sessions DEF Overlaps
  <2> QED
    BY <2>4, <2>5
<1>5. CASE ~(Create(p) \/ Open(p) \/ (WriteSlotSeq(p) /\ LastSlot(p)))
  <2>0. \/ Truncate(p) \/ (WriteSlotSeq(p) /\ ~LastSlot(p))
        \/ WriteZero(p) \/ WriteDesc(p) \/ WriteSlot(p) \/ WriteSubs(p)
        \/ OpenNone(p) \/ CheckDesc(p) \/ CheckSlot(p) \/ End(p)
        \/ Subscribe(p) \/ SubscribeStart(p) \/ Publishing(p) \/ Receive(p)
    BY <1>5 DEF Step, Publishing
  <2>1. UNCHANGED <<disturbed, torn>>
    BY <2>0, PublishKeeps DEF Truncate, WriteZero, WriteDesc, WriteSlot, WriteSubs,
       WritesHeader, WriteSlotSeq, OpenNone, CheckDesc, CheckSlot, Check, Subscribe,
       SubscribeStart, Receive, End
  <2>2. size # Absent => size' # Absent
    <3>1. CASE Truncate(p)
      <4>1. size' \in Nat
        BY <3>1, GeoType DEF Truncate
      <4> QED
        BY <4>1 DEF Absent
    <3>2. CASE ~Truncate(p)
      BY <2>0, <3>2, PublishKeeps DEF WriteZero, WriteDesc, WriteSlot, WriteSubs,
         WritesHeader, WriteSlotSeq, OpenNone, CheckDesc, CheckSlot, Check, Subscribe,
         SubscribeStart, Receive, End
    <3> QED
      BY <3>1, <3>2
  <2>3. /\ pc'[p] # "new"
        /\ \/ pc'[p] = "gone"
           \/ /\ pc[p] \notin {"new", "gone"}
              /\ pc[p] \in InitPcs <=> pc'[p] \in InitPcs
    BY <2>0, Places DEF InitPcs, HasHandle
  <2>4. \A q \in Processes : q \in InSession' =>
          q \in InSession /\ (q \in Creating' <=> q \in Creating)
    BY <1>0, <1>1, <2>3, Sessions
  <2> QED
    BY <1>0, <1>1, <2>1, <2>2, <2>3, <2>4, QuietStep
<1> QED
  BY <1>2, <1>3, <1>4, <1>5

\* A create() that nobody disturbs is the only process there is to take steps.
LEMMA AloneCreating ==
  ASSUME TypeOK, Overlaps, NEW p \in Processes, Step(p), NEW q \in Creating' \ disturbed'
  PROVE  q = p
<1> SUFFICES ASSUME q # p PROVE FALSE
  OBVIOUS
<1>1. q \in Processes /\ q \in Creating
  BY OthersStay DEF Creating
<1>2. disturbed \subseteq disturbed'
  BY PublishKeeps DEF Step, Create, Truncate, WriteZero, WriteDesc, WriteSlot, WriteSubs,
     WritesHeader, WriteSlotSeq, OpenNone, Open, CheckDesc, CheckSlot, Check, Subscribe,
     SubscribeStart, Receive, End, Publishing
<1>3. q \in InSession /\ InSession = {q} /\ torn /\ size # Absent
  BY <1>1, <1>2, Sessions DEF Overlaps
<1>4. pc[p] \in {"new", "gone"}
  BY <1>3, Sessions
<1>5. Create(p) \/ OpenNone(p) \/ Open(p)
  BY <1>4, Places DEF Step, HasHandle, Publishing
<1>6. CASE Create(p)
  BY <1>3, <1>6 DEF Create
<1>7. CASE Open(p)
  BY <1>1, <1>3, <1>7 DEF Open, Sound
<1> QED
  BY <1>3, <1>5, <1>6, <1>7 DEF OpenNone

\* Once a create() is complete, nobody creates and nobody disturbed is there.
LEMMA Complete ==
  ASSUME TypeOK, Overlaps, NEW p \in Processes, Step(p), ~torn'
  PROVE  \/ WriteSlotSeq(p) /\ LastSlot(p) /\ p \notin disturbed /\ InSession = {p}
         \/ /\ ~torn /\ pc[p] \notin InitPcs /\ (p \notin disturbed \/ pc[p] = "gone")
            /\ UNCHANGED <<size, disturbed, torn>>
            /\ \/ OpenNone(p) \/ Open(p) \/ CheckDesc(p) \/ CheckSlot(p) \/ Subscribe(p)
               \/ SubscribeStart(p) \/ Publishing(p) \/ Receive(p) \/ End(p)
<1>1. CASE WriteSlotSeq(p) /\ LastSlot(p)
  <2>1. pc[p] = "slots" /\ p \notin disturbed
    BY <1>1, Places DEF WriteSlotSeq
  <2>2. p \in Creating
    BY <2>1, Sessions DEF InitPcs
  <2> QED
    BY <1>1, <2>1, <2>2 DEF Overlaps
<1>2. CASE ~(WriteSlotSeq(p) /\ LastSlot(p))
  <2>1. ~torn /\ torn' = torn
    BY <1>2, PublishKeeps DEF Step, Create, Truncate, WriteZero, WriteDesc, WriteSlot,
       WriteSubs, WritesHeader, WriteSlotSeq, OpenNone, Open, CheckDesc, CheckSlot, Check,
       Subscribe, SubscribeStart, Receive, End, Publishing
  <2>2. Creating = {} /\ disturbed \cap InSession = {} /\ Sound
    BY <2>1 DEF Overlaps, Sound
  <2>3. pc[p] \notin InitPcs /\ (p \notin disturbed \/ pc[p] = "gone")
    BY <2>2, Sessions DEF Overlaps
  <2>4. \/ OpenNone(p) \/ Open(p) \/ CheckDesc(p) \/ CheckSlot(p) \/ Subscribe(p)
        \/ SubscribeStart(p) \/ Publishing(p) \/ Receive(p) \/ End(p)
    <3>1. ~Create(p)
      BY <2>1 DEF Create
    <3> QED
      BY <2>3, <3>1, Places DEF Step, InitPcs, Publishing
  <2>5. UNCHANGED <<size, disturbed>>
    BY <2>2, <2>4, PublishKeeps DEF OpenNone, Open, CheckDesc, CheckSlot, Check, Subscribe,
       SubscribeStart, Receive, End
  <2> QED
    BY <2>1, <2>3, <2>4, <2>5
<1> QED
  BY <1>1, <1>2

-----------------------------------------------------------------------------
(* RegionInv is inductive.                                                 *)

\* What the header says that create() leaves.
LEMMA FreshFields ==
  ASSUME NEW p \in Processes
  PROVE  /\ Fresh(p).desc = Geo[p].desc /\ Fresh(p).slot = Geo[p].slot
         /\ Fresh(p).write_seq = 0 /\ Fresh(p).claim_seq = 0 /\ Fresh(p).n_subs = 0
BY DEF Fresh, ZeroHeader

LEMMA CreatorStep ==
  ASSUME TypeOK, Overlaps, CreatorShape, NEW p \in Processes, Step(p)
  PROVE  CreatorShape'
<1> SUFFICES ASSUME p \in Creating' \ disturbed'
             PROVE  /\ pc'[p] # "truncate" => size' = Total(Geo[p])
                    /\ pc'[p] = "desc" => hdr' = ZeroHeader
                    /\ pc'[p] = "slot" => hdr' = [ZeroHeader EXCEPT !.desc = Geo[p].desc]
                    /\ pc'[p] \in {"subs", "slots"} => hdr' = Fresh(p)
                    /\ \A k \in 0..i'[p]-1 : slot_seq'[k] = 0
  BY AloneCreating DEF CreatorShape, Fresh, ZeroHeader
<1>1. pc'[p] \in InitPcs
  BY DEF Creating
<1>2. \/ Create(p) \/ Truncate(p) \/ WriteZero(p) \/ WriteDesc(p) \/ WriteSlot(p)
      \/ WriteSubs(p) \/ (WriteSlotSeq(p) /\ ~LastSlot(p))
  BY <1>1, Places DEF Step, InitPcs, HasHandle, Publishing
<1>3. CASE Create(p)
  <2>1. pc'[p] = "truncate" /\ i'[p] = 0
    BY <1>3, Places DEF Create, TypeOK
  <2> QED
    BY <2>1
<1>4. CASE Truncate(p)
  <2>1. pc'[p] = "zero" /\ i'[p] = 0 /\ size' = Total(Geo[p])
    BY <1>4, Places DEF Truncate, TypeOK
  <2> QED
    BY <2>1
<1>5. CASE ~(Create(p) \/ Truncate(p))
  <2>1. /\ p \in Creating \ disturbed /\ UNCHANGED <<size, disturbed>>
        /\ pc[p] \in InitPcs /\ pc[p] # "truncate"
    <3>1. UNCHANGED <<size, disturbed>> /\ pc[p] \in InitPcs /\ pc[p] # "truncate"
      BY <1>2, <1>5, Places DEF WriteZero, WriteDesc, WriteSlot, WriteSubs, WritesHeader,
         WriteSlotSeq, InitPcs
    <3> QED
      BY <3>1, Sessions
  <2>2. /\ size' = Total(Geo[p])
        /\ pc[p] = "desc" => hdr = ZeroHeader
        /\ pc[p] = "slot" => hdr = [ZeroHeader EXCEPT !.desc = Geo[p].desc]
        /\ pc[p] \in {"subs", "slots"} => hdr = Fresh(p)
        /\ \A k \in 0..i[p]-1 : slot_seq[k] = 0
    BY <2>1 DEF CreatorShape
  <2>3. CASE WriteZero(p)
    <3>1. pc'[p] = "desc" /\ hdr' = ZeroHeader /\ i' = i /\ slot_seq' = slot_seq
      BY <2>3, Places DEF WriteZero, WritesHeader
    <3> QED
      BY <2>2, <3>1
  <2>4. CASE WriteDesc(p)
    <3>1. /\ pc[p] = "desc" /\ pc'[p] = "slot" /\ i' = i /\ slot_seq' = slot_seq
          /\ hdr' = [hdr EXCEPT !.write_seq = 0, !.claim_seq = 0, !.desc = Geo[p].desc]
      BY <2>4, Places DEF WriteDesc, WritesHeader
    <3>2. hdr' = [ZeroHeader EXCEPT !.desc = Geo[p].desc]
      <4> DEFINE z == [k \in 0..MaxSubs-1 |-> 0]
      <4>1. ZeroHeader = [write_seq |-> 0, claim_seq |-> 0, desc |-> 0, slot |-> 0,
                          n_subs |-> 0, sub_read_seq |-> z]
        BY DEF ZeroHeader
      <4> HIDE DEF z
      <4>2. hdr = [write_seq |-> 0, claim_seq |-> 0, desc |-> 0, slot |-> 0,
                   n_subs |-> 0, sub_read_seq |-> z]
        BY <2>2, <3>1, <4>1
      <4>3. hdr' = [write_seq |-> 0, claim_seq |-> 0, desc |-> Geo[p].desc, slot |-> 0,
                    n_subs |-> 0, sub_read_seq |-> z]
        BY <3>1, <4>2
      <4>4. [ZeroHeader EXCEPT !.desc = Geo[p].desc]
              = [write_seq |-> 0, claim_seq |-> 0, desc |-> Geo[p].desc, slot |-> 0,
                 n_subs |-> 0, sub_read_seq |-> z]
        BY <4>1
      <4> QED
        BY <4>3, <4>4
    <3> QED
      BY <2>2, <3>1, <3>2
  <2>5. CASE WriteSlot(p)
    <3>1. /\ pc[p] = "slot" /\ pc'[p] = "subs" /\ i' = i /\ slot_seq' = slot_seq
          /\ hdr' = [hdr EXCEPT !.slot = Geo[p].slot]
      BY <2>5, Places DEF WriteSlot, WritesHeader
    <3>2. hdr' = Fresh(p)
      BY <2>2, <3>1 DEF ZeroHeader, Fresh
    <3> QED
      BY <2>2, <3>1, <3>2
  <2>6. CASE WriteSubs(p)
    <3>1. /\ pc[p] = "subs" /\ pc'[p] = "slots" /\ i' = i /\ slot_seq' = slot_seq
          /\ hdr' = [hdr EXCEPT !.n_subs = 0]
      BY <2>6, Places DEF WriteSubs, WritesHeader
    <3>2. hdr' = Fresh(p)
      <4>1. hdr = Fresh(p) /\ hdr.n_subs = 0
        BY <2>2, <3>1, FreshFields
      <4>2. [hdr EXCEPT !.n_subs = 0] = hdr
        BY <4>1 DEF TypeOK
      <4> QED
        BY <3>1, <4>1, <4>2
    <3> QED
      BY <2>2, <3>1, <3>2
  <2>7. CASE WriteSlotSeq(p) /\ ~LastSlot(p)
    <3>1. /\ pc[p] = "slots" /\ pc'[p] = "slots" /\ hdr' = hdr
          /\ i' = [i EXCEPT ![p] = i[p] + 1] /\ slot_seq' = [slot_seq EXCEPT ![i[p]] = 0]
      BY <2>7, Places DEF WriteSlotSeq
    <3>2. /\ i[p] \in Nat /\ i[p] \in Indexes /\ i'[p] = i[p] + 1
          /\ 0..Geo[p].desc-1 \subseteq Indexes /\ i[p] \in 0..Geo[p].desc-1
      BY <3>1, GeoType DEF TypeOK
    <3>3. ASSUME NEW k \in 0..i'[p]-1 PROVE slot_seq'[k] = 0
      <4>1. k \in 0..Geo[p].desc-1
        BY <3>2, GeoType
      <4>2. CASE k = i[p]
        BY <3>1, <3>2, <4>2 DEF TypeOK
      <4>3. CASE k # i[p]
        <5>1. k \in 0..i[p]-1
          BY <3>2, <4>3
        <5> QED
          BY <2>2, <3>1, <3>2, <4>1, <4>3, <5>1 DEF TypeOK
      <4> QED
        BY <4>2, <4>3
    <3> QED
      BY <2>2, <3>1, <3>3
  <2> QED
    BY <1>2, <1>5, <2>3, <2>4, <2>5, <2>6, <2>7
<1> QED
  BY <1>3, <1>4, <1>5

\* What an undisturbed create() leaves when it writes the last slot.
LEMMA LastWrite ==
  ASSUME TypeOK, CreatorShape, NEW p \in Processes, WriteSlotSeq(p), LastSlot(p),
         p \notin disturbed
  PROVE  /\ hdr' = Fresh(p) /\ size' = Total(Geo[p]) /\ p \in Creators
         /\ \A k \in 0..Geo[p].desc-1 : slot_seq'[k] = 0
<1>1. /\ pc[p] = "slots" /\ hdr' = hdr /\ size' = size
      /\ slot_seq' = [slot_seq EXCEPT ![i[p]] = 0]
  BY DEF WriteSlotSeq, At
<1>2. p \in Creating /\ p \in Creators
  BY <1>1, Sessions DEF InitPcs, TypeOK
<1>3. hdr = Fresh(p) /\ size = Total(Geo[p]) /\ \A k \in 0..i[p]-1 : slot_seq[k] = 0
  BY <1>1, <1>2 DEF CreatorShape
<1>4. i[p] + 1 = Geo[p].desc /\ i[p] \in Nat /\ 0..Geo[p].desc-1 \subseteq Indexes
  BY GeoType DEF LastSlot, TypeOK
<1>5. ASSUME NEW k \in 0..Geo[p].desc-1 PROVE slot_seq'[k] = 0
  <2>1. k \in Indexes /\ slot_seq \in [Indexes -> 0..MaxClaims] /\ i[p] \in Indexes
    BY <1>4 DEF TypeOK
  <2>2. CASE k = i[p]
    BY <1>1, <2>1, <2>2
  <2>3. CASE k # i[p]
    <3>1. k \in 0..i[p]-1
      BY <1>4, <2>3
    <3> QED
      BY <1>1, <1>3, <2>1, <2>3, <3>1
  <2> QED
    BY <2>2, <2>3
<1> QED
  BY <1>1, <1>2, <1>3, <1>5
\* What the calls of a process that does not create do to the header.
LEMMA UserKeeps ==
  ASSUME TypeOK, NEW p \in Processes,
         \/ OpenNone(p) \/ Open(p) \/ CheckDesc(p) \/ CheckSlot(p) \/ Subscribe(p)
         \/ SubscribeStart(p) \/ Publishing(p) \/ Receive(p) \/ End(p)
  PROVE  /\ hdr'.desc = hdr.desc /\ hdr'.slot = hdr.slot
         /\ ~Commit(p) => slot_seq' = slot_seq
         /\ ~Advance(p) => hdr'.write_seq = hdr.write_seq
         /\ hdr'.claim_seq \in {hdr.claim_seq, hdr.claim_seq + 1}
         /\ ~Subscribe(p) => hdr'.n_subs = hdr.n_subs
         /\ ~(SubscribeStart(p) \/ Receive(p)) => hdr'.sub_read_seq = hdr.sub_read_seq
<1>1. CASE OpenNone(p) \/ Open(p) \/ CheckDesc(p) \/ CheckSlot(p) \/ End(p)
  BY <1>1 DEF OpenNone, Open, CheckDesc, CheckSlot, Check, End
<1>2. CASE Subscribe(p)
  BY <1>2 DEF Subscribe, TypeOK
<1>3. CASE SubscribeStart(p)
  BY <1>3 DEF SubscribeStart, TypeOK
<1>4. CASE Receive(p)
  BY <1>4 DEF Receive, TypeOK
<1>5. CASE Claim(p) \/ Reserve(p)
  BY <1>5 DEF Claim, Reserve, TypeOK
<1>6. CASE Admit(p) \/ ScanPanics(p) \/ Commit(p)
  BY <1>6 DEF Admit, ScanPanics, Commit
<1>7. CASE Advance(p)
  BY <1>7 DEF Advance, TypeOK
<1> QED
  BY <1>1, <1>2, <1>3, <1>4, <1>5, <1>6, <1>7 DEF Publishing

LEMMA RegionStep ==
  ASSUME TypeOK, Overlaps, CreatorShape, RegionShape, HandleShape, NEW p \in Processes, Step(p)
  PROVE  RegionShape'
<1> DEFINE Made == \E c \in Creators :
                     hdr.desc = Geo[c].desc /\ hdr.slot = Geo[c].slot /\ size = Total(Geo[c])
<1> SUFFICES ASSUME ~torn', size' # Absent
             PROVE  /\ Made' /\ hdr'.write_seq <= hdr'.claim_seq
                    /\ \A k \in 0..hdr'.desc-1 : slot_seq'[k] <= hdr'.claim_seq
  BY DEF RegionShape
<1>1. CASE WriteSlotSeq(p) /\ LastSlot(p) /\ p \notin disturbed
  <2>1. /\ p \in Creators /\ hdr' = Fresh(p) /\ size' = Total(Geo[p])
        /\ \A k \in 0..Geo[p].desc-1 : slot_seq'[k] = 0
    BY <1>1, LastWrite
  <2>2. Made'
    BY <2>1, FreshFields
  <2>3. hdr'.write_seq = 0 /\ hdr'.claim_seq = 0 /\ hdr'.desc = Geo[p].desc
    BY <2>1, FreshFields
  <2> HIDE DEF Made
  <2> QED
    BY <2>1, <2>2, <2>3
<1>2. ASSUME ~torn, UNCHANGED size, p \notin disturbed \/ pc[p] = "gone",
             \/ OpenNone(p) \/ Open(p) \/ CheckDesc(p) \/ CheckSlot(p) \/ Subscribe(p)
             \/ SubscribeStart(p) \/ Publishing(p) \/ Receive(p) \/ End(p)
      PROVE  /\ Made' /\ hdr'.write_seq <= hdr'.claim_seq
             /\ \A k \in 0..hdr'.desc-1 : slot_seq'[k] <= hdr'.claim_seq
  <2>1. /\ Made /\ hdr.write_seq <= hdr.claim_seq
        /\ \A k \in 0..hdr.desc-1 : slot_seq[k] <= hdr.claim_seq
    BY <1>2 DEF RegionShape
  <2>2. /\ hdr'.desc = hdr.desc /\ hdr'.slot = hdr.slot
        /\ ~Commit(p) => slot_seq' = slot_seq
        /\ ~Advance(p) => hdr'.write_seq = hdr.write_seq
        /\ hdr'.claim_seq \in {hdr.claim_seq, hdr.claim_seq + 1}
    BY <1>2, UserKeeps
  <2>3. /\ hdr.write_seq \in Nat /\ hdr.claim_seq \in Nat /\ hdr.desc \in Nat \ {0}
        /\ 0..hdr.desc-1 \subseteq Indexes /\ slot_seq \in [Indexes -> Nat]
        /\ call \in [Processes -> Calls] /\ MaxClaims \in Nat
    <3>1. PICK c \in Processes : hdr.desc = Geo[c].desc
      BY <2>1 DEF Processes
    <3>2. hdr.desc \in Nat \ {0} /\ 0..hdr.desc-1 \subseteq Indexes
      BY <3>1, GeoType
    <3>3. hdr.write_seq \in Nat /\ hdr.claim_seq \in Nat /\ MaxClaims \in Nat
      BY Header
    <3>4. slot_seq \in [Indexes -> 0..MaxClaims] /\ 0..MaxClaims \subseteq Nat
      BY <3>3 DEF TypeOK
    <3>5. slot_seq \in [Indexes -> Nat]
      BY <3>4
    <3> QED
      BY <3>2, <3>3, <3>5 DEF TypeOK, Calls
  <2>4. Publishing(p) /\ call[p].at # "none" =>
          call[p].cap = hdr.desc /\ call[p].claim < hdr.claim_seq
    <3>1. Publishing(p) => p \in InSession \ (Creating \cup disturbed)
      BY <1>2, PublishKeeps, Sessions DEF HasHandle, InitPcs
    <3> QED
      BY <3>1 DEF HandleShape
  <2>5. hdr'.write_seq <= hdr'.claim_seq
    <3>1. CASE Advance(p)
      <4> DEFINE w == hdr.write_seq
      <4>1. call[p].at = "advance" /\ call[p].cap = hdr.desc
        BY <2>4, <3>1 DEF Advance, Publishing
      <4>2. CommittedAt(w, hdr.desc) => w + 1 <= hdr.claim_seq
        <5>1. w % hdr.desc \in 0..hdr.desc-1
          BY <2>3, ModRange
        <5> QED
          BY <2>1, <2>3, <5>1 DEF CommittedAt, Index
      <4>3. hdr'.write_seq = (IF CommittedAt(w, hdr.desc) THEN w + 1 ELSE w)
            /\ hdr'.claim_seq = hdr.claim_seq
        BY <3>1, <4>1 DEF Advance, TypeOK
      <4> QED
        BY <2>1, <2>3, <4>2, <4>3
    <3>2. CASE ~Advance(p)
      BY <2>1, <2>2, <2>3, <3>2
    <3> QED
      BY <3>1, <3>2
  <2>6. ASSUME NEW k \in 0..hdr.desc-1 PROVE slot_seq'[k] <= hdr'.claim_seq
    <3>1. slot_seq[k] <= hdr.claim_seq /\ slot_seq[k] \in Nat /\ k \in Indexes
      BY <2>1, <2>3
    <3>2. CASE Commit(p)
      <4>1. /\ call[p].claim \in Nat /\ call[p].claim < hdr.claim_seq
        BY <2>3, <2>4, <3>2 DEF Commit, Publishing, Calls
      <4>2. slot_seq'[k] \in {slot_seq[k], call[p].claim + 1}
        BY <3>1, <3>2 DEF Commit
      <4> QED
        BY <2>2, <2>3, <3>1, <4>1, <4>2
    <3>3. CASE ~Commit(p)
      BY <2>2, <2>3, <3>1, <3>3
    <3> QED
      BY <3>2, <3>3
  <2> QED
    BY <1>2, <2>1, <2>2, <2>5, <2>6
<1> QED
  BY <1>1, <1>2, Complete

\* A publish keeps the capacity it has read and a number that has been claimed.
LEMMA CallingStep ==
  ASSUME TypeOK, NEW p \in Processes, Publishing(p), pc'[p] # "gone",
         call[p].at # "none" => call[p].cap = hdr.desc /\ call[p].claim < hdr.claim_seq
  PROVE  call'[p].at # "none" => call'[p].cap = hdr'.desc /\ call'[p].claim < hdr'.claim_seq
<1>1. /\ hdr.claim_seq \in Nat /\ call \in [Processes -> Calls]
      /\ hdr \in [write_seq : 0..MaxClaims, claim_seq : 0..MaxClaims, desc : {0} \cup Descs,
                  slot : Nat, n_subs : Nat, sub_read_seq : [0..MaxSubs-1 -> 0..MaxClaims]]
  BY Header DEF TypeOK, Calls
<1>2. ~ScanPanics(p)
  BY Places DEF ScanPanics, Ends, Goto, TypeOK
<1>3. CASE Claim(p) \/ Reserve(p)
  <2>1. /\ hdr' = [hdr EXCEPT !.claim_seq = hdr.claim_seq + 1]
        /\ call'[p].claim = hdr.claim_seq /\ call'[p].cap = hdr.desc
    BY <1>1, <1>3 DEF Claim, Reserve
  <2>2. hdr'.claim_seq = hdr.claim_seq + 1 /\ hdr'.desc = hdr.desc
    BY <1>1, <2>1
  <2> QED
    BY <1>1, <2>1, <2>2
<1>4. CASE Admit(p) \/ Commit(p)
  <2>1. call'[p].claim = call[p].claim /\ call'[p].cap = call[p].cap /\ hdr' = hdr
        /\ call[p].at # "none"
    BY <1>1, <1>4 DEF Admit, Commit, Calls
  <2> QED
    BY <2>1
<1>5. CASE Advance(p)
  <2>1. /\ call[p].at # "none" /\ hdr'.claim_seq = hdr.claim_seq /\ hdr'.desc = hdr.desc
        /\ call'[p] = call[p] \/ call'[p] = NoCall
    BY <1>1, <1>5 DEF Advance
  <2> QED
    BY <2>1 DEF NoCall
<1> QED
  BY <1>2, <1>3, <1>4, <1>5 DEF Publishing

LEMMA HandleStep ==
  ASSUME TypeOK, Overlaps, Overlaps', CreatorShape, HandleShape, NEW p \in Processes, Step(p)
  PROVE  HandleShape'
<1> DEFINE Calling(q) == call[q].at # "none" =>
                            call[q].cap = hdr.desc /\ call[q].claim < hdr.claim_seq
<1> SUFFICES ASSUME NEW q \in InSession' \ (Creating' \cup disturbed')
             PROVE  /\ pc'[q] # "check_desc" => hdr'.desc = Geo[q].desc
                    /\ HasHandle(q)' => hdr'.slot = Geo[q].slot
                    /\ Calling(q)'
  BY DEF HandleShape
<1>0. /\ q \in Processes /\ ~torn' /\ pc'[q] \notin {"new", "gone"} /\ pc'[q] \notin InitPcs
  BY DEF Overlaps, InSession, Creating
<1>1. CASE WriteSlotSeq(p) /\ LastSlot(p) /\ p \notin disturbed /\ InSession = {p}
  <2>1. q = p
    BY <1>0, <1>1, OthersStay
  <2>2. call'[p].at = "none"
    BY <1>1 DEF WriteSlotSeq, At, HasHandle, TypeOK
  <2> QED
    BY <1>1, <2>1, <2>2, LastWrite, FreshFields
<1>2. ASSUME ~torn, UNCHANGED disturbed, pc[p] \notin InitPcs,
             p \notin disturbed \/ pc[p] = "gone",
             \/ OpenNone(p) \/ Open(p) \/ CheckDesc(p) \/ CheckSlot(p) \/ Subscribe(p)
             \/ SubscribeStart(p) \/ Publishing(p) \/ Receive(p) \/ End(p)
      PROVE  /\ pc'[q] # "check_desc" => hdr'.desc = Geo[q].desc
             /\ HasHandle(q)' => hdr'.slot = Geo[q].slot
             /\ Calling(q)'
  <2>1. /\ hdr'.desc = hdr.desc /\ hdr'.slot = hdr.slot
        /\ hdr'.claim_seq >= hdr.claim_seq /\ hdr.claim_seq \in Nat
        /\ hdr'.claim_seq \in Nat
    <3>1. hdr.claim_seq \in Nat /\ hdr'.claim_seq \in {hdr.claim_seq, hdr.claim_seq + 1}
      BY <1>2, UserKeeps, Header
    <3> QED
      BY <1>2, <3>1, UserKeeps
  <2>2. q \in InSession /\ pc[q] \notin InitPcs =>
          /\ pc[q] # "check_desc" => hdr.desc = Geo[q].desc
          /\ HasHandle(q) => hdr.slot = Geo[q].slot
          /\ Calling(q)
    BY <1>2, Sessions DEF HandleShape
  <2>3. CASE q # p
    <3>1. pc'[q] = pc[q] /\ call'[q] = call[q] /\ q \in InSession
      BY <1>0, <2>3, OthersStay
    <3>2. call[q].claim \in Nat
      BY <1>0 DEF TypeOK
    <3> QED
      BY <1>0, <2>1, <2>2, <3>1, <3>2 DEF HasHandle
  <2>4. CASE q = p
    <3>1. CASE Open(p) \/ CheckDesc(p) \/ CheckSlot(p)
      <4>1. call[p].at = "none"
        BY <3>1, Places DEF TypeOK, HasHandle
      <4>2. call'[p] = call[p]
        BY <1>0, <2>4, <3>1 DEF Open, CheckDesc, CheckSlot, Check, Ends, Goto, TypeOK
      <4>3. CASE Open(p)
        BY <2>4, <4>1, <4>2, <4>3, Places DEF HasHandle
      <4>4. CASE CheckDesc(p)
        <5>1. /\ pc'[p] = "check_slot" /\ hdr.desc = Geo[p].desc
          BY <1>0, <2>4, <4>4, Places DEF CheckDesc, Check, Matches, Ends, Goto, TypeOK
        <5> QED
          BY <2>1, <2>4, <4>1, <4>2, <5>1 DEF HasHandle
      <4>5. CASE CheckSlot(p)
        <5>1. /\ pc[p] = "check_slot" /\ hdr.slot = Geo[p].slot
          BY <1>0, <2>4, <4>5, Places DEF CheckSlot, Check, Matches, Ends, Goto, TypeOK
        <5>2. q \in InSession
          BY <2>4, <5>1, Sessions
        <5> QED
          BY <1>2, <2>1, <2>2, <2>4, <4>1, <4>2, <5>1, <5>2
      <4> QED
        BY <3>1, <4>3, <4>4, <4>5
    <3>2. CASE Subscribe(p) \/ SubscribeStart(p) \/ Publishing(p) \/ Receive(p)
      <4>1. HasHandle(p) /\ HasHandle(p)' /\ p \in InSession
        BY <1>0, <2>4, <3>2, Places, Sessions DEF HasHandle
      <4>2. hdr.desc = Geo[p].desc /\ hdr.slot = Geo[p].slot /\ Calling(p)
        BY <1>2, <2>2, <2>4, <4>1 DEF HasHandle
      <4>3. Calling(p)'
        <5>1. CASE Publishing(p)
          BY <1>0, <2>1, <2>4, <4>2, <5>1, CallingStep
        <5>2. CASE ~Publishing(p)
          <6>1. call'[p] = call[p] /\ call[p].claim \in Nat
            BY <1>0, <2>4, <3>2, <5>2 DEF Subscribe, SubscribeStart, Receive, Ends, Goto, TypeOK
          <6> QED
            BY <2>1, <4>2, <6>1
        <5> QED
          BY <5>1, <5>2
      <4> QED
        BY <2>1, <2>4, <4>2, <4>3
    <3>3. ~(OpenNone(p) \/ End(p))
      BY <1>0, <2>4, Places
    <3> QED
      BY <1>2, <3>1, <3>2, <3>3
  <2> QED
    BY <2>3, <2>4
<1> QED
  BY <1>0, <1>1, <1>2, Complete

\* A joined process's cursor is its own, so the next to join gets another.
LEMMA CursorStep ==
  ASSUME TypeOK, TypeOK', Overlaps, Overlaps', RegionShape, OwnCursor,
         NEW p \in Processes, Step(p)
  PROVE  OwnCursor'
<1> DEFINE In(q) == pc[q] \in {"join", "joined"}
           Cursor(q) == hdr.sub_read_seq[id[q]]
<1> SUFFICES ASSUME NEW q \in Processes, In(q)', q \notin disturbed'
             PROVE  /\ id'[q] \in 0..MaxSubs-1 /\ id'[q] < hdr'.n_subs
                    /\ pc'[q] = "joined" =>
                         start'[q] <= Cursor(q)' /\ Cursor(q)' <= hdr'.claim_seq
                    /\ \A r \in Processes \ {q} : In(r)' => id'[r] # id'[q]
  BY DEF OwnCursor, Undisturbed
<1>0. /\ q \in InSession' \ (Creating' \cup disturbed') /\ ~torn'
      /\ \A r \in Processes : In(r)' => r \in InSession'
      /\ pc' \in [Processes -> Pcs] /\ hdr.claim_seq \in Nat /\ MaxSubs \in Nat
      /\ hdr.write_seq \in Nat
      /\ hdr.n_subs \in Nat /\ id \in [Processes -> -1..MaxSubs-1]
      /\ hdr.sub_read_seq \in [0..MaxSubs-1 -> 0..MaxClaims] /\ MaxClaims \in Nat
  <2>1. q \in InSession' \ (Creating' \cup disturbed')
        /\ \A r \in Processes : In(r)' => r \in InSession'
    BY DEF InSession, Creating, InitPcs
  <2>2. ~torn'
    BY <2>1 DEF Overlaps
  <2>3. pc' \in [Processes -> Pcs] /\ id \in [Processes -> -1..MaxSubs-1]
    BY Places DEF TypeOK
  <2>4. hdr.write_seq \in Nat /\ hdr.claim_seq \in Nat /\ MaxClaims \in Nat /\ MaxSubs \in Nat /\ hdr.n_subs \in Nat
        /\ hdr.sub_read_seq \in [0..MaxSubs-1 -> 0..MaxClaims]
    BY Header
  <2> QED
    BY <2>1, <2>2, <2>3, <2>4
<1>1. ~(WriteSlotSeq(p) /\ LastSlot(p) /\ InSession = {p})
  <2> SUFFICES ASSUME WriteSlotSeq(p), LastSlot(p), InSession = {p} PROVE FALSE
    OBVIOUS
  <2>1. pc'[p] = "ready"
    BY Places
  <2>2. q # p /\ q \in InSession
    BY <1>0, <2>1, OthersStay
  <2> QED
    BY <2>2
<1>2. /\ ~torn /\ pc[p] \notin InitPcs /\ UNCHANGED <<size, disturbed, torn>>
      /\ \/ OpenNone(p) \/ Open(p) \/ CheckDesc(p) \/ CheckSlot(p) \/ Subscribe(p)
         \/ SubscribeStart(p) \/ Publishing(p) \/ Receive(p) \/ End(p)
  BY <1>0, <1>1, Complete
<1>3. /\ hdr'.claim_seq >= hdr.claim_seq /\ hdr'.claim_seq \in Nat
      /\ ~Subscribe(p) => hdr'.n_subs = hdr.n_subs
      /\ ~(SubscribeStart(p) \/ Receive(p)) => hdr'.sub_read_seq = hdr.sub_read_seq
  <2>1. hdr'.claim_seq \in {hdr.claim_seq, hdr.claim_seq + 1}
    BY <1>2, UserKeeps
  <2> QED
    BY <1>0, <1>2, <2>1, UserKeeps
<1>4. \A r \in Processes : In(r) => r \notin disturbed
  <2>1. \A r \in Processes : In(r) => r \in InSession
    BY DEF InSession
  <2> QED
    BY <1>2, <2>1 DEF Overlaps
<1>5. \A r \in Processes : In(r) =>
        /\ id[r] \in 0..MaxSubs-1 /\ id[r] < hdr.n_subs
        /\ pc[r] = "joined" => start[r] <= Cursor(r) /\ Cursor(r) <= hdr.claim_seq
        /\ \A t \in Processes \ {r} : In(t) => id[t] # id[r]
  BY <1>4 DEF OwnCursor, Undisturbed
<1>6. \A r \in Processes \ {p} : pc'[r] = pc[r] /\ id'[r] = id[r] /\ start'[r] = start[r]
  BY OthersStay
<1>7. \A r \in Processes : In(r) => id[r] \in 0..MaxSubs-1
  BY <1>5
<1>8. CASE Subscribe(p)
  <2>1. /\ pc[p] = "ready" /\ hdr'.n_subs = hdr.n_subs + 1 /\ start' \in [Processes -> 0..MaxClaims]
        /\ pc'[p] \in {"join", "gone"}
    BY <1>8, Places DEF Subscribe, At, TypeOK
  <2>2. pc'[p] = "join" => id'[p] = hdr.n_subs /\ SlotLeft
    <3>1. CASE SlotLeft
      BY <1>0, <1>8, <3>1 DEF Subscribe
    <3>2. CASE ~SlotLeft
      BY <1>0, <1>8, <3>2 DEF Subscribe, Ends, Goto, TypeOK
    <3> QED
      BY <3>1, <3>2
  <2>3. CASE q = p
    <3>1. /\ pc'[q] = "join" /\ id'[q] = hdr.n_subs /\ hdr.n_subs < MaxSubs
      BY <2>1, <2>2, <2>3 DEF SlotLeft
    <3>2. id'[q] \in 0..MaxSubs-1 /\ id'[q] < hdr'.n_subs
      BY <1>0, <2>1, <3>1
    <3>3. ASSUME NEW r \in Processes \ {q}, In(r)' PROVE id'[r] # id'[q]
      <4>1. In(r) /\ id'[r] = id[r]
        BY <1>6, <2>3, <3>3
      <4>2. id[r] \in 0..MaxSubs-1 /\ id[r] < hdr.n_subs
        BY <1>5, <4>1
      <4> QED
        BY <1>0, <3>1, <4>1, <4>2
    <3> QED
      BY <3>1, <3>2, <3>3
  <2>4. CASE q # p
    <3>1. pc'[q] = pc[q] /\ id'[q] = id[q] /\ start'[q] = start[q] /\ In(q)
      BY <1>6, <2>4
    <3>2. id[q] \in 0..MaxSubs-1 /\ id[q] < hdr.n_subs
      BY <1>5, <3>1
    <3>3. id'[q] \in 0..MaxSubs-1 /\ id'[q] < hdr'.n_subs
      BY <1>0, <2>1, <3>1, <3>2
    <3>4. Cursor(q)' = Cursor(q) /\ hdr'.claim_seq = hdr.claim_seq
      <4>1. hdr'.claim_seq = hdr.claim_seq /\ hdr'.sub_read_seq = hdr.sub_read_seq
        BY <1>8 DEF Subscribe, TypeOK
      <4> QED
        BY <3>1, <4>1
    <3>5. ASSUME NEW r \in Processes \ {q}, In(r)' PROVE id'[r] # id'[q]
      <4>1. CASE r = p
        <5>1. id'[r] = hdr.n_subs
          BY <2>1, <2>2, <3>5, <4>1
        <5> QED
          BY <1>0, <3>1, <3>2, <5>1
      <4>2. CASE r # p
        BY <1>5, <1>6, <3>1, <3>5, <4>2
      <4> QED
        BY <4>1, <4>2
    <3> QED
      BY <1>5, <3>1, <3>3, <3>4, <3>5
  <2> QED
    BY <2>3, <2>4
<1>9. CASE SubscribeStart(p)
  <2>1. /\ pc[p] = "join" /\ pc'[p] = "joined" /\ id' = id
        /\ start' = [start EXCEPT ![p] = hdr.write_seq]
        /\ hdr'.sub_read_seq = [hdr.sub_read_seq EXCEPT ![id[p]] = hdr.write_seq]
    BY <1>9, Places DEF SubscribeStart, TypeOK
  <2>3. hdr'.n_subs = hdr.n_subs /\ hdr'.claim_seq = hdr.claim_seq
    BY <1>9 DEF SubscribeStart, TypeOK
  <2>7. hdr.write_seq <= hdr.claim_seq
    BY <1>2, <2>1, Sessions DEF Overlaps, RegionShape
  <2>4. /\ In(q) /\ \A r \in Processes \ {q} : In(r)' => In(r)
    BY <1>6, <2>1
  <2>5. CASE q = p
    <3>1. start'[q] = hdr.write_seq /\ Cursor(q)' = hdr.write_seq
      <4>1. id[p] \in 0..MaxSubs-1
        BY <1>7, <2>1
      <4>2. start'[q] = hdr.write_seq
        BY <2>1, <2>5 DEF TypeOK
      <4>3. hdr'.sub_read_seq[id[p]] = hdr.write_seq
        BY <1>0, <2>1, <4>1
      <4> QED
        BY <2>1, <2>5, <4>2, <4>3
    <3> QED
      BY <1>0, <1>5, <2>1, <2>3, <2>4, <2>7, <3>1
  <2>6. CASE q # p
    <3>1. id[q] # id[p] /\ id[q] \in 0..MaxSubs-1
      BY <1>5, <1>7, <2>1, <2>4, <2>6
    <3>2. Cursor(q)' = Cursor(q) /\ start'[q] = start[q] /\ pc'[q] = pc[q]
      BY <1>0, <1>6, <2>1, <2>6, <3>1
    <3> QED
      BY <1>5, <2>1, <2>3, <2>4, <3>2
  <2> QED
    BY <2>5, <2>6
<1>10. CASE Receive(p)
  <2> DEFINE c == hdr.sub_read_seq[id[p]]
  <2>1. /\ pc[p] = "joined" /\ id' = id /\ start' = start /\ pc' = pc
        /\ hdr'.sub_read_seq = [hdr.sub_read_seq EXCEPT ![id[p]] = c + 1]
        /\ CommittedAt(c, hdr.desc)
    BY <1>10 DEF Receive, At, TypeOK
  <2>3. hdr'.n_subs = hdr.n_subs /\ hdr'.claim_seq = hdr.claim_seq
    BY <1>10 DEF Receive, TypeOK
  <2>4. id[p] \in 0..MaxSubs-1 /\ c \in Nat
    BY <1>0, <1>7, <2>1
  <2>5. c + 1 <= hdr.claim_seq
    <3>1. size # Absent
      BY <2>1, Sessions DEF Overlaps
    <3>2. PICK g \in Processes : hdr.desc = Geo[g].desc
      BY <1>2, <3>1 DEF RegionShape, Processes
    <3>3. c % hdr.desc \in 0..hdr.desc-1 /\ hdr.desc # 0
      BY <2>4, <3>2, GeoType, ModRange
    <3> QED
      BY <1>2, <2>1, <3>1, <3>3 DEF RegionShape, CommittedAt, Index
  <2> HIDE DEF c
  <2>6. CASE q = p
    <3>1. Cursor(q)' = c + 1 /\ start[q] <= c
      <4>1. hdr'.sub_read_seq[id[p]] = c + 1
        BY <1>0, <2>1, <2>4
      <4>2. start[q] <= c
        BY <1>5, <2>1, <2>6 DEF c
      <4> QED
        BY <2>1, <2>6, <4>1, <4>2
    <3>2. start[q] \in Nat
      BY <1>0 DEF TypeOK
    <3> QED
      BY <1>5, <2>1, <2>3, <2>4, <2>5, <2>6, <3>1, <3>2
  <2>7. CASE q # p
    <3>1. id[q] # id[p] /\ id[q] \in 0..MaxSubs-1
      BY <1>5, <1>7, <2>1, <2>7
    <3>2. Cursor(q)' = Cursor(q)
      BY <1>0, <2>1, <3>1
    <3> QED
      BY <1>5, <2>1, <2>3, <3>2
  <2> QED
    BY <2>6, <2>7
<1>11. CASE ~(Subscribe(p) \/ SubscribeStart(p) \/ Receive(p))
  <2>1. /\ \A r \in Processes : In(r)' => In(r) /\ id'[r] = id[r]
        /\ pc'[q] = pc[q] /\ start'[q] = start[q]
    <3>1. In(p)' => pc'[p] = pc[p] /\ id'[p] = id[p] /\ start'[p] = start[p]
      <4>1. CASE Publishing(p)
        <5>1. ScanPanics(p) => ~In(p)'
          <6> SUFFICES ASSUME ScanPanics(p) PROVE pc'[p] = "gone"
            OBVIOUS
          <6>1. pc' = [pc EXCEPT ![p] = "gone"]
            BY DEF ScanPanics, Ends, Goto
          <6> QED
            BY <1>0, <6>1 DEF TypeOK
        <5>2. ~ScanPanics(p) => UNCHANGED <<pc, i, id, start>>
          BY <4>1, <1>0, PublishKeeps
        <5> QED
          BY <5>1, <5>2
      <4>2. CASE ~Publishing(p)
        BY <1>2, <1>11, <4>2, Places
      <4> QED
        BY <4>1, <4>2
    <3>2. CASE q = p
      BY <1>6, <3>1, <3>2
    <3>3. CASE q # p
      BY <1>6, <3>1, <3>3
    <3> QED
      BY <3>2, <3>3
  <2>2. Cursor(q)' = Cursor(q) /\ hdr'.n_subs = hdr.n_subs
    BY <1>3, <1>11, <2>1
  <2>3. Cursor(q) \in Nat
    BY <1>0, <1>7, <2>1
  <2>4. /\ id'[q] \in 0..MaxSubs-1 /\ id'[q] < hdr'.n_subs
        /\ \A t \in Processes \ {q} : In(t)' => id'[t] # id'[q]
    BY <1>5, <2>1, <2>2
  <2>5. pc'[q] = "joined" => start'[q] <= Cursor(q)' /\ Cursor(q)' <= hdr'.claim_seq
    <3>1. pc[q] = "joined" => start[q] <= Cursor(q) /\ Cursor(q) <= hdr.claim_seq
      BY <1>5, <2>1
    <3>2. hdr.claim_seq \in Nat
      BY <1>0
    <3> QED
      BY <1>3, <2>1, <2>2, <2>3, <3>1, <3>2
  <2> QED
    BY <2>4, <2>5
<1> QED
  BY <1>8, <1>9, <1>10, <1>11

LEMMA NextRegion == RegionInv /\ [Next]_vars => RegionInv'
<1> SUFFICES ASSUME RegionInv, [Next]_vars PROVE RegionInv'
  OBVIOUS
<1>1. ASSUME NEW p \in Processes, Step(p) PROVE RegionInv'
  <2>1. TypeOK' /\ Overlaps'
    BY <1>1, TypeStep, OverlapStep DEF RegionInv
  <2> QED
    BY <1>1, <2>1, CreatorStep, RegionStep, HandleStep, CursorStep DEF RegionInv
<1>2. CASE UNCHANGED vars
  <2>1. UNCHANGED <<size, hdr, slot_seq, pc, i, id, start, call, disturbed, torn>>
    BY <1>2 DEF vars
  <2>2. TypeOK'
    BY <2>1 DEF RegionInv, TypeOK, Creating, HasHandle
  <2>3. Overlaps'
    BY <2>1 DEF RegionInv, Overlaps, Creating, InSession
  <2>4. CreatorShape' /\ RegionShape'
    BY <2>1 DEF RegionInv, CreatorShape, RegionShape, Creating
  <2>5. HandleShape' /\ OwnCursor'
    BY <2>1 DEF RegionInv, HandleShape, OwnCursor, Creating, InSession, HasHandle, Undisturbed
  <2> QED
    BY <2>2, <2>3, <2>4, <2>5 DEF RegionInv
<1> QED
  BY <1>1, <1>2 DEF Next

LEMMA InitRegion == Init => RegionInv
<1> SUFFICES ASSUME Init PROVE RegionInv
  OBVIOUS
<1>1. /\ \A p \in Processes : pc[p] = "new" /\ i[p] = 0 /\ id[p] = -1
      /\ size = Absent /\ hdr = ZeroHeader /\ disturbed = {} /\ torn = FALSE
  BY DEF Init
<1>2. Creating = {} /\ InSession = {}
  BY <1>1 DEF Creating, InSession, InitPcs
<1>3. TypeOK
  <2>1. \A p \in Processes : 0 \in 0..Geo[p].desc-1
    BY GeoType
  <2>2. -1 \in -1..MaxSubs-1 /\ 0 \in 0..MaxClaims
    BY GeoAssumption
  <2>3. /\ slot_seq \in [Indexes -> 0..MaxClaims]
        /\ i \in [Processes -> Nat] /\ id \in [Processes -> -1..MaxSubs-1]
        /\ start \in [Processes -> 0..MaxClaims]
    BY <2>2 DEF Init
  <2>4. pc \in [Processes -> Pcs]
    BY DEF Init, Pcs
  <2>5. call \in [Processes -> Calls] /\ \A p \in Processes : call[p].at = "none"
    <3>1. NoCall \in Calls /\ NoCall.at = "none"
      BY <2>2 DEF NoCall, Calls
    <3> QED
      BY <3>1 DEF Init
  <2>6. /\ size \in {Absent, 0} \cup {Total(Geo[p]) : p \in Creators}
        /\ disturbed \subseteq Processes /\ torn \in BOOLEAN /\ Creating \subseteq Creators
    BY <1>1, <1>2
  <2>7. \A p \in Processes :
          /\ i[p] \in 0..Geo[p].desc-1 /\ (pc[p] # "slots" => i[p] = 0)
          /\ id[p] # -1 <=> pc[p] \in {"join", "joined"}
    BY <1>1, <2>1
  <2>8. hdr \in [write_seq : 0..MaxClaims, claim_seq : 0..MaxClaims, desc : {0} \cup Descs,
                 slot : Nat, n_subs : Nat, sub_read_seq : [0..MaxSubs-1 -> 0..MaxClaims]]
    BY <1>1, ZeroType
  <2> QED
    BY <2>3, <2>4, <2>5, <2>6, <2>7, <2>8 DEF TypeOK, Pcs, Calls
<1>4. Overlaps /\ CreatorShape /\ RegionShape /\ HandleShape
  BY <1>1, <1>2 DEF Overlaps, CreatorShape, RegionShape, HandleShape
<1>5. OwnCursor
  BY <1>1 DEF OwnCursor
<1> QED
  BY <1>3, <1>4, <1>5 DEF RegionInv

(* Whoever is alone with a region, or came when it was complete and nobody *)
(* disturbed was about, finds in it what its creator wrote there.          *)
THEOREM RegionInvariant == Spec => []RegionInv
BY InitRegion, NextRegion, PTL DEF Spec

(* Sizes, header fields and slot numbers stay in range whatever is created, *)
(* opened or left half-done on the same object, and a process has an id    *)
(* exactly while it is subscribed (bus.rs 365-383).                        *)
THEOREM RegionTypeCorrect == Spec => []TypeOK
<1>1. RegionInv => TypeOK
  BY DEF RegionInv
<1> QED
  BY <1>1, RegionInvariant, PTL

(* "size mismatch opening bus" (main.rs:58): an undisturbed session computes *)
(* with the geometry of the object, in the middle of a publish too, and     *)
(* header, slots and payloads lie in it, apart from each other (bus.rs     *)
(* 273-292, 353-360, 412, 474).                                            *)
THEOREM GeometryAgrees == Spec => []SameGeometry
<1>1. RegionInv => SameGeometry
  <2> SUFFICES ASSUME RegionInv, NEW p \in Processes, HasHandle(p), p \notin disturbed
               PROVE  /\ hdr.desc = Geo[p].desc /\ hdr.slot = Geo[p].slot
                      /\ call[p].at # "none" => call[p].cap = hdr.desc
                      /\ size = Total(Geo[p]) /\ LaidOut(hdr.desc, hdr.slot, size)
    BY DEF SameGeometry, Undisturbed
  <2>1. p \in InSession \ (Creating \cup disturbed)
    BY DEF InSession, Creating, HasHandle, InitPcs
  <2>2. /\ hdr.desc = Geo[p].desc /\ hdr.slot = Geo[p].slot
        /\ call[p].at # "none" => call[p].cap = hdr.desc
    BY <2>1 DEF RegionInv, HandleShape, HasHandle
  <2>3. size = Total(Geo[p])
    <3>1. ~torn /\ size # Absent
      BY <2>1 DEF RegionInv, Overlaps
    <3> QED
      BY <2>2, <3>1 DEF RegionInv, RegionShape, Total
  <2>4. LaidOut(Geo[p].desc, Geo[p].slot, Total(Geo[p]))
    <3> DEFINE d == Geo[p].desc
               s == Geo[p].slot
    <3>1. d \in Nat \ {0} /\ s \in Nat /\ NamedAccepts(d, d * s) /\ d * s \in Nat
      BY GeoType, GeoAssumption
    <3>2. SlotBytes(d, d * s) = s
      <4>1. SlotBytes(d, d * s) \in Nat /\ d * SlotBytes(d, d * s) = d * s
        BY <3>1, SlabFilled DEF NamedAccepts
      <4> QED
        BY <3>1, <4>1, Cancel
    <3>3. LaidOut(d, SlotBytes(d, d * s), NamedLength(d, d * s))
      BY <3>1, NamedLaidOut
    <3> QED
      BY <3>2, <3>3 DEF Total
  <2> QED
    BY <2>2, <2>3, <2>4
<1> QED
  BY <1>1, RegionInvariant, PTL

(* A subscriber that no create() disturbs keeps its cursor to itself, among *)
(* those that producers look at, from where it joined and never past what  *)
(* has been claimed: past write_seq it may be, when what it has read is     *)
(* committed and not yet counted (bus.rs 365-383, 479-517, 555-577).       *)
THEOREM CursorsApart == Spec => []OwnCursor
<1>1. RegionInv => OwnCursor
  BY DEF RegionInv
<1> QED
  BY <1>1, RegionInvariant, PTL

(* create() returns an empty ring of its own shape whatever lay there      *)
(* before, when nobody was with it (bus.rs 269-333).                       *)
THEOREM CreatesFresh == Spec => FreshRegion
<1> DEFINE Done(p) == pc[p] \in InitPcs /\ pc'[p] = "ready" /\ Undisturbed(p) =>
                        /\ hdr' = Fresh(p)
                        /\ \A k \in 0..Geo[p].desc-1 : slot_seq'[k] = 0
           Freshly == \A p \in Creators : Done(p)
<1>1. RegionInv /\ [Next]_vars => [Freshly]_vars
  <2> SUFFICES ASSUME RegionInv, Next, NEW p \in Creators, pc[p] \in InitPcs,
                      pc'[p] = "ready", p \notin disturbed
               PROVE  /\ hdr' = Fresh(p)
                      /\ \A k \in 0..Geo[p].desc-1 : slot_seq'[k] = 0
    BY DEF Undisturbed
  <2>1. PICK q \in Processes : Step(q)
    BY DEF Next
  <2>2. p \in Processes /\ TypeOK /\ CreatorShape
    BY DEF Processes, RegionInv
  <2>3. q = p
    BY <2>1, <2>2, OthersStay DEF InitPcs
  <2>4. WriteSlotSeq(p) /\ LastSlot(p)
    BY <2>1, <2>2, <2>3, Places DEF Step, InitPcs, HasHandle, Publishing
  <2> QED
    BY <2>2, <2>4, LastWrite
<1>2. FreshRegion <=> [][Freshly]_vars
  BY DEF FreshRegion
<1> HIDE DEF Freshly
<1> QED
  BY <1>1, <1>2, RegionInvariant, PTL DEF Spec
=============================================================================
