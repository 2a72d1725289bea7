------------------------------ MODULE L2Proofs ------------------------------
(***************************************************************************)
(* Theorems about the bridges of L2Bridge, for any messages, cut into any  *)
(* number of fragments, and any sizes of buses and buffers.                *)
(***************************************************************************)
EXTENDS L2Properties, SequenceTheorems, TLAPS

Pcs    == {"probe_bus", "probe_wire", "loop", "send", "recv", "publish", "ack"}
Frames == DataFrames \cup AckFrames

-----------------------------------------------------------------------------
(* Sequences.                                                              *)

LEMMA Appended ==
  ASSUME NEW S, NEW q \in Seq(S), NEW e \in S
  PROVE  /\ Append(q, e) \in Seq(S) /\ Append(q, e) # <<>>
         /\ Len(q) \in Nat /\ Len(Append(q, e)) = Len(q) + 1
         /\ \A k \in 1..Len(q) : Append(q, e)[k] = q[k]
         /\ Append(q, e)[Len(q) + 1] = e
         /\ DOMAIN q = 1..Len(q) /\ DOMAIN Append(q, e) = 1..Len(q)+1
OBVIOUS

LEMMA Tailed ==
  ASSUME NEW S, NEW q \in Seq(S), q # <<>>
  PROVE  /\ Tail(q) \in Seq(S) /\ Len(q) \in Nat \ {0} /\ Len(Tail(q)) = Len(q) - 1
         /\ \A k \in 1..Len(q)-1 : Tail(q)[k] = q[k + 1]
         /\ Head(q) = q[1] /\ q[1] \in S
         /\ DOMAIN q = 1..Len(q) /\ DOMAIN Tail(q) = 1..Len(q)-1
OBVIOUS

LEMMA Removed ==
  ASSUME NEW S, NEW q \in Seq(S), NEW k \in 1..Len(q)
  PROVE  LET r == SubSeq(q, 1, k-1) \o SubSeq(q, k+1, Len(q))
         IN  /\ r \in Seq(S) /\ Len(r) = Len(q) - 1
             /\ \A j \in 1..Len(q)-1 : r[j] = q[IF j < k THEN j ELSE j + 1]
<1> DEFINE x == SubSeq(q, 1, k-1)
           y == SubSeq(q, k+1, Len(q))
           r == x \o y
<1>1. /\ x \in Seq(S) /\ Len(x) = k - 1 /\ \A j \in 1..k-1 : x[j] = q[j]
  OBVIOUS
<1>2. /\ y \in Seq(S) /\ Len(y) = Len(q) - k /\ \A j \in 1..Len(q)-k : y[j] = q[k + j]
  OBVIOUS
<1>3. Len(q) \in Nat /\ k \in Nat
  OBVIOUS
<1> HIDE DEF x, y
<1>4. /\ r \in Seq(S) /\ Len(r) = Len(x) + Len(y)
      /\ \A j \in 1..Len(x)+Len(y) : r[j] = IF j <= Len(x) THEN x[j] ELSE y[j - Len(x)]
  BY <1>1, <1>2, ConcatProperties, Zenon
<1> HIDE DEF r
<1>5. /\ r \in Seq(S) /\ Len(r) = Len(q) - 1
      /\ \A j \in 1..Len(q)-1 : r[j] = IF j <= k - 1 THEN x[j] ELSE y[j - (k - 1)]
  BY <1>1, <1>2, <1>3, <1>4
<1>6. ASSUME NEW j \in 1..Len(q)-1 PROVE r[j] = q[IF j < k THEN j ELSE j + 1]
  <2>1. CASE j < k
    <3>1. r[j] = x[j] /\ j \in 1..k-1
      BY <1>3, <1>5, <2>1
    <3> QED
      BY <1>1, <2>1, <3>1
  <2>2. CASE j >= k
    <3>1. r[j] = y[j - (k - 1)] /\ j - (k - 1) \in 1..Len(q)-k /\ k + (j - (k - 1)) = j + 1
      BY <1>3, <1>5, <2>2
    <3>2. y[j - (k - 1)] = q[k + (j - (k - 1))]
      BY <1>2, <3>1
    <3>3. ~(j < k)
      BY <1>3, <2>2
    <3> QED
      BY <3>1, <3>2, <3>3
  <2> QED
    BY <1>3, <2>1, <2>2
<1> QED
  BY <1>5, <1>6 DEF r, x, y

LEMMA PayloadType ==
  ASSUME NEW m \in AllMsgs
  PROVE  /\ Payload(m) \in Payloads /\ Len(Payload(m)) \in Nat \ {0}
         /\ \A k \in 1..Len(Payload(m)) : Payload(m)[k] = <<m, k>>
<1> DEFINE n == IF m = Probe THEN 1 ELSE Frags[m]
<1>1. n \in Nat \ {0}
  BY MsgAssumption DEF AllMsgs
<1> HIDE DEF n
<1>2. Payload(m) = [k \in 1..n |-> <<m, k>>]
  BY DEF Payload, n
<1>3. \A k \in 1..n : <<m, k>> \in Fragments
  BY <1>1 DEF Fragments
<1>4. [k \in 1..n |-> <<m, k>>] \in Seq(Fragments) /\ Len([k \in 1..n |-> <<m, k>>]) = n
  BY <1>1, <1>3
<1> QED
  BY <1>1, <1>2, <1>4 DEF Payloads

\* A leading part, fragment by fragment.
Part(p, m) == /\ Len(p) \in 1..Len(Payload(m))
              /\ \A k \in 1..Len(p) : p[k] = <<m, k>>

LEMMA Leading ==
  ASSUME NEW p \in Seq(Fragments)
  PROVE  LeadingPart(p) <=> \E m \in AllMsgs : Part(p, m)
<1>1. ASSUME NEW m \in AllMsgs, NEW k \in 1..Len(Payload(m))
      PROVE  p = SubSeq(Payload(m), 1, k) <=> Len(p) = k /\ \A j \in 1..k : p[j] = <<m, j>>
  <2> DEFINE q == Payload(m)
             r == SubSeq(q, 1, k)
  <2>1. q \in Seq(Fragments) /\ k \in 1..Len(q) /\ \A j \in 1..Len(q) : q[j] = <<m, j>>
    BY <1>1, PayloadType DEF Payloads
  <2> HIDE DEF q
  <2>2. r \in Seq(Fragments) /\ Len(r) = k /\ \A j \in 1..k : r[j] = q[j]
    BY <2>1
  <2> HIDE DEF r
  <2>3. \A j \in 1..k : r[j] = <<m, j>>
    <3>1. 1..k \subseteq 1..Len(q)
      BY <2>1
    <3> QED
      BY <2>1, <2>2, <3>1, Zenon
  <2>4. Len(p) = k /\ (\A j \in 1..k : p[j] = r[j]) <=> p = r
    BY <2>2
  <2> QED
    BY <2>3, <2>4 DEF q, r
<1> QED
  BY <1>1 DEF LeadingPart, Part

-----------------------------------------------------------------------------
(* What the calls of a bridge do, and types.                               *)

LEMMA Sent ==
  ASSUME TypeOK, NEW b \in Bridges, NEW f \in Frames, Send(b, f)
  PROVE  /\ link' \in [Bridges -> Seq(Frames)] /\ link'[b] = link[b]
         /\ \A d \in Bridges \ {b} : link'[d] = Append(link[d], f)
<1>1. \A d \in Bridges : link[d] \in Seq(Frames) /\ Append(link[d], f) \in Seq(Frames)
  BY Appended DEF TypeOK, Frames
<1> QED
  BY <1>1 DEF Send

LEMMA Handed ==
  ASSUME TypeOK, NEW b \in Bridges, link[b] # <<>>, link' = [link EXCEPT ![b] = Tail(@)]
  PROVE  /\ link' \in [Bridges -> Seq(Frames)] /\ link'[b] = Tail(link[b])
         /\ Head(link[b]) \in Frames /\ \A d \in Bridges \ {b} : link'[d] = link[d]
<1>1. link \in [Bridges -> Seq(Frames)]
  BY DEF TypeOK, Frames
<1>2. Tail(link[b]) \in Seq(Frames) /\ Head(link[b]) \in Frames
  BY <1>1, Tailed
<1> QED
  BY <1>1, <1>2

LEMMA Placed ==
  ASSUME TypeOK, NEW b \in Bridges, NEW p \in Payloads, Put(b, p)
  PROVE  /\ bus' \in [Bridges -> Seq(Payloads)] /\ bus'[b] = Append(bus[b], p)
         /\ Len(bus[b]) \in Nat /\ Len(bus'[b]) = Len(bus[b]) + 1
         /\ \A d \in Bridges \ {b} : bus'[d] = bus[d]
<1>1. /\ bus \in [Bridges -> Seq(Payloads)] /\ Append(bus[b], p) \in Seq(Payloads)
      /\ Len(bus[b]) \in Nat /\ Len(Append(bus[b], p)) = Len(bus[b]) + 1
  BY Appended DEF TypeOK
<1> QED
  BY <1>1 DEF Put

LEMMA Probed ==
  ASSUME TypeOK, NEW b \in Bridges
  PROVE  DataFrame(next_id[b], 0, TRUE, <<Probe, 1>>, 0) \in DataFrames
BY DEF TypeOK, DataFrame, DataFrames, Fragments, AllMsgs

LEMMA Counted ==
  ASSUME TypeOK, NEW b \in Bridges, UseId(b)
  PROVE  next_id' \in [Bridges -> Nat] /\ \A d \in Bridges \ {b} : next_id'[d] = next_id[d]
<1>0. next_id[b] + 1 \in Nat /\ IdSpace \in Nat \ {0}
  BY SizeAssumption DEF TypeOK
<1>1. (next_id[b] + 1) % IdSpace \in Nat
  BY <1>0
<1> QED
  BY <1>1 DEF TypeOK, UseId

LEMMA FragmentOut ==
  ASSUME TypeOK, NEW b \in Bridges, pc[b] = "send"
  PROVE  LET t == tx[b]
         IN  /\ t.pay \in Payloads /\ t.idx + 1 \in 1..Len(t.pay) /\ t.idx \in Nat
             /\ \A l \in BOOLEAN :
                  DataFrame(t.id, t.idx, l, t.pay[t.idx + 1], t.nth) \in DataFrames
<1> DEFINE t == tx[b]
<1>1. t \in [pay : Seq(Fragments), nth : Nat, id : Nat, idx : Nat] /\ t.idx < Len(t.pay)
  BY DEF TypeOK
<1> HIDE DEF t
<1>2. t.pay \in Payloads /\ t.idx + 1 \in 1..Len(t.pay)
  BY <1>1 DEF Payloads
<1>3. t.pay[t.idx + 1] \in Fragments
  BY <1>1, <1>2, ElementOfSeq
<1>4. \A l \in BOOLEAN :
        DataFrame(t.id, t.idx, l, t.pay[t.idx + 1], t.nth) \in DataFrames
  BY <1>1, <1>3 DEF DataFrame, DataFrames
<1> QED
  BY <1>1, <1>2, <1>4 DEF t

LEMMA SendStep ==
  ASSUME TypeOK, NEW b \in Bridges, SendFrag(b)
  PROVE  LET t    == tx[b]
             last == t.idx + 1 = Len(t.pay)
         IN  /\ Send(b, DataFrame(t.id, t.idx, last, t.pay[t.idx + 1], t.nth))
             /\ pc[b] = "send" /\ pc' \in [Bridges -> Pcs]
             /\ tx' \in [Bridges -> [pay : Seq(Fragments), nth : Nat, id : Nat, idx : Nat]]
             /\ \A d \in Bridges \ {b} : pc'[d] = pc[d] /\ tx'[d] = tx[d]
             /\ last => pc'[b] = "recv"
             /\ ~last => /\ pc'[b] = "send" /\ t.idx + 1 < Len(t.pay)
                         /\ tx'[b].idx = t.idx + 1 /\ tx'[b].pay = t.pay
                         /\ tx'[b].id = t.id /\ tx'[b].nth = t.nth
<1> DEFINE t == tx[b]
           last == t.idx + 1 = Len(t.pay)
           X == [pay : Seq(Fragments), nth : Nat, id : Nat, idx : Nat]
<1>1. /\ Send(b, DataFrame(t.id, t.idx, last, t.pay[t.idx + 1], t.nth)) /\ pc[b] = "send"
      /\ last => pc' = [pc EXCEPT ![b] = "recv"] /\ tx' = [tx EXCEPT ![b] = Nothing]
      /\ ~last => pc' = pc /\ tx' = [tx EXCEPT ![b].idx = @ + 1]
  BY DEF SendFrag, Goto
<1>2. pc \in [Bridges -> Pcs] /\ tx \in [Bridges -> X] /\ t \in X /\ t.idx + 1 \in 1..Len(t.pay)
  BY <1>1, FragmentOut DEF TypeOK, Pcs
<1>3. CASE last
  <2>1. Nothing \in X
    BY DEF Nothing
  <2> QED
    BY <1>1, <1>2, <1>3, <2>1 DEF Pcs
<1>4. CASE ~last
  <2>1. t.idx + 1 < Len(t.pay)
    <3>1. Len(t.pay) \in Nat
      BY <1>2
    <3> QED
      BY <1>2, <1>4, <3>1
  <2>2. tx' = [tx EXCEPT ![b] = [t EXCEPT !.idx = t.idx + 1]]
    BY <1>1, <1>2, <1>4
  <2>3. [t EXCEPT !.idx = t.idx + 1] \in X
    <3> HIDE DEF t
    <3>1. t.idx + 1 \in Nat
      BY <1>2
    <3> QED
      BY <1>2, <3>1
  <2>4. tx' \in [Bridges -> X] /\ tx'[b] = [t EXCEPT !.idx = t.idx + 1]
        /\ \A d \in Bridges \ {b} : tx'[d] = tx[d]
    BY <1>2, <2>2, <2>3
  <2>5. /\ tx'[b].idx = t.idx + 1 /\ tx'[b].pay = t.pay
        /\ tx'[b].id = t.id /\ tx'[b].nth = t.nth
    BY <1>2, <2>4
  <2> QED
    BY <1>1, <1>2, <1>4, <2>1, <2>4, <2>5
<1> QED
  BY <1>3, <1>4, <1>1

\* What a data frame finds in the buffer, and leaves there.
BufAt(b, f)  == IF Restarts(b, f) THEN <<>> ELSE reasm_buf[b]
NextAt(b, f) == IF Restarts(b, f) THEN 0 ELSE reasm_next_idx[b]

LEMMA RecvStep ==
  ASSUME TypeOK, NEW b \in Bridges, RecvData(b)
  PROVE  LET f     == link[b][1]
             buf   == BufAt(b, f)
             next  == NextAt(b, f)
             fits  == FitsNext(b, f, next)
         IN  /\ pc[b] = "recv" /\ link[b] # <<>> /\ f \in DataFrames
             /\ link' = [link EXCEPT ![b] = Tail(@)]
             /\ buf \in Seq(Fragments) /\ next \in Nat
             /\ pc' \in [Bridges -> Pcs] /\ pc'[b] \in {"loop", "publish", "ack"}
             /\ reasm_buf' \in [Bridges -> Seq(Fragments)]
             /\ reasm_id' \in [Bridges -> Nat] /\ reasm_next_idx' \in [Bridges -> Nat]
             /\ rx' \in [Bridges -> Nat] /\ reasm_id'[b] = f.id /\ rx'[b] = f.id
             /\ \A d \in Bridges \ {b} :
                  /\ pc'[d] = pc[d] /\ reasm_buf'[d] = reasm_buf[d]
                  /\ reasm_id'[d] = reasm_id[d] /\ rx'[d] = rx[d]
                  /\ reasm_next_idx'[d] = reasm_next_idx[d]
             /\ Len(reasm_buf'[b]) <= MaxFrame
             /\ pc'[b] = "publish" => reasm_buf'[b] # <<>>
             /\ \/ /\ fits /\ Len(buf) >= MaxFrame
                   /\ reasm_buf'[b] = <<>> /\ reasm_next_idx'[b] = 0 /\ pc'[b] = "loop"
                \/ /\ fits /\ Len(buf) < MaxFrame
                   /\ reasm_buf'[b] = Append(buf, f.frag) /\ reasm_next_idx'[b] = next + 1
                   /\ pc'[b] = IF f.last THEN "publish" ELSE "loop"
                \/ /\ ~fits /\ reasm_buf'[b] = buf /\ reasm_next_idx'[b] = next
                   /\ pc'[b] = IF ~f.last THEN "loop"
                               ELSE IF buf # <<>> THEN "publish" ELSE "ack"
<1> DEFINE f    == Head(link[b])
           buf  == BufAt(b, f)
           next == NextAt(b, f)
           fits == FitsNext(b, f, next)
           appended == IF fits THEN Append(buf, f.frag) ELSE buf
           overflow == Len(appended) > MaxFrame
<1>1. /\ pc[b] = "recv" /\ link[b] # <<>> /\ f.chan = 0
      /\ link' = [link EXCEPT ![b] = Tail(@)]
      /\ reasm_id' = [reasm_id EXCEPT ![b] = f.id] /\ rx' = [rx EXCEPT ![b] = f.id]
      /\ reasm_buf' = [reasm_buf EXCEPT ![b] = IF overflow THEN <<>> ELSE appended]
      /\ reasm_next_idx' = [reasm_next_idx EXCEPT ![b] =
              IF overflow THEN 0 ELSE IF fits THEN next + 1 ELSE next]
      /\ pc' = [pc EXCEPT ![b] = IF overflow \/ ~f.last THEN "loop"
                                 ELSE IF appended # <<>> THEN "publish" ELSE "ack"]
  BY DEF RecvData, BufAt, NextAt, Goto
<1>2. f = link[b][1] /\ f \in DataFrames
  <2>1. link[b] \in Seq(Frames)
    BY DEF TypeOK, Frames
  <2>2. f = link[b][1] /\ f \in Frames
    BY <1>1, <2>1, Tailed
  <2>3. f \notin AckFrames
    BY <1>1 DEF AckFrames
  <2> QED
    BY <2>2, <2>3 DEF Frames
<1> HIDE DEF f
<1>3. f.id \in Nat /\ f.frag \in Fragments /\ f.last \in BOOLEAN
  BY <1>2 DEF DataFrames
<1>4. /\ buf \in Seq(Fragments) /\ next \in Nat /\ Len(buf) \in Nat /\ Len(buf) <= MaxFrame
  <2>1. /\ reasm_buf[b] \in Seq(Fragments) /\ Len(reasm_buf[b]) <= MaxFrame
        /\ reasm_next_idx[b] \in Nat /\ Len(reasm_buf[b]) \in Nat
    BY DEF TypeOK
  <2>2. <<>> \in Seq(Fragments) /\ Len(<<>>) = 0 /\ MaxFrame \in Nat
    BY SizeAssumption
  <2> QED
    BY <2>1, <2>2 DEF BufAt, NextAt
<1> HIDE DEF buf, next, fits
<1>5. /\ Append(buf, f.frag) \in Seq(Fragments) /\ Append(buf, f.frag) # <<>>
      /\ Len(Append(buf, f.frag)) = Len(buf) + 1 /\ MaxFrame \in Nat \ {0}
  BY <1>3, <1>4, Appended, SizeAssumption
<1>6. /\ appended \in Seq(Fragments)
      /\ fits => appended # <<>>
      /\ overflow <=> fits /\ Len(buf) >= MaxFrame
  <2>1. CASE fits
    BY <1>4, <1>5, <2>1
  <2>2. CASE ~fits
    BY <1>4, <1>5, <2>2
  <2> QED
    BY <2>1, <2>2
<1>7. /\ pc \in [Bridges -> Pcs] /\ reasm_buf \in [Bridges -> Seq(Fragments)]
      /\ reasm_id \in [Bridges -> Nat] /\ reasm_next_idx \in [Bridges -> Nat]
      /\ rx \in [Bridges -> Nat] /\ <<>> \in Seq(Fragments) /\ Len(<<>>) = 0
  BY DEF TypeOK, Pcs
<1>8. /\ pc' \in [Bridges -> Pcs] /\ pc'[b] \in {"loop", "publish", "ack"}
      /\ pc'[b] = IF overflow \/ ~f.last THEN "loop"
                  ELSE IF appended # <<>> THEN "publish" ELSE "ack"
      /\ \A d \in Bridges \ {b} : pc'[d] = pc[d]
  BY <1>1, <1>7 DEF Pcs
<1>9. /\ reasm_id' \in [Bridges -> Nat] /\ rx' \in [Bridges -> Nat]
      /\ reasm_id'[b] = f.id /\ rx'[b] = f.id
      /\ \A d \in Bridges \ {b} : reasm_id'[d] = reasm_id[d] /\ rx'[d] = rx[d]
  BY <1>1, <1>3, <1>7
<1> HIDE DEF appended, overflow
<1>10. /\ reasm_buf' \in [Bridges -> Seq(Fragments)] /\ reasm_next_idx' \in [Bridges -> Nat]
       /\ reasm_buf'[b] = IF overflow THEN <<>> ELSE appended
       /\ reasm_next_idx'[b] = IF overflow THEN 0 ELSE IF fits THEN next + 1 ELSE next
       /\ \A d \in Bridges \ {b} : /\ reasm_buf'[d] = reasm_buf[d]
                                   /\ reasm_next_idx'[d] = reasm_next_idx[d]
  <2>1. (IF overflow THEN <<>> ELSE appended) \in Seq(Fragments)
    BY <1>6, <1>7
  <2>2. (IF overflow THEN 0 ELSE IF fits THEN next + 1 ELSE next) \in Nat
    <3>1. next + 1 \in Nat /\ 0 \in Nat
      BY <1>4
    <3> QED
      BY <1>4, <3>1, Zenon
  <2> QED
    BY <1>1, <1>7, <2>1, <2>2, Zenon
<1>11. \/ /\ fits /\ Len(buf) >= MaxFrame
          /\ reasm_buf'[b] = <<>> /\ reasm_next_idx'[b] = 0 /\ pc'[b] = "loop"
       \/ /\ fits /\ Len(buf) < MaxFrame
          /\ reasm_buf'[b] = Append(buf, f.frag) /\ reasm_next_idx'[b] = next + 1
          /\ pc'[b] = IF f.last THEN "publish" ELSE "loop"
       \/ /\ ~fits /\ reasm_buf'[b] = buf /\ reasm_next_idx'[b] = next
          /\ pc'[b] = IF ~f.last THEN "loop"
                      ELSE IF buf # <<>> THEN "publish" ELSE "ack"
  <2>1. CASE overflow
    BY <1>6, <1>8, <1>10, <2>1
  <2>2. CASE fits /\ ~overflow
    <3>1. appended = Append(buf, f.frag) /\ appended # <<>> /\ Len(buf) < MaxFrame
      BY <1>4, <1>5, <1>6, <2>2 DEF appended
    <3> QED
      BY <1>8, <1>10, <2>2, <3>1
  <2>3. CASE ~fits /\ ~overflow
    BY <1>8, <1>10, <2>3 DEF appended
  <2> QED
    BY <2>1, <2>2, <2>3
<1>12. Len(reasm_buf'[b]) <= MaxFrame /\ (pc'[b] = "publish" => reasm_buf'[b] # <<>>)
  BY <1>4, <1>5, <1>7, <1>11
<1> QED
  BY <1>1, <1>2, <1>4, <1>8, <1>9, <1>10, <1>11, <1>12 DEF f, buf, next, fits

LEMMA MovesType ==
  ASSUME TypeOK, NEW b \in Bridges, NEW l \in Pcs \ {"send", "publish"}, Goto(b, l),
         UNCHANGED <<bus, bridged, cur, published, next_id, tx, reasm_buf, reasm_id,
                     reasm_next_idx, rx>>,
         printed_pass' \in [Bridges -> BOOLEAN], link' \in [Bridges -> Seq(Frames)]
  PROVE  TypeOK'
<1>1. pc' \in [Bridges -> Pcs] /\ \A d \in Bridges : pc'[d] \in {pc[d], l}
  BY DEF TypeOK, Goto, Pcs
<1> QED
  BY <1>1 DEF TypeOK, Pcs, Frames

LEMMA SendType ==
  ASSUME TypeOK, NEW b \in Bridges, SendFrag(b) PROVE TypeOK'
<1> DEFINE t    == tx[b]
           last == t.idx + 1 = Len(t.pay)
           f    == DataFrame(t.id, t.idx, last, t.pay[t.idx + 1], t.nth)
<1>1. /\ Send(b, f) /\ pc[b] = "send" /\ pc' \in [Bridges -> Pcs]
      /\ tx' \in [Bridges -> [pay : Seq(Fragments), nth : Nat, id : Nat, idx : Nat]]
      /\ \A d \in Bridges \ {b} : pc'[d] = pc[d] /\ tx'[d] = tx[d]
      /\ last => pc'[b] = "recv"
      /\ ~last => /\ pc'[b] = "send" /\ t.idx + 1 < Len(t.pay)
                  /\ tx'[b].idx = t.idx + 1 /\ tx'[b].pay = t.pay
  BY SendStep
<1>2. last \in BOOLEAN
  OBVIOUS
<1>3. f \in Frames
  BY <1>1, <1>2, FragmentOut DEF Frames
<1> HIDE DEF f
<1>4. link' \in [Bridges -> Seq(Frames)]
  BY <1>1, <1>3, Sent
<1>5. \A d \in Bridges : /\ pc'[d] = "send" => tx'[d].idx < Len(tx'[d].pay)
                         /\ pc'[d] = "publish" => pc[d] = "publish"
  <2>1. \A d \in Bridges \ {b} : pc[d] = "send" => tx[d].idx < Len(tx[d].pay)
    BY DEF TypeOK
  <2> QED
    BY <1>1, <2>1
<1>6. UNCHANGED <<bus, bridged, cur, published, next_id, reasm_buf, reasm_id,
                  reasm_next_idx, rx, printed_pass>>
  BY DEF SendFrag, reassembly
<1> QED
  BY <1>1, <1>4, <1>5, <1>6 DEF TypeOK, Pcs, Frames

LEMMA TakeStep ==
  ASSUME TypeOK, NEW b \in Bridges, Take(b)
  PROVE  /\ pc[b] = "loop" /\ pc' = [pc EXCEPT ![b] = "send"] /\ UseId(b)
         /\ cur[b] \in Nat /\ cur[b] + 1 \in 1..Len(bus[b])
         /\ cur' \in [Bridges -> Nat] /\ cur'[b] = cur[b] + 1
         /\ tx' \in [Bridges -> [pay : Seq(Fragments), nth : Nat, id : Nat, idx : Nat]]
         /\ tx'[b] = [pay |-> bus[b][cur[b] + 1], nth |-> cur[b] + 1,
                      id |-> next_id[b], idx |-> 0]
         /\ bus[b][cur[b] + 1] \in Payloads
         /\ \A d \in Bridges \ {b} : tx'[d] = tx[d] /\ cur'[d] = cur[d]
<1> DEFINE n == cur[b] + 1
           X == [pay : Seq(Fragments), nth : Nat, id : Nat, idx : Nat]
           t == [pay |-> bus[b][n], nth |-> n, id |-> next_id[b], idx |-> 0]
<1>1. /\ pc[b] = "loop" /\ pc' = [pc EXCEPT ![b] = "send"] /\ UseId(b)
      /\ cur[b] < Len(bus[b])
      /\ cur' = [cur EXCEPT ![b] = n] /\ tx' = [tx EXCEPT ![b] = t]
  BY DEF Take, Goto
<1>2. /\ cur \in [Bridges -> Nat] /\ bus[b] \in Seq(Payloads) /\ next_id[b] \in Nat
      /\ tx \in [Bridges -> X]
  BY DEF TypeOK
<1>3. cur[b] \in Nat /\ n \in 1..Len(bus[b])
  BY <1>1, <1>2
<1>4. bus[b][n] \in Payloads
  BY <1>2, <1>3, ElementOfSeq
<1>5. t \in X
  BY <1>2, <1>3, <1>4 DEF Payloads
<1> HIDE DEF X, t
<1>6. tx' \in [Bridges -> X] /\ tx'[b] = t /\ \A d \in Bridges \ {b} : tx'[d] = tx[d]
  BY <1>1, <1>2, <1>5
<1>7. cur' \in [Bridges -> Nat] /\ cur'[b] = n /\ \A d \in Bridges \ {b} : cur'[d] = cur[d]
  BY <1>1, <1>2, <1>3
<1> QED
  BY <1>1, <1>3, <1>4, <1>6, <1>7 DEF X, t

LEMMA TakeType ==
  ASSUME TypeOK, NEW b \in Bridges, Take(b) PROVE TypeOK'
<1>1. /\ pc' = [pc EXCEPT ![b] = "send"] /\ pc \in [Bridges -> Pcs] /\ UseId(b)
      /\ cur[b] \in Nat /\ cur[b] + 1 \in 1..Len(bus[b])
      /\ cur' \in [Bridges -> Nat] /\ cur'[b] = cur[b] + 1
      /\ tx' \in [Bridges -> [pay : Seq(Fragments), nth : Nat, id : Nat, idx : Nat]]
      /\ tx'[b].idx = 0 /\ tx'[b].pay = bus[b][cur[b] + 1]
      /\ bus[b][cur[b] + 1] \in Payloads
      /\ \A d \in Bridges \ {b} : tx'[d] = tx[d] /\ cur'[d] = cur[d]
  <2>1. pc \in [Bridges -> Pcs]
    BY DEF TypeOK, Pcs
  <2>2. tx'[b].idx = 0 /\ tx'[b].pay = bus[b][cur[b] + 1]
    <3>1. tx'[b] = [pay |-> bus[b][cur[b] + 1], nth |-> cur[b] + 1,
                    id |-> next_id[b], idx |-> 0]
      BY TakeStep
    <3> QED
      BY <3>1
  <2> QED
    BY <2>1, <2>2, TakeStep
<1>2. /\ pc' \in [Bridges -> Pcs] /\ pc'[b] = "send"
      /\ \A d \in Bridges \ {b} : pc'[d] = pc[d]
  BY <1>1 DEF Pcs
<1>3. \A d \in Bridges :
        /\ cur'[d] <= Len(bus[d]) /\ Len(bus[d]) <= cur'[d] + Cap
        /\ pc'[d] = "send" => tx'[d].idx < Len(tx'[d].pay)
        /\ pc'[d] = "publish" => reasm_buf[d] # <<>>
  <2>1. \A d \in Bridges : /\ cur[d] <= Len(bus[d]) /\ Len(bus[d]) <= cur[d] + Cap
                           /\ pc[d] = "send" => tx[d].idx < Len(tx[d].pay)
                           /\ pc[d] = "publish" => reasm_buf[d] # <<>>
    BY DEF TypeOK
  <2>2. cur'[b] <= Len(bus[b]) /\ Len(bus[b]) <= cur'[b] + Cap
    <3>1. Len(bus[b]) \in Nat /\ Cap \in Nat
      BY SizeAssumption DEF TypeOK
    <3> QED
      BY <1>1, <2>1, <3>1
  <2>3. tx'[b].idx < Len(tx'[b].pay)
    BY <1>1 DEF Payloads
  <2> QED
    BY <1>1, <1>2, <2>1, <2>2, <2>3
<1>4. /\ next_id' \in [Bridges -> Nat]
      /\ UNCHANGED <<bus, bridged, published, reasm_buf, reasm_id, reasm_next_idx, rx,
                     printed_pass, link>>
  BY <1>1, Counted DEF Take, reassembly
<1> QED
  BY <1>1, <1>2, <1>3, <1>4 DEF TypeOK, Pcs

LEMMA RecvType ==
  ASSUME TypeOK, NEW b \in Bridges, RecvData(b) PROVE TypeOK'
<1>1. /\ pc[b] = "recv" /\ link[b] # <<>> /\ link' = [link EXCEPT ![b] = Tail(@)]
      /\ pc' \in [Bridges -> Pcs] /\ pc'[b] \in {"loop", "publish", "ack"}
      /\ reasm_buf' \in [Bridges -> Seq(Fragments)]
      /\ reasm_id' \in [Bridges -> Nat] /\ reasm_next_idx' \in [Bridges -> Nat]
      /\ rx' \in [Bridges -> Nat]
      /\ \A d \in Bridges \ {b} : pc'[d] = pc[d] /\ reasm_buf'[d] = reasm_buf[d]
      /\ Len(reasm_buf'[b]) <= MaxFrame
      /\ pc'[b] = "publish" => reasm_buf'[b] # <<>>
  BY RecvStep
<1>2. link' \in [Bridges -> Seq(Frames)]
  BY <1>1, Handed
<1>3. UNCHANGED <<bus, bridged, cur, published, next_id, tx, printed_pass>>
  BY DEF RecvData
<1>4. \A d \in Bridges : /\ pc'[d] = "send" => pc[d] = "send"
                         /\ pc'[d] = "publish" => reasm_buf'[d] # <<>>
                         /\ Len(reasm_buf'[d]) <= MaxFrame
  BY <1>1 DEF TypeOK
<1> QED
  BY <1>1, <1>2, <1>3, <1>4 DEF TypeOK, Pcs, Frames

LEMMA PutType ==
  ASSUME TypeOK, NEW b \in Bridges, NEW p \in Payloads, HasRoom(b), Put(b, p),
         NEW l \in Pcs \ {"send", "publish"}, Goto(b, l) \/ UNCHANGED pc,
         bridged' \in [Bridges -> Seq(Payloads)], published' \subseteq Msgs,
         UNCHANGED <<cur, next_id, tx, reasm_buf, reasm_id, reasm_next_idx, rx,
                     printed_pass, link>>
  PROVE  TypeOK'
<1>1. /\ bus' \in [Bridges -> Seq(Payloads)] /\ Len(bus[b]) \in Nat
      /\ Len(bus'[b]) = Len(bus[b]) + 1 /\ \A d \in Bridges \ {b} : bus'[d] = bus[d]
  BY Placed
<1>2. pc' \in [Bridges -> Pcs] /\ \A d \in Bridges : pc'[d] \in {pc[d], l}
  BY DEF TypeOK, Goto, Pcs
<1>3. \A d \in Bridges : cur[d] <= Len(bus'[d]) /\ Len(bus'[d]) <= cur[d] + Cap
  <2>1. Len(bus'[b]) <= cur[b] + Cap /\ cur[b] <= Len(bus'[b])
    <3>1. cur[b] \in Nat /\ Cap \in Nat /\ cur[b] <= Len(bus[b]) /\ Len(bus[b]) < cur[b] + Cap
      BY SizeAssumption DEF TypeOK, HasRoom
    <3> QED
      BY <1>1, <3>1
  <2> QED
    BY <1>1, <2>1 DEF TypeOK
<1> QED
  BY <1>1, <1>2, <1>3 DEF TypeOK, Pcs

LEMMA LoopType ==
  ASSUME TypeOK, NEW b \in Bridges, Loop(b) PROVE TypeOK'
<1>0. /\ {"loop", "recv", "ack", "probe_wire"} \subseteq Pcs \ {"send", "publish"}
      /\ link \in [Bridges -> Seq(Frames)] /\ printed_pass \in [Bridges -> BOOLEAN]
      /\ Probe \in AllMsgs
  BY DEF Pcs, TypeOK, Frames, AllMsgs
<1>1. CASE ProbeBus(b)
  BY <1>0, <1>1, PayloadType, PutType DEF ProbeBus, TypeOK, reassembly
<1>2. CASE ProbeWire(b)
  <2>1. link' \in [Bridges -> Seq(Frames)]
    BY <1>2, Sent, Probed DEF ProbeWire, SendProbe, Frames
  <2>2. next_id' \in [Bridges -> Nat]
    BY <1>2, Counted DEF ProbeWire, SendProbe
  <2>3. pc' \in [Bridges -> Pcs] /\ \A d \in Bridges : pc'[d] \in {pc[d], "loop"}
    BY <1>2 DEF ProbeWire, Goto, TypeOK, Pcs
  <2> QED
    BY <1>2, <2>1, <2>2, <2>3 DEF ProbeWire, TypeOK, Pcs, Frames, reassembly
<1>3. CASE Take(b)
  BY <1>3, TakeType
<1>4. CASE TakeNone(b)
  BY <1>0, <1>4, MovesType DEF TakeNone, reassembly
<1>5. CASE SendFrag(b)
  BY <1>5, SendType
<1>6. CASE RecvNone(b)
  BY <1>0, <1>6, MovesType DEF RecvNone, reassembly
<1>7. CASE RecvData(b)
  BY <1>7, RecvType
<1>8. CASE RecvAck(b)
  <2>1. link' \in [Bridges -> Seq(Frames)]
    BY <1>8, Handed DEF RecvAck
  <2>2. printed_pass' \in [Bridges -> BOOLEAN]
    BY <1>0, <1>8 DEF RecvAck
  <2> QED
    BY <1>0, <1>8, <2>1, <2>2, MovesType DEF RecvAck, reassembly
<1>9. CASE PublishIn(b)
  <2>1. pc[b] = "publish" /\ reasm_buf[b] \in Payloads
    BY <1>9 DEF PublishIn, TypeOK, Payloads
  <2>2. bridged' \in [Bridges -> Seq(Payloads)]
    <3>1. bridged \in [Bridges -> Seq(Payloads)]
      BY DEF TypeOK
    <3>2. Append(bridged[b], reasm_buf[b]) \in Seq(Payloads)
      BY <2>1, <3>1, Appended
    <3> QED
      BY <1>9, <3>1, <3>2 DEF PublishIn
  <2> QED
    BY <1>0, <1>9, <2>1, <2>2, PutType DEF PublishIn, TypeOK, reassembly
<1>11. CASE Ack(b)
  <2>1. rx[b] \in Nat
    BY DEF TypeOK
  <2>2. AckFrame(rx[b]) \in Frames
    BY <2>1 DEF AckFrame, AckFrames, Frames
  <2>3. link' \in [Bridges -> Seq(Frames)]
    BY <1>11, <2>2, Sent DEF Ack
  <2>4. pc' \in [Bridges -> Pcs] /\ pc'[b] = "loop" /\ \A d \in Bridges \ {b} : pc'[d] = pc[d]
    BY <1>11 DEF Ack, Goto, TypeOK, Pcs
  <2>5. /\ reasm_buf' \in [Bridges -> Seq(Fragments)] /\ reasm_buf'[b] = <<>>
        /\ \A d \in Bridges \ {b} : reasm_buf'[d] = reasm_buf[d]
    BY <1>11 DEF Ack, TypeOK
  <2>6. \A d \in Bridges : /\ pc'[d] = "send" => pc[d] = "send"
                           /\ pc'[d] = "publish" => reasm_buf'[d] # <<>>
                           /\ Len(reasm_buf'[d]) <= MaxFrame
    <3>1. Len(<<>>) <= MaxFrame
      BY SizeAssumption
    <3>2. \A d \in Bridges : /\ pc[d] = "publish" => reasm_buf[d] # <<>>
                             /\ Len(reasm_buf[d]) <= MaxFrame
      BY DEF TypeOK
    <3> QED
      BY <2>4, <2>5, <3>1, <3>2
  <2> QED
    BY <1>11, <2>3, <2>4, <2>5, <2>6 DEF Ack, TypeOK, Pcs, Frames
<1> QED
  BY <1>1, <1>2, <1>3, <1>4, <1>5, <1>6, <1>7, <1>8, <1>9, <1>11 DEF Loop

LEMMA NextType == TypeOK /\ [Next]_bridgeVars => TypeOK'
<1> SUFFICES ASSUME TypeOK, [Next]_bridgeVars PROVE TypeOK'
  OBVIOUS
<1>1. ASSUME NEW m \in Msgs, ClientPublish(m) PROVE TypeOK'
  <2>1. Home[m] \in Bridges /\ Payload(m) \in Payloads /\ "loop" \in Pcs \ {"send", "publish"}
    BY MsgAssumption, PayloadType DEF AllMsgs, Pcs
  <2>2. published' \subseteq Msgs /\ bridged' \in [Bridges -> Seq(Payloads)]
    BY <1>1 DEF ClientPublish, TypeOK
  <2> QED
    BY <1>1, <2>1, <2>2, PutType DEF ClientPublish, reassembly
<1>2. ASSUME NEW b \in Bridges, ProbeAgain(b) PROVE TypeOK'
  <2>1. link' \in [Bridges -> Seq(Frames)]
    BY <1>2, Sent, Probed DEF ProbeAgain, SendProbe, Frames
  <2>2. next_id' \in [Bridges -> Nat]
    BY <1>2, Counted DEF ProbeAgain, SendProbe
  <2> QED
    BY <1>2, <2>1, <2>2 DEF ProbeAgain, TypeOK, Frames, reassembly
<1>3. ASSUME NEW b \in Bridges, Lose(b) PROVE TypeOK'
  <2>1. link' \in [Bridges -> Seq(Frames)]
    <3>1. link \in [Bridges -> Seq(Frames)]
      BY DEF TypeOK, Frames
    <3>2. PICK k \in 1..Len(link[b]) :
            link' = [link EXCEPT ![b] = SubSeq(@, 1, k-1) \o SubSeq(@, k+1, Len(@))]
      BY <1>3 DEF Lose
    <3>3. SubSeq(link[b], 1, k-1) \o SubSeq(link[b], k+1, Len(link[b])) \in Seq(Frames)
      BY <3>1, Removed
    <3> QED
      BY <3>1, <3>2, <3>3
  <2> QED
    BY <1>3, <2>1 DEF Lose, TypeOK, Frames, reassembly
<1>4. CASE UNCHANGED bridgeVars
  BY <1>4 DEF bridgeVars, TypeOK
<1> QED
  BY <1>1, <1>2, <1>3, <1>4, LoopType DEF Next

LEMMA InitType == Init => TypeOK
<1> SUFFICES ASSUME Init PROVE TypeOK
  OBVIOUS
<1>1. /\ bus = [b \in Bridges |-> <<>>] /\ bridged = [b \in Bridges |-> <<>>]
      /\ cur = [b \in Bridges |-> 0] /\ published = {}
      /\ next_id = [b \in Bridges |-> 1] /\ tx = [b \in Bridges |-> Nothing]
      /\ reasm_buf = [b \in Bridges |-> <<>>] /\ reasm_id = [b \in Bridges |-> 0]
      /\ reasm_next_idx = [b \in Bridges |-> 0] /\ rx = [b \in Bridges |-> 0]
      /\ printed_pass = [b \in Bridges |-> FALSE] /\ link = [b \in Bridges |-> <<>>]
  BY DEF Init
<1>2. pc \in [Bridges -> {"probe_bus", "loop"}]
  BY DEF Init
<1>3. Nothing \in [pay : Seq(Fragments), nth : Nat, id : Nat, idx : Nat]
  BY DEF Nothing
<1>4. Cap \in Nat /\ MaxFrame \in Nat
  BY SizeAssumption
<1> HIDE DEF Nothing
<1> QED
  BY <1>1, <1>2, <1>3, <1>4 DEF TypeOK

(* The types of all there is, whatever is lost and whoever sends what: the  *)
(* bus is never overfilled, the buffer never holds more than --max-frame    *)
(* and no fragment is cut from beyond a message (l2bridge.rs 486, 579).     *)
THEOREM BridgeTypeCorrect == Spec => []TypeOK
<1> QED
  BY InitType, NextType, PTL DEF Spec

-----------------------------------------------------------------------------
(* What a step does to the data frames on their way to a bridge.           *)

\* Those that are left keep their order.
Thin(d) ==
  \E r \in [DataAt(d)' -> DataAt(d)] : \A j, k \in DataAt(d)' :
    link'[d][k] = link[d][r[k]] /\ (r[j] <= r[k] <=> j <= k)

\* One has been added at the end.
Arrives(d, f) ==
  LET n == Len(link[d]) + 1 IN
  /\ IsData(f) /\ DataAt(d)' = DataAt(d) \cup {n} /\ link'[d][n] = f
  /\ \A k \in DataAt(d) : k < n /\ link'[d][k] = link[d][k]

FragFrame(b) ==
  LET t == tx[b] IN
  DataFrame(t.id, t.idx, t.idx + 1 = Len(t.pay), t.pay[t.idx + 1], t.nth)

ProbeFrame(b) == DataFrame(next_id[b], 0, TRUE, <<Probe, 1>>, 0)

\* The same data frames as before, perhaps at other places.
Same(d) ==
  \E r \in [DataAt(d)' -> DataAt(d)] :
    /\ \A j, k \in DataAt(d)' : link'[d][k] = link[d][r[k]] /\ (r[j] <= r[k] <=> j <= k)
    /\ \A i \in DataAt(d) : \E k \in DataAt(d)' : r[k] = i

LEMMA KeptSame ==
  ASSUME NEW d \in Bridges, DataAt(d)' = DataAt(d),
         \A k \in DataAt(d) : link'[d][k] = link[d][k]
  PROVE  Same(d)
<1> DEFINE r == [k \in DataAt(d)' |-> k]
<1>1. r \in [DataAt(d)' -> DataAt(d)]
  OBVIOUS
<1>2. \A k \in DataAt(d)' : r[k] = k
  OBVIOUS
<1> HIDE DEF r
<1>3. \A j, k \in DataAt(d)' : link'[d][k] = link[d][r[k]] /\ (r[j] <= r[k] <=> j <= k)
  BY <1>2
<1>4. \A i \in DataAt(d) : \E k \in DataAt(d)' : r[k] = i
  BY <1>2
<1> QED
  BY <1>1, <1>3, <1>4 DEF Same

LEMMA LinkSame ==
  ASSUME NEW d \in Bridges, link'[d] = link[d] PROVE Same(d)
<1>1. DataAt(d)' = DataAt(d)
  BY DEF DataAt
<1> QED
  BY <1>1, KeptSame

LEMMA AckSame ==
  ASSUME TypeOK, NEW d \in Bridges, NEW f \in AckFrames, link'[d] = Append(link[d], f)
  PROVE  Same(d)
<1>1. link[d] \in Seq(Frames) /\ f \in Frames /\ f.chan = 1
  BY DEF TypeOK, Frames, AckFrames
<1>2. /\ Len(link[d]) \in Nat /\ DOMAIN link[d] = 1..Len(link[d])
      /\ DOMAIN link'[d] = 1..Len(link[d])+1 /\ link'[d][Len(link[d]) + 1] = f
      /\ \A k \in 1..Len(link[d]) : link'[d][k] = link[d][k]
  BY <1>1, Appended
<1>3. DataAt(d)' = DataAt(d) /\ \A k \in DataAt(d) : link'[d][k] = link[d][k]
  BY <1>1, <1>2 DEF DataAt, IsData
<1> QED
  BY <1>3, KeptSame

LEMMA SameThin == ASSUME NEW d \in Bridges, Same(d) PROVE Thin(d)
BY DEF Same, Thin

LEMMA DataArrives ==
  ASSUME TypeOK, NEW d \in Bridges, NEW f \in DataFrames, link'[d] = Append(link[d], f)
  PROVE  Arrives(d, f)
<1>1. link[d] \in Seq(Frames) /\ f \in Frames /\ f.chan = 0
  BY DEF TypeOK, Frames, DataFrames
<1>2. /\ Len(link[d]) \in Nat /\ DOMAIN link[d] = 1..Len(link[d])
      /\ DOMAIN link'[d] = 1..Len(link[d])+1 /\ link'[d][Len(link[d]) + 1] = f
      /\ \A k \in 1..Len(link[d]) : link'[d][k] = link[d][k]
  BY <1>1, Appended
<1>3. DataAt(d)' = DataAt(d) \cup {Len(link[d]) + 1}
  BY <1>1, <1>2 DEF DataAt, IsData
<1> QED
  BY <1>1, <1>2, <1>3 DEF Arrives, DataAt, IsData

LEMMA ThinBy ==
  ASSUME TypeOK, NEW d \in Bridges, NEW k \in 1..Len(link[d]),
         link'[d] \in Seq(Frames), Len(link'[d]) = Len(link[d]) - 1,
         \A j \in 1..Len(link[d])-1 : link'[d][j] = link[d][IF j < k THEN j ELSE j + 1]
  PROVE  Thin(d)
<1> DEFINE r == [j \in DataAt(d)' |-> IF j < k THEN j ELSE j + 1]
<1>1. link[d] \in Seq(Frames) /\ Len(link[d]) \in Nat /\ DOMAIN link[d] = 1..Len(link[d])
      /\ DOMAIN link'[d] = 1..Len(link[d])-1
  <2>1. link[d] \in Seq(Frames)
    BY DEF TypeOK, Frames
  <2>2. DOMAIN link'[d] = 1..Len(link'[d])
    BY LenProperties
  <2> QED
    BY <2>1, <2>2, LenProperties
<1>2. \A j \in DataAt(d)' : /\ j \in 1..Len(link[d])-1
                            /\ r[j] = IF j < k THEN j ELSE j + 1
  BY <1>1 DEF DataAt
<1>3. \A j \in DataAt(d)' : r[j] \in 1..Len(link[d]) /\ link'[d][j] = link[d][r[j]]
  <2> HIDE DEF r
  <2> SUFFICES ASSUME NEW j \in DataAt(d)'
               PROVE  r[j] \in 1..Len(link[d]) /\ link'[d][j] = link[d][r[j]]
    OBVIOUS
  <2>1. j \in 1..Len(link[d])-1 /\ r[j] = IF j < k THEN j ELSE j + 1
    BY <1>2
  <2>2. r[j] \in 1..Len(link[d])
    BY <1>1, <2>1
  <2> QED
    BY <2>1, <2>2
<1>4. r \in [DataAt(d)' -> DataAt(d)]
  BY <1>1, <1>3 DEF DataAt
<1> HIDE DEF r
<1>5. \A i, j \in DataAt(d)' : r[i] <= r[j] <=> i <= j
  BY <1>1, <1>2
<1> QED
  BY <1>3, <1>4, <1>5 DEF Thin

LEMMA TailThin ==
  ASSUME TypeOK, NEW b \in Bridges, link[b] # <<>>, link' = [link EXCEPT ![b] = Tail(@)]
  PROVE  Thin(b)
<1>1. link[b] \in Seq(Frames) /\ link'[b] = Tail(link[b])
  BY Handed DEF TypeOK, Frames
<1>2. /\ link'[b] \in Seq(Frames) /\ Len(link[b]) \in Nat \ {0}
      /\ Len(link'[b]) = Len(link[b]) - 1
      /\ \A k \in 1..Len(link[b])-1 : link'[b][k] = link[b][k + 1]
  <2> DEFINE q == link[b]
  <2>1. q \in Seq(Frames) /\ q # <<>>
    BY <1>1
  <2> HIDE DEF q
  <2>2. /\ Tail(q) \in Seq(Frames) /\ Len(q) \in Nat \ {0} /\ Len(Tail(q)) = Len(q) - 1
        /\ \A k \in 1..Len(q)-1 : Tail(q)[k] = q[k + 1]
    BY <2>1, Tailed
  <2> QED
    BY <1>1, <2>2 DEF q
<1>3. /\ 1 \in 1..Len(link[b])
      /\ \A j \in 1..Len(link[b])-1 : link'[b][j] = link[b][IF j < 1 THEN j ELSE j + 1]
  BY <1>2
<1> QED
  BY <1>2, <1>3, ThinBy

LEMMA WireStep ==
  ASSUME TypeOK, NEW b \in Bridges, NEW d \in Bridges,
         Loop(b) \/ ProbeAgain(b) \/ Lose(b)
  PROVE  \/ /\ Thin(d)
            /\ d # b => ~SendFrag(b) /\ ~ProbeWire(b) /\ ~ProbeAgain(b)
         \/ d # b /\ (ProbeWire(b) \/ ProbeAgain(b)) /\ Arrives(d, ProbeFrame(b))
         \/ d # b /\ SendFrag(b) /\ Arrives(d, FragFrame(b))
<1>0. link'[d] = link[d] => Thin(d)
  BY LinkSame, SameThin
<1>1. CASE SendFrag(b)
  <2>1. Send(b, FragFrame(b)) /\ FragFrame(b) \in DataFrames
    <3>1. (tx[b].idx + 1 = Len(tx[b].pay)) \in BOOLEAN /\ pc[b] = "send"
      BY <1>1 DEF SendFrag
    <3>2. FragFrame(b) \in DataFrames
      BY <3>1, FragmentOut DEF FragFrame
    <3> QED
      BY <1>1, <3>2 DEF SendFrag, FragFrame
  <2>2. link'[b] = link[b] /\ \A c \in Bridges \ {b} : link'[c] = Append(link[c], FragFrame(b))
    BY <2>1, Sent DEF Frames
  <2> QED
    BY <1>0, <1>1, <2>1, <2>2, DataArrives
<1>2. CASE ProbeWire(b) \/ ProbeAgain(b)
  <2>1. Send(b, ProbeFrame(b)) /\ ProbeFrame(b) \in DataFrames
    BY <1>2, Probed DEF ProbeFrame, ProbeWire, ProbeAgain, SendProbe
  <2>2. link'[b] = link[b] /\ \A c \in Bridges \ {b} : link'[c] = Append(link[c], ProbeFrame(b))
    BY <2>1, Sent DEF Frames
  <2> QED
    BY <1>0, <1>2, <2>1, <2>2, DataArrives
<1>3. CASE ~(SendFrag(b) \/ ProbeWire(b) \/ ProbeAgain(b))
  <2>1. CASE RecvData(b) \/ RecvAck(b)
    <3>1. link[b] # <<>> /\ link' = [link EXCEPT ![b] = Tail(@)]
      BY <2>1 DEF RecvData, RecvAck
    <3>2. d # b => link'[d] = link[d]
      BY <3>1, Handed
    <3> QED
      BY <1>0, <1>3, <3>1, <3>2, TailThin
  <2>2. CASE Ack(b)
    <3>1. AckFrame(rx[b]) \in AckFrames /\ Send(b, AckFrame(rx[b]))
      BY <2>2 DEF Ack, AckFrame, AckFrames, TypeOK
    <3>2. link'[b] = link[b] /\ (d # b => link'[d] = Append(link[d], AckFrame(rx[b])))
      BY <3>1, Sent DEF Frames
    <3> QED
      BY <1>0, <1>3, <3>1, <3>2, AckSame, SameThin
  <2>3. CASE Lose(b)
    <3>1. link \in [Bridges -> Seq(Frames)]
      BY DEF TypeOK, Frames
    <3>2. PICK k \in 1..Len(link[b]) :
            link' = [link EXCEPT ![b] = SubSeq(@, 1, k-1) \o SubSeq(@, k+1, Len(@))]
      BY <2>3 DEF Lose
    <3> DEFINE q == SubSeq(link[b], 1, k-1) \o SubSeq(link[b], k+1, Len(link[b]))
    <3>3. /\ q \in Seq(Frames) /\ Len(q) = Len(link[b]) - 1
          /\ \A j \in 1..Len(link[b])-1 : q[j] = link[b][IF j < k THEN j ELSE j + 1]
      BY <3>1, Removed
    <3>4. link'[b] = q /\ (d # b => link'[d] = link[d])
      BY <3>1, <3>2
    <3> HIDE DEF q
    <3>5. Thin(b)
      BY <3>3, <3>4, ThinBy
    <3> QED
      BY <1>0, <1>3, <3>4, <3>5
  <2>4. CASE ~(RecvData(b) \/ RecvAck(b) \/ Ack(b) \/ Lose(b))
    <3>1. link' = link
      BY <1>3, <2>4 DEF Loop, ProbeBus, Take, TakeNone, RecvNone, PublishIn
    <3> QED
      BY <1>0, <1>3, <3>1
  <2> QED
    BY <2>1, <2>2, <2>3, <2>4
<1> QED
  BY <1>1, <1>2, <1>3

-----------------------------------------------------------------------------
(* What a step of one bridge leaves alone.                                 *)

LEMMA OthersStay ==
  ASSUME TypeOK, NEW b \in Bridges, Loop(b) \/ ProbeAgain(b) \/ Lose(b)
  PROVE  \A c \in Bridges \ {b} :
           /\ pc'[c] = pc[c] /\ tx'[c] = tx[c] /\ next_id'[c] = next_id[c]
           /\ cur'[c] = cur[c] /\ bus'[c] = bus[c] /\ bridged'[c] = bridged[c]
           /\ reasm_buf'[c] = reasm_buf[c] /\ reasm_id'[c] = reasm_id[c]
           /\ reasm_next_idx'[c] = reasm_next_idx[c] /\ rx'[c] = rx[c]
           /\ printed_pass'[c] = printed_pass[c]
<1>1. CASE SendFrag(b)
  BY <1>1, SendStep DEF SendFrag, reassembly
<1>2. CASE RecvData(b)
  BY <1>2, RecvStep DEF RecvData
<1>3. CASE ~(SendFrag(b) \/ RecvData(b))
  BY <1>3 DEF TypeOK, Loop, ProbeBus, ProbeWire, ProbeAgain, SendProbe, UseId, Take, TakeNone,
     RecvNone, RecvAck, PublishIn, Ack, Lose, Goto, Put, reassembly
<1> QED
  BY <1>1, <1>2, <1>3

LEMMA PcTypes == ASSUME TypeOK PROVE pc \in [Bridges -> Pcs]
BY DEF TypeOK, Pcs

\* The parts of a bridge that only few of its calls touch.
LEMMA OwnStay ==
  ASSUME TypeOK, NEW b \in Bridges, Loop(b) \/ ProbeAgain(b) \/ Lose(b)
  PROVE  /\ ~Take(b) /\ ~SendFrag(b) => tx'[b] = tx[b] /\ (pc'[b] = "send" => pc[b] = "send")
         /\ ~Take(b) => cur'[b] = cur[b]
         /\ ~RecvData(b) => /\ reasm_id'[b] = reasm_id[b] /\ rx'[b] = rx[b]
                            /\ reasm_next_idx'[b] = reasm_next_idx[b]
                            /\ pc'[b] = "publish" => pc[b] = "publish"
                            /\ pc'[b] = "ack" => pc[b] \in {"publish", "ack"}
         /\ ~RecvData(b) /\ ~Ack(b) => reasm_buf'[b] = reasm_buf[b]
         /\ ~PublishIn(b) => bridged'[b] = bridged[b]
         /\ ~PublishIn(b) /\ ~ProbeBus(b) => bus'[b] = bus[b]
         /\ ~RecvAck(b) => printed_pass'[b] = printed_pass[b]
<1>0. pc \in [Bridges -> Pcs]
  BY PcTypes
<1>1. CASE SendFrag(b)
  BY <1>1, SendStep DEF SendFrag, reassembly
<1>2. CASE RecvData(b)
  BY <1>2, RecvStep DEF RecvData
<1>3. CASE Take(b)
  <2>1. pc' = [pc EXCEPT ![b] = "send"]
    BY <1>3 DEF Take, Goto
  <2>2. pc'[b] = "send"
    BY <1>0, <2>1
  <2>3. UNCHANGED <<bus, bridged, reassembly, printed_pass>> /\ ~SendFrag(b)
    BY <1>3 DEF Take, SendFrag
  <2> QED
    BY <1>3, <2>2, <2>3 DEF reassembly
<1>4. CASE ~(SendFrag(b) \/ RecvData(b) \/ Take(b))
  BY <1>0, <1>4 DEF Loop, ProbeBus, ProbeWire, ProbeAgain, SendProbe, TakeNone,
     RecvNone, RecvAck, PublishIn, Ack, Lose, Goto, reassembly
<1> QED
  BY <1>1, <1>2, <1>3, <1>4

\* The ids that a bridge has used, as long as they last.
LEMMA IdsGrow ==
  ASSUME TypeOK, FewIds, NEW b \in Bridges, Loop(b) \/ ProbeAgain(b) \/ Lose(b)
  PROVE  /\ Take(b) \/ ProbeWire(b) \/ ProbeAgain(b) => next_id'[b] = next_id[b] + 1
         /\ ~(Take(b) \/ ProbeWire(b) \/ ProbeAgain(b)) => next_id'[b] = next_id[b]
<1>1. ASSUME UseId(b) PROVE next_id'[b] = next_id[b] + 1
  <2>1. /\ next_id[b] \in Nat /\ next_id[b] <= MaxIds /\ MaxIds + 1 < IdSpace
        /\ MaxIds \in Nat /\ IdSpace \in Nat \ {0}
    BY <1>1, SizeAssumption DEF TypeOK, UseId, FewIds
  <2>2. next_id[b] + 1 \in 0..IdSpace-1
    BY <2>1
  <2>3. (next_id[b] + 1) % IdSpace = next_id[b] + 1
    BY <2>1, <2>2
  <2> QED
    BY <1>1, <2>3 DEF TypeOK, UseId
<1>2. Take(b) \/ ProbeWire(b) \/ ProbeAgain(b) => UseId(b)
  BY DEF Take, ProbeWire, ProbeAgain, SendProbe
<1>3. ~(Take(b) \/ ProbeWire(b) \/ ProbeAgain(b)) => next_id'[b] = next_id[b]
  BY DEF Loop, ProbeBus, TakeNone, SendFrag, RecvNone, RecvData, RecvAck, PublishIn, Ack, Lose
<1> QED
  BY <1>1, <1>2, <1>3

\* What can be going on between two bridges: nothing new, a message taken, a
\* probe sent or a fragment sent.
OldSends(a) == pc'[a] = "send" => pc[a] = "send" /\ tx'[a] = tx[a]

LEMMA Kinds ==
  ASSUME TypeOK, NEW a \in Bridges, NEW d \in Bridges, a # d, NEW b \in {a, d},
         Loop(b) \/ ProbeAgain(b) \/ Lose(b)
  PROVE  \/ Thin(d) /\ OldSends(a)
         \/ Thin(d) /\ Take(a) /\ b = a
         \/ /\ (ProbeWire(a) \/ ProbeAgain(a)) /\ Arrives(d, ProbeFrame(a)) /\ b = a
            /\ pc'[a] # "send"
         \/ SendFrag(a) /\ Arrives(d, FragFrame(a)) /\ b = a
<1>1. CASE b = d
  BY <1>1, WireStep, OthersStay DEF OldSends
<1>2. CASE b = a
  <2>1. ProbeWire(a) \/ ProbeAgain(a) => pc'[a] # "send"
    BY PcTypes DEF ProbeWire, ProbeAgain, Goto
  <2> QED
    BY <1>2, <2>1, WireStep, OwnStay DEF OldSends
<1> QED
  BY <1>1, <1>2

LEMMA FirstData ==
  ASSUME TypeOK, NEW d \in Bridges, link[d] # <<>>, link[d][1] \in DataFrames
  PROVE  1 \in DataAt(d)
<1>1. link[d] \in Seq(Frames)
  BY DEF TypeOK, Frames
<1>2. 1 \in DOMAIN link[d]
  BY <1>1, Tailed
<1> QED
  BY <1>2 DEF DataAt, IsData, DataFrames

LEMMA AcksStep ==
  ASSUME TypeOK, NEW b \in Bridges, NEW d \in Bridges,
         Loop(b) \/ ProbeAgain(b) \/ Lose(b),
         NEW k \in DOMAIN link'[d], link'[d][k].chan = 1
  PROVE  \/ \E j \in DOMAIN link[d] : link'[d][k] = link[d][j]
         \/ d # b /\ Ack(b) /\ link'[d][k].id = rx[b]
<1>0. link[d] \in Seq(Frames) /\ link \in [Bridges -> Seq(Frames)]
  BY DEF TypeOK, Frames
<1>1. ASSUME d # b, NEW f \in Frames, Send(b, f)
      PROVE  (k \in DOMAIN link[d] /\ link'[d][k] = link[d][k]) \/ link'[d][k] = f
  <2>1. link'[d] = Append(link[d], f)
    BY <1>1, Sent
  <2> QED
    BY <1>0, <2>1, Appended
<1>2. ASSUME NEW f \in Frames, Send(b, f), d = b PROVE link'[d] = link[d]
  BY <1>2, Sent
<1>3. CASE SendFrag(b) \/ ProbeWire(b) \/ ProbeAgain(b)
  <2>1. \E f \in DataFrames : Send(b, f)
    <3>1. CASE SendFrag(b)
      <4>1. (tx[b].idx + 1 = Len(tx[b].pay)) \in BOOLEAN /\ pc[b] = "send"
        BY <3>1 DEF SendFrag
      <4>2. FragFrame(b) \in DataFrames
        BY <4>1, FragmentOut DEF FragFrame
      <4> QED
        BY <3>1, <4>2 DEF SendFrag, FragFrame
    <3>2. CASE ProbeWire(b) \/ ProbeAgain(b)
      BY <3>2, Probed DEF ProbeWire, ProbeAgain, SendProbe
    <3> QED
      BY <1>3, <3>1, <3>2
  <2>2. PICK f \in DataFrames : Send(b, f)
    BY <2>1
  <2>3. f \in Frames /\ f.chan # 1
    BY DEF Frames, DataFrames
  <2> QED
    BY <1>1, <1>2, <2>2, <2>3
<1>4. CASE Ack(b)
  <2>1. AckFrame(rx[b]) \in Frames /\ AckFrame(rx[b]).id = rx[b] /\ Send(b, AckFrame(rx[b]))
    BY <1>4 DEF Ack, AckFrame, AckFrames, Frames, TypeOK
  <2> QED
    BY <1>1, <1>2, <1>4, <2>1
<1>5. CASE RecvData(b) \/ RecvAck(b)
  <2>1. link[b] # <<>> /\ link' = [link EXCEPT ![b] = Tail(@)]
    BY <1>5 DEF RecvData, RecvAck
  <2>2. CASE d = b
    <3>1. link'[d] = Tail(link[d]) /\ link[d] # <<>>
      BY <1>0, <2>1, <2>2
    <3>2. /\ DOMAIN Tail(link[d]) = 1..Len(link[d])-1 /\ DOMAIN link[d] = 1..Len(link[d])
          /\ Len(link[d]) \in Nat \ {0}
          /\ \A j \in 1..Len(link[d])-1 : Tail(link[d])[j] = link[d][j + 1]
      BY <1>0, <3>1, Tailed
    <3>3. k + 1 \in DOMAIN link[d] /\ link'[d][k] = link[d][k + 1]
      BY <3>1, <3>2
    <3> QED
      BY <3>3
  <2>3. CASE d # b
    BY <1>0, <2>1, <2>3
  <2> QED
    BY <2>2, <2>3
<1>6. CASE Lose(b)
  <2>1. PICK i \in 1..Len(link[b]) :
          link' = [link EXCEPT ![b] = SubSeq(@, 1, i-1) \o SubSeq(@, i+1, Len(@))]
    BY <1>6 DEF Lose
  <2>2. CASE d = b
    <3> DEFINE q == SubSeq(link[d], 1, i-1) \o SubSeq(link[d], i+1, Len(link[d]))
    <3>1. /\ q \in Seq(Frames) /\ Len(q) = Len(link[d]) - 1
          /\ \A j \in 1..Len(link[d])-1 : q[j] = link[d][IF j < i THEN j ELSE j + 1]
      BY <1>0, <2>1, <2>2, Removed
    <3>2. link'[d] = q
      BY <1>0, <2>1, <2>2
    <3> HIDE DEF q
    <3>3. k \in 1..Len(link[d])-1 /\ DOMAIN link[d] = 1..Len(link[d]) /\ Len(link[d]) \in Nat
      BY <1>0, <3>1, <3>2, LenProperties
    <3>4. (IF k < i THEN k ELSE k + 1) \in DOMAIN link[d]
      BY <3>3
    <3> QED
      BY <3>1, <3>2, <3>3, <3>4
  <2>3. CASE d # b
    BY <1>0, <2>1, <2>3
  <2> QED
    BY <2>2, <2>3
<1>7. CASE ~(SendFrag(b) \/ ProbeWire(b) \/ ProbeAgain(b) \/ Ack(b) \/ RecvData(b)
             \/ RecvAck(b) \/ Lose(b))
  <2>1. link' = link
    BY <1>7 DEF Loop, ProbeBus, Take, TakeNone, RecvNone, PublishIn
  <2> QED
    BY <2>1
<1> QED
  BY <1>3, <1>4, <1>5, <1>6, <1>7

-----------------------------------------------------------------------------
(* BridgeInv is inductive.                                                 *)

LEMMA Peers ==
  ASSUME TwoBridges, NEW a \in Bridges
  PROVE  /\ \E d \in Bridges : a # d
         /\ \A d \in Bridges : a # d => Bridges = {a, d}
BY DEF TwoBridges

LEMMA IdsStep ==
  ASSUME TypeOK, IdsOwned, TwoBridges, FewIds, NEW b \in Bridges,
         Loop(b) \/ ProbeAgain(b) \/ Lose(b)
  PROVE  IdsOwned'
<1> SUFFICES ASSUME NEW a \in Bridges, NEW d \in Bridges, a # d
             PROVE  /\ next_id'[a] > 0 /\ reasm_id'[d] < next_id'[a]
                    /\ pc'[a] = "send" => tx'[a].id \in UsedIds(a)'
                    /\ pc'[d] \in {"publish", "ack"} => rx'[d] = reasm_id'[d] /\ rx'[d] > 0
                    /\ \A k \in DataAt(d)' : link'[d][k].id \in UsedIds(a)'
  BY DEF IdsOwned
<1>1. b \in {a, d}
  BY Peers
<1>2. /\ next_id[a] > 0 /\ reasm_id[d] < next_id[a]
      /\ pc[a] = "send" => tx[a].id \in UsedIds(a)
      /\ pc[d] \in {"publish", "ack"} => rx[d] = reasm_id[d] /\ rx[d] > 0
      /\ \A k \in DataAt(d) : link[d][k].id \in UsedIds(a)
  BY DEF IdsOwned
<1>3. /\ next_id[a] \in Nat /\ reasm_id[d] \in Nat
      /\ next_id'[a] \in {next_id[a], next_id[a] + 1}
      /\ Take(a) /\ b = a => next_id'[a] = next_id[a] + 1
      /\ (ProbeWire(a) \/ ProbeAgain(a)) /\ b = a => next_id'[a] = next_id[a] + 1
  <2>1. next_id[a] \in Nat /\ reasm_id[d] \in Nat
    BY DEF TypeOK
  <2>2. CASE b = a
    BY <2>1, <2>2, IdsGrow
  <2>3. CASE b # a
    BY <2>1, <2>3, OthersStay
  <2> QED
    BY <2>1, <2>2, <2>3
<1>4. UsedIds(a) \subseteq UsedIds(a)' /\ next_id'[a] > 0 /\ next_id[a] <= next_id'[a]
  BY <1>2, <1>3 DEF UsedIds
<1>5. pc'[a] = "send" => tx'[a].id \in UsedIds(a)'
  <2>1. CASE Take(a) /\ b = a
    <3>1. tx'[a] = [pay |-> bus[a][cur[a] + 1], nth |-> cur[a] + 1,
                    id |-> next_id[a], idx |-> 0]
      BY <2>1, TakeStep
    <3> QED
      BY <1>2, <1>3, <2>1, <3>1 DEF UsedIds
  <2>2. CASE SendFrag(a) /\ b = a
    <3>1. pc[a] = "send" /\ (pc'[a] = "send" => tx'[a].id = tx[a].id)
      BY <2>2, SendStep
    <3> QED
      BY <1>2, <1>4, <3>1
  <2>3. CASE ~(b = a /\ (Take(a) \/ SendFrag(a)))
    <3>1. pc'[a] = "send" => pc[a] = "send" /\ tx'[a] = tx[a]
      BY <1>1, <2>3, OwnStay, OthersStay
    <3> QED
      BY <1>2, <1>4, <3>1
  <2> QED
    BY <2>1, <2>2, <2>3
<1>6. /\ reasm_id'[d] < next_id'[a]
      /\ pc'[d] \in {"publish", "ack"} => rx'[d] = reasm_id'[d] /\ rx'[d] > 0
  <2>1. CASE RecvData(d) /\ b = d
    <3>1. /\ link[d] # <<>> /\ link[d][1] \in DataFrames
          /\ reasm_id'[d] = link[d][1].id /\ rx'[d] = link[d][1].id
      BY <2>1, RecvStep
    <3>2. 1 \in DataAt(d)
      BY <3>1, FirstData
    <3>3. link[d][1].id \in 1..next_id[a]-1
      BY <1>2, <3>2 DEF UsedIds
    <3> QED
      BY <1>3, <1>4, <3>1, <3>3
  <2>2. CASE ~(RecvData(d) /\ b = d)
    <3>1. /\ reasm_id'[d] = reasm_id[d] /\ rx'[d] = rx[d]
          /\ pc'[d] \in {"publish", "ack"} => pc[d] \in {"publish", "ack"}
      BY <1>1, <2>2, OwnStay, OthersStay
    <3> QED
      BY <1>2, <1>3, <1>4, <3>1
  <2> QED
    BY <2>1, <2>2
<1>7. ASSUME NEW k \in DataAt(d)' PROVE link'[d][k].id \in UsedIds(a)'
  <2>1. CASE Thin(d)
    BY <1>2, <1>4, <1>7, <2>1 DEF Thin
  <2>2. CASE (ProbeWire(a) \/ ProbeAgain(a)) /\ b = a /\ Arrives(d, ProbeFrame(a))
    <3>1. ProbeFrame(a).id \in UsedIds(a)'
      BY <1>2, <1>3, <2>2 DEF ProbeFrame, DataFrame, UsedIds
    <3> QED
      BY <1>2, <1>4, <1>7, <2>2, <3>1 DEF Arrives
  <2>3. CASE SendFrag(a) /\ Arrives(d, FragFrame(a))
    <3>1. FragFrame(a).id = tx[a].id /\ pc[a] = "send"
      BY <2>3 DEF FragFrame, DataFrame, SendFrag
    <3> QED
      BY <1>2, <1>4, <1>7, <2>3, <3>1 DEF Arrives
  <2> QED
    BY <1>1, <2>1, <2>2, <2>3, Kinds
<1> QED
  BY <1>4, <1>5, <1>6, <1>7

LEMMA AnswerStep ==
  ASSUME TypeOK, IdsOwned, AcksAnswer, TwoBridges, FewIds, NEW b \in Bridges,
         Loop(b) \/ ProbeAgain(b) \/ Lose(b)
  PROVE  AcksAnswer'
<1> SUFFICES ASSUME NEW c \in Bridges
             PROVE  /\ \A k \in DOMAIN link'[c] : link'[c][k].chan = 1 =>
                         link'[c][k].id \in 1..next_id'[c]-1
                    /\ printed_pass'[c] => next_id'[c] > 1
  BY DEF AcksAnswer
<1>1. /\ next_id[c] \in Nat /\ next_id'[c] \in {next_id[c], next_id[c] + 1}
      /\ \A k \in DOMAIN link[c] : link[c][k].chan = 1 => link[c][k].id \in 1..next_id[c]-1
      /\ printed_pass[c] => next_id[c] > 1
  <2>1. next_id[c] \in Nat
    BY DEF TypeOK
  <2>2. next_id'[c] \in {next_id[c], next_id[c] + 1}
    BY <2>1, IdsGrow, OthersStay
  <2> QED
    BY <2>1, <2>2 DEF AcksAnswer
<1>2. ASSUME NEW k \in DOMAIN link'[c], link'[c][k].chan = 1
      PROVE  link'[c][k].id \in 1..next_id'[c]-1
  <2>1. CASE \E j \in DOMAIN link[c] : link'[c][k] = link[c][j]
    BY <1>1, <1>2, <2>1
  <2>2. CASE c # b /\ Ack(b) /\ link'[c][k].id = rx[b]
    <3>1. rx[b] = reasm_id[b] /\ rx[b] > 0 /\ reasm_id[b] < next_id[c] /\ reasm_id[b] \in Nat
      BY <2>2 DEF IdsOwned, Ack, TypeOK
    <3> QED
      BY <1>1, <2>2, <3>1
  <2> QED
    BY <1>2, <2>1, <2>2, AcksStep
<1>3. printed_pass'[c] => next_id'[c] > 1
  <2>1. CASE RecvAck(b) /\ b = c
    <3>1. link[c] # <<>> /\ Head(link[c]).chan = 1
      BY <2>1 DEF RecvAck
    <3>2. link[c] \in Seq(Frames)
      BY DEF TypeOK, Frames
    <3>3. Head(link[c]) = link[c][1] /\ 1 \in DOMAIN link[c]
      BY <3>1, <3>2, Tailed
    <3> QED
      BY <1>1, <3>1, <3>3
  <2>2. CASE ~(RecvAck(b) /\ b = c)
    <3>1. printed_pass'[c] = printed_pass[c]
      BY <2>2, OwnStay, OthersStay
    <3> QED
      BY <1>1, <3>1
  <2> QED
    BY <2>1, <2>2
<1> QED
  BY <1>2, <1>3

LEMMA OneMessageStep ==
  ASSUME TypeOK, IdsOwned, OneMessage, WholeParts, TwoBridges, FewIds, NEW b \in Bridges,
         Loop(b) \/ ProbeAgain(b) \/ Lose(b)
  PROVE  OneMessage'
<1> DEFINE Own(f) == f.idx < Len(Payload(f.frag[1])) /\ f.frag[2] = f.idx + 1
<1> SUFFICES ASSUME NEW a \in Bridges, NEW d \in Bridges, a # d, NEW k \in DataAt(d)'
             PROVE  /\ Own(link'[d][k])
                    /\ \A j \in DataAt(d)' : link'[d][j].id = link'[d][k].id =>
                         /\ link'[d][j].frag[1] = link'[d][k].frag[1]
                         /\ link'[d][k].last => j <= k
                    /\ pc'[a] = "send" /\ tx'[a].id = link'[d][k].id =>
                         ~link'[d][k].last /\ link'[d][k].frag[1] = tx'[a].pay[1][1]
  BY DEF OneMessage, Sending
<1>1. b \in {a, d}
  BY Peers
<1>2. ASSUME NEW i \in DataAt(d)
      PROVE  /\ Own(link[d][i])
             /\ \A j \in DataAt(d) : link[d][j].id = link[d][i].id =>
                  /\ link[d][j].frag[1] = link[d][i].frag[1]
                  /\ link[d][i].last => j <= i
             /\ pc[a] = "send" /\ tx[a].id = link[d][i].id =>
                  ~link[d][i].last /\ link[d][i].frag[1] = tx[a].pay[1][1]
  BY DEF OneMessage, Sending
<1>3. \A i \in DataAt(d) : link[d][i].id \in 1..next_id[a]-1 /\ i \in Nat
  <2>1. link[d] \in Seq(Frames)
    BY DEF TypeOK, Frames
  <2>2. DOMAIN link[d] \subseteq Nat
    BY <2>1
  <2> QED
    BY <2>2 DEF IdsOwned, UsedIds, DataAt
<1>4. next_id[a] \in Nat
  BY DEF TypeOK
<1> HIDE DEF Own
<1>5. ASSUME Thin(d)
      PROVE  /\ Own(link'[d][k])
             /\ \A j \in DataAt(d)' : link'[d][j].id = link'[d][k].id =>
                  /\ link'[d][j].frag[1] = link'[d][k].frag[1]
                  /\ link'[d][k].last => j <= k
             /\ pc[a] = "send" /\ tx[a].id = link'[d][k].id =>
                  ~link'[d][k].last /\ link'[d][k].frag[1] = tx[a].pay[1][1]
             /\ link'[d][k].id \in 1..next_id[a]-1
  <2>1. PICK r \in [DataAt(d)' -> DataAt(d)] : \A i, j \in DataAt(d)' :
              link'[d][j] = link[d][r[j]] /\ (r[i] <= r[j] <=> i <= j)
    BY <1>5 DEF Thin
  <2>2. \A j \in DataAt(d)' : r[j] \in DataAt(d) /\ link'[d][j] = link[d][r[j]]
    BY <2>1
  <2>3. \A j \in DataAt(d)' : r[j] <= r[k] => j <= k
    BY <2>1
  <2> QED
    BY <1>2, <1>3, <2>2, <2>3
<1>6. CASE Thin(d) /\ OldSends(a)
  BY <1>5, <1>6 DEF OldSends
<1>7. CASE Thin(d) /\ Take(a)
  <2>1. tx'[a] = [pay |-> bus[a][cur[a] + 1], nth |-> cur[a] + 1,
                  id |-> next_id[a], idx |-> 0]
    BY <1>7, TakeStep
  <2>2. tx'[a].id = next_id[a]
    BY <2>1
  <2> QED
    BY <1>4, <1>5, <1>7, <2>2
<1>8. CASE Arrives(d, ProbeFrame(a)) /\ pc'[a] # "send"
  <2> DEFINE n == Len(link[d]) + 1
             f == ProbeFrame(a)
  <2>1. /\ DataAt(d)' = DataAt(d) \cup {n} /\ link'[d][n] = f
        /\ \A i \in DataAt(d) : i < n /\ link'[d][i] = link[d][i]
    BY <1>8 DEF Arrives
  <2>2. Own(f) /\ f.id = next_id[a]
    BY PayloadType DEF Own, ProbeFrame, DataFrame, AllMsgs
  <2> HIDE DEF f
  <2>3. n \in Nat
    BY DEF TypeOK
  <2> HIDE DEF n
  <2>4. CASE k = n
    <3>1. \A j \in DataAt(d)' : link'[d][j].id = link'[d][k].id => j = n
      BY <1>3, <1>4, <2>1, <2>2, <2>4
    <3> QED
      BY <1>8, <2>1, <2>2, <2>3, <2>4, <3>1
  <2>5. CASE k \in DataAt(d)
    <3>1. \A j \in DataAt(d)' : link'[d][j].id = link'[d][k].id => j \in DataAt(d)
      BY <1>3, <1>4, <2>1, <2>2, <2>5
    <3> QED
      BY <1>2, <1>8, <2>1, <2>5, <3>1
  <2> QED
    BY <2>1, <2>4, <2>5
<1>9. CASE SendFrag(a) /\ Arrives(d, FragFrame(a))
  <2> DEFINE n == Len(link[d]) + 1
             f == FragFrame(a)
             t == tx[a]
             m == t.pay[1][1]
  <2>1. /\ DataAt(d)' = DataAt(d) \cup {n} /\ link'[d][n] = f
        /\ \A i \in DataAt(d) : i < n /\ link'[d][i] = link[d][i]
    BY <1>9 DEF Arrives
  <2>2. /\ pc[a] = "send" /\ (f.last => pc'[a] # "send")
        /\ pc'[a] = "send" => tx'[a].id = t.id /\ tx'[a].pay = t.pay
        /\ f.id = t.id /\ f.idx = t.idx /\ f.frag = t.pay[t.idx + 1]
    BY <1>9, SendStep DEF FragFrame, DataFrame
  <2>3. PICK p \in AllMsgs : Part(t.pay, p)
    BY <2>2, FragmentOut, Leading DEF WholeParts, Payloads
  <2>4. /\ t.idx + 1 \in 1..Len(t.pay) /\ t.idx \in Nat /\ Len(t.pay) \in 1..Len(Payload(p))
        /\ \A i \in 1..Len(t.pay) : t.pay[i] = <<p, i>>
    BY <2>2, <2>3, FragmentOut DEF Part
  <2>5. m = p
    <3>1. 1 \in 1..Len(t.pay)
      BY <2>4
    <3> QED
      BY <2>4, <3>1
  <2>6. f.frag[1] = m /\ Own(f)
    <3>1. f.frag[1] = p /\ f.frag[2] = t.idx + 1
      BY <2>2, <2>4
    <3>2. Len(Payload(p)) \in Nat
      BY PayloadType
    <3>3. t.idx < Len(Payload(p))
      BY <2>4, <3>2
    <3> QED
      BY <2>2, <2>5, <3>1, <3>3 DEF Own
  <2>7. n \in Nat
    BY DEF TypeOK
  <2> HIDE DEF n, f, t, m
  <2>8. ASSUME NEW j \in DataAt(d)', link'[d][j].id = t.id
        PROVE  /\ link'[d][j].frag[1] = m
               /\ j \in DataAt(d) => ~link'[d][j].last
               /\ j <= n
    BY <1>2, <1>3, <2>1, <2>2, <2>6, <2>7, <2>8 DEF m, t
  <2>9. CASE k = n
    BY <2>1, <2>2, <2>6, <2>8, <2>9 DEF m, t
  <2>10. CASE k \in DataAt(d)
    <3>1. CASE link'[d][k].id = t.id
      BY <1>2, <2>1, <2>2, <2>8, <2>10, <3>1 DEF m, t
    <3>2. CASE link'[d][k].id # t.id
      <4>1. \A j \in DataAt(d)' : link'[d][j].id = link'[d][k].id => j \in DataAt(d)
        BY <2>1, <2>2, <3>2
      <4> QED
        BY <1>2, <2>1, <2>2, <2>10, <3>2, <4>1
    <3> QED
      BY <3>1, <3>2
  <2> QED
    BY <2>1, <2>9, <2>10
<1> QED
  BY <1>1, <1>6, <1>7, <1>8, <1>9, Kinds

\* Under an id that has been used, only the message that is going out goes on.
LEMMA NoNews ==
  ASSUME TypeOK, WholeParts, NEW a \in Bridges, NEW d \in Bridges, a # d, NEW b \in {a, d},
         Loop(b) \/ ProbeAgain(b) \/ Lose(b), NEW n \in Nat, n < next_id[a]
  PROVE  /\ pc'[a] = "send" /\ tx'[a].id = n =>
              Sending(a, n) /\ tx'[a].pay[1][1] = tx[a].pay[1][1]
         /\ \A k \in DataAt(d)' : link'[d][k].id = n =>
              \/ \E j \in DataAt(d) : link'[d][k] = link[d][j]
              \/ Sending(a, n) /\ link'[d][k].frag[1] = tx[a].pay[1][1]
<1>0. next_id[a] \in Nat
  BY DEF TypeOK
<1>1. CASE Thin(d) /\ OldSends(a)
  BY <1>1 DEF Thin, OldSends, Sending
<1>2. CASE Thin(d) /\ Take(a)
  <2>1. tx'[a] = [pay |-> bus[a][cur[a] + 1], nth |-> cur[a] + 1,
                  id |-> next_id[a], idx |-> 0]
    BY <1>2, TakeStep
  <2>2. tx'[a].id # n
    BY <1>0, <2>1
  <2> QED
    BY <1>2, <2>2 DEF Thin
<1>3. CASE Arrives(d, ProbeFrame(a)) /\ pc'[a] # "send"
  <2>1. ProbeFrame(a).id # n
    BY <1>0 DEF ProbeFrame, DataFrame
  <2> QED
    BY <1>3, <2>1 DEF Arrives
<1>4. CASE SendFrag(a) /\ Arrives(d, FragFrame(a))
  <2>1. /\ pc[a] = "send" /\ FragFrame(a).id = tx[a].id
        /\ FragFrame(a).frag = tx[a].pay[tx[a].idx + 1]
        /\ pc'[a] = "send" => tx'[a].id = tx[a].id /\ tx'[a].pay = tx[a].pay
    BY <1>4, SendStep DEF FragFrame, DataFrame
  <2>2. FragFrame(a).frag[1] = tx[a].pay[1][1]
    <3>1. PICK p \in AllMsgs : Part(tx[a].pay, p)
      BY <2>1, FragmentOut, Leading DEF WholeParts, Payloads
    <3>2. tx[a].idx + 1 \in 1..Len(tx[a].pay) /\ 1 \in 1..Len(tx[a].pay)
      BY <2>1, FragmentOut
    <3> QED
      BY <2>1, <3>1, <3>2 DEF Part
  <2> QED
    BY <1>4, <2>1, <2>2 DEF Arrives, Sending
<1> QED
  BY <1>1, <1>2, <1>3, <1>4, Kinds

\* The frame at the head of the segment, and what is left after it.
LEMMA HeadOff ==
  ASSUME TypeOK, NEW d \in Bridges, RecvData(d)
  PROVE  /\ 1 \in DataAt(d)
         /\ \A k \in DataAt(d)' : /\ k \in Nat \ {0} /\ k + 1 \in DataAt(d)
                                  /\ link'[d][k] = link[d][k + 1]
         /\ \A k \in DataAt(d) : k = 1 \/ (k - 1 \in DataAt(d)' /\ k \in Nat \ {0})
<1>1. link[d] # <<>> /\ link' = [link EXCEPT ![d] = Tail(@)] /\ link[d][1] \in DataFrames
  BY RecvStep
<1>2. link[d] \in Seq(Frames) /\ link'[d] = Tail(link[d])
  BY <1>1, Handed DEF TypeOK, Frames
<1>3. /\ Len(link[d]) \in Nat \ {0} /\ DOMAIN link[d] = 1..Len(link[d])
      /\ DOMAIN link'[d] = 1..Len(link[d])-1
      /\ \A k \in 1..Len(link[d])-1 : link'[d][k] = link[d][k + 1]
  BY <1>1, <1>2, Tailed
<1>4. 1 \in DataAt(d)
  BY <1>1, FirstData
<1>5. ASSUME NEW k \in DataAt(d)'
      PROVE  /\ k \in Nat \ {0} /\ k + 1 \in DataAt(d)
             /\ link'[d][k] = link[d][k + 1]
  <2>1. k \in 1..Len(link[d])-1 /\ IsData(link'[d][k])
    BY <1>3, <1>5 DEF DataAt, IsData
  <2>2. k + 1 \in 1..Len(link[d]) /\ link'[d][k] = link[d][k + 1] /\ k \in Nat \ {0}
    BY <1>3, <2>1
  <2> QED
    BY <1>3, <2>1, <2>2 DEF DataAt
<1>6. ASSUME NEW k \in DataAt(d), k # 1 PROVE k - 1 \in DataAt(d)' /\ k \in Nat \ {0}
  <2>1. k \in 1..Len(link[d]) /\ IsData(link[d][k])
    BY <1>3, <1>6 DEF DataAt
  <2>2. k - 1 \in 1..Len(link[d])-1 /\ (k - 1) + 1 = k /\ k \in Nat \ {0}
    BY <1>3, <1>6, <2>1
  <2> QED
    BY <1>3, <2>1, <2>2 DEF DataAt, IsData
<1> QED
  BY <1>4, <1>5, <1>6

LEMMA CollectingStep ==
  ASSUME TypeOK, IdsOwned, OneMessage, Collecting, WholeParts, TwoBridges, FewIds,
         NEW b \in Bridges, Loop(b) \/ ProbeAgain(b) \/ Lose(b)
  PROVE  Collecting'
<1> SUFFICES ASSUME NEW a \in Bridges, NEW d \in Bridges, a # d
             PROVE  /\ reasm_buf'[d] # <<>> =>
                         LET m == reasm_buf'[d][1][1] IN
                         /\ LeadingPart(reasm_buf[d])'
                         /\ reasm_next_idx'[d] = Len(reasm_buf'[d])
                         /\ \A k \in DataAt(d)' :
                              link'[d][k].id = reasm_id'[d] => link'[d][k].frag[1] = m
                         /\ pc'[a] = "send" /\ tx'[a].id = reasm_id'[d] =>
                              tx'[a].pay[1][1] = m
                    /\ Closed(d)' =>
                         /\ ~(pc'[a] = "send" /\ tx'[a].id = reasm_id'[d])
                         /\ \A k \in DataAt(d)' : link'[d][k].id # reasm_id'[d]
  BY DEF Collecting, Sending
<1>1. b \in {a, d}
  BY Peers
<1>2. /\ reasm_buf[d] # <<>> =>
           LET m == reasm_buf[d][1][1] IN
           /\ LeadingPart(reasm_buf[d]) /\ reasm_next_idx[d] = Len(reasm_buf[d])
           /\ \A k \in DataAt(d) : link[d][k].id = reasm_id[d] => link[d][k].frag[1] = m
           /\ Sending(a, reasm_id[d]) => tx[a].pay[1][1] = m
      /\ Closed(d) => /\ ~Sending(a, reasm_id[d])
                      /\ \A k \in DataAt(d) : link[d][k].id # reasm_id[d]
  BY DEF Collecting
<1>3. CASE RecvData(d) /\ b = d
  <2> DEFINE f    == link[d][1]
             m    == f.frag[1]
             buf  == BufAt(d, f)
             next == NextAt(d, f)
  <2>1. /\ 1 \in DataAt(d) /\ f \in DataFrames /\ pc[d] = "recv"
        /\ \A k \in DataAt(d)' : /\ k \in Nat \ {0} /\ k + 1 \in DataAt(d)
                                 /\ link'[d][k] = link[d][k + 1]
    BY <1>3, HeadOff, RecvStep
  <2>2. pc'[a] = pc[a] /\ tx'[a] = tx[a]
    BY <1>3, OthersStay
  <2>3. /\ f.idx < Len(Payload(m)) /\ f.frag[2] = f.idx + 1
        /\ \A j \in DataAt(d) : link[d][j].id = f.id => /\ link[d][j].frag[1] = m
                                                        /\ f.last => j <= 1
        /\ Sending(a, f.id) => ~f.last /\ m = tx[a].pay[1][1]
    BY <2>1 DEF OneMessage
  <2>4. m \in AllMsgs /\ f.frag = <<m, f.idx + 1>> /\ f.idx \in Nat /\ f.frag \in Fragments
        /\ f.last \in BOOLEAN
    BY <2>1, <2>3 DEF DataFrames, Fragments
  <2>5. \A k \in DataAt(d)' : link'[d][k].id = f.id => link'[d][k].frag[1] = m /\ ~f.last
    <3> SUFFICES ASSUME NEW k \in DataAt(d)', link'[d][k].id = f.id
                 PROVE  link'[d][k].frag[1] = m /\ ~f.last
      OBVIOUS
    <3>1. k \in Nat \ {0} /\ ~(k + 1 <= 1)
      BY <2>1
    <3> QED
      BY <2>1, <2>3, <3>1
  <2>6. buf \in Seq(Fragments) /\ next \in Nat
    BY <1>3, RecvStep
  <2>7. /\ reasm_id'[d] = f.id
        /\ \/ /\ FitsNext(d, f, next) /\ Len(buf) >= MaxFrame
              /\ reasm_buf'[d] = <<>> /\ reasm_next_idx'[d] = 0 /\ pc'[d] = "loop"
           \/ /\ FitsNext(d, f, next) /\ Len(buf) < MaxFrame
              /\ reasm_buf'[d] = Append(buf, f.frag) /\ reasm_next_idx'[d] = next + 1
              /\ pc'[d] = IF f.last THEN "publish" ELSE "loop"
           \/ /\ ~FitsNext(d, f, next) /\ reasm_buf'[d] = buf /\ reasm_next_idx'[d] = next
              /\ pc'[d] = IF ~f.last THEN "loop"
                          ELSE IF buf # <<>> THEN "publish" ELSE "ack"
    BY <1>3, RecvStep
  <2>8. next = Len(buf) /\ (buf # <<>> => Part(buf, m))
    <3>1. CASE Restarts(d, f)
      BY <3>1 DEF BufAt, NextAt
    <3>2. CASE ~Restarts(d, f)
      <4>1. buf = reasm_buf[d] /\ next = reasm_next_idx[d] /\ reasm_id[d] = f.id
        BY <3>2 DEF BufAt, NextAt, Restarts
      <4>2. ~Closed(d)
        BY <1>2, <2>1, <4>1
      <4>3. CASE buf = <<>>
        BY <4>1, <4>2, <4>3 DEF Closed
      <4>4. CASE buf # <<>>
        <5>1. LeadingPart(buf) /\ next = Len(buf) /\ buf[1][1] = m
          BY <1>2, <2>1, <4>1, <4>4
        <5> HIDE DEF buf, m
        <5>2. PICK p \in AllMsgs : Part(buf, p)
          BY <2>6, <5>1, Leading
        <5>3. 1 \in 1..Len(buf)
          BY <2>6, <4>4
        <5>4. buf[1] = <<p, 1>>
          BY <5>2, <5>3 DEF Part
        <5> QED
          BY <5>1, <5>2, <5>4
      <4> QED
        BY <4>3, <4>4
    <3> QED
      BY <3>1, <3>2
  <2> HIDE DEF buf, next
  <2>9. Closed(d)' => f.last
    <3>1. ASSUME reasm_buf'[d] = <<>> PROVE reasm_next_idx'[d] = 0
      <4>1. Append(buf, f.frag) # <<>>
        BY <2>4, <2>6, Appended
      <4> QED
        BY <2>7, <2>8, <3>1, <4>1
    <3>2. pc'[d] \in {"publish", "ack"} => f.last
      BY <2>4, <2>7
    <3> QED
      BY <3>1, <3>2 DEF Closed
  <2>10. reasm_buf'[d] # <<>> =>
           Part(reasm_buf'[d], m) /\ reasm_next_idx'[d] = Len(reasm_buf'[d])
    <3>1. CASE FitsNext(d, f, next) /\ reasm_buf'[d] = Append(buf, f.frag)
               /\ reasm_next_idx'[d] = next + 1
      <4> DEFINE g == f.frag
                 l == Len(buf)
                 new == Append(buf, g)
      <4>1. /\ l \in Nat /\ Len(new) = l + 1 /\ new[l + 1] = g
            /\ \A k \in 1..l : new[k] = buf[k]
        BY <2>4, <2>6, Appended
      <4>2. f.idx = l
        BY <2>8, <3>1 DEF FitsNext
      <4>3. Len(Payload(m)) \in Nat
        BY <2>4, PayloadType
      <4>4. g = <<m, l + 1>> /\ l + 1 \in 1..Len(Payload(m))
        BY <2>3, <2>4, <4>1, <4>2, <4>3
      <4>5. \A k \in 1..l : buf[k] = <<m, k>>
        <5>1. CASE buf = <<>>
          BY <5>1
        <5>2. CASE buf # <<>>
          BY <2>8, <5>2 DEF Part
        <5> QED
          BY <5>1, <5>2
      <4> HIDE DEF new, g, l
      <4>6. \A k \in 1..l+1 : new[k] = <<m, k>>
        BY <4>1, <4>4, <4>5
      <4>7. Part(new, m)
        BY <4>1, <4>4, <4>6 DEF Part
      <4> QED
        BY <2>8, <3>1, <4>1, <4>7 DEF new, g, l
    <3>2. CASE reasm_buf'[d] = buf /\ reasm_next_idx'[d] = next
      BY <2>8, <3>2
    <3> QED
      BY <2>7, <3>1, <3>2
  <2>11. ASSUME reasm_buf'[d] # <<>>
         PROVE  LeadingPart(reasm_buf[d])' /\ reasm_buf'[d][1][1] = m
    <3>1. Part(reasm_buf'[d], m) /\ reasm_buf'[d] \in Seq(Fragments)
      BY <1>3, <2>10, <2>11, RecvStep
    <3>2. 1 \in 1..Len(reasm_buf'[d])
      BY <2>11, <3>1
    <3>3. reasm_buf'[d][1] = <<m, 1>>
      BY <3>1, <3>2 DEF Part
    <3>4. LeadingPart(reasm_buf'[d])
      BY <2>4, <3>1, Leading
    <3> QED
      BY <3>3, <3>4 DEF LeadingPart
  <2>12. pc'[a] = "send" /\ tx'[a].id = reasm_id'[d] => ~f.last /\ tx'[a].pay[1][1] = m
    BY <2>2, <2>3, <2>7 DEF Sending
  <2> HIDE DEF m, f
  <2> QED
    BY <2>5, <2>7, <2>9, <2>10, <2>11, <2>12 DEF f
<1>4. CASE ~(RecvData(d) /\ b = d)
  <2>1. /\ reasm_id'[d] = reasm_id[d] /\ reasm_next_idx'[d] = reasm_next_idx[d]
        /\ pc'[d] \in {"publish", "ack"} => pc[d] \in {"publish", "ack"}
    BY <1>1, <1>4, OwnStay, OthersStay
  <2>2. reasm_buf'[d] = reasm_buf[d] \/ (reasm_buf'[d] = <<>> /\ pc[d] = "ack")
    <3>1. CASE Ack(d) /\ b = d
      <4>1. reasm_buf' = [reasm_buf EXCEPT ![d] = <<>>] /\ pc[d] = "ack"
        BY <3>1 DEF Ack
      <4> QED
        BY <4>1 DEF TypeOK
    <3>2. CASE ~(Ack(d) /\ b = d)
      BY <1>1, <1>4, <3>2, OwnStay, OthersStay
    <3> QED
      BY <3>1, <3>2
  <2>3. Closed(d)' => Closed(d)
    BY <2>1, <2>2 DEF Closed
  <2>4. reasm_id[d] \in Nat /\ reasm_id[d] < next_id[a]
    BY DEF TypeOK, IdsOwned
  <2>5. /\ pc'[a] = "send" /\ tx'[a].id = reasm_id[d] =>
             Sending(a, reasm_id[d]) /\ tx'[a].pay[1][1] = tx[a].pay[1][1]
        /\ \A k \in DataAt(d)' : link'[d][k].id = reasm_id[d] =>
             \/ \E j \in DataAt(d) : link'[d][k] = link[d][j]
             \/ Sending(a, reasm_id[d]) /\ link'[d][k].frag[1] = tx[a].pay[1][1]
    BY <1>1, <2>4, NoNews
  <2>6. CASE reasm_buf'[d] # <<>>
    <3>1. reasm_buf'[d] = reasm_buf[d]
      BY <2>2, <2>6
    <3>2. LeadingPart(reasm_buf[d])' <=> LeadingPart(reasm_buf[d])
      BY <3>1 DEF LeadingPart
    <3> QED
      BY <1>2, <2>1, <2>3, <2>5, <2>6, <3>1, <3>2
  <2>7. CASE reasm_buf'[d] = <<>>
    BY <1>2, <2>1, <2>3, <2>5, <2>7
  <2> QED
    BY <2>6, <2>7
<1> QED
  BY <1>3, <1>4

\* What is added to a sequence is all that has to be looked at.
LEMMA AddedPart ==
  ASSUME NEW q \in Seq(Payloads), \A k \in DOMAIN q : LeadingPart(q[k]),
         NEW p \in Payloads, LeadingPart(p)
  PROVE  \A k \in DOMAIN Append(q, p) : LeadingPart(Append(q, p)[k])
<1>1. /\ DOMAIN q = 1..Len(q) /\ DOMAIN Append(q, p) = 1..Len(q)+1 /\ Len(q) \in Nat
      /\ \A k \in 1..Len(q) : Append(q, p)[k] = q[k]
      /\ Append(q, p)[Len(q) + 1] = p
  BY Appended
<1> QED
  BY <1>1

LEMMA WholeMessage == \A m \in AllMsgs : LeadingPart(Payload(m))
<1> SUFFICES ASSUME NEW m \in AllMsgs PROVE LeadingPart(Payload(m))
  OBVIOUS
<1>1. /\ Payload(m) \in Seq(Fragments) /\ Len(Payload(m)) \in Nat \ {0}
      /\ \A k \in 1..Len(Payload(m)) : Payload(m)[k] = <<m, k>>
  BY PayloadType DEF Payloads
<1>2. Part(Payload(m), m)
  BY <1>1 DEF Part
<1> QED
  BY <1>1, <1>2, Leading

LEMMA WholePut ==
  ASSUME TypeOK, WholeParts, NEW b \in Bridges, NEW p \in Payloads, LeadingPart(p), Put(b, p)
  PROVE  \A c \in Bridges : \A k \in DOMAIN bus'[c] : LeadingPart(bus'[c][k])
<1>1. bus'[b] = Append(bus[b], p) /\ \A c \in Bridges \ {b} : bus'[c] = bus[c]
  BY Placed
<1>2. \A c \in Bridges : /\ bus[c] \in Seq(Payloads)
                         /\ \A k \in DOMAIN bus[c] : LeadingPart(bus[c][k])
  BY DEF TypeOK, WholeParts
<1>3. \A k \in DOMAIN Append(bus[b], p) : LeadingPart(Append(bus[b], p)[k])
  BY <1>2, AddedPart
<1> QED
  BY <1>1, <1>2, <1>3

LEMMA WholeStep ==
  ASSUME TypeOK, WholeParts, Collecting, NeverMixed, TwoBridges, NEW b \in Bridges,
         Loop(b) \/ ProbeAgain(b) \/ Lose(b)
  PROVE  WholeParts' /\ NeverMixed'
<1>1. ASSUME PublishIn(b)
      PROVE  reasm_buf[b] \in Payloads /\ LeadingPart(reasm_buf[b])
  <2>1. reasm_buf[b] # <<>> /\ reasm_buf[b] \in Seq(Fragments)
    BY <1>1 DEF PublishIn, TypeOK
  <2>2. PICK a \in Bridges : b # a
    BY Peers
  <2> QED
    BY <2>1, <2>2 DEF Collecting, Payloads
<1>2. \A c \in Bridges : \A k \in DOMAIN bus'[c] : LeadingPart(bus'[c][k])
  <2>1. CASE PublishIn(b)
    BY <1>1, <2>1, WholePut DEF PublishIn
  <2>2. CASE ProbeBus(b)
    BY <2>2, WholePut, WholeMessage, PayloadType DEF ProbeBus, AllMsgs
  <2>3. CASE ~PublishIn(b) /\ ~ProbeBus(b)
    BY <2>3, OwnStay, OthersStay DEF WholeParts
  <2> QED
    BY <2>1, <2>2, <2>3
<1>3. ASSUME NEW c \in Bridges, pc'[c] = "send" PROVE LeadingPart(tx'[c].pay)
  <2>1. CASE Take(b) /\ b = c
    <3>1. tx'[c] = [pay |-> bus[c][cur[c] + 1], nth |-> cur[c] + 1,
                    id |-> next_id[c], idx |-> 0]
      BY <2>1, TakeStep
    <3>2. cur[c] + 1 \in DOMAIN bus[c]
      <4>1. cur[c] + 1 \in 1..Len(bus[c]) /\ bus[c] \in Seq(Payloads)
        BY <2>1, TakeStep DEF TypeOK
      <4> QED
        BY <4>1
    <3> QED
      BY <3>1, <3>2 DEF WholeParts
  <2>2. CASE SendFrag(b) /\ b = c
    BY <1>3, <2>2, SendStep DEF WholeParts
  <2>3. CASE ~(b = c /\ (Take(b) \/ SendFrag(b)))
    BY <1>3, <2>3, OwnStay, OthersStay DEF WholeParts
  <2> QED
    BY <2>1, <2>2, <2>3
<1>4. NeverMixed'
  <2>1. CASE PublishIn(b)
    <3>1. \A c \in Bridges : /\ bridged[c] \in Seq(Payloads)
                             /\ \A k \in DOMAIN bridged[c] : LeadingPart(bridged[c][k])
      BY DEF TypeOK, NeverMixed
    <3>2. /\ bridged'[b] = Append(bridged[b], reasm_buf[b])
          /\ \A c \in Bridges \ {b} : bridged'[c] = bridged[c]
      BY <2>1 DEF PublishIn, TypeOK
    <3>3. \A k \in DOMAIN Append(bridged[b], reasm_buf[b]) :
            LeadingPart(Append(bridged[b], reasm_buf[b])[k])
      BY <1>1, <2>1, <3>1, AddedPart
    <3>4. \A c \in Bridges : \A k \in DOMAIN bridged'[c] : LeadingPart(bridged'[c][k])
      BY <3>1, <3>2, <3>3
    <3> QED
      BY <3>4 DEF NeverMixed, LeadingPart
  <2>2. CASE ~PublishIn(b)
    <3>1. \A c \in Bridges : bridged'[c] = bridged[c]
      BY <2>2, OwnStay, OthersStay
    <3> QED
      BY <3>1 DEF NeverMixed, LeadingPart
  <2> QED
    BY <2>1, <2>2
<1> QED
  BY <1>2, <1>3, <1>4 DEF WholeParts, LeadingPart

LEMMA InitBridge == Init => BridgeInv
<1> SUFFICES ASSUME Init PROVE BridgeInv
  OBVIOUS
<1>1. TypeOK
  BY InitType
<1>2. \A b \in Bridges :
        /\ bus[b] = <<>> /\ bridged[b] = <<>> /\ link[b] = <<>> /\ next_id[b] = 1
        /\ pc[b] \in {"probe_bus", "loop"} /\ printed_pass[b] = FALSE
        /\ reasm_id[b] = 0 /\ reasm_buf[b] = <<>> /\ reasm_next_idx[b] = 0
  BY DEF Init
<1>3. \A b \in Bridges : DataAt(b) = {} /\ ~Closed(b)
  <2>1. DOMAIN <<>> = {}
    OBVIOUS
  <2>2. \A b \in Bridges : DOMAIN link[b] = {} /\ ~Closed(b)
    BY <1>2, <2>1 DEF Closed
  <2> QED
    BY <2>2 DEF DataAt
<1> QED
  BY <1>1, <1>2, <1>3 DEF BridgeInv, IdsOwned, OneMessage, Collecting, WholeParts, NeverMixed,
     AcksAnswer

LEMMA NextBridge == TwoBridges /\ FewIds /\ BridgeInv /\ [Next]_bridgeVars => BridgeInv'
<1> SUFFICES ASSUME TwoBridges, FewIds, BridgeInv, [Next]_bridgeVars PROVE BridgeInv'
  OBVIOUS
<1> USE DEF BridgeInv
<1>1. TypeOK'
  BY NextType
<1>2. ASSUME UNCHANGED <<bridged, pc, next_id, tx, reassembly, printed_pass, link>>,
             \A b \in Bridges : \A k \in DOMAIN bus'[b] : LeadingPart(bus'[b][k])
      PROVE  IdsOwned' /\ OneMessage' /\ Collecting' /\ WholeParts' /\ NeverMixed' /\ AcksAnswer'
  <2> USE <1>2 DEF reassembly, DataAt, IsData, Sending, UsedIds, Closed, LeadingPart
  <2>1. IdsOwned'
    BY DEF IdsOwned
  <2>2. OneMessage'
    BY DEF OneMessage
  <2>3. Collecting'
    BY DEF Collecting
  <2>4. WholeParts'
    BY DEF WholeParts
  <2>5. NeverMixed' /\ AcksAnswer'
    BY DEF NeverMixed, AcksAnswer
  <2> QED
    BY <2>1, <2>2, <2>3, <2>4, <2>5
<1>3. ASSUME NEW m \in Msgs, ClientPublish(m) PROVE BridgeInv'
  <2>1. Home[m] \in Bridges /\ Payload(m) \in Payloads /\ LeadingPart(Payload(m))
    BY MsgAssumption, PayloadType, WholeMessage DEF AllMsgs
  <2>2. \A c \in Bridges : \A k \in DOMAIN bus'[c] : LeadingPart(bus'[c][k])
    BY <1>3, <2>1, WholePut DEF ClientPublish
  <2>3. UNCHANGED <<bridged, pc, next_id, tx, reassembly, printed_pass, link>>
    BY <1>3 DEF ClientPublish
  <2> QED
    BY <1>1, <1>2, <2>2, <2>3
<1>4. ASSUME NEW b \in Bridges, Loop(b) \/ ProbeAgain(b) \/ Lose(b) PROVE BridgeInv'
  BY <1>1, <1>4, IdsStep, OneMessageStep, CollectingStep, WholeStep, AnswerStep
<1>5. CASE UNCHANGED bridgeVars
  <2>1. UNCHANGED <<bridged, pc, next_id, tx, reassembly, printed_pass, link, bus>>
    BY <1>5 DEF bridgeVars, reassembly
  <2>2. \A b \in Bridges : \A k \in DOMAIN bus'[b] : LeadingPart(bus'[b][k])
    BY <2>1 DEF WholeParts
  <2> QED
    BY <1>1, <1>2, <2>1, <2>2
<1> QED
  BY <1>3, <1>4, <1>5 DEF Next

(* The inductive invariant, of two bridges that send fewer messages than   *)
(* there are ids: the frames of one id are of one message and the buffer   *)
(* is where that message was left (l2bridge.rs 563-595).                   *)
THEOREM BridgeInvariant ==
  ASSUME TwoBridges, FewIds
  PROVE  Spec => []BridgeInv
<1>1. BridgeInv /\ [Next]_bridgeVars => BridgeInv'
  BY NextBridge
<1> QED
  BY <1>1, InitBridge, PTL DEF Spec

(* What a bridge puts on its bus of what came over the segment is always a *)
(* leading part of one message, whatever the segment loses                 *)
(* (l2bridge.rs 563-595).                                                  *)
THEOREM PartsOfOneMessage ==
  ASSUME TwoBridges, FewIds
  PROVE  Spec => []NeverMixed
<1>1. BridgeInv => NeverMixed
  BY DEF BridgeInv
<1> QED
  BY <1>1, BridgeInvariant, PTL

(* An ACK names a message that the bridge it reaches has sent, and a PASS  *)
(* is printed only by one that has sent something (l2bridge.rs 592-651).   *)
THEOREM AcksAreAnswers ==
  ASSUME TwoBridges, FewIds
  PROVE  Spec => []AcksAnswer
<1>1. BridgeInv => AcksAnswer
  BY DEF BridgeInv
<1> QED
  BY <1>1, BridgeInvariant, PTL

-----------------------------------------------------------------------------
(* RelayInv is inductive over a segment that loses nothing.                *)

LEMMA AckOffSame ==
  ASSUME TypeOK, NEW d \in Bridges, RecvAck(d) PROVE Same(d)
<1> DEFINE r == [k \in DataAt(d)' |-> k + 1]
<1>1. link[d] # <<>> /\ link' = [link EXCEPT ![d] = Tail(@)] /\ Head(link[d]).chan = 1
  BY DEF RecvAck
<1>2. link[d] \in Seq(Frames) /\ link'[d] = Tail(link[d])
  BY <1>1, Handed DEF TypeOK, Frames
<1>3. /\ Len(link[d]) \in Nat \ {0} /\ DOMAIN link[d] = 1..Len(link[d])
      /\ DOMAIN link'[d] = 1..Len(link[d])-1 /\ link[d][1].chan = 1
      /\ \A k \in 1..Len(link[d])-1 : link'[d][k] = link[d][k + 1]
  <2> DEFINE q == link[d]
  <2>1. q \in Seq(Frames) /\ q # <<>>
    BY <1>1, <1>2
  <2> HIDE DEF q
  <2>2. /\ Len(q) \in Nat \ {0} /\ Head(q) = q[1] /\ DOMAIN q = 1..Len(q)
        /\ DOMAIN Tail(q) = 1..Len(q)-1
        /\ \A k \in 1..Len(q)-1 : Tail(q)[k] = q[k + 1]
    BY <2>1, Tailed
  <2> QED
    BY <1>1, <1>2, <2>2 DEF q
<1>4. ASSUME NEW k \in DataAt(d)'
      PROVE  k \in Nat /\ k + 1 \in DataAt(d) /\ link'[d][k] = link[d][k + 1]
  <2>1. k \in 1..Len(link[d])-1 /\ IsData(link'[d][k])
    BY <1>3, <1>4 DEF DataAt, IsData
  <2>2. k + 1 \in 1..Len(link[d]) /\ link'[d][k] = link[d][k + 1] /\ k \in Nat
    BY <1>3, <2>1
  <2> QED
    BY <1>3, <2>1, <2>2 DEF DataAt
<1>5. ASSUME NEW k \in DataAt(d) PROVE k \in Nat /\ k - 1 \in DataAt(d)'
  <2>1. k \in 1..Len(link[d]) /\ k # 1 /\ IsData(link[d][k])
    BY <1>3, <1>5 DEF DataAt, IsData
  <2>2. k - 1 \in 1..Len(link[d])-1 /\ (k - 1) + 1 = k /\ k \in Nat
    BY <1>3, <2>1
  <2> QED
    BY <1>3, <2>1, <2>2 DEF DataAt, IsData
<1>6. r \in [DataAt(d)' -> DataAt(d)] /\ \A k \in DataAt(d)' : r[k] = k + 1
  BY <1>4
<1> HIDE DEF r
<1>7. \A j, k \in DataAt(d)' : link'[d][k] = link[d][r[k]] /\ (r[j] <= r[k] <=> j <= k)
  BY <1>4, <1>6
<1>8. \A i \in DataAt(d) : \E k \in DataAt(d)' : r[k] = i
  <2> SUFFICES ASSUME NEW i \in DataAt(d) PROVE r[i - 1] = i /\ i - 1 \in DataAt(d)'
    OBVIOUS
  <2> QED
    BY <1>5, <1>6
<1> QED
  BY <1>6, <1>7, <1>8 DEF Same

\* On a lossless segment data frames come and go only by these two.
LEMMA LosslessStep ==
  ASSUME TypeOK, Lossless, NoProbes, NEW b \in Bridges, NEW d \in Bridges,
         Loop(b) \/ ProbeAgain(b) \/ Lose(b)
  PROVE  /\ ~ProbeBus(b) /\ ~ProbeWire(b) /\ ~ProbeAgain(b) /\ ~Lose(b)
         /\ \/ Same(d) /\ ~(RecvData(b) /\ b = d) /\ ~(SendFrag(b) /\ b # d)
            \/ RecvData(d) /\ b = d
            \/ SendFrag(b) /\ b # d /\ Arrives(d, FragFrame(b))
<1>1. ~ProbeBus(b) /\ ~ProbeWire(b) /\ ~ProbeAgain(b) /\ ~Lose(b)
  BY DEF Lossless, NoProbes, ProbeBus, ProbeWire, ProbeAgain, Lose
<1>2. CASE SendFrag(b)
  <2>1. Send(b, FragFrame(b)) /\ FragFrame(b) \in DataFrames
    <3>1. (tx[b].idx + 1 = Len(tx[b].pay)) \in BOOLEAN /\ pc[b] = "send"
      BY <1>2 DEF SendFrag
    <3>2. FragFrame(b) \in DataFrames
      BY <3>1, FragmentOut DEF FragFrame
    <3> QED
      BY <1>2, <3>2 DEF SendFrag, FragFrame
  <2>2. link'[b] = link[b] /\ \A c \in Bridges \ {b} : link'[c] = Append(link[c], FragFrame(b))
    BY <2>1, Sent DEF Frames
  <2>3. CASE b = d
    <3>1. pc[b] # "recv"
      BY <1>2 DEF SendFrag
    <3>2. Same(d)
      BY <2>2, <2>3, LinkSame
    <3> QED
      BY <1>1, <2>3, <3>1, <3>2 DEF RecvData
  <2>4. CASE b # d
    BY <1>1, <1>2, <2>1, <2>2, <2>4, DataArrives
  <2> QED
    BY <2>3, <2>4
<1>3. CASE RecvData(b)
  <2>1. b # d => link'[d] = link[d]
    BY <1>3 DEF RecvData, TypeOK
  <2>2. ~SendFrag(b)
    BY <1>3 DEF RecvData, SendFrag
  <2> QED
    BY <1>1, <1>3, <2>1, <2>2, LinkSame
<1>4. CASE RecvAck(b)
  <2>1. b # d => link'[d] = link[d]
    BY <1>4 DEF RecvAck, TypeOK
  <2>2. Same(d)
    BY <1>4, <2>1, LinkSame, AckOffSame
  <2>3. ~SendFrag(b) /\ ~RecvData(b)
    BY <1>4 DEF RecvData, RecvAck, SendFrag
  <2> QED
    BY <1>1, <2>2, <2>3
<1>5. CASE Ack(b)
  <2>1. AckFrame(rx[b]) \in AckFrames /\ Send(b, AckFrame(rx[b]))
    BY <1>5 DEF Ack, AckFrame, AckFrames, TypeOK
  <2>2. link'[b] = link[b] /\ (d # b => link'[d] = Append(link[d], AckFrame(rx[b])))
    BY <2>1, Sent DEF Frames
  <2>3. Same(d)
    BY <2>1, <2>2, LinkSame, AckSame
  <2>4. ~SendFrag(b) /\ ~RecvData(b)
    BY <1>5 DEF RecvData, Ack, SendFrag
  <2> QED
    BY <1>1, <2>3, <2>4
<1>6. CASE ~(SendFrag(b) \/ RecvData(b) \/ RecvAck(b) \/ Ack(b))
  <2>1. link' = link
    BY <1>1, <1>6 DEF Loop, Take, TakeNone, RecvNone, PublishIn
  <2> QED
    BY <1>1, <1>6, <2>1, LinkSame
<1> QED
  BY <1>2, <1>3, <1>4, <1>5, <1>6

\* The types the positions are made of.
LEMMA SenderTypes ==
  ASSUME TypeOK, NEW a \in Bridges
  PROVE  /\ cur[a] \in Nat /\ Len(bus[a]) \in Nat /\ cur[a] <= Len(bus[a])
         /\ DOMAIN bus[a] = 1..Len(bus[a]) /\ tx[a].idx \in Nat /\ tx[a].id \in Nat
         /\ SendMsg(a) \in Nat /\ SendIdx(a) \in Nat
         /\ \A n \in 1..Len(bus[a]) : /\ bus[a][n] \in Payloads
                                      /\ Len(bus[a][n]) \in Nat \ {0}
                                      /\ DOMAIN bus[a][n] = 1..Len(bus[a][n])
<1>1. cur[a] \in Nat /\ bus[a] \in Seq(Payloads) /\ cur[a] <= Len(bus[a])
      /\ tx[a] \in [pay : Seq(Fragments), nth : Nat, id : Nat, idx : Nat]
  BY DEF TypeOK
<1>2. Len(bus[a]) \in Nat /\ DOMAIN bus[a] = 1..Len(bus[a])
      /\ \A n \in 1..Len(bus[a]) : bus[a][n] \in Payloads
  BY <1>1
<1>3. \A p \in Payloads : Len(p) \in Nat \ {0} /\ DOMAIN p = 1..Len(p)
  BY DEF Payloads
<1> QED
  BY <1>1, <1>2, <1>3 DEF SendMsg, SendIdx

LEMMA ReceiverTypes ==
  ASSUME TypeOK, NEW d \in Bridges
  PROVE  /\ Len(bridged[d]) \in Nat /\ DOMAIN bridged[d] = 1..Len(bridged[d])
         /\ Len(reasm_buf[d]) \in Nat /\ reasm_buf[d] \in Seq(Fragments)
         /\ RecvMsg(d) \in Nat \ {0} /\ RecvIdx(d) \in Nat
         /\ \A k \in DataAt(d) : /\ k \in Nat \ {0} /\ link[d][k] \in DataFrames
                                 /\ link[d][k].nth \in Nat /\ link[d][k].idx \in Nat
                                 /\ link[d][k].id \in Nat
<1>1. /\ bridged[d] \in Seq(Payloads) /\ reasm_buf[d] \in Seq(Fragments)
      /\ link[d] \in Seq(Frames)
  BY DEF TypeOK, Frames
<1>2. /\ Len(bridged[d]) \in Nat /\ DOMAIN bridged[d] = 1..Len(bridged[d])
      /\ Len(reasm_buf[d]) \in Nat
  BY <1>1
<1>3. RecvMsg(d) \in Nat \ {0} /\ RecvIdx(d) \in Nat
  <2>1. (IF pc[d] = "publish" THEN 2 ELSE 1) \in {1, 2}
    OBVIOUS
  <2>2. \A x \in {1, 2} : Len(bridged[d]) + x \in Nat \ {0}
    BY <1>2
  <2>3. RecvMsg(d) \in Nat \ {0}
    BY <2>1, <2>2 DEF RecvMsg
  <2> QED
    BY <1>2, <2>3 DEF RecvIdx
<1>4. ASSUME NEW k \in DataAt(d)
      PROVE  k \in Nat \ {0} /\ link[d][k] \in DataFrames
  <2>1. k \in 1..Len(link[d]) /\ link[d][k].chan = 0
    BY <1>1, <1>4 DEF DataAt, IsData
  <2>2. link[d][k] \in Frames /\ k \in Nat \ {0}
    BY <1>1, <2>1
  <2>3. link[d][k] \notin AckFrames
    BY <2>1 DEF AckFrames
  <2> QED
    BY <2>2, <2>3 DEF Frames
<1>5. \A f \in DataFrames : f.nth \in Nat /\ f.idx \in Nat /\ f.id \in Nat
  BY DEF DataFrames
<1> QED
  BY <1>1, <1>2, <1>3, <1>4, <1>5

LEMMA Ahead ==
  ASSUME TypeOK, NEW a \in Bridges, NEW n \in Nat, NEW i \in Nat,
         Before(n, i, SendMsg(a), SendIdx(a))
  PROVE  n <= cur[a] /\ n <= Len(bus[a])
BY SenderTypes DEF Before, SendMsg, SendIdx

\* A bus only grows, at its end.
Grown(a) ==
  /\ \A k \in DOMAIN bus[a] : k \in DOMAIN bus'[a] /\ bus'[a][k] = bus[a][k]
  /\ \A k \in DOMAIN bus'[a] : k \in DOMAIN bus[a] \/ k = Len(bus[a]) + 1

LEMMA PutGrows ==
  ASSUME TypeOK, NEW b \in Bridges, NEW p \in Payloads, Put(b, p)
  PROVE  \A a \in Bridges : Grown(a)
<1>1. bus'[b] = Append(bus[b], p) /\ \A a \in Bridges \ {b} : bus'[a] = bus[a]
  BY Placed
<1>2. /\ DOMAIN bus[b] = 1..Len(bus[b]) /\ Len(bus[b]) \in Nat
      /\ DOMAIN bus'[b] = 1..Len(bus[b])+1
      /\ \A k \in 1..Len(bus[b]) : bus'[b][k] = bus[b][k]
  <2>1. bus[b] \in Seq(Payloads)
    BY DEF TypeOK
  <2> QED
    BY <1>1, <2>1, Appended
<1>3. Grown(b)
  BY <1>2 DEF Grown
<1>4. \A a \in Bridges \ {b} : Grown(a)
  BY <1>1 DEF Grown
<1> QED
  BY <1>3, <1>4

LEMMA FrameKept ==
  ASSUME NEW a \in Bridges, NEW f, Grown(a), FrameOf(a, f)
  PROVE  FrameOf(a, f)'
BY DEF Grown, FrameOf

LEMMA Positions ==
  ASSUME TypeOK', NEW d \in Bridges PROVE DataAt(d)' \subseteq Nat
<1>1. link'[d] \in Seq(Frames)
  BY DEF TypeOK, Frames
<1>2. DOMAIN link'[d] \subseteq Nat
  BY <1>1
<1> QED
  BY <1>2 DEF DataAt

LEMMA StreamQuiet ==
  ASSUME TypeOK, TypeOK', NEW a \in Bridges, NEW d \in Bridges, Streamed(a, d), Grown(a), Same(d),
         SendMsg(a)' = SendMsg(a), SendIdx(a)' = SendIdx(a),
         RecvMsg(d)' = RecvMsg(d), RecvIdx(d)' = RecvIdx(d)
  PROVE  Streamed(a, d)'
<1>1. \A n, i : InFlight(a, d, n, i)' <=> InFlight(a, d, n, i)
  BY DEF InFlight
<1>2. PICK r \in [DataAt(d)' -> DataAt(d)] :
        /\ \A j, k \in DataAt(d)' : link'[d][k] = link[d][r[k]] /\ (r[j] <= r[k] <=> j <= k)
        /\ \A i \in DataAt(d) : \E k \in DataAt(d)' : r[k] = i
  BY DEF Same
<1>3. \A k \in DataAt(d) : k \in Nat
  BY ReceiverTypes
<1>4. ASSUME NEW k \in DataAt(d)'
      PROVE  /\ FrameOf(a, link[d][k])' /\ InFlight(a, d, link[d][k].nth, link[d][k].idx)'
             /\ \A j \in DataAt(d)' : j < k =>
                  Before(link'[d][j].nth, link'[d][j].idx, link'[d][k].nth, link'[d][k].idx)
  <2>1. r[k] \in DataAt(d) /\ link'[d][k] = link[d][r[k]]
    BY <1>2
  <2>2. FrameOf(a, link[d][r[k]]) /\ InFlight(a, d, link[d][r[k]].nth, link[d][r[k]].idx)
    BY <2>1 DEF Streamed
  <2>3. FrameOf(a, link'[d][k]) /\ InFlight(a, d, link'[d][k].nth, link'[d][k].idx)
    BY <2>1, <2>2
  <2>4. FrameOf(a, link[d][k])'
    BY <2>3 DEF FrameOf, Grown
  <2>5. InFlight(a, d, link[d][k].nth, link[d][k].idx)'
    BY <2>3 DEF InFlight
  <2>6. ASSUME NEW j \in DataAt(d)', j < k
        PROVE  Before(link'[d][j].nth, link'[d][j].idx, link'[d][k].nth, link'[d][k].idx)
    <3>1. r[j] \in DataAt(d) /\ link'[d][j] = link[d][r[j]] /\ ~(r[k] <= r[j])
      <4>1. j \in Nat /\ k \in Nat
        BY Positions
      <4> QED
        BY <1>2, <2>6, <4>1
    <3>2. r[j] < r[k]
      BY <1>3, <2>1, <3>1
    <3> QED
      BY <2>1, <3>1, <3>2 DEF Streamed
  <2> QED
    BY <2>4, <2>5, <2>6
<1>5. ASSUME NEW n \in DOMAIN bus'[a], NEW i \in 0..Len(bus'[a][n])-1, InFlight(a, d, n, i)'
      PROVE  \E k \in DataAt(d)' : link'[d][k].nth = n /\ link'[d][k].idx = i
  <2>1. InFlight(a, d, n, i) /\ i \in Nat
    BY <1>1, <1>5
  <2>2. n \in DOMAIN bus[a] /\ bus'[a][n] = bus[a][n]
    <3>1. n \in DOMAIN bus[a] \/ n = Len(bus[a]) + 1
      BY DEF Grown
    <3>2. n # Len(bus[a]) + 1
      <4>1. Len(bus[a]) + 1 \in Nat /\ ~(Len(bus[a]) + 1 <= Len(bus[a]))
        BY SenderTypes
      <4> QED
        BY <2>1, <4>1, Ahead DEF InFlight
    <3> QED
      BY <3>1, <3>2 DEF Grown
  <2>3. PICK j \in DataAt(d) : link[d][j].nth = n /\ link[d][j].idx = i
    BY <1>5, <2>1, <2>2 DEF Streamed
  <2> QED
    BY <1>2, <2>3
<1>6. ~Before(SendMsg(a), SendIdx(a), RecvMsg(d), RecvIdx(d))'
  BY DEF Streamed, Before
<1> QED
  BY <1>4, <1>5, <1>6 DEF Streamed

\* The frame at the head is the one that continues the buffer.
LEMMA HeadFrame ==
  ASSUME TypeOK, AllFit, NEW a \in Bridges, NEW d \in Bridges, a # d,
         Streamed(a, d), Received(a, d), RecvData(d)
  PROVE  LET f == link[d][1]
             n == Len(bridged[d]) + 1
             l == Len(reasm_buf[d])
         IN  /\ 1 \in DataAt(d) /\ pc[d] = "recv" /\ RecvMsg(d) = n /\ RecvIdx(d) = l
             /\ f.nth = n /\ f.idx = l /\ n \in DOMAIN bus[a] /\ n <= cur[a]
             /\ l + 1 <= Len(bus[a][n]) /\ f.frag = bus[a][n][l + 1]
             /\ f.last \in BOOLEAN /\ (f.last <=> l + 1 = Len(bus[a][n]))
             /\ Before(n, l, SendMsg(a), SendIdx(a))
             /\ l > 0 => f.id = reasm_id[d]
             /\ f.frag \in Fragments /\ reasm_id'[d] = f.id
             /\ reasm_buf'[d] = Append(reasm_buf[d], f.frag)
             /\ reasm_next_idx'[d] = l + 1
             /\ pc'[d] = IF f.last THEN "publish" ELSE "loop"
<1> DEFINE f == link[d][1]
           n == Len(bridged[d]) + 1
           l == Len(reasm_buf[d])
<1>1. 1 \in DataAt(d) /\ pc[d] = "recv" /\ f \in DataFrames
  BY HeadOff, RecvStep
<1>2. /\ RecvMsg(d) = n /\ RecvIdx(d) = l /\ n \in Nat \ {0} /\ l \in Nat
      /\ f.nth \in Nat /\ f.idx \in Nat
  BY <1>1, ReceiverTypes DEF RecvMsg, RecvIdx
<1>3. /\ SendMsg(a) \in Nat /\ SendIdx(a) \in Nat /\ Len(bus[a]) \in Nat
      /\ DOMAIN bus[a] = 1..Len(bus[a])
      /\ \A k \in 1..Len(bus[a]) : /\ Len(bus[a][k]) \in Nat \ {0}
                                   /\ DOMAIN bus[a][k] = 1..Len(bus[a][k])
  BY SenderTypes
<1>4. FrameOf(a, f) /\ InFlight(a, d, f.nth, f.idx)
  BY <1>1 DEF Streamed
<1> HIDE DEF f
<1>5. ~Before(f.nth, f.idx, n, l) /\ Before(f.nth, f.idx, SendMsg(a), SendIdx(a))
  BY <1>2, <1>4 DEF InFlight
<1>6. f.nth \in 1..Len(bus[a])
  BY <1>3, <1>4 DEF FrameOf
<1>7. Before(n, l, SendMsg(a), SendIdx(a))
  BY <1>2, <1>3, <1>5 DEF Before
<1>8. n <= cur[a] /\ n \in 1..Len(bus[a])
  BY <1>2, <1>3, <1>7, Ahead
<1>9. /\ l < Len(bus[a][n])
      /\ l > 0 => reasm_next_idx[d] = l /\ \A k \in DataAt(d) :
                    link[d][k].nth = n => link[d][k].id = reasm_id[d]
  <2>1. Len(bus[a][n]) \in Nat \ {0}
    BY <1>3, <1>8
  <2>2. l > 0 => /\ l <= Len(bus[a][n]) /\ l # Len(bus[a][n])
                 /\ reasm_next_idx[d] = l
                 /\ \A k \in DataAt(d) : link[d][k].nth = n => link[d][k].id = reasm_id[d]
    BY <1>1 DEF Received
  <2> QED
    BY <1>2, <2>1, <2>2
<1>10. f.nth = n /\ f.idx = l
  <2>1. InFlight(a, d, n, l)
    BY <1>2, <1>7 DEF InFlight, Before
  <2>2. l \in 0..Len(bus[a][n])-1
    <3>1. Len(bus[a][n]) \in Nat
      BY <1>3, <1>8
    <3> QED
      BY <1>2, <1>9, <3>1
  <2>3. PICK k \in DataAt(d) : link[d][k].nth = n /\ link[d][k].idx = l
    <3>1. \A p \in DOMAIN bus[a] : \A i \in 0..Len(bus[a][p])-1 : InFlight(a, d, p, i) =>
            \E k \in DataAt(d) : link[d][k].nth = p /\ link[d][k].idx = i
      BY DEF Streamed
    <3> HIDE DEF n, l
    <3>2. n \in DOMAIN bus[a]
      BY <1>3, <1>8
    <3> QED
      BY <2>1, <2>2, <3>1, <3>2
  <2>4. k = 1 \/ 1 < k
    BY ReceiverTypes
  <2>5. 1 < k => Before(f.nth, f.idx, n, l)
    BY <1>1, <2>3 DEF Streamed, f
  <2> QED
    BY <1>5, <2>3, <2>4, <2>5 DEF f
<1>11. /\ f.frag = bus[a][n][l + 1] /\ l + 1 <= Len(bus[a][n])
       /\ f.last \in BOOLEAN /\ (f.last <=> l + 1 = Len(bus[a][n])) /\ f.frag \in Fragments
  <2>1. Len(bus[a][n]) \in Nat
    BY <1>3, <1>8
  <2>2. l + 1 <= Len(bus[a][n])
    BY <1>2, <1>9, <2>1
  <2>3. f.last \in BOOLEAN /\ f.frag \in Fragments
    BY <1>1 DEF f, DataFrames
  <2> QED
    BY <1>4, <1>10, <2>2, <2>3 DEF FrameOf
<1>12. l > 0 => f.id = reasm_id[d] /\ reasm_next_idx[d] = l
  BY <1>1, <1>9, <1>10 DEF f
<1>13. BufAt(d, f) = reasm_buf[d] /\ NextAt(d, f) = l
  <2>1. CASE l = 0
    <3>1. Restarts(d, f)
      BY <1>10, <2>1 DEF Restarts
    <3>2. reasm_buf[d] = <<>>
      BY <2>1, ReceiverTypes
    <3> QED
      BY <2>1, <3>1, <3>2 DEF BufAt, NextAt
  <2>2. CASE l > 0
    <3>1. ~Restarts(d, f)
      BY <1>2, <1>10, <1>12, <2>2 DEF Restarts
    <3> QED
      BY <1>12, <2>2, <3>1 DEF BufAt, NextAt
  <2> QED
    BY <1>2, <2>1, <2>2
<1>14. FitsNext(d, f, NextAt(d, f)) /\ l < MaxFrame
  <2>1. Len(bus[a][n]) <= MaxFrame /\ Len(bus[a][n]) \in Nat /\ MaxFrame \in Nat
    BY <1>3, <1>8, SizeAssumption DEF AllFit
  <2>2. l < MaxFrame
    BY <1>2, <1>9, <2>1
  <2> QED
    BY <1>10, <1>13, <2>2 DEF FitsNext
<1>15. /\ reasm_id'[d] = f.id /\ reasm_buf'[d] = Append(reasm_buf[d], f.frag)
       /\ reasm_next_idx'[d] = l + 1
       /\ pc'[d] = IF f.last THEN "publish" ELSE "loop"
  <2>1. ~(l >= MaxFrame)
    <3>1. MaxFrame \in Nat
      BY SizeAssumption
    <3> QED
      BY <1>2, <1>14, <3>1
  <2> HIDE DEF l
  <2>2. /\ reasm_id'[d] = f.id
        /\ \/ l >= MaxFrame
           \/ /\ reasm_buf'[d] = Append(reasm_buf[d], f.frag) /\ reasm_next_idx'[d] = l + 1
              /\ pc'[d] = IF f.last THEN "publish" ELSE "loop"
    BY <1>13, <1>14, RecvStep DEF f, l
  <2> QED
    BY <2>1, <2>2
<1> QED
  BY <1>1, <1>2, <1>3, <1>7, <1>8, <1>10, <1>11, <1>12, <1>15 DEF f

\* Receiving it moves the next position on by one.
LEMMA StreamRecv ==
  ASSUME TypeOK, TypeOK', AllFit, NEW a \in Bridges, NEW d \in Bridges, a # d,
         Streamed(a, d), OneId(a, d), Received(a, d), RecvData(d)
  PROVE  Streamed(a, d)'
<1> DEFINE f == link[d][1]
           n == Len(bridged[d]) + 1
           l == Len(reasm_buf[d])
           M == Len(bus[a][n])
<1>1. /\ 1 \in DataAt(d) /\ pc[d] = "recv" /\ RecvMsg(d) = n /\ RecvIdx(d) = l
      /\ f.nth = n /\ f.idx = l /\ n \in DOMAIN bus[a]
      /\ l + 1 <= M
      /\ f.last \in BOOLEAN /\ (f.last <=> l + 1 = M)
      /\ Before(n, l, SendMsg(a), SendIdx(a))
      /\ f.frag \in Fragments
      /\ reasm_buf'[d] = Append(reasm_buf[d], f.frag)
      /\ pc'[d] = IF f.last THEN "publish" ELSE "loop"
  BY HeadFrame
<1>2. /\ n \in Nat \ {0} /\ l \in Nat /\ M \in Nat \ {0} /\ SendMsg(a) \in Nat
      /\ SendIdx(a) \in Nat /\ Len(bridged[d]) \in Nat
  BY <1>1, SenderTypes, ReceiverTypes
<1>3. UNCHANGED <<bus, bridged, cur, tx>> /\ pc'[a] = pc[a]
  BY RecvStep DEF RecvData
<1>4. SendMsg(a)' = SendMsg(a) /\ SendIdx(a)' = SendIdx(a)
  BY <1>3 DEF SendMsg, SendIdx
<1>5. /\ \A k \in DataAt(d)' : /\ k \in Nat \ {0} /\ k + 1 \in DataAt(d)
                               /\ link'[d][k] = link[d][k + 1]
      /\ \A k \in DataAt(d) : k = 1 \/ (k - 1 \in DataAt(d)' /\ k \in Nat \ {0})
  BY HeadOff
<1>6. \/ l + 1 < M /\ RecvMsg(d)' = n /\ RecvIdx(d)' = l + 1
      \/ l + 1 = M /\ RecvMsg(d)' = n + 1 /\ RecvIdx(d)' = 0
  <2>1. Len(reasm_buf'[d]) = l + 1
    BY <1>1, ReceiverTypes, Appended
  <2>2. CASE f.last
    BY <1>1, <1>2, <1>3, <2>2 DEF RecvMsg, RecvIdx
  <2>3. CASE ~f.last
    <3> HIDE DEF l, M
    <3>1. pc'[d] = "loop" /\ l + 1 < M
      BY <1>1, <1>2, <2>3
    <3> QED
      BY <1>1, <1>3, <2>1, <3>1 DEF RecvMsg, RecvIdx
  <2> QED
    BY <2>2, <2>3
<1>7. \A g \in DOMAIN bus[a] : g \in Nat /\ Len(bus[a][g]) \in Nat
  BY SenderTypes
<1> HIDE DEF f, n, l, M
<1>8. \A p, i \in Nat : p \in DOMAIN bus[a] /\ i < Len(bus[a][p]) =>
        (~Before(p, i, RecvMsg(d)', RecvIdx(d)') <=> Before(n, l, p, i))
  <2> SUFFICES ASSUME NEW p \in Nat, NEW i \in Nat, p \in DOMAIN bus[a], i < Len(bus[a][p])
               PROVE  ~Before(p, i, RecvMsg(d)', RecvIdx(d)') <=> Before(n, l, p, i)
    OBVIOUS
  <2>1. p = n => i < M
    BY DEF M
  <2> QED
    BY <1>2, <1>6, <2>1 DEF Before
<1>9. \A p, i \in Nat : p \in DOMAIN bus[a] /\ i < Len(bus[a][p]) =>
        (InFlight(a, d, p, i)' <=> Before(n, l, p, i) /\ Before(p, i, SendMsg(a), SendIdx(a)))
  <2> SUFFICES ASSUME NEW p \in Nat, NEW i \in Nat, p \in DOMAIN bus[a], i < Len(bus[a][p])
               PROVE  InFlight(a, d, p, i)' <=>
                        Before(n, l, p, i) /\ Before(p, i, SendMsg(a), SendIdx(a))
    OBVIOUS
  <2>1. InFlight(a, d, p, i)' <=> /\ ~Before(p, i, RecvMsg(d)', RecvIdx(d)')
                                  /\ Before(p, i, SendMsg(a), SendIdx(a))
    BY <1>4 DEF InFlight
  <2> QED
    BY <1>8, <2>1
<1>10. ASSUME NEW k \in DataAt(d)'
       PROVE  /\ FrameOf(a, link[d][k])' /\ InFlight(a, d, link[d][k].nth, link[d][k].idx)'
              /\ \A j \in DataAt(d)' : j < k =>
                   Before(link'[d][j].nth, link'[d][j].idx, link'[d][k].nth, link'[d][k].idx)
  <2> DEFINE g == link[d][k + 1]
  <2>1. k + 1 \in DataAt(d) /\ link'[d][k] = g /\ k \in Nat \ {0}
    BY <1>5
  <2>2. /\ FrameOf(a, g) /\ InFlight(a, d, g.nth, g.idx)
        /\ \A j \in DataAt(d) : j < k + 1 =>
             Before(link[d][j].nth, link[d][j].idx, g.nth, g.idx)
    BY <2>1 DEF Streamed
  <2>3. g.nth \in Nat /\ g.idx \in Nat
    BY <2>1, ReceiverTypes
  <2> HIDE DEF g
  <2>4. g.nth \in DOMAIN bus[a] /\ g.idx < Len(bus[a][g.nth])
    <3>1. g.nth \in DOMAIN bus[a] /\ g.idx + 1 \in DOMAIN bus[a][g.nth]
      BY <2>2 DEF FrameOf
    <3>2. Len(bus[a][g.nth]) \in Nat /\ g.idx + 1 \in 1..Len(bus[a][g.nth])
      BY <3>1, SenderTypes
    <3> QED
      BY <2>3, <3>1, <3>2
  <2>5. FrameOf(a, link[d][k])'
    BY <1>3, <2>1, <2>2 DEF FrameOf
  <2>6. Before(n, l, g.nth, g.idx)
    <3>1. 1 < k + 1
      BY <2>1
    <3> QED
      BY <1>1, <2>2, <3>1 DEF f
  <2>7. InFlight(a, d, link[d][k].nth, link[d][k].idx)'
    <3>1. Before(g.nth, g.idx, SendMsg(a), SendIdx(a))
      BY <2>2 DEF InFlight
    <3>2. InFlight(a, d, link[d][k].nth, link[d][k].idx)' <=>
            /\ ~Before(g.nth, g.idx, RecvMsg(d)', RecvIdx(d)')
            /\ Before(g.nth, g.idx, SendMsg(a), SendIdx(a))
      BY <1>4, <2>1 DEF InFlight
    <3> QED
      BY <1>8, <2>3, <2>4, <2>6, <3>1, <3>2
  <2>8. ASSUME NEW j \in DataAt(d)', j < k
        PROVE  Before(link'[d][j].nth, link'[d][j].idx, g.nth, g.idx)
    <3>1. j + 1 \in DataAt(d) /\ link'[d][j] = link[d][j + 1] /\ j + 1 < k + 1
      BY <1>5, <2>1, <2>8
    <3> QED
      BY <2>2, <3>1
  <2> QED
    BY <2>1, <2>5, <2>7, <2>8
<1>11. ASSUME NEW p \in DOMAIN bus'[a], NEW i \in 0..Len(bus'[a][p])-1, InFlight(a, d, p, i)'
       PROVE  \E k \in DataAt(d)' : link'[d][k].nth = p /\ link'[d][k].idx = i
  <2>1. /\ p \in DOMAIN bus[a] /\ p \in Nat /\ i \in Nat /\ i < Len(bus[a][p])
        /\ i \in 0..Len(bus[a][p])-1
    BY <1>3, <1>7, <1>11
  <2>2. Before(n, l, p, i) /\ Before(p, i, SendMsg(a), SendIdx(a))
    BY <1>9, <1>11, <2>1
  <2>3. InFlight(a, d, p, i)
    BY <1>1, <1>2, <2>1, <2>2 DEF InFlight, Before
  <2>4. PICK k \in DataAt(d) : link[d][k].nth = p /\ link[d][k].idx = i
    BY <2>1, <2>3 DEF Streamed
  <2>5. k # 1
    BY <1>1, <1>2, <2>1, <2>2, <2>4 DEF Before, f
  <2>6. k - 1 \in DataAt(d)' /\ link'[d][k - 1] = link[d][k]
    <3>1. k - 1 \in DataAt(d)' /\ k \in Nat \ {0}
      BY <1>5, <2>5
    <3>2. (k - 1) + 1 = k
      BY <3>1
    <3> QED
      BY <1>5, <3>1, <3>2
  <2> QED
    BY <2>4, <2>6
<1>12. ~Before(SendMsg(a), SendIdx(a), RecvMsg(d), RecvIdx(d))'
  <2>1. CASE l + 1 < M /\ RecvMsg(d)' = n /\ RecvIdx(d)' = l + 1
    BY <1>1, <1>2, <1>4, <2>1 DEF Before
  <2>2. CASE l + 1 = M /\ RecvMsg(d)' = n + 1 /\ RecvIdx(d)' = 0
    <3>1. n = SendMsg(a) => pc[a] # "send"
      <4> SUFFICES ASSUME n = SendMsg(a), pc[a] = "send" PROVE FALSE
        OBVIOUS
      <4>1. tx[a].pay = bus[a][n] /\ l < tx[a].idx /\ tx[a].idx < Len(tx[a].pay)
        BY <1>1, <1>2 DEF OneId, SendMsg, SendIdx, TypeOK, Before
      <4>2. tx[a].idx \in Nat /\ Len(tx[a].pay) = l + 1
        BY <2>2, <4>1, SenderTypes DEF M
      <4> QED
        BY <1>2, <4>1, <4>2
    <3>2. n < SendMsg(a)
      BY <1>1, <1>2, <3>1 DEF Before, SendMsg, SendIdx
    <3> QED
      BY <1>2, <1>4, <2>2, <3>2 DEF Before
  <2> QED
    BY <1>6, <2>1, <2>2
<1> QED
  BY <1>10, <1>11, <1>12 DEF Streamed

\* Sending a fragment moves the next position to send on by one.
LEMMA StreamSend ==
  ASSUME TypeOK, TypeOK', NEW a \in Bridges, NEW d \in Bridges, a # d,
         Streamed(a, d), OneId(a, d), SendFrag(a), Arrives(d, FragFrame(a))
  PROVE  Streamed(a, d)'
<1> DEFINE t == tx[a]
           n == cur[a]
           i == t.idx
           M == Len(bus[a][n])
           f == FragFrame(a)
           e == Len(link[d]) + 1
<1>1. /\ pc[a] = "send" /\ pc' \in [Bridges -> Pcs]
      /\ pc'[d] = pc[d]
      /\ i + 1 = Len(t.pay) => pc'[a] = "recv"
      /\ i + 1 # Len(t.pay) => /\ pc'[a] = "send" /\ i + 1 < Len(t.pay)
                               /\ tx'[a].idx = i + 1
  BY SendStep
<1>2. UNCHANGED <<bus, bridged, cur, reasm_buf>>
  BY DEF SendFrag, reassembly
<1>3. n > 0 /\ t.nth = n /\ t.pay = bus[a][n]
  BY <1>1 DEF OneId
<1>4. /\ n \in Nat /\ i \in Nat /\ n \in DOMAIN bus[a] /\ M \in Nat \ {0}
      /\ DOMAIN bus[a][n] = 1..M /\ i + 1 \in 1..M
      /\ DOMAIN bus[a] \subseteq Nat
  <2>1. n \in Nat /\ i \in Nat /\ DOMAIN bus[a] = 1..Len(bus[a]) /\ n \in 1..Len(bus[a])
        /\ Len(bus[a]) \in Nat
    BY <1>3, SenderTypes
  <2>2. M \in Nat \ {0} /\ DOMAIN bus[a][n] = 1..M
    BY <2>1, SenderTypes
  <2>3. i + 1 \in 1..M
    BY <1>1, <1>3, FragmentOut
  <2> QED
    BY <2>1, <2>2, <2>3
<1>5. /\ f.nth = n /\ f.idx = i /\ f.frag = bus[a][n][i + 1]
      /\ f.last <=> i + 1 = M
  BY <1>3 DEF FragFrame, DataFrame
<1>6. /\ DataAt(d)' = DataAt(d) \cup {e} /\ link'[d][e] = f
      /\ \A k \in DataAt(d) : k < e /\ link'[d][k] = link[d][k]
  BY DEF Arrives
<1>7. SendMsg(a) = n /\ SendIdx(a) = i
  BY <1>1 DEF SendMsg, SendIdx
<1>8. \/ i + 1 < M /\ SendMsg(a)' = n /\ SendIdx(a)' = i + 1
      \/ i + 1 = M /\ SendMsg(a)' = n + 1 /\ SendIdx(a)' = 0
  <2>1. CASE i + 1 = M
    BY <1>1, <1>2, <1>3, <2>1 DEF SendMsg, SendIdx
  <2>2. CASE i + 1 # M
    BY <1>1, <1>2, <1>3, <2>2 DEF SendMsg, SendIdx
  <2> QED
    BY <2>1, <2>2
<1>9. /\ RecvMsg(d)' = RecvMsg(d) /\ RecvIdx(d)' = RecvIdx(d)
      /\ RecvMsg(d) \in Nat /\ RecvIdx(d) \in Nat
  BY <1>1, <1>2, ReceiverTypes DEF RecvMsg, RecvIdx
<1>10. e \in Nat /\ \A k \in DataAt(d) : /\ k \in Nat /\ link[d][k].nth \in Nat
                                         /\ link[d][k].idx \in Nat
  <2>1. link[d] \in Seq(Frames)
    BY DEF TypeOK, Frames
  <2> QED
    BY <2>1, ReceiverTypes
<1>11. ~Before(n, i, RecvMsg(d), RecvIdx(d))
  BY <1>7 DEF Streamed
<1>12. \A g \in DOMAIN bus[a] : Len(bus[a][g]) \in Nat
  BY SenderTypes
<1> HIDE DEF n, i, M, f, e
<1>13. \A p, j \in Nat : p \in DOMAIN bus[a] /\ j < Len(bus[a][p]) =>
         (Before(p, j, SendMsg(a)', SendIdx(a)') <=> Before(p, j, n, i) \/ (p = n /\ j = i))
  <2> SUFFICES ASSUME NEW p \in Nat, NEW j \in Nat, p \in DOMAIN bus[a], j < Len(bus[a][p])
               PROVE  Before(p, j, SendMsg(a)', SendIdx(a)') <=>
                        Before(p, j, n, i) \/ (p = n /\ j = i)
    OBVIOUS
  <2>1. p = n => j < M
    BY DEF M
  <2> QED
    BY <1>4, <1>8, <2>1 DEF Before
<1>14. \A p, j : InFlight(a, d, p, j)' <=>
         ~Before(p, j, RecvMsg(d), RecvIdx(d)) /\ Before(p, j, SendMsg(a)', SendIdx(a)')
  BY <1>9 DEF InFlight
<1>15. \A p, j : InFlight(a, d, p, j) <=>
         ~Before(p, j, RecvMsg(d), RecvIdx(d)) /\ Before(p, j, n, i)
  BY <1>7 DEF InFlight
<1>16. ASSUME NEW k \in DataAt(d)
       PROVE  /\ FrameOf(a, link[d][k])' /\ InFlight(a, d, link[d][k].nth, link[d][k].idx)'
              /\ Before(link'[d][k].nth, link'[d][k].idx, n, i)
              /\ \A j \in DataAt(d)' : j < k =>
                   Before(link'[d][j].nth, link'[d][j].idx, link'[d][k].nth, link'[d][k].idx)
  <2>1. /\ FrameOf(a, link[d][k]) /\ InFlight(a, d, link[d][k].nth, link[d][k].idx)
        /\ \A j \in DataAt(d) : j < k =>
             Before(link[d][j].nth, link[d][j].idx, link[d][k].nth, link[d][k].idx)
    BY <1>16 DEF Streamed
  <2>2. link'[d][k] = link[d][k] /\ k < e
    BY <1>6, <1>16
  <2>3. FrameOf(a, link[d][k])'
    BY <1>2, <2>1, <2>2 DEF FrameOf
  <2>4. /\ link[d][k].nth \in DOMAIN bus[a] /\ link[d][k].idx < Len(bus[a][link[d][k].nth])
        /\ link[d][k].nth \in Nat /\ link[d][k].idx \in Nat
    <3>1. link[d][k].nth \in DOMAIN bus[a] /\ link[d][k].idx + 1 \in DOMAIN bus[a][link[d][k].nth]
      BY <2>1 DEF FrameOf
    <3>2. /\ Len(bus[a][link[d][k].nth]) \in Nat
          /\ link[d][k].idx + 1 \in 1..Len(bus[a][link[d][k].nth])
      BY <3>1, SenderTypes
    <3> QED
      BY <1>10, <1>16, <3>1, <3>2
  <2>5. InFlight(a, d, link[d][k].nth, link[d][k].idx)'
    <3>1. Before(link[d][k].nth, link[d][k].idx, SendMsg(a)', SendIdx(a)')
      BY <1>13, <1>15, <2>1, <2>4
    <3>2. ~Before(link[d][k].nth, link[d][k].idx, RecvMsg(d), RecvIdx(d))
      BY <1>15, <2>1
    <3> QED
      BY <1>9, <2>2, <3>1, <3>2 DEF InFlight
  <2>6. Before(link'[d][k].nth, link'[d][k].idx, n, i)
    BY <1>15, <2>1, <2>2
  <2>7. ASSUME NEW j \in DataAt(d)', j < k
        PROVE  Before(link'[d][j].nth, link'[d][j].idx, link'[d][k].nth, link'[d][k].idx)
    <3>1. j \in DataAt(d) /\ link'[d][j] = link[d][j]
      BY <1>6, <1>10, <1>16, <2>2, <2>7
    <3> QED
      BY <2>1, <2>2, <2>7, <3>1
  <2> QED
    BY <2>3, <2>5, <2>6, <2>7
<1>17. ASSUME NEW k \in DataAt(d)', k = e
       PROVE  /\ FrameOf(a, link[d][k])' /\ InFlight(a, d, link[d][k].nth, link[d][k].idx)'
              /\ \A j \in DataAt(d)' : j < k =>
                   Before(link'[d][j].nth, link'[d][j].idx, link'[d][k].nth, link'[d][k].idx)
  <2> DEFINE g == link'[d][k]
  <2>1. g = f /\ g.nth = n /\ g.idx = i
    BY <1>5, <1>6, <1>17
  <2>2. /\ g.nth \in DOMAIN bus'[a] /\ g.idx + 1 \in DOMAIN bus'[a][g.nth]
        /\ g.frag = bus'[a][g.nth][g.idx + 1]
        /\ g.last <=> (g.idx + 1 = Len(bus'[a][g.nth]))
    BY <1>2, <1>4, <1>5, <2>1 DEF M
  <2>3. i < Len(bus[a][n])
    BY <1>4 DEF M
  <2>4. ~Before(g.nth, g.idx, RecvMsg(d)', RecvIdx(d)') /\ Before(g.nth, g.idx, SendMsg(a)', SendIdx(a)')
    BY <1>4, <1>9, <1>11, <1>13, <2>1, <2>3
  <2>5. \A j \in DataAt(d)' : j < k => Before(link'[d][j].nth, link'[d][j].idx, n, i)
    BY <1>6, <1>10, <1>16, <1>17
  <2> QED
    BY <2>1, <2>2, <2>4, <2>5 DEF FrameOf, InFlight
<1>18. ASSUME NEW p \in DOMAIN bus'[a], NEW j \in 0..Len(bus'[a][p])-1, InFlight(a, d, p, j)'
       PROVE  \E k \in DataAt(d)' : link'[d][k].nth = p /\ link'[d][k].idx = j
  <2>1. /\ p \in DOMAIN bus[a] /\ p \in Nat /\ j \in Nat /\ j < Len(bus[a][p])
        /\ j \in 0..Len(bus[a][p])-1
    BY <1>2, <1>4, <1>12, <1>18
  <2>2. CASE p = n /\ j = i
    BY <1>5, <1>6, <2>2
  <2>3. CASE Before(p, j, n, i)
    <3>1. InFlight(a, d, p, j)
      BY <1>14, <1>15, <1>18, <2>3
    <3>2. PICK k \in DataAt(d) : link[d][k].nth = p /\ link[d][k].idx = j
      BY <2>1, <3>1 DEF Streamed
    <3> QED
      BY <1>6, <3>2
  <2> QED
    BY <1>13, <1>14, <1>18, <2>1, <2>2, <2>3
<1>19. ~Before(SendMsg(a), SendIdx(a), RecvMsg(d), RecvIdx(d))'
  BY <1>4, <1>8, <1>9, <1>11 DEF Before
<1> QED
  BY <1>6, <1>16, <1>17, <1>18, <1>19 DEF Streamed

\* A buffer that is to be published is the next message of the peer's bus.
LEMMA WholeInBuffer ==
  ASSUME TypeOK, AllFit, NEW a \in Bridges, NEW d \in Bridges, Received(a, d),
         pc[d] = "publish"
  PROVE  LET n == Len(bridged[d]) + 1
         IN  /\ n \in DOMAIN bus[a] /\ n <= cur[a] /\ reasm_buf[d] = bus[a][n]
             /\ Len(reasm_buf[d]) <= MaxFrame
<1> DEFINE n == Len(bridged[d]) + 1
           l == Len(reasm_buf[d])
<1>1. n <= cur[a] /\ l = Len(bus[a][n]) /\ \A k \in 1..l : reasm_buf[d][k] = bus[a][n][k]
  BY DEF Received
<1>2. n \in DOMAIN bus[a] /\ bus[a][n] \in Payloads
  <2>1. /\ n \in Nat \ {0} /\ Len(bus[a]) \in Nat /\ cur[a] \in Nat /\ cur[a] <= Len(bus[a])
        /\ DOMAIN bus[a] = 1..Len(bus[a])
    BY SenderTypes, ReceiverTypes
  <2>2. n \in 1..Len(bus[a])
    BY <1>1, <2>1
  <2> QED
    BY <2>1, <2>2, SenderTypes
<1>3. reasm_buf[d] = bus[a][n]
  <2> DEFINE p == reasm_buf[d]
             q == bus[a][n]
  <2>1. p \in Seq(Fragments) /\ q \in Seq(Fragments)
    BY <1>2, ReceiverTypes DEF Payloads
  <2>2. Len(p) = Len(q) /\ \A k \in 1..Len(p) : p[k] = q[k]
    BY <1>1
  <2> HIDE DEF p, q
  <2>3. p = q
    BY <2>1, <2>2, SeqEqual
  <2> QED
    BY <2>3 DEF p, q
<1>4. Len(reasm_buf[d]) <= MaxFrame
  BY <1>2, <1>3 DEF AllFit
<1> QED
  BY <1>1, <1>2, <1>3, <1>4

LEMMA BusGrows ==
  ASSUME TypeOK, NEW b \in Bridges, Loop(b) \/ ProbeAgain(b) \/ Lose(b), ~ProbeBus(b)
  PROVE  \A a \in Bridges : Grown(a)
<1>1. CASE PublishIn(b)
  <2>1. reasm_buf[b] \in Payloads
    BY <1>1 DEF PublishIn, TypeOK, Payloads
  <2> QED
    BY <1>1, <2>1, PutGrows DEF PublishIn
<1>2. CASE ~PublishIn(b)
  <2>1. \A a \in Bridges : bus'[a] = bus[a]
    BY <1>2, OwnStay, OthersStay
  <2> QED
    BY <2>1 DEF Grown
<1> QED
  BY <1>1, <1>2

\* The next position to send changes only when a fragment is sent, and the next to
\* be received only when one is received.
LEMMA SendKept ==
  ASSUME TypeOK, NEW b \in Bridges, Loop(b), ~SendFrag(b)
  PROVE  SendMsg(b)' = SendMsg(b) /\ SendIdx(b)' = SendIdx(b)
<1>1. pc[b] # "send"
  BY DEF Loop, ProbeBus, ProbeWire, Take, TakeNone, RecvNone, RecvData, RecvAck, PublishIn, Ack
<1>2. CASE Take(b)
  <2>1. tx'[b] = [pay |-> bus[b][cur[b] + 1], nth |-> cur[b] + 1,
                  id |-> next_id[b], idx |-> 0]
        /\ cur'[b] = cur[b] + 1 /\ pc' = [pc EXCEPT ![b] = "send"]
    BY <1>2, TakeStep
  <2>2. pc'[b] = "send" /\ tx'[b].idx = 0
    BY <2>1, PcTypes
  <2> QED
    BY <1>1, <2>1, <2>2 DEF SendMsg, SendIdx
<1>3. CASE ~Take(b)
  <2>1. cur'[b] = cur[b] /\ pc'[b] # "send"
    BY <1>1, <1>3, OwnStay
  <2>2. SendMsg(b)' = SendMsg(b)
    BY <1>1, <2>1 DEF SendMsg
  <2>3. SendIdx(b)' = SendIdx(b)
    BY <1>1, <2>1 DEF SendIdx
  <2> QED
    BY <2>2, <2>3
<1> QED
  BY <1>2, <1>3

LEMMA RecvKept ==
  ASSUME TypeOK, AllFit, NEW a \in Bridges, NEW d \in Bridges, Received(a, d),
         Loop(d), ~RecvData(d)
  PROVE  RecvMsg(d)' = RecvMsg(d) /\ RecvIdx(d)' = RecvIdx(d)
<1>1. Len(bridged[d]) \in Nat /\ Len(reasm_buf[d]) \in Nat /\ pc \in [Bridges -> Pcs]
  BY ReceiverTypes, PcTypes
<1>2. CASE PublishIn(d)
  <2>1. pc[d] = "publish" /\ pc'[d] = "ack" /\ bridged'[d] = Append(bridged[d], reasm_buf[d])
    BY <1>1, <1>2 DEF PublishIn, Goto, TypeOK
  <2>2. Len(bridged'[d]) = Len(bridged[d]) + 1
    BY <2>1
  <2> QED
    BY <1>1, <2>1, <2>2 DEF RecvMsg, RecvIdx
<1>3. CASE Ack(d)
  <2>1. /\ pc[d] = "ack" /\ pc'[d] = "loop" /\ bridged'[d] = bridged[d]
        /\ reasm_buf'[d] = <<>>
    BY <1>1, <1>3 DEF Ack, Goto, TypeOK
  <2>2. Len(reasm_buf'[d]) = 0
    BY <2>1
  <2> QED
    BY <2>1, <2>2 DEF RecvMsg, RecvIdx
<1>4. CASE ~PublishIn(d) /\ ~Ack(d)
  <2>1. bridged'[d] = bridged[d] /\ reasm_buf'[d] = reasm_buf[d]
    BY <1>4, OwnStay
  <2>2. pc[d] \notin {"publish", "ack"}
    BY <1>4 DEF Loop, ProbeBus, ProbeWire, Take, TakeNone, SendFrag, RecvNone, RecvData, RecvAck
  <2>3. pc'[d] \notin {"publish", "ack"}
    BY <2>2, OwnStay
  <2> QED
    BY <2>1, <2>2, <2>3 DEF RecvMsg, RecvIdx
<1> QED
  BY <1>2, <1>3, <1>4

LEMMA StreamStep ==
  ASSUME TypeOK, TypeOK', Lossless, NoProbes, AllFit,
         NEW a \in Bridges, NEW d \in Bridges, a # d,
         Streamed(a, d), OneId(a, d), Received(a, d),
         NEW b \in {a, d}, Loop(b) \/ ProbeAgain(b) \/ Lose(b)
  PROVE  Streamed(a, d)'
<1>1. /\ ~ProbeBus(b) /\ ~ProbeWire(b) /\ ~ProbeAgain(b) /\ ~Lose(b)
      /\ \/ Same(d) /\ ~(RecvData(b) /\ b = d) /\ ~(SendFrag(b) /\ b # d)
         \/ RecvData(d) /\ b = d
         \/ SendFrag(b) /\ b # d /\ Arrives(d, FragFrame(b))
  BY LosslessStep
<1>2. CASE RecvData(d) /\ b = d
  BY <1>2, StreamRecv
<1>3. CASE SendFrag(a) /\ b = a
  BY <1>1, <1>3, StreamSend
<1>4. CASE ~(RecvData(d) /\ b = d) /\ ~(SendFrag(a) /\ b = a)
  <2>1. Same(d) /\ Grown(a) /\ Loop(b)
    BY <1>1, <1>4, BusGrows
  <2>2. SendMsg(a)' = SendMsg(a) /\ SendIdx(a)' = SendIdx(a)
    <3>1. CASE b = a
      BY <1>4, <2>1, <3>1, SendKept
    <3>2. CASE b = d
      BY <3>2, OthersStay DEF SendMsg, SendIdx
    <3> QED
      BY <3>1, <3>2
  <2>3. RecvMsg(d)' = RecvMsg(d) /\ RecvIdx(d)' = RecvIdx(d)
    <3>1. CASE b = d
      BY <1>4, <2>1, <3>1, RecvKept
    <3>2. CASE b = a
      BY <3>2, OthersStay DEF RecvMsg, RecvIdx
    <3> QED
      BY <3>1, <3>2
  <2> QED
    BY <2>1, <2>2, <2>3, StreamQuiet
<1> QED
  BY <1>2, <1>3, <1>4

LEMMA OneIdQuiet ==
  ASSUME TypeOK, NEW a \in Bridges, NEW d \in Bridges, OneId(a, d), Grown(a), Thin(d),
         OldSends(a), cur'[a] = cur[a]
  PROVE  OneId(a, d)'
<1>1. PICK r \in [DataAt(d)' -> DataAt(d)] : \A j, k \in DataAt(d)' :
        link'[d][k] = link[d][r[k]] /\ (r[j] <= r[k] <=> j <= k)
  BY DEF Thin
<1>2. \A k \in DataAt(d)' : r[k] \in DataAt(d) /\ link'[d][k] = link[d][r[k]]
  BY <1>1
<1>3. pc'[a] = "send" => pc[a] = "send" /\ tx'[a] = tx[a]
  BY DEF OldSends
<1>4. ASSUME pc'[a] = "send"
      PROVE  cur'[a] > 0 /\ tx'[a].nth = cur'[a] /\ tx'[a].pay = bus'[a][cur'[a]]
  <2>1. cur[a] > 0 /\ tx[a].nth = cur[a] /\ tx[a].pay = bus[a][cur[a]]
    BY <1>3, <1>4 DEF OneId
  <2>2. cur[a] \in DOMAIN bus[a]
    BY <2>1, SenderTypes
  <2> QED
    BY <1>3, <1>4, <2>1, <2>2 DEF Grown
<1>5. ASSUME NEW k \in DataAt(d)'
      PROVE  /\ \A j \in DataAt(d)' :
                  link'[d][j].nth = link'[d][k].nth => link'[d][j].id = link'[d][k].id
             /\ pc'[a] = "send" /\ link'[d][k].nth = cur'[a] => link'[d][k].id = tx'[a].id
  BY <1>2, <1>3 DEF OneId
<1> QED
  BY <1>4, <1>5 DEF OneId

LEMMA OneIdStep ==
  ASSUME TypeOK, TypeOK', Lossless, NoProbes, AllFit,
         NEW a \in Bridges, NEW d \in Bridges, a # d, Streamed(a, d), OneId(a, d),
         NEW b \in {a, d}, Loop(b) \/ ProbeAgain(b) \/ Lose(b)
  PROVE  OneId(a, d)'
<1>1. /\ ~ProbeBus(b) /\ ~ProbeWire(b) /\ ~ProbeAgain(b) /\ ~Lose(b)
      /\ \/ Same(d) /\ ~(RecvData(b) /\ b = d) /\ ~(SendFrag(b) /\ b # d)
         \/ RecvData(d) /\ b = d
         \/ SendFrag(b) /\ b # d /\ Arrives(d, FragFrame(b))
  BY LosslessStep
<1>2. \A k \in DataAt(d) : /\ link[d][k].nth \in Nat /\ link[d][k].nth <= cur[a]
                           /\ k \in Nat
  <2> SUFFICES ASSUME NEW k \in DataAt(d)
               PROVE  link[d][k].nth \in Nat /\ link[d][k].nth <= cur[a] /\ k \in Nat
    OBVIOUS
  <2>1. Before(link[d][k].nth, link[d][k].idx, SendMsg(a), SendIdx(a))
    BY DEF Streamed, InFlight
  <2> QED
    BY <2>1, ReceiverTypes, Ahead
<1>3. CASE Take(a) /\ b = a
  <2>1. tx'[a] = [pay |-> bus[a][cur[a] + 1], nth |-> cur[a] + 1,
                  id |-> next_id[a], idx |-> 0]
        /\ cur'[a] = cur[a] + 1 /\ cur[a] \in Nat
    BY <1>3, TakeStep
  <2>2. tx'[a].pay = bus[a][cur[a] + 1] /\ tx'[a].nth = cur[a] + 1
    BY <2>1
  <2>3. bus' = bus
    BY <1>3 DEF Take
  <2>4. Thin(d)
    <3>1. ~SendFrag(a)
      BY <1>3 DEF Take, SendFrag
    <3> QED
      BY <1>1, <1>3, <3>1, SameThin
  <2>5. \A k \in DataAt(d)' : \E j \in DataAt(d) : link'[d][k] = link[d][j]
    BY <2>4 DEF Thin
  <2>6. \A k \in DataAt(d)' : link'[d][k].nth # cur'[a]
    <3>1. \A j \in DataAt(d) : link[d][j].nth # cur'[a]
      BY <1>2, <2>1
    <3> QED
      BY <2>5, <3>1
  <2>7. \A j, k \in DataAt(d)' :
          link'[d][j].nth = link'[d][k].nth => link'[d][j].id = link'[d][k].id
    BY <2>5 DEF OneId
  <2> QED
    BY <2>1, <2>2, <2>3, <2>6, <2>7 DEF OneId
<1>4. CASE SendFrag(a) /\ b = a
  <2> DEFINE e == Len(link[d]) + 1
             f == FragFrame(a)
  <2>1. /\ DataAt(d)' = DataAt(d) \cup {e} /\ link'[d][e] = f
        /\ \A k \in DataAt(d) : link'[d][k] = link[d][k]
    BY <1>1, <1>4 DEF Arrives
  <2>2. /\ pc[a] = "send"
        /\ pc'[a] = "send" => /\ tx'[a].nth = tx[a].nth /\ tx'[a].pay = tx[a].pay
                              /\ tx'[a].id = tx[a].id
    BY <1>4, SendStep
  <2>3. bus' = bus /\ cur' = cur
    BY <1>4 DEF SendFrag
  <2>4. cur[a] > 0 /\ tx[a].nth = cur[a] /\ tx[a].pay = bus[a][cur[a]]
    BY <2>2 DEF OneId
  <2>5. f.nth = cur[a] /\ f.id = tx[a].id
    BY <2>4 DEF FragFrame, DataFrame
  <2> HIDE DEF e, f
  <2>6. ASSUME NEW k \in DataAt(d)', link'[d][k].nth = cur[a] PROVE link'[d][k].id = tx[a].id
    <3>1. \A j \in DataAt(d) : link[d][j].nth = cur[a] => link[d][j].id = tx[a].id
      BY <2>2 DEF OneId
    <3> QED
      BY <2>1, <2>5, <2>6, <3>1
  <2>7. ASSUME NEW j \in DataAt(d)', NEW k \in DataAt(d)', link'[d][j].nth = link'[d][k].nth
        PROVE  link'[d][j].id = link'[d][k].id
    <3>1. CASE link'[d][j].nth = cur[a]
      BY <2>6, <2>7, <3>1
    <3>2. CASE link'[d][j].nth # cur[a]
      <4>1. j # e /\ k # e
        BY <2>1, <2>5, <2>7, <3>2
      <4> QED
        BY <2>1, <2>7, <4>1 DEF OneId
    <3> QED
      BY <3>1, <3>2
  <2> QED
    BY <2>2, <2>3, <2>4, <2>6, <2>7 DEF OneId
<1>5. CASE ~(b = a /\ (Take(a) \/ SendFrag(a)))
  <2>1. OldSends(a) /\ cur'[a] = cur[a]
    BY <1>5, OwnStay, OthersStay DEF OldSends
  <2>2. Thin(d)
    BY <1>1, <1>5, SameThin, TailThin DEF RecvData
  <2> QED
    BY <1>1, <2>1, <2>2, BusGrows, OneIdQuiet
<1> QED
  BY <1>3, <1>4, <1>5

LEMMA ReceivedQuiet ==
  ASSUME TypeOK, NEW a \in Bridges, NEW d \in Bridges, Received(a, d), Grown(a), Thin(d),
         OldSends(a), cur'[a] = cur[a], (pc'[d] = "publish") <=> (pc[d] = "publish"),
         (pc'[d] = "ack") <=> (pc[d] = "ack"),
         bridged'[d] = bridged[d], reasm_buf'[d] = reasm_buf[d],
         reasm_next_idx'[d] = reasm_next_idx[d], reasm_id'[d] = reasm_id[d]
  PROVE  Received(a, d)'
<1> DEFINE n == Len(bridged[d]) + 1
           l == Len(reasm_buf[d])
<1>1. \A k \in DataAt(d)' : \E j \in DataAt(d) : link'[d][k] = link[d][j]
  BY DEF Thin
<1>2. \A k \in Nat \ {0} : k <= cur[a] => bus'[a][k] = bus[a][k]
  BY SenderTypes DEF Grown
<1>3. n \in Nat \ {0} /\ l \in Nat /\ cur[a] \in Nat /\ Len(bridged[d]) <= cur[a]
  <2>1. Len(bridged[d]) \in Nat /\ l \in Nat /\ cur[a] \in Nat
    BY ReceiverTypes, SenderTypes
  <2>2. Len(bridged[d]) <= cur[a]
    BY DEF Received
  <2> QED
    BY <2>1, <2>2
<1>4. ASSUME NEW k \in DOMAIN bridged'[d] PROVE bridged'[d][k] = bus'[a][k]
  <2>1. k \in Nat \ {0} /\ k <= cur[a]
    BY <1>3, ReceiverTypes
  <2> QED
    BY <1>2, <2>1 DEF Received
<1>5. ASSUME pc'[d] # "ack", l > 0
      PROVE  /\ n <= cur[a] /\ reasm_next_idx'[d] = l /\ l <= Len(bus'[a][n])
             /\ \A k \in 1..l : reasm_buf'[d][k] = bus'[a][n][k]
             /\ (pc'[d] = "publish") <=> (l = Len(bus'[a][n]))
             /\ \A k \in DataAt(d)' : link'[d][k].nth = n => link'[d][k].id = reasm_id'[d]
             /\ pc'[a] = "send" /\ n = cur'[a] => tx'[a].id = reasm_id'[d]
  <2>1. /\ n <= cur[a] /\ reasm_next_idx[d] = l /\ l <= Len(bus[a][n])
        /\ \A k \in 1..l : reasm_buf[d][k] = bus[a][n][k]
        /\ (pc[d] = "publish") <=> (l = Len(bus[a][n]))
        /\ \A k \in DataAt(d) : link[d][k].nth = n => link[d][k].id = reasm_id[d]
        /\ pc[a] = "send" /\ n = cur[a] => tx[a].id = reasm_id[d]
    BY <1>5 DEF Received
  <2>2. bus'[a][n] = bus[a][n]
    BY <1>2, <1>3, <2>1
  <2>3. pc'[a] = "send" => pc[a] = "send" /\ tx'[a] = tx[a]
    BY DEF OldSends
  <2>4. \A k \in DataAt(d)' : link'[d][k].nth = n => link'[d][k].id = reasm_id'[d]
    BY <1>1, <2>1
  <2> QED
    BY <2>1, <2>2, <2>3, <2>4
<1>6. pc'[d] = "publish" => l > 0
  BY DEF Received
<1> QED
  BY <1>3, <1>4, <1>5, <1>6 DEF Received

LEMMA ReceivedTake ==
  ASSUME TypeOK, NEW a \in Bridges, NEW d \in Bridges, a # d, Received(a, d), Thin(d), Take(a)
  PROVE  Received(a, d)'
<1>1. cur'[a] = cur[a] + 1 /\ cur[a] \in Nat
  BY TakeStep
<1>2. /\ pc'[d] = pc[d] /\ bridged'[d] = bridged[d] /\ reasm_buf'[d] = reasm_buf[d]
      /\ reasm_next_idx'[d] = reasm_next_idx[d] /\ reasm_id'[d] = reasm_id[d] /\ bus' = bus
  BY OthersStay DEF Take, Loop
<1>3. \A k \in DataAt(d)' : \E j \in DataAt(d) : link'[d][k] = link[d][j]
  BY DEF Thin
<1>4. Len(bridged[d]) \in Nat
  BY ReceiverTypes
<1>5. ASSUME pc[d] # "ack", Len(reasm_buf[d]) > 0
      PROVE  /\ Len(bridged[d]) + 1 <= cur'[a] /\ Len(bridged[d]) + 1 # cur'[a]
             /\ \A k \in DataAt(d)' : link'[d][k].nth = Len(bridged[d]) + 1 =>
                  link'[d][k].id = reasm_id[d]
  <2>1. /\ Len(bridged[d]) + 1 <= cur[a]
        /\ \A k \in DataAt(d) : link[d][k].nth = Len(bridged[d]) + 1 =>
             link[d][k].id = reasm_id[d]
    BY <1>5 DEF Received
  <2> QED
    BY <1>1, <1>3, <1>4, <2>1
<1> QED
  BY <1>1, <1>2, <1>4, <1>5 DEF Received

LEMMA ReceivedSend ==
  ASSUME TypeOK, NEW a \in Bridges, NEW d \in Bridges, a # d, Received(a, d), OneId(a, d),
         SendFrag(a), Arrives(d, FragFrame(a))
  PROVE  Received(a, d)'
<1> DEFINE e == Len(link[d]) + 1
           f == FragFrame(a)
<1>1. /\ DataAt(d)' = DataAt(d) \cup {e} /\ link'[d][e] = f
      /\ \A k \in DataAt(d) : link'[d][k] = link[d][k]
  BY DEF Arrives
<1>2. pc[a] = "send" /\ pc'[d] = pc[d] /\ (pc'[a] = "send" => tx'[a].id = tx[a].id)
  BY SendStep
<1>3. UNCHANGED <<bus, bridged, cur, reasm_buf, reasm_id, reasm_next_idx>>
  BY DEF SendFrag, reassembly
<1>4. f.nth = cur[a] /\ f.id = tx[a].id
  BY <1>2 DEF OneId, FragFrame, DataFrame
<1> HIDE DEF e, f
<1>5. ASSUME pc[d] # "ack", Len(reasm_buf[d]) > 0
      PROVE  /\ \A k \in DataAt(d)' : link'[d][k].nth = Len(bridged[d]) + 1 =>
                  link'[d][k].id = reasm_id[d]
             /\ pc'[a] = "send" /\ Len(bridged[d]) + 1 = cur[a] => tx'[a].id = reasm_id[d]
  <2>1. /\ \A k \in DataAt(d) : link[d][k].nth = Len(bridged[d]) + 1 =>
             link[d][k].id = reasm_id[d]
        /\ Len(bridged[d]) + 1 = cur[a] => tx[a].id = reasm_id[d]
    BY <1>2, <1>5 DEF Received
  <2> QED
    BY <1>1, <1>2, <1>4, <2>1
<1> QED
  BY <1>2, <1>3, <1>5 DEF Received

LEMMA ReceivedRecv ==
  ASSUME TypeOK, AllFit, NEW a \in Bridges, NEW d \in Bridges, a # d,
         Streamed(a, d), OneId(a, d), Received(a, d), RecvData(d)
  PROVE  Received(a, d)'
<1> DEFINE f == link[d][1]
           n == Len(bridged[d]) + 1
           l == Len(reasm_buf[d])
           M == Len(bus[a][n])
           new == Append(reasm_buf[d], f.frag)
<1>1. /\ 1 \in DataAt(d) /\ f.nth = n /\ n \in DOMAIN bus[a] /\ n <= cur[a]
      /\ l + 1 <= M /\ f.frag = bus[a][n][l + 1]
      /\ f.last \in BOOLEAN /\ (f.last <=> l + 1 = M)
      /\ l > 0 => f.id = reasm_id[d]
      /\ f.frag \in Fragments /\ reasm_id'[d] = f.id
      /\ reasm_buf'[d] = new /\ reasm_next_idx'[d] = l + 1 /\ pc[d] = "recv"
      /\ pc'[d] = IF f.last THEN "publish" ELSE "loop"
  BY HeadFrame
<1>2. UNCHANGED <<bus, bridged, cur, tx>> /\ pc'[a] = pc[a]
  BY RecvStep DEF RecvData
<1>3. /\ Len(new) = l + 1 /\ new[l + 1] = f.frag /\ l \in Nat
      /\ \A k \in 1..l : new[k] = reasm_buf[d][k]
  BY <1>1, ReceiverTypes, Appended
<1>4. \A k \in DataAt(d)' : \E j \in DataAt(d) : link'[d][k] = link[d][j]
  BY HeadOff
<1>5. \A k \in 1..l : reasm_buf[d][k] = bus[a][n][k]
  BY <1>1, <1>3 DEF Received
<1>6. \A k \in DataAt(d) : link[d][k].nth = n => link[d][k].id = f.id
  BY <1>1 DEF OneId
<1>7. pc[a] = "send" /\ n = cur[a] => tx[a].id = f.id
  BY <1>1 DEF OneId
<1>8. (pc'[d] = "publish") <=> (l + 1 = M)
  BY <1>1
<1> HIDE DEF new, f, l, M
<1>9. \A k \in 1..l+1 : new[k] = bus[a][n][k]
  BY <1>1, <1>3, <1>5
<1>10. Len(bridged[d]) <= cur[a] /\ \A k \in DOMAIN bridged[d] : bridged[d][k] = bus[a][k]
  BY DEF Received
<1>11. \A k \in DataAt(d)' : link'[d][k].nth = n => link'[d][k].id = reasm_id'[d]
  BY <1>1, <1>4, <1>6
<1>12. pc'[d] # "ack" /\ l + 1 > 0
  BY <1>1, <1>3
<1>13. /\ n <= cur'[a] /\ reasm_next_idx'[d] = Len(reasm_buf'[d])
       /\ Len(reasm_buf'[d]) <= Len(bus'[a][n]) /\ Len(reasm_buf'[d]) > 0
       /\ \A k \in 1..Len(reasm_buf'[d]) : reasm_buf'[d][k] = bus'[a][n][k]
       /\ (pc'[d] = "publish") <=> (Len(reasm_buf'[d]) = Len(bus'[a][n]))
       /\ pc'[a] = "send" /\ n = cur'[a] => tx'[a].id = reasm_id'[d]
  BY <1>1, <1>2, <1>3, <1>7, <1>8, <1>9, <1>12 DEF M
<1> QED
  BY <1>2, <1>10, <1>11, <1>13 DEF Received

LEMMA ReceivedPublish ==
  ASSUME TypeOK, AllFit, NEW a \in Bridges, NEW d \in Bridges, a # d,
         Received(a, d), PublishIn(d)
  PROVE  Received(a, d)'
<1> DEFINE n == Len(bridged[d]) + 1
<1>1. n \in DOMAIN bus[a] /\ n <= cur[a] /\ reasm_buf[d] = bus[a][n]
  BY WholeInBuffer DEF PublishIn
<1>2. pc'[d] = "ack" /\ bridged'[d] = Append(bridged[d], reasm_buf[d]) /\ cur' = cur
  BY DEF PublishIn, Goto, TypeOK
<1>3. bus'[a] = bus[a]
  BY OthersStay DEF Loop
<1>4. reasm_buf[d] \in Payloads /\ bridged[d] \in Seq(Payloads)
  BY DEF TypeOK, PublishIn, Payloads
<1>5. /\ Len(bridged'[d]) = n /\ DOMAIN bridged'[d] = 1..n /\ bridged'[d][n] = reasm_buf[d]
      /\ Len(bridged[d]) \in Nat /\ DOMAIN bridged[d] = 1..Len(bridged[d])
      /\ \A k \in 1..Len(bridged[d]) : bridged'[d][k] = bridged[d][k]
  BY <1>2, <1>4, Appended
<1>6. ASSUME NEW k \in DOMAIN bridged'[d] PROVE bridged'[d][k] = bus'[a][k]
  <2>1. k = n \/ k \in DOMAIN bridged[d]
    BY <1>5
  <2> QED
    BY <1>1, <1>3, <1>5, <2>1 DEF Received
<1> QED
  BY <1>1, <1>2, <1>5, <1>6 DEF Received

LEMMA ReceivedAck ==
  ASSUME TypeOK, NEW a \in Bridges, NEW d \in Bridges, a # d, Received(a, d), Ack(d)
  PROVE  Received(a, d)'
<1>1. /\ pc'[d] = "loop" /\ reasm_buf'[d] = <<>> /\ UNCHANGED <<bridged, bus, cur>>
  BY DEF Ack, Goto, TypeOK
<1>2. ~(Len(reasm_buf'[d]) > 0)
  BY <1>1
<1> QED
  BY <1>1, <1>2 DEF Received

LEMMA ReceivedStep ==
  ASSUME TypeOK, TypeOK', Lossless, NoProbes, AllFit,
         NEW a \in Bridges, NEW d \in Bridges, a # d,
         Streamed(a, d), OneId(a, d), Received(a, d),
         NEW b \in {a, d}, Loop(b) \/ ProbeAgain(b) \/ Lose(b)
  PROVE  Received(a, d)'
<1>1. /\ ~ProbeBus(b) /\ ~ProbeWire(b) /\ ~ProbeAgain(b) /\ ~Lose(b)
      /\ \/ Same(d) /\ ~(RecvData(b) /\ b = d) /\ ~(SendFrag(b) /\ b # d)
         \/ RecvData(d) /\ b = d
         \/ SendFrag(b) /\ b # d /\ Arrives(d, FragFrame(b))
  BY LosslessStep
<1>2. CASE RecvData(d) /\ b = d
  BY <1>2, ReceivedRecv
<1>3. CASE SendFrag(a) /\ b = a
  BY <1>1, <1>3, ReceivedSend
<1>4. CASE Take(a) /\ b = a
  <2>1. ~SendFrag(a)
    BY <1>4 DEF Take, SendFrag
  <2>2. Thin(d)
    BY <1>1, <1>4, <2>1, SameThin
  <2> QED
    BY <1>4, <2>2, ReceivedTake
<1>5. CASE PublishIn(d)
  BY <1>5, ReceivedPublish
<1>6. CASE Ack(d)
  BY <1>6, ReceivedAck
<1>7. CASE ~ \/ RecvData(d) /\ b = d
             \/ (SendFrag(a) \/ Take(a)) /\ b = a
             \/ PublishIn(d) \/ Ack(d)
  <2>1. Same(d) /\ Grown(a) /\ Loop(b)
    BY <1>1, <1>7, BusGrows
  <2>2. OldSends(a) /\ cur'[a] = cur[a]
    BY <1>7, OwnStay, OthersStay DEF OldSends
  <2>3. /\ bridged'[d] = bridged[d] /\ reasm_buf'[d] = reasm_buf[d]
        /\ reasm_next_idx'[d] = reasm_next_idx[d] /\ reasm_id'[d] = reasm_id[d]
    BY <1>7, OwnStay, OthersStay
  <2>4. /\ (pc'[d] = "publish") <=> (pc[d] = "publish")
        /\ (pc'[d] = "ack") <=> (pc[d] = "ack")
    <3>1. CASE b = a
      BY <3>1, OthersStay
    <3>2. CASE b = d
      <4>1. pc[d] \notin {"publish", "ack"}
        BY <1>7, <2>1, <3>2 DEF Loop, ProbeBus, ProbeWire, Take, TakeNone, SendFrag,
           RecvNone, RecvAck
      <4> QED
        BY <1>7, <3>2, <4>1, OwnStay
    <3> QED
      BY <3>1, <3>2
  <2> QED
    BY <2>1, <2>2, <2>3, <2>4, SameThin, ReceivedQuiet
<1> QED
  BY <1>2, <1>3, <1>4, <1>5, <1>6, <1>7

LEMMA FitPut ==
  ASSUME TypeOK, AllFit, NEW b \in Bridges, NEW p \in Payloads, Put(b, p),
         Len(p) <= MaxFrame
  PROVE  AllFit'
<1>1. bus'[b] = Append(bus[b], p) /\ \A a \in Bridges \ {b} : bus'[a] = bus[a]
  BY Placed
<1>2. /\ DOMAIN bus[b] = 1..Len(bus[b]) /\ Len(bus[b]) \in Nat
      /\ DOMAIN bus'[b] = 1..Len(bus[b])+1 /\ bus'[b][Len(bus[b]) + 1] = p
      /\ \A k \in 1..Len(bus[b]) : bus'[b][k] = bus[b][k]
  <2>1. bus[b] \in Seq(Payloads)
    BY DEF TypeOK
  <2> QED
    BY <1>1, <2>1, Appended
<1>3. \A a \in Bridges : \A k \in DOMAIN bus'[a] :
        bus'[a][k] = p \/ (k \in DOMAIN bus[a] /\ bus'[a][k] = bus[a][k])
  <2>1. \A k \in DOMAIN bus'[b] : bus'[b][k] = p \/ (k \in DOMAIN bus[b] /\ bus'[b][k] = bus[b][k])
    BY <1>2
  <2> QED
    BY <1>1, <2>1
<1> QED
  BY <1>3 DEF AllFit

\* A step of neither bridge: a client publishes, or nothing happens.
LEMMA IdleStep ==
  ASSUME TypeOK, TypeOK', NEW a \in Bridges, NEW d \in Bridges, Grown(a),
         Streamed(a, d), OneId(a, d), Received(a, d),
         UNCHANGED <<bridged, cur, pc, tx, reassembly, link>>
  PROVE  Streamed(a, d)' /\ OneId(a, d)' /\ Received(a, d)'
<1>1. Same(d) /\ Thin(d)
  BY LinkSame, SameThin
<1>2. OldSends(a)
  BY DEF OldSends
<1>3. Streamed(a, d)'
  BY <1>1, StreamQuiet DEF SendMsg, SendIdx, RecvMsg, RecvIdx, reassembly
<1>4. OneId(a, d)'
  BY <1>1, <1>2, OneIdQuiet
<1>5. Received(a, d)'
  BY <1>1, <1>2, ReceivedQuiet DEF reassembly
<1> QED
  BY <1>3, <1>4, <1>5

LEMMA InitRelay == Lossless /\ Init => RelayInv
<1> SUFFICES ASSUME Lossless, Init PROVE RelayInv
  OBVIOUS
<1>1. TypeOK
  BY InitType
<1>2. \A b \in Bridges :
        /\ bus[b] = <<>> /\ bridged[b] = <<>> /\ link[b] = <<>> /\ cur[b] = 0
        /\ pc[b] = "loop" /\ reasm_buf[b] = <<>>
  BY DEF Init, Lossless
<1>3. DOMAIN <<>> = {} /\ Len(<<>>) = 0
  OBVIOUS
<1>4. \A b \in Bridges : /\ DataAt(b) = {} /\ SendMsg(b) = 1 /\ SendIdx(b) = 0
                         /\ RecvMsg(b) = 1 /\ RecvIdx(b) = 0
  <2>1. \A b \in Bridges : DataAt(b) = {}
    BY <1>2, <1>3 DEF DataAt
  <2>2. ASSUME NEW b \in Bridges PROVE SendMsg(b) = 1 /\ SendIdx(b) = 0
    <3>1. pc[b] # "send" /\ cur[b] + 1 = 1
      BY <1>2
    <3> QED
      BY <3>1 DEF SendMsg, SendIdx
  <2>3. ASSUME NEW b \in Bridges PROVE RecvMsg(b) = 1 /\ RecvIdx(b) = 0
    <3>1. /\ Len(bridged[b]) = 0 /\ Len(reasm_buf[b]) = 0
          /\ pc[b] # "publish" /\ pc[b] # "ack"
      BY <1>2, <1>3
    <3> QED
      BY <3>1 DEF RecvMsg, RecvIdx
  <2> QED
    BY <2>1, <2>2, <2>3
<1>5. NoProbes /\ AllFit
  BY <1>2, <1>3 DEF NoProbes, AllFit
<1>6. ASSUME NEW a \in Bridges, NEW d \in Bridges
      PROVE  Streamed(a, d) /\ OneId(a, d) /\ Received(a, d)
  <2>1. Streamed(a, d)
    BY <1>2, <1>3, <1>4 DEF Streamed, Before
  <2>2. OneId(a, d)
    BY <1>2, <1>4 DEF OneId
  <2>3. Received(a, d)
    BY <1>2, <1>3, <1>4 DEF Received
  <2> QED
    BY <2>1, <2>2, <2>3
<1> QED
  BY <1>1, <1>5, <1>6 DEF RelayInv

LEMMA NextRelay == TwoBridges /\ Lossless /\ RelayInv /\ [Next]_bridgeVars => RelayInv'
<1> SUFFICES ASSUME TwoBridges, Lossless, RelayInv, [Next]_bridgeVars PROVE RelayInv'
  OBVIOUS
<1>1. TypeOK /\ NoProbes /\ AllFit
  BY DEF RelayInv
<1>2. TypeOK'
  BY <1>1, NextType
<1>3. \A a, d \in Bridges : a # d => Streamed(a, d) /\ OneId(a, d) /\ Received(a, d)
  BY DEF RelayInv
<1>4. ASSUME NEW m \in Msgs, ClientPublish(m) PROVE RelayInv'
  <2>1. Home[m] \in Bridges /\ Payload(m) \in Payloads /\ Put(Home[m], Payload(m))
    BY <1>4, MsgAssumption, PayloadType DEF AllMsgs, ClientPublish
  <2>2. Len(Payload(m)) = Frags[m]
    <3>1. m # Probe /\ Frags[m] \in Nat
      BY MsgAssumption
    <3>2. Payload(m) = [k \in 1..Frags[m] |-> <<m, k>>]
      BY <3>1 DEF Payload
    <3>3. \A k \in 1..Frags[m] : <<m, k>> \in Fragments
      BY <3>1 DEF Fragments, AllMsgs
    <3> QED
      BY <3>1, <3>2, <3>3
  <2>3. AllFit'
    BY <1>1, <2>1, <2>2, FitPut DEF Lossless
  <2>4. \A a \in Bridges : Grown(a)
    BY <1>1, <2>1, PutGrows
  <2>5. UNCHANGED <<bridged, cur, pc, tx, reassembly, link>>
    BY <1>4 DEF ClientPublish
  <2>6. NoProbes'
    BY <1>1, <2>5 DEF NoProbes
  <2>7. \A a, d \in Bridges : a # d => Streamed(a, d)' /\ OneId(a, d)' /\ Received(a, d)'
    BY <1>1, <1>2, <1>3, <2>4, <2>5, IdleStep
  <2> QED
    BY <1>2, <2>3, <2>6, <2>7 DEF RelayInv
<1>5. ASSUME NEW b \in Bridges, Loop(b) \/ ProbeAgain(b) \/ Lose(b) PROVE RelayInv'
  <2>1. ~ProbeBus(b) /\ ~ProbeWire(b) /\ ~ProbeAgain(b) /\ ~Lose(b)
    BY <1>1, <1>5, LosslessStep
  <2>2. NoProbes'
    <3>1. pc'[b] \notin {"probe_bus", "probe_wire"}
      <4>1. CASE SendFrag(b)
        BY <1>1, <4>1, SendStep DEF NoProbes
      <4>2. CASE RecvData(b)
        BY <1>1, <4>2, RecvStep
      <4>3. CASE ~SendFrag(b) /\ ~RecvData(b)
        BY <1>1, <1>5, <2>1, <4>3, PcTypes DEF Loop, Take, TakeNone, RecvNone, RecvAck,
           PublishIn, Ack, Goto
      <4> QED
        BY <4>1, <4>2, <4>3
    <3> QED
      BY <1>1, <1>5, <3>1, OthersStay DEF NoProbes
  <2>3. AllFit'
    <3>1. CASE PublishIn(b)
      <4>1. PICK a \in Bridges : b # a
        BY Peers
      <4>2. pc[b] = "publish" /\ reasm_buf[b] \in Payloads
        BY <1>1, <3>1 DEF PublishIn, TypeOK, Payloads
      <4>3. Len(reasm_buf[b]) <= MaxFrame
        BY <1>1, <1>3, <4>1, <4>2, WholeInBuffer
      <4> QED
        BY <1>1, <3>1, <4>2, <4>3, FitPut DEF PublishIn
    <3>2. CASE ~PublishIn(b)
      <4>1. \A a \in Bridges : bus'[a] = bus[a]
        BY <1>1, <1>5, <2>1, <3>2, OwnStay, OthersStay
      <4> QED
        BY <1>1, <4>1 DEF AllFit
    <3> QED
      BY <3>1, <3>2
  <2>4. ASSUME NEW a \in Bridges, NEW d \in Bridges, a # d
        PROVE  Streamed(a, d)' /\ OneId(a, d)' /\ Received(a, d)'
    <3>1. b \in {a, d}
      BY <2>4, Peers
    <3> QED
      BY <1>1, <1>2, <1>3, <1>5, <2>4, <3>1, StreamStep, OneIdStep, ReceivedStep
  <2> QED
    BY <1>2, <2>2, <2>3, <2>4 DEF RelayInv
<1>6. CASE UNCHANGED bridgeVars
  <2>1. UNCHANGED <<bus, bridged, cur, pc, tx, reassembly, link>>
    BY <1>6 DEF bridgeVars, reassembly
  <2>2. \A a \in Bridges : Grown(a)
    BY <2>1 DEF Grown
  <2>3. NoProbes' /\ AllFit'
    BY <1>1, <2>1 DEF NoProbes, AllFit
  <2>4. \A a, d \in Bridges : a # d => Streamed(a, d)' /\ OneId(a, d)' /\ Received(a, d)'
    BY <1>1, <1>2, <1>3, <2>1, <2>2, IdleStep
  <2> QED
    BY <1>2, <2>3, <2>4 DEF RelayInv
<1> QED
  BY <1>4, <1>5, <1>6 DEF Next

(* The inductive invariant, of two bridges on a segment that loses nothing: *)
(* the segment carries exactly the fragments between the place one bridge   *)
(* has got to on its bus and the place the other has got to in that stream  *)
(* (l2bridge.rs 486-595).  The ids may wrap as often as they like.          *)
THEOREM RelayInvariant ==
  ASSUME TwoBridges, Lossless
  PROVE  Spec => []RelayInv
<1>1. RelayInv /\ [Next]_bridgeVars => RelayInv'
  BY NextRelay
<1>2. Init => RelayInv
  BY InitRelay
<1> QED
  BY <1>1, <1>2, PTL DEF Spec

(* What a bridge hands on comes out on its peer's bus whole, in order and  *)
(* once each (l2bridge.rs 486-595).                                        *)
THEOREM RelayIsFaithful ==
  ASSUME TwoBridges, Lossless
  PROVE  Spec => []FaithfulRelay
<1>1. RelayInv => FaithfulRelay
  <2> SUFFICES ASSUME RelayInv, NEW b \in Bridges, NEW d \in Bridges, b # d
               PROVE  /\ Len(bridged[d]) <= Len(bus[b])
                      /\ bridged[d] = SubSeq(bus[b], 1, Len(bridged[d]))
    BY DEF FaithfulRelay
  <2> DEFINE q == bus[b]
             p == bridged[d]
  <2>1. TypeOK /\ Received(b, d)
    BY DEF RelayInv
  <2>2. q \in Seq(Payloads) /\ p \in Seq(Payloads) /\ Len(p) <= Len(q)
    <3>1. Len(p) <= cur[b] /\ cur[b] <= Len(q) /\ cur[b] \in Nat
      BY <2>1 DEF Received, TypeOK
    <3>2. q \in Seq(Payloads) /\ p \in Seq(Payloads)
      BY <2>1 DEF TypeOK
    <3> QED
      BY <3>1, <3>2
  <2>3. \A k \in 1..Len(p) : p[k] = q[k]
    BY <2>1, ReceiverTypes DEF Received
  <2> HIDE DEF p, q
  <2>4. p = SubSeq(q, 1, Len(p))
    BY <2>2, <2>3
  <2> QED
    BY <2>2, <2>4 DEF p, q
<1> QED
  BY <1>1, RelayInvariant, PTL
=============================================================================
