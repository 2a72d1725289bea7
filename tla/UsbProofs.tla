----------------------------- MODULE UsbProofs -----------------------------
(***************************************************************************)
(* Theorems about the bridges of UsbSim, for any payloads, bytes that look *)
(* like magic included, any sizes of buses, stream and buffer, and either  *)
(* kind of endpoint on either side.                                        *)
(***************************************************************************)
EXTENDS UsbProperties, SequenceTheorems, TLAPS

Pcs    == {"start", "loop", "bus", "write", "read", "publish", "done"}
Kinds  == {"none", "start", "probe", "data", "ack"}
Stages == {"sync1", "sync2", "hdr", "payload", "crc"}

-----------------------------------------------------------------------------
(* Sequences, the two bridges, and frames.                                 *)

LEMMA Appended ==
  ASSUME NEW S, NEW q \in Seq(S), NEW e \in S
  PROVE  /\ Append(q, e) \in Seq(S) /\ Append(q, e) # <<>>
         /\ Len(q) \in Nat /\ Len(Append(q, e)) = Len(q) + 1
         /\ \A k \in 1..Len(q) : Append(q, e)[k] = q[k]
         /\ Append(q, e)[Len(q) + 1] = e
         /\ DOMAIN q = 1..Len(q) /\ DOMAIN Append(q, e) = 1..Len(q)+1
OBVIOUS

LEMMA Tailed ==
  ASSUME NEW S, NEW q \in Seq(S), q # <<>>
  PROVE  /\ Tail(q) \in Seq(S) /\ Len(q) \in Nat \ {0} /\ Len(Tail(q)) = Len(q) - 1
         /\ \A k \in 1..Len(q)-1 : Tail(q)[k] = q[k + 1]
         /\ Head(q) = q[1] /\ q[1] \in S
         /\ DOMAIN q = 1..Len(q) /\ DOMAIN Tail(q) = 1..Len(q)-1
OBVIOUS

LEMMA Joined ==
  \A p, q, r \in Seq(AllTokens) : (p \o q) \o r = p \o (q \o r)
OBVIOUS

LEMMA NotCut == \A n \in Nat, m \in Nat \ {0} : n < m => n % m = n
OBVIOUS

LEMMA Peers ==
  ASSUME NEW b \in Bridges
  PROVE  /\ Peer(b) \in Bridges /\ Peer(b) # b /\ Peer(Peer(b)) = b
         /\ \A d \in Bridges : d # b => d = Peer(b)
<1>1. \E d \in Bridges : d # b
  BY EndsAssumption
<1>2. Peer(b) \in Bridges /\ Peer(b) # b
  BY <1>1 DEF Peer
<1>3. \E d \in Bridges : d # Peer(b)
  BY <1>2
<1>4. Peer(Peer(b)) \in Bridges /\ Peer(Peer(b)) # Peer(b)
  BY <1>3 DEF Peer
<1> QED
  BY <1>2, <1>4, EndsAssumption

LEMMA FrameTokens ==
  ASSUME NEW f \in AllFrames
  PROVE  /\ Len(Bytes[f.msg]) \in Nat /\ FrameLen(f) = Len(Bytes[f.msg]) + 4
         /\ FrameLen(f) \in Nat /\ FrameLen(f) >= 4
         /\ Tokens(f) \in Seq(AllTokens) /\ Len(Tokens(f)) = FrameLen(f)
         /\ Tokens(f) # <<>>
         /\ \A k \in 1..FrameLen(f) : Tokens(f)[k] = [of |-> f, k |-> k]
<1>1. f.msg \in AllMsgs
  BY DEF AllFrames
<1>2. Len(Bytes[f.msg]) \in Nat
  BY <1>1, MsgAssumption DEF AllMsgs
<1>3. FrameLen(f) \in Nat /\ FrameLen(f) >= 4
  BY <1>2 DEF FrameLen
<1>4. \A k \in 1..FrameLen(f) : [of |-> f, k |-> k] \in AllTokens
  BY <1>3 DEF AllTokens
<1> DEFINE n == FrameLen(f)
           t(k) == [of |-> f, k |-> k]
           q == [k \in 1..n |-> t(k)]
<1>5. q \in Seq(AllTokens) /\ Len(q) = n /\ \A k \in 1..n : q[k] = t(k)
  <2> HIDE DEF n, t
  <2>1. n \in Nat /\ \A k \in 1..n : t(k) \in AllTokens
    BY <1>3, <1>4 DEF n, t
  <2> QED
    BY <2>1
<1>6. Tokens(f) = q
  BY DEF Tokens
<1> QED
  BY <1>2, <1>3, <1>5, <1>6 DEF FrameLen

-----------------------------------------------------------------------------
(* What the calls of a bridge do, and types.                               *)

LEMMA WriteBegun ==
  ASSUME TypeOK, NEW b \in Bridges, NEW f \in AllFrames,
         NEW for \in Kinds \ {"none"}, BeginWrite(b, f, for), pc[b] \notin {"write", "done"}
  PROVE  /\ tx[b] = <<>> /\ tx'[b] = Tokens(f) /\ pc'[b] = "write"
         /\ tx' \in [Bridges -> Seq(AllTokens)] /\ tx_for' \in [Bridges -> Kinds]
         /\ pc' \in [Bridges -> Pcs]
         /\ \A d \in Bridges \ {b} : tx'[d] = tx[d] /\ pc'[d] = pc[d]
         /\ \A d \in Bridges : WriterShape(d)'
<1>1. /\ tx' = [tx EXCEPT ![b] = Tokens(f)] /\ tx_for' = [tx_for EXCEPT ![b] = for]
      /\ pc' = [pc EXCEPT ![b] = "write"]
  BY DEF BeginWrite, Goto
<1>2. /\ tx \in [Bridges -> Seq(AllTokens)] /\ tx_for \in [Bridges -> Kinds]
      /\ pc \in [Bridges -> Pcs] /\ \A d \in Bridges : WriterShape(d)
  BY DEF TypeOK, Types, Kinds, Pcs
<1>3. Tokens(f) \in Seq(AllTokens) /\ Tokens(f) # <<>>
  BY FrameTokens
<1>4. /\ tx'[b] = Tokens(f) /\ tx_for'[b] = for /\ pc'[b] = "write"
      /\ \A d \in Bridges \ {b} : tx'[d] = tx[d] /\ pc'[d] = pc[d] /\ tx_for'[d] = tx_for[d]
  BY <1>1, <1>2
<1>5. tx[b] = <<>>
  BY <1>2 DEF WriterShape
<1>6. \A d \in Bridges : WriterShape(d)'
  BY <1>2, <1>3, <1>4 DEF WriterShape
<1>7. /\ tx' \in [Bridges -> Seq(AllTokens)] /\ tx_for' \in [Bridges -> Kinds]
      /\ pc' \in [Bridges -> Pcs]
  BY <1>1, <1>2, <1>3 DEF Kinds, Pcs
<1> QED
  BY <1>4, <1>5, <1>6, <1>7

LEMMA DataBegun ==
  ASSUME TypeOK, NEW b \in Bridges, NEW m \in AllMsgs, NEW h \in Nat,
         NEW for \in Kinds \ {"none"}, BeginData(b, m, h, for)
  PROVE  LET f == Frame(0, seq_ctr[b], m, h)
         IN  /\ f \in AllFrames /\ f.chan = 0 /\ f.seq = Len(sent[b])
             /\ BeginWrite(b, f, for) /\ sent' = [sent EXCEPT ![b] = Append(@, f)]
             /\ seq_ctr' \in [Bridges -> Nat] /\ sent' \in [Bridges -> Seq(AllFrames)]
             /\ \A d \in Bridges : SentShape(d)'
<1> DEFINE f == Frame(0, seq_ctr[b], m, h)
<1>0. /\ seq_ctr \in [Bridges -> Nat] /\ sent \in [Bridges -> Seq(AllFrames)]
      /\ \A d \in Bridges : SentShape(d)
  BY DEF TypeOK, Types
<1>1. /\ f \in AllFrames /\ f.chan = 0 /\ f.seq = seq_ctr[b] /\ seq_ctr[b] = Len(sent[b])
  BY <1>0 DEF Frame, AllFrames, SentShape
<1>2. /\ BeginWrite(b, f, for) /\ sent' = [sent EXCEPT ![b] = Append(@, f)]
      /\ seq_ctr' = [seq_ctr EXCEPT ![b] = @ + 1] /\ seq_ctr[b] < MaxSeq[b]
  BY DEF BeginData
<1> HIDE DEF f
<1>3. /\ Append(sent[b], f) \in Seq(AllFrames) /\ Len(sent[b]) \in Nat
      /\ Len(Append(sent[b], f)) = Len(sent[b]) + 1
      /\ \A k \in 1..Len(sent[b]) : Append(sent[b], f)[k] = sent[b][k]
      /\ Append(sent[b], f)[Len(sent[b]) + 1] = f
      /\ DOMAIN sent[b] = 1..Len(sent[b])
      /\ DOMAIN Append(sent[b], f) = 1..Len(sent[b])+1
  BY <1>0, <1>1, Appended
<1>4. /\ seq_ctr' \in [Bridges -> Nat] /\ sent' \in [Bridges -> Seq(AllFrames)]
      /\ seq_ctr'[b] = seq_ctr[b] + 1 /\ sent'[b] = Append(sent[b], f)
      /\ \A d \in Bridges \ {b} : seq_ctr'[d] = seq_ctr[d] /\ sent'[d] = sent[d]
  BY <1>0, <1>2, <1>3
<1>5. SentShape(b)'
  <2>1. seq_ctr'[b] = Len(sent'[b]) /\ seq_ctr'[b] <= MaxSeq[b]
    <3>1. MaxSeq[b] \in Nat /\ seq_ctr[b] \in Nat
      BY <1>0, SizeAssumption
    <3> QED
      BY <1>1, <1>2, <1>3, <1>4, <3>1
  <2>2. ASSUME NEW k \in 1..Len(sent[b])+1
        PROVE  sent'[b][k].chan = 0 /\ sent'[b][k].seq = k - 1
    <3>1. CASE k = Len(sent[b]) + 1
      BY <1>1, <1>3, <1>4, <3>1
    <3>2. CASE k # Len(sent[b]) + 1
      <4>1. k \in 1..Len(sent[b])
        BY <1>3, <3>2
      <4> QED
        BY <1>0, <1>3, <1>4, <4>1 DEF SentShape
    <3> QED
      BY <3>1, <3>2
  <2> QED
    BY <1>3, <1>4, <2>1, <2>2 DEF SentShape
<1>6. \A d \in Bridges : SentShape(d)'
  <2>1. \A d \in Bridges \ {b} : SentShape(d)'
    BY <1>0, <1>4 DEF SentShape
  <2> QED
    BY <1>5, <2>1
<1> QED
  BY <1>1, <1>2, <1>4, <1>6 DEF f

LEMMA WriteEnded ==
  ASSUME TypeOK, NEW b \in Bridges, AfterWrite(b), pc[b] = "write"
  PROVE  /\ tx'[b] = <<>> /\ pc'[b] \in {"bus", "read", "loop"}
         /\ tx' \in [Bridges -> Seq(AllTokens)] /\ tx_for' \in [Bridges -> Kinds]
         /\ pc' \in [Bridges -> Pcs]
         /\ \A d \in Bridges \ {b} : tx'[d] = tx[d] /\ pc'[d] = pc[d]
         /\ \A d \in Bridges : WriterShape(d)'
<1>1. /\ tx' = [tx EXCEPT ![b] = <<>>] /\ tx_for' = [tx_for EXCEPT ![b] = "none"]
      /\ \E l \in {"bus", "read", "loop"} : pc' = [pc EXCEPT ![b] = l]
  BY DEF AfterWrite, Goto
<1>2. /\ tx \in [Bridges -> Seq(AllTokens)] /\ tx_for \in [Bridges -> Kinds]
      /\ pc \in [Bridges -> Pcs] /\ \A d \in Bridges : WriterShape(d)
  BY DEF TypeOK, Types, Kinds, Pcs
<1>3. /\ tx'[b] = <<>> /\ pc'[b] \in {"bus", "read", "loop"}
      /\ \A d \in Bridges \ {b} : tx'[d] = tx[d] /\ pc'[d] = pc[d] /\ tx_for'[d] = tx_for[d]
  BY <1>1, <1>2
<1>4. \A d \in Bridges : WriterShape(d)'
  BY <1>2, <1>3 DEF WriterShape
<1>5. /\ tx' \in [Bridges -> Seq(AllTokens)] /\ tx_for' \in [Bridges -> Kinds]
      /\ pc' \in [Bridges -> Pcs]
  BY <1>1, <1>2 DEF Kinds, Pcs
<1> QED
  BY <1>3, <1>4, <1>5

LEMMA NoTokenType == NoToken \in AllTokens
BY DEF NoToken, AllTokens, AllFrames, AllMsgs, Frame

LEMMA ReadEnded ==
  ASSUME TypeOK, NEW b \in Bridges, EndRead(b)
  PROVE  /\ stage' \in [Bridges -> Stages] /\ hdr' \in [Bridges -> AllTokens]
         /\ want' \in [Bridges -> Nat] /\ work' \in [Bridges -> Seq(AllTokens)]
         /\ stage'[b] = "sync1" /\ work'[b] = <<>> /\ want'[b] = 0
         /\ \A d \in Bridges \ {b} : /\ stage'[d] = stage[d] /\ work'[d] = work[d]
                                     /\ want'[d] = want[d] /\ hdr'[d] = hdr[d]
<1>1. /\ stage' = [stage EXCEPT ![b] = "sync1"] /\ hdr' = [hdr EXCEPT ![b] = NoToken]
      /\ want' = [want EXCEPT ![b] = 0] /\ work' = [work EXCEPT ![b] = <<>>]
  BY DEF EndRead
<1>2. /\ stage \in [Bridges -> Stages] /\ hdr \in [Bridges -> AllTokens]
      /\ want \in [Bridges -> Nat] /\ work \in [Bridges -> Seq(AllTokens)]
  BY DEF TypeOK, Types, Stages
<1>3. "sync1" \in Stages /\ <<>> \in Seq(AllTokens)
  BY DEF Stages
<1> QED
  BY <1>1, <1>2, <1>3, NoTokenType

LEMMA ReadOff ==
  ASSUME TypeOK, NEW b \in Bridges, NEW s \in Stages, Reads(b, s)
  PROVE  /\ pc[b] = "read" /\ stage[b] = s /\ link[b] # <<>> /\ Head(link[b]) \in AllTokens
         /\ link' \in [Bridges -> Seq(AllTokens)] /\ link'[b] = Tail(link[b])
         /\ \A d \in Bridges \ {b} : link'[d] = link[d]
         /\ \A d \in Bridges : Len(link'[d]) <= Room
<1>1. /\ pc[b] = "read" /\ stage[b] = s /\ link[b] # <<>>
      /\ link' = [link EXCEPT ![b] = Tail(@)]
  BY DEF Reads
<1>2. link \in [Bridges -> Seq(AllTokens)] /\ \A d \in Bridges : Len(link[d]) <= Room
  BY DEF TypeOK, Types
<1>3. /\ Tail(link[b]) \in Seq(AllTokens) /\ Head(link[b]) \in AllTokens
      /\ Len(link[b]) \in Nat /\ Len(Tail(link[b])) = Len(link[b]) - 1
  BY <1>1, <1>2, Tailed
<1>4. /\ link' \in [Bridges -> Seq(AllTokens)] /\ link'[b] = Tail(link[b])
      /\ \A d \in Bridges \ {b} : link'[d] = link[d]
  BY <1>1, <1>2, <1>3
<1>5. Len(link'[b]) <= Room
  <2>1. Room \in Nat /\ Len(link[b]) <= Room
    BY <1>2, SizeAssumption
  <2> QED
    BY <1>3, <1>4, <2>1
<1> QED
  BY <1>1, <1>2, <1>3, <1>4, <1>5

LEMMA Placed ==
  ASSUME TypeOK, NEW b \in Bridges, NEW m \in AllMsgs, NEW h \in Nat,
         HasRoom(b), Put(b, m, h)
  PROVE  /\ queue' \in [Bridges -> Seq([msg : AllMsgs, hops : Nat])]
         /\ \A d \in Bridges : Len(queue'[d]) <= Cap
<1> DEFINE X == [msg : AllMsgs, hops : Nat]
           e == [msg |-> m, hops |-> h]
<1>1. queue \in [Bridges -> Seq(X)] /\ e \in X /\ \A d \in Bridges : Len(queue[d]) <= Cap
  BY DEF TypeOK, Types
<1>2. queue' = [queue EXCEPT ![b] = Append(@, e)] /\ Len(queue[b]) < Cap /\ Cap \in Nat
  BY SizeAssumption DEF Put, HasRoom
<1> HIDE DEF X, e
<1>3. /\ Append(queue[b], e) \in Seq(X) /\ Len(queue[b]) \in Nat
      /\ Len(Append(queue[b], e)) = Len(queue[b]) + 1
  BY <1>1, Appended
<1>4. /\ queue' \in [Bridges -> Seq(X)] /\ queue'[b] = Append(queue[b], e)
      /\ \A d \in Bridges \ {b} : queue'[d] = queue[d]
  BY <1>1, <1>2, <1>3
<1>5. Len(queue'[b]) <= Cap
  BY <1>2, <1>3, <1>4
<1> QED
  BY <1>1, <1>4, <1>5 DEF X

LEMMA WroteSome ==
  ASSUME TypeOK, NEW b \in Bridges, WriteSome(b)
  PROVE  \E k \in 1..Len(tx[b]) :
           /\ pc[b] = "write" /\ tx[b] \in Seq(AllTokens) /\ Len(tx[b]) \in Nat
           /\ link'[Peer(b)] = link[Peer(b)] \o SubSeq(tx[b], 1, k)
           /\ link' \in [Bridges -> Seq(AllTokens)]
           /\ \A d \in Bridges : d # Peer(b) => link'[d] = link[d]
           /\ \A d \in Bridges : Len(link'[d]) <= Room
           /\ IF k = Len(tx[b]) THEN AfterWrite(b)
              ELSE /\ tx' = [tx EXCEPT ![b] = SubSeq(@, k + 1, Len(@))]
                   /\ UNCHANGED <<tx_for, pc>>
<1>1. PICK k \in 1..Len(tx[b]) :
         /\ Len(link[Peer(b)]) + k <= Room
         /\ link' = [link EXCEPT ![Peer(b)] = @ \o SubSeq(tx[b], 1, k)]
         /\ IF k = Len(tx[b]) THEN AfterWrite(b)
            ELSE /\ tx' = [tx EXCEPT ![b] = SubSeq(@, k + 1, Len(@))]
                 /\ UNCHANGED <<tx_for, pc>>
  BY DEF WriteSome
<1>2. /\ tx[b] \in Seq(AllTokens) /\ link \in [Bridges -> Seq(AllTokens)]
      /\ Peer(b) \in Bridges /\ \A d \in Bridges : Len(link[d]) <= Room
  BY Peers DEF TypeOK, Types
<1> DEFINE l == link[Peer(b)]
           q == SubSeq(tx[b], 1, k)
<1>3. q \in Seq(AllTokens) /\ Len(q) = k /\ l \in Seq(AllTokens)
  BY <1>2
<1>4. link' = [link EXCEPT ![Peer(b)] = l \o q] /\ Len(l) + k <= Room
  BY <1>1
<1> HIDE DEF l, q
<1>5. l \o q \in Seq(AllTokens) /\ Len(l \o q) = Len(l) + k
  BY <1>3
<1>6. /\ link' \in [Bridges -> Seq(AllTokens)] /\ link'[Peer(b)] = l \o q
      /\ \A d \in Bridges : d # Peer(b) => link'[d] = link[d]
  BY <1>2, <1>4, <1>5
<1>7. \A d \in Bridges : Len(link'[d]) <= Room
  BY <1>2, <1>4, <1>5, <1>6
<1>8. pc[b] = "write" /\ Len(tx[b]) \in Nat
  BY <1>2 DEF WriteSome
<1> QED
  BY <1>1, <1>2, <1>6, <1>7, <1>8 DEF l, q

LEMMA DecodedType ==
  ASSUME TypeOK, NEW b \in Bridges
  PROVE  /\ hdr[b] \in AllTokens /\ hdr[b].of \in AllFrames /\ Decoded(b) \in AllFrames
         /\ Decoded(b).chan = hdr[b].of.chan /\ AckFrame(Decoded(b)) \in AllFrames
         /\ AckFrame(Decoded(b)).chan = 1
         /\ AckFrame(hdr[b].of) \in AllFrames /\ StrayFrame \in AllFrames
         /\ hdr[b].of.msg \in AllMsgs /\ hdr[b].of.hops + 1 \in Nat
<1>1. hdr[b] \in AllTokens
  BY DEF TypeOK, Types
<1>2. hdr[b].of \in AllFrames
  BY <1>1 DEF AllTokens
<1> DEFINE f == hdr[b].of
           g == [f EXCEPT !.msg = Stray]
<1>3. g \in AllFrames /\ g.chan = f.chan
  BY <1>2 DEF AllFrames, AllMsgs
<1>4. Decoded(b) \in {f, g}
  BY DEF Decoded
<1> HIDE DEF f, g
<1>5. Decoded(b) \in AllFrames /\ Decoded(b).chan = f.chan
  BY <1>2, <1>3, <1>4 DEF f
<1>6. \A h \in AllFrames : /\ AckFrame(h) \in AllFrames /\ AckFrame(h).chan = 1
                           /\ h.msg \in AllMsgs /\ h.hops + 1 \in Nat
  BY DEF AckFrame, Frame, AllFrames
<1>7. StrayFrame \in AllFrames
  BY DEF StrayFrame, Frame, AllFrames, AllMsgs
<1> QED
  BY <1>1, <1>2, <1>5, <1>6, <1>7 DEF f

\* Where the loop goes on without a call to write_frame or read_frame.
LEMMA LoopMoves ==
  ASSUME TypeOK, NEW b \in Bridges, NEW l \in {"loop", "read", "done"}, Goto(b, l),
         l = "done" \/ (tx[b] = <<>> /\ (l = "loop" => stage[b] = "sync1")),
         UNCHANGED <<writing, reading>>
  PROVE  /\ pc' \in [Bridges -> Pcs] /\ pc'[b] = l
         /\ \A d \in Bridges \ {b} : pc'[d] = pc[d]
         /\ \A d \in Bridges : WriterShape(d)' /\ ReaderShape(d)'
<1>1. pc \in [Bridges -> Pcs] /\ pc' = [pc EXCEPT ![b] = l]
  BY DEF TypeOK, Types, Pcs, Goto
<1>2. /\ pc' \in [Bridges -> Pcs] /\ pc'[b] = l
      /\ \A d \in Bridges \ {b} : pc'[d] = pc[d]
  BY <1>1 DEF Pcs
<1>3. /\ UNCHANGED <<tx, tx_for, stage, hdr, want, work>>
      /\ \A d \in Bridges : WriterShape(d) /\ ReaderShape(d)
  BY DEF TypeOK, writing, reading
<1>4. \A d \in Bridges : WriterShape(d)'
  BY <1>2, <1>3 DEF WriterShape
<1>5. \A d \in Bridges : ReaderShape(d)'
  BY <1>2, <1>3 DEF ReaderShape
<1> QED
  BY <1>2, <1>4, <1>5

\* A reader's shape depends on nothing else.
LEMMA ReaderKept ==
  ASSUME TypeOK, NEW b \in Bridges, UNCHANGED <<stage[b], want[b], work[b]>>,
         pc'[b] = pc[b] \/ pc'[b] \in {"read", "done"} \/ stage[b] = "sync1"
  PROVE  ReaderShape(b)'
BY DEF TypeOK, ReaderShape

\* What a call that has just been returned from leaves.
LEMMA ReaderReset ==
  ASSUME NEW b \in Bridges, stage'[b] = "sync1", work'[b] = <<>>, want'[b] = 0
  PROVE  ReaderShape(b)'
BY SizeAssumption DEF ReaderShape

LEMMA Unread == ASSUME TypeOK, NEW b \in Bridges, pc[b] \notin {"read", "publish", "done"}
                PROVE  stage[b] = "sync1"
BY DEF TypeOK, ReaderShape

LEMMA Unwritten == ASSUME TypeOK, NEW b \in Bridges, pc[b] \notin {"write", "done"}
                   PROVE  tx[b] = <<>>
BY DEF TypeOK, WriterShape

LEMMA DataType ==
  ASSUME TypeOK, NEW b \in Bridges, NEW m \in AllMsgs, NEW h \in Nat,
         NEW for \in Kinds \ {"none"}, BeginData(b, m, h, for), pc[b] \notin {"write", "done"},
         pc[b] \notin {"read", "publish"},
         queue' \in [Bridges -> Seq([msg : AllMsgs, hops : Nat])],
         \A d \in Bridges : Len(queue'[d]) <= Cap,
         UNCHANGED <<with_bus, published, printed_pass, reading, link, decoded, lost, short>>
  PROVE  TypeOK'
<1> DEFINE f == Frame(0, seq_ctr[b], m, h)
<1>1. /\ f \in AllFrames /\ BeginWrite(b, f, for)
      /\ seq_ctr' \in [Bridges -> Nat] /\ sent' \in [Bridges -> Seq(AllFrames)]
      /\ \A d \in Bridges : SentShape(d)'
  BY DataBegun
<1> HIDE DEF f
<1>2. /\ tx' \in [Bridges -> Seq(AllTokens)] /\ tx_for' \in [Bridges -> Kinds]
      /\ pc' \in [Bridges -> Pcs] /\ \A d \in Bridges \ {b} : pc'[d] = pc[d]
      /\ \A d \in Bridges : WriterShape(d)'
  BY <1>1, WriteBegun
<1>3. \A d \in Bridges : ReaderShape(d)'
  <2>1. UNCHANGED <<stage, hdr, want, work>>
    BY DEF reading
  <2>2. stage[b] = "sync1"
    BY Unread
  <2> QED
    BY <1>2, <2>1, <2>2, ReaderKept
<1> QED
  BY <1>1, <1>2, <1>3 DEF TypeOK, Types, Kinds, Pcs, reading, decoded

LEMMA WriteType ==
  ASSUME TypeOK, NEW b \in Bridges, WriteSome(b) \/ WriteFull(b) \/ WriteClosed(b)
  PROVE  TypeOK'
<1>0. /\ tx \in [Bridges -> Seq(AllTokens)] /\ tx_for \in [Bridges -> Kinds]
      /\ pc \in [Bridges -> Pcs] /\ pc[b] = "write" /\ stage[b] = "sync1"
      /\ link \in [Bridges -> Seq(AllTokens)] /\ \A d \in Bridges : Len(link[d]) <= Room
      /\ \A d \in Bridges : WriterShape(d) /\ ReaderShape(d)
  BY Unread DEF TypeOK, Types, Kinds, Pcs, WriteSome, WriteFull, WriteClosed
<1>1. /\ UNCHANGED <<with_bus, queue, published, seq_ctr, printed_pass, sent, accepted>>
      /\ UNCHANGED <<stray, lost, stage, hdr, want, work>>
  BY DEF WriteSome, WriteFull, WriteClosed, reading, decoded
<1>2. short' \in [Bridges -> BOOLEAN]
  BY DEF WriteSome, WriteFull, WriteClosed, TypeOK, Types
<1>3. link' \in [Bridges -> Seq(AllTokens)] /\ \A d \in Bridges : Len(link'[d]) <= Room
  BY <1>0, WroteSome DEF WriteFull, WriteClosed
<1>4. /\ tx' \in [Bridges -> Seq(AllTokens)] /\ tx_for' \in [Bridges -> Kinds]
      /\ pc' \in [Bridges -> Pcs] /\ \A d \in Bridges \ {b} : pc'[d] = pc[d]
      /\ \A d \in Bridges : WriterShape(d)'
  <2>1. CASE AfterWrite(b)
    BY <1>0, <2>1, WriteEnded
  <2>2. CASE Goto(b, "done") /\ UNCHANGED writing
    <3>1. tx' = tx /\ tx_for' = tx_for /\ pc' = [pc EXCEPT ![b] = "done"]
      BY <2>2 DEF Goto, writing
    <3>2. /\ pc' \in [Bridges -> Pcs] /\ pc'[b] = "done"
          /\ \A d \in Bridges \ {b} : pc'[d] = pc[d]
      BY <1>0, <3>1 DEF Pcs
    <3> QED
      BY <1>0, <3>1, <3>2 DEF WriterShape
  <2>3. ASSUME NEW k \in 1..Len(tx[b]), k # Len(tx[b]), Len(tx[b]) \in Nat,
               tx' = [tx EXCEPT ![b] = SubSeq(@, k + 1, Len(@))], UNCHANGED <<tx_for, pc>>
        PROVE  /\ tx' \in [Bridges -> Seq(AllTokens)] /\ \A d \in Bridges : WriterShape(d)'
    <3>1. /\ SubSeq(tx[b], k + 1, Len(tx[b])) \in Seq(AllTokens)
          /\ SubSeq(tx[b], k + 1, Len(tx[b])) # <<>>
      <4> DEFINE q == tx[b]
                 r == SubSeq(q, k + 1, Len(q))
      <4>1. q \in Seq(AllTokens) /\ Len(q) \in Nat /\ k + 1 \in 1..Len(q) /\ k \in Nat
        BY <1>0, <2>3
      <4> HIDE DEF q
      <4>2. r \in Seq(AllTokens) /\ Len(r) = Len(q) - k
        BY <4>1, SubSeqProperties
      <4> HIDE DEF r
      <4>3. Len(r) # 0
        BY <4>1, <4>2
      <4>4. r \in Seq(AllTokens) /\ r # <<>>
        BY <4>2, <4>3
      <4> QED
        BY <4>4 DEF q, r
    <3>2. /\ tx' \in [Bridges -> Seq(AllTokens)] /\ tx'[b] # <<>>
          /\ \A d \in Bridges \ {b} : tx'[d] = tx[d]
      BY <1>0, <2>3, <3>1
    <3> QED
      BY <1>0, <2>3, <3>2 DEF WriterShape
  <2>4. CASE WriteSome(b)
    <3>1. PICK k \in 1..Len(tx[b]) :
            /\ Len(tx[b]) \in Nat
            /\ IF k = Len(tx[b]) THEN AfterWrite(b)
               ELSE /\ tx' = [tx EXCEPT ![b] = SubSeq(@, k + 1, Len(@))]
                    /\ UNCHANGED <<tx_for, pc>>
      BY <2>4, WroteSome, Zenon
    <3>2. CASE k = Len(tx[b])
      BY <2>1, <3>1, <3>2
    <3>3. CASE k # Len(tx[b])
      BY <1>0, <2>3, <3>1, <3>3
    <3> QED
      BY <3>2, <3>3
  <2>5. CASE WriteFull(b) \/ WriteClosed(b)
    BY <2>1, <2>2, <2>5 DEF WriteFull, WriteClosed
  <2> QED
    BY <2>4, <2>5
<1>5. \A d \in Bridges : ReaderShape(d)'
  BY <1>0, <1>1, <1>4, ReaderKept
<1> QED
  BY <1>1, <1>2, <1>3, <1>4, <1>5 DEF TypeOK, Types, Kinds, Pcs, SentShape

\* A token read that does not end the call.
LEMMA PartType ==
  ASSUME TypeOK, NEW b \in Bridges, NEW s \in Stages, Reads(b, s),
         stage' \in [Bridges -> Stages], hdr' \in [Bridges -> AllTokens],
         want' \in [Bridges -> Nat], work' \in [Bridges -> Seq(AllTokens)],
         \A d \in Bridges \ {b} : UNCHANGED <<stage[d], want[d], work[d]>>,
         ReaderShape(b)', UNCHANGED <<queue, pc, printed_pass, writing, decoded>>,
         lost' \in [Bridges -> BOOLEAN]
  PROVE  TypeOK'
<1>1. /\ link' \in [Bridges -> Seq(AllTokens)] /\ \A d \in Bridges : Len(link'[d]) <= Room
  BY ReadOff
<1>2. UNCHANGED <<with_bus, published, seq_ctr, sent, short, tx, tx_for, accepted, stray>>
  BY DEF Reads, writing, decoded
<1>3. \A d \in Bridges : ReaderShape(d)'
  BY ReaderKept
<1> QED
  BY <1>1, <1>2, <1>3 DEF TypeOK, Types, Stages, WriterShape, SentShape

\* One that ends it, without an ACK to write.
LEMMA EndType ==
  ASSUME TypeOK, NEW b \in Bridges, NEW l \in {"loop", "done"}, EndRead(b), Goto(b, l),
         pc[b] = "read", printed_pass' \in [Bridges -> BOOLEAN],
         link' \in [Bridges -> Seq(AllTokens)], \A d \in Bridges : Len(link'[d]) <= Room,
         stray' \in [Bridges -> BOOLEAN], lost' \in [Bridges -> BOOLEAN],
         UNCHANGED <<with_bus, queue, published, seq_ctr, writing, sent, accepted, short>>
  PROVE  TypeOK'
<1>1. tx[b] = <<>> /\ pc \in [Bridges -> Pcs] /\ UNCHANGED <<tx, tx_for>>
  BY Unwritten DEF TypeOK, Types, Pcs, writing
<1>2. /\ pc' \in [Bridges -> Pcs] /\ pc'[b] = l /\ \A d \in Bridges \ {b} : pc'[d] = pc[d]
  BY <1>1 DEF Goto, Pcs
<1>3. \A d \in Bridges : WriterShape(d)'
  BY <1>1, <1>2 DEF TypeOK, WriterShape
<1>4. /\ stage' \in [Bridges -> Stages] /\ hdr' \in [Bridges -> AllTokens]
      /\ want' \in [Bridges -> Nat] /\ work' \in [Bridges -> Seq(AllTokens)]
      /\ \A d \in Bridges : ReaderShape(d)'
  BY <1>2, ReadEnded, ReaderReset, ReaderKept
<1>5. Types'
  BY <1>1, <1>2, <1>4 DEF TypeOK, Types, Pcs, Stages
<1>6. (\A d \in Bridges : SentShape(d)') /\ \A d \in Bridges : Len(queue'[d]) <= Cap
  BY DEF TypeOK, SentShape
<1> QED
  BY <1>3, <1>4, <1>5, <1>6 DEF TypeOK

\* One that is answered.
LEMMA AckType ==
  ASSUME TypeOK, NEW b \in Bridges, NEW f \in AllFrames, EndRead(b),
         BeginWrite(b, f, "ack"), pc[b] \in {"read", "publish"},
         link' \in [Bridges -> Seq(AllTokens)], \A d \in Bridges : Len(link'[d]) <= Room,
         queue' \in [Bridges -> Seq([msg : AllMsgs, hops : Nat])],
         \A d \in Bridges : Len(queue'[d]) <= Cap,
         accepted' \in [Bridges -> Seq(AllFrames)], stray' \in [Bridges -> BOOLEAN],
         UNCHANGED <<with_bus, published, seq_ctr, printed_pass, sent, short, lost>>
  PROVE  TypeOK'
<1>1. /\ tx' \in [Bridges -> Seq(AllTokens)] /\ tx_for' \in [Bridges -> Kinds]
      /\ pc' \in [Bridges -> Pcs] /\ \A d \in Bridges \ {b} : pc'[d] = pc[d]
      /\ \A d \in Bridges : WriterShape(d)'
  <2>1. "ack" \in Kinds \ {"none"}
    BY DEF Kinds
  <2> QED
    BY <2>1, WriteBegun
<1>2. /\ stage' \in [Bridges -> Stages] /\ hdr' \in [Bridges -> AllTokens]
      /\ want' \in [Bridges -> Nat] /\ work' \in [Bridges -> Seq(AllTokens)]
      /\ \A d \in Bridges : ReaderShape(d)'
  BY <1>1, ReadEnded, ReaderReset, ReaderKept
<1>3. Types'
  BY <1>1, <1>2 DEF TypeOK, Types, Pcs, Kinds, Stages
<1>4. \A d \in Bridges : SentShape(d)'
  BY DEF TypeOK, SentShape
<1> QED
  BY <1>1, <1>2, <1>3, <1>4 DEF TypeOK

LEMMA HeaderType ==
  ASSUME TypeOK, NEW b \in Bridges, ReadHeader(b) PROVE TypeOK'
<1>1. Reads(b, "hdr") /\ UNCHANGED <<queue, printed_pass, writing, decoded>>
  BY DEF ReadHeader
<1>2. /\ pc[b] = "read" /\ stage[b] = "hdr" /\ Head(link[b]) \in AllTokens
      /\ link' \in [Bridges -> Seq(AllTokens)] /\ \A d \in Bridges : Len(link'[d]) <= Room
  BY <1>1, ReadOff DEF Stages
<1>3. PICK len \in Lengths(Head(link[b])) :
        /\ IF TooLong(len) THEN EndRead(b) /\ Goto(b, "loop")
           ELSE /\ hdr' = [hdr EXCEPT ![b] = Head(link[b])]
                /\ want' = [want EXCEPT ![b] = len]
                /\ ToStage(b, IF len = 0 THEN "crc" ELSE "payload")
                /\ UNCHANGED <<pc, work>>
        /\ lost' = [lost EXCEPT ![b] = @ \/ TooLong(len) \/ Cuts(Head(link[b]))]
  BY DEF ReadHeader
<1>0. lost' \in [Bridges -> BOOLEAN] /\ UNCHANGED <<accepted, stray>>
  <2>1. lost \in [Bridges -> BOOLEAN]
    BY DEF TypeOK, Types
  <2>2. (lost[b] \/ TooLong(len) \/ Cuts(Head(link[b]))) \in BOOLEAN
    OBVIOUS
  <2> QED
    BY <1>1, <1>3, <2>1, <2>2 DEF decoded
<1>4. len \in Nat
  <2>1. Len(Bytes[Head(link[b]).of.msg]) \in Nat /\ LenSpace \in Nat \ {0}
    BY <1>2, FrameTokens, SizeAssumption DEF AllTokens
  <2>2. 0..MaxFrame+1 \subseteq Nat
    BY SizeAssumption
  <2>3. \A n \in Nat, m \in Nat \ {0} : n % m \in Nat
    OBVIOUS
  <2> QED
    BY <1>3, <2>1, <2>2, <2>3, Zenon DEF Lengths
<1>5. CASE TooLong(len)
  <2>1. printed_pass' \in [Bridges -> BOOLEAN] /\ stray' \in [Bridges -> BOOLEAN]
    BY <1>0, <1>1 DEF TypeOK, Types
  <2> QED
    BY <1>0, <1>1, <1>2, <1>3, <1>5, <2>1, EndType DEF Reads
<1>6. CASE ~TooLong(len)
  <2>1. /\ stage \in [Bridges -> Stages] /\ hdr \in [Bridges -> AllTokens]
        /\ want \in [Bridges -> Nat] /\ work \in [Bridges -> Seq(AllTokens)]
        /\ work[b] = <<>>
    BY <1>2 DEF TypeOK, Types, Stages, ReaderShape
  <2>2. /\ hdr' = [hdr EXCEPT ![b] = Head(link[b])] /\ want' = [want EXCEPT ![b] = len]
        /\ stage' = [stage EXCEPT ![b] = IF len = 0 THEN "crc" ELSE "payload"]
        /\ UNCHANGED <<pc, work>>
    BY <1>3, <1>6 DEF ToStage
  <2>3. /\ hdr' \in [Bridges -> AllTokens] /\ want' \in [Bridges -> Nat]
        /\ stage' \in [Bridges -> Stages] /\ work' \in [Bridges -> Seq(AllTokens)]
        /\ want'[b] = len /\ stage'[b] = (IF len = 0 THEN "crc" ELSE "payload")
        /\ \A d \in Bridges \ {b} : UNCHANGED <<stage[d], want[d], work[d]>>
    BY <1>2, <1>4, <2>1, <2>2 DEF Stages
  <2>4. ReaderShape(b)'
    <3>1. len <= MaxFrame /\ Len(<<>>) = 0 /\ (len # 0 => 0 < len)
      BY <1>4, <1>6, SizeAssumption DEF TooLong
    <3> QED
      BY <1>2, <1>4, <2>1, <2>2, <2>3, <3>1 DEF ReaderShape
  <2>5. "hdr" \in Stages
    BY DEF Stages
  <2> QED
    BY <1>0, <1>1, <2>2, <2>3, <2>4, <2>5, PartType
<1> QED
  BY <1>5, <1>6

LEMMA PayloadType ==
  ASSUME TypeOK, NEW b \in Bridges, ReadPayload(b) PROVE TypeOK'
<1>1. Reads(b, "payload") /\ UNCHANGED <<queue, pc, printed_pass, writing, hdr, want, decoded, lost>>
  BY DEF ReadPayload
<1>2. "payload" \in Stages /\ {"payload", "crc"} \subseteq Stages
  BY DEF Stages
<1>3. pc[b] = "read" /\ stage[b] = "payload" /\ Head(link[b]) \in AllTokens
  BY <1>1, <1>2, ReadOff
<1>4. /\ stage \in [Bridges -> Stages] /\ work \in [Bridges -> Seq(AllTokens)]
      /\ hdr' \in [Bridges -> AllTokens] /\ want' \in [Bridges -> Nat] /\ want[b] \in Nat
      /\ Len(work[b]) < want[b] /\ want[b] <= MaxFrame
  BY <1>1, <1>3 DEF TypeOK, Types, Stages, ReaderShape
<1>5. /\ Append(work[b], Head(link[b])) \in Seq(AllTokens) /\ Len(work[b]) \in Nat
      /\ Len(Append(work[b], Head(link[b]))) = Len(work[b]) + 1
  BY <1>3, <1>4, Appended
<1>6. /\ work' = [work EXCEPT ![b] = Append(@, Head(link[b]))]
      /\ stage' = [stage EXCEPT ![b] = IF Len(work[b]) + 1 = want[b] THEN "crc" ELSE "payload"]
  BY DEF ReadPayload, ToStage
<1>7. /\ work' \in [Bridges -> Seq(AllTokens)] /\ stage' \in [Bridges -> Stages]
      /\ Len(work'[b]) = Len(work[b]) + 1
      /\ stage'[b] = (IF Len(work[b]) + 1 = want[b] THEN "crc" ELSE "payload")
      /\ \A d \in Bridges \ {b} : UNCHANGED <<stage[d], want[d], work[d]>>
  BY <1>1, <1>2, <1>4, <1>5, <1>6
<1>8. ReaderShape(b)'
  <2>1. /\ Len(work'[b]) <= want[b]
        /\ Len(work[b]) + 1 # want[b] => Len(work'[b]) < want[b]
    BY <1>4, <1>5, <1>7
  <2> QED
    BY <1>1, <1>3, <1>4, <1>7, <2>1 DEF ReaderShape
<1>9. lost' \in [Bridges -> BOOLEAN]
  BY <1>1 DEF TypeOK, Types
<1> QED
  BY <1>1, <1>2, <1>4, <1>7, <1>8, <1>9, PartType

LEMMA MagicType ==
  ASSUME TypeOK, NEW b \in Bridges, ReadMagicLo(b) \/ ReadMagicHi(b) PROVE TypeOK'
<1>1. PICK s \in {"sync1", "sync2"}, t \in {"sync1", "sync2", "hdr"} :
        /\ Reads(b, s) /\ stage' = [stage EXCEPT ![b] = t]
        /\ UNCHANGED <<queue, pc, printed_pass, writing, hdr, want, work, decoded, lost>>
  BY DEF ReadMagicLo, ReadMagicHi, ToStage
<1>2. s \in Stages /\ t \in Stages
  BY DEF Stages
<1>3. pc[b] = "read" /\ stage[b] = s
  BY <1>1, <1>2, ReadOff
<1>4. /\ stage' \in [Bridges -> Stages] /\ hdr' \in [Bridges -> AllTokens]
      /\ want' \in [Bridges -> Nat] /\ work' \in [Bridges -> Seq(AllTokens)]
      /\ stage'[b] = t /\ \A d \in Bridges \ {b} : UNCHANGED <<stage[d], want[d], work[d]>>
  BY <1>1, <1>2 DEF TypeOK, Types, Stages
<1>5. ReaderShape(b)'
  BY <1>1, <1>3, <1>4 DEF TypeOK, ReaderShape
<1>6. lost' \in [Bridges -> BOOLEAN]
  BY <1>1 DEF TypeOK, Types
<1> QED
  BY <1>1, <1>2, <1>4, <1>5, <1>6, PartType

\* What goes to the bus, or is answered at once.
LEMMA DeliverType ==
  ASSUME TypeOK, NEW b \in Bridges, NEW f \in AllFrames, Reads(b, "crc"), Deliver(b, f),
         accepted' \in [Bridges -> Seq(AllFrames)], stray' \in [Bridges -> BOOLEAN]
  PROVE  TypeOK'
<1>1. /\ UNCHANGED <<queue, printed_pass, lost>>
      /\ IF HasBus(b) /\ want[b] # 0
         THEN /\ Goto(b, "publish") /\ hdr' = [hdr EXCEPT ![b] = [of |-> f, k |-> 3]]
              /\ UNCHANGED <<writing, stage, want, work>>
         ELSE BeginWrite(b, AckFrame(f), "ack") /\ EndRead(b)
  BY DEF Deliver
<1>2. /\ pc[b] = "read" /\ link' \in [Bridges -> Seq(AllTokens)]
      /\ stage[b] = "crc" /\ \A d \in Bridges : Len(link'[d]) <= Room
  BY ReadOff DEF Stages
<1>3. UNCHANGED <<with_bus, published, seq_ctr, sent, short, queue, printed_pass, lost>>
  BY <1>1 DEF Reads
<1>4. CASE HasBus(b) /\ want[b] # 0
  <2>1. pc \in [Bridges -> Pcs] /\ tx[b] = <<>>
    BY <1>2, Unwritten DEF TypeOK, Types, Pcs
  <2>2. /\ pc' \in [Bridges -> Pcs] /\ pc'[b] = "publish"
        /\ \A d \in Bridges \ {b} : pc'[d] = pc[d]
    BY <1>1, <1>4, <2>1 DEF Goto, Pcs
  <2>3. UNCHANGED <<tx, tx_for, stage, want, work>>
    BY <1>1, <1>4 DEF writing
  <2>4. \A d \in Bridges : WriterShape(d)' /\ ReaderShape(d)'
    BY <1>2, <2>1, <2>2, <2>3 DEF TypeOK, WriterShape, ReaderShape
  <2>5. hdr' \in [Bridges -> AllTokens]
    <3>1. hdr \in [Bridges -> AllTokens] /\ [of |-> f, k |-> 3] \in AllTokens
      BY DEF TypeOK, Types, AllTokens
    <3> QED
      BY <1>1, <1>4, <3>1
  <2> QED
    BY <1>2, <1>3, <2>2, <2>3, <2>4, <2>5 DEF TypeOK, Types, Pcs, SentShape
<1>5. CASE ~(HasBus(b) /\ want[b] # 0)
  <2>1. /\ queue' \in [Bridges -> Seq([msg : AllMsgs, hops : Nat])]
        /\ \A d \in Bridges : Len(queue'[d]) <= Cap
    BY <1>3 DEF TypeOK, Types
  <2>2. AckFrame(f) \in AllFrames
    BY DEF AckFrame, Frame, AllFrames
  <2> QED
    BY <1>1, <1>2, <1>3, <1>5, <2>1, <2>2, AckType
<1> QED
  BY <1>4, <1>5

LEMMA DataReadType ==
  ASSUME TypeOK, NEW b \in Bridges, ReadData(b) \/ ReadStrayData(b) PROVE TypeOK'
<1>0. accepted \in [Bridges -> Seq(AllFrames)] /\ stray \in [Bridges -> BOOLEAN]
  BY DEF TypeOK, Types
<1>1. CASE ReadData(b)
  <2>1. /\ Reads(b, "crc") /\ Deliver(b, Decoded(b)) /\ UNCHANGED stray
        /\ accepted' = [accepted EXCEPT ![b] = Append(@, Decoded(b))]
    BY <1>1 DEF ReadData
  <2>2. accepted' \in [Bridges -> Seq(AllFrames)] /\ Decoded(b) \in AllFrames
    <3>1. Append(accepted[b], Decoded(b)) \in Seq(AllFrames)
      BY <1>0, DecodedType, Appended
    <3> QED
      BY <1>0, <2>1, <3>1, DecodedType
  <2> QED
    BY <1>0, <2>1, <2>2, DeliverType
<1>2. CASE ReadStrayData(b)
  <2>1. /\ Reads(b, "crc") /\ Deliver(b, StrayFrame) /\ UNCHANGED accepted
        /\ stray' = [stray EXCEPT ![b] = TRUE]
    BY <1>2 DEF ReadStrayData
  <2> QED
    BY <1>0, <2>1, DecodedType, DeliverType
<1> QED
  BY <1>1, <1>2

\* The process ends, wherever it is.
LEMMA PanicType ==
  ASSUME TypeOK, NEW b \in Bridges, Stop(b) \/ PublishPanics(b) PROVE TypeOK'
<1>1. /\ Goto(b, "done")
      /\ UNCHANGED <<with_bus, queue, published, seq_ctr, printed_pass, writing,
                     reading, link, sent, decoded, lost, short>>
  BY DEF Stop, PublishPanics
<1>2. pc' \in [Bridges -> Pcs] /\ \A d \in Bridges : WriterShape(d)' /\ ReaderShape(d)'
  BY <1>1, LoopMoves
<1> QED
  BY <1>1, <1>2 DEF TypeOK, Types, Pcs, SentShape, writing, reading, decoded

LEMMA LoopType ==
  ASSUME TypeOK, NEW b \in Bridges, Loop(b) PROVE TypeOK'
<1>0. /\ queue \in [Bridges -> Seq([msg : AllMsgs, hops : Nat])]
      /\ \A d \in Bridges : Len(queue[d]) <= Cap /\ Len(link[d]) <= Room
      /\ link \in [Bridges -> Seq(AllTokens)] /\ printed_pass \in [Bridges -> BOOLEAN]
      /\ accepted \in [Bridges -> Seq(AllFrames)] /\ stray \in [Bridges -> BOOLEAN]
      /\ lost \in [Bridges -> BOOLEAN]
      /\ Probe \in AllMsgs /\ {"start", "probe", "data"} \subseteq Kinds \ {"none"} /\ 0 \in Nat
  BY DEF TypeOK, Types, AllMsgs, Kinds
<1>1. CASE StartProbeBus(b)
  <2>1. tx[b] = <<>> /\ stage[b] = "sync1"
    BY <1>1, Unread, Unwritten DEF StartProbeBus
  <2>2. /\ pc' \in [Bridges -> Pcs]
        /\ \A d \in Bridges : WriterShape(d)' /\ ReaderShape(d)'
    BY <1>1, <2>1, LoopMoves DEF StartProbeBus
  <2>3. /\ queue' \in [Bridges -> Seq([msg : AllMsgs, hops : Nat])]
        /\ \A d \in Bridges : Len(queue'[d]) <= Cap
    BY <1>0, <1>1, Placed DEF StartProbeBus
  <2> QED
    BY <1>1, <2>2, <2>3
       DEF StartProbeBus, TypeOK, Types, Pcs, SentShape, writing, reading, decoded
<1>2. CASE StartProbeWire(b)
  BY <1>0, <1>2, DataType DEF StartProbeWire
<1>3. CASE Take(b)
  <2> DEFINE X == [msg : AllMsgs, hops : Nat]
             q == queue[b]
  <2>1. q # <<>> /\ queue' = [queue EXCEPT ![b] = Tail(q)] /\ q \in Seq(X)
    BY <1>0, <1>3 DEF Take
  <2>2. Head(q) \in X /\ Tail(q) \in Seq(X) /\ Len(q) \in Nat /\ Len(Tail(q)) = Len(q) - 1
    <3> HIDE DEF q, X
    <3> QED
      BY <2>1, Tailed
  <2>3. queue' \in [Bridges -> Seq(X)] /\ \A d \in Bridges : Len(queue'[d]) <= Cap
    <3> HIDE DEF X
    <3>1. /\ queue \in [Bridges -> Seq(X)]
          /\ Cap \in Nat /\ Len(q) <= Cap
      BY <1>0, SizeAssumption DEF X
    <3>2. Len(Tail(q)) <= Cap
      BY <2>2, <3>1
    <3>3. /\ queue' \in [Bridges -> Seq(X)] /\ queue'[b] = Tail(q)
          /\ \A d \in Bridges \ {b} : queue'[d] = queue[d]
      BY <2>1, <2>2, <3>1
    <3> QED
      BY <1>0, <3>2, <3>3
  <2>4. Head(q).msg \in AllMsgs /\ Head(q).hops \in Nat
    BY <2>2
  <2> QED
    BY <1>0, <1>3, <2>3, <2>4, DataType DEF Take
<1>4. CASE TakeNone(b)
  <2>1. tx[b] = <<>>
    BY <1>4, Unwritten DEF TakeNone
  <2>2. pc' \in [Bridges -> Pcs] /\ \A d \in Bridges : WriterShape(d)' /\ ReaderShape(d)'
    BY <1>4, <2>1, LoopMoves DEF TakeNone
  <2> QED
    BY <1>4, <2>2
       DEF TakeNone, TypeOK, Types, Pcs, SentShape, writing, reading, decoded
<1>5. CASE WriteSome(b) \/ WriteFull(b) \/ WriteClosed(b)
  BY <1>5, WriteType
<1>6. CASE ReadMagicLo(b) \/ ReadMagicHi(b)
  BY <1>6, MagicType
<1>7. CASE ReadHeader(b)
  BY <1>7, HeaderType
<1>8. CASE ReadPayload(b)
  BY <1>8, PayloadType
<1>9. CASE ReadBadCrc(b) \/ ReadAck(b) \/ ReadStrayAck(b)
  <2>1. /\ Reads(b, "crc") /\ EndRead(b) /\ Goto(b, "loop")
        /\ UNCHANGED <<queue, writing, accepted, lost>>
    BY <1>9 DEF ReadBadCrc, ReadAck, ReadStrayAck, Pass, decoded
  <2>2. printed_pass' \in [Bridges -> BOOLEAN] /\ stray' \in [Bridges -> BOOLEAN]
    BY <1>0, <1>9 DEF ReadBadCrc, ReadAck, ReadStrayAck, Pass, decoded
  <2>3. /\ pc[b] = "read" /\ link' \in [Bridges -> Seq(AllTokens)]
        /\ \A d \in Bridges : Len(link'[d]) <= Room
    BY <2>1, ReadOff DEF Stages
  <2> QED
    BY <1>0, <2>1, <2>2, <2>3, EndType DEF Reads
<1>10. CASE ReadData(b) \/ ReadStrayData(b)
  BY <1>10, DataReadType
<1>11. CASE Publish(b)
  <2>1. /\ queue' \in [Bridges -> Seq([msg : AllMsgs, hops : Nat])]
        /\ \A d \in Bridges : Len(queue'[d]) <= Cap
    BY <1>11, Placed, DecodedType DEF Publish
  <2> QED
    BY <1>0, <1>11, <2>1, AckType, DecodedType DEF Publish, decoded
<1>12. CASE ReadNone(b) \/ ReadClosed(b)
  <2>1. lost' \in [Bridges -> BOOLEAN]
    BY <1>0, <1>12 DEF ReadNone, ReadClosed
  <2> QED
    BY <1>0, <1>12, <2>1, EndType DEF ReadNone, ReadClosed, decoded
<1>13. CASE PublishPanics(b)
  BY <1>13, PanicType
<1> QED
  BY <1>1, <1>2, <1>3, <1>4, <1>5, <1>6, <1>7, <1>8, <1>9, <1>10, <1>11, <1>12, <1>13
     DEF Loop

LEMMA NextType == TypeOK /\ [Next]_usbVars => TypeOK'
<1> SUFFICES ASSUME TypeOK, [Next]_usbVars PROVE TypeOK'
  OBVIOUS
<1>1. ASSUME NEW m \in Msgs, ClientPublish(m) PROVE TypeOK'
  <2>1. Home[m] \in Bridges /\ m \in AllMsgs /\ 0 \in Nat
    BY MsgAssumption DEF AllMsgs
  <2>2. /\ queue' \in [Bridges -> Seq([msg : AllMsgs, hops : Nat])]
        /\ \A d \in Bridges : Len(queue'[d]) <= Cap
    BY <1>1, <2>1, Placed DEF ClientPublish
  <2>3. published' \subseteq Msgs
    BY <1>1 DEF ClientPublish, TypeOK, Types
  <2>4. UNCHANGED <<with_bus, pc, seq_ctr, printed_pass, tx, tx_for, stage, hdr, want, work,
                    link, sent, accepted, stray, lost, short>>
    BY <1>1 DEF ClientPublish, writing, reading, decoded
  <2>5. \A d \in Bridges : WriterShape(d)' /\ ReaderShape(d)' /\ SentShape(d)'
    BY <2>4 DEF TypeOK, WriterShape, ReaderShape, SentShape
  <2> QED
    BY <2>2, <2>3, <2>4, <2>5 DEF TypeOK, Types
<1>2. ASSUME NEW b \in Bridges, ProbeAgain(b) PROVE TypeOK'
  <2>1. Probe \in AllMsgs /\ "probe" \in Kinds \ {"none"} /\ 0 \in Nat
    BY DEF AllMsgs, Kinds
  <2>2. /\ queue \in [Bridges -> Seq([msg : AllMsgs, hops : Nat])]
        /\ \A d \in Bridges : Len(queue[d]) <= Cap
    BY DEF TypeOK, Types
  <2> QED
    BY <1>2, <2>1, <2>2, DataType DEF ProbeAgain
<1>3. ASSUME NEW b \in Bridges, Stop(b) PROVE TypeOK'
  BY <1>3, PanicType
<1>4. CASE UNCHANGED usbVars
  <2>1. Types'
    BY <1>4 DEF usbVars, TypeOK, Types
  <2>2. \A d \in Bridges : WriterShape(d)' /\ ReaderShape(d)' /\ SentShape(d)'
    BY <1>4 DEF usbVars, TypeOK, WriterShape, ReaderShape, SentShape
  <2>3. UNCHANGED <<link, queue>>
    BY <1>4 DEF usbVars
  <2> QED
    BY <2>1, <2>2, <2>3 DEF TypeOK
<1> QED
  BY <1>1, <1>2, <1>3, <1>4, LoopType DEF Next

LEMMA InitType == Init => TypeOK
<1> SUFFICES ASSUME Init PROVE TypeOK
  OBVIOUS
<1>1. /\ with_bus \in [Bridges -> {"none", "refused", "subscribed"}] /\ published = {}
      /\ queue = [b \in Bridges |-> <<>>] /\ link = [b \in Bridges |-> <<>>]
      /\ seq_ctr = [b \in Bridges |-> 0] /\ printed_pass = [b \in Bridges |-> FALSE]
      /\ tx = [b \in Bridges |-> <<>>] /\ tx_for = [b \in Bridges |-> "none"]
      /\ stage = [b \in Bridges |-> "sync1"] /\ hdr = [b \in Bridges |-> NoToken]
      /\ want = [b \in Bridges |-> 0] /\ work = [b \in Bridges |-> <<>>]
      /\ sent = [b \in Bridges |-> <<>>] /\ accepted = [b \in Bridges |-> <<>>]
      /\ short = [b \in Bridges |-> FALSE] /\ stray = [b \in Bridges |-> FALSE]
      /\ lost = [b \in Bridges |-> FALSE] /\ pc \in [Bridges -> {"start", "loop"}]
  BY DEF Init
<1>2. /\ Cap \in Nat /\ Room \in Nat /\ MaxFrame \in Nat /\ MaxSeq \in [Bridges -> Nat]
      /\ NoToken \in AllTokens
  BY SizeAssumption, NoTokenType
<1> HIDE DEF NoToken
<1>3. Types
  BY <1>1, <1>2 DEF Types
<1>4. ASSUME NEW b \in Bridges PROVE WriterShape(b) /\ ReaderShape(b) /\ SentShape(b)
  <2>1. pc[b] \in {"start", "loop"} /\ tx[b] = <<>> /\ stage[b] = "sync1"
    BY <1>1
  <2>2. /\ work[b] = <<>> /\ want[b] = 0 /\ seq_ctr[b] = 0 /\ sent[b] = <<>>
        /\ Len(<<>>) = 0 /\ DOMAIN <<>> = {} /\ MaxSeq[b] \in Nat
    BY <1>1, <1>2
  <2> QED
    BY <1>2, <2>1, <2>2 DEF WriterShape, ReaderShape, SentShape
<1> QED
  BY <1>1, <1>2, <1>3, <1>4 DEF TypeOK

-----------------------------------------------------------------------------
(* What a step does to the stream towards a bridge.                        *)

SameFrames(b) == UNCHANGED <<sent[Peer(b)], accepted[b]>>

\* Nothing, or a piece moves from the writer into the stream.
Kept(b) == Stream(b)' = Stream(b) /\ SameFrames(b)

\* What has not been written of a frame never will be.
Cut(b) == /\ Stream(b)' = link[b] /\ SameFrames(b)
          /\ short'[Peer(b)] \/ pc[b] = "done"

\* The peer begins to write a frame.
Extended(b) ==
  \E f \in AllFrames :
    /\ Stream(b)' = Stream(b) \o Tokens(f) /\ UNCHANGED accepted[b]
    /\ \/ f.chan = 0 /\ f.seq = Len(sent[Peer(b)])
          /\ sent'[Peer(b)] = Append(sent[Peer(b)], f)
       \/ f.chan = 1 /\ UNCHANGED sent[Peer(b)] /\ Earned(Peer(b))'

\* The bridge reads a token, and perhaps the last of a frame.
Taken(b) == /\ Stream(b) # <<>> /\ Stream(b)' = Tail(Stream(b))
            /\ UNCHANGED sent[Peer(b)]

Accepts(b) ==
  /\ IsData(Stream(b)[1]) /\ Stream(b)[1].k = FrameLen(Stream(b)[1].of)
  /\ accepted'[b] = Append(accepted[b], Stream(b)[1].of)

LEMMA StreamType ==
  ASSUME Types, NEW b \in Bridges
  PROVE  /\ link[b] \in Seq(AllTokens) /\ tx[Peer(b)] \in Seq(AllTokens)
         /\ Stream(b) \in Seq(AllTokens) /\ Len(Stream(b)) = Len(link[b]) + Len(tx[Peer(b)])
         /\ Len(link[b]) \in Nat /\ Len(tx[Peer(b)]) \in Nat
         /\ DOMAIN Stream(b) = 1..Len(link[b]) + Len(tx[Peer(b)])
         /\ \A k \in 1..Len(link[b]) : Stream(b)[k] = link[b][k]
         /\ \A k \in 1..Len(tx[Peer(b)]) : Stream(b)[Len(link[b]) + k] = tx[Peer(b)][k]
<1> DEFINE l == link[b]
           t == tx[Peer(b)]
<1>1. l \in Seq(AllTokens) /\ t \in Seq(AllTokens) /\ Stream(b) = l \o t
  BY Peers DEF Types, Stream
<1> HIDE DEF l, t
<1>2. /\ l \o t \in Seq(AllTokens) /\ Len(l \o t) = Len(l) + Len(t)
      /\ \A k \in 1..Len(l)+Len(t) : (l \o t)[k] = IF k <= Len(l) THEN l[k] ELSE t[k - Len(l)]
  BY <1>1, ConcatProperties
<1>3. Len(l) \in Nat /\ Len(t) \in Nat /\ DOMAIN (l \o t) = 1..Len(l)+Len(t)
  BY <1>1, <1>2
<1>4. ASSUME NEW k \in 1..Len(l) PROVE (l \o t)[k] = l[k]
  BY <1>2, <1>3
<1>5. ASSUME NEW k \in 1..Len(t) PROVE (l \o t)[Len(l) + k] = t[k]
  <2>1. Len(l) + k \in 1..Len(l)+Len(t) /\ ~(Len(l) + k <= Len(l)) /\ Len(l) + k - Len(l) = k
    BY <1>3
  <2> QED
    BY <1>2, <2>1
<1> QED
  BY <1>1, <1>2, <1>3, <1>4, <1>5 DEF l, t

LEMMA KeptStream ==
  ASSUME NEW b \in Bridges, UNCHANGED <<link[b], tx[Peer(b)]>>
  PROVE  Stream(b)' = Stream(b)
BY DEF Stream

LEMMA TakenStream ==
  ASSUME Types, NEW b \in Bridges, link[b] # <<>>, link'[b] = Tail(link[b]),
         UNCHANGED tx[Peer(b)]
  PROVE  /\ Stream(b) # <<>> /\ Stream(b)' = Tail(Stream(b))
         /\ Stream(b)[1] = Head(link[b])
<1> DEFINE l == link[b]
           t == tx[Peer(b)]
<1>1. /\ l \in Seq(AllTokens) /\ t \in Seq(AllTokens) /\ l # <<>>
      /\ Stream(b) = l \o t /\ Stream(b)' = Tail(l) \o t
  BY StreamType DEF Stream
<1> HIDE DEF l, t
<1>2. Tail(l) \o t = Tail(l \o t) /\ l \o t # <<>> /\ (l \o t)[1] = Head(l)
  BY <1>1
<1> QED
  BY <1>1, <1>2 DEF l

LEMMA ExtendedStream ==
  ASSUME Types, NEW b \in Bridges, NEW f \in AllFrames, UNCHANGED link[b],
         tx[Peer(b)] = <<>>, tx'[Peer(b)] = Tokens(f)
  PROVE  Stream(b)' = Stream(b) \o Tokens(f)
<1>1. link[b] \in Seq(AllTokens) /\ Stream(b) = link[b] \o <<>>
  BY StreamType DEF Stream
<1>2. Stream(b) = link[b]
  BY <1>1
<1> QED
  BY <1>2 DEF Stream

LEMMA CutStream ==
  ASSUME Types, NEW b \in Bridges, UNCHANGED link[b], tx'[Peer(b)] = <<>>
  PROVE  Stream(b)' = link[b]
<1>1. link[b] \in Seq(AllTokens) /\ Stream(b)' = link[b] \o <<>>
  BY StreamType DEF Stream
<1> QED
  BY <1>1

LEMMA MovedStream ==
  ASSUME Types, NEW b \in Bridges, NEW k \in 1..Len(tx[Peer(b)]),
         link'[b] = link[b] \o SubSeq(tx[Peer(b)], 1, k),
         tx'[Peer(b)] = IF k = Len(tx[Peer(b)]) THEN <<>>
                        ELSE SubSeq(tx[Peer(b)], k + 1, Len(tx[Peer(b)]))
  PROVE  Stream(b)' = Stream(b)
<1> DEFINE l == link[b]
           t == tx[Peer(b)]
           u == SubSeq(t, 1, k)
           v == IF k = Len(t) THEN <<>> ELSE SubSeq(t, k + 1, Len(t))
<1>1. /\ l \in Seq(AllTokens) /\ t \in Seq(AllTokens) /\ k \in 1..Len(t)
      /\ Stream(b) = l \o t /\ Stream(b)' = (l \o u) \o v
  BY StreamType DEF Stream
<1> HIDE DEF l, t
<1>2. u \in Seq(AllTokens) /\ Len(u) = k /\ \A j \in 1..k : u[j] = t[j]
  BY <1>1
<1>3. v \in Seq(AllTokens) /\ Len(v) = Len(t) - k /\ \A j \in 1..Len(t)-k : v[j] = t[k + j]
  BY <1>1
<1> HIDE DEF u, v
<1>4. Len(t) \in Nat /\ Len(u) + Len(v) = Len(t)
  BY <1>1, <1>2, <1>3
<1>5. u \o v = t
  <2>1. /\ u \o v \in Seq(AllTokens) /\ Len(u \o v) = Len(t)
        /\ \A j \in 1..Len(t) : (u \o v)[j] = IF j <= k THEN u[j] ELSE v[j - k]
    <3>1. /\ u \o v \in Seq(AllTokens) /\ Len(u \o v) = Len(u) + Len(v)
          /\ \A j \in 1..Len(u)+Len(v) :
               (u \o v)[j] = IF j <= Len(u) THEN u[j] ELSE v[j - Len(u)]
      BY <1>2, <1>3, ConcatProperties
    <3> QED
      BY <1>2, <1>4, <3>1
  <2>2. ASSUME NEW j \in 1..Len(t) PROVE (u \o v)[j] = t[j]
    <3>1. CASE j <= k
      <4>1. j \in 1..k
        BY <1>1, <1>4, <3>1
      <4> QED
        BY <1>2, <2>1, <3>1, <4>1
    <3>2. CASE ~(j <= k)
      <4>1. j - k \in 1..Len(t)-k /\ k + (j - k) = j
        BY <1>1, <1>4, <3>2
      <4> QED
        BY <1>3, <2>1, <3>2, <4>1
    <3> QED
      BY <3>1, <3>2
  <2> QED
    BY <1>1, <2>1, <2>2, SeqEqual
<1>6. (l \o u) \o v = l \o (u \o v)
  BY <1>1, <1>2, <1>3, Joined
<1> QED
  BY <1>1, <1>5, <1>6

\* A right checksum is that of one frame, read whole.
LEMMA Checked ==
  ASSUME TypeOK, NEW b \in Bridges, NEW t \in AllTokens, ChecksumOk(b, t)
  PROVE  /\ Decoded(b) = hdr[b].of
         /\ t = [of |-> hdr[b].of, k |-> FrameLen(hdr[b].of)]
         /\ t.k = FrameLen(t.of) /\ t.of = hdr[b].of
<1> DEFINE f == hdr[b].of
           q == Tokens(f)
           n == FrameLen(f)
           w == work[b]
<1>1. f \in AllFrames /\ w \in Seq(AllTokens)
  BY DecodedType DEF TypeOK, Types
<1>2. /\ n \in Nat /\ n >= 4 /\ q \in Seq(AllTokens) /\ Len(q) = n
      /\ \A k \in 1..n : q[k] = [of |-> f, k |-> k]
  BY <1>1, FrameTokens
<1>3. SubSeq(q, 4, n) = Append(w, t)
  BY DEF ChecksumOk
<1>4. Decoded(b) = f \/ w # SubSeq(q, 4, n - 1)
  BY DEF Decoded
<1> HIDE DEF q, n, w, f
<1>5. /\ Append(w, t) \in Seq(AllTokens) /\ Len(w) \in Nat /\ Len(Append(w, t)) = Len(w) + 1
      /\ \A k \in 1..Len(w) : Append(w, t)[k] = w[k]
      /\ Append(w, t)[Len(w) + 1] = t
  BY <1>1, Appended
<1>6. Len(SubSeq(q, 4, n)) = n - 3 /\ \A i \in 1..n-3 : SubSeq(q, 4, n)[i] = q[i + 3]
  BY <1>2
<1>7. /\ SubSeq(q, 4, n - 1) \in Seq(AllTokens) /\ Len(SubSeq(q, 4, n - 1)) = n - 4
      /\ \A i \in 1..n-4 : SubSeq(q, 4, n - 1)[i] = q[i + 3]
  BY <1>2
<1>8. Len(w) = n - 4
  BY <1>2, <1>3, <1>5, <1>6
<1>9. t = q[n]
  <2>1. Len(w) + 1 \in 1..n-3 /\ (Len(w) + 1) + 3 = n
    BY <1>2, <1>8
  <2> QED
    BY <1>3, <1>5, <1>6, <2>1
<1>10. w = SubSeq(q, 4, n - 1)
  <2>1. ASSUME NEW i \in 1..Len(w) PROVE w[i] = SubSeq(q, 4, n - 1)[i]
    <3>1. i \in 1..n-3 /\ i \in 1..n-4
      BY <1>2, <1>5, <1>8
    <3> QED
      BY <1>3, <1>5, <1>6, <1>7, <3>1
  <2>2. Len(SubSeq(q, 4, n - 1)) = Len(w)
    BY <1>7, <1>8
  <2> DEFINE r == SubSeq(q, 4, n - 1)
  <2>3. r \in Seq(AllTokens) /\ Len(r) = Len(w) /\ \A i \in 1..Len(w) : w[i] = r[i]
    BY <1>7, <2>1, <2>2
  <2> HIDE DEF r
  <2>4. w = r
    BY <1>1, <2>3, SeqEqual
  <2> QED
    BY <2>4 DEF r
<1>11. n \in 1..n
  BY <1>2
<1>12. t = [of |-> f, k |-> n]
  BY <1>2, <1>9, <1>11
<1>13. t.of = f /\ t.k = n
  BY <1>12
<1> QED
  BY <1>4, <1>10, <1>12, <1>13 DEF n, f

-----------------------------------------------------------------------------
(* Every step is one of these, for either bridge.                          *)

\* Reads that are not answered.
Skims(b) == \/ ReadMagicLo(b) \/ ReadMagicHi(b) \/ ReadHeader(b) \/ ReadPayload(b)
            \/ ReadBadCrc(b) \/ ReadAck(b) \/ ReadStrayAck(b)

Moves(b) == \/ Kept(b) \/ Cut(b) \/ Extended(b)
            \/ Taken(b) /\ (Skims(b) \/ ReadStrayData(b)) /\ UNCHANGED accepted[b]
            \/ Taken(b) /\ ReadData(b) /\ Accepts(b)

LEMMA StillMoves ==
  ASSUME UNCHANGED <<link, tx, sent, accepted>>, NEW b \in Bridges
  PROVE  Moves(b)
BY KeptStream DEF Moves, Kept, SameFrames

LEMMA DataMoves ==
  ASSUME TypeOK, NEW b \in Bridges, NEW m \in AllMsgs, NEW h \in Nat,
         NEW for \in Kinds \ {"none"}, BeginData(b, m, h, for), pc[b] \notin {"write", "done"},
         UNCHANGED <<link, accepted>>
  PROVE  Kept(b) /\ Extended(Peer(b))
<1> DEFINE f == Frame(0, seq_ctr[b], m, h)
           p == Peer(b)
<1>0. Types /\ p \in Bridges /\ p # b /\ Peer(p) = b
  BY Peers DEF TypeOK
<1>1. /\ f \in AllFrames /\ f.chan = 0 /\ f.seq = Len(sent[b])
      /\ BeginWrite(b, f, for) /\ sent' = [sent EXCEPT ![b] = Append(@, f)]
  <2>1. f \in AllFrames /\ BeginWrite(b, f, for) /\ sent' = [sent EXCEPT ![b] = Append(@, f)]
    BY DataBegun
  <2>2. f.chan = 0
    BY DEF Frame
  <2>3. f.seq = Len(sent[b])
    BY DataBegun
  <2> QED
    BY <2>1, <2>2, <2>3
<1> HIDE DEF f, p
<1>2. /\ tx[b] = <<>> /\ tx'[b] = Tokens(f) /\ tx'[p] = tx[p]
  BY <1>0, <1>1, WriteBegun
<1>3. sent'[b] = Append(sent[b], f) /\ sent'[p] = sent[p]
  BY <1>0, <1>1 DEF Types
<1>4. Kept(b)
  BY <1>2, <1>3, KeptStream DEF Kept, SameFrames, p
<1>5. Stream(p)' = Stream(p) \o Tokens(f)
  BY <1>0, <1>1, <1>2, ExtendedStream
<1>6. Extended(p)
  BY <1>0, <1>1, <1>3, <1>5 DEF Extended
<1> QED
  BY <1>4, <1>6 DEF p

LEMMA AckMoves ==
  ASSUME TypeOK, NEW b \in Bridges, NEW f \in AllFrames, f.chan = 1, BeginWrite(b, f, "ack"),
         pc[b] \notin {"write", "done"}, UNCHANGED <<sent, accepted[Peer(b)]>>,
         UNCHANGED link[Peer(b)], Earned(b)'
  PROVE  UNCHANGED tx[Peer(b)] /\ Extended(Peer(b))
<1> DEFINE p == Peer(b)
<1>0. Types /\ p \in Bridges /\ p # b /\ Peer(p) = b
  BY Peers DEF TypeOK
<1> HIDE DEF p
<1>1. tx[b] = <<>> /\ tx'[b] = Tokens(f) /\ tx'[p] = tx[p]
  <2>1. "ack" \in Kinds \ {"none"}
    BY DEF Kinds
  <2> QED
    BY <1>0, <2>1, WriteBegun
<1>2. Stream(p)' = Stream(p) \o Tokens(f)
  BY <1>0, <1>1, ExtendedStream DEF p
<1>3. Earned(Peer(p))'
  BY <1>0 DEF Earned
<1>4. Extended(p)
  BY <1>0, <1>2, <1>3 DEF Extended, p
<1> QED
  BY <1>1, <1>4 DEF p

LEMMA WriteMoves ==
  ASSUME TypeOK, NEW b \in Bridges, WriteSome(b) \/ WriteFull(b) \/ WriteClosed(b)
  PROVE  Kept(b) /\ (Kept(Peer(b)) \/ Cut(Peer(b)))
<1> DEFINE p == Peer(b)
<1>0. /\ Types /\ p \in Bridges /\ p # b /\ Peer(p) = b /\ pc[b] = "write"
      /\ UNCHANGED <<sent, accepted>>
  BY Peers DEF TypeOK, WriteSome, WriteFull, WriteClosed, decoded
<1>1. tx \in [Bridges -> Seq(AllTokens)] /\ b \in Bridges
  BY <1>0 DEF Types
<1>2. CASE WriteSome(b)
  <2>1. PICK k \in 1..Len(tx[b]) :
          /\ link'[p] = link[p] \o SubSeq(tx[b], 1, k)
          /\ \A d \in Bridges : d # p => link'[d] = link[d]
          /\ IF k = Len(tx[b]) THEN AfterWrite(b)
             ELSE /\ tx' = [tx EXCEPT ![b] = SubSeq(@, k + 1, Len(@))]
                  /\ UNCHANGED <<tx_for, pc>>
    BY <1>2, WroteSome, Zenon
  <2> HIDE DEF p
  <2>2. /\ tx'[b] = IF k = Len(tx[b]) THEN <<>> ELSE SubSeq(tx[b], k + 1, Len(tx[b]))
        /\ tx'[p] = tx[p]
    <3>1. CASE k = Len(tx[b])
      BY <1>0, <2>1, <3>1, WriteEnded
    <3>2. CASE k # Len(tx[b])
      BY <1>0, <1>1, <2>1, <3>2
    <3> QED
      BY <3>1, <3>2
  <2>3. Stream(b)' = Stream(b)
    BY <1>0, <2>1, <2>2, KeptStream DEF p
  <2>4. Stream(p)' = Stream(p)
    BY <1>0, <2>1, <2>2, MovedStream
  <2> QED
    BY <1>0, <2>3, <2>4 DEF Kept, SameFrames, p
<1>3. CASE (WriteFull(b) \/ WriteClosed(b)) /\ AfterWrite(b)
  <2> HIDE DEF p
  <2>1. UNCHANGED link /\ tx'[b] = <<>> /\ tx'[p] = tx[p]
    BY <1>0, <1>3, WriteEnded DEF WriteFull, WriteClosed
  <2>2. Stream(b)' = Stream(b)
    BY <2>1, KeptStream DEF p
  <2>3. Stream(p)' = link[p]
    BY <1>0, <2>1, CutStream
  <2>4. short'[b] \/ pc[p] = "done"
    BY <1>0, <1>3 DEF WriteFull, WriteClosed, Alive, Types, p
  <2> QED
    BY <1>0, <2>2, <2>3, <2>4 DEF Kept, Cut, SameFrames, p
<1>4. CASE WriteClosed(b) /\ UNCHANGED writing
  <2>1. UNCHANGED <<link, tx>>
    BY <1>4 DEF WriteClosed, writing
  <2> QED
    BY <1>0, <2>1, KeptStream DEF Kept, SameFrames
<1> QED
  BY <1>2, <1>3, <1>4 DEF WriteFull, WriteClosed

LEMMA ReadMoves ==
  ASSUME TypeOK, NEW b \in Bridges, NEW s \in Stages, Reads(b, s), UNCHANGED tx[Peer(b)]
  PROVE  /\ Taken(b) /\ Stream(b)[1] = Head(link[b]) /\ UNCHANGED sent
         /\ UNCHANGED <<link[Peer(b)], sent[b], sent[Peer(b)]>>
<1>1. Types /\ Peer(b) \in Bridges /\ Peer(b) # b
  BY Peers DEF TypeOK
<1>2. /\ link[b] # <<>> /\ link'[b] = Tail(link[b]) /\ link'[Peer(b)] = link[Peer(b)]
      /\ UNCHANGED sent
  BY <1>1, ReadOff DEF Reads
<1>3. Stream(b) # <<>> /\ Stream(b)' = Tail(Stream(b)) /\ Stream(b)[1] = Head(link[b])
  BY <1>1, <1>2, TakenStream
<1> QED
  BY <1>2, <1>3 DEF Taken

LEMMA SkimMoves ==
  ASSUME TypeOK, NEW b \in Bridges, Skims(b)
  PROVE  Taken(b) /\ UNCHANGED <<accepted, tx>> /\ Kept(Peer(b))
<1>1. PICK s \in Stages : Reads(b, s)
  BY DEF Skims, ReadMagicLo, ReadMagicHi, ReadHeader, ReadPayload, ReadBadCrc, ReadAck,
     ReadStrayAck, Stages
<1>2. UNCHANGED <<accepted, tx>>
  BY DEF Skims, ReadMagicLo, ReadMagicHi, ReadHeader, ReadPayload, ReadBadCrc, ReadAck,
     ReadStrayAck, Pass, writing, decoded
<1>3. Taken(b) /\ UNCHANGED <<link[Peer(b)], sent>>
  BY <1>1, <1>2, ReadMoves
<1>4. Kept(Peer(b))
  BY <1>2, <1>3, Peers, KeptStream DEF Kept, SameFrames
<1> QED
  BY <1>2, <1>3, <1>4

LEMMA DeliverMoves ==
  ASSUME TypeOK, NEW b \in Bridges, NEW f \in AllFrames, Reads(b, "crc"), Deliver(b, f),
         Earned(b)', UNCHANGED accepted[Peer(b)]
  PROVE  /\ Taken(b) /\ Stream(b)[1] = Head(link[b]) /\ Head(link[b]) \in AllTokens
         /\ Kept(Peer(b)) \/ Extended(Peer(b))
<1> DEFINE p == Peer(b)
<1>1. IF HasBus(b) /\ want[b] # 0 THEN UNCHANGED writing
      ELSE BeginWrite(b, AckFrame(f), "ack")
  BY DEF Deliver
<1>2. /\ pc[b] = "read" /\ p \in Bridges /\ p # b /\ Peer(p) = b
      /\ tx \in [Bridges -> Seq(AllTokens)] /\ "crc" \in Stages /\ Head(link[b]) \in AllTokens
  BY ReadOff, Peers DEF TypeOK, Types, Stages
<1>3. AckFrame(f) \in AllFrames /\ AckFrame(f).chan = 1
  BY DEF AckFrame, Frame, AllFrames
<1>4. tx'[p] = tx[p]
  <2>1. CASE UNCHANGED writing
    BY <2>1 DEF writing
  <2>2. CASE BeginWrite(b, AckFrame(f), "ack")
    BY <1>2, <2>2 DEF BeginWrite
  <2> QED
    BY <1>1, <2>1, <2>2
<1>5. Taken(b) /\ Stream(b)[1] = Head(link[b]) /\ UNCHANGED <<sent, link[p]>>
  BY <1>2, <1>4, ReadMoves
<1>6. CASE UNCHANGED writing
  <2>1. UNCHANGED tx
    BY <1>6 DEF writing
  <2>2. Kept(p)
    BY <1>2, <1>5, <2>1, KeptStream DEF Kept, SameFrames
  <2> QED
    BY <1>2, <1>5, <2>2
<1>7. CASE BeginWrite(b, AckFrame(f), "ack")
  <2>1. Extended(p)
    BY <1>2, <1>3, <1>5, <1>7, AckMoves
  <2> QED
    BY <1>2, <1>5, <2>1
<1> QED
  BY <1>1, <1>6, <1>7

LEMMA AcceptMoves ==
  ASSUME TypeOK, NEW b \in Bridges, ReadData(b)
  PROVE  Taken(b) /\ Accepts(b) /\ (Kept(Peer(b)) \/ Extended(Peer(b)))
<1> DEFINE t == Head(link[b])
           f == Decoded(b)
           p == Peer(b)
<1>1. /\ Reads(b, "crc") /\ ChecksumOk(b, t) /\ f.chan = 0 /\ Deliver(b, f)
      /\ accepted' = [accepted EXCEPT ![b] = Append(@, f)]
  BY DEF ReadData
<1>2. /\ t \in AllTokens /\ p \in Bridges /\ p # b
      /\ accepted \in [Bridges -> Seq(AllFrames)] /\ "crc" \in Stages
  BY <1>1, ReadOff, Peers DEF TypeOK, Types, Stages
<1>3. f = hdr[b].of /\ f = t.of /\ t.k = FrameLen(t.of) /\ f \in AllFrames
  BY <1>1, <1>2, Checked, DecodedType
<1> HIDE DEF f, p, t
<1>4. /\ accepted'[b] = Append(accepted[b], f) /\ accepted'[p] = accepted[p]
      /\ accepted'[b] # <<>>
  <2> DEFINE q == accepted[b]
  <2>1. Append(q, f) # <<>>
    <3>1. q \in Seq(AllFrames)
      BY <1>2
    <3> HIDE DEF q
    <3> QED
      BY <1>3, <3>1, Appended
  <2> QED
    BY <1>1, <1>2, <2>1
<1>5. Earned(b)'
  BY <1>4 DEF Earned
<1>6. Taken(b) /\ Stream(b)[1] = t /\ (Kept(p) \/ Extended(p))
  BY <1>1, <1>3, <1>4, <1>5, DeliverMoves DEF p, t
<1>7. Accepts(b)
  BY <1>1, <1>3, <1>4, <1>6 DEF Accepts, IsData
<1> QED
  BY <1>6, <1>7 DEF p

LEMMA StrayMoves ==
  ASSUME TypeOK, NEW b \in Bridges, ReadStrayData(b)
  PROVE  /\ Taken(b) /\ UNCHANGED accepted /\ Earned(b)'
         /\ Kept(Peer(b)) \/ Extended(Peer(b))
<1>1. /\ Reads(b, "crc") /\ Deliver(b, StrayFrame) /\ UNCHANGED accepted
      /\ stray' = [stray EXCEPT ![b] = TRUE]
  BY DEF ReadStrayData
<1>2. stray \in [Bridges -> BOOLEAN]
  BY DEF TypeOK, Types
<1>3. Earned(b)'
  BY <1>1, <1>2 DEF Earned
<1> QED
  BY <1>1, <1>3, DecodedType, DeliverMoves

LEMMA PublishMoves ==
  ASSUME TypeOK, AcksEarned, NEW b \in Bridges, Publish(b)
  PROVE  Kept(b) /\ Extended(Peer(b))
<1>1. /\ pc[b] = "publish" /\ BeginWrite(b, AckFrame(hdr[b].of), "ack")
      /\ UNCHANGED <<link, sent, accepted, stray>>
  BY DEF Publish, decoded
<1>2. Earned(b)'
  BY <1>1 DEF AcksEarned, Earned
<1>3. AckFrame(hdr[b].of) \in AllFrames /\ AckFrame(hdr[b].of).chan = 1
  BY DecodedType DEF AckFrame, Frame
<1>4. UNCHANGED tx[Peer(b)] /\ Extended(Peer(b))
  BY <1>1, <1>2, <1>3, AckMoves
<1>5. Kept(b)
  BY <1>1, <1>4, KeptStream DEF Kept, SameFrames
<1> QED
  BY <1>4, <1>5

LEMMA StepMoves ==
  ASSUME TypeOK, AcksEarned, [Next]_usbVars, NEW b \in Bridges
  PROVE  Moves(b)
<1>1. ASSUME NEW m \in Msgs, ClientPublish(m) PROVE Moves(b)
  BY <1>1, StillMoves DEF ClientPublish, writing, decoded
<1>2. CASE UNCHANGED usbVars
  BY <1>2, StillMoves DEF usbVars
<1>3. ASSUME NEW c \in Bridges, Loop(c) \/ ProbeAgain(c) \/ Stop(c)
      PROVE  Moves(c) /\ Moves(Peer(c))
  <2>0. Peer(c) \in Bridges /\ Probe \in AllMsgs /\ 0 \in Nat
        /\ {"start", "probe", "data"} \subseteq Kinds \ {"none"}
    BY Peers DEF AllMsgs, Kinds
  <2>1. CASE \/ StartProbeBus(c) \/ PublishPanics(c) \/ TakeNone(c) \/ ReadNone(c)
             \/ ReadClosed(c) \/ Stop(c)
    <3>1. UNCHANGED <<link, tx, sent, accepted>>
      BY <2>1 DEF StartProbeBus, PublishPanics, TakeNone, ReadNone, ReadClosed, Stop,
         writing, decoded
    <3> QED
      BY <2>0, <3>1, StillMoves
  <2>2. CASE StartProbeWire(c) \/ ProbeAgain(c)
    <3>1. PICK for \in {"start", "probe"} :
            BeginData(c, Probe, 0, for) /\ pc[c] \in {"start", "loop"}
            /\ UNCHANGED <<link, accepted>>
      BY <2>2 DEF StartProbeWire, ProbeAgain, decoded
    <3> QED
      BY <2>0, <3>1, DataMoves DEF Moves
  <2>3. CASE Take(c)
    <3>1. /\ pc[c] \in {"loop", "bus"} /\ queue[c] # <<>>
          /\ BeginData(c, Head(queue[c]).msg, Head(queue[c]).hops, "data")
          /\ UNCHANGED <<link, accepted>>
      BY <2>3 DEF Take, decoded
    <3>2. Head(queue[c]).msg \in AllMsgs /\ Head(queue[c]).hops \in Nat
      <4> DEFINE X == [msg : AllMsgs, hops : Nat]
      <4>1. queue[c] \in Seq(X)
        BY DEF TypeOK, Types
      <4>2. Head(queue[c]) \in X
        <5> HIDE DEF X
        <5> QED
          BY <3>1, <4>1, Tailed
      <4> QED
        BY <4>2
    <3> QED
      BY <2>0, <3>1, <3>2, DataMoves DEF Moves
  <2>4. CASE WriteSome(c) \/ WriteFull(c) \/ WriteClosed(c)
    BY <2>4, WriteMoves DEF Moves
  <2>5. CASE Skims(c)
    BY <2>5, SkimMoves DEF Moves
  <2>6. CASE ReadData(c)
    BY <2>6, AcceptMoves DEF Moves
  <2>7. CASE Publish(c)
    BY <2>7, PublishMoves DEF Moves
  <2>8. CASE ReadStrayData(c)
    BY <2>8, StrayMoves DEF Moves
  <2> QED
    BY <1>3, <2>1, <2>2, <2>3, <2>4, <2>5, <2>6, <2>7, <2>8 DEF Loop, Skims
<1>4. \A c \in Bridges : b = c \/ b = Peer(c)
  BY Peers
<1> QED
  BY <1>1, <1>2, <1>3, <1>4 DEF Next

-----------------------------------------------------------------------------
(* What each move leaves of Traceable.                                      *)

LEMMA TokenParts ==
  ASSUME NEW t \in AllTokens
  PROVE  t.of \in AllFrames /\ t.of.seq \in Nat /\ t.k \in Nat /\ t.of.chan \in {0, 1}
BY DEF AllTokens, AllFrames

LEMMA WindowTraced ==
  ASSUME NEW s \in Seq(AllTokens), NEW r \in Seq(AllTokens), NEW begun, NEW got, NEW i \in Nat,
         Traceable(s, begun, got), Len(r) + i <= Len(s), \A k \in 1..Len(r) : r[k] = s[k + i]
  PROVE  Traceable(r, begun, got)
<1>1. DOMAIN s = 1..Len(s) /\ DOMAIN r = 1..Len(r) /\ Len(s) \in Nat /\ Len(r) \in Nat
  OBVIOUS
<1> SUFFICES ASSUME NEW k \in 1..Len(r)
             PROVE  /\ r[k].k \in 1..FrameLen(r[k].of)
                    /\ IsData(r[k]) =>
                         /\ IsBegun(r[k].of, begun)
                         /\ \A j \in DOMAIN got : got[j].seq < r[k].of.seq
                         /\ \A j \in 1..Len(r) : j < k /\ IsData(r[j]) => Before(r[j], r[k])
  BY <1>1 DEF Traceable
<1>2. k + i \in 1..Len(s) /\ r[k] = s[k + i]
  BY <1>1
<1>3. /\ s[k + i].k \in 1..FrameLen(s[k + i].of)
      /\ IsData(s[k + i]) =>
           /\ IsBegun(s[k + i].of, begun)
           /\ \A j \in DOMAIN got : got[j].seq < s[k + i].of.seq
           /\ \A j \in 1..Len(s) : j < k + i /\ IsData(s[j]) => Before(s[j], s[k + i])
  BY <1>1, <1>2 DEF Traceable
<1>4. ASSUME NEW j \in 1..Len(r), j < k, IsData(r[j]), IsData(r[k]) PROVE Before(r[j], r[k])
  <2>1. j + i \in 1..Len(s) /\ j + i < k + i /\ r[j] = s[j + i]
    BY <1>1, <1>4
  <2> QED
    BY <1>2, <1>3, <1>4, <2>1
<1> QED
  BY <1>2, <1>3, <1>4

LEMMA ExtensionTraced ==
  ASSUME NEW s \in Seq(AllTokens), NEW begun \in Seq(AllFrames), NEW got \in Seq(AllFrames),
         NEW f \in AllFrames, NEW more \in Seq(AllFrames), Traceable(s, begun, got),
         \A i \in DOMAIN got : got[i].seq < Len(begun),
         \/ f.chan = 0 /\ f.seq = Len(begun) /\ more = Append(begun, f)
         \/ f.chan = 1 /\ more = begun
  PROVE  Traceable(s \o Tokens(f), more, got)
<1> DEFINE q == Tokens(f)
           n == FrameLen(f)
           r == s \o q
<1>1. /\ q \in Seq(AllTokens) /\ n \in Nat /\ Len(q) = n
      /\ \A k \in 1..n : q[k] = [of |-> f, k |-> k]
  BY FrameTokens
<1>2. n = FrameLen(f)
  OBVIOUS
<1> HIDE DEF q, n
<1>3. /\ r \in Seq(AllTokens) /\ Len(r) = Len(s) + Len(q)
      /\ \A k \in 1..Len(s)+Len(q) : r[k] = IF k <= Len(s) THEN s[k] ELSE q[k - Len(s)]
  BY <1>1, ConcatProperties
<1>4. /\ Len(s) \in Nat /\ DOMAIN s = 1..Len(s) /\ DOMAIN r = 1..Len(s)+n
      /\ \A k \in 1..Len(s) : s[k] \in AllTokens
  BY <1>1, <1>3
<1>5. \A k \in 1..Len(s) : r[k] = s[k]
  BY <1>1, <1>3, <1>4
<1>6. \A k \in 1..Len(s)+n : k > Len(s) => /\ k - Len(s) \in 1..n
                                           /\ r[k] = [of |-> f, k |-> k - Len(s)]
  <2> SUFFICES ASSUME NEW k \in 1..Len(s)+n, k > Len(s)
               PROVE  k - Len(s) \in 1..n /\ r[k] = [of |-> f, k |-> k - Len(s)]
    OBVIOUS
  <2>1. k - Len(s) \in 1..n /\ k \in 1..Len(s)+Len(q) /\ ~(k <= Len(s))
    BY <1>1, <1>4
  <2> QED
    BY <1>1, <1>3, <2>1
<1> HIDE DEF r
<1>7. \A g \in AllFrames : IsBegun(g, begun) => IsBegun(g, more) /\ g.seq < Len(begun)
  <2> SUFFICES ASSUME NEW g \in AllFrames, IsBegun(g, begun)
               PROVE  IsBegun(g, more) /\ g.seq < Len(begun)
    OBVIOUS
  <2>1. /\ DOMAIN begun = 1..Len(begun) /\ g.seq \in Nat /\ Len(begun) \in Nat
        /\ DOMAIN Append(begun, f) = 1..Len(begun)+1
        /\ \A k \in 1..Len(begun) : Append(begun, f)[k] = begun[k]
    BY Appended DEF AllFrames
  <2>2. g.seq + 1 \in 1..Len(begun) /\ begun[g.seq + 1] = g
    BY <2>1 DEF IsBegun
  <2> QED
    BY <2>1, <2>2 DEF IsBegun
<1>8. f.chan = 0 => IsBegun(f, more)
  <2> SUFFICES ASSUME f.chan = 0 PROVE IsBegun(f, more)
    OBVIOUS
  <2>1. more = Append(begun, f) /\ f.seq = Len(begun)
    OBVIOUS
  <2>2. /\ DOMAIN Append(begun, f) = 1..Len(begun)+1 /\ Len(begun) \in Nat
        /\ Append(begun, f)[Len(begun) + 1] = f
    BY Appended
  <2> QED
    BY <2>1, <2>2 DEF IsBegun
<1> SUFFICES ASSUME NEW k \in 1..Len(s)+n
             PROVE  /\ r[k].k \in 1..FrameLen(r[k].of)
                    /\ IsData(r[k]) =>
                         /\ IsBegun(r[k].of, more)
                         /\ \A j \in DOMAIN got : got[j].seq < r[k].of.seq
                         /\ \A j \in 1..Len(s)+n : j < k /\ IsData(r[j]) => Before(r[j], r[k])
  BY <1>4 DEF Traceable, r, q
<1>9. CASE k <= Len(s)
  <2>1. k \in 1..Len(s) /\ r[k] = s[k]
    BY <1>4, <1>5, <1>9
  <2>2. /\ s[k].k \in 1..FrameLen(s[k].of)
        /\ IsData(s[k]) =>
             /\ IsBegun(s[k].of, begun)
             /\ \A j \in DOMAIN got : got[j].seq < s[k].of.seq
             /\ \A j \in 1..Len(s) : j < k /\ IsData(s[j]) => Before(s[j], s[k])
    BY <1>4, <2>1 DEF Traceable
  <2>3. s[k].of \in AllFrames
    BY <1>4, <2>1, TokenParts
  <2>4. ASSUME NEW j \in 1..Len(s)+n, j < k PROVE j \in 1..Len(s) /\ r[j] = s[j]
    <3>1. j \in 1..Len(s)
      BY <1>1, <1>4, <1>9, <2>4
    <3> QED
      BY <1>5, <3>1
  <2> QED
    BY <1>7, <2>1, <2>2, <2>3, <2>4
<1>10. CASE ~(k <= Len(s))
  <2>1. k - Len(s) \in 1..n /\ r[k] = [of |-> f, k |-> k - Len(s)]
    BY <1>1, <1>4, <1>6, <1>10
  <2>2. r[k].of = f /\ r[k].k = k - Len(s)
    BY <2>1
  <2>3. CASE f.chan = 0
    <3>1. f.seq = Len(begun) /\ Len(begun) \in Nat
      BY <2>3
    <3>2. ASSUME NEW j \in 1..Len(s)+n, j < k, IsData(r[j]) PROVE Before(r[j], r[k])
      <4>1. CASE j <= Len(s)
        <5>1. j \in 1..Len(s) /\ r[j] = s[j] /\ s[j].of \in AllFrames
          BY <1>4, <1>5, <4>1, TokenParts
        <5>2. IsBegun(s[j].of, begun)
          BY <1>4, <3>2, <5>1 DEF Traceable
        <5>3. s[j].of.seq < Len(begun)
          BY <1>7, <5>1, <5>2
        <5> QED
          BY <2>2, <3>1, <5>1, <5>3 DEF Before
      <4>2. CASE ~(j <= Len(s))
        <5>1. r[j].of = f /\ r[j].k = j - Len(s)
          BY <1>1, <1>4, <1>6, <4>2
        <5>2. j - Len(s) < k - Len(s)
          BY <1>1, <1>4, <3>2
        <5> QED
          BY <2>2, <5>1, <5>2 DEF Before
      <4> QED
        BY <4>1, <4>2
    <3> QED
      BY <1>2, <1>8, <2>1, <2>2, <2>3, <3>1, <3>2
  <2>4. CASE f.chan = 1
    BY <1>2, <2>1, <2>2, <2>4 DEF IsData
  <2> QED
    BY <2>3, <2>4
<1> QED
  BY <1>9, <1>10

LEMMA AcceptTraced ==
  ASSUME NEW s \in Seq(AllTokens), NEW begun \in Seq(AllFrames), NEW got \in Seq(AllFrames),
         Traceable(s, begun, got), s # <<>>, IsData(s[1]), s[1].k = FrameLen(s[1].of)
  PROVE  Traceable(Tail(s), begun, Append(got, s[1].of))
<1> DEFINE r == Tail(s)
           f == s[1].of
           more == Append(got, f)
<1>1. /\ r \in Seq(AllTokens) /\ Len(s) \in Nat \ {0} /\ Len(r) = Len(s) - 1
      /\ \A k \in 1..Len(s)-1 : r[k] = s[k + 1]
      /\ s[1] \in AllTokens /\ DOMAIN s = 1..Len(s) /\ DOMAIN r = 1..Len(s)-1
  BY Tailed
<1>2. /\ f \in AllFrames /\ s[1].k = FrameLen(f) /\ FrameLen(f) \in Nat
      /\ \A k \in 1..Len(s) : s[k] \in AllTokens
  BY <1>1, TokenParts, FrameTokens
<1>3. s[1].of = f
  OBVIOUS
<1> HIDE DEF r, f
<1>4. /\ DOMAIN more = 1..Len(got)+1 /\ Len(got) \in Nat
      /\ \A i \in 1..Len(got) : more[i] = got[i]
      /\ more[Len(got) + 1] = f /\ DOMAIN got = 1..Len(got)
  BY <1>2, Appended
<1> HIDE DEF more
<1>5. Traceable(r, begun, got)
  <2>1. Len(r) + 1 <= Len(s) /\ 1 \in Nat /\ \A k \in 1..Len(r) : r[k] = s[k + 1]
    BY <1>1
  <2> QED
    BY <1>1, <2>1, WindowTraced
<1>6. ASSUME NEW k \in 1..Len(s)-1, IsData(r[k]) PROVE f.seq < r[k].of.seq
  <2>1. k + 1 \in 1..Len(s) /\ 1 \in 1..Len(s) /\ 1 < k + 1 /\ r[k] = s[k + 1]
    BY <1>1
  <2>2. Before(s[1], s[k + 1])
    BY <1>1, <1>6, <2>1 DEF Traceable
  <2>3. s[k + 1].k \in 1..FrameLen(s[k + 1].of)
    BY <1>1, <2>1 DEF Traceable
  <2>4. ~(s[1].of = s[k + 1].of /\ s[1].k < s[k + 1].k)
    <3> SUFFICES ASSUME s[1].of = s[k + 1].of, s[1].k < s[k + 1].k PROVE FALSE
      OBVIOUS
    <3>1. s[k + 1].k \in 1..FrameLen(f) /\ FrameLen(f) < s[k + 1].k
      BY <1>2, <1>3, <2>3
    <3> QED
      BY <1>2, <3>1
  <2> QED
    BY <1>3, <2>1, <2>2, <2>4 DEF Before
<1>7. ASSUME NEW k \in 1..Len(s)-1, IsData(r[k]), NEW i \in 1..Len(got)+1
      PROVE  more[i].seq < r[k].of.seq
  <2>1. CASE i = Len(got) + 1
    BY <1>4, <1>6, <1>7, <2>1
  <2>2. CASE i # Len(got) + 1
    <3>1. i \in 1..Len(got)
      BY <1>4, <2>2
    <3> QED
      BY <1>1, <1>4, <1>5, <1>7, <3>1 DEF Traceable
  <2> QED
    BY <2>1, <2>2
<1>8. Traceable(r, begun, more)
  BY <1>1, <1>4, <1>5, <1>7 DEF Traceable
<1> QED
  BY <1>8 DEF r, f, more

-----------------------------------------------------------------------------
(* UsbInv is inductive.                                                     *)

AllBegun == \A b \in Bridges : OnlyBegun(b)

LEMMA FramesKnown ==
  ASSUME TypeOK, AllBegun, NEW b \in Bridges
  PROVE  \A i \in DOMAIN accepted[b] : /\ accepted[b][i].seq < Len(sent[Peer(b)])
                                       /\ accepted[b][i].chan = 0
<1>1. SentShape(Peer(b)) /\ sent[Peer(b)] \in Seq(AllFrames)
  BY Peers DEF TypeOK, Types
<1> DEFINE q == sent[Peer(b)]
<1>2. DOMAIN q = 1..Len(q) /\ Len(q) \in Nat
  <2> HIDE DEF q
  <2> QED
    BY <1>1 DEF q
<1> SUFFICES ASSUME NEW i \in DOMAIN accepted[b]
             PROVE  accepted[b][i].seq < Len(q) /\ accepted[b][i].chan = 0
  OBVIOUS
<1>3. PICK j \in DOMAIN q : accepted[b][i] = q[j]
  BY DEF AllBegun, OnlyBegun
<1>4. q[j].chan = 0 /\ q[j].seq = j - 1
  BY <1>1 DEF SentShape
<1> HIDE DEF q
<1> QED
  BY <1>2, <1>3, <1>4

\* The stream towards a bridge after any of the moves.
LEMMA MovesTrace ==
  ASSUME TypeOK, TypeOK', AllBegun, NEW b \in Bridges, Moves(b),
         Traceable(Stream(b), sent[Peer(b)], accepted[b])
  PROVE  Traceable(Stream(b)', sent'[Peer(b)], accepted'[b])
<1> DEFINE s == Stream(b)
           begun == sent[Peer(b)]
           got == accepted[b]
<1>1. /\ s \in Seq(AllTokens) /\ begun \in Seq(AllFrames) /\ got \in Seq(AllFrames)
      /\ sent'[Peer(b)] \in Seq(AllFrames) /\ Traceable(s, begun, got)
  BY StreamType, Peers DEF TypeOK, Types
<1>2. \A i \in DOMAIN got : got[i].seq < Len(begun)
  BY FramesKnown
<1>3. CASE Kept(b)
  BY <1>1, <1>3 DEF Kept, SameFrames
<1>4. CASE Cut(b)
  <2> DEFINE r == link[b]
  <2>1. /\ r \in Seq(AllTokens) /\ Len(r) + 0 <= Len(s) /\ 0 \in Nat
        /\ \A k \in 1..Len(r) : r[k] = s[k + 0]
    <3>1. /\ r \in Seq(AllTokens) /\ Len(r) \in Nat /\ Len(tx[Peer(b)]) \in Nat
          /\ Len(s) = Len(r) + Len(tx[Peer(b)]) /\ \A k \in 1..Len(r) : s[k] = r[k]
      BY StreamType DEF TypeOK
    <3> HIDE DEF r, s
    <3> QED
      BY <3>1
  <2>2. Traceable(r, begun, got)
    <3> HIDE DEF r, s, begun, got
    <3> QED
      BY <1>1, <2>1, WindowTraced
  <2> QED
    BY <1>4, <2>2 DEF Cut, SameFrames
<1>5. CASE Extended(b)
  <2>1. PICK f \in AllFrames :
          /\ Stream(b)' = s \o Tokens(f) /\ UNCHANGED accepted[b]
          /\ \/ f.chan = 0 /\ f.seq = Len(begun) /\ sent'[Peer(b)] = Append(begun, f)
             \/ f.chan = 1 /\ sent'[Peer(b)] = begun
    BY <1>5 DEF Extended
  <2> DEFINE more == sent'[Peer(b)]
  <2>2. Traceable(s \o Tokens(f), more, got)
    <3>1. \/ f.chan = 0 /\ f.seq = Len(begun) /\ more = Append(begun, f)
          \/ f.chan = 1 /\ more = begun
      BY <2>1
    <3>2. more \in Seq(AllFrames)
      BY <1>1
    <3> HIDE DEF s, begun, got, more
    <3> QED
      BY <1>1, <1>2, <3>1, <3>2, ExtensionTraced
  <2> QED
    BY <2>1, <2>2
<1>6. CASE Taken(b) /\ UNCHANGED accepted[b]
  <2> DEFINE r == Tail(s)
  <2>1. Traceable(r, begun, got)
    <3>1. s # <<>>
      BY <1>6 DEF Taken
    <3> HIDE DEF s, begun, got
    <3>2. /\ r \in Seq(AllTokens) /\ Len(r) + 1 <= Len(s) /\ 1 \in Nat
          /\ \A k \in 1..Len(r) : r[k] = s[k + 1]
      BY <1>1, <3>1, Tailed
    <3> HIDE DEF r
    <3> QED
      BY <1>1, <3>2, WindowTraced
  <2> QED
    BY <1>6, <2>1 DEF Taken
<1>7. CASE Taken(b) /\ Accepts(b)
  <2>1. /\ s # <<>> /\ IsData(s[1]) /\ s[1].k = FrameLen(s[1].of)
        /\ Stream(b)' = Tail(s) /\ sent'[Peer(b)] = begun
        /\ accepted'[b] = Append(got, s[1].of)
    BY <1>7 DEF Taken, Accepts
  <2>2. Traceable(Tail(s), begun, Append(got, s[1].of))
    <3> HIDE DEF s, begun, got
    <3> QED
      BY <1>1, <2>1, AcceptTraced
  <2> QED
    BY <2>1, <2>2
<1> QED
  BY <1>3, <1>4, <1>5, <1>6, <1>7 DEF Moves

LEMMA MovesGenuine ==
  ASSUME TypeOK, TypeOK', AllBegun, NEW b \in Bridges, Moves(b),
         Traceable(Stream(b), sent[Peer(b)], accepted[b])
  PROVE  /\ \A k \in DOMAIN accepted'[b] :
              \E j \in DOMAIN sent'[Peer(b)] : accepted'[b][k] = sent'[Peer(b)][j]
         /\ \A j, k \in DOMAIN accepted'[b] :
              j < k => accepted'[b][j].seq < accepted'[b][k].seq
         /\ accepted[b] # <<>> => accepted'[b] # <<>>
<1> DEFINE s == Stream(b)
           begun == sent[Peer(b)]
           got == accepted[b]
<1>1. /\ s \in Seq(AllTokens) /\ begun \in Seq(AllFrames) /\ got \in Seq(AllFrames)
      /\ Traceable(s, begun, got)
  BY StreamType, Peers DEF TypeOK, Types
<1>2. /\ \A k \in DOMAIN got : \E j \in DOMAIN begun : got[k] = begun[j]
      /\ \A j, k \in DOMAIN got : j < k => got[j].seq < got[k].seq
  BY DEF AllBegun, OnlyBegun
<1>3. CASE Kept(b) \/ Cut(b) \/ (Taken(b) /\ UNCHANGED accepted[b])
  BY <1>2, <1>3 DEF Kept, Cut, Taken, SameFrames
<1>4. CASE Extended(b)
  <2>1. PICK f \in AllFrames : /\ accepted'[b] = got
                               /\ sent'[Peer(b)] \in {begun, Append(begun, f)}
    BY <1>4 DEF Extended
  <2>2. \A j \in DOMAIN begun : j \in DOMAIN sent'[Peer(b)] /\ sent'[Peer(b)][j] = begun[j]
    <3>1. /\ DOMAIN begun = 1..Len(begun) /\ DOMAIN Append(begun, f) = 1..Len(begun)+1
          /\ Len(begun) \in Nat /\ \A j \in 1..Len(begun) : Append(begun, f)[j] = begun[j]
      <4> HIDE DEF begun
      <4> QED
        BY <1>1, Appended
    <3> HIDE DEF begun
    <3> QED
      BY <2>1, <3>1
  <2> QED
    BY <1>2, <2>1, <2>2
<1>5. CASE Taken(b) /\ Accepts(b)
  <2> DEFINE f == s[1].of
             more == Append(got, f)
  <2>1. /\ s # <<>> /\ IsData(s[1]) /\ sent'[Peer(b)] = begun /\ accepted'[b] = more
    BY <1>5 DEF Taken, Accepts
  <2> HIDE DEF s, begun, got
  <2>2. /\ 1 \in DOMAIN s /\ s[1] \in AllTokens
    BY <1>1, <2>1, Tailed
  <2>3. IsBegun(f, begun) /\ \A i \in DOMAIN got : got[i].seq < f.seq
    BY <1>1, <2>1, <2>2 DEF Traceable
  <2>4. f \in AllFrames
    BY <2>2, TokenParts
  <2> HIDE DEF f
  <2>5. /\ DOMAIN more = 1..Len(got)+1 /\ Len(got) \in Nat /\ DOMAIN got = 1..Len(got)
        /\ \A i \in 1..Len(got) : more[i] = got[i]
        /\ more[Len(got) + 1] = f /\ more # <<>>
    BY <1>1, <2>4, Appended
  <2> HIDE DEF more
  <2>6. ASSUME NEW k \in DOMAIN more PROVE \E j \in DOMAIN begun : more[k] = begun[j]
    <3>1. CASE k = Len(got) + 1
      BY <2>3, <2>5, <3>1 DEF IsBegun
    <3>2. CASE k # Len(got) + 1
      <4>1. k \in 1..Len(got)
        BY <2>5, <3>2
      <4> QED
        BY <1>2, <2>5, <4>1
    <3> QED
      BY <3>1, <3>2
  <2>7. ASSUME NEW j \in DOMAIN more, NEW k \in DOMAIN more, j < k
        PROVE  more[j].seq < more[k].seq
    <3>1. j \in 1..Len(got) /\ k \in 1..Len(got)+1
      BY <2>5, <2>7
    <3>2. CASE k = Len(got) + 1
      BY <2>3, <2>5, <3>1, <3>2
    <3>3. CASE k # Len(got) + 1
      <4>1. k \in 1..Len(got)
        BY <2>5, <3>1, <3>3
      <4> QED
        BY <1>2, <2>5, <2>7, <3>1, <4>1
    <3> QED
      BY <3>2, <3>3
  <2> QED
    BY <2>1, <2>5, <2>6, <2>7 DEF begun
<1> QED
  BY <1>3, <1>4, <1>5 DEF Moves

\* An answer among the tokens still to come was there before, or is begun now.
LEMMA MovesAnswer ==
  ASSUME TypeOK, NEW b \in Bridges, Moves(b), NEW k \in DOMAIN Stream(b)',
         ~IsData(Stream(b)'[k])
  PROVE  \/ \E j \in DOMAIN Stream(b) : ~IsData(Stream(b)[j])
         \/ Earned(Peer(b))'
<1> DEFINE s == Stream(b)
           l == link[b]
           t == tx[Peer(b)]
<1>1. /\ s \in Seq(AllTokens) /\ l \in Seq(AllTokens) /\ Len(l) \in Nat /\ Len(t) \in Nat
      /\ DOMAIN s = 1..Len(l)+Len(t) /\ DOMAIN s = 1..Len(s)
      /\ \A i \in 1..Len(l) : s[i] = l[i]
  BY StreamType DEF TypeOK
<1>2. CASE Kept(b)
  BY <1>2 DEF Kept
<1>3. CASE Cut(b)
  <2> HIDE DEF s, l, t
  <2>1. Stream(b)' = l
    BY <1>3 DEF Cut, l
  <2>2. k \in 1..Len(l)
    BY <1>1, <2>1
  <2>3. k \in DOMAIN s /\ s[k] = l[k]
    BY <1>1, <2>2
  <2> QED
    BY <2>1, <2>3 DEF s
<1>4. CASE Extended(b)
  <2>1. PICK f \in AllFrames :
          /\ Stream(b)' = s \o Tokens(f)
          /\ f.chan = 0 \/ Earned(Peer(b))'
    BY <1>4 DEF Extended
  <2> DEFINE q == Tokens(f)
  <2>2. /\ q \in Seq(AllTokens) /\ Len(q) = FrameLen(f) /\ FrameLen(f) \in Nat
        /\ \A i \in 1..FrameLen(f) : q[i] = [of |-> f, k |-> i]
    BY FrameTokens
  <2> HIDE DEF q, s
  <2>3. /\ s \o q \in Seq(AllTokens) /\ Len(s \o q) = Len(s) + Len(q)
        /\ \A i \in 1..Len(s)+Len(q) : (s \o q)[i] = IF i <= Len(s) THEN s[i] ELSE q[i - Len(s)]
    BY <1>1, <2>2, ConcatProperties
  <2>4. Len(s) \in Nat /\ DOMAIN (s \o q) = 1..Len(s)+Len(q)
    BY <1>1, <2>2, <2>3
  <2>5. k \in 1..Len(s)+Len(q) /\ Stream(b)'[k] = (s \o q)[k]
    BY <2>1, <2>4 DEF q
  <2>6. CASE k <= Len(s)
    <3>1. k \in DOMAIN s
      <4>1. k \in 1..Len(s)
        BY <2>2, <2>4, <2>5, <2>6
      <4> QED
        BY <1>1, <4>1
    <3>2. Stream(b)'[k] = s[k]
      BY <2>3, <2>5, <2>6
    <3> QED
      BY <3>1, <3>2 DEF s
  <2>7. CASE ~(k <= Len(s))
    <3>1. k - Len(s) \in 1..FrameLen(f)
      BY <2>2, <2>4, <2>5, <2>7
    <3>2. Stream(b)'[k].of = f
      BY <2>2, <2>3, <2>5, <2>7, <3>1
    <3>3. f.chan # 0
      BY <3>2 DEF IsData
    <3> QED
      BY <2>1, <3>3
  <2> QED
    BY <2>6, <2>7
<1>5. CASE Taken(b)
  <2>1. s # <<>> /\ Stream(b)' = Tail(s)
    BY <1>5 DEF Taken
  <2> HIDE DEF s
  <2>2. /\ DOMAIN s = 1..Len(s) /\ DOMAIN Tail(s) = 1..Len(s)-1 /\ Len(s) \in Nat \ {0}
        /\ \A i \in 1..Len(s)-1 : Tail(s)[i] = s[i + 1]
    BY <1>1, <2>1, Tailed
  <2>3. k \in 1..Len(s)-1 /\ k + 1 \in DOMAIN s
    BY <2>1, <2>2
  <2> QED
    BY <2>1, <2>2, <2>3 DEF s
<1> QED
  BY <1>2, <1>3, <1>4, <1>5 DEF Moves

LEMMA PublishBegun ==
  ASSUME TypeOK, [Next]_usbVars, NEW b \in Bridges, pc'[b] = "publish"
  PROVE  pc[b] = "publish" \/ ReadData(b) \/ ReadStrayData(b)
<1>0. pc \in [Bridges -> Pcs]
  BY DEF TypeOK, Types, Pcs
<1>1. CASE UNCHANGED usbVars
  BY <1>1 DEF usbVars
<1>2. ASSUME NEW m \in Msgs, ClientPublish(m) PROVE pc[b] = "publish"
  BY <1>2 DEF ClientPublish
<1>3. ASSUME NEW c \in Bridges, Loop(c) \/ ProbeAgain(c) \/ Stop(c)
      PROVE  \/ pc' = pc \/ ReadData(c) \/ ReadStrayData(c)
             \/ \E l \in Pcs \ {"publish"} : pc' = [pc EXCEPT ![c] = l]
  <2>1. Pcs \ {"publish"} = {"start", "loop", "bus", "write", "read", "done"}
    BY DEF Pcs
  <2>2. CASE \/ StartProbeBus(c) \/ TakeNone(c) \/ ReadMagicLo(c) \/ ReadMagicHi(c)
             \/ ReadHeader(c) \/ ReadPayload(c) \/ ReadBadCrc(c) \/ ReadAck(c)
             \/ ReadStrayAck(c) \/ ReadNone(c) \/ ReadClosed(c) \/ PublishPanics(c) \/ Stop(c)
    BY <2>1, <2>2 DEF StartProbeBus, TakeNone, ReadMagicLo, ReadMagicHi, ReadHeader,
       ReadPayload, ReadBadCrc, ReadAck, ReadStrayAck, Pass, ReadNone, ReadClosed,
       PublishPanics, Stop, Goto
  <2>3. CASE StartProbeWire(c) \/ ProbeAgain(c) \/ Take(c) \/ Publish(c)
    BY <2>1, <2>3 DEF StartProbeWire, ProbeAgain, Take, Publish, BeginData, BeginWrite, Goto
  <2>4. CASE WriteSome(c) \/ WriteFull(c) \/ WriteClosed(c)
    BY <2>1, <2>4 DEF WriteSome, WriteFull, WriteClosed, AfterWrite, Goto
  <2> QED
    BY <1>3, <2>2, <2>3, <2>4 DEF Loop
<1>4. ASSUME NEW c \in Bridges, c # b, Loop(c) \/ ProbeAgain(c) \/ Stop(c)
      PROVE  pc[b] = "publish"
  <2>1. CASE ReadData(c) \/ ReadStrayData(c)
    BY <1>0, <1>4, <2>1 DEF ReadData, ReadStrayData, Deliver, Goto, BeginWrite
  <2> QED
    BY <1>0, <1>3, <1>4, <2>1
<1>5. CASE Loop(b) \/ ProbeAgain(b) \/ Stop(b)
  <2>1. ASSUME NEW l \in Pcs \ {"publish"}, pc' = [pc EXCEPT ![b] = l] PROVE FALSE
    BY <1>0, <2>1
  <2> QED
    BY <1>3, <1>5, <2>1
<1> QED
  BY <1>1, <1>2, <1>4, <1>5 DEF Next

LEMMA PassPrinted ==
  ASSUME TypeOK, [Next]_usbVars, NEW b \in Bridges, printed_pass'[b]
  PROVE  printed_pass[b] \/ ReadAck(b) \/ ReadStrayAck(b)
<1>1. CASE UNCHANGED usbVars
  BY <1>1 DEF usbVars
<1>2. ASSUME NEW m \in Msgs, ClientPublish(m) PROVE printed_pass[b]
  BY <1>2 DEF ClientPublish
<1>3. ASSUME NEW c \in Bridges, Loop(c) \/ ProbeAgain(c) \/ Stop(c)
      PROVE  printed_pass[b] \/ ReadAck(b) \/ ReadStrayAck(b)
  <2>1. CASE ReadAck(c) \/ ReadStrayAck(c)
    <3>1. printed_pass \in [Bridges -> BOOLEAN]
      BY DEF TypeOK, Types
    <3>2. printed_pass' = [printed_pass EXCEPT ![c] = @ \/ c \in SelfTest]
      BY <2>1 DEF ReadAck, ReadStrayAck, Pass
    <3>3. CASE c # b
      BY <3>1, <3>2, <3>3
    <3> QED
      BY <2>1, <3>3
  <2>2. CASE ~ReadAck(c) /\ ~ReadStrayAck(c)
    <3>1. printed_pass' = printed_pass
      BY <1>3, <2>2 DEF Loop, StartProbeBus, StartProbeWire, ProbeAgain, Take, TakeNone,
         WriteSome, WriteFull, WriteClosed, ReadMagicLo, ReadMagicHi, ReadHeader, ReadPayload,
         ReadBadCrc, ReadData, ReadStrayData, Deliver, Publish, PublishPanics, ReadNone,
         ReadClosed, Stop
    <3> QED
      BY <3>1
  <2> QED
    BY <2>1, <2>2
<1> QED
  BY <1>1, <1>2, <1>3 DEF Next

\* What is stray stays so, and comes from a read.
LEMMA StrayGrows ==
  ASSUME TypeOK, [Next]_usbVars, NEW b \in Bridges
  PROVE  /\ stray[b] => stray'[b]
         /\ stray'[b] => stray[b] \/ ReadStrayData(b) \/ ReadStrayAck(b)
<1>0. stray \in [Bridges -> BOOLEAN]
  BY DEF TypeOK, Types
<1>1. CASE UNCHANGED usbVars
  BY <1>1 DEF usbVars
<1>2. ASSUME NEW m \in Msgs, ClientPublish(m) PROVE UNCHANGED stray
  BY <1>2 DEF ClientPublish, decoded
<1>3. ASSUME NEW c \in Bridges, ReadStrayData(c) \/ ReadStrayAck(c)
      PROVE  /\ stray[b] => stray'[b]
             /\ stray'[b] => stray[b] \/ ReadStrayData(b) \/ ReadStrayAck(b)
  <2>1. stray' = [stray EXCEPT ![c] = TRUE]
    BY <1>3 DEF ReadStrayData, ReadStrayAck
  <2>2. CASE c # b
    BY <1>0, <2>1, <2>2
  <2> QED
    BY <1>0, <1>3, <2>1, <2>2
<1>4. ASSUME NEW c \in Bridges, Loop(c) \/ ProbeAgain(c) \/ Stop(c),
             ~ReadStrayData(c), ~ReadStrayAck(c)
      PROVE  UNCHANGED stray
  BY <1>4 DEF Loop, StartProbeBus, StartProbeWire, ProbeAgain, Take, TakeNone,
     WriteSome, WriteFull, WriteClosed, ReadMagicLo, ReadMagicHi, ReadHeader, ReadPayload,
     ReadBadCrc, ReadData, ReadAck, Publish, PublishPanics, ReadNone, ReadClosed, Stop, decoded
<1> QED
  BY <1>1, <1>2, <1>3, <1>4 DEF Next

UsbStep == UsbInv /\ [Next]_usbVars

LEMMA AnswersStep == UsbStep => AcksEarned' /\ PassIsEarned'
<1> SUFFICES ASSUME UsbStep PROVE AcksEarned' /\ PassIsEarned'
  OBVIOUS
<1>1. /\ TypeOK /\ TypeOK' /\ AllBegun /\ PassIsEarned /\ AcksEarned /\ [Next]_usbVars
      /\ \A d \in Bridges : Traceable(Stream(d), sent[Peer(d)], accepted[d])
  BY NextType DEF UsbStep, UsbInv, AllBegun
<1>2. \A d \in Bridges : Moves(d)
  BY <1>1, StepMoves
<1>3. \A d \in Bridges : (Earned(d) => Earned(d)') /\ (stray[d] => stray'[d])
  <2> TAKE d \in Bridges
  <2>1. accepted[d] # <<>> => accepted'[d] # <<>>
    BY <1>1, <1>2, MovesGenuine
  <2>2. stray[d] => stray'[d]
    BY <1>1, StrayGrows
  <2> QED
    BY <2>1, <2>2 DEF Earned
<1>4. ASSUME NEW d \in Bridges, pc'[d] = "publish" PROVE Earned(d)'
  <2>1. CASE pc[d] = "publish"
    <3>1. Earned(d)
      BY <1>1, <2>1, Zenon DEF AcksEarned
    <3> QED
      BY <1>3, <3>1, Zenon DEF Earned
  <2>2. CASE ReadData(d)
    <3> DEFINE got == accepted[d]
               f == Stream(d)[1].of
    <3>1. Taken(d) /\ accepted'[d] = Append(got, f)
      BY <1>1, <2>2, AcceptMoves DEF Accepts
    <3>2. /\ got \in Seq(AllFrames) /\ Stream(d) \in Seq(AllTokens) /\ Stream(d) # <<>>
      BY <1>1, <3>1, StreamType DEF TypeOK, Types, Taken
    <3>3. f \in AllFrames
      BY <3>2, Tailed, TokenParts
    <3> HIDE DEF got, f
    <3>4. Append(got, f) # <<>>
      BY <3>2, <3>3, Appended
    <3> QED
      BY <3>1, <3>4 DEF Earned
  <2>3. CASE ReadStrayData(d)
    BY <1>1, <2>3, StrayMoves
  <2> QED
    BY <1>1, <1>4, <2>1, <2>2, <2>3, PublishBegun
<1>5. ASSUME NEW d \in Bridges, NEW k \in DOMAIN Stream(d)', ~IsData(Stream(d)'[k])
      PROVE  Earned(Peer(d))'
  <2>1. \/ \E j \in DOMAIN Stream(d) : ~IsData(Stream(d)[j])
        \/ Earned(Peer(d))'
    BY <1>1, <1>2, <1>5, MovesAnswer
  <2>2. (\E j \in DOMAIN Stream(d) : ~IsData(Stream(d)[j])) => Earned(Peer(d))
    BY <1>1 DEF AcksEarned
  <2>3. Peer(d) \in Bridges
    BY Peers
  <2> QED
    BY <1>3, <2>1, <2>2, <2>3, Zenon DEF Earned
<1>6. ASSUME NEW d \in Bridges, printed_pass'[d] PROVE Earned(Peer(d))' \/ stray'[d]
  <2>0. Peer(d) \in Bridges
    BY Peers
  <2>1. CASE printed_pass[d]
    <3>1. Earned(Peer(d)) \/ stray[d]
      BY <1>1, <2>1, Zenon DEF PassIsEarned
    <3> QED
      BY <1>3, <2>0, <3>1, Zenon DEF Earned
  <2>2. CASE ReadAck(d)
    <3> DEFINE t == Head(link[d])
    <3>1. /\ Reads(d, "crc") /\ ChecksumOk(d, t) /\ hdr[d].of.chan = 1
          /\ UNCHANGED <<tx, accepted>> /\ "crc" \in Stages
      BY <2>2 DEF ReadAck, Pass, writing, Stages
    <3>2. t \in AllTokens
      BY <1>1, <3>1, ReadOff
    <3>3. t.of = hdr[d].of
      BY <1>1, <3>1, <3>2, Checked
    <3>4. Taken(d) /\ Stream(d)[1] = t
      BY <1>1, <3>1, ReadMoves
    <3>5. Stream(d) \in Seq(AllTokens) /\ Stream(d) # <<>>
      BY <1>1, <3>4, StreamType DEF TypeOK, Taken
    <3>6. 1 \in DOMAIN Stream(d) /\ ~IsData(Stream(d)[1])
      BY <3>1, <3>3, <3>4, <3>5, Tailed DEF IsData
    <3>7. Earned(Peer(d))
      BY <1>1, <3>6 DEF AcksEarned
    <3> QED
      BY <1>3, <2>0, <3>7, Zenon DEF Earned
  <2>3. CASE ReadStrayAck(d)
    <3>1. stray' = [stray EXCEPT ![d] = TRUE] /\ stray \in [Bridges -> BOOLEAN]
      BY <1>1, <2>3 DEF ReadStrayAck, TypeOK, Types
    <3> QED
      BY <3>1
  <2> QED
    BY <1>1, <1>6, <2>1, <2>2, <2>3, PassPrinted
<1>7. AcksEarned'
  BY <1>4, <1>5 DEF AcksEarned
<1>8. PassIsEarned'
  BY <1>6 DEF PassIsEarned
<1> QED
  BY <1>7, <1>8

LEMMA InvariantStep == UsbInv /\ [Next]_usbVars => UsbInv'
<1> SUFFICES ASSUME UsbInv, [Next]_usbVars PROVE UsbInv'
  OBVIOUS
<1>1. /\ TypeOK /\ TypeOK' /\ AllBegun /\ AcksEarned
      /\ \A d \in Bridges : Traceable(Stream(d), sent[Peer(d)], accepted[d])
  BY NextType DEF UsbInv, AllBegun
<1>2. \A d \in Bridges : Moves(d)
  BY <1>1, StepMoves
<1>3. AcksEarned' /\ PassIsEarned'
  BY AnswersStep DEF UsbStep
<1>4. \A d \in Bridges : OnlyBegun(d)'
  BY <1>1, <1>2, MovesGenuine DEF OnlyBegun
<1>5. \A d \in Bridges : Traceable(Stream(d), sent[Peer(d)], accepted[d])'
  BY <1>1, <1>2, MovesTrace
<1> QED
  BY <1>1, <1>3, <1>4, <1>5 DEF UsbInv

LEMMA InvariantInit == Init => UsbInv
<1> SUFFICES ASSUME Init PROVE UsbInv
  OBVIOUS
<1>1. TypeOK
  BY InitType
<1>2. /\ \A b \in Bridges : /\ accepted[b] = <<>> /\ sent[b] = <<>> /\ link[b] = <<>>
                            /\ tx[b] = <<>> /\ printed_pass[b] = FALSE /\ pc[b] # "publish"
                            /\ stray[b] = FALSE /\ lost[b] = FALSE
  BY DEF Init
<1>3. ASSUME NEW b \in Bridges PROVE Stream(b) = <<>>
  <2>1. Stream(b) = <<>> \o <<>>
    BY <1>2, Peers DEF Stream
  <2> QED
    BY <2>1
<1>4. (\A b \in Bridges : OnlyBegun(b)) /\ PassIsEarned /\ AcksEarned
  BY <1>2, <1>3 DEF OnlyBegun, PassIsEarned, AcksEarned
<1>5. \A b \in Bridges : Traceable(Stream(b), sent[Peer(b)], accepted[b])
  BY <1>3 DEF Traceable
<1> QED
  BY <1>1, <1>4, <1>5 DEF UsbInv

(* Every reachable state has the right types and full buffers: no header,   *)
(* however it was put together, makes rx_buf longer than --max-frame.       *)
THEOREM UsbTypeCorrect == Spec => []TypeOK
<1>1. TypeOK /\ [Next]_usbVars => TypeOK'
  BY NextType
<1> QED
  BY <1>1, InitType, PTL DEF Spec

(* The inductive invariant: what comes towards a bridge are tokens of frames *)
(* its peer has begun, in their order, and none of a frame already decoded,  *)
(* and nobody answers who has not decoded anything.                          *)
THEOREM UsbInvariant == Spec => []UsbInv
<1>1. UsbInv /\ [Next]_usbVars => UsbInv'
  BY InvariantStep
<1> QED
  BY <1>1, InvariantInit, PTL DEF Spec

(* A self-test passes only after the peer has decoded a data frame, unless   *)
(* what the bridge took for an ACK was none.                                 *)
THEOREM PassEarned == Spec => []PassIsEarned
<1>1. UsbInv => PassIsEarned
  BY DEF UsbInv
<1> QED
  BY <1>1, UsbInvariant, PTL

-----------------------------------------------------------------------------
(* Streams of whole frames, and what is still to come on them.              *)

\* Like the token of f with number k.
At(f, k) == [of |-> f, k |-> k]

LEMMA NextToken ==
  ASSUME NEW t \in AllTokens, NEW n
  PROVE  [t EXCEPT !.k = n] = At(t.of, n) /\ [t EXCEPT !.k = @ + 1] = At(t.of, t.k + 1)
BY DEF AllTokens, At

LEMMA WholeTail ==
  ASSUME NEW s \in Seq(AllTokens), Whole(s), s # <<>>
  PROVE  /\ Whole(Tail(s)) /\ s[1] \in AllTokens
         /\ IF s[1].k = FrameLen(s[1].of)
            THEN Tail(s) # <<>> => Tail(s)[1].k = 1
            ELSE Tail(s) # <<>> /\ Tail(s)[1] = At(s[1].of, s[1].k + 1)
<1> DEFINE r == Tail(s)
<1>1. /\ r \in Seq(AllTokens) /\ Len(s) \in Nat \ {0} /\ Len(r) = Len(s) - 1
      /\ \A k \in 1..Len(s)-1 : r[k] = s[k + 1]
      /\ s[1] \in AllTokens /\ DOMAIN s = 1..Len(s) /\ DOMAIN r = 1..Len(s)-1
  BY Tailed
<1> HIDE DEF r
<1>2. \A k \in 1..Len(s) : IF s[k].k = FrameLen(s[k].of)
                           THEN k < Len(s) => s[k + 1].k = 1
                           ELSE k < Len(s) /\ s[k + 1] = [s[k] EXCEPT !.k = @ + 1]
  BY <1>1 DEF Whole
<1>3. Whole(r)
  <2> SUFFICES ASSUME NEW k \in 1..Len(s)-1
               PROVE  IF r[k].k = FrameLen(r[k].of)
                      THEN k < Len(r) => r[k + 1].k = 1
                      ELSE k < Len(r) /\ r[k + 1] = [r[k] EXCEPT !.k = @ + 1]
    BY <1>1 DEF Whole
  <2>1. k + 1 \in 1..Len(s) /\ r[k] = s[k + 1] /\ (k < Len(r) <=> k + 1 < Len(s))
    BY <1>1
  <2>2. k < Len(r) => r[k + 1] = s[(k + 1) + 1]
    BY <1>1
  <2>3. CASE s[k + 1].k = FrameLen(s[k + 1].of)
    BY <1>2, <2>1, <2>2, <2>3
  <2>4. CASE s[k + 1].k # FrameLen(s[k + 1].of)
    BY <1>2, <2>1, <2>2, <2>4
  <2> QED
    BY <2>3, <2>4
<1>4. r # <<>> => 1 < Len(s) /\ r[1] = s[1 + 1]
  <2> SUFFICES ASSUME r # <<>> PROVE 1 < Len(s) /\ r[1] = s[1 + 1]
    OBVIOUS
  <2>1. Len(r) # 0
    BY <1>1
  <2> QED
    BY <1>1, <2>1
<1>5. 1 < Len(s) => r # <<>>
  BY <1>1
<1>6. 1 \in 1..Len(s)
  BY <1>1
<1>7. CASE s[1].k = FrameLen(s[1].of)
  <2>1. 1 < Len(s) => s[1 + 1].k = 1
    BY <1>2, <1>6, <1>7
  <2> QED
    BY <1>1, <1>3, <1>4, <1>7, <2>1 DEF r
<1>8. CASE s[1].k # FrameLen(s[1].of)
  <2>1. 1 < Len(s) /\ s[1 + 1] = At(s[1].of, s[1].k + 1)
    BY <1>1, <1>2, <1>6, <1>8, NextToken
  <2> QED
    BY <1>1, <1>3, <1>4, <1>5, <1>8, <2>1 DEF r
<1> QED
  BY <1>7, <1>8

LEMMA ExtendedParts ==
  ASSUME NEW s \in Seq(AllTokens), NEW f \in AllFrames
  PROVE  /\ s \o Tokens(f) \in Seq(AllTokens)
         /\ Len(s) \in Nat /\ FrameLen(f) \in Nat /\ FrameLen(f) >= 4
         /\ Len(s \o Tokens(f)) = Len(s) + FrameLen(f)
         /\ DOMAIN (s \o Tokens(f)) = 1..Len(s)+FrameLen(f) /\ DOMAIN s = 1..Len(s)
         /\ \A k \in 1..Len(s) : (s \o Tokens(f))[k] = s[k]
         /\ \A k \in 1..FrameLen(f) : (s \o Tokens(f))[Len(s) + k] = At(f, k)
<1> DEFINE q == Tokens(f)
           n == FrameLen(f)
<1>1. /\ q \in Seq(AllTokens) /\ n \in Nat /\ Len(q) = n /\ n >= 4
      /\ \A k \in 1..n : q[k] = At(f, k)
  BY FrameTokens DEF At
<1> HIDE DEF q, n
<1>2. /\ s \o q \in Seq(AllTokens) /\ Len(s \o q) = Len(s) + Len(q)
      /\ \A k \in 1..Len(s)+Len(q) : (s \o q)[k] = IF k <= Len(s) THEN s[k] ELSE q[k - Len(s)]
  BY <1>1, ConcatProperties
<1>3. Len(s) \in Nat /\ DOMAIN (s \o q) = 1..Len(s)+n /\ DOMAIN s = 1..Len(s)
  BY <1>1, <1>2
<1>4. \A k \in 1..Len(s) : (s \o q)[k] = s[k]
  BY <1>1, <1>2, <1>3
<1>5. ASSUME NEW k \in 1..n PROVE (s \o q)[Len(s) + k] = At(f, k)
  <2>1. Len(s) + k \in 1..Len(s)+Len(q) /\ ~(Len(s) + k <= Len(s)) /\ Len(s) + k - Len(s) = k
    BY <1>1, <1>3
  <2> QED
    BY <1>1, <1>2, <2>1
<1> QED
  BY <1>1, <1>2, <1>3, <1>4, <1>5 DEF q, n

LEMMA WholeExtended ==
  ASSUME NEW s \in Seq(AllTokens), NEW f \in AllFrames, Whole(s)
  PROVE  /\ Whole(s \o Tokens(f)) /\ s \o Tokens(f) # <<>>
         /\ (s \o Tokens(f))[1] = IF s = <<>> THEN At(f, 1) ELSE s[1]
<1> DEFINE r == s \o Tokens(f)
           n == FrameLen(f)
           l == Len(s)
<1>1. /\ r \in Seq(AllTokens) /\ l \in Nat /\ n \in Nat /\ n >= 4 /\ Len(r) = l + n
      /\ DOMAIN r = 1..l+n /\ \A k \in 1..l : r[k] = s[k]
      /\ \A k \in 1..n : r[l + k] = At(f, k)
  BY ExtendedParts
<1>2. \A k \in 1..l : IF s[k].k = FrameLen(s[k].of) THEN k < l => s[k + 1].k = 1
                      ELSE k < l /\ s[k + 1] = [s[k] EXCEPT !.k = @ + 1]
  BY ExtendedParts DEF Whole
<1>3. \A k \in Nat : At(f, k).of = f /\ At(f, k).k = k /\ [At(f, k) EXCEPT !.k = @ + 1] = At(f, k + 1)
  BY DEF At
<1>4. s = <<>> <=> l = 0
  OBVIOUS
<1>5. n = FrameLen(f)
  OBVIOUS
<1> HIDE DEF r, n, l
<1>6. ASSUME NEW k \in 1..l+n
      PROVE  IF r[k].k = FrameLen(r[k].of) THEN k < l + n => r[k + 1].k = 1
             ELSE k < l + n /\ r[k + 1] = [r[k] EXCEPT !.k = @ + 1]
  <2>1. CASE k < l
    <3>1. k \in 1..l /\ k + 1 \in 1..l /\ k < l + n
      BY <1>1, <2>1
    <3>2. r[k] = s[k] /\ r[k + 1] = s[k + 1]
      BY <1>1, <3>1
    <3> QED
      BY <1>2, <2>1, <3>1, <3>2
  <2>2. CASE k = l
    <3>1. k \in 1..l /\ 1 \in 1..n /\ ~(k < l)
      BY <1>1, <2>2
    <3>2. r[k] = s[k] /\ r[k + 1] = At(f, 1)
      BY <1>1, <2>2, <3>1
    <3>3. s[k].k = FrameLen(s[k].of)
      BY <1>2, <3>1
    <3>4. r[k + 1].k = 1
      BY <1>3, <3>2
    <3> QED
      BY <3>2, <3>3, <3>4
  <2>3. CASE k > l
    <3> DEFINE i == k - l
    <3>1. i \in 1..n /\ l + i = k /\ l + (i + 1) = k + 1 /\ (k < l + n <=> i < n)
      BY <1>1, <2>3
    <3> HIDE DEF i
    <3>2. r[k] = At(f, i) /\ i \in Nat
      <4>1. r[l + i] = At(f, i)
        BY <1>1, <3>1
      <4>2. i \in Nat
        BY <1>1, <3>1
      <4> QED
        BY <3>1, <4>1, <4>2
    <3>3. r[k].of = f /\ r[k].k = i /\ [r[k] EXCEPT !.k = @ + 1] = At(f, i + 1)
      BY <1>3, <3>2
    <3>4. CASE i = n
      BY <1>1, <1>5, <3>1, <3>3, <3>4
    <3>5. CASE i # n
      <4>1. i < n /\ i + 1 \in 1..n
        BY <1>1, <3>1, <3>5
      <4>2. r[k + 1] = At(f, i + 1)
        <5>1. r[l + (i + 1)] = At(f, i + 1)
          BY <1>1, <4>1
        <5> QED
          BY <3>1, <5>1
      <4> QED
        BY <1>5, <3>1, <3>3, <3>5, <4>1, <4>2
    <3> QED
      BY <3>4, <3>5
  <2> QED
    BY <1>1, <2>1, <2>2, <2>3
<1>7. Whole(r)
  BY <1>1, <1>6 DEF Whole
<1>8. r # <<>>
  <2>1. Len(r) # 0
    BY <1>1
  <2> QED
    BY <2>1
<1>9. r[1] = IF s = <<>> THEN At(f, 1) ELSE s[1]
  <2>1. CASE l = 0
    <3>1. 1 \in 1..n /\ l + 1 = 1
      BY <1>1, <2>1
    <3> QED
      BY <1>1, <1>4, <2>1, <3>1
  <2>2. CASE l # 0
    <3>1. 1 \in 1..l
      BY <1>1, <2>2
    <3> QED
      BY <1>1, <1>4, <2>2, <3>1
  <2> QED
    BY <2>1, <2>2
<1> QED
  BY <1>7, <1>8, <1>9 DEF r

LEMMA PendingParts ==
  ASSUME NEW s \in Seq(AllTokens), NEW begun \in Seq(AllFrames), NEW got \in Seq(AllFrames)
  PROVE  Pending(s, begun, got) <=>
           /\ Len(got) <= Len(begun) /\ \A i \in 1..Len(got) : got[i] = begun[i]
           /\ \A j \in 1..Len(begun) : j > Len(got) =>
                \E k \in 1..Len(s) : s[k].of = begun[j] /\ s[k].k = FrameLen(s[k].of)
<1>1. DOMAIN s = 1..Len(s) /\ DOMAIN begun = 1..Len(begun) /\ DOMAIN got = 1..Len(got)
  OBVIOUS
<1> QED
  BY <1>1, Zenon DEF Pending

LEMMA PendingExtended ==
  ASSUME NEW s \in Seq(AllTokens), NEW begun \in Seq(AllFrames), NEW got \in Seq(AllFrames),
         NEW f \in AllFrames, NEW more \in Seq(AllFrames), Pending(s, begun, got),
         more \in {begun, Append(begun, f)}
  PROVE  Pending(s \o Tokens(f), more, got)
<1> DEFINE r == s \o Tokens(f)
           n == FrameLen(f)
<1>1. /\ n \in Nat /\ n >= 4 /\ Len(s) \in Nat /\ DOMAIN s = 1..Len(s)
      /\ DOMAIN r = 1..Len(s)+n /\ \A k \in 1..Len(s) : r[k] = s[k]
      /\ \A k \in 1..n : r[Len(s) + k] = At(f, k)
  BY ExtendedParts
<1>2. n = FrameLen(f)
  OBVIOUS
<1> HIDE DEF r, n
<1>3. /\ DOMAIN begun = 1..Len(begun) /\ Len(begun) \in Nat /\ Len(got) \in Nat
      /\ DOMAIN got = 1..Len(got) /\ DOMAIN Append(begun, f) = 1..Len(begun)+1
      /\ Len(Append(begun, f)) = Len(begun) + 1
      /\ \A k \in 1..Len(begun) : Append(begun, f)[k] = begun[k]
      /\ Append(begun, f)[Len(begun) + 1] = f
  BY Appended
<1>4. /\ Len(got) <= Len(begun) /\ \A i \in 1..Len(got) : got[i] = begun[i]
      /\ \A j \in 1..Len(begun) : j > Len(got) =>
           \E k \in 1..Len(s) : s[k].of = begun[j] /\ s[k].k = FrameLen(s[k].of)
  BY PendingParts
<1>5. /\ Len(begun) <= Len(more) /\ \A k \in 1..Len(begun) : more[k] = begun[k]
      /\ Len(more) \in Nat /\ DOMAIN more = 1..Len(more)
      /\ \A k \in 1..Len(more) : k \in 1..Len(begun) \/ (k = Len(begun) + 1 /\ more[k] = f)
  <2>1. CASE more = begun
    BY <1>3, <2>1
  <2>2. CASE more = Append(begun, f)
    BY <1>3, <2>2
  <2> QED
    BY <2>1, <2>2
<1>6. Len(got) <= Len(more) /\ \A i \in 1..Len(got) : got[i] = more[i]
  <2>1. \A i \in 1..Len(got) : i \in 1..Len(begun)
    BY <1>3, <1>4
  <2>2. \A i \in 1..Len(got) : more[i] = begun[i]
    BY <1>5, <2>1
  <2>3. \A i \in 1..Len(got) : got[i] = more[i]
    BY <1>4, <2>2, Zenon
  <2>4. Len(got) <= Len(more)
    <3>1. Len(got) <= Len(begun) /\ Len(begun) <= Len(more)
      BY <1>4, <1>5
    <3>2. \A i, j, k \in Nat : i <= j /\ j <= k => i <= k
      OBVIOUS
    <3> QED
      BY <1>3, <1>5, <3>1, <3>2, Zenon
  <2> QED
    BY <2>3, <2>4
<1>7. ASSUME NEW j \in 1..Len(more), j > Len(got)
      PROVE  \E k \in 1..Len(s)+n : r[k].of = more[j] /\ r[k].k = FrameLen(r[k].of)
  <2>1. CASE j \in 1..Len(begun)
    <3>1. PICK k \in 1..Len(s) : s[k].of = begun[j] /\ s[k].k = FrameLen(s[k].of)
      BY <1>4, <1>7, <2>1
    <3>2. k \in 1..Len(s)+n
      BY <1>1
    <3> QED
      BY <1>1, <1>5, <2>1, <3>1, <3>2
  <2>2. CASE more[j] = f
    <3>1. n \in 1..n /\ Len(s) + n \in 1..Len(s)+n
      BY <1>1
    <3>2. r[Len(s) + n] = At(f, n)
      BY <1>1, <3>1
    <3>3. r[Len(s) + n].of = f /\ r[Len(s) + n].k = FrameLen(f)
      BY <1>2, <3>2 DEF At
    <3> QED
      BY <2>2, <3>1, <3>3
  <2> QED
    BY <1>5, <1>7, <2>1, <2>2
<1>8. r \in Seq(AllTokens) /\ Len(r) = Len(s) + n
  BY ExtendedParts DEF r, n
<1>9. Pending(r, more, got)
  <2>1. \A j \in 1..Len(more) : j > Len(got) =>
          \E k \in 1..Len(r) : r[k].of = more[j] /\ r[k].k = FrameLen(r[k].of)
    BY <1>7, <1>8
  <2> QED
    BY <1>6, <1>8, <2>1, PendingParts, Zenon
<1> QED
  BY <1>9 DEF r

Numbered(begun) == \A j \in DOMAIN begun : begun[j].chan = 0 /\ begun[j].seq = j - 1

LEMMA PendingTail ==
  ASSUME NEW s \in Seq(AllTokens), s # <<>>, NEW begun \in Seq(AllFrames),
         NEW got \in Seq(AllFrames), Numbered(begun), Pending(s, begun, got),
         s[1].k = FrameLen(s[1].of) => s[1].of.chan # 0
  PROVE  Pending(Tail(s), begun, got)
<1> DEFINE r == Tail(s)
<1>1. /\ Len(s) \in Nat \ {0} /\ \A k \in 1..Len(s)-1 : r[k] = s[k + 1]
      /\ r \in Seq(AllTokens) /\ Len(r) = Len(s) - 1
  BY Tailed
<1> HIDE DEF r
<1>2. /\ Len(got) <= Len(begun) /\ \A i \in 1..Len(got) : got[i] = begun[i]
      /\ \A j \in 1..Len(begun) : j > Len(got) =>
           \E k \in 1..Len(s) : s[k].of = begun[j] /\ s[k].k = FrameLen(s[k].of)
  BY PendingParts
<1>3. ASSUME NEW j \in 1..Len(begun), j > Len(got)
      PROVE  \E k \in 1..Len(s)-1 : r[k].of = begun[j] /\ r[k].k = FrameLen(r[k].of)
  <2>1. PICK k \in 1..Len(s) : s[k].of = begun[j] /\ s[k].k = FrameLen(s[k].of)
    BY <1>2, <1>3
  <2>2. begun[j].chan = 0
    BY DEF Numbered
  <2>3. k # 1
    BY <2>1, <2>2
  <2>4. k - 1 \in 1..Len(s)-1 /\ (k - 1) + 1 = k
    BY <1>1, <2>3
  <2>5. r[k - 1] = s[k]
    BY <1>1, <2>4
  <2> QED
    BY <2>1, <2>4, <2>5
<1>4. Pending(r, begun, got)
  BY <1>1, <1>2, <1>3, PendingParts
<1> QED
  BY <1>4 DEF r

\* The first frame to be decoded is the one after the last decoded.
LEMMA PendingAccept ==
  ASSUME NEW s \in Seq(AllTokens), s # <<>>, NEW begun \in Seq(AllFrames),
         NEW got \in Seq(AllFrames), Numbered(begun), Pending(s, begun, got),
         Traceable(s, begun, got), IsData(s[1]), s[1].k = FrameLen(s[1].of)
  PROVE  Pending(Tail(s), begun, Append(got, s[1].of))
<1> DEFINE r == Tail(s)
           f == s[1].of
           more == Append(got, f)
           m == Len(got)
<1>1. /\ Len(s) \in Nat \ {0} /\ \A k \in 1..Len(s)-1 : r[k] = s[k + 1]
      /\ DOMAIN s = 1..Len(s) /\ s[1] \in AllTokens
      /\ r \in Seq(AllTokens) /\ Len(r) = Len(s) - 1
  BY Tailed
<1>2. /\ f \in AllFrames /\ f.seq \in Nat /\ s[1].of = f /\ 1 \in 1..Len(s)
  BY <1>1, TokenParts
<1> HIDE DEF r, f
<1>3. /\ m \in Nat /\ DOMAIN got = 1..m /\ DOMAIN more = 1..m+1 /\ Len(more) = m + 1
      /\ \A k \in 1..m : more[k] = got[k]
      /\ more[m + 1] = f
      /\ Len(begun) \in Nat /\ DOMAIN begun = 1..Len(begun)
  BY <1>2, Appended
<1>0. more \in Seq(AllFrames)
  BY <1>2, Appended
<1> HIDE DEF more, m
<1>4. /\ m <= Len(begun) /\ \A i \in 1..m : got[i] = begun[i]
      /\ \A j \in 1..Len(begun) : j > m =>
           \E k \in 1..Len(s) : s[k].of = begun[j] /\ s[k].k = FrameLen(s[k].of)
  BY PendingParts DEF m
<1>5. /\ f.seq + 1 \in 1..Len(begun) /\ begun[f.seq + 1] = f
      /\ \A i \in 1..m : got[i].seq < f.seq
  BY <1>1, <1>2, <1>3 DEF Traceable, IsBegun
<1>6. \A j \in 1..Len(begun) : begun[j].chan = 0 /\ begun[j].seq = j - 1
  BY <1>3 DEF Numbered
<1>7. f.seq >= m
  <2>1. CASE m = 0
    BY <1>2, <2>1
  <2>2. CASE m # 0
    <3>1. m \in 1..m /\ m \in 1..Len(begun)
      BY <1>3, <1>4, <2>2
    <3>2. m - 1 < f.seq
      BY <1>4, <1>5, <1>6, <3>1
    <3> QED
      BY <1>2, <1>3, <3>2
  <2> QED
    BY <2>1, <2>2
<1>8. f.seq <= m
  <2> SUFFICES ASSUME f.seq > m PROVE FALSE
    BY <1>2, <1>3
  <2> DEFINE j == m + 1
  <2>1. j \in 1..Len(begun) /\ j > m /\ begun[j].seq < f.seq
    <3>1. j \in 1..Len(begun) /\ j > m /\ j - 1 < f.seq
      BY <1>2, <1>3, <1>5
    <3> QED
      BY <1>6, <3>1
  <2> HIDE DEF j
  <2>2. PICK k \in 1..Len(s) : s[k].of = begun[j] /\ s[k].k = FrameLen(s[k].of)
    BY <1>4, <2>1
  <2>3. k # 1 /\ 1 < k
    <3>1. s[k].of # f
      BY <1>2, <1>6, <2>1, <2>2
    <3>2. k # 1
      BY <1>2, <3>1
    <3> QED
      BY <3>2
  <2>4. IsData(s[k])
    BY <1>6, <2>1, <2>2 DEF IsData
  <2>5. Before(s[1], s[k])
    BY <1>1, <1>2, <2>3, <2>4 DEF Traceable
  <2>6. begun[j].seq \in Nat
    BY <1>6, <2>1
  <2>7. f.seq < begun[j].seq \/ f = begun[j]
    BY <1>2, <2>2, <2>5 DEF Before
  <2> QED
    BY <1>2, <2>1, <2>6, <2>7
<1>9. f.seq = m /\ begun[m + 1] = f /\ m + 1 <= Len(begun) /\ m + 1 \in 1..Len(begun)
  BY <1>2, <1>3, <1>5, <1>7, <1>8
<1>10. \A i \in 1..m+1 : more[i] = begun[i]
  <2> SUFFICES ASSUME NEW i \in 1..m+1 PROVE more[i] = begun[i]
    OBVIOUS
  <2>1. i = m + 1 \/ i \in 1..m
    BY <1>3
  <2> QED
    BY <1>3, <1>4, <1>9, <2>1
<1>11. ASSUME NEW j \in 1..Len(begun), j > m + 1
       PROVE  \E k \in 1..Len(s)-1 : r[k].of = begun[j] /\ r[k].k = FrameLen(r[k].of)
  <2>1. PICK k \in 1..Len(s) : s[k].of = begun[j] /\ s[k].k = FrameLen(s[k].of)
    <3>1. j > m
      BY <1>3, <1>11
    <3> QED
      BY <1>4, <3>1
  <2>2. begun[j].seq = j - 1 /\ j - 1 # m
    BY <1>3, <1>6, <1>11
  <2>3. k # 1
    BY <1>2, <1>9, <2>1, <2>2
  <2>4. k - 1 \in 1..Len(s)-1 /\ (k - 1) + 1 = k
    BY <1>1, <2>3
  <2>5. r[k - 1] = s[k]
    BY <1>1, <2>4
  <2> QED
    BY <2>1, <2>4, <2>5
<1>12. Pending(r, begun, more)
  <2>1. \A j \in 1..Len(begun) : j > Len(more) =>
          \E k \in 1..Len(r) : r[k].of = begun[j] /\ r[k].k = FrameLen(r[k].of)
    BY <1>1, <1>3, <1>11
  <2>2. Len(more) <= Len(begun) /\ \A i \in 1..Len(more) : more[i] = begun[i]
    BY <1>3, <1>9, <1>10
  <2> QED
    BY <1>0, <1>1, <2>1, <2>2, PendingParts, Zenon
<1> QED
  BY <1>12 DEF r, f, more

-----------------------------------------------------------------------------
(* The reader of a stream of whole frames stays in step with it.            *)

Five(d) == UNCHANGED <<pc[d], stage[d], hdr[d], want[d], work[d]>>

LEMMA Alone ==
  ASSUME TypeOK, NEW c \in Bridges, Loop(c) \/ ProbeAgain(c) \/ Stop(c)
  PROVE  /\ pc[c] # "done" /\ \A d \in Bridges \ {c} : Five(d)
         /\ \A d \in Bridges : short[d] => short'[d]
<1>1. /\ pc \in [Bridges -> Pcs] /\ stage \in [Bridges -> Stages]
      /\ hdr \in [Bridges -> AllTokens] /\ want \in [Bridges -> Nat]
      /\ work \in [Bridges -> Seq(AllTokens)] /\ short \in [Bridges -> BOOLEAN]
  BY DEF TypeOK, Types, Pcs, Stages
<1>2. pc[c] # "done"
  BY DEF Loop, StartProbeBus, StartProbeWire, ProbeAgain, Take, TakeNone, WriteSome, WriteFull,
     WriteClosed, ReadMagicLo, ReadMagicHi, ReadHeader, ReadPayload, ReadBadCrc, ReadData,
     ReadStrayData, Publish, PublishPanics, ReadAck, ReadStrayAck, ReadNone, ReadClosed, Stop,
     Reads, Alive
<1>3. CASE StartProbeBus(c) \/ PublishPanics(c) \/ TakeNone(c) \/ Stop(c)
  BY <1>1, <1>2, <1>3 DEF Five, StartProbeBus, PublishPanics, TakeNone, Stop, Goto, reading
<1>4. CASE StartProbeWire(c) \/ ProbeAgain(c) \/ Take(c)
  BY <1>1, <1>2, <1>4 DEF Five, StartProbeWire, ProbeAgain, Take, BeginData, BeginWrite, Goto,
     reading
<1>5. CASE WriteSome(c) \/ WriteFull(c) \/ WriteClosed(c)
  <2>1. UNCHANGED <<stage, hdr, want, work>> /\ \A d \in Bridges : short[d] => short'[d]
    BY <1>1, <1>5 DEF WriteSome, WriteFull, WriteClosed, reading
  <2>2. \A d \in Bridges \ {c} : pc'[d] = pc[d]
    BY <1>1, <1>5 DEF WriteSome, WriteFull, WriteClosed, AfterWrite, Goto
  <2> QED
    BY <1>2, <2>1, <2>2 DEF Five
<1>6. CASE ReadMagicLo(c) \/ ReadMagicHi(c) \/ ReadPayload(c)
  BY <1>1, <1>2, <1>6 DEF Five, ReadMagicLo, ReadMagicHi, ReadPayload, Reads, ToStage
<1>7. CASE ReadHeader(c)
  BY <1>1, <1>2, <1>7 DEF Five, ReadHeader, Reads, ToStage, EndRead, Goto
<1>8. CASE ReadBadCrc(c) \/ ReadAck(c) \/ ReadStrayAck(c) \/ ReadNone(c) \/ ReadClosed(c)
  BY <1>1, <1>2, <1>8 DEF Five, ReadBadCrc, ReadAck, ReadStrayAck, Pass, ReadNone, ReadClosed,
     Reads, EndRead, Goto
<1>9. CASE ReadData(c) \/ ReadStrayData(c) \/ Publish(c)
  <2>1. UNCHANGED short
    BY <1>9 DEF ReadData, ReadStrayData, Publish, Reads
  <2>2. \/ EndRead(c) /\ Goto(c, "write")
        \/ /\ Goto(c, "publish") /\ UNCHANGED <<stage, want, work>>
           /\ \E t : hdr' = [hdr EXCEPT ![c] = t]
    BY <1>9 DEF ReadData, ReadStrayData, Publish, Deliver, BeginWrite
  <2> QED
    BY <1>1, <1>2, <2>1, <2>2 DEF Five, EndRead, Goto
<1> QED
  BY <1>3, <1>4, <1>5, <1>6, <1>7, <1>8, <1>9 DEF Loop

LEMMA Ended ==
  ASSUME TypeOK, [Next]_usbVars, NEW b \in Bridges
  PROVE  (pc[b] = "done" => pc'[b] = "done") /\ (short[b] => short'[b])
<1>1. CASE UNCHANGED usbVars
  BY <1>1 DEF usbVars
<1>2. ASSUME NEW m \in Msgs, ClientPublish(m) PROVE UNCHANGED <<pc, short>>
  BY <1>2 DEF ClientPublish
<1>3. ASSUME NEW c \in Bridges, Loop(c) \/ ProbeAgain(c) \/ Stop(c)
      PROVE  (pc[b] = "done" => pc'[b] = "done") /\ (short[b] => short'[b])
  BY <1>3, Alone DEF Five
<1> QED
  BY <1>1, <1>2, <1>3 DEF Next

\* Whoever has left a frame in the middle has done so for good, in one of two
\* places.
LEMMA LostGrows ==
  ASSUME TypeOK, [Next]_usbVars, NEW b \in Bridges
  PROVE  /\ lost[b] => lost'[b]
         /\ lost'[b] => lost[b] \/ ReadHeader(b) \/ (ReadNone(b) /\ b \in Ptys)
<1>0. lost \in [Bridges -> BOOLEAN]
  BY DEF TypeOK, Types
<1>1. CASE UNCHANGED usbVars
  BY <1>1 DEF usbVars
<1>2. ASSUME NEW m \in Msgs, ClientPublish(m) PROVE UNCHANGED lost
  BY <1>2 DEF ClientPublish
<1>3. ASSUME NEW c \in Bridges, ReadHeader(c) \/ ReadNone(c)
      PROVE  /\ lost[b] => lost'[b]
             /\ lost'[b] => lost[b] \/ ReadHeader(b) \/ (ReadNone(b) /\ b \in Ptys)
  <2>1. \E e \in BOOLEAN : lost' = [lost EXCEPT ![c] = @ \/ e]
    BY <1>3 DEF ReadHeader, ReadNone
  <2>2. ReadNone(c) => c \in Ptys
    BY DEF ReadNone
  <2>3. CASE c # b
    BY <1>0, <2>1, <2>3
  <2> QED
    BY <1>0, <1>3, <2>1, <2>2, <2>3
<1>4. ASSUME NEW c \in Bridges, Loop(c) \/ ProbeAgain(c) \/ Stop(c),
             ~ReadHeader(c), ~ReadNone(c)
      PROVE  UNCHANGED lost
  BY <1>4 DEF Loop, StartProbeBus, StartProbeWire, ProbeAgain, Take, TakeNone,
     WriteSome, WriteFull, WriteClosed, ReadMagicLo, ReadMagicHi, ReadPayload, ReadBadCrc,
     ReadData, ReadStrayData, Deliver, ReadAck, ReadStrayAck, Pass, Publish, PublishPanics,
     ReadClosed, Stop
<1> QED
  BY <1>1, <1>2, <1>3, <1>4 DEF Next

LEMMA ReaderStill ==
  ASSUME TypeOK, [Next]_usbVars, NEW b \in Bridges, pc'[b] # "done", ~lost'[b],
         ~Skims(b), ~ReadData(b), ~ReadStrayData(b)
  PROVE  Five(b) \/ (AtStart(b) /\ AtStart(b)')
<1>1. CASE UNCHANGED usbVars
  BY <1>1 DEF usbVars, Five
<1>2. ASSUME NEW m \in Msgs, ClientPublish(m) PROVE Five(b)
  BY <1>2 DEF ClientPublish, reading, Five
<1>3. ASSUME NEW c \in Bridges, c # b, Loop(c) \/ ProbeAgain(c) \/ Stop(c) PROVE Five(b)
  BY <1>3, Alone
<1>4. CASE Loop(b) \/ ProbeAgain(b) \/ Stop(b)
  <2>0. pc \in [Bridges -> Pcs] /\ stage \in [Bridges -> Stages]
    BY DEF TypeOK, Types, Pcs, Stages
  <2>1. CASE \/ StartProbeBus(b) \/ StartProbeWire(b) \/ Take(b) \/ TakeNone(b)
             \/ WriteSome(b) \/ WriteFull(b) \/ WriteClosed(b) \/ ProbeAgain(b)
    <3>1. pc[b] \notin {"read", "publish", "done"} /\ UNCHANGED stage
      BY <2>1 DEF StartProbeBus, StartProbeWire, Take, TakeNone, WriteSome, WriteFull,
         WriteClosed, ProbeAgain, reading
    <3> QED
      BY <3>1, Unread DEF AtStart
  <2>2. CASE Stop(b) \/ PublishPanics(b) \/ ReadClosed(b)
    BY <2>0, <2>2 DEF Stop, PublishPanics, ReadClosed, Goto
  <2>3. CASE Publish(b)
    BY <2>0, <2>3 DEF Publish, EndRead, AtStart
  <2>4. CASE ReadNone(b)
    <3>1. /\ lost' = [lost EXCEPT ![b] = @ \/ stage[b] # "sync1"]
          /\ lost \in [Bridges -> BOOLEAN]
      BY <2>4 DEF ReadNone, TypeOK, Types
    <3>2. stage[b] = "sync1"
      BY <3>1
    <3> QED
      BY <2>0, <2>4, <3>2 DEF ReadNone, EndRead, AtStart
  <2> QED
    BY <1>4, <2>1, <2>2, <2>3, <2>4 DEF Loop, Skims
<1> QED
  BY <1>1, <1>2, <1>3, <1>4 DEF Next

LEMMA StillInStep ==
  ASSUME NEW b \in Bridges, InStep(b, Stream(b)), Five(b) \/ (AtStart(b) /\ AtStart(b)'),
         Stream(b)' # <<>> \/ Stream(b) = <<>>, Stream(b)' # <<>> =>
           IF Stream(b) = <<>> THEN Stream(b)'[1].k = 1 ELSE Stream(b)'[1] = Stream(b)[1]
  PROVE  InStep(b, Stream(b))'
<1> DEFINE s == Stream(b)
           r == Stream(b)'
<1>1. /\ InStep(b, s) /\ (r # <<>> \/ s = <<>>)
      /\ r # <<>> => IF s = <<>> THEN r[1].k = 1 ELSE r[1] = s[1]
  OBVIOUS
<1>2. CASE Five(b)
  <2>1. AtStart(b)' = AtStart(b)
    BY <1>2 DEF Five, AtStart
  <2>2. CASE AtStart(b)
    BY <1>1, <2>1, <2>2 DEF InStep
  <2>3. CASE ~AtStart(b)
    <3>1. s # <<>> /\ r # <<>> /\ r[1] = s[1]
      BY <1>1, <2>3 DEF InStep
    <3> HIDE DEF s, r
    <3> QED
      BY <1>1, <1>2, <2>1, <2>3, <3>1 DEF InStep, Five, r
  <2> QED
    BY <2>2, <2>3
<1>3. CASE AtStart(b) /\ AtStart(b)'
  BY <1>1, <1>3 DEF InStep
<1> QED
  BY <1>2, <1>3

\* A reader in step, and the token it is about to read.
LEMMA StepToken ==
  ASSUME TypeOK, NEW b \in Bridges, Whole(Stream(b)), InStep(b, Stream(b)),
         NEW s \in Stages, Reads(b, s), UNCHANGED tx[Peer(b)]
  PROVE  LET t == Head(link[b]) IN
         /\ t \in AllTokens /\ t.of \in AllFrames /\ Stream(b)[1] = t /\ Stream(b) # <<>>
         /\ Stream(b)' = Tail(Stream(b)) /\ pc[b] = "read" /\ stage[b] = s
         /\ IF t.k = FrameLen(t.of)
            THEN Stream(b)' # <<>> => Stream(b)'[1].k = 1
            ELSE Stream(b)' # <<>> /\ Stream(b)'[1] = At(t.of, t.k + 1)
<1> DEFINE t == Head(link[b])
<1>1. t \in AllTokens /\ t.of \in AllFrames /\ pc[b] = "read" /\ stage[b] = s
  BY ReadOff, TokenParts
<1>2. Taken(b) /\ Stream(b)[1] = t
  BY ReadMoves
<1>3. Stream(b) \in Seq(AllTokens) /\ Stream(b) # <<>> /\ Stream(b)' = Tail(Stream(b))
  BY <1>2, StreamType DEF Taken, TypeOK
<1>4. IF Stream(b)[1].k = FrameLen(Stream(b)[1].of)
      THEN Tail(Stream(b)) # <<>> => Tail(Stream(b))[1].k = 1
      ELSE /\ Tail(Stream(b)) # <<>>
           /\ Tail(Stream(b))[1] = At(Stream(b)[1].of, Stream(b)[1].k + 1)
  BY <1>3, WholeTail
<1> QED
  BY <1>1, <1>2, <1>3, <1>4

LEMMA MagicInStep ==
  ASSUME TypeOK, NEW b \in Bridges, Whole(Stream(b)), InStep(b, Stream(b)),
         ReadMagicLo(b) \/ ReadMagicHi(b)
  PROVE  InStep(b, Stream(b))' /\ Stream(b)[1].k # FrameLen(Stream(b)[1].of)
<1> DEFINE t == Head(link[b])
           r == Stream(b)'
<1>1. PICK i \in {1, 2} :
        /\ Reads(b, IF i = 1 THEN "sync1" ELSE "sync2") /\ UNCHANGED <<pc, tx>>
        /\ stage' = [stage EXCEPT ![b] =
                       IF Byte(t) = IF i = 1 THEN "lo" ELSE "hi"
                       THEN IF i = 1 THEN "sync2" ELSE "hdr" ELSE "sync1"]
  <2>1. CASE ReadMagicLo(b)
    BY <2>1 DEF ReadMagicLo, ToStage, writing
  <2>2. CASE ReadMagicHi(b)
    BY <2>2 DEF ReadMagicHi, ToStage, writing
  <2> QED
    BY <2>1, <2>2
<1>2. (IF i = 1 THEN "sync1" ELSE "sync2") \in Stages /\ stage \in [Bridges -> Stages]
  BY DEF Stages, TypeOK, Types
<1>3. /\ t \in AllTokens /\ t.of \in AllFrames /\ Stream(b)[1] = t /\ Stream(b) # <<>>
      /\ pc[b] = "read" /\ stage[b] = (IF i = 1 THEN "sync1" ELSE "sync2")
      /\ IF t.k = FrameLen(t.of) THEN r # <<>> => r[1].k = 1
         ELSE r # <<>> /\ r[1] = At(t.of, t.k + 1)
  BY <1>1, <1>2, StepToken
<1>4. t.k = i
  BY <1>3 DEF InStep, AtStart
<1>5. Byte(t) = IF i = 1 THEN "lo" ELSE "hi"
  BY <1>4 DEF Byte
<1>6. stage'[b] = (IF i = 1 THEN "sync2" ELSE "hdr") /\ pc'[b] = "read"
  BY <1>1, <1>2, <1>3, <1>5
<1>7. t.k # FrameLen(t.of)
  BY <1>3, <1>4, FrameTokens
<1>8. r # <<>> /\ r[1].k = i + 1
  BY <1>3, <1>4, <1>7 DEF At
<1>9. InStep(b, Stream(b))'
  <2> HIDE DEF r
  <2>1. CASE i = 1
    BY <1>6, <1>8, <2>1 DEF InStep, AtStart, r
  <2>2. CASE i = 2
    BY <1>6, <1>8, <2>2 DEF InStep, AtStart, r
  <2> QED
    BY <2>1, <2>2
<1> QED
  BY <1>3, <1>7, <1>9

\* A header read in step is one, and its frame is read on unless it is too long.
LEMMA HeaderInStep ==
  ASSUME TypeOK, NEW b \in Bridges, Whole(Stream(b)), InStep(b, Stream(b)),
         ReadHeader(b), EveryFits \/ ~lost'[b]
  PROVE  /\ InStep(b, Stream(b))' /\ Stream(b)[1].k # FrameLen(Stream(b)[1].of)
         /\ lost'[b] = lost[b]
<1> DEFINE t == Head(link[b])
           r == Stream(b)'
           n == Len(Bytes[t.of.msg])
<1>1. Reads(b, "hdr") /\ UNCHANGED tx /\ "hdr" \in Stages
  BY DEF ReadHeader, writing, Stages
<1>2. /\ t \in AllTokens /\ t.of \in AllFrames /\ Stream(b)[1] = t /\ Stream(b) # <<>>
      /\ pc[b] = "read" /\ stage[b] = "hdr"
      /\ IF t.k = FrameLen(t.of) THEN r # <<>> => r[1].k = 1
         ELSE r # <<>> /\ r[1] = At(t.of, t.k + 1)
  BY <1>1, StepToken
<1>3. t.k = 3
  BY <1>2 DEF InStep, AtStart
<1>4. n \in Nat /\ FrameLen(t.of) = n + 4
  BY <1>2, FrameTokens
<1>5. t.k # FrameLen(t.of)
  BY <1>3, <1>4
<1>6. r # <<>> /\ r[1] = At(t.of, 4)
  BY <1>2, <1>3, <1>5
<1>12. /\ IF TooLong(n % LenSpace)
          THEN EndRead(b) /\ Goto(b, "loop")
          ELSE /\ hdr' = [hdr EXCEPT ![b] = t] /\ want' = [want EXCEPT ![b] = n % LenSpace]
               /\ ToStage(b, IF n % LenSpace = 0 THEN "crc" ELSE "payload")
               /\ UNCHANGED <<pc, work>>
       /\ lost' = [lost EXCEPT ![b] = @ \/ TooLong(n % LenSpace) \/ Cuts(t)]
  <2>1. Lengths(t) = {n % LenSpace}
    BY <1>3 DEF Lengths
  <2> QED
    BY <2>1 DEF ReadHeader
<1>13. ~TooLong(n) /\ ~Cuts(t) /\ n % LenSpace = n /\ lost'[b] = lost[b]
  <2>1. lost \in [Bridges -> BOOLEAN] /\ MaxFrame \in Nat /\ LenSpace \in Nat \ {0}
    BY SizeAssumption DEF TypeOK, Types
  <2>2. Cuts(t) <=> n >= LenSpace
    BY <1>3 DEF Cuts
  <2>3. n < LenSpace => n % LenSpace = n
    <3> HIDE DEF n
    <3> QED
      BY <1>4, <2>1, NotCut
  <2>4. CASE EveryFits
    <3>1. t.of.msg \in AllMsgs
      BY <1>2 DEF AllFrames
    <3>2. n <= MaxFrame /\ n < LenSpace
      BY <2>4, <3>1 DEF EveryFits
    <3>3. ~TooLong(n) /\ ~Cuts(t)
      BY <1>4, <2>1, <2>2, <3>2 DEF TooLong
    <3>4. n % LenSpace = n
      BY <2>3, <3>2
    <3>5. ~TooLong(n % LenSpace)
      BY <3>3, <3>4
    <3> QED
      BY <1>12, <2>1, <3>3, <3>4, <3>5
  <2>5. CASE ~lost'[b]
    <3>1. ~lost[b] /\ ~TooLong(n % LenSpace) /\ ~Cuts(t)
      BY <1>12, <2>1, <2>5
    <3>2. n < LenSpace
      BY <1>4, <2>1, <2>2, <3>1
    <3>3. n % LenSpace = n
      BY <2>3, <3>2
    <3>4. ~TooLong(n)
      BY <3>1, <3>3
    <3>5. lost'[b] = lost[b]
      BY <1>12, <2>1, <2>5, <3>1
    <3> QED
      BY <3>1, <3>3, <3>4, <3>5
  <2> QED
    BY <2>4, <2>5
<1>7. /\ hdr' = [hdr EXCEPT ![b] = t] /\ want' = [want EXCEPT ![b] = n]
      /\ stage' = [stage EXCEPT ![b] = IF n = 0 THEN "crc" ELSE "payload"]
      /\ UNCHANGED <<pc, work>>
  BY <1>12, <1>13 DEF ToStage
<1>8. /\ hdr \in [Bridges -> AllTokens] /\ want \in [Bridges -> Nat]
      /\ stage \in [Bridges -> Stages] /\ work[b] = <<>>
  BY <1>2 DEF TypeOK, Types, Stages, ReaderShape
<1>9. /\ hdr'[b] = t /\ want'[b] = n /\ stage'[b] = (IF n = 0 THEN "crc" ELSE "payload")
      /\ pc'[b] = "read" /\ work'[b] = <<>>
  BY <1>2, <1>7, <1>8
<1>10. \A i : [t EXCEPT !.k = i] = At(t.of, i)
  BY <1>2, NextToken
<1>11. InStep(b, Stream(b))'
  <2>1. Len(<<>>) = 0 /\ DOMAIN <<>> = {}
    OBVIOUS
  <2>2. hdr'[b].k = 3 /\ want'[b] = Len(Bytes[hdr'[b].of.msg])
    BY <1>3, <1>9
  <2>3. r[1] = [hdr'[b] EXCEPT !.k = 4 + Len(work'[b])]
    <3>1. 4 + Len(work'[b]) = 4
      BY <1>9, <2>1
    <3>2. r[1] = At(t.of, 4 + Len(work'[b]))
      BY <1>6, <3>1
    <3>3. [t EXCEPT !.k = 4 + Len(work'[b])] = At(t.of, 4 + Len(work'[b]))
      BY <1>10
    <3>4. hdr'[b] = t
      BY <1>9
    <3> HIDE DEF r, t
    <3> QED
      BY <3>2, <3>3, <3>4
  <2>4. stage'[b] \in {"crc", "payload"} /\ (stage'[b] = "crc" => Len(work'[b]) = want'[b])
    BY <1>9, <2>1
  <2>5. DOMAIN work'[b] = {}
    BY <1>9, <2>1
  <2> HIDE DEF r, n
  <2> QED
    BY <1>6, <1>9, <2>2, <2>3, <2>4, <2>5 DEF InStep, AtStart, r
<1> QED
  BY <1>2, <1>5, <1>11, <1>13

LEMMA PayloadInStep ==
  ASSUME TypeOK, NEW b \in Bridges, Whole(Stream(b)), InStep(b, Stream(b)), ReadPayload(b)
  PROVE  InStep(b, Stream(b))' /\ Stream(b)[1].k # FrameLen(Stream(b)[1].of)
<1> DEFINE t == Head(link[b])
           r == Stream(b)'
           w == work[b]
           n == want[b]
           h == hdr[b]
<1>1. Reads(b, "payload") /\ UNCHANGED <<tx, pc, hdr, want>> /\ "payload" \in Stages
  BY DEF ReadPayload, writing, Stages
<1>2. /\ t \in AllTokens /\ t.of \in AllFrames /\ Stream(b)[1] = t /\ Stream(b) # <<>>
      /\ pc[b] = "read" /\ stage[b] = "payload"
      /\ IF t.k = FrameLen(t.of) THEN r # <<>> => r[1].k = 1
         ELSE r # <<>> /\ r[1] = At(t.of, t.k + 1)
  BY <1>1, StepToken
<1>3. /\ w \in Seq(AllTokens) /\ n \in Nat /\ h \in AllTokens /\ Len(w) < n
      /\ stage \in [Bridges -> Stages] /\ work \in [Bridges -> Seq(AllTokens)]
  BY <1>2 DEF TypeOK, Types, Stages, ReaderShape
<1>4. /\ h.k = 3 /\ n = Len(Bytes[h.of.msg]) /\ t = [h EXCEPT !.k = 4 + Len(w)]
      /\ \A i \in DOMAIN w : w[i] = [h EXCEPT !.k = 3 + i]
  BY <1>2 DEF InStep, AtStart
<1>5. /\ Append(w, t) \in Seq(AllTokens) /\ Len(w) \in Nat /\ Len(Append(w, t)) = Len(w) + 1
      /\ \A i \in 1..Len(w) : Append(w, t)[i] = w[i]
      /\ Append(w, t)[Len(w) + 1] = t
      /\ DOMAIN w = 1..Len(w) /\ DOMAIN Append(w, t) = 1..Len(w)+1
  <2> HIDE DEF w, t
  <2> QED
    BY <1>2, <1>3, Appended
<1>6. t.of = h.of /\ t.k = 4 + Len(w) /\ t = At(h.of, 4 + Len(w)) /\ FrameLen(t.of) = n + 4
  <2>1. t = At(h.of, 4 + Len(w))
    BY <1>3, <1>4, NextToken
  <2>2. t.of = h.of /\ t.k = 4 + Len(w)
    BY <2>1 DEF At
  <2>3. FrameLen(t.of) = Len(Bytes[t.of.msg]) + 4
    BY <1>2, FrameTokens
  <2> HIDE DEF t, n, h, w
  <2> QED
    BY <1>4, <2>1, <2>2, <2>3
<1>7. t.k # FrameLen(t.of) /\ t.k + 1 = 4 + (Len(w) + 1)
  BY <1>3, <1>5, <1>6
<1>8. r # <<>> /\ r[1] = At(h.of, 4 + (Len(w) + 1))
  BY <1>2, <1>6, <1>7
<1>9. /\ work'[b] = Append(w, t) /\ hdr'[b] = h /\ want'[b] = n /\ pc'[b] = "read"
      /\ stage'[b] = (IF Len(w) + 1 = n THEN "crc" ELSE "payload")
  BY <1>1, <1>2, <1>3 DEF ReadPayload, ToStage
<1> HIDE DEF r, w, n, h, t
<1>10. r[1] = [h EXCEPT !.k = 4 + Len(Append(w, t))]
  <2>1. \A i : [h EXCEPT !.k = i] = At(h.of, i)
    BY <1>3, NextToken
  <2> QED
    BY <1>5, <1>8, <2>1, Zenon
<1>11. \A i \in DOMAIN Append(w, t) : Append(w, t)[i] = [h EXCEPT !.k = 3 + i]
  <2> SUFFICES ASSUME NEW i \in 1..Len(w)+1 PROVE Append(w, t)[i] = [h EXCEPT !.k = 3 + i]
    BY <1>5
  <2>1. CASE i = Len(w) + 1
    <3>1. 3 + i = 4 + Len(w)
      BY <1>5, <2>1
    <3> QED
      BY <1>4, <1>5, <2>1, <3>1
  <2>2. CASE i # Len(w) + 1
    <3>1. i \in 1..Len(w)
      BY <1>5, <2>2
    <3> QED
      BY <1>4, <1>5, <3>1
  <2> QED
    BY <2>1, <2>2
<1>12. InStep(b, Stream(b))'
  <2>1. stage'[b] \in {"crc", "payload"} /\ (stage'[b] = "crc" => Len(work'[b]) = want'[b])
    BY <1>5, <1>9
  <2>2. /\ hdr'[b].k = 3 /\ want'[b] = Len(Bytes[hdr'[b].of.msg])
        /\ r[1] = [hdr'[b] EXCEPT !.k = 4 + Len(work'[b])]
        /\ \A i \in DOMAIN work'[b] : work'[b][i] = [hdr'[b] EXCEPT !.k = 3 + i]
    BY <1>4, <1>9, <1>10, <1>11
  <2> QED
    BY <1>8, <1>9, <2>1, <2>2 DEF InStep, AtStart, r
<1> QED
  BY <1>2, <1>7, <1>12 DEF t

\* The checksum of a frame read in step is right, and ends the frame.
LEMMA CrcInStep ==
  ASSUME TypeOK, NEW b \in Bridges, InStep(b, Stream(b)), pc[b] = "read", stage[b] = "crc",
         NEW t \in AllTokens, t = Stream(b)[1]
  PROVE  ChecksumOk(b, t) /\ t.of = hdr[b].of /\ t.k = FrameLen(t.of)
<1> DEFINE f == hdr[b].of
           q == Tokens(f)
           n == FrameLen(f)
           w == work[b]
<1>1. hdr[b] \in AllTokens /\ f \in AllFrames /\ w \in Seq(AllTokens)
  BY DecodedType DEF TypeOK, Types
<1>2. /\ hdr[b].k = 3 /\ want[b] = Len(Bytes[f.msg]) /\ Len(w) = want[b]
      /\ t = [hdr[b] EXCEPT !.k = 4 + Len(w)]
      /\ \A i \in DOMAIN w : w[i] = [hdr[b] EXCEPT !.k = 3 + i]
  BY DEF InStep, AtStart
<1>3. \A i : [hdr[b] EXCEPT !.k = i] = At(f, i)
  BY <1>1, NextToken
<1>4. /\ n \in Nat /\ n >= 4 /\ n = Len(Bytes[f.msg]) + 4 /\ q \in Seq(AllTokens)
      /\ Len(q) = n /\ \A k \in 1..n : q[k] = At(f, k)
  BY <1>1, FrameTokens DEF At
<1>5. t = At(f, 4 + Len(w)) /\ \A i \in DOMAIN w : w[i] = At(f, 3 + i)
  BY <1>2, <1>3, Zenon
<1>6. hdr[b].k = 3 /\ (ChecksumOk(b, t) <=> SubSeq(q, 4, n) = Append(w, t))
  BY <1>2 DEF ChecksumOk
<1>7. Len(w) = n - 4 /\ 4 + Len(w) = n
  <2>1. Len(w) + 4 = n
    BY <1>2, <1>4
  <2>2. Len(w) \in Nat
    BY <1>1
  <2> HIDE DEF n, w
  <2> QED
    BY <1>4, <2>1, <2>2
<1>8. n = FrameLen(f) /\ hdr[b].of = f
  OBVIOUS
<1> HIDE DEF f, q, n, w
<1> DEFINE c == SubSeq(q, 4, n)
           a == Append(w, t)
<1>9. c \in Seq(AllTokens) /\ Len(c) = n - 3 /\ \A i \in 1..n-3 : c[i] = q[i + 3]
  BY <1>4
<1>10. /\ a \in Seq(AllTokens) /\ Len(w) \in Nat /\ Len(a) = Len(w) + 1
       /\ \A i \in 1..Len(w) : a[i] = w[i]
       /\ a[Len(w) + 1] = t /\ DOMAIN w = 1..Len(w)
  BY <1>1, Appended
<1> HIDE DEF c, a
<1>11. Len(c) = Len(a) /\ Len(c) = n - 3
  BY <1>4, <1>7, <1>9, <1>10
<1>12. ASSUME NEW i \in 1..Len(c) PROVE c[i] = a[i]
  <2>1. i \in 1..n-3 /\ i + 3 \in 1..n /\ 3 + i = i + 3
    BY <1>4, <1>11
  <2>2. c[i] = At(f, i + 3)
    BY <1>4, <1>9, <2>1
  <2>3. CASE i = Len(w) + 1
    <3>1. i + 3 = 4 + Len(w)
      BY <1>10, <2>3
    <3> QED
      BY <1>5, <1>10, <2>2, <2>3, <3>1
  <2>4. CASE i # Len(w) + 1
    <3>1. i \in 1..Len(w)
      BY <1>4, <1>7, <1>10, <2>1, <2>4
    <3>2. a[i] = At(f, 3 + i)
      BY <1>5, <1>10, <3>1
    <3> QED
      BY <2>1, <2>2, <3>2
  <2> QED
    BY <2>3, <2>4
<1>13. c = a
  BY <1>9, <1>10, <1>11, <1>12, SeqEqual
<1>14. t = At(f, n)
  BY <1>5, <1>7
<1>15. t.of = f /\ t.k = n
  BY <1>14 DEF At
<1> QED
  BY <1>6, <1>8, <1>13, <1>15 DEF c, a

LEMMA EndInStep ==
  ASSUME TypeOK, NEW b \in Bridges, Whole(Stream(b)), InStep(b, Stream(b)),
         \/ ReadBadCrc(b) \/ ReadAck(b) \/ ReadData(b)
         \/ ReadStrayAck(b) \/ ReadStrayData(b)
  PROVE  /\ ~ReadBadCrc(b) /\ ~ReadStrayAck(b) /\ ~ReadStrayData(b)
         /\ InStep(b, Stream(b))'
         /\ Stream(b)[1].of = hdr[b].of /\ Stream(b)[1].k = FrameLen(Stream(b)[1].of)
<1> DEFINE t == Head(link[b])
           r == Stream(b)'
<1>1. Reads(b, "crc") /\ "crc" \in Stages
  BY DEF ReadBadCrc, ReadAck, ReadData, ReadStrayAck, ReadStrayData, Stages
<1>2. UNCHANGED tx[Peer(b)]
  <2>1. CASE ReadBadCrc(b) \/ ReadAck(b) \/ ReadStrayAck(b)
    BY <2>1 DEF ReadBadCrc, ReadAck, ReadStrayAck, Pass, writing
  <2>2. CASE ReadData(b) \/ ReadStrayData(b)
    <3>1. UNCHANGED tx \/ \E f : tx' = [tx EXCEPT ![b] = f]
      BY <2>2 DEF ReadData, ReadStrayData, Deliver, writing, BeginWrite
    <3>2. tx \in [Bridges -> Seq(AllTokens)] /\ Peer(b) \in Bridges /\ Peer(b) # b
      BY Peers DEF TypeOK, Types
    <3> QED
      BY <3>1, <3>2
  <2> QED
    BY <2>1, <2>2
<1>3. /\ t \in AllTokens /\ Stream(b)[1] = t /\ pc[b] = "read" /\ stage[b] = "crc"
      /\ t.k = FrameLen(t.of) => (r # <<>> => r[1].k = 1)
  BY <1>1, <1>2, StepToken
<1>4. ChecksumOk(b, t) /\ t.of = hdr[b].of /\ t.k = FrameLen(t.of)
  BY <1>3, CrcInStep
<1>5. ~ReadBadCrc(b) /\ ~ReadStrayAck(b) /\ ~ReadStrayData(b)
  BY <1>4 DEF ReadBadCrc, ReadStrayAck, ReadStrayData, MayMatch
<1>6. AtStart(b)'
  <2>1. stage \in [Bridges -> Stages] /\ pc \in [Bridges -> Pcs]
    BY DEF TypeOK, Types, Stages, Pcs
  <2>2. EndRead(b) \/ Goto(b, "publish")
    BY <1>5 DEF ReadAck, ReadData, Pass, Deliver
  <2> QED
    BY <2>1, <2>2 DEF EndRead, Goto, AtStart
<1>7. InStep(b, Stream(b))'
  BY <1>3, <1>4, <1>6 DEF InStep
<1> QED
  BY <1>3, <1>4, <1>5, <1>7

-----------------------------------------------------------------------------
(* SteadyInv is inductive.                                                  *)

LEMMA SkimSteady ==
  ASSUME UsbInv, TypeOK', NEW b \in Bridges, Steady(b), Skims(b), ~lost'[b]
  PROVE  Steady(b)'
<1> DEFINE s == Stream(b)
           begun == sent[Peer(b)]
           got == accepted[b]
<1>1. /\ TypeOK /\ s \in Seq(AllTokens) /\ begun \in Seq(AllFrames) /\ got \in Seq(AllFrames)
      /\ Whole(s) /\ InStep(b, s) /\ Pending(s, begun, got) /\ Numbered(begun)
  BY StreamType, Peers DEF UsbInv, TypeOK, Types, Steady, Numbered, SentShape
<1>2. /\ s # <<>> /\ Stream(b)' = Tail(s) /\ sent'[Peer(b)] = begun /\ accepted'[b] = got
  BY <1>1, SkimMoves DEF Taken
<1>3. InStep(b, Stream(b))' /\ (s[1].k = FrameLen(s[1].of) => s[1].of.chan # 0)
  <2>1. CASE ReadMagicLo(b) \/ ReadMagicHi(b)
    BY <1>1, <2>1, MagicInStep
  <2>2. CASE ReadHeader(b)
    BY <1>1, <2>2, HeaderInStep
  <2>3. CASE ReadPayload(b)
    BY <1>1, <2>3, PayloadInStep
  <2>4. CASE ReadBadCrc(b) \/ ReadStrayAck(b)
    BY <1>1, <2>4, EndInStep
  <2>5. CASE ReadAck(b)
    <3>1. hdr[b].of.chan = 1
      BY <2>5 DEF ReadAck
    <3> QED
      BY <1>1, <2>5, <3>1, EndInStep
  <2> QED
    BY <2>1, <2>2, <2>3, <2>4, <2>5 DEF Skims
<1>4. Whole(Tail(s)) /\ Pending(Tail(s), begun, got)
  <2> HIDE DEF s, begun, got
  <2> QED
    BY <1>1, <1>2, <1>3, WholeTail, PendingTail
<1> QED
  BY <1>2, <1>3, <1>4 DEF Steady

LEMMA AcceptSteady ==
  ASSUME UsbInv, TypeOK', NEW b \in Bridges, Steady(b), ReadData(b)
  PROVE  Steady(b)'
<1> DEFINE s == Stream(b)
           begun == sent[Peer(b)]
           got == accepted[b]
<1>1. /\ TypeOK /\ s \in Seq(AllTokens) /\ begun \in Seq(AllFrames) /\ got \in Seq(AllFrames)
      /\ Whole(s) /\ InStep(b, s) /\ Pending(s, begun, got) /\ Numbered(begun)
      /\ Traceable(s, begun, got)
  BY StreamType, Peers DEF UsbInv, TypeOK, Types, Steady, Numbered, SentShape
<1>2. /\ s # <<>> /\ Stream(b)' = Tail(s) /\ sent'[Peer(b)] = begun
      /\ IsData(s[1]) /\ s[1].k = FrameLen(s[1].of) /\ accepted'[b] = Append(got, s[1].of)
  BY <1>1, AcceptMoves DEF Taken, Accepts
<1>3. InStep(b, Stream(b))'
  BY <1>1, EndInStep
<1>4. Whole(Tail(s)) /\ Pending(Tail(s), begun, Append(got, s[1].of))
  <2> HIDE DEF s, begun, got
  <2> QED
    BY <1>1, <1>2, WholeTail, PendingAccept
<1> QED
  BY <1>2, <1>3, <1>4 DEF Steady

LEMMA OtherSteady ==
  ASSUME UsbInv, TypeOK', [Next]_usbVars, NEW b \in Bridges, Steady(b), ~lost'[b],
         ~Skims(b), ~ReadData(b), ~ReadStrayData(b), pc'[b] # "done", ~short'[Peer(b)]
  PROVE  Steady(b)'
<1> DEFINE s == Stream(b)
           begun == sent[Peer(b)]
           got == accepted[b]
<1>1. /\ TypeOK /\ AcksEarned /\ s \in Seq(AllTokens) /\ begun \in Seq(AllFrames)
      /\ got \in Seq(AllFrames) /\ sent'[Peer(b)] \in Seq(AllFrames)
      /\ Whole(s) /\ InStep(b, s) /\ Pending(s, begun, got)
  BY StreamType, Peers DEF UsbInv, TypeOK, Types, Steady
<1>2. Five(b) \/ (AtStart(b) /\ AtStart(b)')
  BY <1>1, ReaderStill
<1>3. Kept(b) \/ Extended(b)
  <2>1. ~Cut(b)
    BY <1>1, Ended DEF Cut
  <2> QED
    BY <1>1, <2>1, StepMoves DEF Moves
<1>4. CASE Kept(b)
  <2>1. Stream(b)' = s /\ sent'[Peer(b)] = begun /\ accepted'[b] = got
    BY <1>4 DEF Kept, SameFrames
  <2>2. InStep(b, Stream(b))'
    BY <1>1, <1>2, <2>1, StillInStep
  <2> QED
    BY <1>1, <2>1, <2>2 DEF Steady
<1>5. CASE Extended(b)
  <2>1. PICK f \in AllFrames :
          /\ Stream(b)' = s \o Tokens(f) /\ accepted'[b] = got
          /\ sent'[Peer(b)] \in {begun, Append(begun, f)}
    BY <1>5 DEF Extended
  <2> DEFINE r == s \o Tokens(f)
             more == sent'[Peer(b)]
  <2>2. /\ Whole(r) /\ r # <<>> /\ r[1] = IF s = <<>> THEN At(f, 1) ELSE s[1]
        /\ Pending(r, more, got)
    <3>1. more \in {begun, Append(begun, f)} /\ more \in Seq(AllFrames)
      BY <1>1, <2>1
    <3> HIDE DEF s, begun, got, more
    <3> QED
      BY <1>1, <3>1, WholeExtended, PendingExtended
  <2>3. InStep(b, Stream(b))'
    <3>1. At(f, 1).k = 1
      BY DEF At
    <3>2. r # <<>> => IF s = <<>> THEN r[1].k = 1 ELSE r[1] = s[1]
      BY <2>2, <3>1
    <3> HIDE DEF r
    <3>3. Stream(b)' = r
      BY <2>1 DEF r
    <3> QED
      BY <1>1, <1>2, <2>2, <3>2, <3>3, StillInStep
  <2> QED
    BY <2>1, <2>2, <2>3 DEF Steady
<1> QED
  BY <1>3, <1>4, <1>5

\* What has been decoded is how the frames begun begin.
LEMMA Beginning ==
  ASSUME NEW begun \in Seq(AllFrames), NEW got \in Seq(AllFrames), Len(got) <= Len(begun)
  PROVE  got = SubSeq(begun, 1, Len(got)) <=> \A i \in 1..Len(got) : got[i] = begun[i]
<1> DEFINE n == Len(got)
           q == SubSeq(begun, 1, n)
<1>1. n \in Nat /\ n <= Len(begun) /\ Len(begun) \in Nat
  OBVIOUS
<1>2. q \in Seq(AllFrames) /\ Len(q) = n /\ \A i \in 1..n : q[i] = begun[i]
  <2> HIDE DEF n
  <2> QED
    BY <1>1
<1>3. Len(got) = n
  OBVIOUS
<1> HIDE DEF n, q
<1>4. CASE \A i \in 1..n : got[i] = begun[i]
  <2>1. \A i \in 1..n : got[i] = q[i]
    BY <1>2, <1>4
  <2>2. got = q
    BY <1>2, <1>3, <2>1, SeqEqual
  <2> QED
    BY <1>4, <2>2 DEF n, q
<1>5. CASE got = q
  BY <1>2, <1>5 DEF n, q
<1> QED
  BY <1>4, <1>5 DEF n, q

LEMMA SkippedStep ==
  ASSUME UsbInv, TypeOK', [Next]_usbVars, NEW b \in Bridges,
         Len(accepted[b]) <= Len(sent[Peer(b)]),
         accepted[b] = SubSeq(sent[Peer(b)], 1, Len(accepted[b])), ~ReadData(b)
  PROVE  /\ Len(accepted'[b]) <= Len(sent'[Peer(b)])
         /\ accepted'[b] = SubSeq(sent'[Peer(b)], 1, Len(accepted'[b]))
<1> DEFINE begun == sent[Peer(b)]
           got == accepted[b]
           more == sent'[Peer(b)]
<1>1. /\ begun \in Seq(AllFrames) /\ got \in Seq(AllFrames) /\ more \in Seq(AllFrames)
      /\ TypeOK /\ AcksEarned /\ got = SubSeq(begun, 1, Len(got)) /\ Len(got) <= Len(begun)
  BY Peers DEF UsbInv, TypeOK, Types
<1>2. accepted'[b] = got /\ (more = begun \/ \E f \in AllFrames : more = Append(begun, f))
  BY <1>1, StepMoves DEF Moves, Kept, Cut, Extended, Taken, SameFrames
<1> HIDE DEF begun, got, more
<1>3. Len(got) <= Len(more) /\ \A i \in 1..Len(begun) : more[i] = begun[i]
  <2>1. CASE more = begun
    BY <1>1, <2>1
  <2>2. ASSUME NEW f \in AllFrames, more = Append(begun, f)
        PROVE  Len(got) <= Len(more) /\ \A i \in 1..Len(begun) : more[i] = begun[i]
    <3>1. /\ Len(begun) \in Nat /\ Len(more) = Len(begun) + 1 /\ Len(got) \in Nat
          /\ \A i \in 1..Len(begun) : more[i] = begun[i]
      BY <1>1, <2>2, Appended
    <3> QED
      BY <1>1, <3>1
  <2> QED
    BY <1>2, <2>1, <2>2
<1>4. \A i \in 1..Len(got) : got[i] = begun[i] /\ i \in 1..Len(begun)
  <2>1. \A i \in 1..Len(got) : got[i] = begun[i]
    BY <1>1, Beginning
  <2>2. \A i \in 1..Len(got) : i \in 1..Len(begun)
    BY <1>1
  <2> QED
    BY <2>1, <2>2
<1>5. got = SubSeq(more, 1, Len(got))
  BY <1>1, <1>3, <1>4, Beginning
<1> QED
  BY <1>2, <1>3, <1>5 DEF more

\* Nothing is taken for a frame by a reader in step.
LEMMA NoStrays ==
  ASSUME TypeOK, NEW b \in Bridges, Steady(b) PROVE ~ReadStrayData(b) /\ ~ReadStrayAck(b)
BY EndInStep DEF Steady

\* A reader that will have kept its step has kept it so far.
LEMMA InStepSoFar ==
  ASSUME SteadyInv, [Next]_usbVars, NEW b \in Bridges, StaysInStep(b)'
  PROVE  /\ StaysInStep(b) /\ ~short[Peer(b)] /\ ~lost[b]
         /\ Alive(b) => Steady(b)
<1>1. TypeOK /\ Peer(b) \in Bridges
  BY Peers DEF SteadyInv, UsbInv
<1>2. ~short'[Peer(b)] /\ (~lost'[b] \/ (b \notin Ptys /\ EveryFits))
  BY DEF StaysInStep
<1>3. ~short[Peer(b)]
  BY <1>1, <1>2, Ended
<1>4. ~lost[b]
  <2>1. CASE ~lost'[b]
    BY <1>1, <2>1, LostGrows
  <2>2. CASE b \notin Ptys /\ EveryFits
    BY <1>3, <2>2 DEF SteadyInv, NeverLost
  <2> QED
    BY <1>2, <2>1, <2>2
<1>5. Alive(b) => Steady(b)
  BY <1>3, <1>4 DEF SteadyInv
<1> QED
  BY <1>3, <1>4, <1>5 DEF StaysInStep

LEMMA NeverLostStep == SteadyInv /\ [Next]_usbVars => NeverLost'
<1> SUFFICES ASSUME SteadyInv, [Next]_usbVars, NEW b \in Bridges \ Ptys,
                    EveryFits, ~short'[Peer(b)], lost'[b]
             PROVE  FALSE
  BY DEF NeverLost
<1>1. TypeOK
  BY DEF SteadyInv, UsbInv
<1>2. ~lost[b] /\ (Alive(b) => Steady(b))
  BY InStepSoFar DEF StaysInStep
<1>3. ReadHeader(b)
  BY <1>1, <1>2, LostGrows
<1>4. Steady(b)
  BY <1>2, <1>3 DEF ReadHeader, Reads, Alive
<1>5. lost'[b] = lost[b]
  BY <1>1, <1>3, <1>4, HeaderInStep DEF Steady
<1> QED
  BY <1>2, <1>5

LEMMA SteadyKept ==
  ASSUME SteadyInv, [Next]_usbVars, TypeOK', NEW b \in Bridges, Alive(b)',
         ~short'[Peer(b)], ~lost'[b]
  PROVE  Steady(b)'
<1>1. UsbInv /\ TypeOK
  BY DEF SteadyInv, UsbInv
<1>2. pc'[b] # "done" /\ Alive(b)
  BY <1>1, Ended DEF Alive
<1>3. Steady(b)
  BY <1>2, InStepSoFar DEF StaysInStep
<1>4. CASE Skims(b)
  BY <1>1, <1>3, <1>4, SkimSteady
<1>5. CASE ReadData(b)
  BY <1>1, <1>3, <1>5, AcceptSteady
<1>6. CASE ~Skims(b) /\ ~ReadData(b)
  <2>1. ~ReadStrayData(b)
    BY <1>1, <1>3, NoStrays
  <2> QED
    BY <1>1, <1>2, <1>3, <1>6, <2>1, OtherSteady
<1> QED
  BY <1>4, <1>5, <1>6

LEMMA NoStrayStep ==
  ASSUME SteadyInv, [Next]_usbVars, NEW b \in Bridges, stray'[b] PROVE ~StaysInStep(b)'
<1> SUFFICES ASSUME StaysInStep(b)' PROVE FALSE
  OBVIOUS
<1>1. TypeOK
  BY DEF SteadyInv, UsbInv
<1>2. StaysInStep(b) /\ (Alive(b) => Steady(b))
  BY InStepSoFar
<1>3. ~stray[b]
  BY <1>2 DEF SteadyInv, GenuineFrames
<1>4. ReadStrayData(b) \/ ReadStrayAck(b)
  BY <1>1, <1>3, StrayGrows
<1>5. Alive(b)
  BY <1>4 DEF ReadStrayData, ReadStrayAck, Reads, Alive
<1> QED
  BY <1>1, <1>2, <1>4, <1>5, NoStrays

LEMMA SkippedNone ==
  ASSUME SteadyInv, [Next]_usbVars, TypeOK', NEW b \in Bridges, StaysInStep(b)'
  PROVE  /\ Len(accepted'[b]) <= Len(sent'[Peer(b)])
         /\ accepted'[b] = SubSeq(sent'[Peer(b)], 1, Len(accepted'[b]))
<1>1. UsbInv /\ TypeOK /\ StaysInStep(b) /\ ~lost[b]
  BY InStepSoFar DEF SteadyInv, UsbInv
<1>2. CASE ReadData(b)
  <2>1. pc'[b] # "done" /\ lost' = lost
    <3>1. pc \in [Bridges -> Pcs]
      BY <1>1 DEF TypeOK, Types, Pcs
    <3> QED
      BY <1>2, <3>1 DEF ReadData, Deliver, Goto, BeginWrite
  <2>2. Steady(b)'
    BY <1>1, <2>1, SteadyKept DEF Alive, StaysInStep
  <2>3. Pending(Stream(b)', sent'[Peer(b)], accepted'[b])
    BY <2>2 DEF Steady
  <2> DEFINE begun == sent'[Peer(b)]
             got == accepted'[b]
  <2>4. begun \in Seq(AllFrames) /\ got \in Seq(AllFrames)
    BY Peers DEF TypeOK, Types
  <2>5. Len(got) <= Len(begun) /\ \A i \in DOMAIN got : got[i] = begun[i]
    BY <2>3 DEF Pending
  <2> HIDE DEF begun, got
  <2>6. got = SubSeq(begun, 1, Len(got))
    <3>1. DOMAIN got = 1..Len(got)
      BY <2>4
    <3> QED
      BY <2>4, <2>5, <3>1, Beginning
  <2> QED
    BY <2>5, <2>6 DEF begun, got
<1>3. CASE ~ReadData(b)
  <2>1. /\ Len(accepted[b]) <= Len(sent[Peer(b)])
        /\ accepted[b] = SubSeq(sent[Peer(b)], 1, Len(accepted[b]))
    BY <1>1 DEF SteadyInv, NothingSkipped
  <2> QED
    BY <1>1, <1>3, <2>1, SkippedStep
<1> QED
  BY <1>2, <1>3

LEMMA SteadyStep == SteadyInv /\ [Next]_usbVars => SteadyInv'
<1> SUFFICES ASSUME SteadyInv, [Next]_usbVars PROVE SteadyInv'
  OBVIOUS
<1>1. UsbInv' /\ TypeOK'
  BY InvariantStep DEF SteadyInv, UsbInv
<1>2. GenuineFrames'
  BY <1>1, NoStrayStep DEF GenuineFrames, UsbInv
<1>3. NothingSkipped'
  BY <1>1, SkippedNone DEF NothingSkipped
<1>4. \A b \in Bridges : (Alive(b) /\ ~short[Peer(b)] /\ ~lost[b] => Steady(b))'
  BY <1>1, SteadyKept
<1> QED
  BY <1>1, <1>2, <1>3, <1>4, NeverLostStep DEF SteadyInv

LEMMA SteadyInit == Init => SteadyInv
<1> SUFFICES ASSUME Init PROVE SteadyInv
  OBVIOUS
<1>1. UsbInv
  BY InvariantInit
<1>2. \A b \in Bridges : /\ accepted[b] = <<>> /\ sent[b] = <<>> /\ link[b] = <<>>
                         /\ tx[b] = <<>> /\ stage[b] = "sync1"
                         /\ stray[b] = FALSE /\ lost[b] = FALSE
  BY DEF Init
<1>3. ASSUME NEW b \in Bridges
      PROVE  /\ Stream(b) = <<>> /\ accepted[b] = <<>> /\ sent[Peer(b)] = <<>>
             /\ stage[b] = "sync1"
  <2>1. Stream(b) = <<>> \o <<>>
    BY <1>2, Peers DEF Stream
  <2> QED
    BY <1>2, <2>1, Peers
<1>4. ASSUME NEW b \in Bridges PROVE Steady(b)
  BY <1>3 DEF Steady, Whole, InStep, AtStart, Pending
<1>5. NothingSkipped
  <2>1. ASSUME NEW b \in Bridges
        PROVE  /\ Len(accepted[b]) <= Len(sent[Peer(b)])
               /\ accepted[b] = SubSeq(sent[Peer(b)], 1, Len(accepted[b]))
    <3>1. Len(<<>>) <= Len(<<>>) /\ <<>> = SubSeq(<<>>, 1, Len(<<>>))
      OBVIOUS
    <3>2. accepted[b] = <<>> /\ sent[Peer(b)] = <<>>
      BY <1>3
    <3> QED
      BY <3>1, <3>2, Zenon
  <2> QED
    BY <2>1 DEF NothingSkipped
<1>6. GenuineFrames /\ NeverLost
  BY <1>1, <1>2 DEF UsbInv, GenuineFrames, NeverLost
<1> QED
  BY <1>1, <1>4, <1>5, <1>6 DEF SteadyInv

(* As long as its peer has cut no frame off and it has left none in the      *)
(* middle, a bridge is at the place of a frame where its own state says it   *)
(* is, and every frame begun is decoded or still to come; and one with pipes *)
(* leaves none in the middle, if the payloads fit --max-frame and the        *)
(* header's 16 bits.                                                         *)
THEOREM SteadyInvariant == Spec => []SteadyInv
<1>1. SteadyInv /\ [Next]_usbVars => SteadyInv'
  BY SteadyStep
<1> QED
  BY <1>1, SteadyInit, PTL DEF Spec

(* What a bridge decodes by a frame's own checksum its peer began to send,   *)
(* in this order and none twice, whatever was cut off or spliced; and only   *)
(* one that has lost its step takes anything else for a frame.               *)
THEOREM FramesGenuine == Spec => []GenuineFrames
<1>1. SteadyInv => GenuineFrames
  BY DEF SteadyInv
<1> QED
  BY <1>1, SteadyInvariant, PTL

(* A reader that keeps its step passes no frame over, whatever bytes the     *)
(* payloads hold: it has decoded the first so many of the frames its peer    *)
(* began, in order.                                                          *)
THEOREM NoneSkipped == Spec => []NothingSkipped
<1>1. SteadyInv => NothingSkipped
  BY DEF SteadyInv
<1> QED
  BY <1>1, SteadyInvariant, PTL
=============================================================================
