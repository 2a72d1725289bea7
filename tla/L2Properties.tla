---------------------------- MODULE L2Properties ----------------------------
(* What is claimed of the bridges of L2Bridge. *)
EXTENDS L2Bridge

AllMsgs   == Msgs \cup {Probe}
Fragments == AllMsgs \X (Nat \ {0})
Payloads  == Seq(Fragments) \ {<<>>}

DataFrames == [chan : {0}, id : Nat, idx : Nat, last : BOOLEAN, frag : Fragments,
               nth : Nat]
AckFrames  == [chan : {1}, id : Nat]

\* A nonempty leading part of one message.
LeadingPart(p) ==
  \E m \in AllMsgs : \E k \in 1..Len(Payload(m)) : p = SubSeq(Payload(m), 1, k)

-----------------------------------------------------------------------------
(* Types, and the bounds of the three buffers: the bus never holds more than *)
(* its slots for the bridge, the reassembly buffer never more than          *)
(* max_frame, and a message going out is not sent beyond its end            *)
(* (l2bridge.rs 486, 579, 594).                                             *)
TypeOK ==
  /\ bus \in [Bridges -> Seq(Payloads)] /\ bridged \in [Bridges -> Seq(Payloads)]
  /\ cur \in [Bridges -> Nat] /\ published \subseteq Msgs
  /\ pc \in [Bridges -> {"probe_bus", "probe_wire", "loop", "send", "recv",
                         "publish", "ack"}]
  /\ next_id \in [Bridges -> Nat]
  /\ tx \in [Bridges -> [pay : Seq(Fragments), nth : Nat, id : Nat, idx : Nat]]
  /\ reasm_buf \in [Bridges -> Seq(Fragments)]
  /\ reasm_id \in [Bridges -> Nat] /\ reasm_next_idx \in [Bridges -> Nat]
  /\ rx \in [Bridges -> Nat] /\ printed_pass \in [Bridges -> BOOLEAN]
  /\ link \in [Bridges -> Seq(DataFrames \cup AckFrames)]
  /\ \A b \in Bridges :
       /\ cur[b] <= Len(bus[b]) /\ Len(bus[b]) <= cur[b] + Cap
       /\ pc[b] = "send" => tx[b].idx < Len(tx[b].pay)
       /\ pc[b] = "publish" => reasm_buf[b] # <<>>
       /\ Len(reasm_buf[b]) <= MaxFrame

(* Reassembly never mixes messages: whatever fragments get lost, what is   *)
(* published on the other side is a leading part of one message            *)
(* (l2bridge.rs 563-595).                                                  *)
NeverMixed ==
  \A b \in Bridges : \A k \in DOMAIN bridged[b] : LeadingPart(bridged[b][k])

(* A self-test takes any ACK for its PASS (l2bridge.rs 648-651), probes are *)
(* repeated and frames get lost; yet between two bridges an ACK always     *)
(* names a message that the one it reaches has sent (lines 592-646).       *)
AcksAnswer ==
  \A b \in Bridges :
    /\ \A k \in DOMAIN link[b] : link[b][k].chan = 1 => link[b][k].id \in 1..next_id[b]-1
    /\ printed_pass[b] => next_id[b] > 1

(* Over a segment that loses nothing a bridge hands on its peer's bus whole, *)
(* in order and once each.  (The peers are two, every message fits.)       *)
FaithfulRelay ==
  \A b, d \in Bridges : b # d =>
    /\ Len(bridged[d]) <= Len(bus[b])
    /\ bridged[d] = SubSeq(bus[b], 1, Len(bridged[d]))

(* Over such a segment, as many messages come out on the peer's bus as a   *)
(* bridge has taken off its own, while that bus has room for them.         *)
MessagesCross ==
  \A b, d \in Bridges : b # d => \A k \in 1..MaxTaken :
    cur[b] >= k ~> Len(bridged[d]) >= k

-----------------------------------------------------------------------------
(* The inductive invariant behind NeverMixed and AcksAnswer, of two bridges *)
(* that send fewer messages than there are ids.                            *)

TwoBridges == \E a, b \in Bridges : a # b /\ Bridges = {a, b}
FewIds     == MaxIds + 1 < IdSpace

IsData(f)     == f.chan = 0
DataAt(b)     == {k \in DOMAIN link[b] : IsData(link[b][k])}
Sending(b, n) == pc[b] = "send" /\ tx[b].id = n
UsedIds(b)    == 1..next_id[b]-1

\* What is left over of a message whose end has come cannot be continued.
Closed(d) == \/ pc[d] \in {"publish", "ack"}
             \/ reasm_buf[d] = <<>> /\ reasm_next_idx[d] # 0

\* Whoever uses an id has it from the bridge that counts it.
IdsOwned ==
  \A a, d \in Bridges : a # d =>
    /\ next_id[a] > 0 /\ reasm_id[d] < next_id[a]
    /\ pc[a] = "send" => tx[a].id \in UsedIds(a)
    /\ pc[d] \in {"publish", "ack"} => rx[d] = reasm_id[d] /\ rx[d] > 0
    /\ \A k \in DataAt(d) : link[d][k].id \in UsedIds(a)

\* Frames of one id are of one message, and nothing follows the last.
OneMessage ==
  \A a, d \in Bridges : a # d => \A k \in DataAt(d) :
    LET f == link[d][k] IN
    /\ f.idx < Len(Payload(f.frag[1])) /\ f.frag[2] = f.idx + 1
    /\ \A j \in DataAt(d) :
         link[d][j].id = f.id => /\ link[d][j].frag[1] = f.frag[1]
                                 /\ f.last => j <= k
    /\ Sending(a, f.id) => ~f.last /\ f.frag[1] = tx[a].pay[1][1]

\* The buffer holds the beginning of the message that the next frames of its id
\* are of.
Collecting ==
  \A a, d \in Bridges : a # d =>
    /\ reasm_buf[d] # <<>> =>
         LET m == reasm_buf[d][1][1] IN
         /\ LeadingPart(reasm_buf[d]) /\ reasm_next_idx[d] = Len(reasm_buf[d])
         /\ \A k \in DataAt(d) : link[d][k].id = reasm_id[d] => link[d][k].frag[1] = m
         /\ Sending(a, reasm_id[d]) => tx[a].pay[1][1] = m
    /\ Closed(d) => ~Sending(a, reasm_id[d])
                    /\ \A k \in DataAt(d) : link[d][k].id # reasm_id[d]

\* Wherever a message is, it is a leading part of one.
WholeParts ==
  \A b \in Bridges :
    /\ \A k \in DOMAIN bus[b] : LeadingPart(bus[b][k])
    /\ pc[b] = "send" => LeadingPart(tx[b].pay)

BridgeInv == /\ TypeOK /\ IdsOwned /\ OneMessage /\ Collecting /\ WholeParts
             /\ NeverMixed /\ AcksAnswer

-----------------------------------------------------------------------------
(* The inductive invariant behind FaithfulRelay, over a segment that loses  *)
(* nothing: positions in the stream of all fragments of a bus, by message   *)
(* and place in the message.                                               *)

\* Nothing lost, no probes, and every message fits everywhere.
Lossless == /\ ~Lossy /\ SelfTest = {}
            /\ \A m \in Msgs : Frags[m] <= MaxFrame

NoProbes == \A b \in Bridges : pc[b] \notin {"probe_bus", "probe_wire"}
AllFit   == \A b \in Bridges : \A k \in DOMAIN bus[b] : Len(bus[b][k]) <= MaxFrame

Before(n, i, p, j) == n < p \/ (n = p /\ i < j)

\* The next position to send, and the next to be received.
SendMsg(a)  == IF pc[a] = "send" THEN cur[a] ELSE cur[a] + 1
SendIdx(a)  == IF pc[a] = "send" THEN tx[a].idx ELSE 0
RecvMsg(d)  == Len(bridged[d]) + (IF pc[d] = "publish" THEN 2 ELSE 1)
RecvIdx(d)  == IF pc[d] \in {"publish", "ack"} THEN 0 ELSE Len(reasm_buf[d])
InFlight(a, d, n, i) ==
  ~Before(n, i, RecvMsg(d), RecvIdx(d)) /\ Before(n, i, SendMsg(a), SendIdx(a))

FrameOf(a, f) ==
  /\ f.nth \in DOMAIN bus[a] /\ f.idx + 1 \in DOMAIN bus[a][f.nth]
  /\ f.frag = bus[a][f.nth][f.idx + 1]
  /\ f.last <=> (f.idx + 1 = Len(bus[a][f.nth]))

\* The segment carries exactly the positions between the two, in order.
Streamed(a, d) ==
  /\ ~Before(SendMsg(a), SendIdx(a), RecvMsg(d), RecvIdx(d))
  /\ \A k \in DataAt(d) :
       LET f == link[d][k] IN
       /\ FrameOf(a, f) /\ InFlight(a, d, f.nth, f.idx)
       /\ \A j \in DataAt(d) :
            j < k => Before(link[d][j].nth, link[d][j].idx, f.nth, f.idx)
  /\ \A n \in DOMAIN bus[a] : \A i \in 0..Len(bus[a][n])-1 :
       InFlight(a, d, n, i) =>
         \E k \in DataAt(d) : link[d][k].nth = n /\ link[d][k].idx = i

\* A message keeps one id.
OneId(a, d) ==
  /\ pc[a] = "send" => /\ cur[a] > 0 /\ tx[a].nth = cur[a]
                       /\ tx[a].pay = bus[a][cur[a]]
  /\ \A k \in DataAt(d) :
       /\ \A j \in DataAt(d) :
            link[d][j].nth = link[d][k].nth => link[d][j].id = link[d][k].id
       /\ pc[a] = "send" /\ link[d][k].nth = cur[a] => link[d][k].id = tx[a].id

\* What has been bridged is the beginning of the peer's bus, and what is in the
\* buffer is the beginning of the next message, or all of it.
Received(a, d) ==
  LET n == Len(bridged[d]) + 1
      l == Len(reasm_buf[d])
  IN  /\ Len(bridged[d]) <= cur[a]
      /\ \A k \in DOMAIN bridged[d] : bridged[d][k] = bus[a][k]
      /\ pc[d] = "publish" => l > 0
      /\ pc[d] # "ack" /\ l > 0 =>
           /\ n <= cur[a] /\ reasm_next_idx[d] = l
           /\ l <= Len(bus[a][n])
           /\ \A k \in 1..l : reasm_buf[d][k] = bus[a][n][k]
           /\ (pc[d] = "publish") <=> (l = Len(bus[a][n]))
           /\ \A k \in DataAt(d) : link[d][k].nth = n => link[d][k].id = reasm_id[d]
           /\ pc[a] = "send" /\ n = cur[a] => tx[a].id = reasm_id[d]

RelayInv == /\ TypeOK /\ NoProbes /\ AllFit
            /\ \A a, d \in Bridges : a # d => /\ Streamed(a, d) /\ OneId(a, d)
                                              /\ Received(a, d)
=============================================================================
