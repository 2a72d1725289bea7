------------------------------ MODULE L2Bridge ------------------------------
(***************************************************************************)
(* The bridges of src/bin/l2bridge.rs: each sits between a bus of its own  *)
(* host, on which it both subscribes and publishes, and one Ethernet       *)
(* segment that all of them share.  It cuts a message of its bus into      *)
(* fragments and sends them under a message id, reassembles what arrives   *)
(* in its only buffer, publishes it and answers with an ACK.               *)
(*                                                                         *)
(* A bridge is one thread; an action is one call that others can see (a    *)
(* bus operation, a frame sent or received) with the computation up to the *)
(* next one.  A bus is the log it promises to be (FanoutLog), held back by *)
(* the bridge's own cursor.  The segment keeps frames in order and may     *)
(* lose them: a failed send, a full socket buffer and a checksum error all *)
(* come down to that.  The hop limit is written into every frame and never *)
(* read, and left out.  A message has at most 65535 fragments: frag_idx is *)
(* a u16.  A slot has at least the size of the reassembly buffer (main     *)
(* refuses any other), so that whatever was reassembled fits, whereas what *)
(* a client publishes may be longer than --max-frame.  bridged is history, *)
(* and so is nth, which says what message of the sender's bus a fragment   *)
(* is of.                                                                  *)
(***************************************************************************)
EXTENDS Naturals, Sequences

CONSTANTS
  Bridges,
  Msgs,       \* what the clients publish, each at most once
  Home,       \* the bridge on whose bus each message is published
  Frags,      \* the number of fragments each message is cut into
  Probe,      \* the self-test's message, of one fragment
  SelfTest,   \* the bridges started with --self-test
  Cap,        \* slots of each bus
  MaxFrame,   \* fragments the reassembly buffer holds (--max-frame)
  IdSpace,    \* message ids, 2^16
  Lossy,      \* whether the segment loses frames
  MaxIds,     \* BOUND: the largest id a bridge may use
  MaxTaken    \* BOUND: the messages a bridge takes off its bus

ASSUME MsgAssumption  == /\ Probe \notin Msgs /\ Home \in [Msgs -> Bridges]
                         /\ Frags \in [Msgs -> Nat \ {0}]
                         /\ \A m \in Msgs : Frags[m] <= 65535
ASSUME SizeAssumption == /\ Cap \in Nat \ {0} /\ MaxFrame \in Nat \ {0}
                         /\ IdSpace \in Nat \ {0, 1} /\ MaxIds \in Nat
                         /\ MaxTaken \in Nat
ASSUME ModeAssumption == Lossy \in BOOLEAN /\ SelfTest \subseteq Bridges

VARIABLES
  bus,       \* each host's log of payloads, a payload a sequence of fragments
  bridged,   \* what the bridge has put there of what came over the segment
  cur,       \* the bridge's cursor on its bus
  published, \* the clients' messages so far
  pc, next_id, tx,                        \* loop, msg_id_ctr, message going out
  reasm_buf, reasm_id, reasm_next_idx,    \* the reassembly buffer
  rx,        \* the message id of the frame being handled
  printed_pass,
  link       \* the frames on their way to each bridge

bridgeVars == <<bus, bridged, cur, published, pc, next_id, tx, reasm_buf,
                reasm_id, reasm_next_idx, rx, printed_pass, link>>

\* A fragment knows its message and its place in it.
Payload(m) == [k \in 1..(IF m = Probe THEN 1 ELSE Frags[m]) |-> <<m, k>>]
Nothing    == [pay |-> <<>>, nth |-> 0, id |-> 0, idx |-> 0]

Init ==
  /\ bus = [b \in Bridges |-> <<>>] /\ bridged = [b \in Bridges |-> <<>>]
  /\ cur = [b \in Bridges |-> 0] /\ published = {}
  /\ pc = [b \in Bridges |-> IF b \in SelfTest THEN "probe_bus" ELSE "loop"]
  /\ next_id = [b \in Bridges |-> 1] /\ tx = [b \in Bridges |-> Nothing]
  /\ reasm_buf = [b \in Bridges |-> <<>>] /\ reasm_id = [b \in Bridges |-> 0]
  /\ reasm_next_idx = [b \in Bridges |-> 0]
  /\ rx = [b \in Bridges |-> 0]
  /\ printed_pass = [b \in Bridges |-> FALSE]
  /\ link = [b \in Bridges |-> <<>>]

-----------------------------------------------------------------------------
(* The bus and the segment, as the bridge uses them.                       *)

Goto(b, l) == pc' = [pc EXCEPT ![b] = l]
HasRoomOffByOne(b) == Len(bus[b]) <= cur[b] + Cap  \* mutant: one slot too many
HasRoom(b) == Len(bus[b]) < cur[b] + Cap
Put(b, p) == bus' = [bus EXCEPT ![b] = Append(@, p)]

\* build_and_send_frag: every other bridge on the segment hears the frame.
Send(b, f) ==
  link' = [d \in Bridges |-> IF d = b THEN link[d] ELSE Append(link[d], f)]

DataFrame(id, idx, last, frag, nth) ==
  [chan |-> 0, id |-> id, idx |-> idx, last |-> last, frag |-> frag, nth |-> nth]

\* The fragments of an ACK are one frame: any of them does.
AckFrame(id) == [chan |-> 1, id |-> id]

UseId(b) ==
  /\ next_id[b] <= MaxIds
  /\ next_id' = [next_id EXCEPT ![b] = (@ + 1) % IdSpace]

reassembly == <<reasm_buf, reasm_id, reasm_next_idx, rx>>

ClientPublish(m) ==
  /\ m \notin published /\ HasRoom(Home[m])
  /\ published' = published \cup {m}
  /\ Put(Home[m], Payload(m))
  /\ UNCHANGED <<bridged, cur, pc, next_id, tx, reassembly, printed_pass,
                 link>>

\* Any frame on its way.
Lose(b) ==
  /\ Lossy
  /\ \E k \in 1..Len(link[b]) :
       link' = [link EXCEPT ![b] =
                  SubSeq(@, 1, k-1) \o SubSeq(@, k+1, Len(@))]
  /\ UNCHANGED <<bus, bridged, cur, published, pc, next_id, tx, reassembly,
                 printed_pass>>

-----------------------------------------------------------------------------
(* Self-test.                                                              *)

ProbeBus(b) ==
  /\ pc[b] = "probe_bus" /\ HasRoom(b)
  /\ Put(b, Payload(Probe))
  /\ Goto(b, "probe_wire")
  /\ UNCHANGED <<bridged, cur, published, next_id, tx, reassembly,
                 printed_pass, link>>

SendProbe(b) == Send(b, DataFrame(next_id[b], 0, TRUE, <<Probe, 1>>, 0)) /\ UseId(b)

ProbeWire(b) ==
  /\ pc[b] = "probe_wire"
  /\ SendProbe(b)
  /\ Goto(b, "loop")
  /\ UNCHANGED <<bus, bridged, cur, published, tx, reassembly, printed_pass>>

\* Every so many rounds, until an ACK has come.
ProbeAgain(b) ==
  /\ pc[b] = "loop" /\ b \in SelfTest /\ ~printed_pass[b]
  /\ SendProbe(b)
  /\ UNCHANGED <<bus, bridged, cur, published, pc, tx, reassembly,
                 printed_pass>>

-----------------------------------------------------------------------------
(* bus -> L2.                                                              *)

\* try_recv: the cursor has moved on before the first fragment is sent.
Take(b) ==
  /\ pc[b] = "loop" /\ cur[b] < Len(bus[b]) /\ cur[b] < MaxTaken
  /\ cur' = [cur EXCEPT ![b] = @ + 1]
  /\ LET n == cur[b] + 1 IN
       tx' = [tx EXCEPT ![b] = [pay |-> bus[b][n], nth |-> n,
                                id |-> next_id[b], idx |-> 0]]
  /\ UseId(b)
  /\ Goto(b, "send")
  /\ UNCHANGED <<bus, bridged, published, reassembly, printed_pass, link>>

\* Nothing on the bus, or nothing left within the bounds.
TakeNone(b) ==
  /\ pc[b] = "loop"
  /\ cur[b] = Len(bus[b]) \/ next_id[b] > MaxIds \/ cur[b] >= MaxTaken
  /\ Goto(b, "recv")
  /\ UNCHANGED <<bus, bridged, cur, published, next_id, tx, reassembly,
                 printed_pass, link>>

SendFragFirst(b) ==  \* mutant: every fragment is sent as the first
  /\ pc[b] = "send"
  /\ LET t    == tx[b]
         last == t.idx + 1 = Len(t.pay)
     IN  /\ Send(b, DataFrame(t.id, 0, last, t.pay[t.idx + 1], t.nth))
         /\ IF last THEN /\ Goto(b, "recv")
                         /\ tx' = [tx EXCEPT ![b] = Nothing]
                    ELSE /\ tx' = [tx EXCEPT ![b].idx = @ + 1]
                         /\ UNCHANGED pc
  /\ UNCHANGED <<bus, bridged, cur, published, next_id, reassembly,
                 printed_pass>>

\* An error of the send is ignored, as if the frame were lost.
SendFrag(b) ==
  /\ pc[b] = "send"
  /\ LET t    == tx[b]
         last == t.idx + 1 = Len(t.pay)
     IN  /\ Send(b, DataFrame(t.id, t.idx, last, t.pay[t.idx + 1], t.nth))
         /\ IF last THEN /\ Goto(b, "recv")
                         /\ tx' = [tx EXCEPT ![b] = Nothing]
                    ELSE /\ tx' = [tx EXCEPT ![b].idx = @ + 1]
                         /\ UNCHANGED pc
  /\ UNCHANGED <<bus, bridged, cur, published, next_id, reassembly,
                 printed_pass>>

-----------------------------------------------------------------------------
(* L2 -> bus.                                                              *)

RecvNone(b) ==
  /\ pc[b] = "recv" /\ link[b] = <<>>
  /\ Goto(b, "loop")
  /\ UNCHANGED <<bus, bridged, cur, published, next_id, tx, reassembly,
                 printed_pass, link>>

\* A different id or a first fragment starts the buffer anew.
RestartsFirst(b, f) == f.idx = 0  \* mutant: the id is not looked at
Restarts(b, f) == reasm_id[b] # f.id \/ f.idx = 0

FitsFromOne(b, f, next) == f.idx = next + 1  \* mutant: counts from one
FitsNext(b, f, next) == f.idx = next

RecvData(b) ==
  /\ pc[b] = "recv" /\ link[b] # <<>> /\ Head(link[b]).chan = 0
  /\ link' = [link EXCEPT ![b] = Tail(@)]
  /\ LET f        == Head(link[b])
         buf      == IF Restarts(b, f) THEN <<>> ELSE reasm_buf[b]
         next     == IF Restarts(b, f) THEN 0 ELSE reasm_next_idx[b]
         appended == IF FitsNext(b, f, next) THEN Append(buf, f.frag) ELSE buf
         overflow == Len(appended) > MaxFrame
     IN  /\ reasm_id' = [reasm_id EXCEPT ![b] = f.id]
         /\ rx' = [rx EXCEPT ![b] = f.id]
         /\ reasm_buf' = [reasm_buf EXCEPT ![b] =
                            IF overflow THEN <<>> ELSE appended]
         /\ reasm_next_idx' = [reasm_next_idx EXCEPT ![b] =
              IF overflow THEN 0
              ELSE IF FitsNext(b, f, next) THEN next + 1 ELSE next]
         /\ Goto(b, IF overflow \/ ~f.last THEN "loop"
                    ELSE IF appended # <<>> THEN "publish" ELSE "ack")
  /\ UNCHANGED <<bus, bridged, cur, published, next_id, tx, printed_pass>>

RecvAck(b) ==
  /\ pc[b] = "recv" /\ link[b] # <<>> /\ Head(link[b]).chan = 1
  /\ link' = [link EXCEPT ![b] = Tail(@)]
  /\ printed_pass' = [printed_pass EXCEPT ![b] = @ \/ b \in SelfTest]
  /\ Goto(b, "loop")
  /\ UNCHANGED <<bus, bridged, cur, published, next_id, tx, reassembly>>

\* The blocking publish, on the bus this thread itself has to drain.
PublishIn(b) ==
  /\ pc[b] = "publish" /\ HasRoom(b)
  /\ Put(b, reasm_buf[b])
  /\ bridged' = [bridged EXCEPT ![b] = Append(@, reasm_buf[b])]
  /\ Goto(b, "ack")
  /\ UNCHANGED <<cur, published, next_id, tx, reassembly, printed_pass, link>>

AckOwnId(b) ==  \* mutant: the ACK takes a number of the answering bridge
  /\ pc[b] = "ack"
  /\ Send(b, AckFrame(next_id[b]))
  /\ reasm_buf' = [reasm_buf EXCEPT ![b] = <<>>]
  /\ Goto(b, "loop")
  /\ UNCHANGED <<bus, bridged, cur, published, next_id, tx, reasm_id,
                 reasm_next_idx, rx, printed_pass>>

\* Sent also when nothing was published.  The buffer is emptied; the next index
\* stays.
Ack(b) ==
  /\ pc[b] = "ack"
  /\ Send(b, AckFrame(rx[b]))
  /\ reasm_buf' = [reasm_buf EXCEPT ![b] = <<>>]
  /\ Goto(b, "loop")
  /\ UNCHANGED <<bus, bridged, cur, published, next_id, tx, reasm_id,
                 reasm_next_idx, rx, printed_pass>>

Loop(b) ==
  \/ ProbeBus(b) \/ ProbeWire(b) \/ Take(b) \/ TakeNone(b) \/ SendFrag(b)
  \/ RecvNone(b) \/ RecvData(b) \/ RecvAck(b) \/ PublishIn(b)
  \/ Ack(b)

Next ==
  \/ \E m \in Msgs : ClientPublish(m)
  \/ \E b \in Bridges : Loop(b) \/ ProbeAgain(b) \/ Lose(b)

Spec == Init /\ [][Next]_bridgeVars

\* Every bridge's loop runs; nobody has to publish.
FairSpec == Spec /\ \A b \in Bridges : WF_bridgeVars(Loop(b))
=============================================================================
