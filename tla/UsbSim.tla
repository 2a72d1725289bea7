------------------------------- MODULE UsbSim -------------------------------
(***************************************************************************)
(* Two bridges of src/bin/usbsim_bridge.rs joined by a duplex byte stream. *)
(* Each takes messages off the bus of its own host and writes them as      *)
(* frames, and publishes there what it reads, answering with an ACK.       *)
(*                                                                         *)
(* The stream carries tokens: the two magic bytes and each payload byte    *)
(* are one token, and so are the header's ten bytes and the checksum's     *)
(* two.  A payload byte may look like a magic byte; header and checksum    *)
(* bytes do not.  Nothing is stuffed or escaped, and a payload may hold a  *)
(* whole frame.  So a checksum is right when the tokens read are those of  *)
(* one frame; read off what is no frame's checksum it may be right of      *)
(* anything; a frame's own is wrong of anything else (no collisions).      *)
(*                                                                         *)
(* A bus is the queue of what its bridge has still to take off it (the     *)
(* bridge's cursor is taken for the slowest).  A pty is opened             *)
(* non-blocking, so that a write can leave a part of a frame behind and a  *)
(* read can stop inside one; a pipe blocks.  hops, sent, accepted, stray,  *)
(* lost and short are history.                                             *)
(***************************************************************************)
EXTENDS Naturals, Sequences

CONSTANTS
  Bridges,   \* the two processes
  Ptys,      \* those whose endpoint is a pty; the others have pipes
  SelfTest,  \* those started with --self-test
  MayLackBus,  \* those whose bus may not be available, or refuse a subscriber
  Mortal,    \* those that may be stopped at any point
  Msgs,      \* what the clients publish, each at most once
  Home,      \* the bridge on whose bus each message is published
  Probe,     \* the self-test's message
  Stray,     \* a payload that nobody published: spliced, or found in another
  Bytes,     \* each message's payload bytes: "lo" and "hi" look like magic
  Cap,       \* slots of each bus
  Room,      \* tokens one direction of the stream holds
  MaxFrame,  \* --max-frame
  LenSpace,  \* the lengths a header can hold, 65536
  MaxSeq     \* BOUND: the data frames each bridge sends

ASSUME EndsAssumption == /\ \E a, b \in Bridges : a # b /\ Bridges = {a, b}
                         /\ Ptys \subseteq Bridges /\ SelfTest \subseteq Bridges
                         /\ Mortal \subseteq Bridges /\ MayLackBus \subseteq Bridges
ASSUME MsgAssumption  == /\ Probe \notin Msgs /\ Stray \notin Msgs \cup {Probe}
                         /\ Home \in [Msgs -> Bridges]
                         /\ Bytes \in [Msgs \cup {Probe, Stray}
                                        -> Seq({"lo", "hi", "other"})]
                         /\ Bytes[Probe] # <<>>
ASSUME SizeAssumption == /\ {Cap, Room, MaxFrame, LenSpace} \subseteq Nat \ {0}
                         /\ MaxSeq \in [Bridges -> Nat]

VARIABLES
  with_bus,            \* "none", "refused" or "subscribed"
  queue, published,    \* each bus; the clients' messages so far
  pc, seq_ctr, printed_pass,
  tx, tx_for,          \* the rest of the frame being written, and what it is
  stage, hdr, want, work,  \* read_frame: where it is, and what it has read
  link,                \* the tokens on their way to each bridge
  sent, short,         \* data frames begun; whether one was not written whole
  accepted, stray, lost  \* data frames decoded by their own checksum; whether
                       \* anything else was; whether read_frame has left a
                       \* frame in the middle

reading == <<stage, hdr, want, work>>
writing == <<tx, tx_for>>
decoded == <<accepted, stray>>
usbVars == <<with_bus, queue, published, pc, seq_ctr, printed_pass, tx, tx_for,
             stage, hdr, want, work, link, sent, short, accepted, stray, lost>>

Peer(b)  == CHOOSE d \in Bridges : d # b
Alive(b) == pc[b] # "done"

HasBus(b)     == with_bus[b] # "none"
Subscribed(b) == with_bus[b] = "subscribed"

\* write_frame: magic, header, payload, checksum.
Frame(chan, seq, m, h) == [chan |-> chan, seq |-> seq, msg |-> m, hops |-> h]
FrameLen(f) == Len(Bytes[f.msg]) + 4
Tokens(f)   == [k \in 1..FrameLen(f) |-> [of |-> f, k |-> k]]

Byte(t) ==
  CASE t.k = 1 -> "lo"
    [] t.k = 2 -> "hi"
    [] t.k \in 4..FrameLen(t.of)-1 -> Bytes[t.of.msg][t.k - 3]
    [] OTHER -> "other"

NoToken == [of |-> Frame(0, 0, Probe, 0), k |-> 0]

Init ==
  /\ with_bus \in [Bridges -> {"none", "refused", "subscribed"}]
  /\ \A b \in Bridges \ MayLackBus : Subscribed(b)
  /\ queue = [b \in Bridges |-> <<>>] /\ published = {}
  /\ pc = [b \in Bridges |-> IF b \in SelfTest THEN "start" ELSE "loop"]
  /\ seq_ctr = [b \in Bridges |-> 0] /\ printed_pass = [b \in Bridges |-> FALSE]
  /\ tx = [b \in Bridges |-> <<>>] /\ tx_for = [b \in Bridges |-> "none"]
  /\ stage = [b \in Bridges |-> "sync1"] /\ hdr = [b \in Bridges |-> NoToken]
  /\ want = [b \in Bridges |-> 0] /\ work = [b \in Bridges |-> <<>>]
  /\ link = [b \in Bridges |-> <<>>]
  /\ sent = [b \in Bridges |-> <<>>] /\ short = [b \in Bridges |-> FALSE]
  /\ accepted = [b \in Bridges |-> <<>>] /\ stray = [b \in Bridges |-> FALSE]
  /\ lost = [b \in Bridges |-> FALSE]

Goto(b, l) == pc' = [pc EXCEPT ![b] = l]

-----------------------------------------------------------------------------
(* The bus, as the bridge uses it.                                         *)

HasRoom(b) == Len(queue[b]) < Cap
Put(b, m, h) == queue' = [queue EXCEPT ![b] = Append(@, [msg |-> m, hops |-> h])]

ClientPublish(m) ==
  /\ m \notin published /\ Bytes[m] # <<>> /\ Subscribed(Home[m]) /\ HasRoom(Home[m])
  /\ published' = published \cup {m}
  /\ Put(Home[m], m, 0)
  /\ UNCHANGED <<with_bus, pc, seq_ctr, printed_pass, writing, reading, link,
                 sent, decoded, lost, short>>

-----------------------------------------------------------------------------
(* Writing frames.                                                         *)

BeginWrite(b, f, for) ==
  /\ tx' = [tx EXCEPT ![b] = Tokens(f)]
  /\ tx_for' = [tx_for EXCEPT ![b] = for]
  /\ Goto(b, "write")

\* A frame with the next number.  The code counts after the write, whatever
\* becomes of it, and reads the counter nowhere in between.
BeginData(b, m, h, for) ==
  LET f == Frame(0, seq_ctr[b], m, h) IN
  /\ seq_ctr[b] < MaxSeq[b]
  /\ seq_ctr' = [seq_ctr EXCEPT ![b] = @ + 1]
  /\ sent' = [sent EXCEPT ![b] = Append(@, f)]
  /\ BeginWrite(b, f, for)

\* Where the loop goes on after a write, failed or not.
AfterWrite(b) ==
  /\ tx' = [tx EXCEPT ![b] = <<>>] /\ tx_for' = [tx_for EXCEPT ![b] = "none"]
  /\ Goto(b, CASE tx_for[b] = "probe" -> "bus"
               [] tx_for[b] = "data"  -> "read"
               [] OTHER -> "loop")

\* One write(2) of write_all takes what fits.
WriteSome(b) ==
  /\ pc[b] = "write" /\ Alive(Peer(b))
  /\ \E k \in 1..Len(tx[b]) :
       /\ k = Len(tx[b]) \/ Len(link[Peer(b)]) + k = Room
       /\ Len(link[Peer(b)]) + k <= Room
       /\ link' = [link EXCEPT ![Peer(b)] = @ \o SubSeq(tx[b], 1, k)]
       /\ IF k = Len(tx[b]) THEN AfterWrite(b)
          ELSE tx' = [tx EXCEPT ![b] = SubSeq(@, k + 1, Len(@))]
               /\ UNCHANGED <<tx_for, pc>>
  /\ UNCHANGED <<with_bus, queue, published, seq_ctr, printed_pass, reading,
                 sent, decoded, lost, short>>

\* WouldBlock on a full pty: what has been written of the frame stays there.
WriteFull(b) ==
  /\ pc[b] = "write" /\ Alive(Peer(b)) /\ b \in Ptys
  /\ Len(link[Peer(b)]) = Room
  /\ short' = [short EXCEPT ![b] = TRUE]
  /\ AfterWrite(b)
  /\ UNCHANGED <<with_bus, queue, published, seq_ctr, printed_pass, reading, link,
                 sent, decoded, lost>>

\* The peer is gone.  A pipe's BrokenPipe ends the loop, except for a probe; a
\* pty's EIO does not.
WriteClosed(b) ==
  /\ pc[b] = "write" /\ ~Alive(Peer(b))
  /\ IF b \in Ptys \/ tx_for[b] \in {"start", "probe"} THEN AfterWrite(b)
     ELSE Goto(b, "done") /\ UNCHANGED writing
  /\ UNCHANGED <<with_bus, queue, published, seq_ctr, printed_pass, reading, link,
                 sent, decoded, lost, short>>

-----------------------------------------------------------------------------
(* The self-test, and bus -> usb.                                          *)

StartProbeBus(b) ==
  /\ pc[b] = "start" /\ Subscribed(b) /\ HasRoom(b)
  /\ Put(b, Probe, 0)
  /\ Goto(b, "loop")
  /\ UNCHANGED <<with_bus, published, seq_ctr, printed_pass, writing, reading,
                 link, sent, decoded, lost, short>>

StartProbeWire(b) ==
  /\ pc[b] = "start" /\ ~HasBus(b)
  /\ BeginData(b, Probe, 0, "start")
  /\ UNCHANGED <<with_bus, queue, published, printed_pass, reading, link,
                 decoded, lost, short>>

\* Every so many rounds, until an ACK has come.
ProbeAgain(b) ==
  /\ pc[b] = "loop" /\ b \in SelfTest /\ ~printed_pass[b]
  /\ BeginData(b, Probe, 0, "probe")
  /\ UNCHANGED <<with_bus, queue, published, printed_pass, reading, link,
                 decoded, lost, short>>

\* A publish on a bus that has refused a subscriber leaves the cursors' array in
\* its scan, and panics.
PublishPanics(b) ==
  /\ pc[b] \in {"start", "publish"} /\ with_bus[b] = "refused"
  /\ Goto(b, "done")
  /\ UNCHANGED <<with_bus, queue, published, seq_ctr, printed_pass, writing,
                 reading, link, sent, decoded, lost, short>>

\* try_recv: the message is off the bus before the first byte is written.
Take(b) ==
  /\ pc[b] \in {"loop", "bus"} /\ Subscribed(b) /\ queue[b] # <<>>
  /\ queue' = [queue EXCEPT ![b] = Tail(@)]
  /\ BeginData(b, Head(queue[b]).msg, Head(queue[b]).hops, "data")
  /\ UNCHANGED <<with_bus, published, printed_pass, reading, link, decoded,
                 lost, short>>

\* No bus or no subscriber, nothing there, or the bound reached.
TakeNone(b) ==
  /\ pc[b] \in {"loop", "bus"}
  /\ ~Subscribed(b) \/ queue[b] = <<>> \/ seq_ctr[b] = MaxSeq[b]
  /\ Goto(b, "read")
  /\ UNCHANGED <<with_bus, queue, published, seq_ctr, printed_pass, writing,
                 reading, link, sent, decoded, lost, short>>

-----------------------------------------------------------------------------
(* read_frame, one read_exact a step, and usb -> bus.                      *)

EndReadKeepsWork(b) ==  \* mutant: the next payload goes after the last one
  /\ stage' = [stage EXCEPT ![b] = "sync1"] /\ hdr' = [hdr EXCEPT ![b] = NoToken]
  /\ want' = [want EXCEPT ![b] = 0] /\ UNCHANGED work

\* read_frame returns: nothing it has read is kept.
EndRead(b) ==
  /\ stage' = [stage EXCEPT ![b] = "sync1"] /\ hdr' = [hdr EXCEPT ![b] = NoToken]
  /\ want' = [want EXCEPT ![b] = 0] /\ work' = [work EXCEPT ![b] = <<>>]

ToStage(b, s) == stage' = [stage EXCEPT ![b] = s]

Reads(b, s) ==
  /\ pc[b] = "read" /\ stage[b] = s /\ link[b] # <<>>
  /\ link' = [link EXCEPT ![b] = Tail(@)]
  /\ UNCHANGED <<with_bus, published, seq_ctr, sent, short>>

ReadMagicLo(b) ==
  /\ Reads(b, "sync1")
  /\ ToStage(b, IF Byte(Head(link[b])) = "lo" THEN "sync2" ELSE "sync1")
  /\ UNCHANGED <<queue, pc, printed_pass, writing, hdr, want, work, decoded, lost>>

\* A byte that is not the second magic byte is used up, even if it is a first.
ReadMagicHi(b) ==
  /\ Reads(b, "sync2")
  /\ ToStage(b, IF Byte(Head(link[b])) = "hi" THEN "hdr" ELSE "sync1")
  /\ UNCHANGED <<queue, pc, printed_pass, writing, hdr, want, work, decoded, lost>>

TooLongNever(len) == FALSE  \* mutant: no check
TooLong(len) == len > MaxFrame

\* The length a header gives, `as u16`; anything, if it is no header.
Lengths(t) == IF t.k = 3 THEN {Len(Bytes[t.of.msg]) % LenSpace} ELSE 0..MaxFrame+1
Cuts(t)    == t.k = 3 /\ Len(Bytes[t.of.msg]) >= LenSpace

ReadHeader(b) ==
  /\ Reads(b, "hdr")
  /\ \E len \in Lengths(Head(link[b])) :
       /\ IF TooLong(len)  \* Err(LenTooBig)
          THEN EndRead(b) /\ Goto(b, "loop")
          ELSE /\ hdr' = [hdr EXCEPT ![b] = Head(link[b])]
               /\ want' = [want EXCEPT ![b] = len]
               /\ ToStage(b, IF len = 0 THEN "crc" ELSE "payload")
               /\ UNCHANGED <<pc, work>>
       /\ lost' = [lost EXCEPT ![b] = @ \/ TooLong(len) \/ Cuts(Head(link[b]))]
  /\ UNCHANGED <<queue, printed_pass, writing, decoded>>

ReadPayloadShort(b) ==  \* mutant: leaves the last payload byte unread
  /\ Reads(b, "payload")
  /\ work' = [work EXCEPT ![b] = Append(@, Head(link[b]))]
  /\ ToStage(b, IF Len(work[b]) + 2 >= want[b] THEN "crc" ELSE "payload")
  /\ UNCHANGED <<queue, pc, printed_pass, writing, hdr, want, decoded, lost>>

ReadPayload(b) ==
  /\ Reads(b, "payload")
  /\ work' = [work EXCEPT ![b] = Append(@, Head(link[b]))]
  /\ ToStage(b, IF Len(work[b]) + 1 = want[b] THEN "crc" ELSE "payload")
  /\ UNCHANGED <<queue, pc, printed_pass, writing, hdr, want, decoded, lost>>

ChecksumOfHeader(b, t) == hdr[b].k = 3  \* mutant: the payload is left out
ChecksumOk(b, t) ==
  hdr[b].k = 3
  /\ SubSeq(Tokens(hdr[b].of), 4, FrameLen(hdr[b].of)) = Append(work[b], t)

IsChecksum(t) == t.k = FrameLen(t.of)
MayMatch(b, t) == ~ChecksumOk(b, t) /\ ~IsChecksum(t)

\* What read_frame returns: the header's fields and the payload as read.
Decoded(b) ==
  LET f == hdr[b].of IN
  IF work[b] = SubSeq(Tokens(f), 4, FrameLen(f) - 1) THEN f
  ELSE [f EXCEPT !.msg = Stray]
StrayFrame  == Frame(0, 0, Stray, 0)
Channels(b) == IF hdr[b].k = 3 THEN {hdr[b].of.chan} ELSE {0, 1}

AckFrame(f) == Frame(1, 0, f.msg, 0)

ReadBadCrcAcked(b) ==  \* mutant: answers a damaged frame too
  /\ Reads(b, "crc") /\ ~ChecksumOk(b, Head(link[b]))
  /\ EndRead(b) /\ BeginWrite(b, AckFrame(hdr[b].of), "ack")
  /\ UNCHANGED <<queue, printed_pass, decoded, lost>>

ReadBadCrc(b) ==
  /\ Reads(b, "crc") /\ ~ChecksumOk(b, Head(link[b]))
  /\ EndRead(b) /\ Goto(b, "loop")
  /\ UNCHANGED <<queue, printed_pass, writing, decoded, lost>>

\* With a bus the message is published first, unless it is empty and refused; the
\* ACK is sent in any case.  rx_buf and the header stay until then.
Deliver(b, f) ==
  /\ IF HasBus(b) /\ want[b] # 0
     THEN /\ Goto(b, "publish") /\ hdr' = [hdr EXCEPT ![b] = [of |-> f, k |-> 3]]
          /\ UNCHANGED <<writing, stage, want, work>>
     ELSE BeginWrite(b, AckFrame(f), "ack") /\ EndRead(b)
  /\ UNCHANGED <<queue, printed_pass, lost>>

ReadData(b) ==
  /\ Reads(b, "crc") /\ ChecksumOk(b, Head(link[b])) /\ Decoded(b).chan = 0
  /\ accepted' = [accepted EXCEPT ![b] = Append(@, Decoded(b))]
  /\ Deliver(b, Decoded(b)) /\ UNCHANGED stray

ReadStrayData(b) ==
  /\ Reads(b, "crc") /\ MayMatch(b, Head(link[b])) /\ 0 \in Channels(b)
  /\ stray' = [stray EXCEPT ![b] = TRUE]
  /\ Deliver(b, StrayFrame) /\ UNCHANGED accepted

\* The blocking publish, on the bus this thread itself has to drain.
Publish(b) ==
  LET f == hdr[b].of IN
  /\ pc[b] = "publish" /\ Subscribed(b) /\ HasRoom(b)
  /\ Put(b, f.msg, f.hops + 1)
  /\ BeginWrite(b, AckFrame(f), "ack") /\ EndRead(b)
  /\ UNCHANGED <<with_bus, published, seq_ctr, printed_pass, link, sent, decoded,
                 lost, short>>

Pass(b) ==
  /\ printed_pass' = [printed_pass EXCEPT ![b] = @ \/ b \in SelfTest]
  /\ EndRead(b) /\ Goto(b, "loop")
  /\ UNCHANGED <<queue, writing, accepted, lost>>

ReadAck(b) ==
  /\ Reads(b, "crc") /\ ChecksumOk(b, Head(link[b])) /\ hdr[b].of.chan = 1
  /\ Pass(b) /\ UNCHANGED stray

ReadStrayAck(b) ==
  /\ Reads(b, "crc") /\ MayMatch(b, Head(link[b])) /\ 1 \in Channels(b)
  /\ stray' = [stray EXCEPT ![b] = TRUE] /\ Pass(b)

\* WouldBlock, wherever in a frame it comes.
ReadNone(b) ==
  /\ pc[b] = "read" /\ link[b] = <<>> /\ Alive(Peer(b)) /\ b \in Ptys
  /\ lost' = [lost EXCEPT ![b] = @ \/ stage[b] # "sync1"]
  /\ EndRead(b) /\ Goto(b, "loop")
  /\ UNCHANGED <<with_bus, queue, published, seq_ctr, printed_pass, writing, link,
                 sent, decoded, short>>

ReadClosedAsNone(b) ==  \* mutant: the end of input is taken for no data
  /\ pc[b] = "read" /\ ~Alive(Peer(b)) /\ (link[b] = <<>> \/ b \in Ptys)
  /\ EndRead(b) /\ Goto(b, "loop")
  /\ UNCHANGED <<with_bus, queue, published, seq_ctr, printed_pass, writing, link,
                 sent, decoded, lost, short>>

\* The peer is gone and what it wrote has been read; a pty's hang-up can come
\* before that.
ReadClosed(b) ==
  /\ pc[b] = "read" /\ ~Alive(Peer(b)) /\ (link[b] = <<>> \/ b \in Ptys)
  /\ EndRead(b) /\ Goto(b, "done")
  /\ UNCHANGED <<with_bus, queue, published, seq_ctr, printed_pass, writing, link,
                 sent, decoded, lost, short>>

-----------------------------------------------------------------------------
\* The process is stopped from outside.
Stop(b) ==
  /\ b \in Mortal /\ Alive(b)
  /\ Goto(b, "done")
  /\ UNCHANGED <<with_bus, queue, published, seq_ctr, printed_pass, writing,
                 reading, link, sent, decoded, lost, short>>

Loop(b) ==
  \/ StartProbeBus(b) \/ StartProbeWire(b) \/ PublishPanics(b) \/ Take(b) \/ TakeNone(b)
  \/ WriteSome(b) \/ WriteFull(b) \/ WriteClosed(b)
  \/ ReadMagicLo(b) \/ ReadMagicHi(b) \/ ReadHeader(b) \/ ReadPayload(b)
  \/ ReadBadCrc(b) \/ ReadData(b) \/ ReadStrayData(b) \/ Publish(b)
  \/ ReadAck(b) \/ ReadStrayAck(b)
  \/ ReadNone(b) \/ ReadClosed(b)

Next ==
  \/ \E m \in Msgs : ClientPublish(m)
  \/ \E b \in Bridges : Loop(b) \/ ProbeAgain(b) \/ Stop(b)

Spec == Init /\ [][Next]_usbVars

\* Each bridge's loop runs; nobody has to publish or to stop.
FairSpec == Spec /\ \A b \in Bridges : WF_usbVars(Loop(b))
=============================================================================
