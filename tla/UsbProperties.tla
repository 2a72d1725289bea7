---------------------------- MODULE UsbProperties ----------------------------
(* What is claimed of the bridges of UsbSim. *)
EXTENDS UsbSim

AllMsgs   == Msgs \cup {Probe, Stray}
AllFrames == [chan : {0, 1}, seq : Nat, msg : AllMsgs, hops : Nat]
AllTokens == [of : AllFrames, k : Nat]

Types ==
  /\ with_bus \in [Bridges -> {"none", "refused", "subscribed"}]
  /\ published \subseteq Msgs
  /\ queue \in [Bridges -> Seq([msg : AllMsgs, hops : Nat])]
  /\ pc \in [Bridges -> {"start", "loop", "bus", "write", "read", "publish", "done"}]
  /\ seq_ctr \in [Bridges -> Nat] /\ printed_pass \in [Bridges -> BOOLEAN]
  /\ tx \in [Bridges -> Seq(AllTokens)]
  /\ tx_for \in [Bridges -> {"none", "start", "probe", "data", "ack"}]
  /\ stage \in [Bridges -> {"sync1", "sync2", "hdr", "payload", "crc"}]
  /\ hdr \in [Bridges -> AllTokens] /\ want \in [Bridges -> Nat]
  /\ work \in [Bridges -> Seq(AllTokens)] /\ link \in [Bridges -> Seq(AllTokens)]
  /\ sent \in [Bridges -> Seq(AllFrames)] /\ accepted \in [Bridges -> Seq(AllFrames)]
  /\ short \in [Bridges -> BOOLEAN] /\ stray \in [Bridges -> BOOLEAN]
  /\ lost \in [Bridges -> BOOLEAN]

\* Something is left to write exactly while a write is on, unless it was cut
\* short by the end of the process.
WriterShape(b) ==
  /\ pc[b] = "write" => tx[b] # <<>> /\ tx_for[b] # "none"
  /\ tx[b] # <<>> => pc[b] \in {"write", "done"}

\* Nothing is half read but in read_frame, and never more than announced.
ReaderShape(b) ==
  /\ pc[b] \notin {"read", "publish", "done"} => stage[b] = "sync1"
  /\ stage[b] \in {"sync1", "sync2", "hdr"} => work[b] = <<>>
  /\ Len(work[b]) <= want[b] /\ want[b] <= MaxFrame
  /\ stage[b] = "payload" => Len(work[b]) < want[b]

SentShape(b) ==
  /\ seq_ctr[b] = Len(sent[b]) /\ seq_ctr[b] <= MaxSeq[b]
  /\ \A k \in DOMAIN sent[b] : sent[b][k].chan = 0 /\ sent[b][k].seq = k - 1

-----------------------------------------------------------------------------
(* Types, and the bounds of the buffers: rx_buf never holds more than the   *)
(* header announced and --max-frame allows, the bus never more than its     *)
(* slots (usbsim_bridge.rs 128-133, 349).                                  *)
TypeOK ==
  /\ Types
  /\ \A b \in Bridges : WriterShape(b) /\ ReaderShape(b) /\ SentShape(b)
  /\ \A b \in Bridges : Len(link[b]) <= Room /\ Len(queue[b]) <= Cap

\* What a bridge decodes by a checksum of its own are frames the other began to
\* send, each at most once and in the order sent.
OnlyBegun(b) ==
  /\ \A k \in DOMAIN accepted[b] :
       \E j \in DOMAIN sent[Peer(b)] : accepted[b][k] = sent[Peer(b)][j]
  /\ \A j, k \in DOMAIN accepted[b] :
       j < k => accepted[b][j].seq < accepted[b][k].seq

\* No payload is too long for --max-frame or for the header; the writer checks
\* neither.
EveryFits ==
  \A m \in AllMsgs : Len(Bytes[m]) <= MaxFrame /\ Len(Bytes[m]) < LenSpace

\* Every frame to b was written whole, and b has left none in the middle: one
\* that is too long, or on a pty one of which the rest had not come yet.
StaysInStep(b) ==
  ~short[Peer(b)] /\ (~lost[b] \/ (b \notin Ptys /\ EveryFits))

(* Only a bridge that has lost its step takes for a frame what nobody sent  *)
(* as one: nothing is escaped, so a payload, or what a cut has joined, can  *)
(* hold one.  The others a bridge decodes each at most once and in the      *)
(* order sent, however the stream was cut and wherever in a frame it reads  *)
(* (usbsim_bridge.rs 104-148, 344-350, 380).                               *)
GenuineFrames ==
  \A b \in Bridges : OnlyBegun(b) /\ (stray[b] => ~StaysInStep(b))

(* On a stream in which every frame was written whole, a bridge passes none *)
(* over before it leaves one in the middle: a payload that looks like magic *)
(* does not cost a frame.  With pipes, and payloads that fit --max-frame    *)
(* and a 16-bit length, that is never (usbsim_bridge.rs 74, 109-133).      *)
NothingSkipped ==
  \A b \in Bridges : StaysInStep(b) =>
    /\ Len(accepted[b]) <= Len(sent[Peer(b)])
    /\ accepted[b] = SubSeq(sent[Peer(b)], 1, Len(accepted[b]))

\* It has decoded something.
Earned(b) == accepted[b] # <<>> \/ stray[b]

(* "until we see an ACK" (usbsim_bridge.rs:304): a bridge prints PASS only  *)
(* after its peer has decoded a data frame, unless it took for an ACK what  *)
(* it found while out of step.                                             *)
PassIsEarned ==
  \A b \in Bridges : printed_pass[b] => Earned(Peer(b)) \/ stray[b]

(* After damage a blocking reader finds its way back: once it looks for     *)
(* magic where a whole frame begins, and that frame is short enough, it     *)
(* decodes it, unless it is stopped (usbsim_bridge.rs 109-119, 392-396).    *)
(* How it comes there is not claimed: a byte after a stray first magic byte *)
(* is used up, and that frame is lost.                                     *)
Resyncs ==
  \A b \in Bridges \ Ptys : \A j \in 1..MaxSeq[Peer(b)] :
    ( /\ j \in DOMAIN sent[Peer(b)]
      /\ LET f == sent[Peer(b)][j] IN
           /\ Len(Bytes[f.msg]) <= MaxFrame /\ Len(Bytes[f.msg]) < LenSpace
           /\ pc[b] = "read" /\ stage[b] = "sync1"
           /\ Len(link[b]) >= FrameLen(f)
           /\ SubSeq(link[b], 1, FrameLen(f)) = Tokens(f) )
    ~> ~Alive(b) \/ \E k \in DOMAIN accepted[b] : accepted[b][k].seq = j - 1

(* "the bridge exits cleanly when the peer closes" (README.md:281), unless  *)
(* it is in the middle of publishing on a full bus: then it waits for ever  *)
(* for the cursor that it alone would move (lines 294, 314, 349, 381).      *)
StuckOnOwnBus(b) ==
  pc[b] \in {"start", "publish"} /\ Subscribed(b) /\ ~HasRoom(b)

EndsWithPeer ==
  \A b \in Bridges : ~Alive(Peer(b)) ~> ~Alive(b) \/ StuckOnOwnBus(b)

-----------------------------------------------------------------------------
(* The inductive invariant behind GenuineFrames, NothingSkipped and         *)
(* PassIsEarned.                                                           *)

\* What its peer has written for a bridge, and is about to.
Stream(b) == link[b] \o tx[Peer(b)]
IsData(t) == t.of.chan = 0

IsBegun(f, begun) == f.seq + 1 \in DOMAIN begun /\ begun[f.seq + 1] = f
Before(t, u) == t.of.seq < u.of.seq \/ (t.of = u.of /\ t.k < u.k)

\* Data tokens come in the order of their frames and places, are of frames the
\* peer has begun, and of later ones than the bridge has accepted.
Traceable(s, begun, got) ==
  \A k \in DOMAIN s :
    /\ s[k].k \in 1..FrameLen(s[k].of)
    /\ IsData(s[k]) =>
         /\ IsBegun(s[k].of, begun)
         /\ \A i \in DOMAIN got : got[i].seq < s[k].of.seq
         /\ \A j \in DOMAIN s : j < k /\ IsData(s[j]) => Before(s[j], s[k])

\* Nobody answers before having decoded something.
AcksEarned ==
  \A b \in Bridges :
    /\ pc[b] = "publish" => Earned(b)
    /\ \A k \in DOMAIN Stream(b) : ~IsData(Stream(b)[k]) => Earned(Peer(b))

\* Frame after frame, each from where it begins to its end.
Whole(s) ==
  \A k \in DOMAIN s :
    IF s[k].k = FrameLen(s[k].of)
    THEN k < Len(s) => s[k + 1].k = 1
    ELSE k < Len(s) /\ s[k + 1] = [s[k] EXCEPT !.k = @ + 1]

\* Between two frames, as far as its own reading is concerned.
AtStart(b) == pc[b] = "publish" \/ stage[b] = "sync1"

\* The next token is the one that read_frame waits for.
InStep(b, s) ==
  IF AtStart(b) THEN s # <<>> => s[1].k = 1
  ELSE /\ s # <<>>
       /\ stage[b] = "sync2" => s[1].k = 2
       /\ stage[b] = "hdr" => s[1].k = 3
       /\ stage[b] \in {"payload", "crc"} =>
            /\ hdr[b].k = 3 /\ want[b] = Len(Bytes[hdr[b].of.msg])
            /\ s[1] = [hdr[b] EXCEPT !.k = 4 + Len(work[b])]
            /\ \A i \in DOMAIN work[b] : work[b][i] = [hdr[b] EXCEPT !.k = 3 + i]
       /\ stage[b] = "crc" => Len(work[b]) = want[b]

\* What was begun and not yet accepted is still to come, to its end.
Pending(s, begun, got) ==
  /\ Len(got) <= Len(begun) /\ \A i \in DOMAIN got : got[i] = begun[i]
  /\ \A j \in DOMAIN begun : j > Len(got) =>
       \E k \in DOMAIN s : s[k].of = begun[j] /\ s[k].k = FrameLen(s[k].of)

\* What is so while a bridge has left no frame in the middle, and its peer has
\* cut none off.
Steady(b) ==
  /\ Whole(Stream(b)) /\ InStep(b, Stream(b))
  /\ Pending(Stream(b), sent[Peer(b)], accepted[b])

(* The stream holds tokens of frames its writer has begun, in their order   *)
(* and later than those decoded; and answers have been earned.             *)
UsbInv ==
  /\ TypeOK /\ PassIsEarned /\ AcksEarned
  /\ \A b \in Bridges :
       OnlyBegun(b) /\ Traceable(Stream(b), sent[Peer(b)], accepted[b])

\* A blocking reader of frames that fit leaves none in the middle.
NeverLost ==
  \A b \in Bridges \ Ptys : EveryFits /\ ~short[Peer(b)] => ~lost[b]

(* Besides, as long as nothing was cut off the stream and no frame was left *)
(* in the middle, the reader is where its own state says it is, with every  *)
(* undecoded frame to come, and takes nothing else for one; and a blocking  *)
(* reader of frames that fit stays so (usbsim_bridge.rs 104-148).          *)
SteadyInv ==
  /\ UsbInv /\ NeverLost /\ GenuineFrames /\ NothingSkipped
  /\ \A b \in Bridges : Alive(b) /\ ~short[Peer(b)] /\ ~lost[b] => Steady(b)
=============================================================================
