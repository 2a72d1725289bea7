# TLA+ models of aarnn-nsys

`aarnn-nsys` is a shared-memory publish/subscribe bus (`src/src/bus.rs`), a small
command line around it (`main.rs`), and two bridges that carry bus messages
over raw Ethernet (`bin/l2bridge.rs`) and over a serial byte stream
(`bin/usbsim_bridge.rs`).  This directory holds TLA+ models of it, TLC
configurations that check them, and TLAPS proofs of what matters most.

## The system

| Component | State | Operations | Hard because |
|---|---|---|---|
| bus ring (`bus.rs`) | header (`write_seq`, `claim_seq`, `n_subs`, `sub_read_seq[64]`), slots (`seq`, length, payload) | `publish`, `try_publish`, `subscribe`, `try_recv`, `recv_blocking` | lock-free, many producers and subscribers in several processes, helping, back-pressure, store buffers, death between any two steps |
| region lifecycle (`bus.rs` 143-368) | the named shared-memory object, its mapping, the header's constants | `create`, `open`, `from_slice`, `init_in_region`, `map_in_region`, drop | create and open race; create re-initialises a live bus; a region outlives its users |
| layout arithmetic (`bus.rs` 33-45, 127-141, 296-312) | none | `layout_size`, `min_buffer_size`, `align_up`, `is_pow2` | three ways to a handle, each with checks of its own |
| relay (`bus.rs` 534-551, `main.rs` concat) | a subscriber of one bus, a producer of another | `relay_once`, the concat loop | a message is consumed before it is known to fit; the blocking publish stalls the source |
| l2bridge | a cursor and a producer on one bus, message id counter, one reassembly buffer | fragment and send, receive and reassemble, publish, ACK, self-test | lost frames, several senders, feedback, blocking on a bus it drains itself |
| usbsim_bridge | a cursor and a producer, a byte stream | `write_frame`, `read_frame`, main loop, self-test | resynchronisation, partial reads and writes, non-blocking files, a peer that goes |
| command line | none of its own | create, prod, sub, concat | deadlines looked at only between calls that block |
| errors, examples, tests | none | | read for what they say of the bus |

Producers and subscribers share nothing but the memory of the ring.  The relay
and the bridges are clients that are at once a subscriber and a producer; the
bridges exchange frames with their peers.

What makes each part correct:

* ring: `write_seq` is a contiguous committed prefix; a slot has one writer at a
  time and none while it is read; the slowest subscriber is never lapped; each
  subscriber gets every claim from where it joined, in order and whole; no
  sequence number is lost; every call returns once readers read;
* lifecycle: a handle computes with the shape its region has, create leaves
  an empty ring, nobody's cursor is forgotten or shared;
* layout: header, slots and payloads are disjoint and inside the buffer;
* relay: order is kept, and every source message is forwarded or reported;
* l2bridge: what is published is one message, once, and whole if nothing was
  lost; an ACK names something the other side has sent;
* usbsim_bridge: a reader that is in step decodes every frame, once and in order,
  and takes nothing else for one, whatever the payloads hold.

`PROJECT.json` lists the hazards behind these, each at its line.

## Modules

| Module | What it is |
|---|---|
| `Bus` | the ring: one action per access to shared memory |
| `FanoutLog` | what the ring promises, without slots or sequence numbers |
| `BusProperties` | properties of `Bus`, the refinement of `FanoutLog` |
| `BusInvariant` | the inductive invariants `CoreInv`, `AdvanceInv`, `ReaderInv`, `OrderInv` |
| `BusProofs`, `BusReaderProofs`, `BusOrderProofs` | theorems about producers and slots, about subscribers, and about order and refinement |
| `BusTSO` | the ring on a machine with store buffers; refinement and liveness |
| `BusLayout`, `BusLayoutProofs` | the arithmetic of a region, and theorems about it |
| `BusRegion`, `RegionProperties`, `RegionProofs` | the life of a named region: create, open, use, leave |
| `Pipeline`, `PipelineProperties`, `PipelineProofs` | producers, relay and subscribers on two buses |
| `L2Bridge`, `L2Properties`, `L2Proofs` | the Ethernet bridges and the segment between them |
| `UsbSim`, `UsbProperties`, `UsbProofs` | two serial bridges and the byte stream between them |
| `MCBus`, `MCTSO`, `MCRegion`, `MCPipeline`, `MCL2`, `MCUsb`, `*.cfg` | instances for TLC |

`Bus` is the detailed model.  `FanoutLog` is what it promises, and `Bus` and
`BusTSO` are shown to implement it.  The clients are then modelled on buses that
keep that promise: `Pipeline` is shown to use two of them as two instances of
`FanoutLog`, and the bridges use the queue that a bus is for its slowest reader.

### The ring: `Bus`

State and code correspond one to one: `write_seq`, `claim_seq`, `n_subs`,
`sub_read_seq` are the header, `slot_seq` and `slot_msg` a slot's `seq` and its
descriptor with payload.  A producer's call is a program counter `pc` and the
locals of the code (`claim`, called `tail` in `try_publish`, `n`, `min_read`,
`i`, `w`); `mode` tells the two calls apart, which share everything but how
they take a number and what they do without room.  `publish` and `try_publish`
have the same scan, copy, commit and helping loop in the source, written out
twice; the model has them once.  `log` and `delivered` are history.

    publish:      Publish, then scan
    try_publish:  TryPublish, then scan, then Reserve | ReserveLost
    scan:         LoadSubs, LoadWrite, ScanCursor*, Admit | Retry | Backpressured
                  (ScanPanic: the array's bounds check)
    then:         Copy, Commit, (AdvLoad, AdvCheck, AdvCas)*, AdvLoad, AdvDone
    subscribe:    Subscribe, JoinLoad, JoinStore
    try_recv:     Poll, CopyOut | CopyTooLarge, Advance

Steps that read only what nobody else writes are joined with their neighbour (a
subscriber's load of its own cursor), and polls that find nothing are stutters.
A payload copy is one step; `SlotExclusive` and `ReaderUndisturbed` say that
nothing else is in the slot meanwhile, which is what makes that sound.  Memory
is sequentially consistent here (see `BusTSO`).  Sequence numbers do not wrap
(64 bits).  `compare_exchange_weak` may fail spuriously, so `ReserveLost` is
always possible.

`JoinAnytime = FALSE` restricts `subscribe` to moments when no live publish call
is running.  The code has no such gate.  Without it the scan can miss the new
subscriber (run `bus_late_join`), so the properties about subscribers are
claimed, and proved, for that use; the theorems of `BusProofs`, about producers
and slots, hold without it.

`Crash` stops a thread for good and leaves memory as it is.  A call that is dead,
whether killed or panicked in its scan, still holds its sequence number:
`NoOrphanClaim` says that every number is committed or held by exactly one call,
under way or dead, and not that the holder will commit it.

### Store buffers: `BusTSO`

The source orders its accesses with acquire and release.  On x86, whose stores
wait in a buffer while later loads go ahead, that allows executions that
sequential consistency does not.  `BusTSO` gives each thread a `buf` of its
stores; `Drain` takes the oldest to memory; a read-modify-write waits for the
buffer to empty (`Fenced`).  The actions that store, or that load what their own
thread may have stored, are given anew (`TsoCopy`, `TsoCommit`, `TsoAdvCheck`,
`TsoPoll`, `TsoAdvance`, ...); all others are those of `Bus`.  The weaker orders
other processors allow are not modelled.

### The region: `BusRegion` and `BusLayout`

`hdr`, `slot_seq` and `size` are the object; it survives everybody.  A process
is one session: `Create`, `Truncate`, `WriteZero`, `WriteDesc`, `WriteSlot`,
`WriteSubs`, `WriteSlotSeq*` are shm_open, ftruncate and the stores of
`init_in_region` in order; `Open`, `CheckDesc`, `CheckSlot` are `open` with the
comparisons of `map_in_region`; then `Subscribe`, `SubscribeStart`, and, in any
order, publishing and receiving, with `End` at any point.  A publish is `Claim`,
`Admit`, `Commit` and one `Advance` for each round of the helping loop, or
`Reserve` (try_publish, which has a number only if it has room) in place of the
first two; after a refused subscribe its scan leaves the array of cursors
(`ScanPanics`).  So a cursor can be past `write_seq`, between the commit and the
exchange, and `write_seq` behind what is claimed.  `Receive` is one step, and the
scan is: what happens inside them is the business of `Bus`.  The code reads the
ring's shape in the header (`hdr.desc`), a publish once at its beginning
(`call[p].cap`), and so do these.

`disturbed` marks the sessions that overlap a create, or that open what an
unfinished or overlapped create has left.  The code protects none of them
(there is no O_EXCL, no magic number, `n_subs` is cleared after the two fields
that open compares), and the properties claim nothing of them.  What such
sessions can meet, in the model as in the code: a region that passes open's
test although its create was killed before the slots were reset; a subscriber
whose id is given out again because `n_subs` was cleared after it joined; two
creates that leave the capacity of one and the slot size of the other; a
capacity of zero while the header is being rewritten, for which the index mask
is all ones (`Index`; what an access beyond the slots hits is left to `End`).

`BusLayout` has `align_up`, `layout_size`, `min_buffer_size` and the acceptance
tests of create/open (`NamedAccepts`) and from_slice (`SliceAccepts`) as operators.
from_slice does not check the alignment of its buffer; the model's addresses are
offsets, so that is outside it.

### The pipeline: `Pipeline`

`bus` are two logs, `pos` the readers' cursors, `pc` the threads.  `Produce` and
`Produced` are the prod loop, with the claim and the commit as separate steps;
`RelayTake`, `RelayPublish`, `RelayPublished` are `relay_once` inside the concat
loop; `Consume` the sub loop; `Stop` a deadline that has passed, looked at only
between two messages.  `Subscribe` and `Join` are the fetch_add and the rest of
`subscribe`.  `examples/pipeline.rs` runs all these threads;
`examples/multi_producers.rs` and `examples/bare_in_memory.rs` run producers and one
subscriber of one bus (the second on a bus made by from_slice), without a relay.

`HasRoom` reads all cursors at once, when the publish completes, though the code
scans them one by one and before.  What makes that sound is the theorem
`RingIsFanout`, and its condition is the model's: `Subscribe` waits until no
publish runs on its bus.  The programs have no such rule.  `pipeline.rs` itself
subscribes (lines 81 and 102) while its producers and its relay publish, so that
what the run `bus_late_join` shows can happen there and is not in this model, and
neither is the stall of `bus_tso_stall`.

The programs end by clocks of their own, and a reader that ends keeps its cursor:
who waits for it in publish waits for ever, and so does whoever joins that thread
(`pipeline.rs` gives the readers one and two seconds more "to drain";
`multi_producers.rs` gives all the same three seconds).  No property claims that
everybody ends.  `HeldBackByTheGone` says who is to blame when nobody goes on: if
every publish under way waits and no reader has anything to do, some reader that
has gone is a full lap behind one of them, so that no publisher waits for a
reader who still reads, for a relay that waits for itself, or for a gap that
nobody fills.

### The Ethernet bridges: `L2Bridge`

A bus is taken for the log it promises to be, held back by the bridge's own
cursor only (other subscribers are assumed fast).  A bridge is one thread with
the loop `probe; bus -> L2; L2 -> bus`; actions are its visible calls.  A payload
is a sequence of fragments that know their message and place, so that a mixture
shows.  All bridges hear all frames of the segment (the socket is promiscuous,
the default destination is broadcast), in order; `Lose` drops any frame, and
stands for failed sends (ignored by the code), full buffers and checksum
errors alike.  What a bridge has put together always fits a slot of its bus: it
refuses to start with slots smaller than `--max-frame` (lines 373-379), and what
grows beyond `--max-frame` is thrown away (579-588).  A message has
at least one fragment and at most 65535, the range of the u16 fragment index.
`bridged` (what a bridge has put on its bus for its peers) and a fragment's `nth`
(of which message of the sender's bus it is) are history.  `MaxIds` bounds the
ids a bridge uses in probes and messages, `MaxTaken` the messages it takes off its
bus.  Without a bound the feedback (each of two bridges forwards what it has just
published for the other, and nothing reads the `ttl`) would make the state space
infinite.  A bridge that is started again, and numbers from 1 again, is not
modelled.

### The serial bridges: `UsbSim`

The stream carries tokens: each magic byte and each payload byte is one, the
header's ten bytes are one, the checksum's two are one.  Tokens know the frame
they were written for, and payload bytes may look like magic bytes, so
`read_frame` (`ReadMagicLo`, `ReadMagicHi`, `ReadHeader`, `ReadPayload`,
`ReadBadCrc`, `ReadData`, `ReadAck`) can start in the middle of a frame or run
across the end of one; a header read from such a place announces any length.

Nothing is stuffed or escaped, and a payload may hold a whole frame, header and
checksum included; a cut can also splice one together.  So the checksum is right
of the tokens of one frame (`ChecksumOk`), and it may be right of anything that is
read off a place which is not a frame's own checksum (`MayMatch`): `ReadStrayData`
and `ReadStrayAck` then decode what nobody sent as a frame, and publish and
acknowledge it, or print PASS, as the code does.  `stray` remembers that.  One
idealisation is left: a frame's own checksum is wrong of anything but that frame,
that is, the 16-bit sum has no collisions.

The header announces the length `as u16`, so modulo `LenSpace` (65536); `--max-frame`
may be larger, and nothing compares the two.  `lost` remembers that a reader has
left a frame in the middle: after a length that is too long or was cut, or, on a
pty, when the rest had not come.

`write_frame` is `BeginWrite` and as many
`WriteSome` as `write_all` needs.  An endpoint is a pty, which never blocks
(`WriteFull` leaves part of a frame behind, `ReadNone` drops what was read of one),
or a pipe, which does.  `ReadClosed` and `WriteClosed` are the ends of the peer, and `Stop` kills a process.
`with_bus` is "none" when the bus could not be opened and "refused" when it could
but has no subscriber left: such a bridge never drains, and its first publish
scans beyond the array of cursors and panics (`PublishPanics`).  A payload may be
longer than `--max-frame`: the writer does not check, and the reader then gives up
after the header (`TooLong`).  A frame read without a payload is not published
(the bus refuses it) and is acknowledged all the same.

A bridge is in step (`StaysInStep`) as long as its peer has written every frame
whole and it has left none in the middle itself; with pipes on both sides, and
payloads that fit `--max-frame` and the 16 bits (`EveryFits`), that is always
(`NeverLost`).  In step it takes only frames for frames (`GenuineFrames`) and
passes none over (`NothingSkipped`).  Out of step nothing is claimed but that
those it decodes by their own checksum are genuine, in order and not repeated, and
that a blocking reader who looks for a first magic byte where a frame begins
decodes it (`Resyncs`); the frame that the byte after a stray first magic byte
belongs to is lost, and so may be any that an embedded frame or a wrong length
runs into.

## Runs

| Run | Instance | Shows |
|---|---|---|
| `bus_fanout` | 2 producers, 2 subscribers, 1 slot, 3 claims | no overrun, no torn read, monotone counters, refinement |
| `bus_crash` | 2 producers, 2 slots, 3 claims, 1 cursor for 2 subscribers, a message too long to receive, a producer and a subscriber that may die | the four inductive invariants, prefix, slot ownership, claims, helping and order survive death, refusal, panic |
| `bus_tso` | store buffers; 2 producers, 1 subscriber, 2 slots, 3 claims, a message too long to receive | refinement; what is committed arrives; with a fence everything returns and arrives |
| `region` | 2 creators of different shapes, one opener; one claim between two creates | `RegionInv`; undisturbed sessions agree on the shape and keep cursors of their own; create starts afresh |
| `pipeline` | 2 producers with 3 messages, a relay, a subscriber on each bus, a message that does not fit | `PipeInv`; forwarding is faithful and counted; both buses keep their promise; only readers that have gone hold publishers back for good |
| `l2_lossy` | 2 bridges, one self-testing; MSGS; loss | `BridgeInv`: bounds, messages never mixed, ACKs answer |
| `l2_relay` | 2 bridges, no loss, two message ids for three messages, fairness | `RelayInv`: whole, in order, once, although ids repeat; everything crosses |
| `usb_stream` | a self-testing bridge on a pty and one on a pipe, either perhaps without a bus or refused by it; a payload that begins like magic; room for 5 tokens; two data frames each; either may die | `SteadyInv`: in step only frames, all of them, in order; a pipe resynchronises; PASS is earned; a bridge ends with its peer |
| `bus_late_join` | violation | a subscriber joining during a publish is overrun |
| `bus_sub_limit` | violation | a refused subscription makes producers panic |
| `bus_tso_stall` | violation | without a fence publish may never return |
| `l2_mixed` | violation: 3 bridges | one buffer for all peers |

Bounds.  With one slot every claim after the first meets a full ring, and with
three claims each slot is reused twice; two slots with three claims let claims
be committed out of order and wrap.  A scan of two cursors can be overtaken
between them.  Two producers are enough for each pair of steps to interleave;
what holds for more is the business of the proofs.  `MaxClaims` only stops new
calls; calls that began run to their end, so deadlock is not checked: at the
bound the system stops.  The same is true of `MaxSends`, `MaxIds`, `MaxTaken`, `MaxSeq` and of
`MaxClaims` in `BusRegion`.  In `region` header, cache line and slot count 2 bytes
each: the shapes (1 slot of 2, 2 slots of 1, and the mixture) then have
different sizes, so that a second create cuts slots off or brings zeros in.  One
claim between two creates lets a cursor run ahead of `write_seq` and an old
session's slot come up in a new life; three processes let two overlap a third.  In
`usb_stream` a probe or an ACK of one just fits into an empty stream and the
message of three payload bytes, as long as `--max-frame` allows, does not, so that
every frame can be cut off; a frame after the one that was cut can then be
swallowed by the splice, or taken from within a payload.  `LenSpace` is the code's
65536 there, so that no length is cut: that case is the proofs'.  In `pipeline` the source has 2 slots and
the destination 1, so that the relay is held back with a message in hand.
Where two subscribers have equal roles the run uses their symmetry.

Fairness.  `BusTSO` assumes weak fairness for each producer within a call, for
each joined subscriber, and for each buffer: the operating system runs every
thread, the subscribers of the repository call `try_recv` in a loop, and stores
reach memory.  Nobody has to begin a call.  Weak fairness is enough although
other producers may win every exchange, since each win is progress.
`L2Bridge` and `UsbSim` assume that each bridge's loop runs, and nothing of
clients, losses and deaths.  `Pipeline` and `BusRegion` assume nothing.
`MessagesCross` is checked with room for every message on both buses, so that the
wait of a bridge for its own cursor is outside it.

On liveness with premises: `CommittedArrives` supposes that no subscriber meets a
message longer than its buffer (it would report the same message for ever);
`FencedProgress` supposes in addition that commits reach memory before their
producer loads another slot's sequence.  `EndsWithPeer` leaves a bridge that
waits in publish on a full bus of its own: that wait is for ever.

## Proofs

`BusProofs`, for all constants, crashes, and subscribers that join at any time:

* `TypeCorrect`: `TypeOK` is inductive as it stands.
* `CoreInvariant`: `CoreInv` is inductive.  `ContiguousPrefix` alone is not: that
  a commit keeps every other claim uncommitted (`ClaimShape`) needs that an admitted
  claim is less than a lap ahead of the prefix (`ScanShape`), that a slot holds only
  claims of its residue (`SlotShape`), and that claims have one holder each
  (`NoOrphanClaim`); that an exchange keeps the prefix contiguous needs that what
  the helper saw committed stays so (`HelpShape`).  The arithmetic is in one lemma:
  claims less than a lap apart have different slots (`DistinctSlots`).
* `PrefixCorrect`, `ClaimsCorrect`, `ExclusionCorrect` follow.

`BusReaderProofs`, for all constants and crashes, with `JoinAnytime = FALSE`:

* `ReaderInvariant`: `ReaderInv` is inductive.  That nothing is a lap ahead of a
  subscriber (`LapShape`) needs that the scan that let a producer through had seen
  the subscriber's cursor and that cursors only grow (`CoverShape`); for that the
  ids have to be unique and below `n_subs`, and a cursor not yet stored is 0, so that
  a scan that meets it lets nobody through early (`IdShape`).  A subscriber that
  starts at `write_seq` is safe by `ScanShape` and `SlotShape` of `CoreInv`.  Only
  `CoverShape` uses the gate, and only at `Subscribe`: the run `bus_late_join`
  is what happens there without it.
* `OverrunFree` and `UndisturbedReads` follow: two sequence numbers of one slot are at
  least a lap apart (`SameSlot`).

`BusOrderProofs`:

* `AdvanceInvariant`, `AdvancesKept` (any joins and crashes): `NoLostAdvance` is not
  inductive, because it says nothing until
  all calls have returned.  `HelperShape` says who still owes an advance meanwhile: if
  the slot right after the prefix is committed, some producer is in the helping loop
  and has not yet looked at that slot in vain.
* `CountersMonotone` (any joins): cursors and counters only grow.  It needs only that
  no two subscribers have one id (`IdInv`) and `CoreInv`, which says that a
  producer's exchange and commit meet the value they replace.
* `OrderInvariant`, `DeliveryCorrect` (under the gate): what is where.  A committed
  slot holds what `log` says of its claim (`SlotContents`), because the scan keeps
  other writers out; what a subscriber has been given, with what it has copied, ends
  where its cursor stands (`DeliveryShape`).
* `RingIsFanout` (under the gate): `Bus` implements `FanoutLog`.  `Claim` is
  the fetch_add of `Publish` or the exchange of `Reserve`, `Complete` is `Commit`,
  `Join` is `JoinLoad`, `Receive` is `Advance`, and each other action stutters; that the
  guards of `FanoutLog` hold (nobody is lapped, what is received is complete and is
  the right payload) is `OrderInv`.

`BusLayoutProofs`, for every positive capacity, slab and size of header, slot and
cache line:

* `NamedLaidOut` and `SliceLaidOut`: whatever create, open and from_slice accept,
  `LaidOut` holds of it.  Blocks of equal size at multiples of it are apart
  (`BlocksApart`), the slots end before the rounded-up start of the payloads
  (`AlignUpBound`), and a slab that the capacity divides is filled exactly
  (`SlabFilled`).

`PipelineProofs`, for any producers, subscribers, messages and capacities:

* `PipeInvariant`, and from it `PipeTypeCorrect`, `ForwardingFaithful`,
  `ReceivedForwarded`: what a reader has received are the messages right before its
  cursor (`ReaderShape`), a claim belongs to one publisher until it is complete
  (`ClaimShape`), and the relay is the only publisher of the destination
  (`RelayShape`).  That the destination is the source less what does not fit
  (`InOrder`) has a function as its witness, extended by one when the relay takes a
  message that fits.
* `PipelineIsTwoFanouts`: the pipeline uses both buses as `FanoutLog` allows.

`RegionProofs`, for any creators, openers, shapes and number of ids:

* `RegionInvariant`, and from it `RegionTypeCorrect`, `GeometryAgrees`, `CursorsApart`,
  `CreatesFresh`.  `Overlaps` says what `disturbed` and `torn` amount to: a create that
  nothing disturbs is alone, and everyone else undisturbed has a region that a
  create has completed.  `CreatorShape` follows such a create store by store,
  `RegionShape` and `HandleShape` say what holds from its end on: neither
  `write_seq` nor a slot is ahead of `claim_seq`, which is what bounds a cursor.
  The layout part of
  `SameGeometry` is `NamedLaidOut`.

`L2Proofs`:

* `BridgeTypeCorrect`, for any number of bridges, loss and all.
* `BridgeInvariant`, and from it `PartsOfOneMessage` and `AcksAreAnswers`, for two
  bridges, any loss, self-tests or not, of which neither uses every message id.
  Frames of one id are of one message, of which the sender holds the rest
  (`OneMessage`); the buffer is the beginning of the message that its id stands for
  (`Collecting`), and once the end of a message has come no frame has its id
  (`Closed`).  The two hypotheses are necessary: run `l2_mixed` shows three bridges
  without the one, and ids that come round while the frames of the old message are
  lost would defeat the other.
* `RelayInvariant` and from it `RelayIsFaithful`, for two bridges without loss whose
  reassembly buffers take every message, without self-tests, and with as few as two ids, so
  that they come round as often as they will.  All fragments of a bus, taken by
  message and place, are one stream, of which the sender and the receiver have each
  a position; the segment carries exactly what is between the two (`Streamed`).
  `OneId` keeps a receiver from taking a fragment for the start of another message;
  `Received` is the receiver's state.  A message that waits for the bus to take it
  counts as received, but not yet as bridged.

`UsbProofs`, for any payloads, sizes of buses, stream, buffer and length field,
numbers of frames, and either kind of endpoint on either side:

* `UsbTypeCorrect`: `TypeOK` is inductive as it stands.
* `UsbInvariant`, and from it `PassEarned`.  The proof looks at
  all there is between a writer and a reader: the tokens on the link followed by
  the rest of the frame being written (`Stream`).  Whatever a bridge does, it leaves
  that alone, cuts off its tail, adds a frame, or takes its first token (`Moves`).
  The data tokens of a stream are of frames that were begun, in order, and of later
  ones than those decoded (`Traceable`); a frame decoded by its own checksum is one
  read whole (`Checked`), so that it is the one whose last token has just been
  taken, and nothing else of it is left.  For `PassEarned`: tokens of an ACK are in
  a stream only if its writer has decoded something (`AcksEarned`).
* `SteadyInvariant`, and from it `FramesGenuine` and `NoneSkipped`, with no premise
  about payloads.  As long as nothing has been cut off and no frame left in the
  middle, the stream consists of whole frames, but for the one being read
  (`Whole`); the next token is the one that the reader's own state asks for
  (`InStep`), so that a payload byte is never looked at as magic and what is read
  as a checksum is one; and every frame begun and not yet decoded is still to come
  (`Pending`).  `NeverLost` says when that lasts: with a blocking reader and
  payloads that fit `--max-frame` and the length field.

The proofs assume the named assumptions of the modules (`CapAssumption`,
`MaxSubsAssumption` and `MsgAssumption` of `Bus`, `LayoutAssumption` of `BusLayout`,
those of `Pipeline` and `BusRegion`, and `MsgAssumption`, `SizeAssumption`,
`ModeAssumption` of `L2Bridge`, those of `UsbSim`) and what is said above.  Slot indices are `% Cap` for
any positive `Cap`; the code's mask is that for the powers of two it accepts.

Checked by TLC only: `TsoRefinesFanout`; the liveness
properties `FencedProgress`, `CommittedArrives`, `MessagesCross`, `Resyncs` and
`EndsWithPeer`, which are out of reach of the prover; `HeldBackByTheGone`; and what
the four violation runs show.  Nothing here uses RECURSIVE operators or needs
induction over data.

## Where the repository says otherwise

With a run each, quoted in `PROJECT.json`:

* `bus_late_join`: "ensure we don't overrun slowest subscriber" (`bus.rs:477`).
  `publish` loads `n_subs` before `write_seq`; a subscriber that joins between the
  two is left out of the minimum.  `examples/pipeline.rs:81` and
  `bare_in_memory.rs` subscribe while their producers publish.
* `bus_sub_limit`: a refused `subscribe` leaves `n_subs` above 64, and the next
  publish indexes out of the array.
* `bus_tso_stall`: "blocks (spins/yields on std) on backpressure until the slot
  is available" (`bus.rs:466`).  Two producers commit, each looks at the other's
  slot before the other's store is visible, and both return; `write_seq` is then
  behind with nobody to advance it until the next commit, and once the ring is
  full there is no next commit.  No subscriber is needed.  A fence between the
  commit and the helping loop removes it (`FencedProgress`).
* `l2_mixed`: "single in-flight msg per peer" (`l2bridge.rs:453`); there is one
  buffer for all.

Without a run, because the model shows them at a glance:

* `tests/from_slice.rs` 63-65 advances one of two subscribers and expects room;
  the slowest is the other one, and `try_publish` returns `Ok(false)`.
* "A torn publish leaves an uncommitted slot, ignored by readers"
  (`README.md:256`): readers do not skip it, they wait for it for ever, and
  producers a lap later wait for them.
* "to avoid blocking the process" (`l2bridge.rs:12`) does not extend to
  the publish at line 594, on a bus whose slowest reader may be the bridge
  itself; likewise `usbsim_bridge.rs` 294, 349.
* The `ttl` both bridges write into each frame is read by neither; two bridges
  send a message back and forth without end.

## Not modelled, and why

* Command-line parsing, progress reports, `BusError`'s texts, trace counters,
  terminal modes, socket set-up: no state that a property is about.
* Checksum arithmetic and byte-for-byte header encodings.  In `L2Bridge` a bad
  checksum is a lost frame; in `UsbSim` a frame's own is right of that frame only,
  and any other bytes may be right of anything.
* What a restarted `l2bridge` does with ids that its peer has seen.
* Overflow of sizes and 64-bit sequence numbers; the 16-bit message id of
  `l2bridge` wraps in the model (`IdSpace`) and in `l2_relay`.  With loss a stale
  buffer can be continued by a message that comes 65536 ids later, and
  `NeverMixed` claims nothing of that.
* Memory orders weaker than store buffers.
* Failing ftruncate or mmap: the call ends before anything is written.
* The tests are clients, read for what they expect; the helper scripts and the
  bare-metal crate the README mentions are not in this repository.

## Plan

All components of the plan are modelled, and every invariant and action property that
a passing run checks is proved, but for `BusTSO` and `HeldBackByTheGone`.  Left for
proof: `HeldBackByTheGone`, from `PipeInv` and that each incomplete claim has its
publisher (the one with a bus's lowest waits for no other); the steps of `TsoRefinesFanout`, from an invariant that
relates a thread's store buffer to what it has done.
