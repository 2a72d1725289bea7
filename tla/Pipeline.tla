------------------------------ MODULE Pipeline ------------------------------
(***************************************************************************)
(* The programs built on the bus, joined into a pipeline: producers on a   *)
(* source bus (src/main.rs `prod`), a relay that takes messages there and  *)
(* publishes them on a destination bus (`concat`, bus::relay_once), and    *)
(* subscribers of either (`sub`); examples/pipeline.rs runs all of them as *)
(* threads.  Each works until a deadline that it looks at only between two *)
(* messages, and no cursor is ever given back.                             *)
(*                                                                         *)
(* A bus is what FanoutLog promises of it, and here a claim, its completion *)
(* and a receipt are one step each.  That a completion needs room behind   *)
(* every reader as they stand then, though the code scans their cursors    *)
(* one by one and earlier, is FanoutLog's guard of Complete; RingIsFanout  *)
(* (BusOrderProofs) proves it of the ring, provided that subscribe() is    *)
(* called only while no publish runs on its bus, and Subscribe is gated so *)
(* here.  The programs do not keep to that: run bus_late_join shows what   *)
(* then happens.  got is history, except for its length, which subscribers *)
(* print.                                                                  *)
(***************************************************************************)
EXTENDS Integers, Sequences

CONSTANTS
  Producers,  \* threads that publish on the source bus
  Relay,      \* the thread that forwards
  Subs,       \* threads that only receive
  On,         \* the bus of each
  Msgs, MsgLen,
  Outbox,     \* the messages of each producer
  Cap,        \* slots of each bus
  Slot,       \* slot_bytes of each bus
  MaxSends    \* BOUND: how many each producer sends

Buses   == {"src", "dst"}
Readers == Subs \cup {Relay}

ASSUME ThreadAssumption == /\ Relay \notin Producers \cup Subs
                           /\ Producers \cap Subs = {}
                           /\ On \in [Readers -> Buses] /\ On[Relay] = "src"
ASSUME SizesAssumption  == /\ Cap \in [Buses -> Nat \ {0}]
                           /\ Slot \in [Buses -> Nat] /\ MaxSends \in [Producers -> Nat]
                           /\ MsgLen \in [Msgs -> Nat]
                           /\ Outbox \in [Producers -> SUBSET Msgs]
                           /\ \A p \in Producers : \A m \in Outbox[p] :
                                MsgLen[m] \in 1..Slot["src"]

VARIABLES
  bus,     \* each bus: Seq of [msg, done], one per claim
  pos,     \* each reader's cursor, -1 before it subscribes
  got,     \* what each reader has received
  pc, at,  \* each thread's place, and the claim it is publishing
  sent,    \* how often each producer has published
  fwd, dropped  \* the relay's counters

vars == <<bus, pos, got, pc, at, sent, fwd, dropped>>

Init ==
  /\ bus = [b \in Buses |-> <<>>]
  /\ pos = [r \in Readers |-> -1] /\ got = [r \in Readers |-> <<>>]
  /\ pc = [t \in Producers \cup Readers |-> IF t \in Producers THEN "loop" ELSE "start"]
  /\ at = [t \in Producers \cup {Relay} |-> 0]
  /\ sent = [p \in Producers |-> 0] /\ fwd = 0 /\ dropped = 0

Goto(t, l) == pc' = [pc EXCEPT ![t] = l]

-----------------------------------------------------------------------------
(* The buses.                                                              *)

Attached(r) == pos[r] # -1
Cursor(r)   == IF Attached(r) THEN pos[r] ELSE 0
Enrolled(r) == pc[r] # "start"
Out(t)      == IF t = Relay THEN "dst" ELSE "src"
Waiting(r)  == pos[r] + 1 \in DOMAIN bus[On[r]] /\ bus[On[r]][pos[r] + 1].done

\* Claim c has a slot: what is a lap before it is committed, and read by all.
HasRoomOffByOne(b, c) ==  \* mutant: one slot too many
  /\ \A j \in DOMAIN bus[b] : j + Cap[b] < c => bus[b][j].done
  /\ \A r \in Readers : On[r] = b /\ Enrolled(r) => c <= Cursor(r) + Cap[b] + 1
HasRoomTooFew(b, c) ==  \* mutant: one slot too few
  /\ \A j \in DOMAIN bus[b] : j + Cap[b] <= c => bus[b][j].done
  /\ \A r \in Readers : On[r] = b /\ Enrolled(r) => c < Cursor(r) + Cap[b]
HasRoom(b, c) ==
  /\ \A j \in DOMAIN bus[b] : j + Cap[b] <= c => bus[b][j].done
  /\ \A r \in Readers : On[r] = b /\ Enrolled(r) => c <= Cursor(r) + Cap[b]

Begin(t, b, m) ==
  /\ bus' = [bus EXCEPT ![b] = Append(@, [msg |-> m, done |-> FALSE])]
  /\ at' = [at EXCEPT ![t] = Len(bus[b]) + 1]
  /\ Goto(t, "publish")

Finish(t, b) ==
  /\ pc[t] = "publish" /\ HasRoom(b, at[t])
  /\ bus' = [bus EXCEPT ![b][at[t]].done = TRUE]
  /\ at' = [at EXCEPT ![t] = 0]
  /\ Goto(t, "loop")

\* subscribe(): the fetch_add, from which on publishers see a cursor of 0.  That
\* no publish runs is the usage rule, not code.
Subscribe(r) ==
  /\ pc[r] = "start"
  /\ \A t \in Producers \cup {Relay} : Out(t) = On[r] => pc[t] # "publish"
  /\ Goto(r, "join")
  /\ UNCHANGED <<bus, pos, got, at, sent, fwd, dropped>>

\* It starts after a committed prefix (write_seq may lag).
Join(r) ==
  /\ pc[r] = "join"
  /\ \E k \in 0..Len(bus[On[r]]) :
       /\ \A c \in DOMAIN bus[On[r]] :
            IF c <= k THEN bus[On[r]][c].done
            ELSE bus[On[r]][c].done => c <= k + Cap[On[r]]
       /\ pos' = [pos EXCEPT ![r] = k]
  /\ Goto(r, "loop")
  /\ UNCHANGED <<bus, got, at, sent, fwd, dropped>>

\* try_recv() gives reader r the message it waits for.
Receive(r) ==
  /\ pc[r] = "loop" /\ Waiting(r)
  /\ pos' = [pos EXCEPT ![r] = @ + 1]
  /\ got' = [got EXCEPT ![r] = Append(@, bus[On[r]][pos[r] + 1].msg)]
  /\ UNCHANGED <<at, sent, fwd>>

-----------------------------------------------------------------------------
(* The threads.                                                            *)

\* try_publish(), or publish() after it: both claim and both complete.
Produce(p) ==
  /\ pc[p] = "loop" /\ sent[p] < MaxSends[p]
  /\ \E m \in Outbox[p] : Begin(p, "src", m)
  /\ UNCHANGED <<pos, got, sent, fwd, dropped>>

Produced(p) ==
  /\ Finish(p, "src")
  /\ sent' = [sent EXCEPT ![p] = @ + 1]
  /\ UNCHANGED <<pos, got, fwd, dropped>>

Fits(m) == MsgLen[m] <= Slot["dst"]
Newest(r) == got[r][Len(got[r])]

RelayTakeKeeps ==  \* mutant: the message stays when it does not fit
  /\ pc[Relay] = "loop" /\ Waiting(Relay)
  /\ IF Fits(bus["src"][pos[Relay] + 1].msg)
     THEN Receive(Relay) /\ Goto(Relay, "begin") /\ UNCHANGED <<bus, dropped>>
     ELSE dropped' = dropped + 1 /\ UNCHANGED <<bus, pos, got, pc, at, sent, fwd>>

\* relay_once(): the message is off the source bus whether it fits or not.
RelayTake ==
  /\ Receive(Relay)
  /\ IF Fits(bus["src"][pos[Relay] + 1].msg)
     THEN Goto(Relay, "begin") /\ UNCHANGED dropped
     ELSE dropped' = dropped + 1 /\ UNCHANGED pc  \* Err(MsgTooLarge)
  /\ UNCHANGED bus

RelayPublish ==
  /\ pc[Relay] = "begin"
  /\ Begin(Relay, "dst", Newest(Relay))
  /\ UNCHANGED <<pos, got, sent, fwd, dropped>>

RelayPublishedUncounted ==  \* mutant: forgets to count
  Finish(Relay, "dst") /\ UNCHANGED <<pos, got, sent, fwd, dropped>>

RelayPublished ==
  /\ Finish(Relay, "dst")
  /\ fwd' = fwd + 1
  /\ UNCHANGED <<pos, got, sent, dropped>>

Consume(s) == s \in Subs /\ Receive(s) /\ UNCHANGED <<bus, pc, dropped>>

\* The deadline has passed; a thread that waits inside publish does not look.
Stop(t) ==
  /\ pc[t] = "loop"
  /\ Goto(t, "done")
  /\ UNCHANGED <<bus, pos, got, at, sent, fwd, dropped>>

ProducerStep(p) == Produce(p) \/ Produced(p) \/ Stop(p)
RelayStep       == RelayTake \/ RelayPublish \/ RelayPublished

\* The threads of examples/pipeline.rs; those of examples/multi_producers.rs and
\* examples/bare_in_memory.rs are producers and a subscriber of the source bus,
\* with an idle relay.
Next ==
  \/ \E p \in Producers : ProducerStep(p)
  \/ RelayStep
  \/ \E r \in Readers : Subscribe(r) \/ Join(r) \/ Consume(r) \/ Stop(r)

Spec == Init /\ [][Next]_vars
=============================================================================
