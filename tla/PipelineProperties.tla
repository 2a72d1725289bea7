------------------------- MODULE PipelineProperties -------------------------
(* What is claimed of the pipeline. *)
EXTENDS Pipeline

ReadersOf(b) == {r \in Readers : On[r] = b}
Done(t)      == pc[t] = "done"

\* No completed message is a lap ahead of a reader or of a gap.
NotLapped ==
  \A b \in Buses : \A c \in DOMAIN bus[b] : bus[b][c].done =>
    /\ \A j \in DOMAIN bus[b] : j + Cap[b] <= c => bus[b][j].done
    /\ \A r \in ReadersOf(b) : Attached(r) => c <= pos[r] + Cap[b]

(* Types, what fits into a slot of each bus, and what each bus still has.  *)
TypeOK ==
  /\ bus \in [Buses -> Seq([msg : Msgs, done : BOOLEAN])]
  /\ \A b \in Buses : \A c \in DOMAIN bus[b] : MsgLen[bus[b][c].msg] \in 1..Slot[b]
  /\ pos \in [Readers -> Int] /\ got \in [Readers -> Seq(Msgs)]
  /\ \A r \in Readers : pos[r] \in -1..Len(bus[On[r]])
  /\ pc \in [Producers \cup Readers -> {"start", "join", "loop", "begin", "publish",
                                          "done"}]
  /\ at \in [Producers \cup {Relay} -> Nat] /\ sent \in [Producers -> Nat]
  /\ fwd \in Nat /\ dropped \in Nat
  /\ NotLapped

\* f lists, in order, the positions of the messages the relay has received that
\* fit into the destination's slots, and the claims there carry those messages.
Forwards(f) ==
  /\ \A c, d \in DOMAIN f : c < d => f[c] < f[d]
  /\ \A j \in DOMAIN got[Relay] :
       Fits(got[Relay][j]) <=> \E c \in DOMAIN f : f[c] = j
  /\ \A c \in DOMAIN bus["dst"] : bus["dst"][c].msg = got[Relay][f[c]]

InHand == IF pc[Relay] = "begin" THEN 1 ELSE 0

InOrder  == \E f \in [1..Len(bus["dst"]) + InHand -> DOMAIN got[Relay]] : Forwards(f)
Counted  == fwd + dropped + (IF pc[Relay] \in {"begin", "publish"} THEN 1 ELSE 0)
              = Len(got[Relay])

(* The destination bus carries the source's messages from the relay's first *)
(* one on, in order, less those too long for its slots and nothing else,   *)
(* and the relay has counted each (bus.rs 536-551, main.rs 195-210).       *)
FaithfulForwarding ==
  /\ \E k \in 0..Len(bus["src"]) : \A j \in DOMAIN got[Relay] :
       got[Relay][j] = bus["src"][k + j].msg
  /\ InOrder /\ Counted

(* "assert!(total_recv <= fwd)" (pipeline.rs:139), evaluated once the relay *)
(* has ended; before that a message can be read that is not counted yet.   *)
ReceivedWasForwarded ==
  Done(Relay) => \A s \in Subs : On[s] = "dst" => Len(got[s]) <= fwd

-----------------------------------------------------------------------------
(* The inductive invariant behind them.                                    *)

\* A claim being published is its publisher's alone, and not yet complete; the
\* relay's is the destination's last.
ClaimShape ==
  /\ \A p \in Producers :
       /\ pc[p] \in {"loop", "publish", "done"}
       /\ pc[p] = "publish" => at[p] \in DOMAIN bus["src"] /\ ~bus["src"][at[p]].done
  /\ \A p, q \in Producers :
       p # q /\ pc[p] = "publish" /\ pc[q] = "publish" => at[p] # at[q]
  /\ pc[Relay] = "publish" =>
       /\ at[Relay] \in DOMAIN bus["dst"] /\ at[Relay] = Len(bus["dst"])
       /\ ~bus["dst"][at[Relay]].done

\* What a reader has received are the messages right before its cursor.
ReaderShape ==
  /\ \A s \in Subs : pc[s] \in {"start", "join", "loop", "done"}
  /\ \A r \in Readers :
       /\ Attached(r) <=> pc[r] \notin {"start", "join"}
       /\ ~Attached(r) => got[r] = <<>>
       /\ Attached(r) => Len(got[r]) <= pos[r]
       /\ \A j \in DOMAIN got[r] : got[r][j] = bus[On[r]][pos[r] - Len(got[r]) + j].msg

\* Only the relay publishes on the destination, one message at a time, and it
\* has something in hand from when it takes a message until it publishes it.
RelayShape ==
  /\ Len(bus["dst"]) = fwd + (IF pc[Relay] = "publish" THEN 1 ELSE 0)
  /\ pc[Relay] = "begin" => got[Relay] # <<>> /\ Fits(Newest(Relay))

PipeInv == TypeOK /\ ClaimShape /\ ReaderShape /\ RelayShape /\ InOrder /\ Counted

-----------------------------------------------------------------------------
(* What the clients do with both buses keeps each one's promise.           *)
Log(b) == [r \in ReadersOf(b) |-> got[r]]
Src == INSTANCE FanoutLog WITH
         Subscribers <- ReadersOf("src"), Cap <- Cap["src"], entries <- bus["src"],
         pos <- [r \in ReadersOf("src") |-> pos[r]], received <- Log("src")
Dst == INSTANCE FanoutLog WITH
         Subscribers <- ReadersOf("dst"), Cap <- Cap["dst"], entries <- bus["dst"],
         pos <- [r \in ReadersOf("dst") |-> pos[r]], received <- Log("dst")
BothFanOut == Src!FanSpec /\ Dst!FanSpec

(* A reader that stops keeps its cursor, so that who waits for it in publish *)
(* waits for ever: the relay's "small tail to drain" (pipeline.rs:88) may   *)
(* be too small.  Nothing else holds a publish back for good: when every    *)
(* publish under way waits, and no reader has anything to do but stop, then *)
(* a reader that is gone stands a lap behind one of those publishes         *)
(* (bus.rs 478-496, 536-551).                                               *)
Publishers == Producers \cup {Relay}
Under(b)   == {t \in Publishers : pc[t] = "publish" /\ Out(t) = b}

AllWait ==
  /\ \A b \in Buses : \A t \in Under(b) : ~HasRoom(b, at[t])
  /\ \A r \in Readers : pc[r] \notin {"join", "begin"} /\ ~(pc[r] = "loop" /\ Waiting(r))

HeldBackByTheGone ==
  AllWait /\ Under("src") \cup Under("dst") # {} =>
    \E b \in Buses : \E r \in ReadersOf(b) : \E t \in Under(b) :
      Done(r) /\ Attached(r) /\ pos[r] + Cap[b] < at[t]
=============================================================================
