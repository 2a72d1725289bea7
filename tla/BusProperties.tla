--------------------------- MODULE BusProperties ---------------------------
(***************************************************************************)
(* What is claimed of the ring in Bus: invariants, action properties, and  *)
(* that it implements FanoutLog.                                           *)
(***************************************************************************)
EXTENDS Bus, Integers

\* A producer that owns a claim it has not yet committed; one that crashed or
\* panicked holding it owns it for good.
Holds(p) ==
  \/ pc[p] \in WritePcs
  \/ mode[p] = "publish" /\ pc[p] \in {"load_subs", "panicked"} \cup ScanPcs

\* A producer that has been let into its slot.
Writing(p) == pc[p] \in WritePcs

\* A subscriber that has an id.
Enrolled(s) == spc[s] \notin {"new", "refused"}

\* A subscriber that has fixed its first message, and the next it will read.
Started(s)  == spc[s] = "join_store" \/ Joined(s)
Position(s) == IF Joined(s) THEN Cursor(s) ELSE start[s]

Committed(c) == slot_seq[Idx(c)] >= c + 1

-----------------------------------------------------------------------------
(* Every variable keeps its type; in particular no subscriber that got an  *)
(* id, and no scan, leaves the header's array of cursors (bus.rs 372-378).  *)
TypeOK ==
  /\ write_seq \in Nat /\ claim_seq \in Nat /\ n_subs \in Nat
  /\ sub_read_seq \in [0..MaxSubs-1 -> Nat]
  /\ slot_seq \in [0..Cap-1 -> Nat]
  /\ slot_msg \in [0..Cap-1 -> Msgs \cup {NoMsg}]
  /\ pc \in [Producers -> PcLabels]
  /\ mode \in [Producers -> {"idle", "publish", "try"}]
  /\ msg \in [Producers -> Msgs \cup {NoMsg}]
  /\ claim \in [Producers -> Nat] /\ w \in [Producers -> Nat]
  /\ n \in [Producers -> Nat] /\ min_read \in [Producers -> Nat]
  /\ i \in [Producers -> 0..MaxSubs]
  /\ spc \in [Subscribers -> SpcLabels]
  /\ sub_id \in [Subscribers -> Nat]
  /\ \A s \in Subscribers : Enrolled(s) => sub_id[s] \in 0..MaxSubs-1
  /\ start \in [Subscribers -> Nat]
  /\ out \in [Subscribers -> Msgs \cup {NoMsg}]
  /\ crashed \subseteq Producers \cup Subscribers
  /\ log \in Seq(Msgs \cup {NoMsg})
  /\ delivered \in [Subscribers -> Seq(Msgs \cup {NoMsg})]

(* write_seq is a contiguous committed prefix (bus.rs:113): every message  *)
(* below it has been committed, whichever producers helped it there.       *)
ContiguousPrefix ==
  /\ write_seq <= claim_seq
  /\ \A c \in 0..write_seq-1 : Committed(c)

(* Two producers are never inside the same slot, one lap apart or not, even *)
(* when one of them died there: the room check keeps claims that share a   *)
(* slot apart.                                                             *)
SlotExclusive ==
  \A p, q \in Producers :
    p # q /\ Writing(p) /\ Writing(q) => Idx(claim[p]) # Idx(claim[q])

(* No producer writes a slot while a subscriber copies out of it (bus.rs   *)
(* 559-573 against 438-447 and 497-508): a payload is never torn.          *)
ReaderUndisturbed ==
  \A p \in Producers, s \in Subscribers :
    Writing(p) /\ spc[s] \in {"copying", "advance"}
      => Idx(claim[p]) # Idx(Cursor(s))

(* "ensure we don't overrun slowest subscriber" (bus.rs:477): no slot holds *)
(* a message a full lap past one a joined subscriber still has to read, so *)
(* try_recv's test for exactly its own sequence can still succeed.         *)
NoOverrun ==
  \A s \in Subscribers : Joined(s) =>
    /\ slot_seq[Idx(Cursor(s))] <= Cursor(s) + 1
    /\ \A p \in Producers : Writing(p) => claim[p] < Cursor(s) + Cap

(* Fan-out: each subscriber has been given the payloads of consecutive     *)
(* claims from the one it joined at: none lost, repeated, reordered, mixed. *)
InOrderDelivery ==
  \A s \in Subscribers :
    /\ start[s] + Len(delivered[s]) <= Len(log)
    /\ delivered[s] = SubSeq(log, start[s] + 1, start[s] + Len(delivered[s]))

(* "avoid permanent reservation on failure" (bus.rs:414): every sequence   *)
(* number taken is committed or has one owner, and no call that returns,   *)
(* with or without success, owns any.  The owner is a call under way or a  *)
(* thread that died in one, of which that number stays uncommitted: killed, *)
(* or panicked in the scan of publish, which has already claimed (bus.rs   *)
(* 476, 482).                                                              *)
NoOrphanClaim ==
  /\ Len(log) = claim_seq
  /\ \A c \in 0..claim_seq-1 :
       Committed(c) \/ \E p \in Producers : Holds(p) /\ claim[p] = c
  /\ \A p, q \in Producers :
       p # q /\ Holds(p) /\ Holds(q) => claim[p] # claim[q]

(* The helping loop is best effort (bus.rs:448, 510) yet loses nothing: once *)
(* every call has returned, write_seq has caught up with the claims.       *)
NoLostAdvance ==
  (\A p \in Producers : pc[p] = "idle") => write_seq = claim_seq

(* No counter of the region ever goes back: the producers' scan is sound   *)
(* only because what it has read can only have grown since.                *)
CountersGrow ==
  [][ /\ write_seq' >= write_seq /\ claim_seq' >= claim_seq
      /\ \A j \in 0..MaxSubs-1 : sub_read_seq'[j] >= sub_read_seq[j]
      /\ \A k \in 0..Cap-1 : slot_seq'[k] >= slot_seq[k] ]_vars

(* The ring implements the log: claims append, commits complete, an        *)
(* attached subscriber receives.                                           *)
absEntries ==
  [c \in 1..Len(log) |-> [msg |-> log[c], done |-> Committed(c - 1)]]
absPos == [s \in Subscribers |-> IF Started(s) THEN Position(s) ELSE -1]

Fanout == INSTANCE FanoutLog
            WITH entries <- absEntries, pos <- absPos, received <- delivered

RefinesFanout == Fanout!FanSpec

-----------------------------------------------------------------------------
(* What the repository says of the bus and the code does not do.           *)

(* publish and try_publish return Ok or MsgTooLarge (bus.rs 405-406, 467), *)
(* however many subscribers have been turned away: they never panic.       *)
NoProducerPanics == \A p \in Producers : pc[p] # "panicked"
=============================================================================
