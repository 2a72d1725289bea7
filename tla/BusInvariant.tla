---------------------------- MODULE BusInvariant ----------------------------
(***************************************************************************)
(* The inductive invariants behind the safety properties of the ring.      *)
(* CoreInv is about the producers and the slots and needs nothing of the   *)
(* subscribers; AdvanceInv adds who still owes write_seq an advance;       *)
(* ReaderInv adds what the cursors guarantee when nobody joins while a     *)
(* publish runs, and OrderInv which payload is where.                      *)
(***************************************************************************)
EXTENDS BusProperties

\* A producer the scan has let through.
Admitted(p) == pc[p] = "cas" \/ Writing(p)

\* What a slot's sequence can be: 0, or one more than a claim of that slot,
\* never more than a lap ahead of the contiguous prefix.
SlotShape ==
  \A k \in 0..Cap-1 :
    /\ slot_seq[k] <= claim_seq /\ slot_seq[k] <= write_seq + Cap
    /\ slot_seq[k] # 0 => Idx(slot_seq[k] - 1) = k

\* A held claim is taken and not yet committed.
ClaimShape ==
  \A p \in Producers :
    Holds(p) => claim[p] < claim_seq /\ slot_seq[Idx(claim[p])] <= claim[p]

\* Whatever a scan has seen so far lies behind the prefix, so an admitted claim
\* lies less than a lap ahead of it.
ScanShape ==
  \A p \in Producers :
    /\ pc[p] = "scan" => min_read[p] <= write_seq
    /\ Admitted(p) => claim[p] < write_seq + Cap

\* A helper is never ahead of the prefix, and exchanges only over a commit.
HelpShape ==
  \A p \in Producers : pc[p] = "adv_cas" => Committed(w[p])

CoreInv ==
  /\ TypeOK /\ ContiguousPrefix /\ NoOrphanClaim
  /\ SlotShape /\ ClaimShape /\ ScanShape /\ HelpShape

\* A message committed right after the prefix has a helper that will see it: the
\* one that committed it, or one that was in the helping loop at the time.
HelperShape ==
  Committed(write_seq) =>
    \E p \in Producers : \/ pc[p] \in {"adv_load", "adv_cas"}
                         \/ pc[p] = "adv_check" /\ w[p] = write_seq

AdvanceInv == CoreInv /\ HelperShape

-----------------------------------------------------------------------------
\* Ids are handed out once each, and a cursor no subscriber has stored yet is 0.
IdShape ==
  /\ \A s \in Subscribers : Enrolled(s) => sub_id[s] < n_subs
  /\ \A s, t \in Subscribers :
       s # t /\ Enrolled(s) /\ Enrolled(t) => sub_id[s] # sub_id[t]
  /\ \A s \in Subscribers : spc[s] \in {"join_load", "join_store"} => Cursor(s) = 0
  /\ \A j \in 0..MaxSubs-1 : j >= n_subs => sub_read_seq[j] = 0

\* A running scan covers every subscriber there is, and has found no cursor it
\* passed behind its minimum.
CoverShape ==
  \A p \in Producers : Live(p) =>
    /\ pc[p] \in ScanPcs => n[p] = n_subs
    /\ pc[p] = "scan" =>
         \A j \in 0..MaxSubs-1 : j < i[p] => min_read[p] <= sub_read_seq[j]

\* Nothing admitted and nothing committed is a lap ahead of a subscriber.
LapShape ==
  \A s \in Subscribers : Started(s) =>
    /\ \A p \in Producers : Admitted(p) => claim[p] < Position(s) + Cap
    /\ \A k \in 0..Cap-1 : slot_seq[k] <= Position(s) + Cap

\* A subscriber copies only what is committed.
CopyShape ==
  \A s \in Subscribers :
    spc[s] \in {"copying", "advance"} => Committed(Cursor(s))

ReaderInv == CoreInv /\ IdShape /\ CoverShape /\ LapShape /\ CopyShape

-----------------------------------------------------------------------------
\* A running call has a payload, and a claim's holder has the claim's payload.
FrameShape ==
  /\ log \in Seq(Msgs)
  /\ \A p \in Producers :
       /\ pc[p] # "idle" => msg[p] \in Msgs
       /\ Holds(p) => msg[p] = log[claim[p] + 1]

\* A committed slot, and one about to be committed, holds its claim's payload;
\* between copy and store a producer owns what its slot holds.
SlotContents ==
  /\ \A p \in Producers :
       pc[p] = "store" => slot_msg[Idx(claim[p])] = log[claim[p] + 1]
  /\ \A c \in 0..claim_seq-1 :
       \/ ~IsCommitted(c)
       \/ \E p \in Producers : pc[p] = "store" /\ Idx(claim[p]) = Idx(c)
       \/ slot_msg[Idx(c)] = log[c + 1]

\* What a subscriber has been given ends where its cursor stands, and what it
\* has copied out is what comes next.
DeliveryShape ==
  \A s \in Subscribers :
    /\ start[s] <= claim_seq
    /\ spc[s] = "advance" => out[s] = log[Cursor(s) + 1]
    /\ ~Joined(s) => delivered[s] = <<>>
    /\ Joined(s) => /\ start[s] + Len(delivered[s]) = Cursor(s)
                    /\ Cursor(s) <= claim_seq
    /\ \A j \in 1..Len(delivered[s]) : delivered[s][j] = log[start[s] + j]

OrderInv == ReaderInv /\ FrameShape /\ SlotContents /\ DeliveryShape
=============================================================================
