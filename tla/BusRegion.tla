----------------------------- MODULE BusRegion -----------------------------
(***************************************************************************)
(* The life of a named region (src/bus.rs): create() opens or makes the    *)
(* object (O_CREAT without O_EXCL), sizes it and writes the header and the *)
(* slots field by field; open() maps it and compares two fields with what  *)
(* it was told; both then subscribe and publish.  Nothing unlinks the      *)
(* object, so a region outlives its processes with all that is in it.      *)
(*                                                                         *)
(* A session lasts from a process's shm_open to its end, and may publish   *)
(* and receive at once, in two threads.  Of a publish the claim, the room  *)
(* check, the commit and each exchange of the helping loop are steps of    *)
(* their own; what the check reads one by one (Bus) is read at once, and   *)
(* so are mmap with the call before it, and the load and the store of a    *)
(* new cursor.  Pages are not modelled: only an object that has no size    *)
(* yet cannot be accessed.  disturbed and torn are history.                *)
(***************************************************************************)
EXTENDS BusLayout

CONSTANTS
  Creators,  \* processes that call create(), the bridges among them
  Openers,   \* processes that call open()
  Geo,       \* each one's arguments, as [desc, slot]
  MaxSubs,   \* MAX_SUBSCRIBERS
  MaxClaims  \* BOUND: messages published between two creates

Processes == Creators \cup Openers

ASSUME RoleAssumption == Creators \cap Openers = {}
ASSUME GeoAssumption  == /\ \A p \in Processes :
                              LET g == Geo[p] IN
                              /\ g.desc \in Nat /\ g.slot \in Nat
                              /\ NamedAccepts(g.desc, g.desc * g.slot)
                         /\ MaxSubs \in Nat \ {0} /\ MaxClaims \in Nat

VARIABLES
  size,      \* bytes of the object, -1 while there is none
  hdr,       \* Header
  slot_seq,  \* the seq of each slot that fits any geometry
  pc, i,     \* each process's place, and its loop over the slots
  id, start, \* a subscriber's id and first message
  call,      \* each process's publish under way
  disturbed, \* sessions that overlap a create(), or what it left behind
  torn       \* the last create() has not come to its end undisturbed

vars == <<size, hdr, slot_seq, pc, i, id, start, call, disturbed, torn>>

Absent  == -1
Total(g) == NamedLength(g.desc, g.desc * g.slot)
Descs    == {Geo[p].desc : p \in Processes}
Indexes  == UNION {0..d-1 : d \in Descs}

ZeroHeader == [write_seq |-> 0, claim_seq |-> 0, desc |-> 0, slot |-> 0,
               n_subs |-> 0, sub_read_seq |-> [k \in 0..MaxSubs-1 |-> 0]]

\* A publish: its place, its sequence number, and the capacity it has read.
NoCall == [at |-> "none", claim |-> 0, cap |-> 0]

Init ==
  /\ size = Absent /\ hdr = ZeroHeader /\ slot_seq = [k \in Indexes |-> 0]
  /\ pc = [p \in Processes |-> "new"] /\ i = [p \in Processes |-> 0]
  /\ id = [p \in Processes |-> -1] /\ start = [p \in Processes |-> 0]
  /\ call = [p \in Processes |-> NoCall]
  /\ disturbed = {} /\ torn = FALSE

At(p, l)   == pc[p] = l
Goto(p, l) == pc' = [pc EXCEPT ![p] = l]

InitPcs    == {"truncate", "zero", "desc", "slot", "subs", "slots"}
Creating   == {p \in Processes : pc[p] \in InitPcs}
InSession  == {p \in Processes : pc[p] \notin {"new", "gone"}}
Sound      == ~torn /\ disturbed \cap InSession = {}
HasHandle(p) == pc[p] \in {"ready", "join", "joined"}

-----------------------------------------------------------------------------
(* create().                                                               *)

Create(p) ==
  /\ p \in Creators /\ At(p, "new")
  /\ size' = IF size = Absent THEN 0 ELSE size
  /\ disturbed' = disturbed \cup InSession \cup (IF InSession # {} THEN {p} ELSE {})
  /\ torn' = TRUE
  /\ Goto(p, "truncate")
  /\ UNCHANGED <<hdr, slot_seq, i, id, start, call>>

\* ftruncate: what it cuts off is zero if it ever grows back.  (A slot's number
\* is small enough to lie in its first byte.)
Truncate(p) ==
  /\ At(p, "truncate")
  /\ size' = Total(Geo[p])
  /\ slot_seq' = [k \in Indexes |-> IF SlotAt(k) < size' THEN slot_seq[k] ELSE 0]
  /\ Goto(p, "zero")
  /\ UNCHANGED <<hdr, i, id, start, call, disturbed, torn>>

WritesHeader(p, from, h, to) ==
  /\ At(p, from) /\ hdr' = h /\ Goto(p, to)
  /\ UNCHANGED <<size, slot_seq, i, id, start, call, disturbed, torn>>

WriteZeroKeepsCursors(p) ==  \* mutant: the cursors are left as they were
  WritesHeader(p, "zero", [ZeroHeader EXCEPT !.sub_read_seq = hdr.sub_read_seq], "desc")

WriteZero(p) == WritesHeader(p, "zero", ZeroHeader, "desc")
WriteDesc(p) ==
  WritesHeader(p, "desc", [hdr EXCEPT !.write_seq = 0, !.claim_seq = 0,
                                      !.desc = Geo[p].desc], "slot")
WriteSlot(p) == WritesHeader(p, "slot", [hdr EXCEPT !.slot = Geo[p].slot], "subs")
WriteSubs(p) == WritesHeader(p, "subs", [hdr EXCEPT !.n_subs = 0], "slots")

LastSlot(p) == i[p] + 1 = Geo[p].desc

WriteSlotSeq(p) ==
  /\ At(p, "slots")
  /\ slot_seq' = [slot_seq EXCEPT ![i[p]] = 0]
  /\ i' = [i EXCEPT ![p] = IF LastSlot(p) THEN 0 ELSE @ + 1]
  /\ IF LastSlot(p) THEN Goto(p, "ready") /\ torn' = (p \in disturbed)
     ELSE UNCHANGED <<pc, torn>>
  /\ UNCHANGED <<size, hdr, id, start, call, disturbed>>

-----------------------------------------------------------------------------
(* open().                                                                 *)

Ends(p) ==
  /\ Goto(p, "gone") /\ i' = [i EXCEPT ![p] = 0]
  /\ id' = [id EXCEPT ![p] = -1] /\ start' = [start EXCEPT ![p] = 0]
  /\ call' = [call EXCEPT ![p] = NoCall]

\* ENOENT, and the program says to create the bus first.
OpenNone(p) ==
  /\ p \in Openers /\ At(p, "new") /\ size = Absent
  /\ Ends(p)
  /\ UNCHANGED <<size, hdr, slot_seq, disturbed, torn>>

Open(p) ==
  /\ p \in Openers /\ At(p, "new") /\ size # Absent
  /\ disturbed' = IF Sound THEN disturbed
                  ELSE disturbed \cup {p} \cup Creating
  /\ Goto(p, "check_desc")
  /\ UNCHANGED <<size, hdr, slot_seq, i, id, start, call, torn>>

MatchesAny(p, field) == hdr[field] # 0  \* mutant: any region will do
Matches(p, field) == hdr[field] = Geo[p][field]

\* The header of an object without a size cannot be read: SIGBUS.
Check(p, field, at, to) ==
  /\ At(p, at)
  /\ IF size > 0 /\ Matches(p, field) THEN Goto(p, to) /\ UNCHANGED <<i, id, start, call>>
     ELSE Ends(p)
  /\ UNCHANGED <<size, hdr, slot_seq, disturbed, torn>>

CheckDesc(p) == Check(p, "desc", "check_desc", "check_slot")
CheckSlot(p) == Check(p, "slot", "check_slot", "ready")

-----------------------------------------------------------------------------
(* Using the region.                                                       *)

SlotLeftOffByOne == hdr.n_subs <= MaxSubs  \* mutant: one subscriber too many
SlotLeft == hdr.n_subs < MaxSubs

SubscribeKeeps(p) ==  \* mutant: a load instead of the fetch_add
  /\ At(p, "ready") /\ id[p] = -1 /\ SlotLeft
  /\ id' = [id EXCEPT ![p] = hdr.n_subs] /\ Goto(p, "join")
  /\ UNCHANGED <<size, hdr, slot_seq, i, start, call, disturbed, torn>>

\* fetch_add; a process that is refused ends.
Subscribe(p) ==
  /\ At(p, "ready") /\ id[p] = -1
  /\ hdr' = [hdr EXCEPT !.n_subs = @ + 1]
  /\ IF SlotLeft
     THEN id' = [id EXCEPT ![p] = hdr.n_subs] /\ Goto(p, "join") /\ UNCHANGED <<i, start, call>>
     ELSE Ends(p)
  /\ UNCHANGED <<size, slot_seq, disturbed, torn>>

SubscribeStart(p) ==
  /\ At(p, "join")
  /\ start' = [start EXCEPT ![p] = hdr.write_seq]
  /\ hdr' = [hdr EXCEPT !.sub_read_seq[id[p]] = hdr.write_seq]
  /\ Goto(p, "joined")
  /\ UNCHANGED <<size, slot_seq, i, id, call, disturbed, torn>>

\* claim & (cap - 1), the capacity that of the header, whatever the handle's is.
\* The mask of a capacity of zero, half-way through create(), is all ones: what
\* it hits beyond the slots is left to End.
Index(c, cap) == IF cap = 0 THEN c ELSE c % cap
CommittedAt(c, cap) == Index(c, cap) \in Indexes /\ slot_seq[Index(c, cap)] = c + 1

HasRoom(c, cap) ==
  /\ c < hdr.write_seq + cap
  /\ \A k \in 0..hdr.n_subs-1 : c < hdr.sub_read_seq[k] + cap

\* publish: the fetch_add.
Claim(p) ==
  /\ HasHandle(p) /\ call[p] = NoCall /\ hdr.claim_seq < MaxClaims
  /\ hdr' = [hdr EXCEPT !.claim_seq = @ + 1]
  /\ call' = [call EXCEPT ![p] = [at |-> "scan", claim |-> hdr.claim_seq, cap |-> hdr.desc]]
  /\ UNCHANGED <<size, slot_seq, pc, i, id, start, disturbed, torn>>

Admit(p) ==
  /\ call[p].at = "scan" /\ hdr.n_subs <= MaxSubs /\ HasRoom(call[p].claim, call[p].cap)
  /\ call' = [call EXCEPT ![p].at = "write"]
  /\ UNCHANGED <<size, hdr, slot_seq, pc, i, id, start, disturbed, torn>>

\* try_publish: it has a number only if it has room, and returns otherwise.
Reserve(p) ==
  /\ HasHandle(p) /\ call[p] = NoCall /\ hdr.claim_seq < MaxClaims
  /\ hdr.n_subs <= MaxSubs /\ HasRoom(hdr.claim_seq, hdr.desc)
  /\ hdr' = [hdr EXCEPT !.claim_seq = @ + 1]
  /\ call' = [call EXCEPT ![p] = [at |-> "write", claim |-> hdr.claim_seq, cap |-> hdr.desc]]
  /\ UNCHANGED <<size, slot_seq, pc, i, id, start, disturbed, torn>>

\* After a refused subscribe the scan, of either call, leaves the array of cursors.
ScanPanics(p) ==
  /\ HasHandle(p) /\ call[p].at \in {"none", "scan"} /\ hdr.n_subs > MaxSubs
  /\ Ends(p)
  /\ UNCHANGED <<size, hdr, slot_seq, disturbed, torn>>

Commit(p) ==
  /\ call[p].at = "write"
  /\ LET k == Index(call[p].claim, call[p].cap) IN
       slot_seq' = [j \in Indexes |-> IF j = k THEN call[p].claim + 1 ELSE slot_seq[j]]
  /\ call' = [call EXCEPT ![p].at = "advance"]
  /\ UNCHANGED <<size, hdr, pc, i, id, start, disturbed, torn>>

\* One round of the helping loop, in whose last the call returns.
Advance(p) ==
  /\ call[p].at = "advance"
  /\ IF CommittedAt(hdr.write_seq, call[p].cap)
     THEN hdr' = [hdr EXCEPT !.write_seq = @ + 1] /\ UNCHANGED call
     ELSE call' = [call EXCEPT ![p] = NoCall] /\ UNCHANGED hdr
  /\ UNCHANGED <<size, slot_seq, pc, i, id, start, disturbed, torn>>

\* try_recv: exactly the cursor's own message, whether or not write_seq is past it.
Receive(p) ==
  /\ At(p, "joined")
  /\ LET c == hdr.sub_read_seq[id[p]] IN
       /\ CommittedAt(c, hdr.desc)
       /\ hdr' = [hdr EXCEPT !.sub_read_seq[id[p]] = c + 1]
  /\ UNCHANGED <<size, slot_seq, pc, i, id, start, call, disturbed, torn>>

\* The process ends, wherever it is; the object stays as it is.
End(p) ==
  /\ p \in InSession
  /\ Ends(p)
  /\ UNCHANGED <<size, hdr, slot_seq, disturbed, torn>>

Step(p) ==
  \/ Create(p) \/ Truncate(p) \/ WriteZero(p) \/ WriteDesc(p) \/ WriteSlot(p)
  \/ WriteSubs(p) \/ WriteSlotSeq(p)
  \/ OpenNone(p) \/ Open(p) \/ CheckDesc(p) \/ CheckSlot(p)
  \/ Subscribe(p) \/ SubscribeStart(p) \/ Claim(p) \/ Admit(p) \/ Reserve(p)
  \/ ScanPanics(p) \/ Commit(p) \/ Advance(p) \/ Receive(p) \/ End(p)

Next == \E p \in Processes : Step(p)
Spec == Init /\ [][Next]_vars
=============================================================================
