-------------------------- MODULE RegionProperties --------------------------
(* What is claimed of the regions of BusRegion: of every session that no    *)
(* create() overlaps, which is what "Create it first" (main.rs:51) asks for. *)
EXTENDS BusRegion

Undisturbed(p) == p \notin disturbed

\* The header that create() leaves behind.
Fresh(p) == [ZeroHeader EXCEPT !.desc = Geo[p].desc, !.slot = Geo[p].slot]

(* Types, who has an id, and who can be in a publish.                      *)
TypeOK ==
  /\ size \in {Absent, 0} \cup {Total(Geo[p]) : p \in Creators}
  /\ hdr \in [write_seq : 0..MaxClaims, claim_seq : 0..MaxClaims, desc : {0} \cup Descs,
              slot : Nat, n_subs : Nat, sub_read_seq : [0..MaxSubs-1 -> 0..MaxClaims]]
  /\ slot_seq \in [Indexes -> 0..MaxClaims]
  /\ pc \in [Processes -> InitPcs \cup {"new", "check_desc", "check_slot", "ready",
                                        "join", "joined", "gone"}]
  /\ i \in [Processes -> Nat]
  /\ \A p \in Processes : i[p] \in 0..Geo[p].desc-1 /\ (pc[p] # "slots" => i[p] = 0)
  /\ id \in [Processes -> -1..MaxSubs-1] /\ start \in [Processes -> 0..MaxClaims]
  /\ \A p \in Processes : id[p] # -1 <=> pc[p] \in {"join", "joined"}
  /\ call \in [Processes -> [at : {"none", "scan", "write", "advance"},
                            claim : 0..MaxClaims, cap : {0} \cup Descs]]
  /\ \A p \in Processes : call[p].at # "none" => HasHandle(p) /\ call[p].claim < MaxClaims
  /\ Creating \subseteq Creators /\ disturbed \subseteq Processes /\ torn \in BOOLEAN

(* Whatever lay in the object before, of whatever shape and however its     *)
(* last create() or its users ended, create() returns an empty ring        *)
(* (bus.rs 320-333): the state in which Bus begins.                        *)
FreshRegion ==
  [][\A p \in Creators :
       pc[p] \in InitPcs /\ pc'[p] = "ready" /\ Undisturbed(p) =>
         /\ hdr' = Fresh(p)
         /\ \A k \in 0..Geo[p].desc-1 : slot_seq'[k] = 0]_vars

(* "size mismatch opening bus" (main.rs:58): who has a handle computes with *)
(* the geometry the object has, so that slots and payloads lie within it   *)
(* and where all others look for them (bus.rs 353-360), and a publish under *)
(* way with the capacity it has still (bus.rs 412, 474).                   *)
SameGeometry ==
  \A p \in Processes : HasHandle(p) /\ Undisturbed(p) =>
    /\ hdr.desc = Geo[p].desc /\ hdr.slot = Geo[p].slot
    /\ call[p].at # "none" => call[p].cap = hdr.desc
    /\ size = Total(Geo[p]) /\ LaidOut(hdr.desc, hdr.slot, size)

(* A subscriber keeps the cursor it was given, to itself, among those the   *)
(* producers look at (bus.rs 372-378, 479-486): nobody else moves it back  *)
(* behind its start, nor past what has been claimed.  It may be past        *)
(* write_seq, which follows a commit only later (bus.rs 508, 517, 562).    *)
OwnCursor ==
  \A p \in Processes : pc[p] \in {"join", "joined"} /\ Undisturbed(p) =>
    /\ id[p] \in 0..MaxSubs-1 /\ id[p] < hdr.n_subs
    /\ pc[p] = "joined" =>
         LET cursor == hdr.sub_read_seq[id[p]] IN
         start[p] <= cursor /\ cursor <= hdr.claim_seq
    /\ \A q \in Processes \ {p} : pc[q] \in {"join", "joined"} => id[q] # id[p]

-----------------------------------------------------------------------------
(* The inductive invariant behind them.                                    *)

\* A create() is disturbed unless it is alone; whoever is in a session without
\* creating is disturbed unless the last create() was completed undisturbed.
Overlaps ==
  /\ InSession # {} => size # Absent
  /\ \A p \in disturbed : pc[p] # "new"
  /\ ~torn => Creating = {} /\ disturbed \cap InSession = {}
  /\ \A p \in Creating \ disturbed : InSession = {p}
  /\ \A p \in InSession \ (Creating \cup disturbed) : ~torn

\* How far an undisturbed create() has come.
CreatorShape ==
  \A p \in Creating \ disturbed :
    /\ pc[p] # "truncate" => size = Total(Geo[p])
    /\ pc[p] = "desc" => hdr = ZeroHeader
    /\ pc[p] = "slot" => hdr = [ZeroHeader EXCEPT !.desc = Geo[p].desc]
    /\ pc[p] \in {"subs", "slots"} => hdr = Fresh(p)
    /\ \A k \in 0..i[p]-1 : slot_seq[k] = 0

\* A region that a create() has completed is of one creator's geometry, and
\* neither write_seq nor a slot is ahead of what was claimed.
RegionShape ==
  ~torn /\ size # Absent =>
    /\ \E c \in Creators :
         hdr.desc = Geo[c].desc /\ hdr.slot = Geo[c].slot /\ size = Total(Geo[c])
    /\ hdr.write_seq <= hdr.claim_seq
    /\ \A k \in 0..hdr.desc-1 : slot_seq[k] <= hdr.claim_seq

\* What an undisturbed session has compared or read still holds.
HandleShape ==
  \A p \in InSession \ (Creating \cup disturbed) :
    /\ pc[p] # "check_desc" => hdr.desc = Geo[p].desc
    /\ HasHandle(p) => hdr.slot = Geo[p].slot
    /\ call[p].at # "none" => call[p].cap = hdr.desc /\ call[p].claim < hdr.claim_seq

RegionInv == TypeOK /\ Overlaps /\ CreatorShape /\ RegionShape /\ HandleShape /\ OwnCursor
=============================================================================
