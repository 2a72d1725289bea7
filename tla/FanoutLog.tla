----------------------------- MODULE FanoutLog -----------------------------
(***************************************************************************)
(* What the bus promises, without its ring: one log in claim order, to     *)
(* which entries are added unwritten and completed in any order, and a     *)
(* reader per subscriber that receives every entry from the one where it   *)
(* joined, once each and in order, and that no completed entry may be more *)
(* than Cap ahead of.                                                      *)
(***************************************************************************)
EXTENDS Integers, Sequences

CONSTANTS Subscribers, Msgs, Cap

VARIABLES entries,   \* Seq of [msg, done], one per claim
          pos,       \* entries before which each subscriber stands, or Detached
          received   \* what each subscriber has been given

fanVars == <<entries, pos, received>>

Detached == -1
Attached(s) == pos[s] # Detached

FanInit ==
  /\ entries = <<>>
  /\ pos = [s \in Subscribers |-> Detached]
  /\ received = [s \in Subscribers |-> <<>>]

Claim ==
  /\ \E m \in Msgs : entries' = Append(entries, [msg |-> m, done |-> FALSE])
  /\ UNCHANGED <<pos, received>>

Complete ==
  /\ \E c \in DOMAIN entries :
       /\ ~entries[c].done
       /\ \A s \in Subscribers : Attached(s) => c <= pos[s] + Cap
       /\ entries' = [entries EXCEPT ![c].done = TRUE]
  /\ UNCHANGED <<pos, received>>

\* A subscriber starts after a completed prefix that reaches far enough.
Join(s) ==
  /\ ~Attached(s)
  /\ \E k \in 0..Len(entries) :
       /\ \A c \in DOMAIN entries : c <= k => entries[c].done
       /\ \A c \in DOMAIN entries : entries[c].done => c <= k + Cap
       /\ pos' = [pos EXCEPT ![s] = k]
  /\ UNCHANGED <<entries, received>>

Receive(s) ==
  /\ Attached(s) /\ pos[s] + 1 \in DOMAIN entries /\ entries[pos[s] + 1].done
  /\ pos' = [pos EXCEPT ![s] = @ + 1]
  /\ received' = [received EXCEPT ![s] = Append(@, entries[pos[s] + 1].msg)]
  /\ UNCHANGED entries

FanNext == Claim \/ Complete \/ \E s \in Subscribers : Join(s) \/ Receive(s)

FanSpec == FanInit /\ [][FanNext]_fanVars
=============================================================================
