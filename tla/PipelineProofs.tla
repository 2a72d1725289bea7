--------------------------- MODULE PipelineProofs ---------------------------
(***************************************************************************)
(* Theorems about the pipeline of Pipeline, for any number of producers    *)
(* and subscribers, any capacities and slot sizes, and deadlines that come *)
(* at any time.                                                            *)
(***************************************************************************)
EXTENDS PipelineProperties, TLAPS

Entry == [msg : Msgs, done : BOOLEAN]

Outside == {"start", "join"}
Pcs     == {"start", "join", "loop", "begin", "publish", "done"}
USE DEF Outside, Pcs

-----------------------------------------------------------------------------
(* What the steps do to a bus.                                             *)

\* Both buses keep the messages they have, and whether each is complete.
Grows ==
  \A b \in Buses :
    /\ bus'[b] \in Seq(Entry) /\ Len(bus'[b]) >= Len(bus[b])
    /\ \A c \in 1..Len(bus[b]) : bus'[b][c].msg = bus[b][c].msg
    /\ \A c \in 1..Len(bus[b]) : bus[b][c].done => bus'[b][c].done

LEMMA BusType ==
  ASSUME TypeOK, NEW b \in Buses
  PROVE  /\ bus[b] \in Seq(Entry) /\ Len(bus[b]) \in Nat /\ DOMAIN bus[b] = 1..Len(bus[b])
         /\ \A c \in 1..Len(bus[b]) : bus[b][c].msg \in Msgs /\ bus[b][c].done \in BOOLEAN
<1>1. bus[b] \in Seq(Entry)
  BY DEF TypeOK, Entry
<1>2. Len(bus[b]) \in Nat /\ DOMAIN bus[b] = 1..Len(bus[b])
  BY <1>1
<1>3. \A c \in 1..Len(bus[b]) : bus[b][c] \in Entry
  BY <1>1
<1> QED
  BY <1>1, <1>2, <1>3 DEF Entry

LEMMA BeginEffect ==
  ASSUME TypeOK, NEW b \in Buses, NEW m \in Msgs,
         bus' = [bus EXCEPT ![b] = Append(@, [msg |-> m, done |-> FALSE])]
  PROVE  /\ bus' \in [Buses -> Seq(Entry)] /\ Grows
         /\ \A x \in Buses \ {b} : bus'[x] = bus[x]
         /\ Len(bus'[b]) = Len(bus[b]) + 1
         /\ \A c \in 1..Len(bus[b]) : bus'[b][c] = bus[b][c]
         /\ bus'[b][Len(bus[b]) + 1].msg = m /\ ~bus'[b][Len(bus[b]) + 1].done
<1> DEFINE e == [msg |-> m, done |-> FALSE]
<1>1. e \in Entry /\ e.msg = m /\ ~e.done
  BY DEF Entry
<1>2. bus \in [Buses -> Seq(Entry)] /\ bus[b] \in Seq(Entry) /\ Len(bus[b]) \in Nat
  BY BusType DEF TypeOK, Entry
<1> HIDE DEF e
<1>3. /\ Append(bus[b], e) \in Seq(Entry) /\ Len(Append(bus[b], e)) = Len(bus[b]) + 1
      /\ \A c \in 1..Len(bus[b]) : Append(bus[b], e)[c] = bus[b][c]
      /\ Append(bus[b], e)[Len(bus[b]) + 1] = e
  BY <1>1, <1>2
<1>4. bus' = [bus EXCEPT ![b] = Append(bus[b], e)]
  BY DEF e
<1>5. /\ bus'[b] = Append(bus[b], e) /\ bus' \in [Buses -> Seq(Entry)]
      /\ \A x \in Buses \ {b} : bus'[x] = bus[x]
  BY <1>2, <1>3, <1>4
<1>6. Grows
  <2> SUFFICES ASSUME NEW x \in Buses
               PROVE  /\ bus'[x] \in Seq(Entry) /\ Len(bus'[x]) >= Len(bus[x])
                      /\ \A c \in 1..Len(bus[x]) : bus'[x][c] = bus[x][c]
    BY Zenon DEF Grows
  <2>1. bus[x] \in Seq(Entry) /\ Len(bus[x]) \in Nat
    BY BusType
  <2>2. CASE x = b
    BY <1>2, <1>3, <1>5, <2>2
  <2>3. CASE x # b
    BY <1>5, <2>1, <2>3
  <2> QED
    BY <2>2, <2>3
<1> QED
  BY <1>1, <1>3, <1>5, <1>6

LEMMA SeqOfFunction ==
  ASSUME NEW S, NEW N \in Nat, NEW f \in [1..N -> S]
  PROVE  f \in Seq(S)
OBVIOUS

LEMMA MarkEntry ==
  ASSUME NEW q \in Seq(Entry), NEW c \in 1..Len(q), NEW r, r = [q EXCEPT ![c].done = TRUE]
  PROVE  /\ r \in Seq(Entry) /\ Len(r) = Len(q)
         /\ \A j \in 1..Len(q) : r[j].msg = q[j].msg
         /\ \A j \in 1..Len(q) : j # c => r[j] = q[j]
         /\ r[c].done
<1>1. q[c] \in Entry
  OBVIOUS
<1> DEFINE e == [q[c] EXCEPT !.done = TRUE]
<1>2. e \in Entry /\ e.msg = q[c].msg /\ e.done
  BY <1>1 DEF Entry
<1>3. r = [q EXCEPT ![c] = e]
  OBVIOUS
<1> HIDE DEF e
<1>4. /\ r \in Seq(Entry) /\ Len(r) = Len(q) /\ r[c] = e
      /\ \A j \in 1..Len(q) : j # c => r[j] = q[j]
  <2>1. q \in [1..Len(q) -> Entry] /\ Len(q) \in Nat
    OBVIOUS
  <2>2. /\ r \in [1..Len(q) -> Entry] /\ r[c] = e
        /\ \A j \in 1..Len(q) : j # c => r[j] = q[j]
    BY <1>2, <1>3, <2>1
  <2>3. r \in Seq(Entry)
    BY <2>1, <2>2, SeqOfFunction
  <2> QED
    BY <2>1, <2>2, <2>3
<1> QED
  BY <1>2, <1>4

LEMMA FinishEffect ==
  ASSUME TypeOK, NEW t, NEW b \in Buses, at[t] \in 1..Len(bus[b]),
         bus' = [bus EXCEPT ![b][at[t]].done = TRUE]
  PROVE  /\ bus' \in [Buses -> Seq(Entry)] /\ Grows
         /\ \A x \in Buses \ {b} : bus'[x] = bus[x]
         /\ Len(bus'[b]) = Len(bus[b])
         /\ \A c \in 1..Len(bus[b]) : c # at[t] => bus'[b][c] = bus[b][c]
         /\ bus'[b][at[t]].done
<1> DEFINE r == [bus[b] EXCEPT ![at[t]].done = TRUE]
<1>1. bus \in [Buses -> Seq(Entry)] /\ bus[b] \in Seq(Entry) /\ Len(bus[b]) \in Nat
  BY BusType DEF TypeOK, Entry
<1>2. bus' = [bus EXCEPT ![b] = r]
  OBVIOUS
<1> HIDE DEF r
<1>3. /\ r \in Seq(Entry) /\ Len(r) = Len(bus[b]) /\ r[at[t]].done
      /\ \A j \in 1..Len(bus[b]) : r[j].msg = bus[b][j].msg
      /\ \A j \in 1..Len(bus[b]) : j # at[t] => r[j] = bus[b][j]
  BY <1>1, MarkEntry DEF r
<1>4. /\ bus'[b] = r /\ bus' \in [Buses -> Seq(Entry)]
      /\ \A x \in Buses \ {b} : bus'[x] = bus[x]
  BY <1>1, <1>2, <1>3
<1>5. Grows
  <2> SUFFICES ASSUME NEW x \in Buses
               PROVE  /\ bus'[x] \in Seq(Entry) /\ Len(bus'[x]) >= Len(bus[x])
                      /\ \A c \in 1..Len(bus[x]) : bus'[x][c].msg = bus[x][c].msg
                      /\ \A c \in 1..Len(bus[x]) : bus[x][c].done => bus'[x][c].done
    BY Zenon DEF Grows
  <2>1. bus[x] \in Seq(Entry) /\ Len(bus[x]) \in Nat
    BY BusType
  <2>2. CASE x = b
    BY <1>1, <1>3, <1>4, <2>2
  <2>3. CASE x # b
    BY <1>4, <2>1, <2>3
  <2> QED
    BY <2>2, <2>3
<1> QED
  BY <1>3, <1>4, <1>5

-----------------------------------------------------------------------------
(* What growing buses leave as it was.                                     *)

LEMMA ReaderKept ==
  ASSUME TypeOK, ReaderShape, Grows, UNCHANGED <<pos, got>>,
         \A r \in Readers : pc'[r] \in Outside <=> pc[r] \in Outside,
         \A s \in Subs : pc'[s] \in {"start", "join", "loop", "done"}
  PROVE  /\ ReaderShape'
         /\ \A r \in Readers : pos[r] \in -1..Len(bus'[On[r]])
<1>1. ASSUME NEW r \in Readers
      PROVE  /\ pos[r] \in -1..Len(bus'[On[r]])
             /\ \A j \in DOMAIN got[r] :
                  got[r][j] = bus'[On[r]][pos[r] - Len(got[r]) + j].msg
  <2>1. On[r] \in Buses /\ got[r] \in Seq(Msgs) /\ pos[r] \in -1..Len(bus[On[r]])
    BY ThreadAssumption DEF TypeOK
  <2>2. Len(bus[On[r]]) \in Nat /\ Len(bus'[On[r]]) \in Nat
        /\ Len(bus'[On[r]]) >= Len(bus[On[r]])
    BY <2>1, BusType DEF Grows
  <2>3. ASSUME NEW j \in DOMAIN got[r]
        PROVE  got[r][j] = bus'[On[r]][pos[r] - Len(got[r]) + j].msg
    <3>1. j \in 1..Len(got[r]) /\ Len(got[r]) \in Nat
      BY <2>1, <2>3
    <3>2. Len(got[r]) <= pos[r]
      <4>1. got[r] # <<>>
        BY <2>1, <2>3
      <4> QED
        BY <4>1 DEF ReaderShape
    <3>3. pos[r] - Len(got[r]) + j \in 1..Len(bus[On[r]])
      BY <2>1, <2>2, <3>1, <3>2
    <3>4. got[r][j] = bus[On[r]][pos[r] - Len(got[r]) + j].msg
      BY <2>3 DEF ReaderShape
    <3> QED
      BY <2>1, <3>3, <3>4 DEF Grows
  <2> QED
    BY <2>1, <2>2, <2>3
<1>2. \A r \in Readers : (pos[r] # -1 <=> pc'[r] \notin Outside)
  BY DEF ReaderShape, Attached
<1>3. \A r \in Readers : /\ pos[r] = -1 => got[r] = <<>>
                        /\ pos[r] # -1 => Len(got[r]) <= pos[r]
  BY DEF ReaderShape, Attached
<1> QED
  BY <1>1, <1>2, <1>3 DEF ReaderShape, Attached

LEMMA OrderKept ==
  ASSUME TypeOK, InOrder, Grows, got'[Relay] = got[Relay],
         Len(bus'["dst"]) = Len(bus["dst"]), InHand' = InHand
  PROVE  InOrder'
<1>1. PICK f \in [1..Len(bus["dst"]) + InHand -> DOMAIN got[Relay]] : Forwards(f)
  BY DEF InOrder
<1>2. "dst" \in Buses
  BY DEF Buses
<1>3. /\ DOMAIN bus["dst"] = 1..Len(bus["dst"]) /\ DOMAIN bus'["dst"] = 1..Len(bus["dst"])
      /\ \A c \in 1..Len(bus["dst"]) : bus'["dst"][c].msg = bus["dst"][c].msg
  <2>1. bus["dst"] \in Seq(Entry) /\ bus'["dst"] \in Seq(Entry)
    BY <1>2, BusType DEF Grows
  <2> QED
    BY <1>2, <2>1 DEF Grows
<1>4. Forwards(f)'
  BY <1>1, <1>3 DEF Forwards, Fits
<1>5. f \in [1..Len(bus'["dst"]) + InHand' -> DOMAIN got'[Relay]]
  BY <1>1
<1> QED
  BY <1>4, <1>5 DEF InOrder

LEMMA RelayKept ==
  ASSUME TypeOK, RelayShape, InOrder, Counted, UNCHANGED <<bus, fwd, dropped>>,
         got'[Relay] = got[Relay], pc'[Relay] = "publish" <=> pc[Relay] = "publish",
         pc'[Relay] = "begin" <=> pc[Relay] = "begin"
  PROVE  RelayShape' /\ InOrder' /\ Counted'
<1>1. Grows
  <2> SUFFICES ASSUME NEW b \in Buses
               PROVE  bus[b] \in Seq(Entry) /\ Len(bus[b]) >= Len(bus[b])
    BY Zenon DEF Grows
  <2> QED
    BY BusType
<1>2. InHand' = InHand
  BY DEF InHand
<1>3. RelayShape' /\ Counted'
  BY DEF RelayShape, Counted, Newest, Fits
<1> QED
  BY <1>1, <1>2, <1>3, OrderKept

\* The relay's steps leave the producers' claims alone.
LEMMA ClaimsKept ==
  ASSUME ClaimShape, bus'["src"] = bus["src"],
         \A p \in Producers : pc'[p] = pc[p] /\ at'[p] = at[p],
         pc'[Relay] = "publish" => /\ at'[Relay] \in DOMAIN bus'["dst"]
                                   /\ at'[Relay] = Len(bus'["dst"])
                                   /\ ~bus'["dst"][at'[Relay]].done
  PROVE  ClaimShape'
<1>1. \A p \in Producers :
        /\ pc'[p] \in {"loop", "publish", "done"}
        /\ pc'[p] = "publish" => at'[p] \in DOMAIN bus'["src"] /\ ~bus'["src"][at'[p]].done
  BY DEF ClaimShape
<1>2. \A p, q \in Producers :
        p # q /\ pc'[p] = "publish" /\ pc'[q] = "publish" => at'[p] # at'[q]
  BY DEF ClaimShape
<1> QED
  BY <1>1, <1>2 DEF ClaimShape

\* A claim is no message yet, so nothing is lapped by it.
LEMMA BeginUnlapped ==
  ASSUME TypeOK, NEW b \in Buses, NEW m \in Msgs, UNCHANGED pos,
         bus' = [bus EXCEPT ![b] = Append(@, [msg |-> m, done |-> FALSE])]
  PROVE  NotLapped'
<1> SUFFICES ASSUME NEW x \in Buses, NEW c \in DOMAIN bus'[x], bus'[x][c].done
             PROVE  /\ \A j \in DOMAIN bus'[x] : j + Cap[x] <= c => bus'[x][j].done
                    /\ \A r \in ReadersOf(x) : Attached(r) => c <= pos[r] + Cap[x]
  BY DEF NotLapped, Attached, ReadersOf
<1>1. CASE x # b
  BY <1>1, BeginEffect DEF TypeOK, NotLapped
<1>2. CASE x = b
  <2>1. /\ bus'[b] \in Seq(Entry) /\ Len(bus'[b]) = Len(bus[b]) + 1
        /\ \A j \in 1..Len(bus[b]) : bus'[b][j] = bus[b][j]
        /\ ~bus'[b][Len(bus[b]) + 1].done
    BY BeginEffect DEF Grows
  <2>2. /\ DOMAIN bus'[b] = 1..Len(bus[b]) + 1 /\ DOMAIN bus[b] = 1..Len(bus[b])
        /\ Len(bus[b]) \in Nat /\ Cap[b] \in Nat \ {0}
    BY <2>1, BusType, SizesAssumption
  <2>3. c \in DOMAIN bus[b] /\ bus[b][c].done
    BY <1>2, <2>1, <2>2
  <2>4. /\ \A j \in DOMAIN bus[b] : j + Cap[b] <= c => bus[b][j].done
        /\ \A r \in ReadersOf(b) : Attached(r) => c <= pos[r] + Cap[b]
    BY <2>3 DEF TypeOK, NotLapped
  <2>5. ASSUME NEW j \in DOMAIN bus'[b], j + Cap[b] <= c PROVE bus'[b][j].done
    <3>1. j \in 1..Len(bus[b])
      BY <2>2, <2>3, <2>5
    <3> QED
      BY <2>1, <2>2, <2>4, <2>5, <3>1
  <2> QED
    BY <1>2, <2>4, <2>5
<1> QED
  BY <1>1, <1>2

\* Who has a position is enrolled, so there is room behind it.
LEMMA RoomBehind ==
  ASSUME ReaderShape, NEW b, NEW c, HasRoom(b, c), NEW r \in Readers, On[r] = b, Attached(r)
  PROVE  c <= pos[r] + Cap[b]
<1>1. Enrolled(r) /\ Cursor(r) = pos[r]
  BY DEF ReaderShape, Enrolled, Cursor
<1> QED
  BY <1>1 DEF HasRoom

\* Finish waits for room.
LEMMA FinishUnlapped ==
  ASSUME TypeOK, ReaderShape, NEW t, NEW b \in Buses, at[t] \in 1..Len(bus[b]),
         HasRoom(b, at[t]),
         UNCHANGED pos, bus' = [bus EXCEPT ![b][at[t]].done = TRUE]
  PROVE  NotLapped'
<1> SUFFICES ASSUME NEW x \in Buses, NEW c \in DOMAIN bus'[x], bus'[x][c].done
             PROVE  /\ \A j \in DOMAIN bus'[x] : j + Cap[x] <= c => bus'[x][j].done
                    /\ \A r \in ReadersOf(x) : Attached(r) => c <= pos[r] + Cap[x]
  BY DEF NotLapped, Attached, ReadersOf
<1>1. CASE x # b
  BY <1>1, FinishEffect DEF TypeOK, NotLapped
<1>2. CASE x = b
  <2>1. /\ bus'[b] \in Seq(Entry) /\ Len(bus'[b]) = Len(bus[b])
        /\ \A j \in 1..Len(bus[b]) : j # at[t] => bus'[b][j] = bus[b][j]
        /\ bus'[b][at[t]].done /\ Grows
    <3>1. /\ Len(bus'[b]) = Len(bus[b]) /\ bus'[b][at[t]].done /\ Grows
          /\ \A j \in 1..Len(bus[b]) : j # at[t] => bus'[b][j] = bus[b][j]
      BY FinishEffect
    <3> QED
      BY <3>1 DEF Grows
  <2>2. DOMAIN bus'[b] = 1..Len(bus[b]) /\ DOMAIN bus[b] = 1..Len(bus[b])
    BY <2>1, BusType
  <2>3. /\ \A j \in DOMAIN bus[b] : j + Cap[b] <= c => bus[b][j].done
        /\ \A r \in ReadersOf(b) : Attached(r) => c <= pos[r] + Cap[b]
    <3>1. CASE c = at[t]
      BY <3>1, RoomBehind DEF HasRoom, ReadersOf
    <3>2. CASE c # at[t]
      BY <1>2, <2>1, <2>2, <3>2 DEF TypeOK, NotLapped
    <3> QED
      BY <3>1, <3>2
  <2> QED
    BY <1>2, <2>1, <2>2, <2>3 DEF Grows
<1> QED
  BY <1>1, <1>2

-----------------------------------------------------------------------------
(* One step of each thread.                                                *)

Threads == Producers \cup Readers

LEMMA Typed ==
  ASSUME TypeOK
  PROVE  /\ bus \in [Buses -> Seq(Entry)] /\ pos \in [Readers -> Int]
         /\ got \in [Readers -> Seq(Msgs)]
         /\ pc \in [Threads -> Pcs]
         /\ at \in [Producers \cup {Relay} -> Nat] /\ sent \in [Producers -> Nat]
         /\ fwd \in Nat /\ dropped \in Nat
         /\ Relay \in Threads /\ Relay \in Readers /\ Relay \notin Subs /\ Relay \notin Producers
         /\ "src" \in Buses /\ "dst" \in Buses /\ On \in [Readers -> Buses] /\ On[Relay] = "src"
BY ThreadAssumption DEF TypeOK, Entry, Threads, Readers, Buses

\* Beginning and finishing keep the types of what they touch.
LEMMA BeginType ==
  ASSUME TypeOK, ReaderShape, NEW t \in Producers \cup {Relay}, NEW b \in Buses, NEW m \in Msgs,
         MsgLen[m] \in 1..Slot[b], pc[t] \in {"loop", "begin"},
         Begin(t, b, m), UNCHANGED <<pos, got, sent, fwd, dropped>>
  PROVE  TypeOK' /\ ReaderShape'
<1>1. bus' = [bus EXCEPT ![b] = Append(@, [msg |-> m, done |-> FALSE])]
  BY DEF Begin
<1>2. /\ bus' \in [Buses -> Seq(Entry)] /\ Grows
      /\ \A x \in Buses \ {b} : bus'[x] = bus[x]
      /\ Len(bus'[b]) = Len(bus[b]) + 1
      /\ \A c \in 1..Len(bus[b]) : bus'[b][c] = bus[b][c]
      /\ bus'[b][Len(bus[b]) + 1].msg = m
  BY <1>1, BeginEffect
<1>3. NotLapped'
  BY <1>1, BeginUnlapped
<1>4. t \in Threads /\ \A u \in Threads \ {t} : pc'[u] = pc[u]
  BY Typed DEF Begin, Goto, Threads, Readers
<1>5. /\ pc' \in [Threads -> Pcs]
      /\ pc'[t] = "publish"
  BY <1>4, Typed DEF Begin, Goto
<1>6. at' \in [Producers \cup {Relay} -> Nat]
  BY <1>4, Typed, BusType DEF Begin
<1>7. ReaderShape' /\ \A r \in Readers : pos[r] \in -1..Len(bus'[On[r]])
  <2>1. \A r \in Readers : pc'[r] \in Outside <=> pc[r] \in Outside
    BY <1>4, <1>5 DEF Threads
  <2>2. \A s \in Subs : pc'[s] \in {"start", "join", "loop", "done"}
    BY <1>4, ThreadAssumption DEF ReaderShape, Threads, Readers
  <2> QED
    BY <1>2, <2>1, <2>2, ReaderKept
<1>8. ASSUME NEW x \in Buses, NEW c \in DOMAIN bus'[x]
      PROVE  MsgLen[bus'[x][c].msg] \in 1..Slot[x]
  <2>1. DOMAIN bus'[b] = 1..Len(bus[b]) + 1 /\ DOMAIN bus[b] = 1..Len(bus[b])
        /\ Len(bus[b]) \in Nat
    <3>1. bus'[b] \in Seq(Entry)
      BY <1>2
    <3> QED
      BY <1>2, <3>1, BusType
  <2>2. CASE x # b
    BY <1>2, <1>8, <2>2 DEF TypeOK
  <2>3. CASE x = b /\ c = Len(bus[b]) + 1
    BY <1>2, <2>3
  <2>4. CASE x = b /\ c \in 1..Len(bus[b])
    BY <1>2, <2>1, <2>4 DEF TypeOK
  <2> QED
    BY <1>8, <2>1, <2>2, <2>3, <2>4
<1> QED
  BY <1>2, <1>3, <1>5, <1>6, <1>7, <1>8, Typed DEF TypeOK, Entry, Threads

LEMMA FinishType ==
  ASSUME TypeOK, ReaderShape, NEW t \in Producers \cup {Relay}, NEW b \in Buses,
         at[t] \in DOMAIN bus[b], Finish(t, b), UNCHANGED <<pos, got, dropped>>,
         sent' \in [Producers -> Nat], fwd' \in Nat
  PROVE  TypeOK' /\ ReaderShape'
<1>1. /\ bus' = [bus EXCEPT ![b][at[t]].done = TRUE] /\ HasRoom(b, at[t])
      /\ pc[t] = "publish" /\ at[t] \in 1..Len(bus[b])
  BY BusType DEF Finish
<1>2. /\ bus' \in [Buses -> Seq(Entry)] /\ Grows
      /\ \A x \in Buses \ {b} : bus'[x] = bus[x]
      /\ Len(bus'[b]) = Len(bus[b])
  BY <1>1, FinishEffect
<1>3. NotLapped'
  BY <1>1, FinishUnlapped
<1>4. t \in Threads /\ \A u \in Threads \ {t} : pc'[u] = pc[u]
  BY Typed DEF Finish, Goto, Threads, Readers
<1>5. /\ pc' \in [Threads -> Pcs]
      /\ pc'[t] = "loop"
  BY <1>4, Typed DEF Finish, Goto
<1>6. at' \in [Producers \cup {Relay} -> Nat]
  BY <1>4, Typed DEF Finish
<1>7. ReaderShape' /\ \A r \in Readers : pos[r] \in -1..Len(bus'[On[r]])
  <2>1. \A r \in Readers : pc'[r] \in Outside <=> pc[r] \in Outside
    BY <1>1, <1>4, <1>5 DEF Threads
  <2>2. \A s \in Subs : pc'[s] \in {"start", "join", "loop", "done"}
    BY <1>4, <1>5, ThreadAssumption DEF ReaderShape, Threads, Readers
  <2> QED
    BY <1>2, <2>1, <2>2, ReaderKept
<1>8. ASSUME NEW x \in Buses, NEW c \in DOMAIN bus'[x]
      PROVE  MsgLen[bus'[x][c].msg] \in 1..Slot[x]
  <2>1. bus'[x] \in Seq(Entry) /\ Len(bus'[x]) = Len(bus[x])
    BY <1>2
  <2>2. c \in 1..Len(bus[x]) /\ c \in DOMAIN bus[x]
    BY <1>8, <2>1, BusType
  <2>3. bus'[x][c].msg = bus[x][c].msg
    BY <1>2, <2>2 DEF Grows
  <2> QED
    BY <2>2, <2>3 DEF TypeOK
<1> QED
  BY <1>2, <1>3, <1>5, <1>6, <1>7, <1>8, Typed DEF TypeOK, Entry, Threads

LEMMA ProduceStep ==
  ASSUME PipeInv, NEW p \in Producers, Produce(p)
  PROVE  PipeInv'
<1> USE Typed DEF PipeInv
<1>1. PICK m \in Outbox[p] : Begin(p, "src", m)
  BY DEF Produce
<1>2. m \in Msgs /\ MsgLen[m] \in 1..Slot["src"]
  BY SizesAssumption
<1>3. TypeOK' /\ ReaderShape'
  BY <1>1, <1>2, BeginType DEF Produce
<1>4. /\ Grows /\ bus'["dst"] = bus["dst"] /\ Len(bus'["src"]) = Len(bus["src"]) + 1
      /\ \A c \in 1..Len(bus["src"]) : bus'["src"][c] = bus["src"][c]
      /\ ~bus'["src"][Len(bus["src"]) + 1].done
  BY <1>1, <1>2, BeginEffect DEF Begin
<1>5. /\ pc'[p] = "publish" /\ at'[p] = Len(bus["src"]) + 1
      /\ \A u \in Threads \ {p} : pc'[u] = pc[u]
      /\ \A u \in Producers \cup {Relay} : u # p => at'[u] = at[u]
  BY <1>1 DEF Begin, Goto, Threads
<1>6. pc'[Relay] = pc[Relay] /\ at'[Relay] = at[Relay]
  BY <1>5
<1>7. ClaimShape'
  <2>1. /\ DOMAIN bus["src"] = 1..Len(bus["src"]) /\ Len(bus["src"]) \in Nat
        /\ DOMAIN bus'["src"] = 1..Len(bus["src"]) + 1
    <3>1. bus'["src"] \in Seq(Entry)
      BY <1>4 DEF Grows
    <3> QED
      BY <1>4, <3>1, BusType
  <2>2. ASSUME NEW q \in Producers, q # p, pc'[q] = "publish"
        PROVE  at'[q] = at[q] /\ at[q] \in 1..Len(bus["src"]) /\ ~bus["src"][at[q]].done
    BY <1>5, <2>1, <2>2 DEF ClaimShape, Threads
  <2>3. ASSUME NEW q \in Producers
        PROVE  /\ pc'[q] \in {"loop", "publish", "done"}
               /\ pc'[q] = "publish" =>
                    at'[q] \in DOMAIN bus'["src"] /\ ~bus'["src"][at'[q]].done
    <3>1. CASE q = p
      BY <1>4, <1>5, <2>1, <3>1
    <3>2. CASE q # p
      <4>1. pc'[q] \in {"loop", "publish", "done"}
        BY <1>5, <3>2 DEF ClaimShape, Threads
      <4>2. ASSUME pc'[q] = "publish"
            PROVE  at'[q] \in DOMAIN bus'["src"] /\ ~bus'["src"][at'[q]].done
        <5>1. at'[q] = at[q] /\ at[q] \in 1..Len(bus["src"]) /\ ~bus["src"][at[q]].done
          BY <2>2, <3>2, <4>2
        <5>2. bus'["src"][at'[q]] = bus["src"][at[q]]
          BY <1>4, <5>1
        <5>3. at'[q] \in DOMAIN bus'["src"]
          BY <2>1, <5>1
        <5> QED
          BY <5>1, <5>2, <5>3
      <4> QED
        BY <4>1, <4>2
    <3> QED
      BY <3>1, <3>2
  <2>4. \A q, r \in Producers :
          q # r /\ pc'[q] = "publish" /\ pc'[r] = "publish" => at'[q] # at'[r]
    <3>1. Len(bus["src"]) + 1 \notin 1..Len(bus["src"])
      BY <2>1
    <3>2. \A q \in Producers : q # p /\ pc'[q] = "publish" => pc[q] = "publish"
      BY <1>5 DEF Threads
    <3>3. \A q, r \in Producers :
            q # r /\ pc[q] = "publish" /\ pc[r] = "publish" => at[q] # at[r]
      BY DEF ClaimShape
    <3>4. \A q \in Producers : q # p /\ pc'[q] = "publish" => at'[q] # Len(bus["src"]) + 1
      BY <2>2, <3>1
    <3>5. \A q \in Producers : q # p /\ pc'[q] = "publish" => at'[q] = at[q]
      BY <2>2
    <3> SUFFICES ASSUME NEW q \in Producers, NEW r \in Producers, q # r,
                        pc'[q] = "publish", pc'[r] = "publish"
                 PROVE  at'[q] # at'[r]
      OBVIOUS
    <3>6. CASE q # p /\ r # p
      BY <3>2, <3>3, <3>5, <3>6
    <3>7. CASE q = p \/ r = p
      BY <1>5, <3>4, <3>7
    <3> QED
      BY <3>6, <3>7
  <2> QED
    BY <1>4, <1>6, <2>3, <2>4 DEF ClaimShape
<1>8. UNCHANGED <<got, fwd, dropped>>
  BY DEF Produce
<1>9. RelayShape' /\ Counted' /\ InHand' = InHand
  BY <1>4, <1>6, <1>8 DEF RelayShape, Counted, InHand, Newest, Fits
<1>10. InOrder'
  BY <1>4, <1>8, <1>9, OrderKept
<1> QED
  BY <1>3, <1>7, <1>9, <1>10

LEMMA ProducedStep ==
  ASSUME PipeInv, NEW p \in Producers, Produced(p)
  PROVE  PipeInv'
<1> USE Typed DEF PipeInv
<1>1. Finish(p, "src") /\ pc[p] = "publish" /\ UNCHANGED <<pos, got, fwd, dropped>>
  BY DEF Produced, Finish
<1>2. at[p] \in DOMAIN bus["src"] /\ at[p] \in 1..Len(bus["src"])
  BY <1>1, BusType DEF ClaimShape
<1>3. TypeOK' /\ ReaderShape'
  <2>1. sent' \in [Producers -> Nat]
    BY DEF Produced
  <2> QED
    BY <1>1, <1>2, <2>1, FinishType
<1>4. /\ Grows /\ bus'["dst"] = bus["dst"] /\ Len(bus'["src"]) = Len(bus["src"])
      /\ \A c \in 1..Len(bus["src"]) : c # at[p] => bus'["src"][c] = bus["src"][c]
  <2>1. bus' = [bus EXCEPT !["src"][at[p]].done = TRUE]
    BY <1>1 DEF Finish
  <2>2. "dst" \in Buses \ {"src"} /\ "src" \in Buses
    BY DEF Buses
  <2>3. /\ Grows /\ Len(bus'["src"]) = Len(bus["src"])
        /\ \A x \in Buses \ {"src"} : bus'[x] = bus[x]
        /\ \A c \in 1..Len(bus["src"]) : c # at[p] => bus'["src"][c] = bus["src"][c]
    BY <1>2, <2>1, <2>2, FinishEffect, Zenon
  <2> QED
    BY <2>2, <2>3
<1>5. /\ pc'[p] = "loop"
      /\ \A u \in Threads \ {p} : pc'[u] = pc[u]
      /\ \A u \in Producers \cup {Relay} : u # p => at'[u] = at[u]
  BY <1>1 DEF Finish, Goto, Threads
<1>6. pc'[Relay] = pc[Relay] /\ at'[Relay] = at[Relay]
  BY <1>5
<1>7. ClaimShape'
  <2>1. /\ DOMAIN bus["src"] = 1..Len(bus["src"])
        /\ DOMAIN bus'["src"] = 1..Len(bus["src"])
    <3>1. bus'["src"] \in Seq(Entry)
      BY <1>4 DEF Grows
    <3> QED
      BY <1>4, <3>1, BusType
  <2>2. ASSUME NEW q \in Producers, pc'[q] = "publish"
        PROVE  /\ at'[q] = at[q] /\ pc[q] = "publish" /\ at[q] # at[p]
               /\ at[q] \in 1..Len(bus["src"]) /\ ~bus["src"][at[q]].done
    BY <1>1, <1>5, <2>1, <2>2 DEF ClaimShape, Threads
  <2>3. ASSUME NEW q \in Producers
        PROVE  /\ pc'[q] \in {"loop", "publish", "done"}
               /\ pc'[q] = "publish" =>
                    at'[q] \in DOMAIN bus'["src"] /\ ~bus'["src"][at'[q]].done
    <3>1. pc'[q] \in {"loop", "publish", "done"}
      BY <1>5 DEF ClaimShape, Threads
    <3> QED
      BY <1>4, <2>1, <2>2, <3>1
  <2>4. \A q, r \in Producers :
          q # r /\ pc'[q] = "publish" /\ pc'[r] = "publish" => at'[q] # at'[r]
    BY <2>2 DEF ClaimShape
  <2> QED
    BY <1>4, <1>6, <2>3, <2>4 DEF ClaimShape
<1>8. RelayShape' /\ Counted' /\ InHand' = InHand
  BY <1>1, <1>4, <1>6 DEF RelayShape, Counted, InHand, Newest, Fits
<1>9. InOrder'
  BY <1>1, <1>4, <1>8, OrderKept
<1> QED
  BY <1>3, <1>7, <1>8, <1>9

\* A reader that takes the next message has it, and its cursor is past it.
LEMMA ReceiveEffect ==
  ASSUME TypeOK, ReaderShape, NEW r \in Readers, Receive(r), bus' = bus,
         \A q \in Readers : pc'[q] \in Outside <=> pc[q] \in Outside,
         \A s \in Subs : pc'[s] \in {"start", "join", "loop", "done"}
  PROVE  /\ got' \in [Readers -> Seq(Msgs)] /\ pos' \in [Readers -> Int]
         /\ \A q \in Readers : pos'[q] \in -1..Len(bus[On[q]])
         /\ \A q \in Readers : q # r => got'[q] = got[q]
         /\ Len(got'[r]) = Len(got[r]) + 1
         /\ \A j \in 1..Len(got[r]) : got'[r][j] = got[r][j]
         /\ got'[r][Len(got[r]) + 1] = bus[On[r]][pos[r] + 1].msg
         /\ pos[r] + 1 \in DOMAIN bus[On[r]]
         /\ ReaderShape' /\ NotLapped'
<1> DEFINE m == bus[On[r]][pos[r] + 1].msg
<1>1. /\ pc[r] = "loop" /\ pos[r] + 1 \in 1..Len(bus[On[r]]) /\ m \in Msgs
      /\ pos[r] \in Nat /\ On[r] \in Buses /\ got[r] \in Seq(Msgs)
      /\ Len(bus[On[r]]) \in Nat /\ DOMAIN bus[On[r]] = 1..Len(bus[On[r]])
  <2>1. On[r] \in Buses /\ got[r] \in Seq(Msgs) /\ pos[r] \in -1..Len(bus[On[r]])
    BY Typed DEF TypeOK
  <2>2. pos[r] # -1 /\ pc[r] = "loop" /\ pos[r] + 1 \in DOMAIN bus[On[r]]
    BY DEF Receive, Waiting, ReaderShape, Attached
  <2> QED
    BY <2>1, <2>2, BusType
<1> HIDE DEF m
<1>2. pos' = [pos EXCEPT ![r] = pos[r] + 1] /\ got' = [got EXCEPT ![r] = Append(got[r], m)]
  BY DEF Receive, m
<1>3. /\ pos' \in [Readers -> Int] /\ got' \in [Readers -> Seq(Msgs)]
      /\ pos'[r] = pos[r] + 1 /\ got'[r] = Append(got[r], m)
      /\ \A q \in Readers : q # r => got'[q] = got[q] /\ pos'[q] = pos[q]
  BY <1>1, <1>2, Typed
<1>4. /\ Len(got'[r]) = Len(got[r]) + 1 /\ Len(got[r]) \in Nat
      /\ \A j \in 1..Len(got[r]) : got'[r][j] = got[r][j]
      /\ got'[r][Len(got[r]) + 1] = m /\ DOMAIN got'[r] = 1..Len(got[r]) + 1
  BY <1>1, <1>3
<1>5. \A q \in Readers : pos'[q] \in -1..Len(bus[On[q]])
  <2> SUFFICES ASSUME NEW q \in Readers PROVE pos'[q] \in -1..Len(bus[On[q]])
    OBVIOUS
  <2>1. CASE q = r
    BY <1>1, <1>3, <2>1
  <2>2. CASE q # r
    BY <1>3, <2>2 DEF TypeOK
  <2> QED
    BY <2>1, <2>2
<1>6. ReaderShape'
  <2> DEFINE Shape(q) ==
        /\ Attached(q) <=> pc[q] \notin Outside
        /\ ~Attached(q) => got[q] = <<>>
        /\ Attached(q) => Len(got[q]) <= pos[q]
        /\ \A j \in DOMAIN got[q] : got[q][j] = bus[On[q]][pos[q] - Len(got[q]) + j].msg
  <2>1. \A q \in Readers : Shape(q)
    BY DEF ReaderShape
  <2>2. ASSUME NEW q \in Readers, q # r PROVE Shape(q)'
    <3>1. got'[q] = got[q] /\ pos'[q] = pos[q]
      BY <1>3, <2>2
    <3> QED
      BY <2>1, <3>1 DEF Attached
  <2>3. Shape(r)'
    <3>1. /\ Attached(r) /\ Attached(r)' /\ pc'[r] \notin Outside
          /\ Len(got[r]) <= pos[r] /\ Len(got'[r]) <= pos'[r]
      BY <1>1, <1>3, <1>4, <2>1 DEF Attached
    <3>2. ASSUME NEW j \in DOMAIN got'[r]
          PROVE  got'[r][j] = bus[On[r]][pos'[r] - Len(got'[r]) + j].msg
      <4>1. pos'[r] - Len(got'[r]) + j = pos[r] - Len(got[r]) + j /\ j \in 1..Len(got[r]) + 1
        <5>1. j \in 1..Len(got[r]) + 1
          BY <1>4, <3>2
        <5>2. /\ pos'[r] = pos[r] + 1 /\ Len(got'[r]) = Len(got[r]) + 1
              /\ pos[r] \in Nat /\ Len(got[r]) \in Nat /\ j \in Nat
          BY <1>1, <1>3, <1>4, <5>1
        <5> QED
          BY <5>1, <5>2
      <4>2. CASE j \in 1..Len(got[r])
        <5>1. DOMAIN got[r] = 1..Len(got[r])
          BY <1>1
        <5>2. got[r][j] = bus[On[r]][pos[r] - Len(got[r]) + j].msg
          BY <2>1, <4>2, <5>1
        <5> QED
          BY <1>4, <4>1, <4>2, <5>2
      <4>3. CASE j = Len(got[r]) + 1
        <5>1. pos[r] - Len(got[r]) + j = pos[r] + 1
          BY <1>1, <1>4, <4>3
        <5> QED
          BY <1>4, <4>1, <4>3, <5>1 DEF m
      <4> QED
        BY <1>4, <4>1, <4>2, <4>3
    <3> QED
      BY <3>1, <3>2
  <2>4. \A q \in Readers : Shape(q)'
    BY <2>2, <2>3
  <2> QED
    BY <2>4 DEF ReaderShape
<1>7. NotLapped'
  <2> SUFFICES ASSUME NEW b \in Buses, NEW c \in DOMAIN bus[b], bus[b][c].done,
                      NEW q \in Readers, On[q] = b, pos'[q] # -1
               PROVE  c <= pos'[q] + Cap[b]
    BY DEF TypeOK, NotLapped, ReadersOf, Attached
  <2>1. pos[q] # -1 /\ pos'[q] \in Int /\ pos[q] \in Int /\ pos'[q] >= pos[q]
    <3>1. CASE q = r
      BY <1>1, <1>3, <3>1
    <3>2. CASE q # r
      BY <1>3, <3>2, Typed
    <3> QED
      BY <3>1, <3>2
  <2>2. c <= pos[q] + Cap[b]
    BY <2>1 DEF TypeOK, NotLapped, ReadersOf, Attached
  <2>3. c \in Nat /\ Cap[b] \in Nat
    BY BusType, SizesAssumption
  <2> QED
    BY <2>1, <2>2, <2>3
<1> QED
  BY <1>1, <1>3, <1>4, <1>5, <1>6, <1>7 DEF m

LEMMA ConsumeStep ==
  ASSUME PipeInv, NEW s \in Subs, Consume(s)
  PROVE  PipeInv'
<1> USE Typed DEF PipeInv
<1>1. s \in Readers /\ Receive(s) /\ s # Relay /\ UNCHANGED <<bus, pc, at, sent, fwd, dropped>>
  BY ThreadAssumption DEF Consume, Receive, Readers
<1>2. \A q \in Subs : pc'[q] \in {"start", "join", "loop", "done"}
  BY <1>1 DEF ReaderShape
<1>3. /\ got' \in [Readers -> Seq(Msgs)] /\ pos' \in [Readers -> Int]
      /\ \A q \in Readers : pos'[q] \in -1..Len(bus[On[q]])
      /\ got'[Relay] = got[Relay] /\ ReaderShape' /\ NotLapped'
  BY <1>1, <1>2, ReceiveEffect
<1>4. TypeOK'
  BY <1>1, <1>3 DEF TypeOK
<1>5. ClaimShape'
  BY <1>1 DEF ClaimShape
<1>6. RelayShape' /\ Counted' /\ InOrder'
  BY <1>1, <1>3, RelayKept
<1> QED
  BY <1>3, <1>4, <1>5, <1>6

LEMMA JoinStep ==
  ASSUME PipeInv, NEW r \in Readers, Join(r)
  PROVE  PipeInv'
<1> USE Typed DEF PipeInv
<1>1. PICK k \in 0..Len(bus[On[r]]) :
        /\ \A c \in DOMAIN bus[On[r]] :
             IF c <= k THEN bus[On[r]][c].done
             ELSE bus[On[r]][c].done => c <= k + Cap[On[r]]
        /\ pos' = [pos EXCEPT ![r] = k]
  BY DEF Join
<1>2. /\ pc[r] = "join" /\ On[r] \in Buses /\ r \in Threads /\ Len(bus[On[r]]) \in Nat
      /\ pc' = [pc EXCEPT ![r] = "loop"] /\ UNCHANGED <<bus, got, at, sent, fwd, dropped>>
  BY BusType DEF Join, Goto, Threads
<1>3. /\ pos' \in [Readers -> Int] /\ pos'[r] = k /\ k \in Nat
      /\ \A q \in Readers : q # r => pos'[q] = pos[q]
      /\ pc' \in [Threads -> Pcs] /\ pc'[r] = "loop"
      /\ \A u \in Threads : u # r => pc'[u] = pc[u]
  BY <1>1, <1>2
<1>4. NotLapped'
  <2> SUFFICES ASSUME NEW b \in Buses, NEW c \in DOMAIN bus[b], bus[b][c].done,
                      NEW q \in Readers, On[q] = b, pos'[q] # -1
               PROVE  c <= pos'[q] + Cap[b]
    BY <1>2 DEF TypeOK, NotLapped, ReadersOf, Attached
  <2>1. CASE q = r
    <3>1. c \in Nat /\ Cap[b] \in Nat
      <4>1. DOMAIN bus[b] = 1..Len(bus[b]) /\ Len(bus[b]) \in Nat
        BY BusType
      <4> QED
        BY <4>1, SizesAssumption
    <3> QED
      BY <1>1, <1>3, <2>1, <3>1
  <2>2. CASE q # r
    BY <1>3, <2>2 DEF TypeOK, NotLapped, ReadersOf, Attached
  <2> QED
    BY <2>1, <2>2
<1>5. TypeOK'
  <2>1. ASSUME NEW q \in Readers PROVE pos'[q] \in -1..Len(bus[On[q]])
    <3>1. CASE q = r
      BY <1>2, <1>3, <3>1
    <3>2. CASE q # r
      BY <1>3, <3>2 DEF TypeOK
    <3> QED
      BY <3>1, <3>2
  <2> QED
    BY <1>2, <1>3, <1>4, <2>1 DEF TypeOK, Threads
<1>6. ReaderShape'
  <2>1. got[r] = <<>> /\ Len(<<>>) = 0 /\ DOMAIN <<>> = {}
    BY <1>2 DEF ReaderShape, Attached
  <2>2. \A s \in Subs : pc'[s] \in {"start", "join", "loop", "done"}
    BY <1>3 DEF ReaderShape, Threads, Readers
  <2>3. ASSUME NEW q \in Readers
        PROVE  /\ pos'[q] # -1 <=> pc'[q] \notin Outside
               /\ pos'[q] = -1 => got[q] = <<>>
               /\ pos'[q] # -1 => Len(got[q]) <= pos'[q]
               /\ \A j \in DOMAIN got[q] :
                    got[q][j] = bus[On[q]][pos'[q] - Len(got[q]) + j].msg
    <3>1. CASE q = r
      BY <1>3, <2>1, <3>1
    <3>2. CASE q # r
      <4>1. pos'[q] = pos[q] /\ pc'[q] = pc[q]
        BY <1>3, <3>2 DEF Threads
      <4> QED
        BY <4>1 DEF ReaderShape, Attached
    <3> QED
      BY <3>1, <3>2
  <2> QED
    BY <1>2, <2>2, <2>3 DEF ReaderShape, Attached
<1>7. /\ pc'[Relay] = "publish" <=> pc[Relay] = "publish"
      /\ pc'[Relay] = "begin" <=> pc[Relay] = "begin"
      /\ \A p \in Producers : pc'[p] = pc[p]
  BY <1>2, <1>3, ThreadAssumption DEF Threads, Readers
<1>8. ClaimShape'
  BY <1>2, <1>7 DEF ClaimShape
<1>9. RelayShape' /\ Counted' /\ InOrder'
  BY <1>2, <1>7, RelayKept
<1> QED
  BY <1>5, <1>6, <1>8, <1>9

LEMMA StopStep ==
  ASSUME PipeInv, NEW t \in Threads, Stop(t)
  PROVE  PipeInv'
<1> USE Typed DEF PipeInv
<1>1. /\ pc[t] = "loop" /\ pc' = [pc EXCEPT ![t] = "done"]
      /\ UNCHANGED <<bus, pos, got, at, sent, fwd, dropped>>
  BY DEF Stop, Goto
<1>2. /\ pc' \in [Threads -> Pcs] /\ pc'[t] = "done"
      /\ \A u \in Threads : u # t => pc'[u] = pc[u]
  BY <1>1
<1>3. \A u \in Threads : \A l \in {"start", "join", "begin", "publish"} : pc'[u] = l <=> pc[u] = l
  BY <1>1, <1>2
<1>4. /\ TypeOK'
  BY <1>1, <1>2 DEF TypeOK, NotLapped, ReadersOf, Attached, Threads
<1>5. ClaimShape'
  <2>1. \A p \in Producers : /\ pc'[p] \in {"loop", "publish", "done"}
                            /\ pc'[p] = "publish" <=> pc[p] = "publish"
    BY <1>2, <1>3 DEF ClaimShape, Threads
  <2> QED
    BY <1>1, <1>3, <2>1 DEF ClaimShape
<1>6. ReaderShape'
  <2>1. \A s \in Subs : pc'[s] \in {"start", "join", "loop", "done"}
    BY <1>2 DEF ReaderShape, Threads, Readers
  <2>2. \A r \in Readers : pc'[r] \in Outside <=> pc[r] \in Outside
    BY <1>3 DEF Threads
  <2> QED
    BY <1>1, <2>1, <2>2 DEF ReaderShape, Attached
<1>7. RelayShape' /\ Counted' /\ InOrder'
  <2>1. pc'[Relay] = "publish" <=> pc[Relay] = "publish"
    BY <1>3
  <2>2. pc'[Relay] = "begin" <=> pc[Relay] = "begin"
    BY <1>3
  <2> QED
    BY <1>1, <2>1, <2>2, RelayKept
<1> QED
  BY <1>4, <1>5, <1>6, <1>7

\* Enrolling changes nothing but where the reader is.
LEMMA SubscribeStep ==
  ASSUME PipeInv, NEW r \in Readers, Subscribe(r)
  PROVE  PipeInv'
<1> USE Typed DEF PipeInv
<1>1. /\ pc[r] = "start" /\ pc' = [pc EXCEPT ![r] = "join"] /\ r \in Threads
      /\ r \notin Producers /\ UNCHANGED <<bus, pos, got, at, sent, fwd, dropped>>
  BY ThreadAssumption DEF Subscribe, Goto, Threads, Readers
<1>2. /\ pc' \in [Threads -> Pcs] /\ pc'[r] = "join"
      /\ \A u \in Threads : u # r => pc'[u] = pc[u]
  BY <1>1
<1>3. \A u \in Threads : \A l \in {"begin", "publish"} : pc'[u] = l <=> pc[u] = l
  BY <1>1, <1>2
<1>4. TypeOK'
  BY <1>1, <1>2 DEF TypeOK, NotLapped, ReadersOf, Attached, Threads
<1>5. ClaimShape'
  <2>1. \A p \in Producers : pc'[p] = pc[p]
    BY <1>1, <1>2 DEF Threads
  <2> QED
    BY <1>1, <1>3, <2>1 DEF ClaimShape
<1>6. ReaderShape'
  <2>1. \A s \in Subs : pc'[s] \in {"start", "join", "loop", "done"}
    BY <1>2 DEF ReaderShape, Threads, Readers
  <2>2. \A q \in Readers : pc'[q] \in Outside <=> pc[q] \in Outside
    BY <1>1, <1>2 DEF Threads
  <2> QED
    BY <1>1, <2>1, <2>2 DEF ReaderShape, Attached
<1>7. RelayShape' /\ Counted' /\ InOrder'
  <2>1. pc'[Relay] = "publish" <=> pc[Relay] = "publish"
    BY <1>3
  <2>2. pc'[Relay] = "begin" <=> pc[Relay] = "begin"
    BY <1>3
  <2> QED
    BY <1>1, <2>1, <2>2, RelayKept
<1> QED
  BY <1>4, <1>5, <1>6, <1>7

LEMMA TakeStep ==
  ASSUME PipeInv, RelayTake
  PROVE  PipeInv'
<1> USE Typed DEF PipeInv
<1> DEFINE m == bus["src"][pos[Relay] + 1].msg
           L == Len(got[Relay])
           N == Len(bus["dst"])
<1>1. /\ Receive(Relay) /\ pc[Relay] = "loop" /\ UNCHANGED <<bus, at, sent, fwd>>
      /\ \/ Fits(m) /\ pc' = [pc EXCEPT ![Relay] = "begin"] /\ dropped' = dropped
         \/ ~Fits(m) /\ pc' = pc /\ dropped' = dropped + 1
  BY DEF RelayTake, Receive, Goto
<1>2. /\ pc' \in [Threads -> Pcs]
      /\ pc'[Relay] = (IF Fits(m) THEN "begin" ELSE "loop")
      /\ \A u \in Threads : u # Relay => pc'[u] = pc[u]
  BY <1>1
<1>3. /\ got' \in [Readers -> Seq(Msgs)] /\ pos' \in [Readers -> Int]
      /\ \A q \in Readers : pos'[q] \in -1..Len(bus[On[q]])
      /\ Len(got'[Relay]) = L + 1 /\ \A j \in 1..L : got'[Relay][j] = got[Relay][j]
      /\ got'[Relay][L + 1] = m
      /\ ReaderShape' /\ NotLapped'
  <2>1. \A q \in Readers : pc'[q] \in Outside <=> pc[q] \in Outside
    BY <1>1, <1>2 DEF Threads
  <2>2. \A s \in Subs : pc'[s] \in {"start", "join", "loop", "done"}
    BY <1>2 DEF ReaderShape, Threads, Readers
  <2> QED
    BY <1>1, <2>1, <2>2, ReceiveEffect
<1>4. L \in Nat /\ N \in Nat /\ DOMAIN bus["dst"] = 1..N
      /\ DOMAIN got[Relay] = 1..L /\ DOMAIN got'[Relay] = 1..L+1
  <2>1. got[Relay] \in Seq(Msgs) /\ got'[Relay] \in Seq(Msgs)
    BY <1>3
  <2> QED
    BY <1>3, <2>1, BusType
<1> HIDE DEF m, L, N
<1>5. TypeOK'
  <2>1. dropped' \in Nat
    BY <1>1
  <2> QED
    BY <1>1, <1>2, <1>3, <2>1 DEF TypeOK, Threads
<1>6. ClaimShape'
  <2>1. \A p \in Producers : pc'[p] = pc[p]
    BY <1>2 DEF Threads
  <2> QED
    BY <1>1, <1>2, <2>1 DEF ClaimShape
<1>7. RelayShape'
  <2>1. pc[Relay] # "publish" /\ pc'[Relay] # "publish"
    BY <1>1, <1>2
  <2>2. pc'[Relay] = "begin" => got'[Relay] # <<>> /\ Fits(got'[Relay][Len(got'[Relay])])
    BY <1>2, <1>3, <1>4 DEF Fits
  <2> QED
    BY <1>1, <2>1, <2>2 DEF RelayShape, Newest, Fits
<1>8. Counted'
  BY <1>1, <1>2, <1>3, <1>4 DEF Counted, L
<1>9. InOrder'
  <2>1. PICK f \in [1..N -> 1..L] : Forwards(f)
    BY <1>1, <1>4 DEF InOrder, InHand, N
  <2>2. /\ \A c, d \in 1..N : c < d => f[c] < f[d]
        /\ \A j \in 1..L : Fits(got[Relay][j]) <=> \E c \in 1..N : f[c] = j
        /\ \A c \in 1..N : bus["dst"][c].msg = got[Relay][f[c]]
    BY <1>4, <2>1 DEF Forwards
  <2>3. CASE Fits(m)
    <3>1. PICK g \in [1..N+1 -> 1..L+1] :
            g[N + 1] = L + 1 /\ \A c \in 1..N : g[c] = f[c] /\ f[c] \in 1..L
      <4> DEFINE e == [c \in 1..N+1 |-> IF c = N + 1 THEN L + 1 ELSE f[c]]
      <4>1. e \in [1..N+1 -> 1..L+1]
        BY <1>4, <2>1
      <4>2. e[N + 1] = L + 1 /\ \A c \in 1..N : e[c] = f[c] /\ f[c] \in 1..L
        BY <1>4, <2>1
      <4> QED
        BY <4>1, <4>2
    <3>2. DOMAIN g = 1..N+1
      OBVIOUS
    <3>3. \A c, d \in 1..N+1 : c < d => g[c] < g[d]
      <4> SUFFICES ASSUME NEW c \in 1..N+1, NEW d \in 1..N+1, c < d PROVE g[c] < g[d]
        OBVIOUS
      <4>1. c \in 1..N
        BY <1>4
      <4>2. CASE d = N + 1
        BY <1>4, <3>1, <4>1, <4>2
      <4>3. CASE d \in 1..N
        BY <2>2, <3>1, <4>1, <4>3
      <4> QED
        BY <1>4, <4>2, <4>3
    <3>4. ASSUME NEW j \in 1..L+1
          PROVE  Fits(got'[Relay][j]) <=> \E c \in 1..N+1 : g[c] = j
      <4>1. CASE j = L + 1
        <5>1. N + 1 \in 1..N+1
          BY <1>4
        <5> QED
          BY <1>3, <2>3, <3>1, <4>1, <5>1 DEF Fits
      <4>2. CASE j \in 1..L
        <5>1. j # L + 1
          BY <1>4, <4>2
        <5>2. (\E c \in 1..N+1 : g[c] = j) <=> \E c \in 1..N : f[c] = j
          <6>1. \A c \in 1..N+1 : c \in 1..N \/ c = N + 1
            BY <1>4
          <6>2. \A c \in 1..N : c \in 1..N+1
            BY <1>4
          <6> QED
            BY <3>1, <5>1, <6>1, <6>2
        <5> QED
          BY <1>3, <2>2, <4>2, <5>2 DEF Fits
      <4> QED
        BY <1>4, <4>1, <4>2
    <3>5. \A c \in 1..N : bus["dst"][c].msg = got'[Relay][g[c]]
      BY <1>3, <2>2, <3>1
    <3>6. Forwards(g)'
      <4>1. DOMAIN bus'["dst"] = 1..N /\ bus'["dst"] = bus["dst"]
        BY <1>1, <1>4
      <4> QED
        BY <1>4, <3>2, <3>3, <3>4, <3>5, <4>1 DEF Forwards, Fits
    <3>7. g \in [1..Len(bus'["dst"]) + InHand' -> DOMAIN got'[Relay]]
      BY <1>1, <1>2, <1>4, <2>3, <3>1 DEF InHand, N
    <3> QED
      BY <3>6, <3>7 DEF InOrder
  <2>4. CASE ~Fits(m)
    <3>1. ASSUME NEW j \in 1..L+1
          PROVE  Fits(got'[Relay][j]) <=> \E c \in 1..N : f[c] = j
      <4>1. CASE j = L + 1
        <5>1. \A c \in 1..N : f[c] # L + 1
          BY <1>4
        <5> QED
          BY <1>3, <2>4, <4>1, <5>1 DEF Fits
      <4>2. CASE j \in 1..L
        BY <1>3, <2>2, <4>2 DEF Fits
      <4> QED
        BY <1>4, <4>1, <4>2
    <3>2. \A c \in 1..N : bus["dst"][c].msg = got'[Relay][f[c]]
      BY <1>3, <2>2
    <3>3. Forwards(f)'
      <4>1. DOMAIN bus'["dst"] = 1..N /\ bus'["dst"] = bus["dst"] /\ DOMAIN f = 1..N
        BY <1>1, <1>4
      <4> QED
        BY <1>4, <2>2, <3>1, <3>2, <4>1 DEF Forwards, Fits
    <3>4. f \in [1..Len(bus'["dst"]) + InHand' -> DOMAIN got'[Relay]]
      <4>1. \A j \in 1..L : j \in 1..L+1
        BY <1>4
      <4>2. Len(bus'["dst"]) + InHand' = N
        BY <1>1, <1>2, <1>4, <2>4 DEF InHand, N
      <4> QED
        BY <1>4, <2>1, <4>1, <4>2
    <3> QED
      BY <3>3, <3>4 DEF InOrder
  <2> QED
    BY <2>3, <2>4
<1> QED
  BY <1>3, <1>5, <1>6, <1>7, <1>8, <1>9

LEMMA RelayPublishStep ==
  ASSUME PipeInv, RelayPublish
  PROVE  PipeInv'
<1> USE Typed DEF PipeInv
<1> DEFINE m == Newest(Relay)
           L == Len(got[Relay])
           N == Len(bus["dst"])
<1>1. /\ pc[Relay] = "begin" /\ Begin(Relay, "dst", m)
      /\ UNCHANGED <<pos, got, sent, fwd, dropped>>
  BY DEF RelayPublish
<1>2. /\ L \in Nat \ {0} /\ N \in Nat /\ m = got[Relay][L] /\ m \in Msgs /\ Fits(m)
      /\ DOMAIN got[Relay] = 1..L /\ L \in 1..L
  <2>1. got[Relay] \in Seq(Msgs) /\ got[Relay] # <<>> /\ Fits(m)
    BY <1>1 DEF RelayShape
  <2> QED
    BY <2>1, BusType DEF Newest
<1>3. MsgLen[m] \in 1..Slot["dst"]
  <2>1. MsgLen[m] \in Nat /\ Slot["dst"] \in Nat /\ MsgLen[m] <= Slot["dst"]
    BY <1>2, SizesAssumption DEF Fits
  <2>2. m = bus["src"][pos[Relay] - L + L].msg /\ L <= pos[Relay] /\ pos[Relay] \in -1..Len(bus["src"])
    <3>1. /\ got[Relay] # <<>>
          /\ got[Relay][L] = bus[On[Relay]][pos[Relay] - Len(got[Relay]) + L].msg
      BY <1>1, <1>2 DEF ReaderShape, RelayShape
    <3>2. Len(got[Relay]) <= pos[Relay]
      BY <3>1 DEF ReaderShape
    <3> QED
      BY <1>2, <3>1, <3>2 DEF TypeOK
  <2>3. pos[Relay] - L + L = pos[Relay] /\ pos[Relay] \in 1..Len(bus["src"])
    BY <1>2, <2>2
  <2>4. pos[Relay] \in DOMAIN bus["src"]
    BY <2>3, BusType
  <2>5. MsgLen[m] \in 1..Slot["src"]
    BY <2>2, <2>3, <2>4 DEF TypeOK
  <2> QED
    BY <2>1, <2>5
<1>4. TypeOK' /\ ReaderShape'
  BY <1>1, <1>2, <1>3, BeginType
<1>5. /\ bus'["src"] = bus["src"] /\ bus'["dst"] \in Seq(Entry) /\ Len(bus'["dst"]) = N + 1
      /\ \A c \in 1..N : bus'["dst"][c] = bus["dst"][c]
      /\ bus'["dst"][N + 1].msg = m /\ ~bus'["dst"][N + 1].done
  <2>1. bus' = [bus EXCEPT !["dst"] = Append(@, [msg |-> m, done |-> FALSE])]
    BY <1>1 DEF Begin
  <2>2. "src" \in Buses \ {"dst"} /\ "dst" \in Buses
    BY DEF Buses
  <2>3. /\ Grows /\ bus'["src"] = bus["src"] /\ Len(bus'["dst"]) = N + 1
        /\ \A c \in 1..N : bus'["dst"][c] = bus["dst"][c]
        /\ bus'["dst"][N + 1].msg = m /\ ~bus'["dst"][N + 1].done
    BY <1>2, <2>1, <2>2, BeginEffect
  <2> QED
    BY <2>2, <2>3 DEF Grows
<1>6. /\ pc'[Relay] = "publish" /\ at'[Relay] = N + 1
      /\ \A u \in Threads : u # Relay => pc'[u] = pc[u]
      /\ \A p \in Producers : at'[p] = at[p]
  BY <1>1 DEF Begin, Goto
<1>7. DOMAIN bus["dst"] = 1..N /\ DOMAIN bus'["dst"] = 1..N+1
  BY <1>2, <1>5, BusType
<1> HIDE DEF m, L, N
<1>8. ClaimShape'
  <2>1. \A p \in Producers : pc'[p] = pc[p] /\ at'[p] = at[p]
    BY <1>6 DEF Threads
  <2>2. N + 1 \in DOMAIN bus'["dst"]
    BY <1>2, <1>7
  <2> QED
    BY <1>5, <1>6, <2>1, <2>2, ClaimsKept
<1>9. RelayShape'
  BY <1>1, <1>5, <1>6 DEF RelayShape, N
<1>10. Counted'
  BY <1>1, <1>6 DEF Counted
<1>11. InOrder'
  <2>1. PICK f \in [1..N+1 -> 1..L] : Forwards(f)
    BY <1>1, <1>2 DEF InOrder, InHand, N
  <2>2. /\ \A c, d \in 1..N+1 : c < d => f[c] < f[d]
        /\ \A j \in 1..L : Fits(got[Relay][j]) <=> \E c \in 1..N+1 : f[c] = j
        /\ \A c \in 1..N : bus["dst"][c].msg = got[Relay][f[c]]
    BY <1>2, <1>7, <2>1 DEF Forwards
  <2>3. f[N + 1] = L
    <3>1. PICK c \in 1..N+1 : f[c] = L
      BY <1>2, <2>2
    <3>2. N + 1 \in 1..N+1 /\ f[N + 1] \in 1..L
      BY <1>2
    <3>3. CASE c < N + 1
      <4>1. L < f[N + 1]
        BY <2>2, <3>1, <3>2, <3>3
      <4> QED
        BY <1>2, <3>2, <4>1
    <3>4. CASE c = N + 1
      BY <3>1, <3>4
    <3> QED
      BY <1>2, <3>3, <3>4
  <2>4. \A c \in 1..N+1 : bus'["dst"][c].msg = got[Relay][f[c]]
    <3>1. \A c \in 1..N+1 : c \in 1..N \/ c = N + 1
      BY <1>2
    <3> QED
      BY <1>2, <1>5, <2>2, <2>3, <3>1
  <2>5. Forwards(f)'
    <3>1. DOMAIN bus'["dst"] = 1..N+1 /\ got' = got /\ DOMAIN f = 1..N+1
      BY <1>1, <1>7
    <3> QED
      BY <1>2, <2>2, <2>4, <3>1 DEF Forwards, Fits
  <2>6. f \in [1..Len(bus'["dst"]) + InHand' -> DOMAIN got'[Relay]]
    <3>1. InHand' = 0 /\ Len(bus'["dst"]) + 0 = N + 1
      BY <1>2, <1>5, <1>6 DEF InHand
    <3> QED
      BY <1>1, <1>2, <2>1, <3>1
  <2> QED
    BY <2>5, <2>6 DEF InOrder
<1> QED
  BY <1>4, <1>8, <1>9, <1>10, <1>11

LEMMA RelayPublishedStep ==
  ASSUME PipeInv, RelayPublished
  PROVE  PipeInv'
<1> USE Typed DEF PipeInv
<1>1. /\ Finish(Relay, "dst") /\ pc[Relay] = "publish" /\ fwd' = fwd + 1
      /\ UNCHANGED <<pos, got, sent, dropped>>
  BY DEF RelayPublished, Finish
<1>2. at[Relay] \in DOMAIN bus["dst"] /\ at[Relay] \in 1..Len(bus["dst"])
  BY <1>1, BusType DEF ClaimShape
<1>3. TypeOK' /\ ReaderShape'
  <2>1. fwd' \in Nat
    BY <1>1
  <2> QED
    BY <1>1, <1>2, <2>1, FinishType
<1>4. Grows /\ bus'["src"] = bus["src"] /\ Len(bus'["dst"]) = Len(bus["dst"])
  <2>1. bus' = [bus EXCEPT !["dst"][at[Relay]].done = TRUE]
    BY <1>1 DEF Finish
  <2>2. "src" \in Buses \ {"dst"} /\ "dst" \in Buses
    BY DEF Buses
  <2> QED
    BY <1>2, <2>1, <2>2, FinishEffect
<1>5. /\ pc'[Relay] = "loop" /\ \A u \in Threads : u # Relay => pc'[u] = pc[u]
      /\ \A p \in Producers : at'[p] = at[p]
  BY <1>1 DEF Finish, Goto
<1>6. ClaimShape'
  <2>1. \A p \in Producers : pc'[p] = pc[p] /\ at'[p] = at[p]
    BY <1>5 DEF Threads
  <2> QED
    BY <1>4, <1>5, <2>1, ClaimsKept
<1>7. RelayShape' /\ Counted' /\ InHand' = InHand
  BY <1>1, <1>4, <1>5 DEF RelayShape, Counted, InHand
<1>8. InOrder'
  BY <1>1, <1>4, <1>7, OrderKept
<1> QED
  BY <1>3, <1>6, <1>7, <1>8

LEMMA InitPipe == Init => PipeInv
<1> SUFFICES ASSUME Init PROVE PipeInv
  OBVIOUS
<1>1. /\ bus = [b \in Buses |-> <<>>] /\ got = [r \in Readers |-> <<>>]
      /\ pos = [r \in Readers |-> -1]
      /\ pc = [t \in Threads |-> IF t \in Producers THEN "loop" ELSE "start"]
      /\ fwd = 0 /\ dropped = 0 /\ Relay \in Readers /\ Relay \notin Producers
      /\ "dst" \in Buses /\ "src" \in Buses
  BY ThreadAssumption DEF Init, Readers, Buses, Threads
<1>2. /\ Len(<<>>) = 0 /\ DOMAIN <<>> = {} /\ <<>> \in Seq(Entry) /\ <<>> \in Seq(Msgs)
  OBVIOUS
<1>3. /\ \A b \in Buses : bus[b] = <<>>
      /\ \A r \in Readers : got[r] = <<>> /\ pos[r] = -1 /\ r \in Threads
      /\ \A p \in Producers : pc[p] = "loop" /\ p \in Threads
      /\ \A r \in Readers : pc[r] = "start"
  BY <1>1, ThreadAssumption DEF Threads, Readers
<1>4. TypeOK
  <2>1. pc \in [Threads -> Pcs]
    BY <1>1
  <2>2. \A r \in Readers : On[r] \in Buses /\ pos[r] \in -1..Len(bus[On[r]])
    BY <1>2, <1>3, ThreadAssumption
  <2>3. NotLapped
    BY <1>2, <1>3 DEF NotLapped
  <2>4. bus \in [Buses -> Seq(Entry)] /\ pos \in [Readers -> Int] /\ got \in [Readers -> Seq(Msgs)]
    BY <1>1, <1>2
  <2>5. at \in [Producers \cup {Relay} -> Nat] /\ sent \in [Producers -> Nat]
    BY DEF Init
  <2> QED
    BY <1>1, <1>2, <1>3, <2>1, <2>2, <2>3, <2>4, <2>5 DEF TypeOK, Entry, Threads
<1>5. ClaimShape
  BY <1>1, <1>3 DEF ClaimShape
<1>6. ReaderShape
  BY <1>2, <1>3 DEF ReaderShape, Attached, Readers
<1>7. RelayShape /\ Counted
  <2>1. /\ pc[Relay] = "start" /\ Len(bus["dst"]) = 0 /\ Len(got[Relay]) = 0
        /\ fwd = 0 /\ dropped = 0
    BY <1>1, <1>2, <1>3
  <2> QED
    BY <2>1 DEF RelayShape, Counted
<1>8. InOrder
  <2>1. bus["dst"] = <<>> /\ got[Relay] = <<>> /\ InHand = 0
    BY <1>1, <1>3 DEF InHand
  <2> DEFINE f == [c \in {} |-> c]
  <2>2. 1..Len(bus["dst"]) + InHand = {}
    BY <1>2, <2>1
  <2>3. f \in [1..Len(bus["dst"]) + InHand -> DOMAIN got[Relay]]
    BY <2>2
  <2>4. Forwards(f)
    BY <1>2, <2>1 DEF Forwards
  <2> QED
    BY <2>3, <2>4 DEF InOrder
<1> QED
  BY <1>4, <1>5, <1>6, <1>7, <1>8 DEF PipeInv

LEMMA NextPipe == PipeInv /\ [Next]_vars => PipeInv'
<1> SUFFICES ASSUME PipeInv, [Next]_vars PROVE PipeInv'
  OBVIOUS
<1>1. ASSUME NEW p \in Producers, ProducerStep(p) PROVE PipeInv'
  BY <1>1, ProduceStep, ProducedStep, StopStep DEF ProducerStep, Threads
<1>2. CASE RelayStep
  BY <1>2, TakeStep, RelayPublishStep, RelayPublishedStep DEF RelayStep
<1>3. ASSUME NEW r \in Readers, Subscribe(r) \/ Join(r) PROVE PipeInv'
  BY <1>3, SubscribeStep, JoinStep
<1>4. ASSUME NEW r \in Readers, Consume(r) \/ Stop(r) PROVE PipeInv'
  BY <1>4, ConsumeStep, StopStep DEF Consume, Threads
<1>5. CASE UNCHANGED vars
  <2>1. UNCHANGED <<bus, pos, got, pc, at, sent, fwd, dropped>>
    BY <1>5 DEF vars
  <2>2. TypeOK'
    BY <2>1 DEF PipeInv, TypeOK, NotLapped, ReadersOf, Attached
  <2>3. ClaimShape'
    BY <2>1 DEF PipeInv, ClaimShape
  <2>4. ReaderShape'
    BY <2>1 DEF PipeInv, ReaderShape, Attached
  <2>5. RelayShape' /\ InOrder' /\ Counted'
    BY <2>1, RelayKept DEF PipeInv
  <2> QED
    BY <2>2, <2>3, <2>4, <2>5 DEF PipeInv
<1> QED
  BY <1>1, <1>2, <1>3, <1>4, <1>5 DEF Next

(* Of the pipeline's threads and buses: who holds which claim, where each  *)
(* cursor stands in what has been received, and which claim of the         *)
(* destination carries which message of the source.                        *)
THEOREM PipeInvariant == Spec => []PipeInv
BY InitPipe, NextPipe, PTL DEF Spec

(* Counters and cursors are in range, what is on a bus fits into its slots  *)
(* (bus.rs 389-391, 537-541), and no completed message is a lap ahead of a *)
(* subscriber of its bus or of a message that is missing before it.        *)
THEOREM PipeTypeCorrect == Spec => []TypeOK
<1>1. PipeInv => TypeOK
  BY DEF PipeInv
<1> QED
  BY <1>1, PipeInvariant, PTL

(* The relay loses, repeats and reorders nothing: the destination carries  *)
(* the source's messages from the relay's first one on, less those that do *)
(* not fit, and its counters add up (bus.rs 536-551, main.rs 195-210).     *)
THEOREM ForwardingFaithful == Spec => []FaithfulForwarding
<1>1. PipeInv => FaithfulForwarding
  <2> SUFFICES ASSUME PipeInv
               PROVE  \E k \in 0..Len(bus["src"]) : \A j \in DOMAIN got[Relay] :
                        got[Relay][j] = bus["src"][k + j].msg
    BY DEF FaithfulForwarding, PipeInv
  <2>0. /\ got[Relay] \in Seq(Msgs) /\ pos[Relay] \in -1..Len(bus["src"])
        /\ Len(bus["src"]) \in Nat /\ ReaderShape /\ On[Relay] = "src" /\ Relay \in Readers
    BY Typed, BusType DEF PipeInv, TypeOK
  <2>1. CASE Attached(Relay)
    <3> DEFINE k == pos[Relay] - Len(got[Relay])
    <3>1. Len(got[Relay]) <= pos[Relay]
      BY <2>0, <2>1 DEF ReaderShape
    <3>2. k \in 0..Len(bus["src"])
      BY <2>0, <3>1
    <3>3. \A j \in DOMAIN got[Relay] : got[Relay][j] = bus["src"][k + j].msg
      BY <2>0 DEF ReaderShape
    <3> QED
      BY <3>2, <3>3
  <2>2. CASE ~Attached(Relay)
    <3>1. DOMAIN got[Relay] = {} /\ 0 \in 0..Len(bus["src"])
      BY <2>0, <2>2 DEF ReaderShape
    <3> QED
      BY <3>1
  <2> QED
    BY <2>1, <2>2
<1> QED
  BY <1>1, PipeInvariant, PTL

(* The example's assertion, once the relay has ended (pipeline.rs:139): no  *)
(* subscriber of the destination has received more than the relay counted. *)
THEOREM ReceivedForwarded == Spec => []ReceivedWasForwarded
<1>1. PipeInv => ReceivedWasForwarded
  <2> SUFFICES ASSUME PipeInv, pc[Relay] = "done", NEW s \in Subs, On[s] = "dst"
               PROVE  Len(got[s]) <= fwd
    BY DEF ReceivedWasForwarded, Done
  <2>1. Len(bus["dst"]) = fwd /\ fwd \in Nat
    BY Typed DEF PipeInv, RelayShape
  <2>2. /\ s \in Readers /\ pos[s] \in -1..Len(bus["dst"]) /\ got[s] \in Seq(Msgs)
        /\ ReaderShape
    BY Typed DEF PipeInv, TypeOK, Readers
  <2>3. CASE Attached(s)
    <3>1. Len(got[s]) <= pos[s] /\ Len(got[s]) \in Nat
      BY <2>2, <2>3 DEF ReaderShape
    <3> QED
      BY <2>1, <2>2, <3>1
  <2>4. CASE ~Attached(s)
    <3>1. Len(got[s]) = 0
      BY <2>2, <2>4 DEF ReaderShape
    <3> QED
      BY <2>1, <3>1
  <2> QED
    BY <2>3, <2>4
<1> QED
  BY <1>1, PipeInvariant, PTL

-----------------------------------------------------------------------------
(* Refinement: what the threads do with either bus is what FanoutLog says  *)
(* of it.  Fan(b) is that specification, read off bus b.                   *)

Fan(x) == INSTANCE FanoutLog WITH
            Subscribers <- ReadersOf(x), Cap <- Cap[x], entries <- bus[x],
            pos <- [r \in ReadersOf(x) |-> pos[r]], received <- Log(x)

LEMMA FanStutters ==
  ASSUME NEW b \in Buses, bus'[b] = bus[b],
         \A r \in ReadersOf(b) : pos'[r] = pos[r] /\ got'[r] = got[r]
  PROVE  UNCHANGED Fan(b)!fanVars
BY DEF Fan!fanVars, Log, ReadersOf

LEMMA BeginFans ==
  ASSUME TypeOK, NEW b \in Buses, NEW x \in Buses, NEW m \in Msgs, UNCHANGED <<pos, got>>,
         bus' = [bus EXCEPT ![x] = Append(@, [msg |-> m, done |-> FALSE])]
  PROVE  Fan(b)!FanNext \/ UNCHANGED Fan(b)!fanVars
<1>1. CASE x = b
  <2>1. bus'[b] = Append(bus[b], [msg |-> m, done |-> FALSE])
    BY <1>1, Typed
  <2>2. UNCHANGED <<[r \in ReadersOf(b) |-> pos[r]], Log(b)>>
    BY DEF Log, ReadersOf
  <2> QED
    BY <2>1, <2>2 DEF Fan!FanNext, Fan!Claim
<1>2. CASE x # b
  BY <1>2, Typed, FanStutters
<1> QED
  BY <1>1, <1>2

LEMMA FinishFans ==
  ASSUME TypeOK, ReaderShape, NEW b \in Buses, NEW x \in Buses, NEW t,
         UNCHANGED <<pos, got>>,
         Finish(t, x), at[t] \in DOMAIN bus[x], ~bus[x][at[t]].done
  PROVE  Fan(b)!FanNext \/ UNCHANGED Fan(b)!fanVars
<1>1. HasRoom(x, at[t]) /\ bus' = [bus EXCEPT ![x] = [bus[x] EXCEPT ![at[t]].done = TRUE]]
  BY DEF Finish
<1>2. CASE x = b
  <2>1. bus'[b] = [bus[b] EXCEPT ![at[t]].done = TRUE]
    BY <1>1, <1>2, Typed, Zenon
  <2>2. UNCHANGED <<[r \in ReadersOf(b) |-> pos[r]], Log(b)>>
    BY DEF Log, ReadersOf
  <2>3. \A r \in ReadersOf(b) :
          [q \in ReadersOf(b) |-> pos[q]][r] # -1 => at[t] <= [q \in ReadersOf(b) |-> pos[q]][r] + Cap[b]
    BY <1>1, <1>2, RoomBehind DEF ReadersOf, Attached
  <2> QED
    BY <1>2, <2>1, <2>2, <2>3, Zenon DEF Fan!FanNext, Fan!Complete, Fan!Attached, Fan!Detached
<1>3. CASE x # b
  <2>1. bus'[b] = bus[b]
    BY <1>1, <1>3, Typed, Zenon
  <2> QED
    BY <2>1, FanStutters
<1> QED
  BY <1>2, <1>3

LEMMA JoinFans ==
  ASSUME PipeInv, NEW b \in Buses, NEW r \in Readers, Join(r)
  PROVE  Fan(b)!FanNext \/ UNCHANGED Fan(b)!fanVars
<1>1. PICK k \in 0..Len(bus[On[r]]) :
        /\ \A c \in DOMAIN bus[On[r]] :
             IF c <= k THEN bus[On[r]][c].done
             ELSE bus[On[r]][c].done => c <= k + Cap[On[r]]
        /\ pos' = [pos EXCEPT ![r] = k]
  BY DEF Join
<1>2. bus' = bus /\ got' = got /\ pos[r] = -1 /\ TypeOK
  BY DEF Join, PipeInv, ReaderShape, Attached
<1>3. CASE On[r] = b
  <2> DEFINE q == [s \in ReadersOf(b) |-> pos[s]]
  <2>1. r \in ReadersOf(b) /\ q[r] = -1
    BY <1>2, <1>3 DEF ReadersOf
  <2>2. [s \in ReadersOf(b) |-> pos'[s]] = [q EXCEPT ![r] = k]
    BY <1>1, <1>2, Typed DEF ReadersOf
  <2>3. Log(b)' = Log(b) /\ bus'[b] = bus[b]
    BY <1>2 DEF Log, ReadersOf
  <2>4. /\ \A c \in DOMAIN bus[b] : c <= k => bus[b][c].done
        /\ \A c \in DOMAIN bus[b] : bus[b][c].done => c <= k + Cap[b]
    <3>1. DOMAIN bus[b] = 1..Len(bus[b]) /\ Len(bus[b]) \in Nat /\ Cap[b] \in Nat
      BY <1>2, BusType, SizesAssumption
    <3>2. \A c \in DOMAIN bus[b] : c <= k => bus[b][c].done
      BY <1>1, <1>3
    <3>3. \A c \in DOMAIN bus[b] : bus[b][c].done => c <= k \/ c <= k + Cap[b]
      BY <1>1, <1>3
    <3> QED
      BY <1>3, <3>1, <3>2, <3>3
  <2>5. k \in 0..Len(bus[b])
    BY <1>3
  <2> QED
    BY <2>1, <2>2, <2>3, <2>4, <2>5, Zenon DEF Fan!FanNext, Fan!Join, Fan!Attached, Fan!Detached
<1>4. CASE On[r] # b
  <2>1. \A s \in ReadersOf(b) : pos'[s] = pos[s]
    BY <1>1, <1>2, <1>4, Typed DEF ReadersOf
  <2> QED
    BY <1>2, <2>1, FanStutters
<1> QED
  BY <1>3, <1>4

LEMMA ReceiveFans ==
  ASSUME PipeInv, NEW b \in Buses, NEW r \in Readers, Receive(r), bus' = bus
  PROVE  Fan(b)!FanNext \/ UNCHANGED Fan(b)!fanVars
<1>1. /\ pos' = [pos EXCEPT ![r] = pos[r] + 1] /\ TypeOK
      /\ got' = [got EXCEPT ![r] = Append(got[r], bus[On[r]][pos[r] + 1].msg)]
      /\ pos[r] # -1 /\ pos[r] + 1 \in DOMAIN bus[On[r]] /\ bus[On[r]][pos[r] + 1].done
  BY DEF Receive, Waiting, PipeInv, ReaderShape, Attached
<1>2. CASE On[r] = b
  <2> DEFINE q == [s \in ReadersOf(b) |-> pos[s]]
  <2>1. r \in ReadersOf(b) /\ q[r] = pos[r] /\ Log(b)[r] = got[r]
    BY <1>2 DEF ReadersOf, Log
  <2>2. [s \in ReadersOf(b) |-> pos'[s]] = [q EXCEPT ![r] = q[r] + 1]
    BY <1>1, <2>1, Typed DEF ReadersOf
  <2>3. Log(b)' = [Log(b) EXCEPT ![r] = Append(Log(b)[r], bus[b][q[r] + 1].msg)]
    <3>1. \A s \in ReadersOf(b) : got'[s] =
            IF s = r THEN Append(got[r], bus[b][pos[r] + 1].msg) ELSE got[s]
      BY <1>1, <1>2, Typed DEF ReadersOf
    <3> QED
      BY <2>1, <3>1 DEF Log, ReadersOf
  <2>4. q[r] # -1 /\ q[r] + 1 \in DOMAIN bus[b] /\ bus[b][q[r] + 1].done /\ bus'[b] = bus[b]
    BY <1>1, <1>2, <2>1
  <2> QED
    BY <2>1, <2>2, <2>3, <2>4, Zenon DEF Fan!FanNext, Fan!Receive, Fan!Attached, Fan!Detached
<1>3. CASE On[r] # b
  <2>1. \A s \in ReadersOf(b) : pos'[s] = pos[s] /\ got'[s] = got[s]
    BY <1>1, <1>3, Typed DEF ReadersOf
  <2> QED
    BY <2>1, FanStutters
<1> QED
  BY <1>2, <1>3

LEMMA NextFans ==
  ASSUME PipeInv, [Next]_vars, NEW b \in Buses
  PROVE  [Fan(b)!FanNext]_(Fan(b)!fanVars)
<1>0. TypeOK /\ ClaimShape /\ ReaderShape /\ Relay \in Readers /\ "src" \in Buses /\ "dst" \in Buses
  BY Typed DEF PipeInv
<1> SUFFICES Fan(b)!FanNext \/ UNCHANGED Fan(b)!fanVars
  OBVIOUS
<1>1. ASSUME NEW p \in Producers, Produce(p)
      PROVE  Fan(b)!FanNext \/ UNCHANGED Fan(b)!fanVars
  <2>1. PICK m \in Outbox[p] : Begin(p, "src", m)
    BY <1>1 DEF Produce
  <2>2. m \in Msgs /\ UNCHANGED <<pos, got>>
    BY <1>1, SizesAssumption DEF Produce
  <2> QED
    BY <1>0, <2>1, <2>2, BeginFans DEF Begin
<1>2. ASSUME NEW p \in Producers, Produced(p)
      PROVE  Fan(b)!FanNext \/ UNCHANGED Fan(b)!fanVars
  <2>1. Finish(p, "src") /\ UNCHANGED <<pos, got>>
    BY <1>2 DEF Produced
  <2>2. at[p] \in DOMAIN bus["src"] /\ ~bus["src"][at[p]].done
    BY <1>0, <2>1 DEF Finish, ClaimShape
  <2> QED
    BY <1>0, <2>1, <2>2, FinishFans
<1>3. CASE RelayPublish
  <2>1. Begin(Relay, "dst", Newest(Relay)) /\ UNCHANGED <<pos, got>>
    BY <1>3 DEF RelayPublish
  <2>2. Newest(Relay) \in Msgs
    <3>1. got[Relay] \in Seq(Msgs) /\ got[Relay] # <<>>
      BY <1>0, <1>3, Typed DEF RelayPublish, PipeInv, RelayShape
    <3> QED
      BY <3>1 DEF Newest
  <2> QED
    BY <1>0, <2>1, <2>2, BeginFans DEF Begin
<1>4. CASE RelayPublished
  <2>1. Finish(Relay, "dst") /\ UNCHANGED <<pos, got>>
    BY <1>4 DEF RelayPublished
  <2>2. at[Relay] \in DOMAIN bus["dst"] /\ ~bus["dst"][at[Relay]].done
    BY <1>0, <2>1 DEF Finish, ClaimShape
  <2> QED
    BY <1>0, <2>1, <2>2, FinishFans
<1>5. CASE RelayTake
  BY <1>0, <1>5, ReceiveFans DEF RelayTake
<1>6. ASSUME NEW s \in Readers, Consume(s)
      PROVE  Fan(b)!FanNext \/ UNCHANGED Fan(b)!fanVars
  BY <1>6, ReceiveFans DEF Consume
<1>7. CASE \/ UNCHANGED vars \/ \E t \in Threads : Stop(t)
           \/ \E r \in Readers : Subscribe(r)
  BY <1>7, FanStutters DEF vars, Stop, Subscribe
<1> QED
  BY <1>0, <1>1, <1>2, <1>3, <1>4, <1>5, <1>6, <1>7, JoinFans
     DEF Next, ProducerStep, RelayStep, Threads

LEMMA InitFans ==
  ASSUME Init, NEW b \in Buses
  PROVE  Fan(b)!FanInit
BY DEF Init, Fan!FanInit, Fan!Detached, ReadersOf, Log

(* What the threads of src/main.rs and of the examples do with the source  *)
(* and with the destination bus keeps the promise of each: one log,        *)
(* received by every subscriber in order, nobody lapped.                   *)
THEOREM PipelineIsTwoFanouts == Spec => BothFanOut
<1> USE DEF Src!FanInit, Src!FanNext, Src!Claim, Src!Complete, Src!Join, Src!Receive,
            Src!Attached, Src!Detached, Src!fanVars,
            Dst!FanInit, Dst!FanNext, Dst!Claim, Dst!Complete, Dst!Join, Dst!Receive,
            Dst!Attached, Dst!Detached, Dst!fanVars,
            Fan!FanInit, Fan!FanNext, Fan!Claim, Fan!Complete, Fan!Join, Fan!Receive,
            Fan!Attached, Fan!Detached, Fan!fanVars
<1>1. "src" \in Buses /\ "dst" \in Buses
  BY DEF Buses
<1>2. Init => Src!FanInit /\ Dst!FanInit
  BY <1>1, InitFans
<1>3. PipeInv /\ [Next]_vars => [Src!FanNext]_(Src!fanVars)
  BY <1>1, NextFans
<1>4. PipeInv /\ [Next]_vars => [Dst!FanNext]_(Dst!fanVars)
  BY <1>1, NextFans
<1> QED
  BY <1>2, <1>3, <1>4, PipeInvariant, PTL DEF Spec, BothFanOut, Src!FanSpec, Dst!FanSpec
=============================================================================
