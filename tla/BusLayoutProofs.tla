-------------------------- MODULE BusLayoutProofs --------------------------
(* For every capacity and every size: no two parties share a byte, and all  *)
(* bytes are in the buffer.                                                *)
EXTENDS BusLayout, TLAPS

(* Rounding up never rounds down.                                          *)
LEMMA AlignUpBound ==
  ASSUME NEW x \in Nat, NEW a \in Nat \ {0}
  PROVE  AlignUp(x, a) \in Nat /\ AlignUp(x, a) >= x
<1> DEFINE q == (x + (a - 1)) \div a
           r == (x + (a - 1)) % a
<1>1. x + (a - 1) \in Nat
  OBVIOUS
<1>2. q \in Nat /\ r \in 0..a-1 /\ x + (a - 1) = a * q + r
  BY <1>1
<1>3. a * q \in Nat /\ q * a = a * q
  BY <1>2
<1>4. q * a >= x
  BY <1>2, <1>3
<1>. QED
  BY <1>3, <1>4 DEF AlignUp

(* Equal blocks at consecutive multiples of their size do not overlap.     *)
LEMMA BlocksApart ==
  ASSUME NEW base \in Nat, NEW size \in Nat, NEW n \in Nat,
         NEW k \in 0..n-1
  PROVE  /\ Block(base + k * size, size) \subseteq base..base+n*size-1
         /\ \A j \in 0..n-1 \ {k} :
              Block(base + k * size, size) \cap Block(base + j * size, size) = {}
<1>1. k * size \in Nat /\ n * size \in Nat
  OBVIOUS
<1>2. ASSUME NEW a \in Nat, NEW b \in Nat, a < b
      PROVE  a * size + size <= b * size
  <2>1. PICK d \in Nat : b = a + 1 + d
    <3>1. b - a - 1 \in Nat /\ b = a + 1 + (b - a - 1)
      BY <1>2
    <3>. QED
      BY <3>1
  <2>2. b * size = a * size + size + d * size /\ d * size \in Nat /\ a * size \in Nat
    BY <2>1
  <2>. QED
    BY <2>2
<1>3. Block(base + k * size, size) \subseteq base..base+n*size-1
  BY <1>1, <1>2 DEF Block
<1>4. ASSUME NEW j \in 0..n-1 \ {k}
      PROVE  Block(base + k * size, size) \cap Block(base + j * size, size) = {}
  <2>1. j * size \in Nat
    OBVIOUS
  <2>2. CASE j < k
    BY <2>1, <2>2, <1>1, <1>2 DEF Block
  <2>3. CASE k < j
    BY <2>1, <2>3, <1>1, <1>2 DEF Block
  <2>. QED
    BY <2>2, <2>3
<1>. QED
  BY <1>3, <1>4

(* Every pair of sizes that fits its buffer is laid out well.              *)
LEMMA FitsLaidOut ==
  ASSUME NEW cap \in Nat, NEW bytes \in Nat, NEW len \in Nat,
         MinBufferSize(cap, bytes) <= len
  PROVE  LaidOut(cap, bytes, len)
<1>1. HeaderSize \in Nat /\ SlotSize \in Nat /\ CacheLine \in Nat \ {0}
  BY LayoutAssumption
<1>2. cap * SlotSize \in Nat /\ cap * bytes \in Nat
  BY <1>1
<1>3. LayoutSize(cap) \in Nat /\ LayoutSize(cap) >= HeaderSize + cap * SlotSize
  <2>1. HeaderSize + cap * SlotSize \in Nat
    BY <1>1, <1>2
  <2>. QED
    BY <2>1, <1>1, AlignUpBound DEF LayoutSize
<1>4. LayoutSize(cap) + cap * bytes <= len
  BY DEF MinBufferSize
<1> SUFFICES ASSUME NEW k \in 0..cap-1
             PROVE  LET slot == Block(SlotAt(k), SlotSize)
                        payload == Block(PayloadAt(cap, bytes, k), bytes)
                    IN  /\ slot \subseteq HeaderSize..LayoutSize(cap)-1
                        /\ payload \subseteq LayoutSize(cap)..len-1
                        /\ \A j \in 0..cap-1 \ {k} :
                             /\ slot \cap Block(SlotAt(j), SlotSize) = {}
                             /\ payload \cap Block(PayloadAt(cap, bytes, j), bytes) = {}
  BY DEF LaidOut
<1>5. /\ Block(SlotAt(k), SlotSize) \subseteq HeaderSize..HeaderSize+cap*SlotSize-1
      /\ \A j \in 0..cap-1 \ {k} :
           Block(SlotAt(k), SlotSize) \cap Block(SlotAt(j), SlotSize) = {}
  BY <1>1, BlocksApart DEF SlotAt
<1>6. /\ Block(PayloadAt(cap, bytes, k), bytes)
           \subseteq LayoutSize(cap)..LayoutSize(cap)+cap*bytes-1
      /\ \A j \in 0..cap-1 \ {k} :
           Block(PayloadAt(cap, bytes, k), bytes)
             \cap Block(PayloadAt(cap, bytes, j), bytes) = {}
  BY <1>3, BlocksApart DEF PayloadAt
<1>7. HeaderSize..HeaderSize+cap*SlotSize-1 \subseteq HeaderSize..LayoutSize(cap)-1
  BY <1>1, <1>2, <1>3
<1>8. LayoutSize(cap)..LayoutSize(cap)+cap*bytes-1 \subseteq LayoutSize(cap)..len-1
  BY <1>2, <1>3, <1>4
<1>. QED
  BY <1>5, <1>6, <1>7, <1>8

(* Division gives back what was divided.                                   *)
LEMMA SlabFilled ==
  ASSUME NEW cap \in Nat \ {0}, NEW slab \in Nat, Divides(cap, slab)
  PROVE  SlotBytes(cap, slab) \in Nat /\ cap * SlotBytes(cap, slab) = slab
BY DEF Divides, SlotBytes

(* create() and open() lay a ring out well, whatever they accept           *)
(* (bus.rs 273-281, 285-292).                                              *)
THEOREM NamedLaidOut ==
  ASSUME NEW cap \in Nat, NEW slab \in Nat, NamedAccepts(cap, slab)
  PROVE  LaidOut(cap, SlotBytes(cap, slab), NamedLength(cap, slab))
<1>1. cap \in Nat \ {0} /\ Divides(cap, slab)
  BY DEF NamedAccepts
<1>2. SlotBytes(cap, slab) \in Nat /\ cap * SlotBytes(cap, slab) = slab
  BY <1>1, SlabFilled
<1>3. HeaderSize + cap * SlotSize \in Nat
  BY LayoutAssumption
<1>4. LayoutSize(cap) \in Nat
  BY <1>3, LayoutAssumption, AlignUpBound DEF LayoutSize
<1>. QED
  BY <1>2, <1>4, FitsLaidOut DEF MinBufferSize, NamedLength

(* from_slice() does so in the buffer it is given, though it chooses the    *)
(* size of the slots itself from what the header leaves (bus.rs 296-312).  *)
THEOREM SliceLaidOut ==
  ASSUME NEW cap \in Nat, NEW len \in Nat, SliceAccepts(cap, len)
  PROVE  LaidOut(cap, SlotBytes(cap, len - LayoutSize(cap)), len)
<1> DEFINE slab == len - LayoutSize(cap)
<1>1. HeaderSize + cap * SlotSize \in Nat
  BY LayoutAssumption
<1>2. LayoutSize(cap) \in Nat
  BY <1>1, LayoutAssumption, AlignUpBound DEF LayoutSize
<1>3. slab \in Nat /\ cap \in Nat \ {0} /\ Divides(cap, slab)
  BY <1>2 DEF SliceAccepts
<1>4. SlotBytes(cap, slab) \in Nat /\ cap * SlotBytes(cap, slab) = slab
  BY <1>3, SlabFilled
<1>. QED
  BY <1>2, <1>4, FitsLaidOut DEF MinBufferSize
=============================================================================
