----------------------------- MODULE BusLayout -----------------------------
(***************************************************************************)
(* How src/bus.rs lays a ring out in a buffer: the header, the slots, and  *)
(* from the next cache line on one payload per slot.  The three ways to a  *)
(* handle (create, open, from_slice) check their arguments differently;    *)
(* what they accept must keep everybody's bytes apart and in the buffer.   *)
(* Sizes do not wrap here, and that a capacity is a power of two matters   *)
(* to the masks only.                                                      *)
(***************************************************************************)
EXTENDS Integers

CONSTANTS CacheLine, HeaderSize, SlotSize

ASSUME LayoutAssumption ==
  /\ CacheLine \in Nat \ {0} /\ HeaderSize \in Nat \ {0} /\ SlotSize \in Nat \ {0}

\* The mask of the code, for a power of two.
AlignUp(x, a) == ((x + (a - 1)) \div a) * a

LayoutSize(cap)           == AlignUp(HeaderSize + cap * SlotSize, CacheLine)
MinBufferSize(cap, bytes) == LayoutSize(cap) + cap * bytes

\* What create() and open() are given, and the length they map.
Divides(cap, slab) == slab % cap = 0
NamedAccepts(cap, slab) == cap # 0 /\ slab # 0 /\ Divides(cap, slab)
NamedLength(cap, slab)  == LayoutSize(cap) + slab

\* What from_slice() is given.
SliceAccepts(cap, len) ==
  cap # 0 /\ len > LayoutSize(cap) /\ Divides(cap, len - LayoutSize(cap))

SlotBytes(cap, slab) == slab \div cap

\* The bytes of the slots and of the payloads.
SlotAt(k)               == HeaderSize + k * SlotSize
PayloadAt(cap, bytes, k) == LayoutSize(cap) + k * bytes
Block(at, size)         == at..at+size-1

\* Header, slots and payloads are apart and inside a buffer of length len.
LaidOut(cap, bytes, len) ==
  \A k \in 0..cap-1 :
    LET slot == Block(SlotAt(k), SlotSize)
        payload == Block(PayloadAt(cap, bytes, k), bytes)
    IN  /\ slot \subseteq HeaderSize..LayoutSize(cap)-1
        /\ payload \subseteq LayoutSize(cap)..len-1
        /\ \A j \in 0..cap-1 \ {k} :
             /\ slot \cap Block(SlotAt(j), SlotSize) = {}
             /\ payload \cap Block(PayloadAt(cap, bytes, j), bytes) = {}

=============================================================================
