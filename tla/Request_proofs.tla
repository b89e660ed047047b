--------------------------- MODULE Request_proofs ---------------------------
(***************************************************************************)
(* Facts about the operators of module Request that the proofs about       *)
(* Elevator and BufferCache rest on.                                       *)
(***************************************************************************)
EXTENDS Request, NaturalsInduction, WellFoundedInduction, TLAPS

(* A nonempty set of natural numbers has a least element.                  *)
LEMMA LeastExists ==
    ASSUME NEW T, T \subseteq Nat, T # {}
    PROVE  \E x \in T : \A y \in T : x <= y
<1> DEFINE R == OpToRel(<, Nat)
<1>1. PICK x \in T : \A y \in T : ~(<<y, x>> \in R)
  <2>1. IsWellFoundedOn(R, Nat)
    BY NatLessThanWellFounded
  <2> HIDE DEF R
  <2> QED
    BY <2>1, WFMin
<1>2. \A y \in T : ~(y < x)
  BY <1>1 DEF OpToRel
<1> HIDE DEF R
<1>3. \A y \in T : x <= y
  BY <1>2
<1> QED
  BY <1>3

(* A nonempty set of slots has a greatest element.                         *)
LEMMA GreatestSlotExists ==
    ASSUME NEW S, S \subseteq Slot, S # {}
    PROVE  \E r \in S : \A s \in S : s <= r
<1> USE NrRequestAssumption DEF Slot
<1> DEFINE T == {NR_REQUEST - s : s \in S}
<1>1. PICK x \in T : \A y \in T : x <= y
  <2>1. T # {}
    BY Zenon
  <2>2. \A s \in S : NR_REQUEST - s \in Nat
    OBVIOUS
  <2>3. T \subseteq Nat
    BY <2>2, Zenon
  <2> HIDE DEF T
  <2> QED
    BY <2>1, <2>3, LeastExists
<1>2. PICK r \in S : x = NR_REQUEST - r
  BY <1>1
<1>3. \A s \in S : s <= r
  BY <1>1, <1>2
<1> QED
  BY <1>3

(* make_request finds a free slot of its kind, or none.                    *)
LEMMA FindSlotType ==
    ASSUME NEW rw, NEW free \in SUBSET Slot
    PROVE  FindSlot(rw, free) \in free \cup {0}
<1> DEFINE S == Usable(rw) \cap free
<1>1. CASE S = {}
  BY <1>1 DEF FindSlot
<1>2. CASE S # {}
  <2>1. \E r \in S : \A s \in S : s <= r
    BY <1>2, GreatestSlotExists
  <2> QED
    BY <1>2, <2>1 DEF FindSlot
<1> QED
  BY <1>1, <1>2

(* The walk of add_request ends at a position of the list, the first one   *)
(* where it may stop.                                                      *)
LEMMA PlaceProperty ==
    ASSUME NEW req, NEW q \in Seq(Slot), q # <<>>, NEW r
    PROVE  /\ Place(req, q, r) \in 1..Len(q)
           /\ \/ Place(req, q, r) = Len(q)
              \/ StopsAt(req, q, r, Place(req, q, r))
           /\ \A j \in 1..(Place(req, q, r) - 1) : ~StopsAt(req, q, r, j)
<1> DEFINE T == {k \in 1..Len(q) : k = Len(q) \/ StopsAt(req, q, r, k)}
<1>1. Len(q) \in T /\ T \subseteq Nat
  OBVIOUS
<1>2. PICK k \in T : \A j \in T : k <= j
  BY <1>1, LeastExists
<1>3. \A j \in 1..(k-1) : ~StopsAt(req, q, r, j)
  <2> HIDE DEF T
  <2> TAKE j \in 1..(k-1)
  <2>1. j \notin T
    BY <1>1, <1>2
  <2>2. k \in 1..Len(q)
    BY DEF T
  <2> QED
    BY <2>1, <2>2 DEF T
<1>4. \E i \in 1..Len(q) :
        /\ i = Len(q) \/ StopsAt(req, q, r, i)
        /\ \A j \in 1..(i-1) : ~StopsAt(req, q, r, j)
  BY <1>2, <1>3
<1> HIDE DEF T
<1> QED
  BY <1>4 DEF Place

(* add_request puts r somewhere into the list and keeps the others in      *)
(* their order.                                                            *)
LEMMA AddRequestInserts ==
    ASSUME NEW req, NEW q \in Seq(Slot), NEW r \in Slot
    PROVE  \E k \in 0..Len(q) :
              add_request(req, q, r) =
                [n \in 1..(Len(q) + 1) |->
                    IF n <= k THEN q[n] ELSE IF n = k + 1 THEN r ELSE q[n-1]]
<1>1. CASE q = <<>>
  BY <1>1 DEF add_request
<1>2. CASE q # <<>>
  <2> DEFINE k == Place(req, q, r)
  <2>1. k \in 0..Len(q)
    BY <1>2, PlaceProperty
  <2> WITNESS k \in 0..Len(q)
  <2> QED
    BY <1>2 DEF add_request
<1> QED
  BY <1>1, <1>2

(* ... so the result is a list of slots, with exactly r added to it, and   *)
(* without repetitions if there were none.                                 *)
LEMMA AddRequestList ==
    ASSUME NEW req, NEW q \in Seq(Slot), NEW r \in Slot
    PROVE  LET p == add_request(req, q, r) IN
           /\ p \in Seq(Slot)
           /\ Len(p) = Len(q) + 1
           /\ \A n \in 1..Len(p) : p[n] = r \/ \E i \in 1..Len(q) : p[n] = q[i]
           /\ \A i \in 1..Len(q) : \E n \in 1..Len(p) : p[n] = q[i]
           /\ \E n \in 1..Len(p) : p[n] = r
           /\ /\ \A i \in 1..Len(q) : q[i] # r
              /\ \A i, j \in 1..Len(q) : q[i] = q[j] => i = j
              => \A i, j \in 1..Len(p) : p[i] = p[j] => i = j
<1> DEFINE p == add_request(req, q, r)
<1>1. PICK k \in 0..Len(q) :
         p = [n \in 1..(Len(q) + 1) |->
                IF n <= k THEN q[n] ELSE IF n = k + 1 THEN r ELSE q[n-1]]
  BY AddRequestInserts
<1> HIDE DEF p
<1>2. Len(q) \in Nat /\ \A n \in 1..Len(q) : q[n] \in Slot
  OBVIOUS
<1>3. \A n \in 1..(Len(q) + 1) : p[n] \in Slot
  BY <1>1, <1>2
<1>4. p \in Seq(Slot) /\ Len(p) = Len(q) + 1
  BY <1>1, <1>2, <1>3
<1>5. \A n \in 1..Len(p) : p[n] = r \/ \E i \in 1..Len(q) : p[n] = q[i]
  BY <1>1, <1>2, <1>4
<1>6. \A i \in 1..Len(q) : \E n \in 1..Len(p) : p[n] = q[i]
  <2> TAKE i \in 1..Len(q)
  <2>1. CASE i <= k
    <3>1. i \in 1..Len(p) /\ p[i] = q[i]
      BY <1>1, <1>2, <1>4, <2>1
    <3> QED  BY <3>1
  <2>2. CASE i > k
    <3>1. i + 1 \in 1..Len(p) /\ p[i+1] = q[i]
      BY <1>1, <1>2, <1>4, <2>2
    <3> QED  BY <3>1
  <2> QED  BY <2>1, <2>2, <1>2
<1>7. \E n \in 1..Len(p) : p[n] = r
  <2>1. k + 1 \in 1..Len(p) /\ p[k+1] = r
    BY <1>1, <1>2, <1>4
  <2> QED  BY <2>1
<1>8. ASSUME \A i \in 1..Len(q) : q[i] # r,
             \A i, j \in 1..Len(q) : q[i] = q[j] => i = j
      PROVE  \A i, j \in 1..Len(p) : p[i] = p[j] => i = j
  BY <1>1, <1>2, <1>4, <1>8
<1> QED
  BY <1>4, <1>5, <1>6, <1>7, <1>8 DEF p
=============================================================================
