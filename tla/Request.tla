------------------------------ MODULE Request ------------------------------
(***************************************************************************)
(* The request table and the elevator of kernel/blk_drv/blk.h and          *)
(* kernel/blk_drv/ll_rw_blk.cc, as operators.                              *)
(*                                                                         *)
(* A request is a slot of the table request[]; a device's list of requests *)
(* (blk_dev[major].current_request and the next pointers) is a sequence of *)
(* slots whose head the driver is working on.                              *)
(***************************************************************************)
EXTENDS Naturals, Sequences, FiniteSets

CONSTANTS
    NR_REQUEST      \* the number of slots (32 in the code)

ASSUME NrRequestAssumption == NR_REQUEST \in Nat \ {0}

Slot == 1..NR_REQUEST

READ == 0
WRITE == 1

(* IN_ORDER(s1,s2): reads before writes, then by device, then by sector.   *)
InOrder(s1, s2) ==
    \/ s1.cmd < s2.cmd
    \/ /\ s1.cmd = s2.cmd
       /\ \/ s1.dev < s2.dev
          \/ s1.dev = s2.dev /\ s1.sector < s2.sector

(* The slots a command may take: writes leave the last third to the reads. *)
Usable(rw) == IF rw = READ THEN Slot ELSE 1..((NR_REQUEST * 2) \div 3)

(* make_request searches the usable slots from the last one downwards; 0   *)
(* when there is no free one.  free is the set of slots with dev < 0.      *)
FindSlot(rw, free) ==
    LET S == Usable(rw) \cap free
    IN  IF S = {} THEN 0 ELSE CHOOSE r \in S : \A s \in S : s <= r

(* Mutant of StopsAt: the walk does not look at the next element.          *)
StopsEarly(req, q, r, k) ==
    InOrder(req[q[k]], req[r]) \/ ~InOrder(req[q[k]], req[q[k+1]])

(* Whether the list walk of add_request stops at position k of queue q for *)
(* request r (the walk never looks behind the last element).               *)
StopsAt(req, q, r, k) ==
    /\ InOrder(req[q[k]], req[r]) \/ ~InOrder(req[q[k]], req[q[k+1]])
    /\ InOrder(req[r], req[q[k+1]])

(* The position after which add_request links r into the nonempty list q.  *)
Place(req, q, r) ==
    CHOOSE k \in 1..Len(q) :
        /\ k = Len(q) \/ StopsAt(req, q, r, k)
        /\ \A j \in 1..(k-1) : ~StopsAt(req, q, r, j)

(* add_request: r becomes the only element of an empty list, or is linked  *)
(* in behind the element the walk stops at.                                *)
add_request(req, q, r) ==
    LET k == IF q = <<>> THEN 0 ELSE Place(req, q, r)
    IN  [n \in 1..(Len(q) + 1) |->
            IF n <= k THEN q[n] ELSE IF n = k + 1 THEN r ELSE q[n-1]]
=============================================================================
