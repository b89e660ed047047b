------------------------------ MODULE Elevator ------------------------------
(***************************************************************************)
(* One block device's request list on its own: requests for distinct       *)
(* blocks arrive in any order, the device finishes the head.  (That no two *)
(* queued requests are for one block is an invariant of BufferCache: a     *)
(* queued request's buffer is locked and a block has one buffer.)          *)
(***************************************************************************)
EXTENDS Request

CONSTANTS
    Dev,            \* the minor devices that share the list
    Sector          \* the sectors that are requested

ASSUME ElevatorAssumption == Dev \subseteq Nat /\ Sector \subseteq Nat

VARIABLES
    request,        \* the request table
    queue           \* blk_dev[major].current_request and its next pointers

elVars == <<request, queue>>

NoRequest == [cmd |-> READ, dev |-> 0, sector |-> 0, used |-> FALSE]
Req == [cmd : {READ, WRITE}, dev : Dev, sector : Sector, used : {TRUE}]

FreeSlots == {r \in Slot : ~request[r].used}
Queued == {queue[k] : k \in 1..Len(queue)}

ElTypeOK ==
    /\ request \in [Slot -> Req \cup {NoRequest}]
    /\ queue \in Seq(Slot)

ElInit ==
    /\ request = [r \in Slot |-> NoRequest]
    /\ queue = <<>>

(* make_request from "repeat:" on, for a block that is not queued yet and  *)
(* when a slot is free (otherwise the caller sleeps, see BufferCache).     *)
make_request(rw, dev, sector) ==
    LET r == FindSlot(rw, FreeSlots) IN
    /\ \A s \in Queued : request[s].dev # dev \/ request[s].sector # sector
    /\ r # 0
    /\ request' = [request EXCEPT ![r] =
            [cmd |-> rw, dev |-> dev, sector |-> sector, used |-> TRUE]]
    /\ queue' = add_request(request', queue, r)

(* Mutant of end_request: the slot is not freed.                           *)
EndKeepsSlot ==
    /\ queue # <<>>
    /\ queue' = Tail(queue)
    /\ UNCHANGED request

(* end_request: the head's slot is free again and the list moves up.       *)
end_request ==
    /\ queue # <<>>
    /\ request' = [request EXCEPT ![Head(queue)] = NoRequest]
    /\ queue' = Tail(queue)

ElNext ==
    \/ \E rw \in {READ, WRITE}, dev \in Dev, sector \in Sector :
          make_request(rw, dev, sector)
    \/ end_request

ElSpec == ElInit /\ [][ElNext]_elVars

-----------------------------------------------------------------------------
(* The list holds exactly the slots in use, each once: no request is lost  *)
(* or linked in twice by add_request.                                      *)
ListIsTable ==
    /\ Queued = Slot \ FreeSlots
    /\ \A m, n \in 1..Len(queue) : m # n => queue[m] # queue[n]

(* The elevator: from the head to the tail of the list the order of        *)
(* IN_ORDER goes back at most once, so the arm makes one sweep and then    *)
(* one more (ll_rw_blk.cc:79-83).                                          *)
Descent(k) == ~InOrder(request[queue[k]], request[queue[k+1]])

OneSweepBack ==
    \A m, n \in 1..(Len(queue) - 1) : Descent(m) /\ Descent(n) => m = n

=============================================================================
