-------------------------- MODULE HdDriver_proofs --------------------------
(***************************************************************************)
(* The hard disk driver implements the elevator and, but for liveness, a   *)
(* block device: for any table size, any partition, any number of errors.  *)
(***************************************************************************)
EXTENDS HdDriver, Elevator_proofs

(* What the driver has done for the request at the head: the sectors       *)
(* before head.sector have been copied, each to its place.                 *)
HeadOK ==
    /\ head \in [sector : {0, 1}, nr_sectors : {1, 2}, buffer : {0, 1}, errors : Nat]
    /\ head.nr_sectors = 2 - head.sector
    /\ head.buffer = head.sector
    /\ moved = IF head.sector = 0 THEN {} ELSE {<<0, 0>>}

(* A command is under way only for a request, and while do_hd_request does *)
(* not run; it works on the sector at which the head is.  (read_intr reads *)
(* to the buffer of the head, write_intr knows what was sent before.)      *)
Command ==
    [cmd : {"none", "specify", "restore", "read", "write"}, sector : Int, n : Int, buffer : Int]

CtlOK ==
    /\ ctl \in Command
    /\ ctl.cmd # "none" =>
          /\ ~running /\ queue # <<>>
          /\ do_hd \in {"read", "write"} => ctl.sector = head.sector
          /\ do_hd = "write" => ctl.buffer = head.buffer

HdInv == ElInv /\ HeadOK /\ CtlOK

-----------------------------------------------------------------------------
(* While the driver moves a block, the sector of the head is at most one   *)
(* further on: the order of requests for different blocks stays.           *)
LEMMA InOrderNow ==
    ASSUME NEW a \in Req, NEW b \in Req, NEW d \in {0, 1},
           a.dev # b.dev \/ a.sector # b.sector,
           NEW c, c = [a EXCEPT !.sector = @ + d]
    PROVE  /\ InOrder(c, b) <=> InOrder(a, b)
           /\ InOrder(b, c) <=> InOrder(b, a)
<1>1. /\ a.cmd \in {0, 1} /\ b.cmd \in {0, 1}
      /\ a.dev \in Nat /\ b.dev \in Nat
      /\ a.sector \in Nat /\ b.sector \in Nat
      /\ \E n \in 0..a.sector : a.sector = 2 * n
      /\ \E n \in 0..b.sector : b.sector = 2 * n
  BY ElevatorAssumption, HdAssumption DEF Req, READ, WRITE
<1>2. c.cmd = a.cmd /\ c.dev = a.dev /\ c.sector = a.sector + d
  BY DEF Req
<1>3. a.sector # b.sector =>
        /\ a.sector + d < b.sector <=> a.sector < b.sector
        /\ b.sector < a.sector + d <=> b.sector < a.sector
  <2>1. PICK m \in 0..a.sector : a.sector = 2 * m
    BY <1>1
  <2>2. PICK n \in 0..b.sector : b.sector = 2 * n
    BY <1>1
  <2> QED  BY <2>1, <2>2, <1>1
<1> QED
  BY <1>1, <1>2, <1>3 DEF InOrder

(* The walk of add_request looks at nothing but the order.                 *)
LEMMA SameOrderSamePlace ==
    ASSUME NEW req1, NEW req2, NEW q \in Seq(Slot), NEW r,
           \A i \in 1..(Len(q) - 1) :
              InOrder(req1[q[i]], req1[q[i+1]]) <=> InOrder(req2[q[i]], req2[q[i+1]]),
           \A i \in 1..Len(q) :
              /\ InOrder(req1[q[i]], req1[r]) <=> InOrder(req2[q[i]], req2[r])
              /\ InOrder(req1[r], req1[q[i]]) <=> InOrder(req2[r], req2[q[i]])
    PROVE  add_request(req1, q, r) = add_request(req2, q, r)
<1>1. CASE q = <<>>
  BY <1>1 DEF add_request
<1>2. CASE q # <<>>
  <2> DEFINE k1 == Place(req1, q, r)
             k2 == Place(req2, q, r)
  <2>1. \A k \in 1..(Len(q) - 1) : k \in 1..Len(q) /\ k + 1 \in 1..Len(q)
    OBVIOUS
  <2>2. \A k \in 1..(Len(q) - 1) : StopsAt(req1, q, r, k) <=> StopsAt(req2, q, r, k)
    BY <2>1 DEF StopsAt
  <2>3. /\ k1 \in 1..Len(q)
        /\ k1 = Len(q) \/ StopsAt(req1, q, r, k1)
        /\ \A j \in 1..(k1 - 1) : ~StopsAt(req1, q, r, j)
    BY <1>2, PlaceProperty
  <2>4. /\ k2 \in 1..Len(q)
        /\ k2 = Len(q) \/ StopsAt(req2, q, r, k2)
        /\ \A j \in 1..(k2 - 1) : ~StopsAt(req2, q, r, j)
    BY <1>2, PlaceProperty
  <2>5. k1 = k2
    <3> HIDE DEF k1, k2
    <3>1. Len(q) \in Nat
      OBVIOUS
    <3>2. ~(k1 < k2)
      <4> SUFFICES ASSUME k1 < k2 PROVE FALSE
        OBVIOUS
      <4>1. k1 \in 1..(k2 - 1) /\ k1 \in 1..(Len(q) - 1)
        BY <2>3, <2>4, <3>1
      <4> QED  BY <4>1, <2>2, <2>3, <2>4, <3>1
    <3>3. ~(k2 < k1)
      <4> SUFFICES ASSUME k2 < k1 PROVE FALSE
        OBVIOUS
      <4>1. k2 \in 1..(k1 - 1) /\ k2 \in 1..(Len(q) - 1)
        BY <2>3, <2>4, <3>1
      <4> QED  BY <4>1, <2>2, <2>3, <2>4, <3>1
    <3> QED  BY <3>1, <3>2, <3>3, <2>3, <2>4
  <2> QED
    BY <2>5, <1>2 DEF add_request
<1> QED
  BY <1>1, <1>2

(* So make_request finds the place of the elevator whatever the driver has *)
(* done to the sector of the head.                                         *)
LEMMA MakeIsMake ==
    ASSUME ElInv, HeadOK, NEW rw \in {READ, WRITE}, NEW dev \in Dev,
           NEW sector \in Sector, MakeRequest(rw, dev, sector)
    PROVE  make_request(rw, dev, sector)
<1> DEFINE r == FindSlot(rw, FreeSlots)
           new == [cmd |-> rw, dev |-> dev, sector |-> sector, used |-> TRUE]
           req == [request EXCEPT ![r] = new]
<1>1. /\ \A s \in Queued : request[s].dev # dev \/ request[s].sector # sector
      /\ r # 0
      /\ request' = req
      /\ queue' = add_request(Now(request'), queue, r)
  BY DEF MakeRequest
<1>2. r \in FreeSlots /\ r \in Slot
  <2>1. FreeSlots \in SUBSET Slot
    BY DEF FreeSlots
  <2> QED  BY <1>1, <2>1, FindSlotType
<1> HIDE DEF r
<1>3. new \in Req /\ new.dev = dev /\ new.sector = sector
  BY DEF Req
<1> HIDE DEF new
<1>4. /\ queue \in Seq(Slot) /\ Len(queue) \in Nat
      /\ \A i \in 1..Len(queue) : queue[i] \in Slot /\ queue[i] \in Queued
  BY DEF ElInv, ElTypeOK, Queued
<1>5. \A i \in 1..Len(queue) : queue[i] # r /\ queue[i] \notin FreeSlots
  BY <1>2, <1>4 DEF ElInv, ListIsTable
<1>6. /\ req[r] = new
      /\ \A i \in 1..Len(queue) : req[queue[i]] = request[queue[i]] /\ req[queue[i]] \in Req
  <2>1. \A s \in Slot : s \notin FreeSlots => request[s] \in Req
    BY DEF ElInv, ElTypeOK, FreeSlots, NoRequest
  <2> QED  BY <2>1, <1>2, <1>4, <1>5 DEF ElInv, ElTypeOK
<1>7. \A i \in 1..Len(queue) : \/ req[queue[i]].dev # req[r].dev
                                \/ req[queue[i]].sector # req[r].sector
  BY <1>1, <1>3, <1>4, <1>6
<1>8. \A i, j \in 1..Len(queue) : i # j => \/ req[queue[i]].dev # req[queue[j]].dev
                                           \/ req[queue[i]].sector # req[queue[j]].sector
  BY <1>6 DEF ElInv, DistinctBlocks
<1>9. /\ Now(req)[r] = req[r]
      /\ \A i \in 1..Len(queue) :
            Now(req)[queue[i]] = IF i = 1 THEN [req[queue[i]] EXCEPT !.sector = @ + head.sector]
                                 ELSE req[queue[i]]
  <2>1. queue # <<>> => Head(queue) = queue[1] /\ 1 \in 1..Len(queue)
    BY <1>4
  <2>2. \A i \in 1..Len(queue) : queue # <<>> /\ (queue[i] = Head(queue) <=> i = 1)
    BY <2>1, <1>4 DEF ElInv, ListIsTable
  <2>3. queue = <<>> \/ r # Head(queue)
    BY <2>1, <1>5
  <2> HIDE DEF req
  <2> QED  BY <2>2, <2>3, <1>2, <1>4 DEF Now
<1>10. head.sector \in {0, 1}
  BY DEF HeadOK
<1> HIDE DEF req
<1>11. \A i \in 1..(Len(queue) - 1) :
          InOrder(Now(req)[queue[i]], Now(req)[queue[i+1]])
            <=> InOrder(req[queue[i]], req[queue[i+1]])
  <2> TAKE i \in 1..(Len(queue) - 1)
  <2>1. i \in 1..Len(queue) /\ i + 1 \in 1..Len(queue) /\ i + 1 # 1 /\ i # i + 1
    BY <1>4
  <2>2. CASE i = 1
    <3>1. /\ Now(req)[queue[i+1]] = req[queue[i+1]]
          /\ Now(req)[queue[i]] = [req[queue[i]] EXCEPT !.sector = @ + head.sector]
      BY <2>1, <2>2, <1>9
    <3>2. /\ req[queue[i]] \in Req /\ req[queue[i+1]] \in Req
          /\ \/ req[queue[i]].dev # req[queue[i+1]].dev
             \/ req[queue[i]].sector # req[queue[i+1]].sector
      BY <2>1, <1>6, <1>8
    <3> DEFINE a == req[queue[i]]
               b == req[queue[i+1]]
               c == Now(req)[queue[i]]
    <3> HIDE DEF a, b, c
    <3>3. InOrder(c, b) <=> InOrder(a, b)
      BY <3>1, <3>2, <1>10, InOrderNow DEF a, b, c
    <3> QED  BY <3>1, <3>3 DEF a, b, c
  <2>3. CASE i # 1
    BY <2>1, <2>3, <1>9
  <2> QED  BY <2>2, <2>3
<1>12. \A i \in 1..Len(queue) :
          /\ InOrder(Now(req)[queue[i]], Now(req)[r]) <=> InOrder(req[queue[i]], req[r])
          /\ InOrder(Now(req)[r], Now(req)[queue[i]]) <=> InOrder(req[r], req[queue[i]])
  <2> TAKE i \in 1..Len(queue)
  <2>1. CASE i = 1
    <3>1. Now(req)[queue[i]] = [req[queue[i]] EXCEPT !.sector = @ + head.sector]
      BY <2>1, <1>9
    <3>2. /\ req[queue[i]] \in Req /\ req[r] \in Req
          /\ \/ req[queue[i]].dev # req[r].dev
             \/ req[queue[i]].sector # req[r].sector
      BY <1>3, <1>6, <1>7
    <3> DEFINE a == req[queue[i]]
               b == req[r]
               c == Now(req)[queue[i]]
    <3> HIDE DEF a, b, c
    <3>3. /\ InOrder(c, b) <=> InOrder(a, b)
          /\ InOrder(b, c) <=> InOrder(b, a)
      BY <3>1, <3>2, <1>10, InOrderNow DEF a, b, c
    <3> QED  BY <3>3, <1>9 DEF a, b, c
  <2>2. CASE i # 1
    BY <2>2, <1>9
  <2> QED  BY <2>1, <2>2
<1>13. add_request(Now(req), queue, r) = add_request(req, queue, r)
  BY <1>4, <1>11, <1>12, SameOrderSamePlace
<1> QED
  BY <1>1, <1>13 DEF make_request, req, r, new

(* Every step of the driver is a step of the elevator or leaves its list.  *)
LEMMA HdListStep == HdInv /\ [HdNext]_hdVars => [ElNext]_elVars
<1> SUFFICES ASSUME HdInv, [HdNext]_hdVars PROVE ElNext \/ UNCHANGED <<request, queue>>
  BY DEF elVars
<1>1. ASSUME NEW rw \in {READ, WRITE}, NEW dev \in Dev, NEW sector \in Sector,
             MakeRequest(rw, dev, sector)
      PROVE  ElNext
  BY <1>1, MakeIsMake DEF HdInv, ElNext
<1>2. CASE Driver
  <2>1. ASSUME bad_rw_intr PROVE end_request \/ UNCHANGED <<request, queue>>
    BY <2>1 DEF bad_rw_intr, EndHead
  <2> QED
    BY <1>2, <2>1 DEF Driver, NoMore, OutOfRange, reset_hd, Recalibrate, StartRead, StartWrite,
         WriteTimeout, BadInterrupt, recal_intr, read_intr, write_intr, EndHead, ElNext
<1>3. CASE UNCHANGED hdVars
  BY <1>3 DEF hdVars
<1> QED
  BY <1>1, <1>2, <1>3 DEF HdNext

LEMMA HdInitInv == HdInit => HdInv
<1> SUFFICES ASSUME HdInit PROVE HdInv
  OBVIOUS
<1>1. HeadOK /\ CtlOK
  BY DEF HdInit, HeadOK, CtlOK, Command, Fresh, NoCommand
<1> QED
  BY <1>1, ElInitInv DEF HdInit, HdInv

(* What the parts of the actions do to HeadOK.                             *)
LEMMA EndHeadOK ==
    ASSUME NEW how, EndHead(how)
    PROVE  HeadOK'
BY DEF EndHead, HeadOK, Fresh

LEMMA BadOK ==
    ASSUME HeadOK, bad_rw_intr
    PROVE  HeadOK'
<1>1. CASE head' = [head EXCEPT !.errors = @ + 1] /\ UNCHANGED moved
  <2>1. /\ head' \in [sector : {0, 1}, nr_sectors : {1, 2}, buffer : {0, 1}, errors : Nat]
        /\ head'.sector = head.sector /\ head'.nr_sectors = head.nr_sectors
        /\ head'.buffer = head.buffer
    BY <1>1 DEF HeadOK
  <2> QED  BY <2>1, <1>1 DEF HeadOK
<1>2. CASE EndHead("failed")
  BY <1>2, EndHeadOK
<1> QED
  BY <1>1, <1>2 DEF bad_rw_intr

LEMMA HdStepInv == HdInv /\ [HdNext]_hdVars => HdInv'
<1> SUFFICES ASSUME HdInv, [HdNext]_hdVars PROVE HdInv'
  OBVIOUS
<1>1. ElInv'
  BY HdListStep, ElStepInv DEF HdInv
<1>2. ElInv /\ HeadOK /\ CtlOK
  BY DEF HdInv
<1> SUFFICES HeadOK' /\ CtlOK'
  BY <1>1 DEF HdInv
<1>3. ASSUME UNCHANGED <<head, moved>> PROVE HeadOK'
  BY <1>2, <1>3 DEF HeadOK
<1>4. ASSUME ctl' = NoCommand PROVE CtlOK'
  BY <1>4 DEF CtlOK, Command, NoCommand
<1>5. ASSUME running, ctl' = ctl PROVE CtlOK'
  BY <1>2, <1>5 DEF CtlOK
<1>6. ASSUME NEW cmd \in {"specify", "restore", "read", "write"}, NEW n \in Int,
             NEW sector \in Int, NEW intr, hd_out(cmd, n, sector, intr),
             intr \in {"read", "write"} => sector = head.sector,
             queue # <<>>, ~running', UNCHANGED <<queue, head, moved>>
      PROVE  HeadOK' /\ CtlOK'
  <2>1. head.buffer \in Int
    BY <1>2 DEF HeadOK
  <2>2. ctl' = [cmd |-> cmd, sector |-> sector, n |-> n, buffer |-> head.buffer] /\ do_hd' = intr
    BY <1>6 DEF hd_out
  <2>3. CtlOK'
    BY <2>1, <2>2, <1>6 DEF CtlOK, Command
  <2> QED  BY <2>3, <1>3, <1>6
<1>7. ASSUME NEW rw \in {READ, WRITE}, NEW dev \in Dev, NEW sector \in Sector,
             MakeRequest(rw, dev, sector)
      PROVE  HeadOK' /\ CtlOK'
  <2>1. HeadOK'
    BY <1>3, <1>7 DEF MakeRequest
  <2>2. queue' # <<>>
    <3> DEFINE r == FindSlot(rw, FreeSlots)
               req == Now(request')
               p == add_request(req, queue, r)
    <3>1. queue' = p /\ r # 0
      BY <1>7 DEF MakeRequest
    <3>2. r \in Slot /\ queue \in Seq(Slot)
      <4>1. FreeSlots \in SUBSET Slot
        BY DEF FreeSlots
      <4>2. r \in FreeSlots
        BY <4>1, <3>1, FindSlotType
      <4> QED  BY <4>1, <4>2, <1>2 DEF ElInv, ElTypeOK
    <3> HIDE DEF r, req
    <3>3. DOMAIN p = 1..(Len(queue) + 1)
      BY DEF add_request
    <3> HIDE DEF p
    <3> QED  BY <3>1, <3>2, <3>3
  <2>3. CtlOK'
    BY <2>2, <1>2, <1>7 DEF MakeRequest, CtlOK
  <2> QED  BY <2>1, <2>3
<1>8. CASE NoMore
  BY <1>3, <1>5, <1>8 DEF NoMore
<1>9. CASE OutOfRange
  BY <1>5, <1>9, EndHeadOK DEF OutOfRange, Repeat
<1>10. head.nr_sectors \in Int /\ head.sector \in Int
  BY <1>2 DEF HeadOK
<1>11. CASE reset_hd
  BY <1>6, <1>11 DEF reset_hd, Repeat
<1>12. CASE Recalibrate
  BY <1>6, <1>12 DEF Recalibrate, Repeat
<1>13. CASE StartRead \/ StartWrite
  BY <1>6, <1>10, <1>13 DEF StartRead, StartWrite, Ready, Repeat
<1>14. CASE WriteTimeout
  BY <1>2, <1>4, <1>14, BadOK DEF WriteTimeout
<1>15. CASE BadInterrupt
  BY <1>2, <1>4, <1>15, BadOK DEF BadInterrupt
<1>16. CASE recal_intr
  BY <1>3, <1>4, <1>16 DEF recal_intr
<1>17. ASSUME NEW n \in Nat, head.nr_sectors > 1, ctl.sector = head.sector,
              head' = [sector |-> head.sector + 1, nr_sectors |-> head.nr_sectors - 1,
                       buffer |-> head.buffer + 1, errors |-> n],
              moved' = moved \cup {<<head.buffer, ctl.sector>>}
       PROVE  HeadOK'
  BY <1>2, <1>17 DEF HeadOK
<1>18. CASE read_intr
  <2>1. CASE head.nr_sectors > 1
    <3>1. /\ ctl.sector = head.sector /\ ~running /\ queue # <<>> /\ do_hd = "read"
          /\ head' = [sector |-> head.sector + 1, nr_sectors |-> head.nr_sectors - 1,
                      buffer |-> head.buffer + 1, errors |-> 0]
          /\ moved' = moved \cup {<<head.buffer, ctl.sector>>}
          /\ ctl' = NextSector(ctl.buffer)
          /\ UNCHANGED <<queue, do_hd, running>>
      BY <1>2, <1>18, <2>1 DEF read_intr, Interrupt, CtlOK, Copied
    <3>2. HeadOK'
      BY <3>1, <2>1, <1>17
    <3>3. CtlOK'
      BY <3>1, <1>2, <1>10 DEF CtlOK, Command, NextSector
    <3> QED  BY <3>2, <3>3
  <2>2. CASE head.nr_sectors = 1
    BY <2>2, <1>4, <1>18, EndHeadOK DEF read_intr
  <2> QED  BY <2>1, <2>2, <1>18 DEF read_intr
<1>19. CASE write_intr
  <2>1. CASE head.nr_sectors > 1
    <3>1. /\ ctl.sector = head.sector /\ ctl.buffer = head.buffer
          /\ ~running /\ queue # <<>> /\ do_hd = "write"
          /\ head' = [sector |-> head.sector + 1, nr_sectors |-> head.nr_sectors - 1,
                      buffer |-> head.buffer + 1, errors |-> head.errors]
          /\ moved' = moved \cup {<<head.buffer, ctl.sector>>}
          /\ ctl' = NextSector(head.buffer + 1)
          /\ UNCHANGED <<queue, do_hd, running>>
      BY <1>2, <1>19, <2>1 DEF write_intr, Interrupt, CtlOK, Copied
    <3>2. head.errors \in Nat /\ head.buffer \in Int
      BY <1>2 DEF HeadOK
    <3>3. HeadOK'
      BY <3>1, <3>2, <2>1, <1>17
    <3>4. CtlOK'
      BY <3>1, <3>2, <1>2, <1>10 DEF CtlOK, Command, NextSector
    <3> QED  BY <3>3, <3>4
  <2>2. CASE head.nr_sectors = 1
    BY <2>2, <1>4, <1>19, EndHeadOK DEF write_intr
  <2> QED  BY <2>1, <2>2, <1>19 DEF write_intr
<1>20. CASE UNCHANGED hdVars
  BY <1>2, <1>20 DEF hdVars, drvVars, HeadOK, CtlOK
<1> QED
  BY <1>7, <1>8, <1>9, <1>11, <1>12, <1>13, <1>14, <1>15, <1>16, <1>18, <1>19, <1>20
     DEF HdNext, Driver

(* The driver keeps the list of the elevator, although it moves on the     *)
(* sector of the head that add_request compares with: with it the theorems *)
(* on ElSpec hold of the driver.                                           *)
THEOREM DriverKeepsElevator == HdSpec => KeepsElevator
<1>1. HdInit => ElInit
  BY DEF HdInit
<1> QED
  BY <1>1, HdInitInv, HdStepInv, HdListStep, PTL DEF HdSpec, KeepsElevator, ElSpec

-----------------------------------------------------------------------------
(* Pending when a request is made, and when the head ends.                 *)
LEMMA MakeSubmits ==
    ASSUME HdInv, NEW rw \in {READ, WRITE}, NEW dev \in Dev, NEW sector \in Sector,
           MakeRequest(rw, dev, sector)
    PROVE  /\ [dev |-> dev, sector |-> sector] \notin Pending
           /\ Pending' = Pending \cup {[dev |-> dev, sector |-> sector]}
<1>1. make_request(rw, dev, sector) /\ ElInv
  BY MakeIsMake DEF HdInv
<1>2. Pending = Blocks /\ Pending' = Blocks'
  BY DEF Pending, JobOf, Blocks, Block
<1> QED
  BY <1>1, <1>2, MakeAddsBlock

LEMMA EndCompletes ==
    ASSUME HdInv, end_request
    PROVE  \E j \in [dev : Dev, sector : Sector] : j \in Pending /\ Pending' = Pending \ {j}
<1>1. ElInv
  BY DEF HdInv
<1>2. Pending = Blocks /\ Pending' = Blocks'
  BY DEF Pending, JobOf, Blocks, Block
<1> QED
  BY <1>1, <1>2, EndRemovesBlock

(* The last interrupt of a request finds all of its block copied.          *)
LEMMA LastSector ==
    ASSUME HdInv, head.nr_sectors = 1, ctl.sector = head.sector
    PROVE  Result(Copied(head.buffer)) = "moved"
<1>1. head.buffer = 1 /\ ctl.sector = 1 /\ moved = {<<0, 0>>}
  BY DEF HdInv, HeadOK
<1> QED
  BY <1>1 DEF Copied, Result

LEMMA ReadMoves ==
    ASSUME HdInv, read_intr, head.nr_sectors = 1
    PROVE  EndHead("moved")
<1>1. ctl.sector = head.sector
  BY DEF read_intr, Interrupt, HdInv, CtlOK
<1> QED
  BY <1>1, LastSector DEF read_intr

LEMMA WriteMoves ==
    ASSUME HdInv, write_intr, head.nr_sectors = 1
    PROVE  EndHead("moved")
<1>1. ctl.sector = head.sector /\ ctl.buffer = head.buffer
  BY DEF write_intr, Interrupt, HdInv, CtlOK
<1> QED
  BY <1>1, LastSector DEF write_intr

LEMMA HdDeviceStep == HdInv /\ [HdNext]_hdVars => [Device!DevNext]_<<Pending, ended>>
<1> SUFFICES ASSUME HdInv, [HdNext]_hdVars
             PROVE  Device!DevNext \/ UNCHANGED <<Pending, ended>>
  OBVIOUS
<1>1. ASSUME NEW rw \in {READ, WRITE}, NEW dev \in Dev, NEW sector \in Sector,
             MakeRequest(rw, dev, sector)
      PROVE  Device!DevNext
  <2> DEFINE j == [dev |-> dev, sector |-> sector]
  <2>1. j \in [dev : Dev, sector : Sector]
    OBVIOUS
  <2>2. j \notin Pending /\ Pending' = Pending \cup {j} /\ ended' = ended
    BY <1>1, MakeSubmits DEF MakeRequest
  <2> HIDE DEF j
  <2> QED  BY <2>1, <2>2 DEF Device!DevNext, Device!Submit
<1>2. ASSUME NEW how \in {"moved", "failed"}, EndHead(how)
      PROVE  Device!DevNext
  <2>1. PICK j \in [dev : Dev, sector : Sector] : j \in Pending /\ Pending' = Pending \ {j}
    BY <1>2, EndCompletes DEF EndHead
  <2>2. ended' \in {"moved", "failed"}
    BY <1>2 DEF EndHead
  <2> QED  BY <2>1, <2>2 DEF Device!DevNext, Device!Complete
<1>3. ASSUME UNCHANGED <<request, queue, ended>> PROVE UNCHANGED <<Pending, ended>>
  BY <1>3 DEF Pending, JobOf, Queued
<1>4. ASSUME bad_rw_intr PROVE EndHead("failed") \/ UNCHANGED <<request, queue, ended>>
  BY <1>4 DEF bad_rw_intr
<1>5. CASE read_intr
  <2>1. CASE head.nr_sectors > 1
    BY <2>1, <1>3, <1>5 DEF read_intr
  <2>2. CASE head.nr_sectors = 1
    BY <2>2, <1>2, <1>5, ReadMoves
  <2> QED  BY <2>1, <2>2, <1>5 DEF read_intr
<1>6. CASE write_intr
  <2>1. CASE head.nr_sectors > 1
    BY <2>1, <1>3, <1>6 DEF write_intr
  <2>2. CASE head.nr_sectors = 1
    BY <2>2, <1>2, <1>6, WriteMoves
  <2> QED  BY <2>1, <2>2, <1>6 DEF write_intr
<1>7. CASE NoMore \/ reset_hd \/ Recalibrate \/ StartRead \/ StartWrite \/ recal_intr
  BY <1>3, <1>7 DEF NoMore, reset_hd, Recalibrate, StartRead, StartWrite, recal_intr
<1>8. CASE OutOfRange
  BY <1>2, <1>8 DEF OutOfRange
<1>9. CASE WriteTimeout \/ BadInterrupt
  BY <1>2, <1>3, <1>4, <1>9 DEF WriteTimeout, BadInterrupt
<1>10. CASE UNCHANGED hdVars
  BY <1>3, <1>10 DEF hdVars, drvVars
<1> QED
  BY <1>1, <1>5, <1>6, <1>7, <1>8, <1>9, <1>10 DEF HdNext, Driver

(* The safety part of ServesRequests: whatever errors, retries, resets and *)
(* timeouts there are, every request ends at most once, and with success   *)
(* only after both sectors have been moved between the right places.       *)
THEOREM DriverMovesBlocks == HdSpec => Device!DevSafe
<1>1. HdInit => Device!DevInit
  <2> SUFFICES ASSUME HdInit PROVE Pending = {} /\ ended = "none"
    BY DEF Device!DevInit
  <2>1. Len(queue) = 0
    BY DEF HdInit, ElInit
  <2>2. Queued = {}
    BY <2>1 DEF Queued
  <2> QED  BY <2>2 DEF Pending, HdInit
<1> QED
  BY <1>1, HdInitInv, HdStepInv, HdDeviceStep, PTL DEF HdSpec, Device!DevSafe

(* A step that ends a request without success.                             *)
LEMMA HdGivesUp ==
    ASSUME HdInv, [HdNext]_hdVars, Len(queue') < Len(queue), ended' = "failed"
    PROVE  \/ CURRENT.sector + 2 > NrSects
           \/ head.errors + 1 >= MAX_ERRORS
           \/ head.sector = 1 /\ CURRENT.sector + 2 = NrSects
<1>1. Len(queue) \in Nat /\ queue' # queue
  BY DEF HdInv, ElInv, ElTypeOK
<1>2. ASSUME NEW rw \in {READ, WRITE}, NEW dev \in Dev, NEW sector \in Sector,
             MakeRequest(rw, dev, sector)
      PROVE  FALSE
  <2> DEFINE r == FindSlot(rw, FreeSlots)
             req == Now(request')
             p == add_request(req, queue, r)
  <2>1. queue' = p
    BY <1>2 DEF MakeRequest
  <2>2. DOMAIN p = 1..(Len(queue) + 1)
    BY DEF add_request
  <2>3. queue' \in Seq(Slot)
    BY HdStepInv DEF HdInv, ElInv, ElTypeOK
  <2> HIDE DEF p
  <2> QED  BY <2>1, <2>2, <2>3, <1>1
<1>3. ASSUME EndHead("moved") PROVE FALSE
  BY <1>3 DEF EndHead
<1>4. CASE read_intr
  BY <1>1, <1>3, <1>4, ReadMoves DEF read_intr
<1>5. CASE write_intr
  BY <1>1, <1>3, <1>5, WriteMoves DEF write_intr
<1>6. CASE NoMore \/ reset_hd \/ Recalibrate \/ StartRead \/ StartWrite \/ recal_intr
  BY <1>1, <1>6 DEF NoMore, reset_hd, Recalibrate, StartRead, StartWrite, recal_intr
<1>7. CASE OutOfRange
  <2>1. head.sector \in {0, 1} /\ NrSects \in Nat
    BY HdAssumption DEF HdInv, HeadOK
  <2>2. CURRENT.sector \in Nat
    <3>1. queue # <<>> /\ Head(queue) = queue[1] /\ 1 \in 1..Len(queue)
      BY <1>1, <1>7 DEF OutOfRange, Repeat, HdInv, ElInv, ElTypeOK
    <3>2. Head(queue) \in Slot /\ Head(queue) \notin FreeSlots
      BY <3>1 DEF HdInv, ElInv, ElTypeOK, ListIsTable, Queued
    <3>3. CURRENT \in Req
      BY <3>2 DEF CURRENT, HdInv, ElInv, ElTypeOK, FreeSlots, NoRequest
    <3> QED  BY <3>3, ElevatorAssumption DEF Req
  <2> QED  BY <2>1, <2>2, <1>7 DEF OutOfRange, InRange
<1>8. CASE WriteTimeout \/ BadInterrupt
  BY <1>1, <1>8 DEF WriteTimeout, BadInterrupt, bad_rw_intr
<1>9. CASE UNCHANGED hdVars
  BY <1>1, <1>9 DEF hdVars
<1> QED
  BY <1>2, <1>4, <1>5, <1>6, <1>7, <1>8, <1>9 DEF HdNext, Driver

(* A block inside the partition is given up only after MAX_ERRORS errors   *)
(* in a row, or on a retry of the second sector of the last block.         *)
THEOREM GivesUpForErrors == HdSpec => GivenUpForErrors
<1>1. HdInv /\ [HdNext]_hdVars =>
        [(Len(queue') < Len(queue) /\ ended' = "failed") =>
          \/ CURRENT.sector + 2 > NrSects
          \/ head.errors + 1 >= MAX_ERRORS
          \/ head.sector = 1 /\ CURRENT.sector + 2 = NrSects]_hdVars
  BY HdGivesUp
<1> QED
  BY <1>1, HdInitInv, HdStepInv, PTL DEF HdSpec, GivenUpForErrors

=============================================================================
