-------------------------- MODULE Elevator_proofs --------------------------
(***************************************************************************)
(* The elevator of add_request for any table size and any set of sectors.  *)
(***************************************************************************)
EXTENDS Elevator, Request_proofs

(* No two requests of the list are for the same block.                     *)
DistinctBlocks ==
    \A m, n \in 1..Len(queue) :
        /\ request[queue[m]].dev = request[queue[n]].dev
        /\ request[queue[m]].sector = request[queue[n]].sector
        => m = n

ElInv == ElTypeOK /\ ListIsTable /\ DistinctBlocks /\ OneSweepBack

(* IN_ORDER is total on requests for different blocks.                     *)
LEMMA InOrderTotal ==
    ASSUME NEW a \in Req, NEW b \in Req,
           a.dev # b.dev \/ a.sector # b.sector
    PROVE  InOrder(a, b) \/ InOrder(b, a)
<1>1. /\ a.cmd \in {0, 1} /\ b.cmd \in {0, 1}
      /\ a.dev \in Nat /\ b.dev \in Nat
      /\ a.sector \in Nat /\ b.sector \in Nat
  BY ElevatorAssumption DEF Req, READ, WRITE
<1> QED
  BY <1>1 DEF InOrder

(* Inserting a request where add_request inserts it into a list that goes  *)
(* back at most once gives such a list again.  req is the table with r     *)
(* filled in, k the place the walk ends at.                                *)
LEMMA InsertKeepsSweep ==
    ASSUME NEW req \in [Slot -> Req \cup {NoRequest}],
           NEW q \in Seq(Slot), q # <<>>, NEW r \in Slot,
           req[r] \in Req,
           \A i \in 1..Len(q) : req[q[i]] \in Req,
           \A i \in 1..Len(q) : \/ req[q[i]].dev # req[r].dev
                                \/ req[q[i]].sector # req[r].sector,
           \A m, n \in 1..(Len(q) - 1) :
              /\ ~InOrder(req[q[m]], req[q[m+1]])
              /\ ~InOrder(req[q[n]], req[q[n+1]])
              => m = n
    PROVE  LET p == add_request(req, q, r) IN
           \A m, n \in 1..(Len(p) - 1) :
              /\ ~InOrder(req[p[m]], req[p[m+1]])
              /\ ~InOrder(req[p[n]], req[p[n+1]])
              => m = n
<1> DEFINE p == add_request(req, q, r)
           k == Place(req, q, r)
           Less(a, b) == InOrder(req[a], req[b])
<1>1. /\ k \in 1..Len(q)
      /\ k = Len(q) \/ StopsAt(req, q, r, k)
      /\ \A j \in 1..(k-1) : ~StopsAt(req, q, r, j)
  BY PlaceProperty
<1>2. p = [n \in 1..(Len(q) + 1) |->
             IF n <= k THEN q[n] ELSE IF n = k + 1 THEN r ELSE q[n-1]]
  BY DEF add_request
<1>3. Len(q) \in Nat /\ Len(q) >= 1
  OBVIOUS
<1>4. Len(p) = Len(q) + 1
  BY <1>2, <1>3
<1>5. \A i \in 1..Len(q) : Less(q[i], r) \/ Less(r, q[i])
  BY InOrderTotal
<1>6. \A m, n \in 1..(Len(q) - 1) :
         ~Less(q[m], q[m+1]) /\ ~Less(q[n], q[n+1]) => m = n
  OBVIOUS
<1>7. \A j \in 1..(k-1) : /\ Less(q[j], r) => ~Less(r, q[j+1])
                          /\ ~Less(q[j], q[j+1]) => ~Less(r, q[j+1])
  BY <1>1 DEF StopsAt
<1>8. k = Len(q) \/ (Less(r, q[k+1]) /\ (Less(q[k], r) \/ ~Less(q[k], q[k+1])))
  BY <1>1 DEF StopsAt
<1> HIDE DEF p, k, Less
<1>9. ASSUME k = Len(q), NEW i \in 1..(Len(q) - 1), ~Less(q[i], q[i+1])
      PROVE  Less(q[k], r)
  <2> DEFINE T == {j \in (i+1)..k : ~Less(q[j], r)}
  <2>1. SUFFICES ASSUME T # {} PROVE FALSE
    <3>1. k \in (i+1)..k
      BY <1>3, <1>9
    <3> QED  BY <3>1
  <2>2. PICK j \in T : \A l \in T : j <= l
    <3>1. T \subseteq Nat
      BY <1>3, <1>9
    <3> QED  BY <3>1, <2>1, LeastExists
  <2>3. j \in (i+1)..k /\ ~Less(q[j], r)
    BY <2>2
  <2>4. Less(r, q[j])
    BY <2>3, <1>3, <1>5, <1>9
  <2>5. j # i + 1
    BY <2>4, <1>3, <1>7, <1>9
  <2>6. j - 1 \in (i+1)..k /\ j - 1 \notin T
    BY <2>2, <2>3, <2>5, <1>3, <1>9
  <2>7. Less(q[j-1], r) /\ j - 1 \in 1..(k-1) /\ (j - 1) + 1 = j
    BY <2>6, <2>3, <1>3, <1>9
  <2> QED
    BY <2>4, <2>7, <1>7
<1>10. CASE k = Len(q)
  <2> SUFFICES ASSUME NEW m \in 1..(Len(p) - 1), NEW n \in 1..(Len(p) - 1),
                      m < n, ~Less(p[m], p[m+1]), ~Less(p[n], p[n+1])
               PROVE  FALSE
    BY <1>3, <1>4 DEF p, Less
  <2>1. \A i \in 1..k : p[i] = q[i]
    BY <1>2, <1>3, <1>10
  <2>2. p[k+1] = r
    BY <1>2, <1>3, <1>10
  <2>3. m \in 1..(Len(q) - 1) /\ n \in 1..k
    BY <1>3, <1>4, <1>10
  <2>4. ~Less(q[m], q[m+1])
    BY <2>1, <2>3, <1>3, <1>10
  <2>5. CASE n = k
    BY <2>1, <2>2, <2>3, <2>4, <2>5, <1>3, <1>9, <1>10
  <2>6. CASE n < k
    <3>1. n \in 1..(Len(q) - 1) /\ ~Less(q[n], q[n+1])
      BY <2>1, <2>3, <2>6, <1>3, <1>10
    <3> QED  BY <3>1, <2>3, <2>4, <1>6
  <2> QED  BY <2>3, <2>5, <2>6, <1>3, <1>10
<1>11. CASE k < Len(q)
  <2> SUFFICES ASSUME NEW m \in 1..(Len(p) - 1), NEW n \in 1..(Len(p) - 1),
                      m < n, ~Less(p[m], p[m+1]), ~Less(p[n], p[n+1])
               PROVE  FALSE
    BY <1>3, <1>4 DEF p, Less
  <2> DEFINE Old(i) == IF i <= k THEN i ELSE i - 1
  <2>1. ASSUME NEW i \in 1..(Len(p) - 1), ~Less(p[i], p[i+1])
        PROVE  i # k + 1 /\ Old(i) \in 1..(Len(q) - 1)
               /\ ~Less(q[Old(i)], q[Old(i) + 1])
    <3>1. CASE i < k
      <4>1. p[i] = q[i] /\ p[i+1] = q[i+1] /\ Old(i) = i
        BY <3>1, <1>1, <1>2, <1>3
      <4> QED  BY <4>1, <3>1, <2>1, <1>1, <1>3, <1>11
    <3>2. CASE i = k
      <4>1. p[i] = q[k] /\ p[i+1] = r
        BY <3>2, <1>1, <1>2, <1>3
      <4> QED  BY <4>1, <3>2, <2>1, <1>1, <1>3, <1>8, <1>11
    <3>3. CASE i = k + 1
      <4>1. p[i] = r /\ p[i+1] = q[k+1]
        BY <3>3, <1>1, <1>2, <1>3, <1>11
      <4> QED  BY <4>1, <2>1, <1>8, <1>11, <1>1, <1>3
    <3>4. CASE i > k + 1
      <4>1. p[i] = q[i-1] /\ p[i+1] = q[i]
        BY <3>4, <1>1, <1>2, <1>3, <1>4
      <4> QED  BY <4>1, <3>4, <2>1, <1>1, <1>3, <1>4
    <3> QED  BY <3>1, <3>2, <3>3, <3>4, <1>1, <1>3
  <2>2. Old(m) = Old(n)
    BY <2>1, <1>6
  <2> QED
    BY <2>1, <2>2, <1>1, <1>3
<1> QED
  BY <1>1, <1>3, <1>10, <1>11 DEF p, Less

(* The initial state, and every step of ElNext.                            *)
LEMMA ElInitInv == ElInit => ElInv
<1> SUFFICES ASSUME ElInit PROVE ElInv
  OBVIOUS
<1>1. ElTypeOK
  BY DEF ElInit, ElTypeOK
<1>2. Len(queue) = 0
  BY DEF ElInit
<1>3. ListIsTable
  BY <1>2 DEF ElInit, ListIsTable, Queued, FreeSlots, NoRequest
<1> QED
  BY <1>1, <1>2, <1>3 DEF ElInv, DistinctBlocks, OneSweepBack

LEMMA MakeRequestInv ==
    ASSUME ElInv, NEW rw \in {READ, WRITE}, NEW dev \in Dev,
           NEW sector \in Sector, make_request(rw, dev, sector)
    PROVE  ElInv'
<1> DEFINE r == FindSlot(rw, FreeSlots)
           new == [cmd |-> rw, dev |-> dev, sector |-> sector, used |-> TRUE]
<1>1. ElTypeOK /\ ListIsTable /\ DistinctBlocks /\ OneSweepBack
  BY DEF ElInv
<1>2. /\ \A s \in Queued : request[s].dev # dev \/ request[s].sector # sector
      /\ r # 0
      /\ request' = [request EXCEPT ![r] = new]
      /\ queue' = add_request(request', queue, r)
  BY DEF make_request
<1>3. r \in FreeSlots /\ r \in Slot
  <2>1. FreeSlots \in SUBSET Slot
    BY DEF FreeSlots
  <2> QED  BY <1>2, <2>1, FindSlotType
<1> HIDE DEF r
<1>4. new \in Req /\ new.used /\ new.dev = dev /\ new.sector = sector
  BY DEF Req
<1> HIDE DEF new
<1>5. /\ queue \in Seq(Slot) /\ Len(queue) \in Nat
      /\ \A i \in 1..Len(queue) : queue[i] \in Slot /\ queue[i] \in Queued
  BY <1>1 DEF ElTypeOK, Queued
<1>6. /\ request' \in [Slot -> Req \cup {NoRequest}]
      /\ request'[r] = new
      /\ \A s \in Slot : s # r => request'[s] = request[s]
  BY <1>1, <1>2, <1>3, <1>4 DEF ElTypeOK
<1>7. \A i \in 1..Len(queue) : queue[i] # r
  BY <1>1, <1>3, <1>5 DEF ListIsTable
<1>8. \A i, j \in 1..Len(queue) : queue[i] = queue[j] => i = j
  BY <1>1 DEF ListIsTable
<1>9. /\ queue' \in Seq(Slot)
      /\ Len(queue') = Len(queue) + 1
      /\ \A n \in 1..Len(queue') :
            queue'[n] = r \/ \E i \in 1..Len(queue) : queue'[n] = queue[i]
      /\ \A i \in 1..Len(queue) : \E n \in 1..Len(queue') : queue'[n] = queue[i]
      /\ \E n \in 1..Len(queue') : queue'[n] = r
      /\ \A i, j \in 1..Len(queue') : queue'[i] = queue'[j] => i = j
  <2> DEFINE req == request'
             p == add_request(req, queue, r)
  <2>1. queue' = p
    BY <1>2
  <2> HIDE DEF req
  <2>2. /\ p \in Seq(Slot)
        /\ Len(p) = Len(queue) + 1
        /\ \A n \in 1..Len(p) :
              p[n] = r \/ \E i \in 1..Len(queue) : p[n] = queue[i]
        /\ \A i \in 1..Len(queue) : \E n \in 1..Len(p) : p[n] = queue[i]
        /\ \E n \in 1..Len(p) : p[n] = r
        /\ /\ \A i \in 1..Len(queue) : queue[i] # r
           /\ \A i, j \in 1..Len(queue) : queue[i] = queue[j] => i = j
           => \A i, j \in 1..Len(p) : p[i] = p[j] => i = j
    BY <1>3, <1>5, AddRequestList, Zenon
  <2> HIDE DEF p
  <2> QED
    BY <2>1, <2>2, <1>7, <1>8
<1>10. ElTypeOK'
  BY <1>6, <1>9 DEF ElTypeOK
<1>11. Queued' = Queued \cup {r}
  BY <1>9 DEF Queued
<1>12. Slot \ FreeSlots' = (Slot \ FreeSlots) \cup {r}
  BY <1>3, <1>4, <1>6 DEF FreeSlots
<1>13. ListIsTable'
  BY <1>1, <1>9, <1>11, <1>12 DEF ListIsTable
<1>14. \A i \in 1..Len(queue) : /\ request'[queue[i]] = request[queue[i]]
                                /\ request'[queue[i]].dev # dev
                                   \/ request'[queue[i]].sector # sector
  BY <1>2, <1>5, <1>6, <1>7
<1>15. DistinctBlocks'
  <2> SUFFICES ASSUME NEW m \in 1..Len(queue'), NEW n \in 1..Len(queue'),
                      request'[queue'[m]].dev = request'[queue'[n]].dev,
                      request'[queue'[m]].sector = request'[queue'[n]].sector
               PROVE  m = n
    BY DEF DistinctBlocks
  <2>1. CASE queue'[m] = r
    <3>1. queue'[n] = r
      BY <2>1, <1>4, <1>6, <1>9, <1>14
    <3> QED  BY <2>1, <3>1, <1>9
  <2>2. CASE queue'[n] = r
    <3>1. queue'[m] = r
      BY <2>2, <1>4, <1>6, <1>9, <1>14
    <3> QED  BY <2>2, <3>1, <1>9
  <2>3. CASE queue'[m] # r /\ queue'[n] # r
    <3>1. PICK i \in 1..Len(queue) : queue'[m] = queue[i]
      BY <2>3, <1>9
    <3>2. PICK j \in 1..Len(queue) : queue'[n] = queue[j]
      BY <2>3, <1>9
    <3>3. i = j
      BY <3>1, <3>2, <1>1, <1>14 DEF DistinctBlocks
    <3> QED  BY <3>1, <3>2, <3>3, <1>9
  <2> QED  BY <2>1, <2>2, <2>3
<1>16. OneSweepBack'
  <2>1. CASE queue = <<>>
    BY <2>1, <1>9 DEF OneSweepBack
  <2>2. CASE queue # <<>>
    <3>1. \A i \in 1..Len(queue) : request'[queue[i]] \in Req
      <4>1. \A s \in Slot : s \notin FreeSlots => request[s] \in Req
        BY <1>1 DEF ElTypeOK, FreeSlots, NoRequest
      <4> QED  BY <4>1, <1>1, <1>5, <1>14 DEF ListIsTable
    <3>2. \A i \in 1..Len(queue) :
             \/ request'[queue[i]].dev # request'[r].dev
             \/ request'[queue[i]].sector # request'[r].sector
      BY <1>4, <1>6, <1>14
    <3>3. \A m, n \in 1..(Len(queue) - 1) :
              /\ ~InOrder(request'[queue[m]], request'[queue[m+1]])
              /\ ~InOrder(request'[queue[n]], request'[queue[n+1]])
              => m = n
      <4>1. \A m \in 1..(Len(queue) - 1) :
               m \in 1..Len(queue) /\ m + 1 \in 1..Len(queue)
        BY <1>5
      <4>2. \A m \in 1..(Len(queue) - 1) :
               /\ request'[queue[m]] = request[queue[m]]
               /\ request'[queue[m+1]] = request[queue[m+1]]
        BY <4>1, <1>14
      <4> QED  BY <4>2, <1>1 DEF OneSweepBack, Descent
    <3>4. \A m, n \in 1..(Len(queue') - 1) :
              /\ ~InOrder(request'[queue'[m]], request'[queue'[m+1]])
              /\ ~InOrder(request'[queue'[n]], request'[queue'[n+1]])
              => m = n
      <4> DEFINE req == request'
                 p == add_request(req, queue, r)
      <4>1. queue' = p /\ request' = req
        BY <1>2
      <4>2. /\ req \in [Slot -> Req \cup {NoRequest}]
            /\ req[r] \in Req
            /\ \A i \in 1..Len(queue) : req[queue[i]] \in Req
            /\ \A i \in 1..Len(queue) : \/ req[queue[i]].dev # req[r].dev
                                         \/ req[queue[i]].sector # req[r].sector
            /\ \A m, n \in 1..(Len(queue) - 1) :
                  /\ ~InOrder(req[queue[m]], req[queue[m+1]])
                  /\ ~InOrder(req[queue[n]], req[queue[n+1]])
                  => m = n
        BY <3>1, <3>2, <3>3, <1>4, <1>6
      <4> HIDE DEF req
      <4>3. \A m, n \in 1..(Len(p) - 1) :
              /\ ~InOrder(req[p[m]], req[p[m+1]])
              /\ ~InOrder(req[p[n]], req[p[n+1]])
              => m = n
        BY <4>2, <2>2, <1>3, <1>5, InsertKeepsSweep, Zenon
      <4> HIDE DEF p
      <4> QED
        BY <4>1, <4>3
    <3> QED  BY <3>4 DEF OneSweepBack, Descent
  <2> QED  BY <2>1, <2>2
<1> QED
  BY <1>10, <1>13, <1>15, <1>16 DEF ElInv

LEMMA EndRequestInv ==
    ASSUME ElInv, end_request
    PROVE  ElInv'
<1>1. ElTypeOK /\ ListIsTable /\ DistinctBlocks /\ OneSweepBack
  BY DEF ElInv
<1> DEFINE r == Head(queue)
<1>2. /\ queue # <<>>
      /\ request' = [request EXCEPT ![r] = NoRequest]
      /\ queue' = Tail(queue)
  BY DEF end_request
<1>3. /\ queue \in Seq(Slot) /\ Len(queue) \in Nat /\ Len(queue) >= 1
      /\ r = queue[1] /\ r \in Slot
  BY <1>1, <1>2 DEF ElTypeOK
<1> HIDE DEF r
<1>4. /\ queue' \in Seq(Slot) /\ Len(queue') = Len(queue) - 1
      /\ \A i \in 1..Len(queue') : queue'[i] = queue[i+1]
  BY <1>2, <1>3
<1>5. \A i \in 1..Len(queue') : i + 1 \in 1..Len(queue) /\ queue[i+1] # r
  BY <1>1, <1>3, <1>4 DEF ListIsTable
<1>6. /\ request' \in [Slot -> Req \cup {NoRequest}]
      /\ request'[r] = NoRequest
      /\ \A s \in Slot : s # r => request'[s] = request[s]
  BY <1>1, <1>2, <1>3 DEF ElTypeOK
<1>7. \A i \in 1..Len(queue') : request'[queue'[i]] = request[queue[i+1]]
  BY <1>3, <1>4, <1>5, <1>6
<1>8. ElTypeOK'
  BY <1>4, <1>6 DEF ElTypeOK
<1>9. ListIsTable'
  <2>1. Queued' = Queued \ {r}
    <3>1. ASSUME NEW x \in Queued, x # r PROVE x \in Queued'
      <4>1. PICK i \in 1..Len(queue) : x = queue[i]
        BY <3>1 DEF Queued
      <4>2. i - 1 \in 1..Len(queue') /\ (i - 1) + 1 = i
        BY <4>1, <3>1, <1>3, <1>4
      <4>3. x = queue'[i-1]
        BY <4>1, <4>2, <1>4
      <4> QED  BY <4>2, <4>3 DEF Queued
    <3>2. ASSUME NEW x \in Queued' PROVE x \in Queued \ {r}
      <4>1. PICK i \in 1..Len(queue') : x = queue'[i]
        BY <3>2 DEF Queued
      <4>2. x = queue[i+1] /\ i + 1 \in 1..Len(queue) /\ x # r
        BY <4>1, <1>4, <1>5
      <4> QED  BY <4>2 DEF Queued
    <3> QED  BY <3>1, <3>2
  <2>2. Slot \ FreeSlots' = (Slot \ FreeSlots) \ {r}
    BY <1>3, <1>6 DEF FreeSlots, NoRequest
  <2>3. \A m, n \in 1..Len(queue') : m # n => queue'[m] # queue'[n]
    BY <1>1, <1>3, <1>4, <1>5 DEF ListIsTable
  <2> QED
    BY <2>1, <2>2, <2>3, <1>1 DEF ListIsTable
<1>10. DistinctBlocks'
  <2> SUFFICES ASSUME NEW m \in 1..Len(queue'), NEW n \in 1..Len(queue'),
                      request'[queue'[m]].dev = request'[queue'[n]].dev,
                      request'[queue'[m]].sector = request'[queue'[n]].sector
               PROVE  m = n
    BY DEF DistinctBlocks
  <2>1. m + 1 \in 1..Len(queue) /\ n + 1 \in 1..Len(queue)
    BY <1>5
  <2>2. /\ request[queue[m+1]].dev = request[queue[n+1]].dev
        /\ request[queue[m+1]].sector = request[queue[n+1]].sector
    BY <1>7
  <2>3. m + 1 = n + 1
    BY <2>1, <2>2, <1>1 DEF DistinctBlocks
  <2> QED
    BY <2>3, <1>4
<1>11. OneSweepBack'
  <2>1. \A m \in 1..(Len(queue') - 1) :
           m + 1 \in 1..(Len(queue) - 1) /\ (Descent(m)' => Descent(m+1))
    <3> TAKE m \in 1..(Len(queue') - 1)
    <3>1. m \in 1..Len(queue') /\ m + 1 \in 1..Len(queue')
          /\ m + 1 \in 1..(Len(queue) - 1)
      BY <1>3, <1>4
    <3> QED  BY <3>1, <1>7 DEF Descent
  <2> QED
    BY <2>1, <1>1, <1>3, <1>4 DEF OneSweepBack
<1> QED
  BY <1>8, <1>9, <1>10, <1>11 DEF ElInv

LEMMA ElStepInv == ElInv /\ [ElNext]_elVars => ElInv'
<1> SUFFICES ASSUME ElInv, [ElNext]_elVars PROVE ElInv'
  OBVIOUS
<1>1. CASE ElNext
  BY <1>1, MakeRequestInv, EndRequestInv DEF ElNext
<1>2. CASE UNCHANGED elVars
  BY <1>2 DEF elVars, ElInv, ElTypeOK, ListIsTable, DistinctBlocks,
       OneSweepBack, Descent, Queued, FreeSlots
<1> QED
  BY <1>1, <1>2

(* add_request keeps a device's list a list of exactly the used slots,     *)
(* each once, whatever the table size and the requests.                    *)
THEOREM ListHoldsTable == ElSpec => [](ElTypeOK /\ ListIsTable)
<1>1. ElInv => ElTypeOK /\ ListIsTable
  BY DEF ElInv
<1> QED
  BY <1>1, ElInitInv, ElStepInv, PTL DEF ElSpec

(* The list never goes back more than once in IN_ORDER: the elevator of    *)
(* ll_rw_blk.cc:79-83 is right for every number of requests and sectors.   *)
THEOREM ElevatorSweeps == ElSpec => []OneSweepBack
<1>1. ElInv => OneSweepBack
  BY DEF ElInv
<1> QED
  BY <1>1, ElInitInv, ElStepInv, PTL DEF ElSpec

-----------------------------------------------------------------------------
(* The blocks with a request in the list: make_request adds one, and       *)
(* end_request takes one away.                                             *)
Block(r) == [dev |-> request[r].dev, sector |-> request[r].sector]
Blocks == {Block(r) : r \in Queued}

LEMMA MakeAddsBlock ==
    ASSUME ElInv, NEW rw \in {READ, WRITE}, NEW dev \in Dev, NEW sector \in Sector,
           make_request(rw, dev, sector)
    PROVE  /\ [dev |-> dev, sector |-> sector] \notin Blocks
           /\ Blocks' = Blocks \cup {[dev |-> dev, sector |-> sector]}
<1> DEFINE new == [cmd |-> rw, dev |-> dev, sector |-> sector, used |-> TRUE]
<1>1. ElInv'
  BY MakeRequestInv
<1>2. PICK r : r = FindSlot(rw, FreeSlots)
  OBVIOUS
<1>3. /\ \A s \in Queued : request[s].dev # dev \/ request[s].sector # sector
      /\ r \in FreeSlots /\ r \in Slot
      /\ request' = [request EXCEPT ![r] = new]
  <2>1. FreeSlots \in SUBSET Slot
    BY DEF FreeSlots
  <2> QED  BY <1>1, <1>2, <2>1, FindSlotType DEF make_request
<1>4. /\ request'[r].dev = dev /\ request'[r].sector = sector /\ request'[r].used
      /\ \A s \in Slot : s # r => request'[s] = request[s]
  BY <1>1, <1>3 DEF ElInv, ElTypeOK
<1>5. Queued' = Queued \cup {r} /\ r \notin Queued /\ Queued \subseteq Slot
  <2>1. Queued = Slot \ FreeSlots /\ Queued' = Slot \ FreeSlots'
    BY <1>1 DEF ElInv, ListIsTable, Slot
  <2> QED  BY <2>1, <1>3, <1>4 DEF FreeSlots
<1>6. \A s \in Queued : Block(s)' = Block(s)
  BY <1>4, <1>5 DEF Block
<1>7. Block(r)' = [dev |-> dev, sector |-> sector]
  BY <1>4 DEF Block
<1>8. \A s \in Queued : Block(s) # [dev |-> dev, sector |-> sector]
  BY <1>3 DEF Block
<1> QED
  BY <1>5, <1>6, <1>7, <1>8 DEF Blocks

LEMMA EndRemovesBlock ==
    ASSUME ElInv, end_request
    PROVE  \E j \in [dev : Dev, sector : Sector] : j \in Blocks /\ Blocks' = Blocks \ {j}
<1> DEFINE r == Head(queue)
<1>1. ElInv /\ ElInv'
  BY EndRequestInv
<1>2. /\ queue # <<>>
      /\ request' = [request EXCEPT ![r] = NoRequest]
  BY DEF end_request
<1>3. /\ queue \in Seq(Slot) /\ Len(queue) \in Nat /\ 1 \in 1..Len(queue)
      /\ r = queue[1] /\ r \in Slot /\ r \in Queued
  BY <1>1, <1>2 DEF ElInv, ElTypeOK, Queued
<1> HIDE DEF r
<1>4. \A s \in Slot : s # r => request'[s] = request[s]
  BY <1>1, <1>2, <1>3 DEF ElInv, ElTypeOK
<1>5. Queued' = Queued \ {r} /\ Queued \subseteq Slot
  <2>1. Queued = Slot \ FreeSlots /\ Queued' = Slot \ FreeSlots'
    BY <1>1 DEF ElInv, ListIsTable, Slot
  <2>2. ~request'[r].used
    BY <1>1, <1>2, <1>3 DEF ElInv, ElTypeOK, NoRequest
  <2> QED  BY <2>1, <2>2, <1>3, <1>4 DEF FreeSlots
<1>6. \A s \in Queued' : Block(s)' = Block(s)
  BY <1>4, <1>5 DEF Block
<1>7. \A s \in Queued' : Block(s) # Block(r)
  <2> TAKE s \in Queued'
  <2>1. PICK k \in 1..Len(queue) : s = queue[k]
    BY <1>5 DEF Queued
  <2>2. k # 1
    BY <2>1, <1>3, <1>5
  <2>3. request[s].dev # request[r].dev \/ request[s].sector # request[r].sector
    BY <2>1, <2>2, <1>1, <1>3 DEF ElInv, DistinctBlocks
  <2> QED  BY <2>3 DEF Block
<1>8. Block(r) \in [dev : Dev, sector : Sector]
  <2>1. request[r] \in Req
    BY <1>1, <1>3 DEF ElInv, ElTypeOK, ListIsTable, FreeSlots, NoRequest
  <2> QED  BY <2>1 DEF Block, Req
<1>9. Block(r) \in Blocks /\ Blocks' = Blocks \ {Block(r)}
  BY <1>3, <1>5, <1>6, <1>7 DEF Blocks
<1> QED
  BY <1>8, <1>9

=============================================================================
