--------------------------- MODULE Floppy_proofs ---------------------------
(***************************************************************************)
(* The floppy driver: its chain of timers, functions and interrupts does   *)
(* not break and does not fork, the drive it works on stays selected, and, *)
(* but for liveness, it is a block device: for any table, any number of    *)
(* drives, requests and errors.                                            *)
(*                                                                         *)
(* The theorems assume Patient: no request comes while the driver recovers *)
(* from an error with an empty list.                                       *)
(***************************************************************************)
EXTENDS Floppy, Elevator_proofs, SequenceTheorems

Timeouts == {"floppy_on_interrupt", "transfer"}
Places == {"none", "do_fd_request", "repeat"} \cup Timeouts

(* What the next action of the driver is, if it waits for a timer.         *)
Waits(fn) == timers # <<>> /\ timers[1].fn = fn

FlpTypeOK ==
    /\ \/ timers = <<>>
       \/ /\ timers = <<[j |-> timers[1].j, fn |-> timers[1].fn]>>
          /\ timers[1].fn \in Timeouts
    /\ call \in Places
    /\ ctl.cmd \in {"none", "reset", "recal", "seek", "rw"}

(* The driver is at one place.  Between do_fd_request and the end of the   *)
(* transfer its request is in the list.                                    *)
ThreadOK ==
    /\ timers # <<>> => call = "none" /\ ctl.cmd = "none"
    /\ call # "none" => ctl.cmd = "none"
    /\ queue # <<>> => timers # <<>> \/ call # "none" \/ ctl.cmd # "none"
    /\ queue = <<>> => timers = <<>> /\ call \notin Timeouts /\ ctl.cmd \notin {"seek", "rw"}

(* The interrupt of a command finds the handler for it.  A transfer is     *)
(* that of the request at the head.                                        *)
CommandOK ==
    /\ ctl.cmd # "none" => do_floppy = ctl.cmd
    /\ ctl.cmd = "rw" => ctl.job = JobOf(Head(queue))

(* From floppy_on_interrupt on the drive is selected.                      *)
SelectOK ==
    call = "transfer" \/ Waits("transfer") \/ ctl.cmd \in {"seek", "rw"} =>
        selected /\ dor = current_drive

FlpInv == ElInv /\ FlpTypeOK /\ ThreadOK /\ CommandOK /\ SelectOK

-----------------------------------------------------------------------------
(* add_timer on an empty list.                                             *)
LEMMA AddFirstTimer ==
    ASSUME NEW j, NEW fn
    PROVE  \E i : add_timer(<<>>, j, fn) = <<[j |-> i, fn |-> fn]>>
<1> DEFINE before(k) == FoldLeft(LAMBDA n, t : n + t.j, 0, SubSeq(<<>>, 1, k))
           stops(k) == k = Len(<<>>) \/ <<>>[k + 1].j >= j - before(k)
           first == CHOOSE n \in 0..Len(<<>>) : stops(n) /\ \A i \in 0..(n - 1) : ~stops(i)
<1>1. first = 0
  <2> HIDE DEF before
  <2> QED  OBVIOUS
<1>2. add_timer(<<>>, j, fn) = InsertAt(<<>>, first + 1, [j |-> j - before(first), fn |-> fn])
  BY Zenon DEF add_timer
<1> HIDE DEF stops, first, before
<1>3. ASSUME NEW x PROVE InsertAt(<<>>, 1, x) = <<x>>
  <2>1. SubSeq(<<>>, 1, 0) = <<>>
    BY SubSeqEmpty
  <2>2. 1 - 1 = 0 /\ Len(<<>>) = 0
    OBVIOUS
  <2>3. InsertAt(<<>>, 1, x) = (<<>> \o <<x>>) \o <<>>
    BY <2>1, <2>2, Zenon DEF InsertAt
  <2>4. <<x>> \in Seq({x})
    OBVIOUS
  <2> QED  BY <2>3, <2>4, ConcatEmptySeq
<1> QED
  BY <1>1, <1>2, <1>3

(* add_request never puts a request before the head.                       *)
LEMMA HeadStays ==
    ASSUME ElInv, queue # <<>>, NEW rw \in {READ, WRITE}, NEW dev \in Dev,
           NEW sector \in Sector, make_request(rw, dev, sector)
    PROVE  /\ queue' # <<>> /\ Head(queue') = Head(queue)
           /\ request'[Head(queue)] = request[Head(queue)]
<1> DEFINE r == FindSlot(rw, FreeSlots)
           req == request'
           p == add_request(req, queue, r)
           new == [cmd |-> rw, dev |-> dev, sector |-> sector, used |-> TRUE]
<1>1. queue' = p /\ r # 0 /\ request' = [request EXCEPT ![r] = new]
  BY DEF make_request
<1>2. r \in FreeSlots /\ r \in Slot
  <2>1. FreeSlots \in SUBSET Slot
    BY DEF FreeSlots
  <2> QED  BY <2>1, <1>1, FindSlotType
<1> HIDE DEF r, new
<1>3. queue \in Seq(Slot) /\ Len(queue) \in Nat \ {0} /\ Head(queue) = queue[1]
  BY DEF ElInv, ElTypeOK
<1>4. Place(req, queue, r) \in 1..Len(queue)
  BY <1>3, PlaceProperty
<1>5. DOMAIN p = 1..(Len(queue) + 1) /\ p[1] = queue[1]
  BY <1>3, <1>4 DEF add_request
<1>6. p \in Seq(Slot)
  BY <1>2, <1>3, AddRequestList
<1>7. queue[1] # r /\ queue[1] \in Slot
  <2>1. queue[1] \in Queued
    BY <1>3 DEF Queued
  <2> QED  BY <2>1, <1>2 DEF ElInv, ListIsTable
<1> HIDE DEF p
<1>8. request'[queue[1]] = request[queue[1]]
  BY <1>1, <1>7 DEF ElInv, ElTypeOK
<1> QED
  BY <1>1, <1>3, <1>5, <1>6, <1>8

LEMMA MakeLengthens ==
    ASSUME ElInv, NEW rw \in {READ, WRITE}, NEW dev \in Dev,
           NEW sector \in Sector, make_request(rw, dev, sector)
    PROVE  queue' # <<>>
<1> DEFINE r == FindSlot(rw, FreeSlots)
           req == request'
           p == add_request(req, queue, r)
<1>1. queue' = p /\ r # 0
  BY DEF make_request
<1>2. r \in Slot
  <2>1. FreeSlots \in SUBSET Slot
    BY DEF FreeSlots
  <2> QED  BY <2>1, <1>1, FindSlotType
<1>3. queue \in Seq(Slot) /\ Len(queue) \in Nat
  BY DEF ElInv, ElTypeOK
<1> HIDE DEF r
<1>4. DOMAIN p = 1..(Len(queue) + 1)
  BY DEF add_request
<1> HIDE DEF p
<1> QED  BY <1>1, <1>3, <1>4

(* Every step of the driver is a step of the elevator or leaves its list.  *)
LEMMA FlpListStep == [FlpNext]_flpVars => [ElNext]_elVars
<1> SUFFICES ASSUME [FlpNext]_flpVars PROVE ElNext \/ UNCHANGED <<request, queue>>
  BY DEF elVars
<1>1. ASSUME NEW rw \in {READ, WRITE}, NEW dev \in Dev, NEW sector \in Sector,
             MakeRequest(rw, dev, sector)
      PROVE  ElNext
  BY <1>1 DEF MakeRequest, ElNext
<1>2. ASSUME NEW how, EndHead(how) PROVE ElNext
  BY <1>2 DEF EndHead, ElNext
<1>3. CASE BadInterrupt
  BY <1>2, <1>3 DEF BadInterrupt, bad_flp_intr
<1>4. CASE OutOfRange \/ rw_interrupt
  BY <1>2, <1>4 DEF OutOfRange, rw_interrupt
<1>5. CASE reset_floppy \/ recalibrate_floppy \/ NoRequestLeft \/ do_fd_request
           \/ floppy_on_interrupt \/ transfer
  BY <1>5 DEF reset_floppy, recalibrate_floppy, NoRequestLeft, do_fd_request,
       floppy_on_interrupt, transfer
<1>6. CASE seek_interrupt \/ recal_interrupt \/ reset_interrupt \/ unexpected_floppy_interrupt
  BY <1>6 DEF seek_interrupt, recal_interrupt, reset_interrupt, unexpected_floppy_interrupt
<1>7. CASE Timer \/ Changer
  BY <1>7 DEF Timer, Changer, Tick, FireTimer, do_floppy_timer, floppy_on, floppy_change,
       MotorTested, FallAsleep, DriveTested, SelectedTested, ChangeGoes
<1>8. ASSUME NEW nr \in Dev, ChangeCalled(nr) PROVE UNCHANGED <<request, queue>>
  BY <1>8 DEF ChangeCalled
<1>9. CASE UNCHANGED flpVars
  BY <1>9 DEF flpVars
<1> QED
  BY <1>1, <1>3, <1>4, <1>5, <1>6, <1>7, <1>8, <1>9, FloppyAssumption DEF FlpNext, Driver

LEMMA FlpInitInv == FlpInit => FlpInv
<1> SUFFICES ASSUME FlpInit PROVE FlpInv
  OBVIOUS
<1>1. /\ queue = <<>> /\ timers = <<>> /\ call = "none" /\ ctl.cmd = "none"
  BY DEF FlpInit, ElInit
<1>2. FlpTypeOK /\ ThreadOK /\ CommandOK /\ SelectOK
  BY <1>1 DEF FlpTypeOK, ThreadOK, CommandOK, SelectOK, Places, Timeouts, Waits
<1> QED
  BY <1>2, ElInitInv DEF FlpInit, FlpInv

(* One lemma for the steps that leave the list, or only make a request     *)
(* behind its head, and the place of the driver alone.                     *)
LEMMA Undisturbed ==
    ASSUME FlpInv, UNCHANGED <<queue, request, timers, call, ctl, do_floppy, current_drive>>,
           selected => selected' /\ dor' = dor
    PROVE  FlpTypeOK' /\ ThreadOK' /\ CommandOK' /\ SelectOK'
BY DEF FlpInv, FlpTypeOK, ThreadOK, CommandOK, SelectOK, Waits, JobOf

(* A step of a function that runs, or of an interrupt, has the driver to   *)
(* itself: no timer is set.                                                *)
LEMMA Alone ==
    ASSUME FlpInv, call # "none" \/ ctl.cmd # "none"
    PROVE  timers = <<>>
BY DEF FlpInv, ThreadOK

(* It calls another function, ...                                          *)
LEMMA ThenCalls ==
    ASSUME timers' = <<>>, ctl'.cmd = "none", call' \in Places \ {"none"},
           call' \in Timeouts => queue' # <<>>,
           call' = "transfer" => selected' /\ dor' = current_drive'
    PROVE  FlpTypeOK' /\ ThreadOK' /\ CommandOK' /\ SelectOK'
BY DEF FlpTypeOK, ThreadOK, CommandOK, SelectOK, Waits

(* ... or starts a command, ...                                            *)
LEMMA ThenCommands ==
    ASSUME timers' = <<>>, call' = "none",
           NEW cmd \in {"reset", "recal", "seek", "rw"},
           ctl'.cmd = cmd, do_floppy' = cmd,
           cmd \in {"seek", "rw"} => queue' # <<>> /\ selected' /\ dor' = current_drive',
           cmd = "rw" => ctl'.job = JobOf(Head(queue))'
    PROVE  FlpTypeOK' /\ ThreadOK' /\ CommandOK' /\ SelectOK'
BY DEF FlpTypeOK, ThreadOK, CommandOK, SelectOK, Waits, Places, Timeouts

(* ... or sets a timer.                                                    *)
LEMMA ThenWaits ==
    ASSUME timers = <<>>, NEW j, NEW fn \in Timeouts, timers' = add_timer(timers, j, fn),
           call' = "none", ctl'.cmd = "none", queue' # <<>>,
           fn = "transfer" => selected' /\ dor' = current_drive'
    PROVE  FlpTypeOK' /\ ThreadOK' /\ CommandOK' /\ SelectOK'
<1>1. PICK i : timers' = <<[j |-> i, fn |-> fn]>>
  BY AddFirstTimer
<1>2. timers' # <<>> /\ timers'[1].j = i /\ timers'[1].fn = fn
  BY <1>1
<1>3. timers' = <<[j |-> timers'[1].j, fn |-> timers'[1].fn]>>
  BY <1>1, <1>2
<1> QED
  BY <1>2, <1>3 DEF FlpTypeOK, ThreadOK, CommandOK, SelectOK, Waits, Places

LEMMA MakeOK ==
    ASSUME FlpInv, Patient, NEW rw \in {READ, WRITE}, NEW dev \in Dev,
           NEW sector \in Sector, MakeRequest(rw, dev, sector)
    PROVE  FlpTypeOK' /\ ThreadOK' /\ CommandOK' /\ SelectOK'
<1>1. /\ make_request(rw, dev, sector) /\ call = "none"
      /\ queue # <<>> \/ (timers = <<>> /\ ctl.cmd = "none")
      /\ call' = IF queue = <<>> THEN "do_fd_request" ELSE "none"
      /\ UNCHANGED <<timers, ctl, do_floppy, current_drive, selected, dor>>
  BY DEF MakeRequest, Idle, place, clock, motors
<1>2. ElInv
  BY DEF FlpInv
<1>3. CASE queue = <<>>
  BY <1>1, <1>3, ThenCalls DEF Places, Timeouts
<1>4. CASE queue # <<>>
  <2>1. /\ queue' # <<>> /\ Head(queue') = Head(queue)
        /\ request'[Head(queue)] = request[Head(queue)]
    BY <1>1, <1>2, <1>4, HeadStays
  <2>2. JobOf(Head(queue))' = JobOf(Head(queue))
    BY <2>1 DEF JobOf
  <2> QED
    BY <1>1, <1>4, <2>1, <2>2
       DEF FlpInv, FlpTypeOK, ThreadOK, CommandOK, SelectOK, Waits
<1> QED
  BY <1>3, <1>4

LEMMA TimerOK ==
    ASSUME FlpInv, Timer
    PROVE  FlpTypeOK' /\ ThreadOK' /\ CommandOK' /\ SelectOK'
<1>1. CASE Tick
  <2>1. /\ UNCHANGED <<queue, request, call, ctl, do_floppy, current_drive, selected, dor>>
        /\ timers' = IF timers = <<>> THEN timers ELSE [timers EXCEPT ![1].j = @ - 1]
    BY <1>1 DEF Tick, place, motors
  <2>2. CASE timers = <<>>
    BY <2>1, <2>2, Undisturbed
  <2>3. CASE timers # <<>>
    <3> DEFINE i == timers[1].j
               fn == timers[1].fn
    <3>1. timers = <<[j |-> i, fn |-> fn]>> /\ fn \in Timeouts
      BY <2>3 DEF FlpInv, FlpTypeOK
    <3>2. timers' = [timers EXCEPT ![1].j = @ - 1]
      BY <2>1, <2>3
    <3>3. timers' = <<[j |-> i - 1, fn |-> fn]>>
      <4> HIDE DEF i, fn
      <4> QED  BY <3>1, <3>2
    <3>4. timers' # <<>> /\ timers'[1].fn = fn /\ timers'[1].j = i - 1
      BY <3>3
    <3> HIDE DEF i, fn
    <3>5. timers' = <<[j |-> timers'[1].j, fn |-> timers'[1].fn]>>
      BY <3>3, <3>4
    <3>6. Waits("transfer")' => Waits("transfer")
      BY <3>4, <2>3 DEF Waits, fn
    <3>7. JobOf(Head(queue))' = JobOf(Head(queue))
      BY <2>1 DEF JobOf
    <3>8. FlpTypeOK'
      BY <3>1, <3>4, <3>5, <2>1 DEF FlpInv, FlpTypeOK
    <3> QED
      BY <3>4, <3>6, <3>7, <3>8, <2>1, <2>3 DEF FlpInv, ThreadOK, CommandOK, SelectOK
  <2> QED  BY <2>2, <2>3
<1>2. CASE FireTimer
  <2>1. /\ timers # <<>> /\ timers' = Tail(timers) /\ call' = Head(timers).fn
        /\ UNCHANGED <<queue, ctl, current_drive, selected, dor>>
    BY <1>2 DEF FireTimer, Due, place, motors
  <2> DEFINE i == timers[1].j
             fn == timers[1].fn
  <2>2. timers = <<[j |-> i, fn |-> fn]>> /\ fn \in Timeouts
    BY <2>1 DEF FlpInv, FlpTypeOK
  <2>3. fn = "transfer" => selected /\ dor = current_drive
    BY <2>1 DEF FlpInv, SelectOK, Waits
  <2> HIDE DEF i, fn
  <2>4. timers' = <<>> /\ call' = fn
    BY <2>1, <2>2
  <2>5. queue # <<>> /\ ctl.cmd = "none"
    BY <2>1 DEF FlpInv, ThreadOK
  <2> QED  BY <2>1, <2>2, <2>3, <2>4, <2>5, ThenCalls DEF Places, Timeouts
<1>3. CASE do_floppy_timer
  BY <1>3, Undisturbed DEF do_floppy_timer, place
<1> QED
  BY <1>1, <1>2, <1>3 DEF Timer

LEMMA ChangerOK ==
    ASSUME FlpInv, Changer \/ \E nr \in Dev : ChangeCalled(nr)
    PROVE  FlpTypeOK' /\ ThreadOK' /\ CommandOK' /\ SelectOK'
<1>1. CASE floppy_on
  BY <1>1, Undisturbed DEF floppy_on, ticks_to_floppy_on, place, clock
<1>2. CASE floppy_change
  BY <1>2, Undisturbed DEF floppy_change, place, clock
<1>3. CASE \E nr \in Dev : ChangeCalled(nr)
  <2>1. UNCHANGED <<request, queue, place, selected, motors, clock, call, do_floppy, ctl>>
    BY <1>3 DEF ChangeCalled
  <2> QED  BY <2>1, Undisturbed DEF place, clock, motors
<1>4. ASSUME NEW pc, NEW q, ChangeGoes(pc, q)
      PROVE  FlpTypeOK' /\ ThreadOK' /\ CommandOK' /\ SelectOK'
  BY <1>4, Undisturbed DEF ChangeGoes, place, clock, motors
<1>5. CASE MotorTested \/ FallAsleep \/ DriveTested \/ SelectedTested
  BY <1>4, <1>5 DEF MotorTested, FallAsleep, DriveTested, SelectedTested
<1> QED
  BY <1>1, <1>2, <1>3, <1>5 DEF Changer

(* The functions: each starts where nothing else is under way.             *)
LEMMA FunctionOK ==
    ASSUME FlpInv,
           \/ reset_floppy \/ recalibrate_floppy \/ NoRequestLeft \/ OutOfRange
           \/ do_fd_request \/ floppy_on_interrupt \/ transfer
    PROVE  FlpTypeOK' /\ ThreadOK' /\ CommandOK' /\ SelectOK'
<1>1. call # "none"
  BY DEF reset_floppy, recalibrate_floppy, NoRequestLeft, OutOfRange, do_fd_request,
       floppy_on_interrupt, transfer, Starts
<1>2. timers = <<>> /\ ctl.cmd = "none"
  BY <1>1, Alone DEF FlpInv, ThreadOK
<1>3. CASE reset_floppy
  BY <1>2, <1>3, ThenCommands DEF reset_floppy, Command, clock
<1>4. CASE recalibrate_floppy
  <2>1. CASE Command("recal", "recal", NoJob) /\ call' = "none"
    BY <1>2, <1>4, <2>1, ThenCommands DEF recalibrate_floppy, Command, clock
  <2>2. CASE Command("recal", "none", NoJob) /\ UNCHANGED call
    BY <1>2, <1>4, <2>2, ThenCalls DEF recalibrate_floppy, Command, clock, Places, Timeouts
  <2> QED  BY <1>4, <2>1, <2>2 DEF recalibrate_floppy
<1>5. CASE NoRequestLeft
  BY <1>2, <1>5 DEF NoRequestLeft, clock, FlpTypeOK, ThreadOK, CommandOK, SelectOK, Waits,
       Places, Timeouts
<1>6. CASE OutOfRange
  BY <1>2, <1>6, ThenCalls DEF OutOfRange, clock, Places, Timeouts
<1>7. CASE do_fd_request
  <2>1. queue' # <<>> /\ ctl' = ctl
    BY <1>7 DEF do_fd_request
  <2>2. CASE mon_timer'[CURRENT.dev] > 0
    <3>1. /\ timers' = add_timer(timers, mon_timer'[CURRENT.dev], "floppy_on_interrupt")
          /\ call' = "none"
      BY <1>7, <2>2 DEF do_fd_request
    <3> QED  BY <3>1, <2>1, <1>2, ThenWaits DEF Timeouts
  <2>3. CASE ~(mon_timer'[CURRENT.dev] > 0)
    <3>1. timers' = timers /\ call' = "floppy_on_interrupt"
      BY <1>7, <2>3 DEF do_fd_request
    <3> QED  BY <3>1, <2>1, <1>2, ThenCalls DEF Places, Timeouts
  <2> QED  BY <2>2, <2>3
<1>8. CASE floppy_on_interrupt
  <2>1. /\ queue' # <<>> /\ ctl' = ctl /\ selected' /\ dor' = current_drive'
    BY <1>8 DEF floppy_on_interrupt, place, FlpInv, ThreadOK, Timeouts
  <2>2. CASE current_drive # dor
    <3>1. timers' = add_timer(timers, 2, "transfer") /\ call' = "none"
      BY <1>8, <2>2 DEF floppy_on_interrupt
    <3> QED  BY <3>1, <2>1, <1>2, ThenWaits DEF Timeouts
  <2>3. CASE current_drive = dor
    BY <1>2, <1>8, <2>1, <2>3, ThenCalls DEF floppy_on_interrupt, Places, Timeouts
  <2> QED  BY <2>2, <2>3
<1>9. CASE transfer
  <2>1. /\ queue # <<>> /\ selected /\ dor = current_drive
        /\ UNCHANGED <<queue, request, timers, selected, dor, current_drive>>
    BY <1>9 DEF transfer, place, motors, clock, FlpInv, ThreadOK, SelectOK, Timeouts
  <2>2. CASE call' = "do_fd_request" /\ ctl' = ctl
    BY <1>2, <2>1, <2>2, ThenCalls DEF Places, Timeouts
  <2>3. CASE call' = "none" /\ Command("seek", "seek", NoJob)
    BY <1>2, <2>1, <2>3, ThenCommands DEF Command
  <2>4. CASE call' = "none" /\ Command("rw", "rw", Transferred)
    <3>1. ctl'.cmd = "rw" /\ do_floppy' = "rw" /\ ctl'.job = JobOf(Head(queue))
      BY <2>1, <2>4 DEF Command, Transferred
    <3>2. JobOf(Head(queue))' = JobOf(Head(queue))
      BY <2>1 DEF JobOf
    <3> QED  BY <1>2, <2>1, <2>4, <3>1, <3>2, ThenCommands
  <2> QED  BY <1>9, <2>2, <2>3, <2>4 DEF transfer
<1> QED
  BY <1>3, <1>4, <1>5, <1>6, <1>7, <1>8, <1>9

(* The interrupts: each is the answer to the one command under way.        *)
LEMMA InterruptOK ==
    ASSUME FlpInv,
           \/ seek_interrupt \/ BadInterrupt \/ rw_interrupt \/ recal_interrupt
           \/ reset_interrupt \/ unexpected_floppy_interrupt
    PROVE  FlpTypeOK' /\ ThreadOK' /\ CommandOK' /\ SelectOK'
<1>1. CASE unexpected_floppy_interrupt
  BY <1>1, Undisturbed DEF unexpected_floppy_interrupt, place, motors, clock
<1>2. ASSUME Answered, ctl.cmd # "none", UNCHANGED timers, call' = "do_fd_request"
      PROVE  FlpTypeOK' /\ ThreadOK' /\ CommandOK' /\ SelectOK'
  BY <1>2, Alone, ThenCalls DEF Answered, Places, Timeouts
<1>3. CASE BadInterrupt \/ rw_interrupt \/ recal_interrupt \/ reset_interrupt
  BY <1>2, <1>3 DEF BadInterrupt, rw_interrupt, recal_interrupt, reset_interrupt, Interrupt,
       clock
<1>4. CASE seek_interrupt
  <2>1. /\ ctl.cmd # "none" /\ do_floppy = "seek" /\ call = "none" /\ do_floppy' = "rw"
        /\ UNCHANGED <<queue, request, timers, selected, dor, current_drive>>
    BY <1>4 DEF seek_interrupt, Interrupt, Idle, motors, clock
  <2>2. ctl.cmd = "seek"
    BY <2>1 DEF FlpInv, CommandOK
  <2>3. timers = <<>> /\ queue # <<>> /\ selected /\ dor = current_drive
    BY <2>2 DEF FlpInv, ThreadOK, SelectOK
  <2>4. CASE ctl' = [cmd |-> "rw", job |-> Transferred] /\ UNCHANGED call
    <3>1. ctl'.cmd = "rw" /\ ctl'.job = JobOf(Head(queue))
      BY <2>3, <2>4 DEF Transferred
    <3>2. JobOf(Head(queue))' = JobOf(Head(queue))
      BY <2>1 DEF JobOf
    <3> QED  BY <2>1, <2>3, <2>4, <3>1, <3>2, ThenCommands
  <2>5. CASE ctl' = [cmd |-> "none", job |-> NoJob] /\ call' = "do_fd_request"
    BY <2>1, <2>3, <2>5, ThenCalls DEF Places, Timeouts
  <2> QED  BY <1>4, <2>4, <2>5 DEF seek_interrupt
<1> QED
  BY <1>1, <1>3, <1>4

LEMMA FlpStepInv == Patient /\ FlpInv /\ [FlpNext]_flpVars => FlpInv'
<1> SUFFICES ASSUME Patient, FlpInv, [FlpNext]_flpVars PROVE FlpInv'
  OBVIOUS
<1>1. ElInv'
  BY FlpListStep, ElStepInv DEF FlpInv
<1> SUFFICES FlpTypeOK' /\ ThreadOK' /\ CommandOK' /\ SelectOK'
  BY <1>1 DEF FlpInv
<1>2. CASE UNCHANGED flpVars
  BY <1>2, Undisturbed DEF flpVars, place, clock, motors
<1> QED
  BY <1>2, MakeOK, TimerOK, ChangerOK, FunctionOK, InterruptOK, FloppyAssumption
     DEF FlpNext, Driver

(* While a seek or a transfer is under way its drive is selected, whatever *)
(* floppy_change asks for.                                                 *)
THEOREM DriveStaysSelected == ASSUME Patient PROVE FlpSpec => []DriveSelected
<1>1. FlpInv => DriveSelected
  BY DEF FlpInv, SelectOK, DriveSelected
<1> QED
  BY <1>1, FlpInitInv, FlpStepInv, PTL DEF FlpSpec

(* The chain of functions, timers and commands neither breaks nor forks.   *)
THEOREM DriverIsOneThread == ASSUME Patient PROVE FlpSpec => []OneThread
<1>1. FlpInv => OneThread
  <2> SUFFICES ASSUME FlpInv PROVE OneThread
    OBVIOUS
  <2>1. \/ timers = <<>> /\ Len(timers) = 0
        \/ timers # <<>> /\ Len(timers) = 1
    BY DEF FlpInv, FlpTypeOK
  <2>2. PICK n : n = Len(timers)
    OBVIOUS
  <2>3. n \in {0, 1} /\ (n = 0 <=> timers = <<>>)
    BY <2>1, <2>2
  <2>4. PICK c : c = IF call # "none" THEN 1 ELSE 0
    OBVIOUS
  <2>5. PICK d : d = IF ctl.cmd # "none" THEN 1 ELSE 0
    OBVIOUS
  <2>6. n + c + d <= 1 /\ (queue # <<>> => n + c + d = 1)
    <3>1. /\ n = 1 => c = 0 /\ d = 0
          /\ c = 1 => d = 0
          /\ queue # <<>> => n = 1 \/ c = 1 \/ d = 1
      BY <2>3, <2>4, <2>5 DEF FlpInv, ThreadOK
    <3>2. c \in {0, 1} /\ d \in {0, 1}
      BY <2>4, <2>5
    <3> QED  BY <2>3, <3>1, <3>2
  <2> QED  BY <2>2, <2>4, <2>5, <2>6 DEF OneThread
<1> QED
  BY <1>1, FlpInitInv, FlpStepInv, PTL DEF FlpSpec

-----------------------------------------------------------------------------
(* The transfer that ends was set up for the request at the head.          *)
LEMMA MovesHead ==
    ASSUME FlpInv, rw_interrupt
    PROVE  \E how \in {"moved", "failed"} : EndHead(how)
<1>1. ctl.cmd # "none" /\ do_floppy = "rw"
  BY DEF rw_interrupt, Interrupt
<1>2. ctl.job = JobOf(Head(queue))
  BY <1>1 DEF FlpInv, CommandOK
<1>3. \/ EndHead(IF ctl.job = JobOf(Head(queue)) THEN "moved" ELSE "wrong")
      \/ EndHead("failed")
  BY DEF rw_interrupt
<1> QED
  BY <1>2, <1>3

LEMMA FlpDeviceStep ==
    FlpInv /\ [FlpNext]_flpVars => [Device!DevNext]_<<{JobOf(r) : r \in Queued}, ended>>
<1> DEFINE pending == {JobOf(r) : r \in Queued}
<1> SUFFICES ASSUME FlpInv, [FlpNext]_flpVars
             PROVE  Device!DevNext \/ UNCHANGED <<pending, ended>>
  OBVIOUS
<1>1. ElInv /\ pending = Blocks /\ pending' = Blocks'
  BY DEF FlpInv, JobOf, Blocks, Block
<1>2. ASSUME UNCHANGED <<request, queue, ended>> PROVE UNCHANGED <<pending, ended>>
  BY <1>2 DEF JobOf, Queued
<1> HIDE DEF pending
<1>3. ASSUME NEW rw \in {READ, WRITE}, NEW dev \in Dev, NEW sector \in Sector,
             MakeRequest(rw, dev, sector)
      PROVE  Device!DevNext
  <2> DEFINE j == [dev |-> dev, sector |-> sector]
  <2>1. j \in Job
    BY DEF Job
  <2>2. j \notin pending /\ pending' = pending \cup {j} /\ ended' = ended
    BY <1>1, <1>3, MakeAddsBlock DEF MakeRequest
  <2> HIDE DEF j
  <2> QED  BY <2>1, <2>2 DEF Device!DevNext, Device!Submit, pending
<1>4. ASSUME NEW how \in {"moved", "failed"}, EndHead(how)
      PROVE  Device!DevNext
  <2>1. PICK j \in Job : j \in pending /\ pending' = pending \ {j}
    BY <1>1, <1>4, EndRemovesBlock DEF EndHead, Job
  <2>2. ended' \in {"moved", "failed"}
    BY <1>4 DEF EndHead
  <2> QED  BY <2>1, <2>2 DEF Device!DevNext, Device!Complete, pending
<1>5. CASE rw_interrupt
  BY <1>4, <1>5, MovesHead
<1>6. CASE OutOfRange
  BY <1>4, <1>6 DEF OutOfRange
<1>7. CASE BadInterrupt
  BY <1>2, <1>4, <1>7 DEF BadInterrupt, bad_flp_intr
<1>8. CASE reset_floppy \/ recalibrate_floppy \/ NoRequestLeft \/ do_fd_request
           \/ floppy_on_interrupt \/ transfer
  BY <1>2, <1>8 DEF reset_floppy, recalibrate_floppy, NoRequestLeft, do_fd_request,
       floppy_on_interrupt, transfer
<1>9. CASE seek_interrupt \/ recal_interrupt \/ reset_interrupt \/ unexpected_floppy_interrupt
  BY <1>2, <1>9 DEF seek_interrupt, recal_interrupt, reset_interrupt, unexpected_floppy_interrupt
<1>10. CASE Timer \/ Changer
  BY <1>2, <1>10 DEF Timer, Changer, Tick, FireTimer, do_floppy_timer, floppy_on, floppy_change,
       MotorTested, FallAsleep, DriveTested, SelectedTested, ChangeGoes
<1>11. ASSUME NEW nr \in Dev, ChangeCalled(nr) PROVE UNCHANGED <<pending, ended>>
  BY <1>2, <1>11 DEF ChangeCalled
<1>12. CASE UNCHANGED flpVars
  BY <1>2, <1>12 DEF flpVars
<1> QED
  BY <1>3, <1>5, <1>6, <1>7, <1>8, <1>9, <1>10, <1>11, <1>12,
     FloppyAssumption DEF FlpNext, Driver

(* The safety part of ServesRequests: whatever errors, recalibrations,     *)
(* resets and spurious interrupts there are, every request ends at most    *)
(* once, and with success only after a transfer that was set up for it.    *)
THEOREM FloppyServesRequests == ASSUME Patient PROVE FlpSpec => Device!DevSafe
<1>1. FlpInit => Device!DevInit
  <2> SUFFICES ASSUME FlpInit PROVE {JobOf(r) : r \in Queued} = {} /\ ended = "none"
    BY DEF Device!DevInit
  <2>1. Len(queue) = 0
    BY DEF FlpInit, ElInit
  <2>2. Queued = {}
    BY <2>1 DEF Queued
  <2> QED  BY <2>2 DEF FlpInit
<1> QED
  BY <1>1, FlpInitInv, FlpStepInv, FlpDeviceStep, PTL DEF FlpSpec, Device!DevSafe

=============================================================================
