------------------------------- MODULE Floppy -------------------------------
(***************************************************************************)
(* The floppy driver, kernel/blk_drv/floppy.cc, with the motor timers and  *)
(* the timer list of kernel/sched.cc that drive it.  request and queue are *)
(* those of Elevator.  The driver goes from do_fd_request over the timer   *)
(* (motor on, drive selected) to a seek and the transfer, each answered by *)
(* an interrupt; errors lead to a recalibration or a reset, after which    *)
(* do_fd_request starts again.                                             *)
(*                                                                         *)
(* call is the function that runs: the functions call each other at their  *)
(* ends, and nothing else runs in between.  The controller is external: it *)
(* may not take a byte, may report an error, and may interrupt without     *)
(* having been asked to.  One task calls floppy_change.                    *)
(***************************************************************************)
EXTENDS Elevator, SequencesExt

CONSTANTS
    Cmd,            \* the commands asked for: the driver treats READ and
                    \* WRITE alike, but for the byte it sends
    Size,           \* floppy->size, in sectors
    PerTrack,       \* sectors of a track
    MAX_ERRORS,
    MonTicks,       \* HZ/2: a motor needs that long
    OffTicks,       \* 3*HZ: a motor is turned off so long after its use
    Patient,        \* TRUE: no request comes while the driver recovers from
                    \* an error with an empty list
    MaxMade,        \* a bound: requests,
    MaxFaults       \* ... and errors, lost bytes and spurious interrupts

ASSUME FloppyAssumption ==
    /\ {Size, MAX_ERRORS, MonTicks, OffTicks, MaxMade, MaxFaults} \subseteq Nat
    /\ PerTrack \in Nat \ {0} /\ MonTicks >= 2 /\ Patient \in BOOLEAN
    /\ Cmd \subseteq {READ, WRITE}

Never == -1         \* moff_timer of a drive in use (100 s in the code)

VARIABLES
    errors,                         \* of the request at the head
    reset, recalibrate, seek,
    current_drive, current_track, seek_track,
    selected,
    dor, motor,                     \* current_DOR: the drive, the motors
    mon_timer, moff_timer,
    timers,                         \* next_timer and its list
    ticking,                        \* do_timer works on the timer list
    call,                           \* the function that runs
    do_floppy, ctl,                 \* the handler, the command under way
    change,                         \* the task in floppy_change
    ended,                          \* ghost: how the last request ended
    left                            \* the bounds

flags == <<reset, recalibrate, seek>>
place == <<current_drive, current_track, seek_track>>
motors == <<dor, motor, mon_timer, moff_timer>>
clock == <<timers, ticking>>
flpVars == <<request, queue, errors, flags, place, selected, motors, clock, call,
             do_floppy, ctl, change, ended, left>>

CURRENT == request[Head(queue)]
Job == [dev : Dev, sector : Sector]
JobOf(r) == [dev |-> request[r].dev, sector |-> request[r].sector]
NoJob == [dev |-> -1, sector |-> 0]

FlpInit ==
    /\ ElInit /\ errors = 0
    /\ reset = FALSE /\ recalibrate = FALSE /\ seek = FALSE
    /\ current_drive = 0 /\ current_track = 255 /\ seek_track = 0
    /\ selected = FALSE /\ dor = 0 /\ motor = {}
    /\ mon_timer = [d \in Dev |-> 0] /\ moff_timer = [d \in Dev |-> 0]
    /\ timers = <<>> /\ ticking = FALSE
    /\ call = "none" /\ do_floppy = "none" /\ ctl = [cmd |-> "none", job |-> NoJob]
    /\ change = [pc |-> "user", nr |-> 0, on |-> "none", missed |-> FALSE]
    /\ ended = "none" /\ left = [made |-> MaxMade, faults |-> MaxFaults]

Idle == call = "none" /\ ~ticking

(* wake_up(q), by an interrupt, for the task in floppy_change: what may    *)
(* become of it.  Asleep, it goes on at pc.  When it has decided to sleep  *)
(* on q but does not sleep yet ("falling") it misses the call and sleeps   *)
(* all the same: on the queue, or, when it was its head already, with      *)
(* nothing left that leads to it ("dropped").                              *)
Woken(q, pc) ==
    CASE change.on = q /\ change.pc = "asleep" ->
            {[change EXCEPT !.pc = pc, !.on = "none"]}
      [] change.on = q /\ change.pc = "falling" ->
            {[change EXCEPT !.missed = TRUE],
             [change EXCEPT !.pc = "dropped", !.nr = 0, !.on = "none", !.missed = TRUE]}
      [] OTHER -> {change}

Fault == left.faults > 0 /\ left' = [left EXCEPT !.faults = @ - 1]

-----------------------------------------------------------------------------
(***************************************************************************)
(* sched.cc: motors and timers.                                            *)
(***************************************************************************)
(* Mutant of ticks_to_floppy_on: the drive is selected without a look at   *)
(* "selected".                                                             *)
TicksSelects(nr) ==
    /\ moff_timer' = [moff_timer EXCEPT ![nr] = Never]
    /\ mon_timer' = [mon_timer EXCEPT ![nr] =
                        IF nr \notin motor THEN MonTicks
                        ELSE IF nr # dor /\ @ < 2 THEN 2 ELSE @]
    /\ motor' = motor \cup {nr}
    /\ dor' = nr

(* ticks_to_floppy_on: the motor is turned on, the drive selected unless   *)
(* another one is in use; mon_timer'[nr] ticks are to be waited.           *)
ticks_to_floppy_on(nr) ==
    LET drive == IF selected THEN dor ELSE nr IN
    /\ moff_timer' = [moff_timer EXCEPT ![nr] = Never]
    /\ mon_timer' = [mon_timer EXCEPT ![nr] =
                        IF nr \notin motor THEN MonTicks
                        ELSE IF drive # dor /\ @ < 2 THEN 2 ELSE @]
    /\ motor' = motor \cup {nr}
    /\ dor' = drive

floppy_off(nr) == moff_timer' = [moff_timer EXCEPT ![nr] = OffTicks]

(* add_timer: the list holds differences; the new timer passes those that  *)
(* are due before it.  (The one behind it is not adjusted.)                *)
add_timer(list, j, fn) ==
    LET before(k) == FoldLeft(LAMBDA n, t : n + t.j, 0, SubSeq(list, 1, k))
        stops(k) == k = Len(list) \/ list[k + 1].j >= j - before(k)
        k == CHOOSE n \in 0..Len(list) : stops(n) /\ \A i \in 0..(n - 1) : ~stops(i)
    IN  InsertAt(list, k + 1, [j |-> j - before(k), fn |-> fn])

(* do_timer: the first timer counts down ...                               *)
Tick ==
    /\ Idle
    /\ timers' = IF timers = <<>> THEN timers ELSE [timers EXCEPT ![1].j = @ - 1]
    /\ ticking' = TRUE
    /\ UNCHANGED <<request, queue, errors, flags, place, selected, motors, call,
                   do_floppy, ctl, change, ended, left>>

Due == timers # <<>> /\ Head(timers).j <= 0

(* ... those that are due run, one after the other, ...                    *)
FireTimer ==
    /\ ticking /\ call = "none" /\ Due
    /\ timers' = Tail(timers)
    /\ call' = Head(timers).fn
    /\ UNCHANGED <<request, queue, errors, flags, place, selected, motors, ticking,
                   do_floppy, ctl, change, ended, left>>

(* ... and do_floppy_timer counts for the motors that are on.              *)
do_floppy_timer ==
    LET starting == {d \in motor : mon_timer[d] > 0} IN
    /\ ticking /\ call = "none" /\ ~Due
    /\ ticking' = FALSE
    /\ mon_timer' = [d \in Dev |-> IF d \in starting THEN mon_timer[d] - 1 ELSE mon_timer[d]]
    /\ motor' = {d \in motor : d \in starting \/ moff_timer[d] # 0}
    /\ moff_timer' = [d \in Dev |-> IF d \in motor \ starting /\ moff_timer[d] > 0
                                    THEN moff_timer[d] - 1 ELSE moff_timer[d]]
    /\ change' \in IF change.nr \in starting /\ mon_timer'[change.nr] = 0
                   THEN Woken("wait_motor", "on") ELSE {change}
    /\ UNCHANGED <<request, queue, errors, flags, place, selected, dor, timers, call,
                   do_floppy, ctl, ended, left>>

-----------------------------------------------------------------------------
(***************************************************************************)
(* floppy_change, called by a task (check_disk_change).                    *)
(***************************************************************************)
ChangeCalled(nr) ==
    /\ Idle /\ change.pc = "user"
    /\ change' = [change EXCEPT !.pc = "on", !.nr = nr]
    /\ UNCHANGED <<request, queue, errors, flags, place, selected, motors, clock, call,
                   do_floppy, ctl, ended, left>>

(* floppy_on: ticks_to_floppy_on, which ends with interrupts enabled, ...  *)
floppy_on ==
    /\ Idle /\ change.pc = "on"
    /\ ticks_to_floppy_on(change.nr)
    /\ change' = [change EXCEPT !.pc = "ticks"]
    /\ UNCHANGED <<request, queue, errors, flags, place, selected, clock, call,
                   do_floppy, ctl, ended, left>>

ChangeGoes(pc, q) ==
    /\ Idle
    /\ change' = [change EXCEPT !.pc = pc, !.on = q]
    /\ UNCHANGED <<request, queue, errors, flags, place, selected, motors, clock, call,
                   do_floppy, ctl, ended, left>>

(* ... and the value it returns: the motor is waited for or not.           *)
MotorTested ==
    /\ change.pc = "ticks"
    /\ IF mon_timer[change.nr] > 0 THEN ChangeGoes("falling", "wait_motor")
                                   ELSE ChangeGoes("test", "none")

(* sleep_on(nr + wait_motor), interruptible_sleep_on of wait_on_floppy_    *)
(* select: neither disables interrupts.                                    *)
FallAsleep ==
    /\ change.pc = "falling"
    /\ ChangeGoes("asleep", change.on)

(* floppy_change: the loop's condition in two steps, one for each variable *)
(* it reads, ...                                                           *)
DriveTested ==
    /\ change.pc = "test"
    /\ ChangeGoes(IF dor # change.nr THEN "other" ELSE "tested", "none")

SelectedTested ==
    /\ change.pc = "other"
    /\ IF selected THEN ChangeGoes("falling", "wait_on_floppy_select")
                   ELSE ChangeGoes("tested", "none")

(* ... and what follows the loop.                                          *)
floppy_change ==
    /\ Idle /\ change.pc = "tested"
    /\ IF dor # change.nr
       THEN /\ change' = [change EXCEPT !.pc = "on"]
            /\ UNCHANGED moff_timer
       ELSE /\ change' = [change EXCEPT !.pc = "user", !.nr = 0]
            /\ floppy_off(change.nr)
    /\ UNCHANGED <<request, queue, errors, flags, place, selected, dor, motor, mon_timer,
                   clock, call, do_floppy, ctl, ended, left>>

(* Mutant of floppy_deselect: nobody is woken.                             *)
DeselectQuietly == selected' = FALSE /\ UNCHANGED change

floppy_deselect ==
    /\ selected' = FALSE
    /\ change' \in Woken("wait_on_floppy_select", "test")

-----------------------------------------------------------------------------
(***************************************************************************)
(* The driver.  A new request at the head of an empty list starts it.      *)
(***************************************************************************)
MakeRequest(rw, dev, sector) ==
    /\ Idle /\ left.made > 0 /\ left' = [left EXCEPT !.made = @ - 1]
    /\ Patient => queue # <<>> \/ (timers = <<>> /\ ctl.cmd = "none")
    /\ make_request(rw, dev, sector)
    /\ call' = IF queue = <<>> THEN "do_fd_request" ELSE "none"
    /\ UNCHANGED <<errors, flags, place, selected, motors, clock, do_floppy, ctl, change, ended>>

(* end_request: DEVICE_OFF, and the next request with no errors.           *)
EndHead(how) ==
    /\ end_request
    /\ errors' = 0 /\ ended' = how
    /\ floppy_off(CURRENT.dev)
    /\ UNCHANGED <<dor, motor, mon_timer>>

Command(intr, cmd, job) ==
    /\ do_floppy' = intr
    /\ ctl' = [cmd |-> cmd, job |-> job]

reset_floppy ==
    /\ call = "do_fd_request" /\ reset
    /\ reset' = FALSE /\ recalibrate' = TRUE /\ seek' = FALSE
    /\ Command("reset", "reset", NoJob)
    /\ call' = "none"
    /\ UNCHANGED <<request, queue, errors, place, selected, motors, clock, change, ended, left>>

(* The command is sent, or a byte is not taken and that means a reset.     *)
recalibrate_floppy ==
    /\ call = "do_fd_request" /\ ~reset /\ recalibrate
    /\ seek' = FALSE /\ recalibrate' = FALSE
    /\ current_track' = 0
    /\ \/ /\ Command("recal", "recal", NoJob)
          /\ call' = "none" /\ UNCHANGED <<reset, left>>
       \/ /\ Fault /\ Command("recal", "none", NoJob)
          /\ reset' = TRUE /\ UNCHANGED call
    /\ UNCHANGED <<request, queue, errors, current_drive, seek_track, selected, motors, clock,
                   change, ended>>

(* INIT_REQUEST: the label "repeat", also after a request was given up.    *)
Starts == call = "repeat" \/ (call = "do_fd_request" /\ ~reset /\ ~recalibrate)

(* seek was cleared when do_fd_request was called.                         *)
Seeks == (call = "repeat" /\ seek) \/ current_drive # CURRENT.dev

NoRequestLeft ==
    /\ Starts /\ queue = <<>>
    /\ seek' = (call = "repeat" /\ seek) /\ call' = "none"
    /\ UNCHANGED <<request, queue, errors, reset, recalibrate, place, selected, motors, clock,
                   do_floppy, ctl, change, ended, left>>

OutOfRange ==
    /\ Starts /\ queue # <<>> /\ CURRENT.sector + 2 > Size
    /\ current_drive' = CURRENT.dev /\ seek' = Seeks
    /\ EndHead("failed")
    /\ call' = "repeat"
    /\ UNCHANGED <<reset, recalibrate, current_track, seek_track, selected, clock, do_floppy, ctl,
                   change, left>>

(* The motor is started, and floppy_on_interrupt runs when it is on: by    *)
(* the timer, or at once.                                                  *)
do_fd_request ==
    /\ Starts /\ queue # <<>> /\ CURRENT.sector + 2 <= Size
    /\ current_drive' = CURRENT.dev
    /\ seek_track' = CURRENT.sector \div PerTrack
    /\ seek' = (Seeks \/ seek_track' # current_track)
    /\ ticks_to_floppy_on(CURRENT.dev)
    /\ IF mon_timer'[CURRENT.dev] > 0
       THEN /\ timers' = add_timer(timers, mon_timer'[CURRENT.dev], "floppy_on_interrupt")
            /\ call' = "none"
       ELSE UNCHANGED timers /\ call' = "floppy_on_interrupt"
    /\ UNCHANGED <<request, queue, errors, reset, recalibrate, current_track, selected,
                   ticking, do_floppy, ctl, change, ended, left>>

(* The drive is selected by force; that needs two more ticks.              *)
floppy_on_interrupt ==
    /\ call = "floppy_on_interrupt"
    /\ selected' = TRUE
    /\ dor' = current_drive
    /\ IF current_drive # dor
       THEN timers' = add_timer(timers, 2, "transfer") /\ call' = "none"
       ELSE UNCHANGED timers /\ call' = "transfer"
    /\ UNCHANGED <<request, queue, errors, flags, place, motor, mon_timer, moff_timer, ticking,
                   do_floppy, ctl, change, ended, left>>

(* The command that setup_rw_floppy sends is for the request at the head.  *)
Transferred == IF queue = <<>> THEN NoJob ELSE JobOf(Head(queue))

(* transfer and setup_rw_floppy: a reset on the way (a byte not taken)     *)
(* leads back to do_fd_request.                                            *)
transfer ==
    /\ call = "transfer"
    /\ \/ /\ reset
          /\ call' = "do_fd_request" /\ UNCHANGED <<reset, do_floppy, ctl, left>>
       \/ /\ ~reset /\ call' = "none" /\ UNCHANGED <<reset, left>>
          /\ IF seek THEN Command("seek", "seek", NoJob) ELSE Command("rw", "rw", Transferred)
       \/ /\ ~reset /\ Fault /\ reset' = TRUE /\ call' = "do_fd_request"
          /\ UNCHANGED <<do_floppy, ctl>>
    /\ UNCHANGED <<request, queue, errors, recalibrate, seek, place, selected, motors, clock,
                   change, ended>>

-----------------------------------------------------------------------------
(***************************************************************************)
(* Interrupts.  do_floppy is cleared when its function is called.          *)
(***************************************************************************)
Interrupt(intr) == Idle /\ ctl.cmd # "none" /\ do_floppy = intr

Answered == do_floppy' = "none" /\ ctl' = [cmd |-> "none", job |-> NoJob]

(* bad_flp_intr: after MAX_ERRORS the request is given up, and the test    *)
(* for a reset looks at the next one or, if there is none, at address 0.   *)
(* (result() sets reset too, when the controller does not answer.)         *)
bad_flp_intr ==
    \/ /\ errors + 1 <= MAX_ERRORS
       /\ errors' = errors + 1
       /\ reset' \in {timedOut \/ errors' > MAX_ERRORS \div 2 : timedOut \in {reset, TRUE}}
       /\ recalibrate' = (recalibrate \/ errors' <= MAX_ERRORS \div 2)
       /\ UNCHANGED <<request, queue, ended, selected, change, motors>>
    \/ /\ errors + 1 > MAX_ERRORS
       /\ floppy_deselect /\ EndHead("failed")
       /\ \/ recalibrate' = TRUE /\ reset' \in {reset, TRUE}
          \/ queue' = <<>> /\ reset' = TRUE /\ UNCHANGED recalibrate

seek_interrupt ==
    /\ Interrupt("seek")
    /\ current_track' = seek_track
    /\ do_floppy' = "rw"
    /\ \/ ctl' = [cmd |-> "rw", job |-> Transferred] /\ UNCHANGED <<reset, call, left>>
       \/ /\ Fault /\ ctl' = [cmd |-> "none", job |-> NoJob]      \* a byte is not taken
          /\ reset' = TRUE /\ call' = "do_fd_request"
    /\ UNCHANGED <<request, queue, errors, recalibrate, seek, current_drive, seek_track, selected,
                   motors, clock, change, ended>>

(* A seek or a transfer fails.                                             *)
BadInterrupt ==
    /\ Interrupt("seek") \/ Interrupt("rw")
    /\ Fault /\ Answered
    /\ queue # <<>> /\ bad_flp_intr
    /\ call' = "do_fd_request"
    /\ UNCHANGED <<seek, place, clock>>

(* rw_interrupt ends the request at the head, whose block the command      *)
(* should have moved.  ST1 says that the disk is write protected, or is    *)
(* left from an earlier command when the controller does not answer.       *)
rw_interrupt ==
    /\ Interrupt("rw") /\ queue # <<>>
    /\ Answered
    /\ floppy_deselect
    /\ \/ /\ EndHead(IF ctl.job = JobOf(Head(queue)) THEN "moved" ELSE "wrong")
          /\ UNCHANGED <<reset, left>>
       \/ Fault /\ EndHead("failed") /\ reset' \in {reset, TRUE}
    /\ call' = "do_fd_request"
    /\ UNCHANGED <<recalibrate, seek, place, clock>>

recal_interrupt ==
    /\ Interrupt("recal")
    /\ Answered
    /\ \/ recalibrate' = FALSE /\ UNCHANGED <<reset, left>>
       \/ Fault /\ reset' = TRUE /\ UNCHANGED recalibrate
    /\ call' = "do_fd_request"
    /\ UNCHANGED <<request, queue, errors, seek, place, selected, motors, clock, change, ended>>

(* Mutant of reset_interrupt: do_fd_request is not called again.           *)
ResetDone ==
    /\ Interrupt("reset")
    /\ Answered
    /\ UNCHANGED <<reset, left>> \/ (Fault /\ reset' = TRUE)
    /\ UNCHANGED <<request, queue, errors, recalibrate, seek, place, selected, motors, clock,
                   call, change, ended>>

reset_interrupt ==
    /\ Interrupt("reset")
    /\ Answered
    /\ UNCHANGED <<reset, left>> \/ (Fault /\ reset' = TRUE)
    /\ call' = "do_fd_request"
    /\ UNCHANGED <<request, queue, errors, recalibrate, seek, place, selected, motors, clock,
                   change, ended>>

(* Mutant of unexpected_floppy_interrupt: it starts the driver again.      *)
UnexpectedRestarts ==
    /\ Idle /\ do_floppy = "none" /\ Fault
    /\ \/ reset' = TRUE /\ UNCHANGED recalibrate
       \/ recalibrate' = TRUE /\ UNCHANGED reset
    /\ call' = "do_fd_request"
    /\ UNCHANGED <<request, queue, errors, seek, place, selected, motors, clock,
                   do_floppy, ctl, change, ended>>

(* An interrupt nobody waits for.                                          *)
unexpected_floppy_interrupt ==
    /\ Idle /\ do_floppy = "none" /\ Fault
    /\ \/ reset' = TRUE /\ UNCHANGED recalibrate
       \/ recalibrate' = TRUE /\ UNCHANGED reset
    /\ UNCHANGED <<request, queue, errors, seek, place, selected, motors, clock, call,
                   do_floppy, ctl, change, ended>>

-----------------------------------------------------------------------------
Driver ==
    \/ reset_floppy \/ recalibrate_floppy \/ NoRequestLeft \/ OutOfRange
    \/ do_fd_request \/ floppy_on_interrupt \/ transfer
    \/ seek_interrupt \/ BadInterrupt \/ rw_interrupt \/ recal_interrupt \/ reset_interrupt

Timer == Tick \/ FireTimer \/ do_floppy_timer
Changer ==
    \/ floppy_on \/ MotorTested \/ FallAsleep
    \/ DriveTested \/ SelectedTested \/ floppy_change

FlpNext ==
    \/ \E rw \in Cmd, dev \in Dev, sector \in Sector : MakeRequest(rw, dev, sector)
    \/ \E nr \in Dev : ChangeCalled(nr)
    \/ Driver \/ Timer \/ Changer \/ unexpected_floppy_interrupt

(* The clock ticks, commands are answered, the task runs when it can.      *)
FlpSpec ==
    /\ FlpInit /\ [][FlpNext]_flpVars
    /\ SF_flpVars(Driver) /\ SF_flpVars(Timer) /\ SF_flpVars(Changer)

-----------------------------------------------------------------------------
(* The driver as a BlockDevice.                                            *)
Device == INSTANCE BlockDevice WITH
    Job <- Job,
    pending <- {JobOf(r) : r \in Queued},
    ended <- ended

(* Refinement: every request ends, once, and with success only after a     *)
(* transfer that was set up for it.                                        *)
ServesRequests == Device!DevSpec

(* While a seek or a transfer is under way, its drive is the selected one, *)
(* although floppy_change asks for others (floppy_on_interrupt, "selected" *)
(* in ticks_to_floppy_on).                                                 *)
DriveSelected ==
    ctl.cmd \in {"seek", "rw"} => selected /\ dor = current_drive

(* The driver is at one place only, one function, one timer or one         *)
(* command, and at none only when there is nothing to do: after errors and *)
(* resets the chain of timers and interrupts goes on, and does not fork.   *)
OneThread ==
    LET places == Len(timers) + (IF call # "none" THEN 1 ELSE 0)
                              + (IF ctl.cmd # "none" THEN 1 ELSE 0)
    IN  places <= 1 /\ (queue # <<>> => places = 1)

(* A task in floppy_change returns: neither the motor's start nor a drive  *)
(* another request has selected keeps it for ever.  One thing can, and the *)
(* property ends where it happens (change.missed): floppy_on and           *)
(* floppy_change test and then sleep with interrupts enabled, and the      *)
(* wake_up for which they sleep may come from the clock or the driver      *)
(* between the test and the task's being asleep.                           *)
ChangeReturns == change.pc # "user" ~> change.pc = "user" \/ change.missed
=============================================================================
