------------------------------ MODULE HdDriver ------------------------------
(***************************************************************************)
(* The hard disk driver, kernel/blk_drv/hd.cc, on top of the request list: *)
(* do_hd_request and the interrupt handlers, with errors, retries, resets  *)
(* and recalibration.  request and queue are those of Elevator; head holds *)
(* the fields of the request at the head that the driver changes (the      *)
(* others have their first values).  A request moves two sectors; sector   *)
(* and buffer count from where the request starts.                         *)
(*                                                                         *)
(* The controller (ctl) is external: it ends a command with an interrupt   *)
(* that reports success or an error, or does not ask for the data of a     *)
(* write in time.  moved is a ghost: the pairs of a part of the buffer and *)
(* a sector that have been copied for the head.                            *)
(***************************************************************************)
EXTENDS Elevator

CONSTANTS
    NrSects,        \* hd[dev].nr_sects of every device (even or odd)
    MAX_ERRORS

(* A block is two sectors, so requests start at even ones                  *)
(* (ll_rw_blk.cc:136).                                                     *)
ASSUME HdAssumption ==
    /\ NrSects \in Nat /\ MAX_ERRORS \in Nat \ {0}
    /\ \A s \in Sector : \E block \in 0..s : s = 2 * block

VARIABLES
    head,           \* sector, nr_sectors, buffer and errors of the head
    do_hd,          \* the handler of the next interrupt
    reset, recalibrate,
    running,        \* do_hd_request is at "repeat:"
    ctl,            \* the command the controller works on
    moved, ended    \* ghosts: what was copied, how the last request ended

drvVars == <<head, do_hd, reset, recalibrate, running, ctl, moved, ended>>
hdVars == <<request, queue, drvVars>>

NoCommand == [cmd |-> "none", sector |-> 0, n |-> 0, buffer |-> 0]
Fresh == [sector |-> 0, nr_sectors |-> 2, buffer |-> 0, errors |-> 0]

HdInit ==
    /\ ElInit
    /\ head = Fresh /\ do_hd = "none" /\ ctl = NoCommand
    /\ reset = TRUE /\ recalibrate = TRUE /\ running = FALSE
    /\ moved = {} /\ ended = "none"

CURRENT == request[Head(queue)]

(* Mutant of Now: the sector of the head moves on by blocks.               *)
NowByBlocks(req) ==
    [r \in Slot |-> IF queue # <<>> /\ r = Head(queue)
                    THEN [req[r] EXCEPT !.sector = @ + 2 * head.sector] ELSE req[r]]

(* The table as add_request sees it: the sector of the head has moved on.  *)
Now(req) ==
    [r \in Slot |-> IF queue # <<>> /\ r = Head(queue)
                    THEN [req[r] EXCEPT !.sector = @ + head.sector] ELSE req[r]]

(* make_request and add_request; the first request starts the driver.      *)
MakeRequest(rw, dev, sector) ==
    LET r == FindSlot(rw, FreeSlots) IN
    /\ ~running
    /\ \A s \in Queued : request[s].dev # dev \/ request[s].sector # sector
    /\ r # 0
    /\ request' = [request EXCEPT ![r] =
            [cmd |-> rw, dev |-> dev, sector |-> sector, used |-> TRUE]]
    /\ queue' = add_request(Now(request'), queue, r)
    /\ running' = (queue = <<>>)
    /\ UNCHANGED <<head, do_hd, reset, recalibrate, ctl, moved, ended>>

(* end_request: the next request is at the head, with its first values.    *)
EndHead(how) ==
    /\ end_request
    /\ head' = Fresh /\ moved' = {}
    /\ ended' = how

(* bad_rw_intr: the second test looks at the request that is the head now; *)
(* when there is none, at whatever lies at address 0.                      *)
bad_rw_intr ==
    \/ /\ head.errors + 1 < MAX_ERRORS
       /\ head' = [head EXCEPT !.errors = @ + 1]
       /\ reset' = (reset \/ head'.errors > MAX_ERRORS \div 2)
       /\ UNCHANGED <<request, queue, moved, ended>>
    \/ /\ head.errors + 1 >= MAX_ERRORS
       /\ EndHead("failed")
       /\ IF queue' = <<>> THEN reset' \in {reset, TRUE} ELSE UNCHANGED reset

-----------------------------------------------------------------------------
(* do_hd_request from "repeat:" on.                                        *)
Repeat == running /\ queue # <<>>

NoMore ==
    /\ running /\ queue = <<>>
    /\ running' = FALSE
    /\ UNCHANGED <<request, queue, head, do_hd, reset, recalibrate, ctl, moved, ended>>

(* Mutant of InRange: the last block does not count.                       *)
InRangeLess == CURRENT.sector + head.sector + 2 < NrSects

InRange == CURRENT.sector + head.sector + 2 <= NrSects

OutOfRange ==
    /\ Repeat /\ ~InRange
    /\ EndHead("failed")
    /\ UNCHANGED <<do_hd, reset, recalibrate, running, ctl>>

(* hd_out: the handler of the interrupt and the command.                   *)
hd_out(cmd, n, sector, intr) ==
    /\ do_hd' = intr
    /\ ctl' = [cmd |-> cmd, sector |-> sector, n |-> n, buffer |-> head.buffer]

reset_hd ==
    /\ Repeat /\ InRange /\ reset
    /\ reset' = FALSE /\ recalibrate' = TRUE /\ running' = FALSE
    /\ hd_out("specify", 0, 0, "recal")
    /\ UNCHANGED <<request, queue, head, moved, ended>>

Recalibrate ==
    /\ Repeat /\ InRange /\ ~reset /\ recalibrate
    /\ recalibrate' = FALSE /\ running' = FALSE
    /\ hd_out("restore", 0, 0, "recal")
    /\ UNCHANGED <<request, queue, head, reset, moved, ended>>

Ready == Repeat /\ InRange /\ ~reset /\ ~recalibrate

StartRead ==
    /\ Ready /\ CURRENT.cmd = READ
    /\ hd_out("read", head.nr_sectors, head.sector, "read")
    /\ running' = FALSE
    /\ UNCHANGED <<request, queue, head, reset, recalibrate, moved, ended>>

StartWrite ==
    /\ Ready /\ CURRENT.cmd = WRITE
    /\ hd_out("write", head.nr_sectors, head.sector, "write")
    /\ running' = FALSE
    /\ UNCHANGED <<request, queue, head, reset, recalibrate, moved, ended>>

(* The controller does not ask for the data: an error, and "repeat".       *)
WriteTimeout ==
    /\ Ready /\ CURRENT.cmd = WRITE
    /\ do_hd' = "write" /\ ctl' = NoCommand
    /\ bad_rw_intr
    /\ UNCHANGED <<recalibrate, running>>

-----------------------------------------------------------------------------
(* The interrupt, when a command is under way.                             *)
Interrupt(intr) == ~running /\ ctl.cmd # "none" /\ do_hd = intr

(* win_result reports an error: read_intr, write_intr, recal_intr.         *)
BadInterrupt ==
    /\ \E intr \in {"read", "write", "recal"} : Interrupt(intr)
    /\ do_hd' = "none" /\ ctl' = NoCommand /\ running' = TRUE
    /\ bad_rw_intr
    /\ UNCHANGED recalibrate

recal_intr ==
    /\ Interrupt("recal")
    /\ do_hd' = "none" /\ ctl' = NoCommand /\ running' = TRUE
    /\ UNCHANGED <<request, queue, head, reset, recalibrate, moved, ended>>

(* One sector is copied between the disk and the buffer at b.              *)
Copied(b) == moved \cup {<<b, ctl.sector>>}
NextSector(buffer) ==
    [cmd |-> ctl.cmd, sector |-> ctl.sector + 1, n |-> ctl.n - 1, buffer |-> buffer]
Result(m) == IF m = {<<0, 0>>, <<1, 1>>} THEN "moved" ELSE "wrong"

(* Mutant of read_intr: the buffer pointer stays.                          *)
ReadInPlace ==
    /\ Interrupt("read")
    /\ \/ /\ head.nr_sectors > 1
          /\ head' = [head EXCEPT !.sector = @ + 1, !.nr_sectors = @ - 1, !.errors = 0]
          /\ moved' = Copied(head.buffer)
          /\ ctl' = NextSector(ctl.buffer)
          /\ UNCHANGED <<request, queue, do_hd, running, ended>>
       \/ /\ head.nr_sectors = 1
          /\ EndHead(Result(Copied(head.buffer)))
          /\ do_hd' = "none" /\ ctl' = NoCommand /\ running' = TRUE
    /\ UNCHANGED <<reset, recalibrate>>

(* read_intr copies a sector to the buffer and waits for the next one.     *)
read_intr ==
    /\ Interrupt("read")
    /\ \/ /\ head.nr_sectors > 1
          /\ head' = [sector |-> head.sector + 1, nr_sectors |-> head.nr_sectors - 1,
                      buffer |-> head.buffer + 1, errors |-> 0]
          /\ moved' = Copied(head.buffer)
          /\ ctl' = NextSector(ctl.buffer)
          /\ UNCHANGED <<request, queue, do_hd, running, ended>>
       \/ /\ head.nr_sectors = 1
          /\ EndHead(Result(Copied(head.buffer)))
          /\ do_hd' = "none" /\ ctl' = NoCommand /\ running' = TRUE
    /\ UNCHANGED <<reset, recalibrate>>

(* write_intr: the sector sent before is on the disk; the next is sent.    *)
write_intr ==
    /\ Interrupt("write")
    /\ \/ /\ head.nr_sectors > 1
          /\ head' = [sector |-> head.sector + 1, nr_sectors |-> head.nr_sectors - 1,
                      buffer |-> head.buffer + 1, errors |-> head.errors]
          /\ moved' = Copied(ctl.buffer)
          /\ ctl' = NextSector(head.buffer + 1)
          /\ UNCHANGED <<request, queue, do_hd, running, ended>>
       \/ /\ head.nr_sectors = 1
          /\ EndHead(Result(Copied(ctl.buffer)))
          /\ do_hd' = "none" /\ ctl' = NoCommand /\ running' = TRUE
    /\ UNCHANGED <<reset, recalibrate>>

-----------------------------------------------------------------------------
Driver ==
    \/ NoMore \/ OutOfRange \/ reset_hd \/ Recalibrate
    \/ StartRead \/ StartWrite \/ WriteTimeout
    \/ BadInterrupt \/ recal_intr \/ read_intr \/ write_intr

HdNext ==
    \/ \E rw \in {READ, WRITE}, dev \in Dev, sector \in Sector : MakeRequest(rw, dev, sector)
    \/ Driver

(* do_hd_request runs to its end, and every command ends with an interrupt *)
(* (the driver has no timeout for one that is lost).                       *)
HdSpec == HdInit /\ [][HdNext]_hdVars /\ WF_hdVars(Driver)

-----------------------------------------------------------------------------
(* Refinement: the driver moves on the sector of the request at the head   *)
(* while add_request compares with it; the list is still the list of the   *)
(* elevator, because requests start at even sectors (ll_rw_blk.cc:136).    *)
KeepsElevator == ElSpec

(* The driver as a BlockDevice.                                            *)
JobOf(r) == [dev |-> request[r].dev, sector |-> request[r].sector]
Pending == {JobOf(r) : r \in Queued}
Device == INSTANCE BlockDevice WITH
    Job <- [dev : Dev, sector : Sector], pending <- Pending, ended <- ended

(* Refinement: every request ends, once, and with success only after both  *)
(* sectors have gone between the right places, whatever errors, retries    *)
(* and resets come in between.                                             *)
ServesRequests == Device!DevSpec

(* A block inside the partition is given up only after MAX_ERRORS errors,  *)
(* or, for the last block, on a retry of its second sector, for which the  *)
(* test in do_hd_request wants two sectors (hd.cc:307).                    *)
GivenUpForErrors ==
    [][(Len(queue') < Len(queue) /\ ended' = "failed") =>
          \/ CURRENT.sector + 2 > NrSects
          \/ head.errors + 1 >= MAX_ERRORS
          \/ head.sector = 1 /\ CURRENT.sector + 2 = NrSects]_hdVars
=============================================================================
