----------------------------- MODULE WaitQueue -----------------------------
(***************************************************************************)
(* kernel/sched.cc: sleep_on, interruptible_sleep_on, wake_up and the      *)
(* signal scan of schedule(), exercised by tasks that sleep on any queue,  *)
(* are woken by interrupts or by other tasks, receive signals and exit.    *)
(*                                                                         *)
(* A queue is used with one of the two sleep functions only:               *)
(* interruptible_sleep_on for the terminals (chr_drv/tty_io.cc) and for    *)
(* the selection of a floppy drive (wait_on_floppy_select), sleep_on for   *)
(* everything else.  The queue may be Open: its sleepers come with the     *)
(* interrupts enabled and an interrupt wakes it (wait_for_request,         *)
(* wait_motor, wait_on_floppy_select).  Then a wake-up may come between    *)
(* any two statements of a sleep function.  It may strike where the code   *)
(* is not prepared for it; the ghost variable trouble says that this, or a *)
(* signal at the wrong moment, has happened.                               *)
(***************************************************************************)
EXTENDS SleepOn

CONSTANTS
    IQueue,     \* the queues used with interruptible_sleep_on
    Open        \* the queues slept on with interrupts that wake them enabled

ASSUME QueueAssumption ==
    /\ NULL \notin Queue
    /\ IQueue \subseteq Queue
    /\ Open \subseteq Queue

VARIABLES
    on,         \* on[t]: the argument p of the sleep function t is in, or NULL
    signal,     \* signal[t]: t has an unblocked signal pending
    stage,      \* how far the running task is in a sleep on an Open queue
    trouble     \* ghost: the kinds of races that have been lost

wqVars == <<current, state, wait, tmp, on, signal, stage, trouble>>

(* "read": tmp = *p is done, "head": *p = current is done, "again": the    *)
(* task runs again and has seen that *p is somebody else.                  *)
Stage == {"none", "read", "head", "again"}

(* "stale": the task that tmp was read for is woken before the reader is   *)
(* the head.  "lost": the head is woken before it has set its own state.   *)
(* "null": *p is emptied between the test of *p and its use in line 182.   *)
(* "signal": a task leaves interruptible_sleep_on on account of a signal   *)
(* while a younger sleeper, woken but not yet run, still remembers it.     *)
(* "passed": a task that was woken finds that a younger one, which slept   *)
(* after the wake-up and does not remember it, is the head; it goes back   *)
(* to sleep and only a signal ends that sleep.                             *)
Trouble == {"stale", "lost", "null", "signal", "passed"}

WqTypeOK ==
    /\ SleepTypeOK
    /\ on \in [Task -> Queue \cup {NULL}]
    /\ signal \in [Task -> BOOLEAN]
    /\ stage \in Stage
    /\ trouble \subseteq Trouble

WqInit ==
    /\ SleepInit
    /\ on = [t \in Task |-> NULL]
    /\ signal = [t \in Task |-> FALSE]
    /\ stage = "none"
    /\ trouble = {}

(***************************************************************************)
(* The operations of the task that has the processor.                      *)
(***************************************************************************)
Runs(t) == current = t /\ stage = "none"

(* A sleep that no interrupt sees the middle of.                           *)
Sleep(t, q) ==
    /\ Runs(t)
    /\ q \notin IQueue \cup Open
    /\ sleep_on(t, q)
    /\ on' = [on EXCEPT ![t] = q]
    /\ UNCHANGED <<signal, stage, trouble>>

interruptible_sleep_on(t, q) ==
    /\ Runs(t)
    /\ q \in IQueue \ Open
    /\ SleepReads(t, q)
    /\ SleepHeads(t, q)
    /\ SleepStops(t, "INTERRUPTIBLE")
    /\ on' = [on EXCEPT ![t] = q]
    /\ UNCHANGED <<signal, stage, trouble>>

(* A sleep on an Open queue, statement by statement.                       *)
OpenReads(t, q) ==
    /\ Runs(t)
    /\ q \in Open
    /\ SleepReads(t, q)
    /\ on' = [on EXCEPT ![t] = q]
    /\ stage' = "read"
    /\ UNCHANGED <<current, state, wait, signal, trouble>>

OpenHeads(t) ==
    /\ current = t
    /\ stage = "read"
    /\ SleepHeads(t, on[t])
    /\ stage' = "head"
    /\ UNCHANGED <<current, state, tmp, on, signal, trouble>>

OpenStops(t) ==
    /\ current = t
    /\ stage = "head"
    /\ SleepStops(t, IF on[t] \in IQueue THEN "INTERRUPTIBLE"
                                         ELSE "UNINTERRUPTIBLE")
    /\ stage' = "none"
    /\ UNCHANGED <<wait, tmp, on, signal, trouble>>

(* do_exit: a zombie gives up the processor for good.                      *)
do_exit(t) ==
    /\ Runs(t)
    /\ state' = [state EXCEPT ![t] = "ZOMBIE"]
    /\ current' = NULL
    /\ UNCHANGED <<wait, tmp, on, signal, stage, trouble>>

(* The system call returns; pending signals are handled on the way out     *)
(* (do_signal) and the timer may take the processor away in user mode.     *)
ReturnToUser(t) ==
    /\ Runs(t)
    /\ yield(t)
    /\ signal' = [signal EXCEPT ![t] = FALSE]
    /\ UNCHANGED <<on, stage, trouble>>

(* send_sig, from another task or from the keyboard interrupt.             *)
send_sig(t) ==
    /\ signal' = [signal EXCEPT ![t] = TRUE]
    /\ UNCHANGED <<current, state, wait, tmp, on, stage, trouble>>

(* What a wake-up of q hits in the middle of the running task's sleep.     *)
Struck(q) ==
    IF stage = "none" \/ on[current] # q \/ wait[q] = NULL THEN {}
    ELSE CASE stage = "read"  -> {"stale"}
           [] stage = "head"  -> {"lost"}
           [] stage = "again" -> {"null"}

(* wake_up, from an interrupt or from the task that has the processor.     *)
WakeUp(q) ==
    /\ stage # "none" => q \in Open
    /\ wake_up({q})
    /\ trouble' = trouble \cup Struck(q)
    /\ UNCHANGED <<current, on, signal, stage>>

(***************************************************************************)
(* schedule(): the scan that makes signalled interruptible sleepers        *)
(* runnable (lines 113-122), then the switch to a runnable task t, which   *)
(* continues in the sleep function it is in.                               *)
(***************************************************************************)
Signalled == {t \in Task : state[t] = "INTERRUPTIBLE" /\ signal[t]}
Scanned == Running(state, Signalled)

(* Mutant of ResumeSleepOn: the older sleeper is not woken.                *)
ResumeAlone(t) ==
    /\ on[t] \notin IQueue
    /\ current = NULL
    /\ Scanned[t] = "RUNNING"
    /\ current' = t
    /\ state' = Scanned
    /\ tmp' = [tmp EXCEPT ![t] = NULL]
    /\ on' = [on EXCEPT ![t] = NULL]
    /\ UNCHANGED <<wait, signal, stage, trouble>>

(* t was in sleep_on, or was not asleep at all.                            *)
ResumeSleepOn(t) ==
    /\ on[t] \notin IQueue
    /\ current = NULL
    /\ Scanned[t] = "RUNNING"
    /\ current' = t
    /\ state' = Running(Scanned, {tmp[t]})
    /\ tmp' = [tmp EXCEPT ![t] = NULL]
    /\ on' = [on EXCEPT ![t] = NULL]
    /\ UNCHANGED <<wait, signal, stage, trouble>>

(* t was in interruptible_sleep_on and is not alone: somebody slept on the *)
(* queue after it.  It wakes that task and goes back to sleep (line 181).  *)
NotHead(t) == on[t] \in IQueue /\ wait[on[t]] \notin {NULL, t}
Remembered(t) == \E u \in Task : tmp[u] = t

ResumeNotHead(t) ==
    /\ NotHead(t)
    /\ on[t] \notin Open
    /\ current = NULL
    /\ Scanned[t] = "RUNNING"
    /\ state' = [Running(Scanned, {wait[on[t]]}) EXCEPT ![t] = "INTERRUPTIBLE"]
    /\ trouble' = trouble \cup IF Remembered(t) THEN {} ELSE {"passed"}
    /\ UNCHANGED <<current, wait, tmp, on, signal, stage>>

(* The same on an Open queue: the test of *p, then the rest.               *)
OpenFinds(t) ==
    /\ NotHead(t)
    /\ on[t] \in Open
    /\ current = NULL
    /\ Scanned[t] = "RUNNING"
    /\ current' = t
    /\ state' = Scanned
    /\ stage' = "again"
    /\ UNCHANGED <<wait, tmp, on, signal, trouble>>

OpenAgain(t) ==
    /\ current = t
    /\ stage = "again"
    /\ state' = [Running(state, {wait[on[t]]}) EXCEPT ![t] = "INTERRUPTIBLE"]
    /\ current' = NULL
    /\ stage' = "none"
    /\ trouble' = trouble \cup IF Remembered(t) THEN {} ELSE {"passed"}
    /\ UNCHANGED <<wait, tmp, on, signal>>

(* t was in interruptible_sleep_on and leaves it: the queue is emptied and *)
(* the older sleeper is woken (line 185).                                  *)
ResumeInterruptible(t) ==
    LET q == on[t] IN
    /\ q \in IQueue
    /\ current = NULL
    /\ Scanned[t] = "RUNNING"
    /\ wait[q] \in {NULL, t}
    /\ current' = t
    /\ wait' = [wait EXCEPT ![q] = NULL]
    /\ state' = Running(Scanned, {tmp[t]})
    /\ tmp' = [tmp EXCEPT ![t] = NULL]
    /\ on' = [on EXCEPT ![t] = NULL]
    /\ trouble' = trouble \cup IF Remembered(t) THEN {"signal"} ELSE {}
    /\ UNCHANGED <<signal, stage>>

Resume(t) ==
    \/ ResumeSleepOn(t)
    \/ ResumeNotHead(t)
    \/ OpenFinds(t)
    \/ ResumeInterruptible(t)

(* The running task goes on in a sleep on an Open queue.                   *)
OpenStep(t) == OpenHeads(t) \/ OpenStops(t) \/ OpenAgain(t)

WqNext ==
    \/ \E t \in Task :
          \/ \E q \in Queue :
                \/ Sleep(t, q)
                \/ interruptible_sleep_on(t, q)
                \/ OpenReads(t, q)
          \/ OpenStep(t)
          \/ do_exit(t)
          \/ ReturnToUser(t)
          \/ send_sig(t)
          \/ Resume(t)
    \/ \E q \in Queue : WakeUp(q)

WqSpec == WqInit /\ [][WqNext]_wqVars

(* Fairness: a task that is runnable again and again gets the processor    *)
(* (by the counters of schedule()), and leaves it (no system call runs for *)
(* ever).                                                                  *)
WqFairSpec ==
    /\ WqSpec
    /\ \A t \in Task : /\ SF_wqVars(Resume(t))
                       /\ WF_wqVars(ReturnToUser(t))
                       /\ WF_wqVars(OpenStep(t))
-----------------------------------------------------------------------------
(***************************************************************************)
(* Properties.                                                             *)
(***************************************************************************)

(* Until a race is lost, the head of a queue is a task that is inside a    *)
(* sleep function on that very queue, so wake_up never sets running a task *)
(* that left, exited or sleeps for something else (sched.cc:190).          *)
HeadIsSleeping ==
    trouble = {} =>
    \A q \in Queue : wait[q] # NULL =>
        /\ on[wait[q]] = q
        /\ q \notin IQueue /\ wait[q] # current
             => state[wait[q]] = "UNINTERRUPTIBLE"

(* Until a race is lost, the older sleeper that a task in a sleep function *)
(* remembers is still in a sleep function on the same queue, and asleep if *)
(* that is sleep_on: "tmp->state=0" (sched.cc:166, 187) wakes exactly the  *)
(* task it is meant for.                                                   *)
TmpIsSleeping ==
    trouble = {} =>
    \A t \in Task : tmp[t] # NULL =>
        /\ on[tmp[t]] = on[t]
        /\ on[t] \notin IQueue => state[tmp[t]] = "UNINTERRUPTIBLE"

(* No sleeper is lost unless a wake-up struck inside the sleep functions:  *)
(* a task that sleeps is the head of its queue or is remembered by a       *)
(* younger task that is in a sleep function on that queue and wakes it     *)
(* when it leaves (sched.cc:161-166, 177-187).                             *)
Reachable(t) ==
    \/ wait[on[t]] = t
    \/ \E u \in Task : tmp[u] = t /\ on[u] = on[t]

NoLostSleeper ==
    trouble = {} =>
    \A t \in Task :
        state[t] \in {"UNINTERRUPTIBLE", "INTERRUPTIBLE"} => Reachable(t)

(* A sleeper is never woken twice for one sleep: exactly one pointer leads *)
(* to it.                                                                  *)
OnePointer ==
    trouble = {} =>
    /\ \A q \in Queue, u \in Task :
          wait[q] # NULL /\ tmp[u] = wait[q] => u = current /\ stage = "read"
    /\ \A t, u \in Task : t # u /\ tmp[t] # NULL => tmp[t] # tmp[u]

(* do_exit never returns: "return (-1); just to suppress warnings"         *)
(* (kernel/exit.cc:134).  Until a race is lost, a zombie stays a zombie    *)
(* until it is released, whoever remembered it while it slept.             *)
ExitIsFinal ==
    [][trouble = {} =>
         \A t \in Task : state[t] = "ZOMBIE" => state'[t] = "ZOMBIE"]_wqVars

(* Once a queue has been woken, every task in sleep_on on it leaves        *)
(* sleep_on: the chain of tmp pointers is followed to its end although     *)
(* wake_up itself only wakes the head.  A race may be lost first.          *)
WokenChainRuns ==
    \A t \in Task, q \in Queue \ IQueue :
        (on[t] = q /\ wait[q] = NULL /\ current # t)
            ~> (on[t] = NULL \/ trouble # {})
=============================================================================
