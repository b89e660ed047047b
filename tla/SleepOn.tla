------------------------------ MODULE SleepOn ------------------------------
(***************************************************************************)
(* The sleep queues of kernel/sched.cc, as every blocking component of the *)
(* kernel uses them.  A queue is one pointer (buffer_wait, bh->b_wait,     *)
(* wait_for_request, inode->i_wait ...) to the task that slept last; the   *)
(* older sleepers are chained through the local variable tmp on the kernel *)
(* stack of the younger one.                                               *)
(*                                                                         *)
(* The kernel is not preempted while it runs in kernel mode: a task keeps  *)
(* the processor until it calls schedule().  current = NULL stands for     *)
(* schedule() looking for a task to run, the idle task 0 included: task 0  *)
(* does nothing but call schedule() again (init/main.cc, for(;;) pause()). *)
(* Which runnable task schedule() takes is left open here.                 *)
(*                                                                         *)
(* In this and the other modules a definition whose comment begins with    *)
(* "Mutant" is a wrong version of the definition after it; the properties  *)
(* are tried on it, and the specifications do not use it.                  *)
(***************************************************************************)

CONSTANTS
    Task,       \* the tasks that may sleep: every task but task 0
    Queue,      \* the queue heads, each a struct task_struct **
    NULL        \* the null pointer

ASSUME NullIsNoTask == NULL \notin Task

VARIABLES
    current,    \* the task that has the processor, or NULL
    state,      \* task_struct.state
    wait,       \* wait[q]: the pointer *q
    tmp         \* tmp[t]: the local tmp of t's call of a sleep function

sleepVars == <<current, state, wait, tmp>>

TaskState == {"RUNNING", "INTERRUPTIBLE", "UNINTERRUPTIBLE", "ZOMBIE"}

SleepTypeOK ==
    /\ current \in Task \cup {NULL}
    /\ state \in [Task -> TaskState]
    /\ wait \in [Queue -> Task \cup {NULL}]
    /\ tmp \in [Task -> Task \cup {NULL}]

SleepInit ==
    /\ current = NULL
    /\ state = [t \in Task |-> "RUNNING"]
    /\ wait = [q \in Queue |-> NULL]
    /\ tmp = [t \in Task |-> NULL]

(* st with the tasks of S set running: the assignments "->state = 0".      *)
Running(st, S) == [t \in Task |-> IF t \in S THEN "RUNNING" ELSE st[t]]

(* Mutant of sleep_on: the old head is not remembered.                     *)
SleepOnForgets(t, q) ==
    /\ wait' = [wait EXCEPT ![q] = t]
    /\ state' = [state EXCEPT ![t] = "UNINTERRUPTIBLE"]
    /\ current' = NULL
    /\ UNCHANGED tmp

(* The three assignments of the sleep functions before schedule(), lines   *)
(* 161-163 and 177-179, for a task t that sleeps on q with the state st.   *)
SleepReads(t, q) == tmp' = [tmp EXCEPT ![t] = wait[q]]

SleepHeads(t, q) == wait' = [wait EXCEPT ![q] = t]

SleepStops(t, st) ==
    /\ state' = [state EXCEPT ![t] = st]
    /\ current' = NULL

(* sleep_on(q) up to its schedule(): t becomes the head of q, remembers    *)
(* the old head, and gives up the processor.  Nothing in it disables the   *)
(* interrupts, so it is one step only where the caller has disabled them   *)
(* (the locks of buffers, inodes and super blocks) or where no interrupt   *)
(* wakes the queue (buffer_wait, pipes).  A sleep on another queue takes   *)
(* the three assignments one by one.                                       *)
sleep_on(t, q) ==
    /\ SleepReads(t, q)
    /\ SleepHeads(t, q)
    /\ SleepStops(t, "UNINTERRUPTIBLE")

(* schedule() switches to t, which goes on after the schedule() it called: *)
(* inside sleep_on it wakes the older sleeper it remembers; elsewhere tmp  *)
(* is NULL and nothing is left to do.                                      *)
switch_to(t) ==
    /\ current = NULL
    /\ state[t] = "RUNNING"
    /\ current' = t
    /\ state' = Running(state, {tmp[t]})
    /\ tmp' = [tmp EXCEPT ![t] = NULL]
    /\ UNCHANGED wait

(* Mutant of wake_up: the queue keeps its head.                            *)
WakeUpKeepsHead(Q) ==
    /\ state' = Running(state, {wait[q] : q \in Q})
    /\ UNCHANGED <<wait, tmp>>

(* wake_up(q) for every queue q of Q: only the head is set running.        *)
wake_up(Q) ==
    /\ state' = Running(state, {wait[q] : q \in Q})
    /\ wait' = [q \in Queue |-> IF q \in Q THEN NULL ELSE wait[q]]
    /\ UNCHANGED tmp

(* t gives the processor back and stays runnable (the timer interrupt took *)
(* it away in user mode, or t sleeps in a component that is not modelled). *)
yield(t) ==
    /\ current = t
    /\ current' = NULL
    /\ UNCHANGED <<state, wait, tmp>>
=============================================================================
