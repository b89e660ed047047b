------------------------------ MODULE Process ------------------------------
(***************************************************************************)
(* Processes and signals: kernel/fork.cc, exit.cc, signal.cc, setpgid and  *)
(* setsid of sys.cc, the signal scan of schedule() and ret_from_sys_call.  *)
(*                                                                         *)
(* A process runs in the kernel until it calls schedule(); current = 0     *)
(* means that schedule() looks for the next one, the idle task 0 included. *)
(* pc is the place where a process is: in user mode, at the end of a call  *)
(* ("ret") or behind the schedule() there ("sig"), in the loop of waitpid  *)
(* or behind its schedule(), in the part of do_exit that closes files, or  *)
(* behind a sleep in that part.  All processes have the same effective     *)
(* user.  Alarms, memory, files and the terminal are left out, but the     *)
(* failure of fork for want of memory is not.                              *)
(***************************************************************************)
EXTENDS Integers

CONSTANTS
    NR_TASKS,       \* slots of the task table, slot 0 is the idle task
    MaxPid,         \* the largest long: after it last_pid starts again at 1
    Sig,            \* the signals that are looked at
    Ops,            \* the calls that are made, of AllOps
    Masks,          \* the masks given to sigaction and ssetmask
    Fns,            \* the handlers given to signal and sigaction
    KillSigs,       \* the signals that are sent with kill
    KillArgs,       \* the pid arguments of kill,
    WaitArgs,       \* ... of waitpid, with TRUE for WNOHANG,
    GroupArgs,      \* ... and of setpgid
    SpareInit,      \* TRUE when nobody kills init
    SuperUser,      \* TRUE when the processes run as the super user
    MaxCalls,       \* a bound: calls other than fork, exit, waitpid and pause
    NULL

SIGHUP == 1
SIGKILL == 9
SIGCHLD == 17

AllOps == {"kill", "signal", "sigaction", "ssetmask", "setpgid", "setsid"}

ASSUME ProcessAssumption ==
    /\ Ops \subseteq AllOps
    /\ NR_TASKS \in Nat \ {0, 1}
    /\ MaxPid \in Nat /\ MaxPid >= NR_TASKS
    /\ Sig \subseteq 1..32 /\ {SIGHUP, SIGKILL, SIGCHLD} \subseteq Sig
    /\ Masks \subseteq SUBSET Sig /\ Fns \subseteq {"DFL", "IGN", "FUN"}
    /\ KillSigs \subseteq Sig
    /\ KillArgs \subseteq Int
    /\ WaitArgs \subseteq Int \X BOOLEAN
    /\ GroupArgs \subseteq Nat
    /\ SpareInit \in BOOLEAN /\ SuperUser \in BOOLEAN
    /\ MaxCalls \in Nat

Slot == 1..(NR_TASKS - 1)
Pid == 1..MaxPid

VARIABLES
    task,           \* the task table: task[i] is a task_struct or NULL
    current,        \* the slot of the running process, 0: none
    last_pid,
    shell,          \* init's variable pid: the child it waits for, 0: none
    left            \* calls left (bound)

vars == <<task, current, last_pid, shell, left>>

(* sigaction: the handler (default, ignore or a function of the process),  *)
(* sa_mask and SA_ONESHOT.  SA_NOMASK is an empty mask.                    *)
Handler == [fn : {"DFL", "IGN", "FUN"}, mask : SUBSET Sig, oneshot : BOOLEAN]
Default == [fn |-> "DFL", mask |-> {}, oneshot |-> FALSE]

Pc == {"user", "ret", "sig", "scan", "wait", "close", "closed"}

(* task_struct, with the place on the kernel stack and the arguments of    *)
(* the waitpid that is under way.                                          *)
TaskStruct ==
    [pid : Pid, father : Nat, pgrp : Nat, session : Nat, leader : BOOLEAN,
     state : {"RUNNING", "INTERRUPTIBLE", "ZOMBIE"},
     signal : SUBSET Sig, blocked : SUBSET Sig, sigaction : [Sig -> Handler],
     pc : Pc, upid : Int, nohang : BOOLEAN]

ASSUME NullIsNoProcess == NULL \notin TaskStruct

TypeOK ==
    /\ task \in [Slot -> TaskStruct \cup {NULL}]
    /\ current \in Slot \cup {0}
    /\ last_pid \in Pid
    /\ shell \in Pid \cup {0}
    /\ left \in Nat

(* Task 0 has forked init (init/main.cc), which is in slot 1 with pid 1.   *)
InitTask ==
    [pid |-> 1, father |-> 0, pgrp |-> 0, session |-> 0, leader |-> FALSE,
     state |-> "RUNNING", signal |-> {}, blocked |-> {},
     sigaction |-> [g \in Sig |-> Default], pc |-> "user", upid |-> -1,
     nohang |-> FALSE]

Init ==
    /\ task = [s \in Slot |-> IF s = 1 THEN InitTask ELSE NULL]
    /\ current = 0
    /\ last_pid = 1
    /\ shell = 0
    /\ left = MaxCalls

Used == {s \in Slot : task[s] # NULL}
At(s, l) == current = s /\ task[s] # NULL /\ task[s].pc = l

(* The processes that call something at will.  init, the loop at the end   *)
(* of main.cc, forks a shell, again and again until fork succeeds, and     *)
(* then waits, for whatever dies, until it has been told of that shell.    *)
User(s) == At(s, "user") /\ s # 1
Counted == left > 0 /\ left' = left - 1

(* g is added to the pending signals of the processes of S.                *)
Signalled(T, S, g) ==
    [s \in Slot |-> IF s \in S /\ T[s] # NULL
                    THEN [T[s] EXCEPT !.signal = @ \cup {g}] ELSE T[s]]

-----------------------------------------------------------------------------
(***************************************************************************)
(* schedule(): every process that sleeps interruptibly and has a signal it *)
(* does not block is set running; one of the running ones is chosen.       *)
(***************************************************************************)
BLOCKABLE == Sig \ {SIGKILL}
HasSignal(p) == p.signal \ (BLOCKABLE \cap p.blocked) # {}
Awake(p) == p # NULL /\ p.state = "INTERRUPTIBLE" /\ HasSignal(p)

SwitchTo(s) ==
    /\ current = 0
    /\ task' = [r \in Slot |-> IF Awake(task[r])
                               THEN [task[r] EXCEPT !.state = "RUNNING"]
                               ELSE task[r]]
    /\ task'[s] # NULL /\ task'[s].state = "RUNNING"
    /\ current' = s
    /\ UNCHANGED <<last_pid, shell, left>>

(* The timer interrupt in user mode ends at ret_from_sys_call.             *)
TimerInterrupt(s) ==
    /\ At(s, "user")
    /\ task' = [task EXCEPT ![s].pc = "ret"]
    /\ UNCHANGED <<current, last_pid, shell, left>>

(* The time slice is over: "reschedule" of system_call, or the schedule()  *)
(* of do_timer.                                                            *)
Reschedule(s) ==
    /\ At(s, "ret")
    /\ task' = [task EXCEPT ![s].pc = "sig"]
    /\ current' = 0
    /\ UNCHANGED <<last_pid, shell, left>>

-----------------------------------------------------------------------------
(***************************************************************************)
(* fork.  find_empty_process takes the first pid after last_pid that no    *)
(* task has, and the first free slot.                                      *)
(***************************************************************************)
FreePids == Pid \ {task[s].pid : s \in Used}
After(p) == (p - last_pid - 1) % MaxPid

NextPid == CHOOSE p \in FreePids : \A q \in FreePids : After(p) <= After(q)
FreeSlot == CHOOSE s \in Slot \ Used : \A r \in Slot \ Used : s <= r

copy_process(s) ==
    LET child == [task[s] EXCEPT !.pid = NextPid, !.father = task[s].pid,
                                 !.leader = FALSE, !.signal = {},
                                 !.pc = "user"]
    IN  task' = [task EXCEPT ![FreeSlot] = child, ![s].pc = "ret"]

ForkOk(s) ==
    /\ At(s, "user") /\ (s = 1 => shell = 0)
    /\ Used # Slot
    /\ copy_process(s)
    /\ last_pid' = NextPid
    /\ shell' = IF s = 1 THEN NextPid ELSE shell
    /\ UNCHANGED <<current, left>>

(* No slot, or no memory for the task or its page tables.                  *)
ForkFails(s) ==
    /\ At(s, "user") /\ (s = 1 => shell = 0)
    /\ last_pid' = NextPid
    /\ task' = [task EXCEPT ![s].pc = "ret"]
    /\ UNCHANGED <<current, shell, left>>

-----------------------------------------------------------------------------
(***************************************************************************)
(* do_exit, first part: the children are given to process 1, and task[1]   *)
(* is told of those that are dead already.                                 *)
(***************************************************************************)
Children(T, s) == {c \in Slot : T[c] # NULL /\ T[c].father = T[s].pid}

(* Mutants of Reparented: the living children are forgotten; init is not   *)
(* told of the dead ones.                                                  *)
ReparentedDead(T, s) ==
    [c \in Slot |-> IF c \in Children(T, s) /\ T[c].state = "ZOMBIE"
                    THEN [T[c] EXCEPT !.father = 1] ELSE T[c]]
ReparentedSilently(T, s) ==
    [c \in Slot |-> IF c \in Children(T, s)
                    THEN [T[c] EXCEPT !.father = 1] ELSE T[c]]

Reparented(T, s) ==
    LET kids == Children(T, s)
        given == [c \in Slot |-> IF c \in kids THEN [T[c] EXCEPT !.father = 1]
                                 ELSE T[c]]
    IN  IF \E c \in kids : T[c].state = "ZOMBIE"
        THEN Signalled(given, {1}, SIGCHLD) ELSE given

ExitBegins(T, s) ==
    task' = [Reparented(T, s) EXCEPT ![s].pc = "close"]

sys_exit(s) ==
    /\ User(s)
    /\ ExitBegins(task, s)
    /\ UNCHANGED <<current, last_pid, shell, left>>

(* sys_close and iput wait for the disk (once or more often).              *)
CloseSleeps(s) ==
    /\ At(s, "close")
    /\ task' = [task EXCEPT ![s].pc = "closed"]
    /\ current' = 0
    /\ UNCHANGED <<last_pid, shell, left>>

(* do_exit, second part: kill_session, TASK_ZOMBIE, tell_father (without a *)
(* father the process releases itself), schedule.                          *)
kill_session(T, s) ==
    IF ~T[s].leader THEN T
    ELSE Signalled(T, {r \in Slot : T[r] # NULL /\ T[r].session = T[s].session},
                   SIGHUP)

Fathers(T, s) == {f \in Slot : T[f] # NULL /\ T[f].pid = T[s].father}

(* Mutant of tell_father: the father gets no signal.                       *)
TellNobody(T, s) == T

tell_father(T, s) ==
    IF Fathers(T, s) = {} THEN [T EXCEPT ![s] = NULL]
    ELSE Signalled(T, Fathers(T, s), SIGCHLD)

ExitEnds(s) ==
    /\ At(s, "close") \/ At(s, "closed")
    /\ LET T == [kill_session(task, s) EXCEPT ![s].state = "ZOMBIE"]
       IN  task' = tell_father(T, s)
    /\ current' = 0
    /\ UNCHANGED <<last_pid, shell, left>>

-----------------------------------------------------------------------------
(***************************************************************************)
(* waitpid.                                                                *)
(***************************************************************************)
sys_waitpid(s, upid, nohang) ==
    /\ At(s, "user")
    /\ s = 1 => shell # 0 /\ upid = -1 /\ ~nohang
    /\ task' = [task EXCEPT ![s].pc = "scan", ![s].upid = upid,
                            ![s].nohang = nohang]
    /\ UNCHANGED <<current, last_pid, shell, left>>

Matches(c, s) ==
    LET p == task[s].upid IN
    IF p > 0 THEN task[c].pid = p
    ELSE IF p = 0 THEN task[c].pgrp = task[s].pgrp
    ELSE p = -1 \/ task[c].pgrp = -p
Return(T, s) == [T EXCEPT ![s].pc = "ret", ![s].upid = -1, ![s].nohang = FALSE]

Awaited(s) == {c \in Children(task, s) \ {s} : Matches(c, s)}
Zombies(s) == {c \in Awaited(s) : task[c].state = "ZOMBIE"}

(* TASK_STOPPED is never set, so its case is left out.  The zombie found   *)
(* first, from the last slot on, is released; release calls schedule().    *)
WaitReleases(s) ==
    /\ At(s, "scan")
    /\ \E c \in Zombies(s) :
          /\ \A d \in Zombies(s) : d <= c
          /\ task' = Return([task EXCEPT ![c] = NULL], s)
          /\ shell' = IF s = 1 /\ task[c].pid = shell THEN 0 ELSE shell
    /\ current' = 0
    /\ UNCHANGED <<last_pid, left>>

WaitSleeps(s) ==
    /\ At(s, "scan")
    /\ Zombies(s) = {} /\ Awaited(s) # {} /\ ~task[s].nohang
    /\ task' = [task EXCEPT ![s].state = "INTERRUPTIBLE", ![s].pc = "wait"]
    /\ current' = 0
    /\ UNCHANGED <<last_pid, shell, left>>

(* ECHILD, or 0 with WNOHANG.                                              *)
WaitReturns(s) ==
    /\ At(s, "scan")
    /\ Zombies(s) = {} /\ (Awaited(s) = {} \/ task[s].nohang)
    /\ task' = Return(task, s)
    /\ UNCHANGED <<current, last_pid, shell, left>>

(* Mutant of WaitWakes: no other signal ends the wait.                     *)
WaitGoesOn(s) ==
    /\ At(s, "wait")
    /\ task' = [task EXCEPT ![s].signal = @ \ {SIGCHLD}, ![s].pc = "scan"]
    /\ UNCHANGED <<current, last_pid, shell, left>>

(* After schedule(): SIGCHLD is taken back; any other signal is EINTR.     *)
WaitWakes(s) ==
    /\ At(s, "wait")
    /\ LET rest == task[s].signal \ {SIGCHLD}
           T == [task EXCEPT ![s].signal = rest, ![s].pc = "scan"]
       IN  task' = IF rest = {} THEN T ELSE Return(T, s)
    /\ UNCHANGED <<current, last_pid, shell, left>>

-----------------------------------------------------------------------------
(***************************************************************************)
(* Signals: sys_kill, pause, signal, sigaction, ssetmask.                  *)
(***************************************************************************)
Targets(s, p) ==
    {r \in Used : \/ p = 0 /\ task[r].pgrp = task[s].pid
                  \/ p > 0 /\ task[r].pid = p
                  \/ p = -1
                  \/ p < -1 /\ task[r].pgrp = -p}

sys_kill(s, p, g) ==
    /\ User(s) /\ Counted
    /\ SpareInit => 1 \notin Targets(s, p)
    /\ task' = [Signalled(task, Targets(s, p), g) EXCEPT ![s].pc = "ret"]
    /\ UNCHANGED <<current, last_pid, shell>>

sys_pause(s) ==
    /\ User(s)
    /\ task' = [task EXCEPT ![s].state = "INTERRUPTIBLE", ![s].pc = "ret"]
    /\ current' = 0
    /\ UNCHANGED <<last_pid, shell, left>>

SetAction(s, g, a) ==
    /\ User(s) /\ Counted
    /\ g # SIGKILL
    /\ task' = [task EXCEPT ![s].sigaction[g] = a, ![s].pc = "ret"]
    /\ UNCHANGED <<current, last_pid, shell>>

sys_signal(s, g, fn) ==
    SetAction(s, g, [fn |-> fn, mask |-> {}, oneshot |-> TRUE])

(* With SA_NOMASK, or with the signal itself added to the mask.            *)
sys_sigaction(s, g, fn, mask, oneshot) ==
    \/ SetAction(s, g, [fn |-> fn, mask |-> {}, oneshot |-> oneshot])
    \/ SetAction(s, g, [fn |-> fn, mask |-> mask \cup {g}, oneshot |-> oneshot])

sys_ssetmask(s, newmask) ==
    /\ User(s) /\ Counted
    /\ task' = [task EXCEPT ![s].blocked = newmask \ {SIGKILL}, ![s].pc = "ret"]
    /\ UNCHANGED <<current, last_pid, shell>>

(* setpgid and setsid; a call that is refused changes nothing.             *)
sys_setpgid(s, pid, pgid) ==
    LET p == IF pid = 0 THEN task[s].pid ELSE pid
        g == IF pgid = 0 THEN task[s].pid ELSE pgid
        hit == {r \in Used : /\ task[r].pid = p
                             /\ ~task[r].leader
                             /\ task[r].session = task[s].session}
    IN  /\ User(s) /\ Counted
        /\ task' = [r \in Slot |->
              IF r = s THEN [task[s] EXCEPT !.pc = "ret",
                                            !.pgrp = IF s \in hit THEN g ELSE @]
              ELSE IF r \in hit THEN [task[r] EXCEPT !.pgrp = g] ELSE task[r]]
        /\ UNCHANGED <<current, last_pid, shell>>

sys_setsid(s) ==
    LET p == task[s] IN
    /\ User(s) /\ Counted
    /\ task' = [task EXCEPT ![s] =
          IF p.leader /\ ~SuperUser THEN [p EXCEPT !.pc = "ret"]
          ELSE [p EXCEPT !.leader = TRUE, !.session = p.pid, !.pgrp = p.pid,
                         !.pc = "ret"]]
    /\ UNCHANGED <<current, last_pid, shell>>

(* ret_from_sys_call and do_signal: the first signal that is pending and   *)
(* not blocked is ignored, caught or deadly.                               *)
Pending(s) == task[s].signal \ task[s].blocked

NoSignal(s) ==
    /\ At(s, "ret") \/ At(s, "sig")
    /\ Pending(s) = {}
    /\ task' = [task EXCEPT ![s].pc = "user"]
    /\ UNCHANGED <<current, last_pid, shell, left>>

do_signal(s) ==
    /\ At(s, "ret") \/ At(s, "sig")
    /\ \E g \in Pending(s) :
          /\ \A h \in Pending(s) : g <= h
          /\ LET T == [task EXCEPT ![s].signal = @ \ {g}, ![s].pc = "user"]
                 a == task[s].sigaction[g]
             IN  \/ /\ a.fn = "IGN" \/ (a.fn = "DFL" /\ g = SIGCHLD)
                    /\ task' = T
                 \/ /\ a.fn = "DFL" /\ g # SIGCHLD
                    /\ ExitBegins(T, s)
                 \/ /\ a.fn = "FUN"
                    /\ task' = [T EXCEPT ![s].blocked = @ \cup a.mask,
                                         ![s].sigaction[g].fn =
                                             IF a.oneshot THEN "DFL" ELSE @]
    /\ UNCHANGED <<current, last_pid, shell, left>>

-----------------------------------------------------------------------------
Kernel(s) ==
    \/ NoSignal(s) \/ do_signal(s)
    \/ WaitReleases(s) \/ WaitSleeps(s) \/ WaitReturns(s) \/ WaitWakes(s)
    \/ CloseSleeps(s) \/ ExitEnds(s)

Calls(s) ==
    \/ /\ "kill" \in Ops
       /\ \E p \in KillArgs, g \in KillSigs : sys_kill(s, p, g)
    \/ /\ "signal" \in Ops
       /\ \E g \in Sig, fn \in Fns : sys_signal(s, g, fn)
    \/ /\ "sigaction" \in Ops
       /\ \E g \in Sig, fn \in Fns, m \in Masks, o \in BOOLEAN :
             sys_sigaction(s, g, fn, m, o)
    \/ "ssetmask" \in Ops /\ \E m \in Masks : sys_ssetmask(s, m)
    \/ "setpgid" \in Ops /\ \E p, g \in GroupArgs : sys_setpgid(s, p, g)
    \/ "setsid" \in Ops /\ sys_setsid(s)

Next ==
    \E s \in Slot :
        \/ SwitchTo(s) \/ TimerInterrupt(s) \/ Reschedule(s)
        \/ ForkOk(s) \/ ForkFails(s)
        \/ sys_exit(s)
        \/ \E a \in WaitArgs : sys_waitpid(s, a[1], a[2])
        \/ sys_pause(s)
        \/ Calls(s)
        \/ Kernel(s)

Spec == Init /\ [][Next]_vars

(* Fairness: schedule() starves no runnable process; a process in the      *)
(* kernel gets on, in do_exit once the disk has answered; time slices end; *)
(* init goes round its loop (main.cc:210-228): it forks while it has no    *)
(* shell, and waits while it has one.                                      *)
FairSpec ==
    /\ Spec
    /\ \A s \in Slot : SF_vars(SwitchTo(s))
    /\ WF_vars(\E s \in Slot : TimerInterrupt(s) \/ Kernel(s))
    /\ SF_vars(\E s \in Slot : Reschedule(s))
    /\ SF_vars(ForkOk(1) \/ ForkFails(1) \/ sys_waitpid(1, -1, FALSE))

-----------------------------------------------------------------------------
(* Every process but init has a father that can still wait for it: one     *)
(* that has not begun to exit.  do_exit passes the children on before it   *)
(* sleeps for the first time (exit.cc:108), so no child is given to, or    *)
(* left with, a process that is about to die, and the "no father found" of *)
(* tell_father never happens.                                              *)
Exiting(s) == task[s].pc \in {"close", "closed"}
FatherThere ==
    \A s \in Used \ {1} :
        \E f \in Fathers(task, s) : ~Exiting(f) /\ f # s

(* A father does not sleep in waitpid while a child it waits for is dead,  *)
(* unless the SIGCHLD that will wake it is pending.  (A process group that *)
(* is waited for may gain a dead member by setpgid; that is left out.)     *)
WaiterKnows ==
    \A s \in Used :
        /\ task[s].pc = "wait" /\ task[s].state = "INTERRUPTIBLE"
        /\ task[s].upid > 0 \/ task[s].upid = -1
        /\ Zombies(s) # {}
        => SIGCHLD \in task[s].signal

(* SIGKILL kills, whatever the process does and whatever it blocks with    *)
(* ssetmask or catches with signal: again and again there is nobody left   *)
(* that it has been sent to and that lives.  sigaction is the exception:   *)
(* do_signal adds sa_mask to the blocked signals as it is (signal.cc:117), *)
(* so a handler whose mask has SIGKILL in it is not killed; a run that     *)
(* checks this has no "sigaction" in Ops.                                  *)
Killed(s) == SIGKILL \in task[s].signal /\ task[s].state # "ZOMBIE"
KillIsFinal == []<>(\A s \in Used \ {1} : ~Killed(s))

(* Dead orphans do not clog the table while init has a shell: when it is   *)
(* full and init has a dead child, a slot becomes free.  (That every dead  *)
(* child is released is not true: waitpid looks from the last slot down,   *)
(* and children that die in the last slots again and again are released    *)
(* first.)  Without a shell init does not wait: it forks until it succeeds *)
(* (main.cc:211-214), so when others have taken the slot of the dead shell *)
(* the orphans stay in the full table as long as these live.               *)
DeadOrphan(s) == task[s].state = "ZOMBIE" /\ task[s].father = 1
TableDrains == []<>(shell = 0 \/ Used # Slot \/ \A s \in Used : ~DeadOrphan(s))

=============================================================================
