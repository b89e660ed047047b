-------------------------- MODULE Process_proofs --------------------------
(***************************************************************************)
(* For a table of any size in which init is not killed: every process has  *)
(* a father that can wait for it, and no father sleeps through the death   *)
(* of a child.                                                             *)
(***************************************************************************)
EXTENDS Process, FiniteSetTheorems, NaturalsInduction, WellFoundedInduction, TLAPS

(* Init is there and is never at the mercy of a signal: it is in no        *)
(* session that has a leader, and all it gets is SIGCHLD, by default.      *)
InitSafe ==
    /\ task[1] # NULL
    /\ task[1].pid = 1
    /\ task[1].session = 0
    /\ task[1].signal \subseteq {SIGCHLD}
    /\ task[1].sigaction[SIGCHLD].fn = "DFL"
    /\ ~Exiting(1)

LeadersApart == \A s \in Used : task[s].leader => task[s].session # 0

(* A zombie is in do_exit, for ever.                                       *)
DeadExits == \A s \in Used : task[s].state = "ZOMBIE" => Exiting(s)

UniquePids == \A r, s \in Used : task[r].pid = task[s].pid => r = s

ProcInv ==
    /\ TypeOK
    /\ InitSafe /\ LeadersApart /\ DeadExits /\ UniquePids
    /\ FatherThere /\ WaiterKnows

-----------------------------------------------------------------------------
(* Sets and numbers.                                                       *)

LEMMA LeastExists ==
    ASSUME NEW T, T \subseteq Nat, T # {}
    PROVE  \E x \in T : \A y \in T : x <= y
<1> DEFINE R == OpToRel(<, Nat)
<1>1. PICK x \in T : \A y \in T : <<y, x>> \notin R
  <2>1. IsWellFoundedOn(R, Nat)
    BY NatLessThanWellFounded
  <2> HIDE DEF R
  <2> QED
    BY <2>1, WFMin
<1>2. \A y \in T : ~(y < x)
  BY <1>1 DEF OpToRel
<1> HIDE DEF R
<1> QED
  BY <1>2

(* There are more pids than slots: fork always finds one.                  *)
LEMMA PidLeft == TypeOK => FreePids # {}
<1> SUFFICES ASSUME TypeOK, FreePids = {} PROVE FALSE
  OBVIOUS
<1> DEFINE f == [p \in Pid |-> CHOOSE s \in Used : task[s].pid = p]
<1>1. \A p \in Pid : \E s \in Used : task[s].pid = p
  BY DEF FreePids
<1>2. \A p \in Pid : f[p] \in Used /\ task[f[p]].pid = p
  BY <1>1
<1>3. f \in [Pid -> Slot]
  BY <1>2 DEF Used
<1>4. /\ IsFiniteSet(Pid) /\ Cardinality(Pid) = MaxPid
      /\ IsFiniteSet(Slot) /\ Cardinality(Slot) = NR_TASKS - 1
  BY FS_Interval, ProcessAssumption DEF Pid, Slot
<1>5. PICK p, q \in Pid : p # q /\ f[p] = f[q]
  <2> HIDE DEF f
  <2> QED
    BY <1>3, <1>4, FS_PigeonHole, ProcessAssumption
<1> QED
  BY <1>2, <1>5

(* find_empty_process returns a pid that is not in use.                    *)
LEMMA NextPidFree == TypeOK => NextPid \in FreePids
<1> SUFFICES ASSUME TypeOK PROVE NextPid \in FreePids
  OBVIOUS
<1> DEFINE T == {After(p) : p \in FreePids}
<1>1. T # {}
  BY PidLeft
<1>2. T \subseteq Nat
  <2>1. \A p \in FreePids : After(p) \in Nat
    BY ProcessAssumption DEF TypeOK, FreePids, Pid, After
  <2> QED
    BY <2>1
<1>3. PICK x \in T : \A y \in T : x <= y
  <2> HIDE DEF T
  <2> QED
    BY <1>1, <1>2, LeastExists
<1>4. \E p \in FreePids : \A q \in FreePids : After(p) <= After(q)
  BY <1>3
<1> QED
  BY <1>4 DEF NextPid

LEMMA FreeSlotFree == Used # Slot => FreeSlot \in Slot \ Used
<1> SUFFICES ASSUME Used # Slot PROVE FreeSlot \in Slot \ Used
  OBVIOUS
<1>1. Slot \ Used # {} /\ Slot \ Used \subseteq Nat
  BY DEF Used, Slot
<1>2. \E s \in Slot \ Used : \A r \in Slot \ Used : s <= r
  BY <1>1, LeastExists
<1> QED
  BY <1>2 DEF FreeSlot

-----------------------------------------------------------------------------
(* Steps that change no kinship: nobody comes or goes, exits or dies.      *)

Out == {"close", "closed"}

Waits(r) ==
    /\ task[r].pc = "wait" /\ task[r].state = "INTERRUPTIBLE"
    /\ task[r].upid > 0 \/ task[r].upid = -1

(* The process p may follow task[r].                                       *)
QuietFor(r, p) ==
    /\ p \in TaskStruct
    /\ p.pid = task[r].pid /\ p.father = task[r].father
    /\ p.pc \in Out <=> task[r].pc \in Out
    /\ p.state = "ZOMBIE" <=> task[r].state = "ZOMBIE"
    /\ p.leader => p.session # 0
    /\ (p.pc = "wait" /\ p.state = "INTERRUPTIBLE") =>
          /\ p.upid = task[r].upid
          /\ \/ /\ task[r].pc = "wait" /\ task[r].state = "INTERRUPTIBLE"
                /\ SIGCHLD \in task[r].signal => SIGCHLD \in p.signal
             \/ Zombies(r) = {}
    /\ r = 1 => /\ p.session = 0
                /\ p.signal \subseteq {SIGCHLD}
                /\ p.sigaction[SIGCHLD].fn = "DFL"

QuietStep ==
    /\ task' \in [Slot -> TaskStruct \cup {NULL}]
    /\ \A r \in Slot : task[r] = NULL => task'[r] = NULL
    /\ \A r \in Used : QuietFor(r, task'[r])
    /\ current' \in Slot \cup {0} /\ last_pid' \in Pid /\ shell' \in Pid \cup {0} /\ left' \in Nat

LEMMA QuietUsed ==
    ASSUME TypeOK, QuietStep
    PROVE  Used' = Used
BY NullIsNoProcess DEF QuietStep, QuietFor, Used

LEMMA QuietFathers ==
    ASSUME TypeOK, FatherThere, QuietStep
    PROVE  FatherThere'
<1>1. Used' = Used
  BY QuietUsed
<1>2. \A r \in Used : /\ task'[r].pid = task[r].pid /\ task'[r].father = task[r].father
                      /\ task'[r].pc \in Out <=> task[r].pc \in Out
  BY DEF QuietStep, QuietFor
<1> SUFFICES ASSUME NEW s \in Used \ {1}
             PROVE  \E f \in Fathers(task', s) : ~Exiting(f)' /\ f # s
  BY <1>1 DEF FatherThere, Fathers
<1>3. PICK f \in Fathers(task, s) : ~Exiting(f) /\ f # s
  BY DEF FatherThere
<1>4. f \in Used /\ task[f].pid = task[s].father
  BY <1>3 DEF Fathers, Used
<1>5. f \in Fathers(task', s)
  BY <1>1, <1>2, <1>4 DEF Fathers, Used
<1>6. ~Exiting(f)'
  BY <1>2, <1>3, <1>4 DEF Exiting, Out
<1> QED
  BY <1>3, <1>5, <1>6

LEMMA QuietWaiters ==
    ASSUME TypeOK, WaiterKnows, QuietStep
    PROVE  WaiterKnows'
<1>1. Used' = Used
  BY QuietUsed
<1> SUFFICES ASSUME NEW s \in Used, Waits(s)', Zombies(s)' # {}
             PROVE  SIGCHLD \in task'[s].signal
  BY <1>1 DEF WaiterKnows, Waits
<1>2. QuietFor(s, task'[s])
  BY DEF QuietStep
<1>3. task'[s].upid = task[s].upid
  BY <1>2 DEF QuietFor, Waits
<1>4. PICK c \in Slot : c \in Zombies(s)'
  BY DEF Zombies, Awaited, Children
<1>5. /\ c \in Used /\ c # s
      /\ task'[c].father = task'[s].pid
      /\ task'[c].state = "ZOMBIE"
      /\ Matches(c, s)'
  BY <1>1, <1>4 DEF Zombies, Awaited, Children, Used
<1>6. /\ task[c].father = task[s].pid /\ task[c].state = "ZOMBIE"
      /\ task[c].pid = task'[c].pid
  BY <1>2, <1>5 DEF QuietStep, QuietFor
<1>7. Matches(c, s)
  BY <1>3, <1>5, <1>6 DEF Matches, Waits
<1>8. c \in Zombies(s)
  BY <1>5, <1>6, <1>7 DEF Zombies, Awaited, Children, Used
<1>9. Waits(s) /\ (SIGCHLD \in task[s].signal => SIGCHLD \in task'[s].signal)
  BY <1>2, <1>3, <1>8 DEF QuietFor, Waits
<1> QED
  BY <1>8, <1>9 DEF WaiterKnows, Waits

LEMMA QuietInv ==
    ASSUME ProcInv, QuietStep
    PROVE  ProcInv'
<1>1. TypeOK /\ InitSafe /\ UniquePids /\ DeadExits /\ FatherThere /\ WaiterKnows
  BY DEF ProcInv
<1>2. Used' = Used
  BY <1>1, QuietUsed
<1>3. \A r \in Used : QuietFor(r, task'[r])
  BY DEF QuietStep
<1>4. 1 \in Used
  BY <1>1, ProcessAssumption DEF InitSafe, Used, Slot
<1>5. InitSafe'
  BY <1>1, <1>2, <1>3, <1>4 DEF InitSafe, QuietFor, Used, Exiting, Out
<1>6. LeadersApart' /\ DeadExits' /\ UniquePids'
  BY <1>1, <1>2, <1>3 DEF QuietFor, LeadersApart, DeadExits, UniquePids, Exiting, Out
<1>7. TypeOK'
  BY DEF QuietStep, TypeOK
<1> QED
  BY <1>1, <1>5, <1>6, <1>7, QuietFathers, QuietWaiters DEF ProcInv

(* A process that is left as it is is quiet.                               *)
LEMMA SameIsQuiet ==
    ASSUME ProcInv, NEW r \in Used
    PROVE  QuietFor(r, task[r])
BY DEF ProcInv, TypeOK, InitSafe, LeadersApart, QuietFor, Used

(* A step of one process, which leaves the others alone.                   *)
LEMMA OneQuiet ==
    ASSUME ProcInv, NEW s \in Used, NEW p, QuietFor(s, p),
           task' = [task EXCEPT ![s] = p],
           current' \in Slot \cup {0}, last_pid' \in Pid, shell' \in Pid \cup {0}, left' \in Nat
    PROVE  ProcInv'
<1>1. task \in [Slot -> TaskStruct \cup {NULL}] /\ s \in Slot /\ task[s] # NULL
  BY DEF ProcInv, TypeOK, Used
<1>2. p \in TaskStruct
  BY DEF QuietFor
<1>3. task' \in [Slot -> TaskStruct \cup {NULL}]
  BY <1>1, <1>2
<1>4. \A r \in Used : QuietFor(r, task'[r])
  BY <1>1, SameIsQuiet DEF Used
<1> QED
  BY <1>1, <1>3, <1>4, QuietInv DEF QuietStep

(* Facts about the running process.                                        *)
LEMMA Running ==
    ASSUME ProcInv, NEW s \in Slot, NEW l, At(s, l)
    PROVE  /\ s \in Used /\ task[s] \in TaskStruct /\ task[s].pc = l
           /\ task[s].leader => task[s].session # 0
           /\ s = 1 => /\ task[s].session = 0
                       /\ task[s].signal \subseteq {SIGCHLD}
                       /\ task[s].sigaction[SIGCHLD].fn = "DFL"
           /\ task[s].state = "ZOMBIE" => l \in Out
BY DEF ProcInv, TypeOK, InitSafe, LeadersApart, DeadExits, Exiting, Out, At, Used

LEMMA Numbers == ProcInv => last_pid \in Pid /\ shell \in Pid \cup {0} /\ left \in Nat /\ current \in Slot \cup {0}
BY DEF ProcInv, TypeOK

LEMMA WaitFieldsType ==
    ASSUME NEW q \in TaskStruct, NEW l \in Pc, NEW u \in Int, NEW b \in BOOLEAN
    PROVE  [q EXCEPT !.pc = l, !.upid = u, !.nohang = b] \in TaskStruct
BY DEF TaskStruct

LEMMA TimerInterruptInv ==
    ASSUME ProcInv, NEW s \in Slot, TimerInterrupt(s)
    PROVE  ProcInv'
<1> DEFINE p == [task[s] EXCEPT !.pc = "ret"]
<1>1. At(s, "user") /\ task' = [task EXCEPT ![s] = p] /\ UNCHANGED <<current, last_pid, shell, left>>
  BY DEF TimerInterrupt
<1>2. p \in TaskStruct
  <2>1. task[s] \in TaskStruct
    BY <1>1, Running
  <2> QED
    BY <2>1 DEF TaskStruct, Pc
<1>3. QuietFor(s, p)
  BY <1>1, <1>2, Running DEF TaskStruct, QuietFor, Out
<1> HIDE DEF p
<1> QED
  BY <1>1, <1>3, Running, Numbers, OneQuiet

LEMMA RescheduleInv ==
    ASSUME ProcInv, NEW s \in Slot, Reschedule(s)
    PROVE  ProcInv'
<1> DEFINE p == [task[s] EXCEPT !.pc = "sig"]
<1>1. At(s, "ret") /\ task' = [task EXCEPT ![s] = p] /\ current' = 0 /\ UNCHANGED <<last_pid, shell, left>>
  BY DEF Reschedule
<1>2. p \in TaskStruct
  <2>1. task[s] \in TaskStruct
    BY <1>1, Running
  <2> QED
    BY <2>1 DEF TaskStruct, Pc
<1>3. QuietFor(s, p)
  BY <1>1, <1>2, Running DEF TaskStruct, QuietFor, Out
<1> HIDE DEF p
<1> QED
  BY <1>1, <1>3, Running, Numbers, OneQuiet

LEMMA CloseSleepsInv ==
    ASSUME ProcInv, NEW s \in Slot, CloseSleeps(s)
    PROVE  ProcInv'
<1> DEFINE p == [task[s] EXCEPT !.pc = "closed"]
<1>1. At(s, "close") /\ task' = [task EXCEPT ![s] = p] /\ current' = 0 /\ UNCHANGED <<last_pid, shell, left>>
  BY DEF CloseSleeps
<1>2. p \in TaskStruct
  <2>1. task[s] \in TaskStruct
    BY <1>1, Running
  <2> QED
    BY <2>1 DEF TaskStruct, Pc
<1>3. QuietFor(s, p)
  BY <1>1, <1>2, Running DEF TaskStruct, QuietFor, Out
<1> HIDE DEF p
<1> QED
  BY <1>1, <1>3, Running, Numbers, OneQuiet

LEMMA sys_waitpidInv ==
    ASSUME ProcInv, NEW s \in Slot, NEW a \in WaitArgs, sys_waitpid(s, a[1], a[2])
    PROVE  ProcInv'
<1> DEFINE p == [task[s] EXCEPT !.pc = "scan", !.upid = a[1], !.nohang = a[2]]
<1>1. At(s, "user") /\ task' = [task EXCEPT ![s] = p] /\ UNCHANGED <<current, last_pid, shell, left>>
  BY DEF sys_waitpid
<1>2. p \in TaskStruct
  <2>1. a[1] \in Int /\ a[2] \in BOOLEAN
    BY ProcessAssumption
  <2>2. task[s] \in TaskStruct /\ "scan" \in Pc
    BY <1>1, Running DEF Pc
  <2> QED
    BY <2>1, <2>2, WaitFieldsType
<1>3. QuietFor(s, p)
  BY <1>1, <1>2, Running DEF TaskStruct, QuietFor, Out
<1> HIDE DEF p
<1> QED
  BY <1>1, <1>3, Running, Numbers, OneQuiet

LEMMA sys_pauseInv ==
    ASSUME ProcInv, NEW s \in Slot, sys_pause(s)
    PROVE  ProcInv'
<1> DEFINE p == [task[s] EXCEPT !.state = "INTERRUPTIBLE", !.pc = "ret"]
<1>1. At(s, "user") /\ task' = [task EXCEPT ![s] = p] /\ current' = 0 /\ UNCHANGED <<last_pid, shell, left>>
  BY DEF sys_pause, User
<1>2. p \in TaskStruct
  <2>1. task[s] \in TaskStruct
    BY <1>1, Running
  <2> QED
    BY <2>1 DEF TaskStruct, Pc
<1>3. QuietFor(s, p)
  BY <1>1, <1>2, Running DEF TaskStruct, QuietFor, Out
<1> HIDE DEF p
<1> QED
  BY <1>1, <1>3, Running, Numbers, OneQuiet

LEMMA WaitReturnsInv ==
    ASSUME ProcInv, NEW s \in Slot, WaitReturns(s)
    PROVE  ProcInv'
<1> DEFINE p == [task[s] EXCEPT !.pc = "ret", !.upid = -1, !.nohang = FALSE]
<1>1. At(s, "scan") /\ task' = [task EXCEPT ![s] = p] /\ UNCHANGED <<current, last_pid, shell, left>>
  BY DEF WaitReturns, Return
<1>2. p \in TaskStruct
  <2>1. task[s] \in TaskStruct /\ "ret" \in Pc /\ -1 \in Int /\ FALSE \in BOOLEAN
    BY <1>1, Running DEF Pc
  <2> QED
    BY <2>1, WaitFieldsType
<1>3. QuietFor(s, p)
  BY <1>1, <1>2, Running DEF TaskStruct, QuietFor, Out
<1> HIDE DEF p
<1> QED
  BY <1>1, <1>3, Running, Numbers, OneQuiet

LEMMA WaitSleepsInv ==
    ASSUME ProcInv, NEW s \in Slot, WaitSleeps(s)
    PROVE  ProcInv'
<1> DEFINE p == [task[s] EXCEPT !.state = "INTERRUPTIBLE", !.pc = "wait"]
<1>1. /\ At(s, "scan") /\ task' = [task EXCEPT ![s] = p] /\ Zombies(s) = {}
      /\ current' = 0 /\ UNCHANGED <<last_pid, shell, left>>
  BY DEF WaitSleeps
<1>2. p \in TaskStruct
  <2>1. task[s] \in TaskStruct
    BY <1>1, Running
  <2> QED
    BY <2>1 DEF TaskStruct, Pc
<1>3. QuietFor(s, p)
  BY <1>1, <1>2, Running DEF TaskStruct, QuietFor, Out
<1> HIDE DEF p
<1> QED
  BY <1>1, <1>3, Running, Numbers, OneQuiet

LEMMA SwitchToInv ==
    ASSUME ProcInv, NEW s \in Slot, SwitchTo(s)
    PROVE  ProcInv'
<1> USE DEF SwitchTo
<1>1. TypeOK
  BY DEF ProcInv
<1>2. ASSUME NEW r \in Used PROVE QuietFor(r, task'[r])
  <2>1. QuietFor(r, task[r]) /\ task[r] \in TaskStruct
    BY <1>1, SameIsQuiet DEF TypeOK, Used
  <2>2. CASE ~Awake(task[r])
    BY <2>1, <2>2 DEF Used
  <2>3. CASE Awake(task[r])
    <3> DEFINE p == [task[r] EXCEPT !.state = "RUNNING"]
    <3>1. task'[r] = p
      BY <2>3 DEF Used
    <3>2. p \in TaskStruct
      BY <2>1 DEF TaskStruct
    <3>3. /\ p.pid = task[r].pid /\ p.father = task[r].father /\ p.pc = task[r].pc
          /\ p.state = "RUNNING" /\ p.leader = task[r].leader
          /\ p.session = task[r].session /\ p.signal = task[r].signal
          /\ p.sigaction = task[r].sigaction
          /\ task[r].state = "INTERRUPTIBLE"
      BY <2>1, <2>3 DEF TaskStruct, Awake
    <3> HIDE DEF p
    <3>4. QuietFor(r, p)
      BY <2>1, <3>2, <3>3 DEF QuietFor
    <3> QED
      BY <3>1, <3>4
  <2> QED
    BY <2>2, <2>3
<1>3. \A r \in Slot : task[r] = NULL => task'[r] = NULL
  BY DEF Awake
<1>4. task' \in [Slot -> TaskStruct \cup {NULL}]
  <2>1. \A r \in Slot : task'[r] \in TaskStruct \cup {NULL}
    BY <1>2, <1>3 DEF QuietFor, Used
  <2> QED
    BY <2>1
<1> QED
  BY <1>2, <1>3, <1>4, Numbers, QuietInv DEF QuietStep

LEMMA ForkFailsInv ==
    ASSUME ProcInv, NEW s \in Slot, ForkFails(s)
    PROVE  ProcInv'
<1> DEFINE p == [task[s] EXCEPT !.pc = "ret"]
<1>1. At(s, "user") /\ task' = [task EXCEPT ![s] = p] /\ UNCHANGED <<current, shell, left>>
  BY DEF ForkFails
<1>2. last_pid' \in Pid
  BY NextPidFree DEF ForkFails, ProcInv, FreePids
<1>3. p \in TaskStruct
  <2>1. task[s] \in TaskStruct
    BY <1>1, Running
  <2> QED
    BY <2>1 DEF TaskStruct, Pc
<1>4. QuietFor(s, p)
  BY <1>1, <1>3, Running DEF TaskStruct, QuietFor, Out
<1> HIDE DEF p
<1> QED
  BY <1>1, <1>2, <1>4, Running, Numbers, OneQuiet

LEMMA NoSignalInv ==
    ASSUME ProcInv, NEW s \in Slot, NoSignal(s)
    PROVE  ProcInv'
<1> DEFINE p == [task[s] EXCEPT !.pc = "user"]
<1>1. PICK l \in {"ret", "sig"} : At(s, l)
  BY DEF NoSignal
<1>2. task' = [task EXCEPT ![s] = p] /\ UNCHANGED <<current, last_pid, shell, left>>
  BY DEF NoSignal
<1>3. p \in TaskStruct
  <2>1. task[s] \in TaskStruct
    BY <1>1, Running
  <2> QED
    BY <2>1 DEF TaskStruct, Pc
<1>4. QuietFor(s, p)
  BY <1>1, <1>3, Running DEF TaskStruct, QuietFor, Out
<1> HIDE DEF p
<1> QED
  BY <1>1, <1>2, <1>4, Running, Numbers, OneQuiet

LEMMA WaitWakesInv ==
    ASSUME ProcInv, NEW s \in Slot, WaitWakes(s)
    PROVE  ProcInv'
<1> DEFINE rest == task[s].signal \ {SIGCHLD}
           p == [task[s] EXCEPT !.signal = rest, !.pc = "scan"]
           q == [p EXCEPT !.pc = "ret", !.upid = -1, !.nohang = FALSE]
<1>1. At(s, "wait") /\ UNCHANGED <<current, last_pid, shell, left>>
  BY DEF WaitWakes
<1>2. s \in Slot /\ task[s] \in TaskStruct /\ task \in [Slot -> TaskStruct \cup {NULL}]
  BY <1>1, Running DEF ProcInv, TypeOK
<1>3. task' = [task EXCEPT ![s] = p] \/ task' = [task EXCEPT ![s] = q]
  BY <1>2 DEF WaitWakes, Return
<1>4. p \in TaskStruct
  BY <1>2 DEF TaskStruct, Pc
<1>5. QuietFor(s, p)
  BY <1>1, <1>4, Running DEF TaskStruct, QuietFor, Out
<1>6. q \in TaskStruct
  <2>1. "ret" \in Pc /\ -1 \in Int /\ FALSE \in BOOLEAN
    BY DEF Pc
  <2> HIDE DEF p
  <2> QED
    BY <1>4, <2>1, WaitFieldsType
<1>7. QuietFor(s, q)
  BY <1>1, <1>6, Running DEF TaskStruct, QuietFor, Out
<1> HIDE DEF p, q
<1> QED
  BY <1>1, <1>3, <1>5, <1>7, Running, Numbers, OneQuiet

LEMMA SetActionInv ==
    ASSUME ProcInv, NEW s \in Slot, NEW g \in Sig, NEW a \in Handler, SetAction(s, g, a)
    PROVE  ProcInv'
<1> DEFINE p == [task[s] EXCEPT !.sigaction[g] = a, !.pc = "ret"]
<1>1. /\ At(s, "user") /\ s # 1 /\ task' = [task EXCEPT ![s] = p]
      /\ left > 0 /\ left' = left - 1 /\ UNCHANGED <<current, last_pid, shell>>
  BY DEF SetAction, User, Counted
<1>2. p \in TaskStruct
  <2>1. task[s] \in TaskStruct
    BY <1>1, Running
  <2> QED
    BY <2>1 DEF TaskStruct, Pc
<1>3. QuietFor(s, p)
  BY <1>1, <1>2, Running DEF TaskStruct, QuietFor, Out
<1> HIDE DEF p
<1>4. s \in Used /\ left' \in Nat /\ last_pid' \in Pid /\ shell' \in Pid \cup {0} /\ current' \in Slot \cup {0}
  BY <1>1, Running, Numbers
<1> QED
  BY <1>1, <1>3, <1>4, OneQuiet

LEMMA sys_ssetmaskInv ==
    ASSUME ProcInv, NEW s \in Slot, NEW m \in Masks, sys_ssetmask(s, m)
    PROVE  ProcInv'
<1> DEFINE p == [task[s] EXCEPT !.blocked = m \ {SIGKILL}, !.pc = "ret"]
<1>1. /\ At(s, "user") /\ s # 1 /\ task' = [task EXCEPT ![s] = p]
      /\ left > 0 /\ left' = left - 1 /\ UNCHANGED <<current, last_pid, shell>>
  BY DEF sys_ssetmask, User, Counted
<1>2. m \in SUBSET Sig
  BY ProcessAssumption
<1>3. p \in TaskStruct
  <2>1. task[s] \in TaskStruct
    BY <1>1, Running
  <2> QED
    BY <1>2, <2>1 DEF TaskStruct, Pc
<1>4. QuietFor(s, p)
  BY <1>1, <1>3, Running DEF TaskStruct, QuietFor, Out
<1> HIDE DEF p
<1>5. s \in Used /\ left' \in Nat /\ last_pid' \in Pid /\ shell' \in Pid \cup {0} /\ current' \in Slot \cup {0}
  BY <1>1, Running, Numbers
<1> QED
  BY <1>1, <1>4, <1>5, OneQuiet

LEMMA SessionType ==
    ASSUME NEW q \in TaskStruct, NEW b \in BOOLEAN, NEW n \in Nat, NEW l \in Pc
    PROVE  [q EXCEPT !.leader = b, !.session = n, !.pgrp = n, !.pc = l] \in TaskStruct
BY DEF TaskStruct

LEMMA sys_setsidInv ==
    ASSUME ProcInv, NEW s \in Slot, sys_setsid(s)
    PROVE  ProcInv'
<1> DEFINE p == [task[s] EXCEPT !.pc = "ret"]
           q == [task[s] EXCEPT !.leader = TRUE, !.session = task[s].pid,
                                !.pgrp = task[s].pid, !.pc = "ret"]
<1>1. /\ At(s, "user") /\ s # 1
      /\ left > 0 /\ left' = left - 1 /\ UNCHANGED <<current, last_pid, shell>>
  BY DEF sys_setsid, User, Counted
<1>2. task[s] \in TaskStruct /\ task \in [Slot -> TaskStruct \cup {NULL}]
  BY <1>1, Running DEF ProcInv, TypeOK
<1>3. task' = [task EXCEPT ![s] = p] \/ task' = [task EXCEPT ![s] = q]
  BY <1>2 DEF sys_setsid
<1>4. p \in TaskStruct
  BY <1>2 DEF TaskStruct, Pc
<1>5. QuietFor(s, p)
  BY <1>1, <1>4, Running DEF TaskStruct, QuietFor, Out
<1>6. q \in TaskStruct
  <2>1. "ret" \in Pc /\ TRUE \in BOOLEAN /\ task[s].pid \in Nat
    BY <1>2, ProcessAssumption DEF Pc, TaskStruct, Pid
  <2> QED
    BY <1>2, <2>1, SessionType
<1>7. q.session # 0
  BY <1>2, ProcessAssumption DEF TaskStruct, Pid
<1>8. QuietFor(s, q)
  BY <1>1, <1>6, <1>7, Running DEF TaskStruct, QuietFor, Out
<1> HIDE DEF p, q
<1> QED
  BY <1>1, <1>3, <1>5, <1>8, Running, Numbers, OneQuiet

LEMMA sys_killInv ==
    ASSUME ProcInv, SpareInit, NEW s \in Slot, NEW k \in KillArgs, NEW g \in KillSigs, sys_kill(s, k, g)
    PROVE  ProcInv'
<1> DEFINE hit == Targets(s, k)
<1>1. /\ At(s, "user") /\ s # 1 /\ 1 \notin hit
      /\ left > 0 /\ left' = left - 1 /\ UNCHANGED <<current, last_pid, shell>>
      /\ task' = [Signalled(task, hit, g) EXCEPT ![s].pc = "ret"]
  BY DEF sys_kill, User, Counted
<1>2. hit \subseteq Used /\ g \in Sig
  BY ProcessAssumption DEF Targets
<1> HIDE DEF hit
<1>3. task \in [Slot -> TaskStruct \cup {NULL}] /\ s \in Used
  BY <1>1, Running DEF ProcInv, TypeOK
<1>4. ASSUME NEW r \in Used PROVE QuietFor(r, task'[r])
  <2> DEFINE Sent == IF r \in hit THEN task[r].signal \cup {g} ELSE task[r].signal
             Place == IF r = s THEN "ret" ELSE task[r].pc
             p == [task[r] EXCEPT !.signal = Sent, !.pc = Place]
  <2>1. r \in Slot /\ task[r] \in TaskStruct /\ task[r] # NULL
    BY <1>3 DEF Used
  <2>2. task'[r] = p
    BY <1>1, <1>2, <1>3, <2>1 DEF Signalled, TaskStruct
  <2>3. Sent \in SUBSET Sig /\ Place \in Pc
    BY <1>2, <2>1 DEF TaskStruct, Pc
  <2>4. p \in TaskStruct
    BY <2>1, <2>3 DEF TaskStruct
  <2>5. QuietFor(r, task[r])
    BY SameIsQuiet
  <2>6. r = s => task[r].pc = "user"
    BY <1>1, Running
  <2>7. /\ p.signal = Sent /\ p.pc = Place
        /\ p.pid = task[r].pid /\ p.father = task[r].father /\ p.upid = task[r].upid
        /\ p.state = task[r].state /\ p.leader = task[r].leader
        /\ p.session = task[r].session /\ p.sigaction = task[r].sigaction
    BY <2>1 DEF TaskStruct
  <2>8. QuietFor(r, p)
    BY <1>1, <2>4, <2>5, <2>6, <2>7 DEF QuietFor, Out
  <2> QED
    BY <2>2, <2>8
<1>5. \A r \in Slot : task[r] = NULL => task'[r] = NULL
  BY <1>1, <1>3 DEF Signalled, Used
<1>6. DOMAIN task' = Slot /\ task' = [r \in Slot |-> task'[r]]
  BY <1>1 DEF Signalled
<1>7. task' \in [Slot -> TaskStruct \cup {NULL}]
  <2>1. \A r \in Slot : task'[r] \in TaskStruct \cup {NULL}
    BY <1>4, <1>5 DEF QuietFor, Used
  <2> QED
    BY <1>6, <2>1
<1>8. left' \in Nat /\ last_pid' \in Pid /\ shell' \in Pid \cup {0} /\ current' \in Slot \cup {0}
  BY <1>1, Numbers
<1> QED
  BY <1>4, <1>5, <1>7, <1>8, QuietInv DEF QuietStep

LEMMA sys_setpgidInv ==
    ASSUME ProcInv, NEW s \in Slot, NEW a \in GroupArgs, NEW b \in GroupArgs, sys_setpgid(s, a, b)
    PROVE  ProcInv'
<1>1. /\ At(s, "user") /\ s # 1
      /\ left > 0 /\ left' = left - 1 /\ UNCHANGED <<current, last_pid, shell>>
  BY DEF sys_setpgid, User, Counted
<1>2. task \in [Slot -> TaskStruct \cup {NULL}] /\ s \in Used /\ task[s].pid \in Nat
  BY <1>1, Running, ProcessAssumption DEF ProcInv, TypeOK, TaskStruct, Pid
<1>3. PICK hit \in SUBSET Used, g \in Nat :
         task' = [r \in Slot |->
              IF r = s THEN [task[s] EXCEPT !.pc = "ret",
                                            !.pgrp = IF s \in hit THEN g ELSE @]
              ELSE IF r \in hit THEN [task[r] EXCEPT !.pgrp = g] ELSE task[r]]
  <2> DEFINE x == IF a = 0 THEN task[s].pid ELSE a
             g == IF b = 0 THEN task[s].pid ELSE b
             hit == {r \in Used : task[r].pid = x /\ ~task[r].leader
                                  /\ task[r].session = task[s].session}
  <2>1. g \in Nat /\ hit \in SUBSET Used
    BY <1>2, ProcessAssumption
  <2>2. task' = [r \in Slot |->
              IF r = s THEN [task[s] EXCEPT !.pc = "ret",
                                            !.pgrp = IF s \in hit THEN g ELSE @]
              ELSE IF r \in hit THEN [task[r] EXCEPT !.pgrp = g] ELSE task[r]]
    BY DEF sys_setpgid
  <2> HIDE DEF hit, g
  <2> QED
    BY <2>1, <2>2
<1>4. ASSUME NEW r \in Used PROVE QuietFor(r, task'[r])
  <2> DEFINE Place == IF r = s THEN "ret" ELSE task[r].pc
             Group == IF r \in hit THEN g ELSE task[r].pgrp
             p == [task[r] EXCEPT !.pc = Place, !.pgrp = Group]
  <2>1. r \in Slot /\ task[r] \in TaskStruct /\ task[r] # NULL
    BY <1>2 DEF Used
  <2>2. task'[r] = p
    BY <1>3, <2>1 DEF TaskStruct
  <2>3. Place \in Pc /\ Group \in Nat
    BY <2>1 DEF TaskStruct, Pc
  <2>4. p \in TaskStruct
    BY <2>1, <2>3 DEF TaskStruct
  <2>5. QuietFor(r, task[r])
    BY SameIsQuiet
  <2>6. r = s => task[r].pc = "user"
    BY <1>1, Running
  <2>7. /\ p.signal = task[r].signal /\ p.pc = Place
        /\ p.pid = task[r].pid /\ p.father = task[r].father /\ p.upid = task[r].upid
        /\ p.state = task[r].state /\ p.leader = task[r].leader
        /\ p.session = task[r].session /\ p.sigaction = task[r].sigaction
    BY <2>1 DEF TaskStruct
  <2>8. QuietFor(r, p)
    BY <1>1, <2>4, <2>5, <2>6, <2>7 DEF QuietFor, Out
  <2> QED
    BY <2>2, <2>8
<1>5. \A r \in Slot : task[r] = NULL => task'[r] = NULL
  BY <1>2, <1>3 DEF Used
<1>6. task' \in [Slot -> TaskStruct \cup {NULL}]
  <2>1. \A r \in Slot : task'[r] \in TaskStruct \cup {NULL}
    BY <1>4, <1>5 DEF QuietFor, Used
  <2> QED
    BY <1>3, <2>1
<1>7. left' \in Nat /\ last_pid' \in Pid /\ shell' \in Pid \cup {0} /\ current' \in Slot \cup {0}
  BY <1>1, Numbers
<1> QED
  BY <1>4, <1>5, <1>6, <1>7, QuietInv DEF QuietStep

(* A handler, whatever its flag.                                           *)
LEMMA HandlerType ==
    ASSUME NEW fn \in Fns, NEW m \in SUBSET Sig, NEW o \in BOOLEAN
    PROVE  [fn |-> fn, mask |-> m, oneshot |-> o] \in Handler
<1>1. fn \in {"DFL", "IGN", "FUN"}
  BY ProcessAssumption
<1> QED
  BY <1>1 DEF Handler

LEMMA sys_signalInv ==
    ASSUME ProcInv, NEW s \in Slot, NEW g \in Sig, NEW fn \in Fns, sys_signal(s, g, fn)
    PROVE  ProcInv'
<1> DEFINE a == [fn |-> fn, mask |-> {}, oneshot |-> TRUE]
<1>1. a \in Handler
  <2>1. {} \in SUBSET Sig /\ TRUE \in BOOLEAN
    OBVIOUS
  <2> QED
    BY <2>1, HandlerType
<1>2. SetAction(s, g, a)
  BY DEF sys_signal
<1> HIDE DEF a
<1> QED
  BY <1>1, <1>2, SetActionInv

LEMMA sys_sigactionInv ==
    ASSUME ProcInv, NEW s \in Slot, NEW g \in Sig, NEW fn \in Fns,
           NEW m \in Masks, NEW o \in BOOLEAN, sys_sigaction(s, g, fn, m, o)
    PROVE  ProcInv'
<1> DEFINE a == [fn |-> fn, mask |-> {}, oneshot |-> o]
           b == [fn |-> fn, mask |-> m \cup {g}, oneshot |-> o]
<1>1. {} \in SUBSET Sig /\ m \cup {g} \in SUBSET Sig
  BY ProcessAssumption
<1>2. a \in Handler /\ b \in Handler
  BY <1>1, HandlerType
<1>3. SetAction(s, g, a) \/ SetAction(s, g, b)
  BY DEF sys_sigaction
<1> HIDE DEF a, b
<1> QED
  BY <1>2, <1>3, SetActionInv

-----------------------------------------------------------------------------
(* Steps that change kinship: fork, exit and release.                      *)

(* What is a zombie that w waits for after a step, and was dead before and *)
(* a child of w, was one before.                                           *)
LEMMA StillAwaited ==
    ASSUME NEW w \in Slot, NEW c \in Slot, c \in Zombies(w)', Waits(w)',
           task'[w].upid = task[w].upid, task'[w].pid = task[w].pid,
           task[c] # NULL, task[c].state = "ZOMBIE",
           task'[c].pid = task[c].pid, task'[c].father = task[c].father
    PROVE  c \in Zombies(w)
<1>1. c # w /\ task'[c].father = task'[w].pid /\ Matches(c, w)'
  BY DEF Zombies, Awaited, Children
<1>2. Matches(c, w)
  BY <1>1 DEF Matches, Waits
<1> QED
  BY <1>1, <1>2 DEF Zombies, Awaited, Children

LEMMA ChildType ==
    ASSUME NEW q \in TaskStruct, NEW n \in Pid, NEW m \in Nat, NEW b \in BOOLEAN, NEW l \in Pc
    PROVE  [q EXCEPT !.pid = n, !.father = m, !.leader = b, !.signal = {}, !.pc = l] \in TaskStruct
BY DEF TaskStruct

(* The child is a new process with a pid of its own; its father is in the  *)
(* kernel and does not exit.                                               *)
LEMMA ForkOkInv ==
    ASSUME ProcInv, NEW s \in Slot, ForkOk(s)
    PROVE  ProcInv'
<1> DEFINE n == FreeSlot
           child == [task[s] EXCEPT !.pid = NextPid, !.father = task[s].pid,
                                    !.leader = FALSE, !.signal = {}, !.pc = "user"]
           p == [task[s] EXCEPT !.pc = "ret"]
<1>1. /\ At(s, "user") /\ last_pid' = NextPid /\ UNCHANGED <<current, left>>
      /\ (shell' = shell \/ shell' = NextPid)
  BY DEF ForkOk
<1>2. /\ TypeOK /\ InitSafe /\ LeadersApart /\ DeadExits /\ UniquePids
      /\ FatherThere /\ WaiterKnows
  BY DEF ProcInv
<1>3. /\ s \in Used /\ task[s] \in TaskStruct /\ task[s].pc = "user" /\ task[s].state # "ZOMBIE"
      /\ task[s] # NULL /\ task[s].pid \in Nat /\ "user" \in Pc /\ FALSE \in BOOLEAN
  BY <1>1, Running, ProcessAssumption DEF Out, Used, Pc, TaskStruct, Pid
<1>4. n \in Slot /\ n \notin Used /\ n # s /\ task[n] = NULL
  BY <1>3, FreeSlotFree DEF ForkOk, Used
<1>5. NextPid \in Pid /\ \A r \in Used : task[r].pid # NextPid
  BY <1>2, NextPidFree DEF FreePids
<1>6. child \in TaskStruct
  BY <1>3, <1>5, ChildType
<1>7. p \in TaskStruct
  BY <1>3 DEF TaskStruct, Pc
<1>8. task \in [Slot -> TaskStruct \cup {NULL}]
  BY <1>2 DEF TypeOK
<1>9. task' = [[task EXCEPT ![n] = child] EXCEPT ![s] = p]
  BY <1>4, <1>8 DEF ForkOk, copy_process
<1>10. /\ child.pid = NextPid /\ child.father = task[s].pid /\ ~child.leader
       /\ child.state # "ZOMBIE" /\ child.pc = "user"
  BY <1>3 DEF TaskStruct
<1>11. /\ p.pid = task[s].pid /\ p.father = task[s].father /\ p.leader = task[s].leader
       /\ p.state = task[s].state /\ p.pc = "ret" /\ p.session = task[s].session
       /\ p.signal = task[s].signal /\ p.sigaction = task[s].sigaction
  BY <1>3 DEF TaskStruct
<1> HIDE DEF n, child, p
<1>12. /\ task'[n] = child /\ task'[s] = p
       /\ \A r \in Slot : r # n /\ r # s => task'[r] = task[r]
       /\ task' \in [Slot -> TaskStruct \cup {NULL}]
  BY <1>4, <1>6, <1>7, <1>8, <1>9
<1>13. Used' = Used \cup {n}
  BY <1>3, <1>4, <1>6, <1>7, <1>12, NullIsNoProcess DEF Used
<1>14. TypeOK'
  BY <1>1, <1>5, <1>12, Numbers DEF TypeOK
<1>15. \A r \in Used : /\ task'[r].pid = task[r].pid /\ task'[r].father = task[r].father
                       /\ task'[r].leader => task[r].leader
                       /\ task'[r].state = task[r].state
                       /\ task'[r].session = task[r].session
                       /\ task'[r].signal = task[r].signal
                       /\ task'[r].sigaction = task[r].sigaction
                       /\ task'[r].pc # task[r].pc => r = s /\ task'[r].pc = "ret"
  BY <1>4, <1>11, <1>12 DEF Used
<1>16. 1 \in Used
  BY <1>2, ProcessAssumption DEF InitSafe, Used, Slot
<1>17. InitSafe'
  BY <1>2, <1>13, <1>15, <1>16 DEF InitSafe, Exiting, Used
<1>18. LeadersApart'
  BY <1>2, <1>10, <1>12, <1>13, <1>15 DEF LeadersApart
<1>19. DeadExits'
  BY <1>2, <1>3, <1>10, <1>12, <1>13, <1>15 DEF DeadExits, Exiting
<1>20. UniquePids'
  BY <1>2, <1>5, <1>10, <1>12, <1>13, <1>15 DEF UniquePids
<1>21. FatherThere'
  <2> SUFFICES ASSUME NEW r \in Used \cup {n}, r # 1
               PROVE  \E f \in Fathers(task', r) : ~Exiting(f)' /\ f # r
    BY <1>13 DEF FatherThere, Fathers
  <2>1. CASE r = n
    <3>1. s \in Fathers(task', r)
      BY <1>3, <1>10, <1>12, <1>13, <1>15, <2>1 DEF Fathers, Used
    <3>2. ~Exiting(s)'
      BY <1>11, <1>12 DEF Exiting
    <3> QED
      BY <1>4, <2>1, <3>1, <3>2
  <2>2. CASE r \in Used
    <3>1. PICK f \in Fathers(task, r) : ~Exiting(f) /\ f # r
      BY <1>2, <2>2 DEF FatherThere
    <3>2. f \in Used /\ task[f].pid = task[r].father
      BY <3>1 DEF Fathers, Used
    <3>3. f \in Fathers(task', r)
      BY <1>13, <1>15, <2>2, <3>2 DEF Fathers, Used
    <3>4. ~Exiting(f)'
      BY <1>15, <3>1, <3>2 DEF Exiting
    <3> QED
      BY <3>1, <3>3, <3>4
  <2> QED
    BY <2>1, <2>2
<1>22. WaiterKnows'
  <2> SUFFICES ASSUME NEW w \in Used', Waits(w)', Zombies(w)' # {}
               PROVE  SIGCHLD \in task'[w].signal
    BY DEF WaiterKnows, Waits
  <2>1. w \in Used /\ w # s /\ w # n /\ task'[w] = task[w]
    BY <1>10, <1>11, <1>12, <1>13 DEF Waits, Used
  <2>2. PICK c \in Slot : c \in Zombies(w)'
    BY DEF Zombies, Awaited, Children
  <2>3. task'[c] # NULL /\ task'[c].state = "ZOMBIE"
    BY <2>2 DEF Zombies, Awaited, Children
  <2>4. c \in Used /\ task[c].state = "ZOMBIE"
    BY <1>10, <1>12, <1>13, <1>15, <2>3 DEF Used
  <2>5. c \in Zombies(w)
    BY <1>15, <2>1, <2>2, <2>4, StillAwaited DEF Used
  <2> QED
    BY <1>2, <2>1, <2>5 DEF WaiterKnows, Waits
<1> QED
  BY <1>14, <1>17, <1>18, <1>19, <1>20, <1>21, <1>22 DEF ProcInv

LEMMA WaitReleasesInv ==
    ASSUME ProcInv, NEW s \in Slot, WaitReleases(s)
    PROVE  ProcInv'
<1> DEFINE p == [task[s] EXCEPT !.pc = "ret", !.upid = -1, !.nohang = FALSE]
<1>1. /\ At(s, "scan") /\ current' = 0 /\ UNCHANGED <<last_pid, left>>
      /\ (shell' = shell \/ shell' = 0)
  BY DEF WaitReleases
<1>2. /\ TypeOK /\ InitSafe /\ LeadersApart /\ DeadExits /\ UniquePids
      /\ FatherThere /\ WaiterKnows
  BY DEF ProcInv
<1>3. PICK c \in Zombies(s) : task' = Return([task EXCEPT ![c] = NULL], s)
  BY DEF WaitReleases
<1>4. c \in Used /\ c \in Slot /\ c # s /\ task[c].state = "ZOMBIE"
  BY <1>3 DEF Zombies, Awaited, Children, Used
<1>5. Exiting(c)
  BY <1>2, <1>4 DEF DeadExits
<1>6. c # 1
  BY <1>2, <1>5 DEF InitSafe
<1>7. /\ s \in Used /\ task[s] \in TaskStruct /\ task[s].pc = "scan"
      /\ task[s].state # "ZOMBIE" /\ task[s] # NULL
      /\ "ret" \in Pc /\ -1 \in Int /\ FALSE \in BOOLEAN
  BY <1>1, Running DEF Out, Used, Pc
<1>8. p \in TaskStruct
  BY <1>7, WaitFieldsType
<1>9. task \in [Slot -> TaskStruct \cup {NULL}]
  BY <1>2 DEF TypeOK
<1>10. task' = [[task EXCEPT ![c] = NULL] EXCEPT ![s] = p]
  BY <1>3, <1>4, <1>9 DEF Return
<1>11. /\ p.pid = task[s].pid /\ p.father = task[s].father /\ (p.leader => task[s].leader)
       /\ p.state = task[s].state /\ p.pc = "ret" /\ p.session = task[s].session
       /\ p.signal = task[s].signal /\ p.sigaction = task[s].sigaction
  BY <1>7 DEF TaskStruct
<1> HIDE DEF p
<1>12. /\ task'[c] = NULL /\ task'[s] = p
       /\ \A r \in Slot : r # c /\ r # s => task'[r] = task[r]
       /\ task' \in [Slot -> TaskStruct \cup {NULL}]
  BY <1>4, <1>8, <1>9, <1>10
<1>13. Used' = Used \ {c}
  BY <1>4, <1>7, <1>8, <1>12, NullIsNoProcess DEF Used
<1>14. TypeOK'
  BY <1>1, <1>12, Numbers DEF TypeOK
<1>15. \A r \in Used \ {c} :
          /\ task'[r].pid = task[r].pid /\ task'[r].father = task[r].father
          /\ task'[r].leader => task[r].leader
          /\ task'[r].state = task[r].state
          /\ task'[r].session = task[r].session
          /\ task'[r].signal = task[r].signal
          /\ task'[r].sigaction = task[r].sigaction
          /\ task'[r].pc # task[r].pc => r = s /\ task'[r].pc = "ret"
  BY <1>4, <1>11, <1>12 DEF Used
<1>16. 1 \in Used
  BY <1>2, ProcessAssumption DEF InitSafe, Used, Slot
<1>17. InitSafe'
  BY <1>2, <1>6, <1>13, <1>15, <1>16 DEF InitSafe, Exiting, Used
<1>18. LeadersApart' /\ UniquePids'
  BY <1>2, <1>13, <1>15 DEF LeadersApart, UniquePids
<1>19. DeadExits'
  BY <1>2, <1>7, <1>13, <1>15 DEF DeadExits, Exiting
<1>20. FatherThere'
  <2> SUFFICES ASSUME NEW r \in Used \ {c}, r # 1
               PROVE  \E f \in Fathers(task', r) : ~Exiting(f)' /\ f # r
    BY <1>13 DEF FatherThere, Fathers
  <2>1. PICK f \in Fathers(task, r) : ~Exiting(f) /\ f # r
    BY <1>2 DEF FatherThere
  <2>2. f \in Used \ {c} /\ task[f].pid = task[r].father
    BY <1>5, <2>1 DEF Fathers, Used
  <2>3. f \in Fathers(task', r)
    BY <1>13, <1>15, <2>2 DEF Fathers, Used
  <2>4. ~Exiting(f)'
    BY <1>15, <2>1, <2>2 DEF Exiting
  <2> QED
    BY <2>1, <2>3, <2>4
<1>21. WaiterKnows'
  <2> SUFFICES ASSUME NEW w \in Used', Waits(w)', Zombies(w)' # {}
               PROVE  SIGCHLD \in task'[w].signal
    BY DEF WaiterKnows, Waits
  <2>1. w \in Used /\ w # s /\ w # c /\ task'[w] = task[w]
    BY <1>11, <1>12, <1>13 DEF Waits, Used
  <2>2. PICK d \in Slot : d \in Zombies(w)'
    BY DEF Zombies, Awaited, Children
  <2>3. task'[d] # NULL /\ task'[d].state = "ZOMBIE"
    BY <2>2 DEF Zombies, Awaited, Children
  <2>4. d \in Used \ {c} /\ task[d].state = "ZOMBIE"
    BY <1>12, <1>13, <1>15, <2>3 DEF Used
  <2>5. d \in Zombies(w)
    BY <1>15, <2>1, <2>2, <2>4, StillAwaited DEF Used
  <2> QED
    BY <1>2, <2>1, <2>5 DEF WaiterKnows, Waits
<1> QED
  BY <1>14, <1>17, <1>18, <1>19, <1>20, <1>21 DEF ProcInv

(* What do_exit does to the others before it sleeps: children change their *)
(* father, and init may get SIGCHLD.                                       *)
LEMMA ReparentedFunction ==
    ASSUME NEW T, NEW s
    PROVE  Reparented(T, s) = [r \in Slot |-> Reparented(T, s)[r]]
<1> DEFINE kids == Children(T, s)
           given == [c \in Slot |-> IF c \in kids THEN [T[c] EXCEPT !.father = 1] ELSE T[c]]
           dead == \E c \in kids : T[c].state = "ZOMBIE"
<1>1. Reparented(T, s) = IF dead THEN Signalled(given, {1}, SIGCHLD) ELSE given
  BY DEF Reparented
<1>2. given = [r \in Slot |-> given[r]]
  OBVIOUS
<1>3. Signalled(given, {1}, SIGCHLD) = [r \in Slot |-> Signalled(given, {1}, SIGCHLD)[r]]
  <2> HIDE DEF given
  <2> QED
    BY DEF Signalled
<1> HIDE DEF given, dead
<1> QED
  BY <1>1, <1>2, <1>3

LEMMA ReparentedFacts ==
    ASSUME NEW T \in [Slot -> TaskStruct \cup {NULL}], NEW s \in Slot, T[s] # NULL,
           NEW r \in Slot
    PROVE  /\ T[r] = NULL => Reparented(T, s)[r] = NULL
           /\ T[r] # NULL =>
              /\ Reparented(T, s)[r] \in TaskStruct
              /\ Reparented(T, s)[r].pid = T[r].pid
              /\ Reparented(T, s)[r].state = T[r].state
              /\ Reparented(T, s)[r].leader => T[r].leader
              /\ Reparented(T, s)[r].session = T[r].session
              /\ Reparented(T, s)[r].sigaction = T[r].sigaction
              /\ Reparented(T, s)[r].pc = T[r].pc
              /\ Reparented(T, s)[r].upid = T[r].upid
              /\ Reparented(T, s)[r].father =
                     IF T[r].father = T[s].pid THEN 1 ELSE T[r].father
              /\ T[r].signal \subseteq Reparented(T, s)[r].signal
              /\ Reparented(T, s)[r].signal \subseteq
                     T[r].signal \cup (IF r = 1 THEN {SIGCHLD} ELSE {})
              /\ (r = 1 /\ \E c \in Children(T, s) : T[c].state = "ZOMBIE") =>
                     SIGCHLD \in Reparented(T, s)[r].signal
<1> DEFINE kids == Children(T, s)
           given == [c \in Slot |-> IF c \in kids THEN [T[c] EXCEPT !.father = 1] ELSE T[c]]
           dead == \E c \in kids : T[c].state = "ZOMBIE"
           q == given[r]
           z == [q EXCEPT !.signal = @ \cup {SIGCHLD}]
<1>1. Reparented(T, s) = IF dead THEN Signalled(given, {1}, SIGCHLD) ELSE given
  BY DEF Reparented
<1>2. T[r] = NULL => q = NULL
  BY DEF Children
<1>3. ASSUME T[r] # NULL
      PROVE  /\ q \in TaskStruct /\ q.pid = T[r].pid /\ q.state = T[r].state
             /\ q.leader => T[r].leader
             /\ q.session = T[r].session /\ q.sigaction = T[r].sigaction
             /\ q.pc = T[r].pc /\ q.upid = T[r].upid /\ q.signal = T[r].signal
             /\ q.father = IF T[r].father = T[s].pid THEN 1 ELSE T[r].father
  <2>1. T[r] \in TaskStruct
    BY <1>3
  <2>2. CASE r \in kids
    <3>1. q = [T[r] EXCEPT !.father = 1] /\ T[r].father = T[s].pid
      BY <2>2 DEF Children
    <3> HIDE DEF q
    <3> QED
      BY <2>1, <3>1 DEF TaskStruct
  <2>3. CASE r \notin kids
    <3>1. q = T[r] /\ T[r].father # T[s].pid
      BY <1>3, <2>3 DEF Children
    <3> HIDE DEF q
    <3> QED
      BY <2>1, <3>1
  <2> QED
    BY <2>2, <2>3
<1>4. q \in TaskStruct =>
        /\ z \in TaskStruct /\ z.pid = q.pid /\ z.state = q.state /\ (z.leader => q.leader)
        /\ z.session = q.session /\ z.sigaction = q.sigaction /\ z.pc = q.pc
        /\ z.upid = q.upid /\ z.father = q.father /\ z.signal = q.signal \cup {SIGCHLD}
  <2> HIDE DEF q
  <2> QED
    BY ProcessAssumption DEF TaskStruct
<1>5. \/ Reparented(T, s)[r] = q /\ ~(dead /\ r = 1 /\ q # NULL)
      \/ Reparented(T, s)[r] = z /\ dead /\ r = 1 /\ q # NULL
  <2> HIDE DEF given, dead
  <2> QED
    BY <1>1 DEF Signalled
<1>6. T[r] # NULL => q # NULL
  BY <1>3, NullIsNoProcess
<1> HIDE DEF q, z, given, kids
<1>7. CASE Reparented(T, s)[r] = q /\ ~(dead /\ r = 1 /\ q # NULL)
  BY <1>2, <1>3, <1>6, <1>7 DEF kids
<1>8. CASE Reparented(T, s)[r] = z /\ dead /\ r = 1 /\ q # NULL
  BY <1>2, <1>3, <1>4, <1>8
<1> QED
  BY <1>5, <1>7, <1>8

(* do_exit before it sleeps; t is the process, without the signal that     *)
(* killed it.                                                              *)
LEMMA ExitBeginsInv ==
    ASSUME ProcInv, NEW s \in Used, s # 1,
           NEW t \in TaskStruct, t.pid = task[s].pid, t.father = task[s].father,
           t.state = task[s].state, t.leader => task[s].leader, t.session = task[s].session,
           ExitBegins([task EXCEPT ![s] = t], s), UNCHANGED <<current, last_pid, shell, left>>
    PROVE  ProcInv'
<1> DEFINE T == [task EXCEPT ![s] = t]
           R == Reparented(T, s)
           p == [R[s] EXCEPT !.pc = "close"]
<1>1. /\ TypeOK /\ InitSafe /\ LeadersApart /\ DeadExits /\ UniquePids
      /\ FatherThere /\ WaiterKnows
  BY DEF ProcInv
<1>2. task \in [Slot -> TaskStruct \cup {NULL}] /\ s \in Slot /\ task[s] # NULL
  BY <1>1 DEF TypeOK, Used
<1>3. /\ T \in [Slot -> TaskStruct \cup {NULL}] /\ T[s] = t /\ T[s] # NULL
      /\ \A r \in Slot : r # s => T[r] = task[r]
  BY <1>2, NullIsNoProcess
<1>4. task' = [R EXCEPT ![s].pc = "close"]
  BY DEF ExitBegins
<1>5. R = [r \in Slot |-> R[r]]
  BY ReparentedFunction
<1> HIDE DEF T
<1>6. R[s] \in TaskStruct
  BY <1>2, <1>3, ReparentedFacts
<1>7. /\ p \in TaskStruct /\ p.pid = R[s].pid /\ p.state = R[s].state /\ (p.leader => R[s].leader)
      /\ p.session = R[s].session /\ p.father = R[s].father /\ p.pc = "close"
  <2> HIDE DEF R
  <2> QED
    BY <1>6 DEF TaskStruct, Pc
<1> HIDE DEF p
<1>8. task' = [r \in Slot |-> IF r = s THEN p ELSE R[r]]
  <2> HIDE DEF R
  <2> QED
    BY <1>2, <1>4, <1>5 DEF p
<1>9. \A r \in Slot : task[r] = NULL => task'[r] = NULL
  BY <1>2, <1>3, <1>8, ReparentedFacts
<1>10. \A r \in Used :
          /\ task'[r] \in TaskStruct /\ task'[r].pid = task[r].pid
          /\ task'[r].state = task[r].state /\ task'[r].session = task[r].session
          /\ task'[r].leader => task[r].leader
          /\ task'[r].father = IF task[r].father = task[s].pid THEN 1 ELSE task[r].father
  <2> TAKE r \in Used
  <2>1. T[r] # NULL /\ r \in Slot
    BY <1>3 DEF Used
  <2>2. CASE r = s
    BY <1>2, <1>3, <1>7, <1>8, <2>1, <2>2, ReparentedFacts
  <2>3. CASE r # s
    BY <1>2, <1>3, <1>8, <2>1, <2>3, ReparentedFacts
  <2> QED
    BY <2>2, <2>3
<1>11. task'[s].pc = "close"
  BY <1>2, <1>7, <1>8
<1>12. \A r \in Used \ {s} :
          /\ task'[r].pc = task[r].pc /\ task'[r].upid = task[r].upid
          /\ task'[r].sigaction = task[r].sigaction
          /\ task[r].signal \subseteq task'[r].signal
          /\ task'[r].signal \subseteq task[r].signal \cup (IF r = 1 THEN {SIGCHLD} ELSE {})
  <2> TAKE r \in Used \ {s}
  <2>1. T[r] # NULL /\ r \in Slot /\ T[r] = task[r] /\ task'[r] = R[r]
    BY <1>3, <1>8 DEF Used
  <2> QED
    BY <1>2, <1>3, <2>1, ReparentedFacts
<1>13. ASSUME NEW c \in Used, task[c].father = task[s].pid, task[c].state = "ZOMBIE"
       PROVE  SIGCHLD \in task'[1].signal
  <2>1. 1 \in Slot /\ T[1] # NULL /\ task'[1] = R[1]
    BY <1>1, <1>3, <1>8, ProcessAssumption DEF InitSafe, Slot
  <2>2. c \in Slot /\ T[c] # NULL /\ T[c].father = T[s].pid /\ T[c].state = "ZOMBIE"
    BY <1>3, <1>13 DEF Used
  <2>3. c \in Children(T, s)
    BY <2>2 DEF Children
  <2>4. \E d \in Children(T, s) : T[d].state = "ZOMBIE"
    BY <2>2, <2>3
  <2> QED
    BY <1>2, <1>3, <2>1, <2>4, ReparentedFacts
<1> HIDE DEF R
<1>14. Used' = Used
  BY <1>9, <1>10, NullIsNoProcess DEF Used
<1>15. TypeOK'
  <2>1. \A r \in Slot : task'[r] \in TaskStruct \cup {NULL}
    BY <1>9, <1>10 DEF Used
  <2>2. task' \in [Slot -> TaskStruct \cup {NULL}]
    BY <1>8, <2>1
  <2> QED
    BY <2>2, Numbers DEF TypeOK
<1>16. 1 \in Used \ {s}
  BY <1>1, ProcessAssumption DEF InitSafe, Used, Slot
<1>17. InitSafe'
  BY <1>1, <1>10, <1>12, <1>14, <1>16 DEF InitSafe, Exiting, Used
<1>18. LeadersApart' /\ UniquePids'
  BY <1>1, <1>10, <1>14 DEF LeadersApart, UniquePids
<1>19. DeadExits'
  BY <1>1, <1>10, <1>11, <1>12, <1>14 DEF DeadExits, Exiting
<1>20. FatherThere'
  <2> SUFFICES ASSUME NEW r \in Used, r # 1
               PROVE  \E f \in Fathers(task', r) : ~Exiting(f)' /\ f # r
    BY <1>14 DEF FatherThere, Fathers
  <2>1. CASE task[r].father = task[s].pid
    <3>1. 1 \in Fathers(task', r)
      BY <1>10, <1>14, <1>16, <1>17, <2>1 DEF Fathers, Used, InitSafe
    <3> QED
      BY <1>17, <3>1 DEF InitSafe
  <2>2. CASE task[r].father # task[s].pid
    <3>1. PICK f \in Fathers(task, r) : ~Exiting(f) /\ f # r
      BY <1>1 DEF FatherThere
    <3>2. f \in Used \ {s} /\ task[f].pid = task[r].father
      BY <2>2, <3>1 DEF Fathers, Used
    <3>3. f \in Fathers(task', r)
      BY <1>10, <1>14, <2>2, <3>2 DEF Fathers, Used
    <3>4. ~Exiting(f)'
      BY <1>12, <3>1, <3>2 DEF Exiting
    <3> QED
      BY <3>1, <3>3, <3>4
  <2> QED
    BY <2>1, <2>2
<1>21. WaiterKnows'
  <2> SUFFICES ASSUME NEW w \in Used, Waits(w)', Zombies(w)' # {}
               PROVE  SIGCHLD \in task'[w].signal
    BY <1>14 DEF WaiterKnows, Waits
  <2>1. w \in Used \ {s} /\ w \in Slot
    BY <1>11 DEF Waits, Used
  <2>2. PICK c \in Slot : c \in Zombies(w)'
    BY DEF Zombies, Awaited, Children
  <2>3. c \in Used /\ task'[c].father = task'[w].pid /\ task[c].state = "ZOMBIE"
    BY <1>10, <1>14, <2>2 DEF Zombies, Awaited, Children, Used
  <2>4. CASE task[c].father = task[s].pid
    <3>1. task[w].pid = 1
      BY <1>10, <2>1, <2>3, <2>4
    <3>2. w = 1
      BY <1>1, <1>16, <2>1, <3>1 DEF UniquePids, InitSafe
    <3> QED
      BY <1>13, <2>3, <2>4, <3>2
  <2>5. CASE task[c].father # task[s].pid
    <3>1. c \in Zombies(w)
      BY <1>10, <1>12, <2>1, <2>2, <2>3, <2>5, StillAwaited DEF Used
    <3>2. Waits(w)
      BY <1>10, <1>12, <2>1 DEF Waits
    <3>3. SIGCHLD \in task[w].signal
      BY <1>1, <2>1, <3>1, <3>2 DEF WaiterKnows, Waits
    <3> QED
      BY <1>12, <2>1, <3>3
  <2> QED
    BY <2>4, <2>5
<1> QED
  BY <1>15, <1>17, <1>18, <1>19, <1>20, <1>21 DEF ProcInv

LEMMA sys_exitInv ==
    ASSUME ProcInv, NEW s \in Slot, sys_exit(s)
    PROVE  ProcInv'
<1> DEFINE t == task[s]
<1>1. At(s, "user") /\ s # 1 /\ ExitBegins(task, s) /\ UNCHANGED <<current, last_pid, shell, left>>
  BY DEF sys_exit, User
<1>2. s \in Used /\ t \in TaskStruct
  BY <1>1, Running
<1>3. [task EXCEPT ![s] = t] = task
  BY DEF ProcInv, TypeOK
<1>4. ExitBegins([task EXCEPT ![s] = t], s)
  BY <1>1, <1>3
<1> QED
  BY <1>1, <1>2, <1>4, ExitBeginsInv

LEMMA do_signalInv ==
    ASSUME ProcInv, NEW s \in Slot, do_signal(s)
    PROVE  ProcInv'
<1>1. PICK l \in {"ret", "sig"} : At(s, l)
  BY Zenon DEF do_signal
<1>2. UNCHANGED <<current, last_pid, shell, left>>
  BY Zenon DEF do_signal
<1>3. PICK g \in Pending(s) :
        LET T == [task EXCEPT ![s].signal = @ \ {g}, ![s].pc = "user"]
            a == task[s].sigaction[g]
        IN  \/ /\ a.fn = "IGN" \/ (a.fn = "DFL" /\ g = SIGCHLD)
               /\ task' = T
            \/ /\ a.fn = "DFL" /\ g # SIGCHLD
               /\ ExitBegins(T, s)
            \/ /\ a.fn = "FUN"
               /\ task' = [T EXCEPT ![s].blocked = @ \cup a.mask,
                                    ![s].sigaction[g].fn =
                                        IF a.oneshot THEN "DFL" ELSE @]
  BY Zenon DEF do_signal
<1> DEFINE U == [task EXCEPT ![s].signal = @ \ {g}, ![s].pc = "user"]
           t == [task[s] EXCEPT !.signal = @ \ {g}, !.pc = "user"]
           a == task[s].sigaction[g]
<1>4. /\ task \in [Slot -> TaskStruct \cup {NULL}] /\ s \in Used
      /\ task[s] \in TaskStruct /\ task[s].pc \in {"ret", "sig"}
  BY <1>1, Running DEF ProcInv, TypeOK
<1>5. g \in task[s].signal /\ g \in Sig /\ a \in Handler
  BY <1>4 DEF Pending, TaskStruct
<1>6. U = [task EXCEPT ![s] = t]
  BY <1>4
<1>7. t \in TaskStruct
  BY <1>4 DEF TaskStruct, Pc
<1>8. /\ t.pid = task[s].pid /\ t.father = task[s].father /\ t.state = task[s].state
      /\ (t.leader => task[s].leader) /\ t.session = task[s].session /\ t.pc = "user"
      /\ t.signal = task[s].signal \ {g} /\ t.sigaction = task[s].sigaction
  BY <1>4 DEF TaskStruct
<1>9. QuietFor(s, t)
  <2> HIDE DEF t
  <2> QED
    BY <1>1, <1>7, <1>8, Running DEF QuietFor, Out
<1>10. s = 1 => g = SIGCHLD /\ a.fn = "DFL"
  BY <1>1, <1>5, Running
<1>11. CASE task' = U
  <2> HIDE DEF U, t
  <2> QED
    BY <1>2, <1>4, <1>6, <1>9, <1>11, Numbers, OneQuiet
<1>12. CASE a.fn = "DFL" /\ g # SIGCHLD /\ ExitBegins(U, s)
  <2> HIDE DEF U, t, a
  <2>1. s # 1
    BY <1>10, <1>12
  <2> QED
    BY <1>2, <1>4, <1>6, <1>7, <1>8, <1>12, <2>1, ExitBeginsInv
<1>13. CASE /\ a.fn = "FUN"
            /\ task' = [U EXCEPT
                           ![s].blocked = @ \cup a.mask,
                           ![s].sigaction[g].fn = IF a.oneshot THEN "DFL" ELSE @]
  <2> DEFINE h == [a EXCEPT !.fn = IF a.oneshot THEN "DFL" ELSE @]
             q == [t EXCEPT !.blocked = @ \cup a.mask, !.sigaction[g] = h]
  <2>1. h \in Handler /\ a.mask \in SUBSET Sig
    <3> HIDE DEF a
    <3> QED
      BY <1>5 DEF Handler
  <2>2. s # 1
    BY <1>10, <1>13
  <2>3. task' = [task EXCEPT ![s] = q]
    <3>1. t.sigaction[g] = a /\ s \in Slot
      BY <1>8
    <3>2. U = [r \in Slot |-> U[r]] /\ U[s] = t
      BY <1>4, <1>6
    <3> HIDE DEF U, t, a
    <3>3. task' = [U EXCEPT ![s] = q]
      BY <1>13, <3>1, <3>2, ZenonT(60)
    <3> QED
      BY <1>4, <1>6, <3>3
  <2> HIDE DEF U, h, t
  <2>4. q \in TaskStruct
    BY <1>5, <1>7, <2>1 DEF TaskStruct
  <2>5. /\ q.pid = t.pid /\ q.father = t.father /\ q.state = t.state
        /\ (q.leader => t.leader) /\ q.session = t.session /\ q.pc = "user"
    BY <1>7, <1>8 DEF TaskStruct
  <2> HIDE DEF q
  <2>6. QuietFor(s, q)
    BY <1>9, <2>2, <2>4, <2>5, <1>8 DEF QuietFor, Out
  <2> QED
    BY <1>2, <1>4, <2>3, <2>6, Numbers, OneQuiet
<1>14. \/ task' = U
       \/ a.fn = "DFL" /\ g # SIGCHLD /\ ExitBegins(U, s)
       \/ /\ a.fn = "FUN"
          /\ task' = [U EXCEPT
                         ![s].blocked = @ \cup a.mask,
                         ![s].sigaction[g].fn = IF a.oneshot THEN "DFL" ELSE @]
  BY <1>3
<1> HIDE DEF U, t, a
<1> QED
  BY <1>11, <1>12, <1>13, <1>14

(* Adding a signal keeps the table a table.                                *)
LEMMA SignalledType ==
    ASSUME NEW T \in [Slot -> TaskStruct \cup {NULL}], NEW S, NEW g \in Sig
    PROVE  /\ Signalled(T, S, g) \in [Slot -> TaskStruct \cup {NULL}]
           /\ \A r \in Slot : T[r] = NULL => Signalled(T, S, g)[r] = NULL
<1> DEFINE R == Signalled(T, S, g)
<1>1. \A r \in Slot : T[r] = NULL => R[r] = NULL
  BY DEF Signalled
<1>2. R = [r \in Slot |-> R[r]]
  BY DEF Signalled
<1>3. \A r \in Slot : R[r] \in TaskStruct \cup {NULL}
  <2> TAKE r \in Slot
  <2> DEFINE p == [T[r] EXCEPT !.signal = @ \cup {g}]
  <2>1. T[r] \in TaskStruct => p \in TaskStruct
    BY DEF TaskStruct
  <2>2. R[r] = T[r] \/ (R[r] = p /\ T[r] # NULL)
    BY DEF Signalled
  <2> HIDE DEF R, p
  <2> QED
    BY <2>1, <2>2
<1> HIDE DEF R
<1>4. R \in [Slot -> TaskStruct \cup {NULL}]
  BY <1>2, <1>3
<1> QED
  BY <1>1, <1>4 DEF R

(* do_exit after its sleeps: there is a father to tell, and init is in no  *)
(* session whose leader goes.                                              *)
LEMMA ExitEndsInv ==
    ASSUME ProcInv, NEW s \in Slot, ExitEnds(s)
    PROVE  ProcInv'
<1> DEFINE K == kill_session(task, s)
           p == [K[s] EXCEPT !.state = "ZOMBIE"]
           T == [K EXCEPT ![s] = p]
           F == Fathers(task, s)
<1>1. PICK l \in Out : At(s, l)
  BY DEF ExitEnds, Out
<1>2. /\ TypeOK /\ InitSafe /\ LeadersApart /\ DeadExits /\ UniquePids
      /\ FatherThere /\ WaiterKnows
  BY DEF ProcInv
<1>3. task \in [Slot -> TaskStruct \cup {NULL}]
  BY <1>2 DEF TypeOK
<1>4. s \in Used /\ task[s] \in TaskStruct /\ task[s] # NULL /\ task[s].pc \in Out
  BY <1>1, Running DEF Used
<1>5. s # 1
  BY <1>2, <1>4 DEF InitSafe, Exiting, Out
<1>6. /\ K \in [Slot -> TaskStruct \cup {NULL}]
      /\ \A r \in Slot : task[r] = NULL => K[r] = NULL
      /\ \A r \in Used :
            /\ K[r] \in TaskStruct /\ K[r].pid = task[r].pid /\ K[r].father = task[r].father
            /\ K[r].state = task[r].state /\ (K[r].leader => task[r].leader)
            /\ K[r].session = task[r].session /\ K[r].sigaction = task[r].sigaction
            /\ K[r].pc = task[r].pc /\ K[r].upid = task[r].upid
            /\ task[r].signal \subseteq K[r].signal
            /\ r = 1 => K[r].signal = task[r].signal
  <2>1. CASE ~task[s].leader
    <3>1. K = task
      BY <2>1 DEF kill_session
    <3> HIDE DEF K
    <3>2. \A r \in Used : task[r] \in TaskStruct
      BY <1>3 DEF Used
    <3> QED
      BY <1>3, <3>1, <3>2
  <2>2. CASE task[s].leader
    <3> DEFINE S == {r \in Slot : task[r] # NULL /\ task[r].session = task[s].session}
    <3>1. K = Signalled(task, S, SIGHUP)
      BY <2>2 DEF kill_session
    <3>2. 1 \notin S
      BY <1>2, <1>4, <2>2 DEF LeadersApart, InitSafe
    <3>3. SIGHUP \in Sig
      BY ProcessAssumption
    <3> HIDE DEF K, S
    <3>4. \A r \in Used : r \in Slot /\ task[r] # NULL
      BY DEF Used
    <3>5. /\ K \in [Slot -> TaskStruct \cup {NULL}]
          /\ \A r \in Slot : task[r] = NULL => K[r] = NULL
      BY <1>3, <3>1, <3>3, SignalledType
    <3>6. ASSUME NEW r \in Used
          PROVE  /\ K[r] \in TaskStruct /\ K[r].pid = task[r].pid /\ K[r].father = task[r].father
                 /\ K[r].state = task[r].state /\ (K[r].leader => task[r].leader)
                 /\ K[r].session = task[r].session /\ K[r].sigaction = task[r].sigaction
                 /\ K[r].pc = task[r].pc /\ K[r].upid = task[r].upid
                 /\ task[r].signal \subseteq K[r].signal
                 /\ r = 1 => K[r].signal = task[r].signal
      <4>1. task[r] \in TaskStruct
        BY <1>3, <3>4
      <4>2. \/ r \in S /\ K[r] = [task[r] EXCEPT !.signal = @ \cup {SIGHUP}]
            \/ r \notin S /\ K[r] = task[r]
        BY <3>1, <3>4 DEF Signalled
      <4>3. CASE r \in S
        BY <3>2, <3>3, <4>1, <4>2, <4>3 DEF TaskStruct
      <4>4. CASE r \notin S
        BY <4>1, <4>2, <4>4
      <4> QED
        BY <4>3, <4>4
    <3> QED
      BY <3>5, <3>6
  <2> QED
    BY <2>1, <2>2
<1>7. task' = tell_father(T, s) /\ current' = 0 /\ UNCHANGED <<last_pid, shell, left>>
  <2>1. T = [K EXCEPT ![s].state = "ZOMBIE"]
    BY <1>6
  <2> QED
    BY <2>1 DEF ExitEnds
<1> HIDE DEF K
<1>8. /\ p \in TaskStruct /\ p.pid = K[s].pid /\ p.father = K[s].father
      /\ p.state = "ZOMBIE" /\ (p.leader => K[s].leader)
      /\ p.session = K[s].session /\ p.sigaction = K[s].sigaction
      /\ p.pc = K[s].pc /\ p.upid = K[s].upid /\ p.signal = K[s].signal
  BY <1>4, <1>6 DEF TaskStruct
<1> HIDE DEF p
<1>9. /\ T \in [Slot -> TaskStruct \cup {NULL}] /\ T[s] = p
      /\ \A r \in Slot : r # s => T[r] = K[r]
  BY <1>6, <1>8
<1> HIDE DEF T
<1>10. /\ \A r \in Slot : task[r] = NULL => T[r] = NULL
       /\ \A r \in Used :
            /\ T[r] # NULL /\ T[r].pid = task[r].pid /\ T[r].father = task[r].father
            /\ T[r].state = IF r = s THEN "ZOMBIE" ELSE task[r].state
            /\ T[r].leader => task[r].leader
            /\ T[r].session = task[r].session /\ T[r].sigaction = task[r].sigaction
            /\ T[r].pc = task[r].pc /\ T[r].upid = task[r].upid
            /\ task[r].signal \subseteq T[r].signal
            /\ r = 1 => T[r].signal = task[r].signal
  <2>1. \A r \in Slot : task[r] = NULL => T[r] = NULL
    BY <1>4, <1>6, <1>9
  <2>2. ASSUME NEW r \in Used
        PROVE  /\ T[r] # NULL /\ T[r].pid = task[r].pid /\ T[r].father = task[r].father
               /\ T[r].state = IF r = s THEN "ZOMBIE" ELSE task[r].state
               /\ T[r].leader => task[r].leader
               /\ T[r].session = task[r].session /\ T[r].sigaction = task[r].sigaction
               /\ T[r].pc = task[r].pc /\ T[r].upid = task[r].upid
               /\ task[r].signal \subseteq T[r].signal
               /\ r = 1 => T[r].signal = task[r].signal
    <3>1. CASE r = s
      BY <1>6, <1>8, <1>9, <3>1, NullIsNoProcess
    <3>2. CASE r # s
      BY <1>6, <1>9, <3>2, NullIsNoProcess DEF Used
    <3> QED
      BY <3>1, <3>2
  <2> QED
    BY <2>1, <2>2
<1>11. Fathers(T, s) = F /\ F # {}
  <2>1. F # {}
    BY <1>2, <1>4, <1>5 DEF FatherThere
  <2> QED
    BY <1>4, <1>10, <2>1 DEF Fathers, Used
<1>12. task' = Signalled(T, F, SIGCHLD) /\ SIGCHLD \in Sig
  BY <1>7, <1>11, ProcessAssumption DEF tell_father
<1> HIDE DEF F
<1>13. /\ task' \in [Slot -> TaskStruct \cup {NULL}]
       /\ \A r \in Slot : task[r] = NULL => task'[r] = NULL
       /\ \A r \in Used :
            /\ task'[r] \in TaskStruct
            /\ task'[r].pid = task[r].pid /\ task'[r].father = task[r].father
            /\ task'[r].state = IF r = s THEN "ZOMBIE" ELSE task[r].state
            /\ task'[r].leader => task[r].leader
            /\ task'[r].session = task[r].session /\ task'[r].sigaction = task[r].sigaction
            /\ task'[r].pc = task[r].pc /\ task'[r].upid = task[r].upid
            /\ task[r].signal \subseteq task'[r].signal
            /\ r = 1 => task'[r].signal \subseteq task[r].signal \cup {SIGCHLD}
            /\ r \in F => SIGCHLD \in task'[r].signal
  <2>1. \A r \in Used : r \in Slot
    BY DEF Used
  <2>2. /\ task' \in [Slot -> TaskStruct \cup {NULL}]
        /\ \A r \in Slot : task[r] = NULL => task'[r] = NULL
    BY <1>9, <1>10, <1>12, SignalledType
  <2>3. ASSUME NEW r \in Used
        PROVE  /\ task'[r] \in TaskStruct
               /\ task'[r].pid = task[r].pid /\ task'[r].father = task[r].father
               /\ task'[r].state = IF r = s THEN "ZOMBIE" ELSE task[r].state
               /\ task'[r].leader => task[r].leader
               /\ task'[r].session = task[r].session /\ task'[r].sigaction = task[r].sigaction
               /\ task'[r].pc = task[r].pc /\ task'[r].upid = task[r].upid
               /\ task[r].signal \subseteq task'[r].signal
               /\ r = 1 => task'[r].signal \subseteq task[r].signal \cup {SIGCHLD}
               /\ r \in F => SIGCHLD \in task'[r].signal
    <3>1. T[r] \in TaskStruct
      BY <1>9, <1>10, <2>1
    <3>2. \/ r \in F /\ task'[r] = [T[r] EXCEPT !.signal = @ \cup {SIGCHLD}]
          \/ r \notin F /\ task'[r] = T[r]
      BY <1>10, <1>12, <2>1 DEF Signalled
    <3>3. CASE r \in F
      <4>1. /\ task'[r] \in TaskStruct /\ task'[r].pid = T[r].pid /\ task'[r].father = T[r].father
            /\ task'[r].state = T[r].state /\ (task'[r].leader => T[r].leader)
            /\ task'[r].session = T[r].session /\ task'[r].sigaction = T[r].sigaction
            /\ task'[r].pc = T[r].pc /\ task'[r].upid = T[r].upid
            /\ task'[r].signal = T[r].signal \cup {SIGCHLD}
        BY <1>12, <3>1, <3>2, <3>3 DEF TaskStruct
      <4> QED
        BY <1>10, <4>1
    <3>4. CASE r \notin F
      BY <1>10, <3>1, <3>2, <3>4
    <3> QED
      BY <3>3, <3>4
  <2> QED
    BY <2>2, <2>3
<1>14. Used' = Used
  BY <1>13, NullIsNoProcess DEF Used
<1>15. TypeOK'
  BY <1>7, <1>13, Numbers DEF TypeOK
<1>16. 1 \in Used
  BY <1>2, ProcessAssumption DEF InitSafe, Used, Slot
<1>17. InitSafe'
  BY <1>2, <1>13, <1>14, <1>16 DEF InitSafe, Exiting, Used
<1>18. LeadersApart' /\ UniquePids'
  BY <1>2, <1>13, <1>14 DEF LeadersApart, UniquePids
<1>19. DeadExits'
  BY <1>2, <1>4, <1>13, <1>14 DEF DeadExits, Exiting, Out
<1>20. FatherThere'
  <2> SUFFICES ASSUME NEW r \in Used, r # 1
               PROVE  \E f \in Fathers(task', r) : ~Exiting(f)' /\ f # r
    BY <1>14 DEF FatherThere, Fathers
  <2>1. PICK f \in Fathers(task, r) : ~Exiting(f) /\ f # r
    BY <1>2 DEF FatherThere
  <2>2. f \in Used /\ task[f].pid = task[r].father
    BY <2>1 DEF Fathers, Used
  <2>3. f \in Fathers(task', r)
    BY <1>13, <1>14, <2>2 DEF Fathers, Used
  <2>4. ~Exiting(f)'
    BY <1>13, <2>1, <2>2 DEF Exiting
  <2> QED
    BY <2>1, <2>3, <2>4
<1>21. WaiterKnows'
  <2> SUFFICES ASSUME NEW w \in Used, Waits(w)', Zombies(w)' # {}
               PROVE  SIGCHLD \in task'[w].signal
    BY <1>14 DEF WaiterKnows, Waits
  <2>1. w # s /\ w \in Slot /\ Waits(w)
    BY <1>13 DEF Waits, Used
  <2>2. PICK c \in Slot : c \in Zombies(w)'
    BY DEF Zombies, Awaited, Children
  <2>3. c \in Used /\ task'[c].father = task'[w].pid /\ task'[c].state = "ZOMBIE"
    BY <1>14, <2>2 DEF Zombies, Awaited, Children, Used
  <2>4. CASE c = s
    <3>1. w \in F
      BY <1>13, <2>3, <2>4 DEF F, Fathers, Used
    <3> QED
      BY <1>13, <3>1
  <2>5. CASE c # s
    <3>1. task[c].state = "ZOMBIE"
      BY <1>13, <2>3, <2>5
    <3>2. c \in Zombies(w)
      BY <1>13, <2>1, <2>2, <2>3, <3>1, StillAwaited DEF Used
    <3>3. SIGCHLD \in task[w].signal
      BY <1>2, <2>1, <3>2 DEF WaiterKnows, Waits
    <3> QED
      BY <1>13, <3>3
  <2> QED
    BY <2>4, <2>5
<1> QED
  BY <1>15, <1>17, <1>18, <1>19, <1>20, <1>21 DEF ProcInv

-----------------------------------------------------------------------------
LEMMA InitTaskType ==
    ASSUME NEW b \in BOOLEAN
    PROVE  [pid |-> 1, father |-> 0, pgrp |-> 0, session |-> 0, leader |-> b,
            state |-> "RUNNING", signal |-> {}, blocked |-> {},
            sigaction |-> [g \in Sig |-> [fn |-> "DFL", mask |-> {}, oneshot |-> b]],
            pc |-> "user", upid |-> -1, nohang |-> b] \in TaskStruct
<1>1. [fn |-> "DFL", mask |-> {}, oneshot |-> b] \in Handler
  BY DEF Handler
<1>2. 1 \in Pid
  BY ProcessAssumption DEF Pid
<1> QED
  BY <1>1, <1>2 DEF TaskStruct, Pc

LEMMA InitInv == Init => ProcInv
<1> SUFFICES ASSUME Init PROVE ProcInv
  OBVIOUS
<1>1. InitTask \in TaskStruct
  <2>1. FALSE \in BOOLEAN
    OBVIOUS
  <2> QED
    BY <2>1, InitTaskType DEF InitTask, Default
<1>2. 1 \in Slot /\ 1 \in Pid
  BY ProcessAssumption DEF Slot, Pid
<1>3. /\ InitTask.pid = 1 /\ InitTask.session = 0 /\ ~InitTask.leader
      /\ InitTask.state = "RUNNING" /\ InitTask.signal = {} /\ InitTask.pc = "user"
      /\ InitTask.sigaction[SIGCHLD].fn = "DFL"
  BY ProcessAssumption DEF InitTask, Default
<1>4. task[1] = InitTask /\ Used = {1}
  BY <1>1, <1>2, NullIsNoProcess DEF Init, Used
<1>5. TypeOK
  BY <1>1, <1>2, ProcessAssumption DEF Init, TypeOK
<1>6. InitSafe /\ LeadersApart /\ DeadExits /\ UniquePids
  BY <1>1, <1>3, <1>4, NullIsNoProcess DEF InitSafe, LeadersApart, DeadExits, UniquePids, Exiting
<1>7. FatherThere /\ WaiterKnows
  BY <1>3, <1>4 DEF FatherThere, WaiterKnows
<1> QED
  BY <1>5, <1>6, <1>7 DEF ProcInv

LEMMA CallsInv ==
    ASSUME ProcInv, SpareInit, NEW s \in Slot, Calls(s)
    PROVE  ProcInv'
BY sys_killInv, sys_signalInv, sys_sigactionInv, sys_ssetmaskInv, sys_setpgidInv,
   sys_setsidInv DEF Calls

LEMMA KernelInv ==
    ASSUME ProcInv, NEW s \in Slot, Kernel(s)
    PROVE  ProcInv'
BY NoSignalInv, do_signalInv, WaitReleasesInv, WaitSleepsInv, WaitReturnsInv,
   WaitWakesInv, CloseSleepsInv, ExitEndsInv DEF Kernel

LEMMA NextInv ==
    ASSUME ProcInv, SpareInit, [Next]_vars
    PROVE  ProcInv'
<1>1. CASE Next
  <2>1. PICK s \in Slot :
        \/ SwitchTo(s) \/ TimerInterrupt(s) \/ Reschedule(s)
        \/ ForkOk(s) \/ ForkFails(s)
        \/ sys_exit(s)
        \/ \E a \in WaitArgs : sys_waitpid(s, a[1], a[2])
        \/ sys_pause(s)
        \/ Calls(s)
        \/ Kernel(s)
    BY <1>1 DEF Next
  <2> QED
    BY <2>1, SwitchToInv, TimerInterruptInv, RescheduleInv, ForkOkInv, ForkFailsInv,
       sys_exitInv, sys_waitpidInv, sys_pauseInv, CallsInv, KernelInv
<1>2. CASE UNCHANGED vars
  BY <1>2 DEF vars, ProcInv, TypeOK, InitSafe, LeadersApart, DeadExits, UniquePids,
              FatherThere, WaiterKnows, Used, Exiting, Fathers, Zombies, Awaited,
              Children, Matches
<1> QED
  BY <1>1, <1>2

LEMMA ProcInvHolds == ASSUME SpareInit PROVE Spec => []ProcInv
<1>1. ProcInv /\ [Next]_vars => ProcInv'
  BY NextInv
<1> QED
  BY <1>1, InitInv, PTL DEF Spec

(* Every process but init has a father that can still wait for it, for any *)
(* number of tasks, pids, signals and calls, as long as nobody kills init: *)
(* do_exit gives its children away before it sleeps (exit.cc:108), so      *)
(* tell_father always finds somebody to tell.                              *)
THEOREM FathersThere == ASSUME SpareInit PROVE Spec => []FatherThere
<1>1. ProcInv => FatherThere
  BY DEF ProcInv
<1> QED
  BY <1>1, ProcInvHolds, PTL

(* A father that sleeps in waitpid while a child it waits for is dead has  *)
(* the SIGCHLD pending that wakes it, whoever passed the child on to it    *)
(* and whatever it was doing when the child died.                          *)
THEOREM WaitersKnow == ASSUME SpareInit PROVE Spec => []WaiterKnows
<1>1. ProcInv => WaiterKnows
  BY DEF ProcInv
<1> QED
  BY <1>1, ProcInvHolds, PTL

=============================================================================
