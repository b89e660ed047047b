------------------------ MODULE BufferCache_proofs ------------------------
(***************************************************************************)
(* Tasks that sleep in the kernel, for any number of tasks: the queues of  *)
(* sleep_on for any number of queues (WaitQueue), and the buffer cache for *)
(* any number of buffers, request slots and blocks (BufferCache).          *)
(***************************************************************************)
EXTENDS BufferCache, WaitQueue, Request_proofs, FiniteSetTheorems

USE DEF InMakeRequest

(***************************************************************************)
(* The sleep functions and wake_up.                                        *)
(***************************************************************************)
(* The inductive invariant.  OffQueue is what ties the queues to the task  *)
(* that has the processor: it and every task outside a sleep function are  *)
(* reached by no pointer, so a task that goes to sleep is linked in        *)
(* exactly once.  The rest says where the running task is in a sleep that  *)
(* interrupts may strike.                                                  *)
OffQueue ==
    /\ \A t \in Task : on[t] = NULL => tmp[t] = NULL
    /\ \A t \in Task : state[t] = "UNINTERRUPTIBLE" => on[t] \in Queue \ IQueue
    /\ \A t \in Task : state[t] = "INTERRUPTIBLE" => on[t] \in IQueue
    /\ \A t \in Task : state[t] = "ZOMBIE" => on[t] = NULL

RunningTask ==
    /\ current # NULL => state[current] = "RUNNING"
    /\ stage # "none" <=> current # NULL /\ on[current] # NULL
    /\ stage # "none" => on[current] \in Open
    /\ stage = "read" =>
          /\ tmp[current] = wait[on[current]]
          /\ tmp[current] # current
          /\ ~Remembered(current)
    /\ stage = "head" =>
          /\ wait[on[current]] = current
          /\ ~Remembered(current)
    /\ stage = "again" =>
          /\ on[current] \in IQueue
          /\ wait[on[current]] \notin {NULL, current}

WqInv ==
    /\ WqTypeOK
    /\ trouble = {} => OffQueue /\ RunningTask
    /\ HeadIsSleeping
    /\ TmpIsSleeping
    /\ NoLostSleeper
    /\ OnePointer

(* Initially the queues are empty.                                         *)
LEMMA WqInitInv == WqInit => WqInv
BY NullIsNoTask, QueueAssumption
   DEF WqInit, SleepInit, WqInv, WqTypeOK, SleepTypeOK, TaskState, OffQueue,
       RunningTask, Remembered, Stage, Trouble,
       HeadIsSleeping, TmpIsSleeping, NoLostSleeper, OnePointer

(* Every step keeps the types, and no step makes good a race that is lost. *)
LEMMA WqTypeStep ==
    ASSUME WqTypeOK, [WqNext]_wqVars
    PROVE  WqTypeOK' /\ trouble \subseteq trouble'
<1> USE NullIsNoTask, QueueAssumption
<1> USE DEF WqTypeOK, SleepTypeOK, TaskState, Stage, Trouble
<1>1. ASSUME NEW t \in Task, NEW q \in Queue, Sleep(t, q)
      PROVE  WqTypeOK' /\ trouble \subseteq trouble'
  BY <1>1 DEF Sleep, sleep_on, SleepReads, SleepHeads, SleepStops
<1>2. ASSUME NEW t \in Task, NEW q \in Queue, interruptible_sleep_on(t, q)
      PROVE  WqTypeOK' /\ trouble \subseteq trouble'
  BY <1>2 DEF interruptible_sleep_on, SleepReads, SleepHeads, SleepStops
<1>3. ASSUME NEW t \in Task, NEW q \in Queue, OpenReads(t, q)
      PROVE  WqTypeOK' /\ trouble \subseteq trouble'
  BY <1>3 DEF OpenReads, SleepReads
<1>4. ASSUME NEW t \in Task, OpenHeads(t)
      PROVE  WqTypeOK' /\ trouble \subseteq trouble'
  BY <1>4 DEF OpenHeads, SleepHeads
<1>5. ASSUME NEW t \in Task, OpenStops(t)
      PROVE  WqTypeOK' /\ trouble \subseteq trouble'
  BY <1>5 DEF OpenStops, SleepStops
<1>6. ASSUME NEW t \in Task, OpenAgain(t)
      PROVE  WqTypeOK' /\ trouble \subseteq trouble'
  BY <1>6 DEF OpenAgain, Running
<1>7. ASSUME NEW t \in Task, do_exit(t) \/ ReturnToUser(t) \/ send_sig(t)
      PROVE  WqTypeOK' /\ trouble \subseteq trouble'
  BY <1>7 DEF do_exit, ReturnToUser, yield, send_sig
<1>8. ASSUME NEW t \in Task, ResumeSleepOn(t)
      PROVE  WqTypeOK' /\ trouble \subseteq trouble'
  BY <1>8 DEF ResumeSleepOn, Scanned, Running
<1>9. ASSUME NEW t \in Task, ResumeNotHead(t)
      PROVE  WqTypeOK' /\ trouble \subseteq trouble'
  BY <1>9 DEF ResumeNotHead, Scanned, Running
<1>10. ASSUME NEW t \in Task, OpenFinds(t)
      PROVE  WqTypeOK' /\ trouble \subseteq trouble'
  BY <1>10 DEF OpenFinds, Scanned, Running
<1>11. ASSUME NEW t \in Task, ResumeInterruptible(t)
      PROVE  WqTypeOK' /\ trouble \subseteq trouble'
  BY <1>11 DEF ResumeInterruptible, Scanned, Running
<1>12. ASSUME NEW q \in Queue, WakeUp(q)
      PROVE  WqTypeOK' /\ trouble \subseteq trouble'
  BY <1>12 DEF WakeUp, wake_up, Running, Struck
<1>13. CASE UNCHANGED wqVars
  BY <1>13 DEF wqVars
<1> QED
  BY <1>1, <1>2, <1>3, <1>4, <1>5, <1>6, <1>7, <1>8, <1>9, <1>10, <1>11,
     <1>12, <1>13
     DEF WqNext, Resume, OpenStep

(* What the scan of schedule() leaves of the states.                       *)
LEMMA ScannedStates ==
    ASSUME SleepTypeOK, NEW u \in Task
    PROVE  /\ Scanned[u] \in {state[u], "RUNNING"}
           /\ Scanned[u] # state[u] => state[u] = "INTERRUPTIBLE"
BY DEF Scanned, Signalled, Running

(* Every step of a task, an interrupt or the scheduler preserves the       *)
(* invariant.                                                              *)
LEMMA WqStepInv ==
    ASSUME WqInv, [WqNext]_wqVars
    PROVE  WqInv'
<1> USE NullIsNoTask, QueueAssumption
<1>0. WqTypeOK' /\ trouble \subseteq trouble'
  BY WqTypeStep DEF WqInv
<1> SUFFICES ASSUME trouble' = {} PROVE WqInv'
  BY <1>0 DEF WqInv, HeadIsSleeping, TmpIsSleeping, NoLostSleeper, OnePointer
<1>a. trouble = {}
  BY <1>0
<1> USE <1>0, <1>a
<1> USE DEF WqInv, WqTypeOK, SleepTypeOK, TaskState, Stage, OffQueue,
            RunningTask, HeadIsSleeping, TmpIsSleeping, NoLostSleeper,
            OnePointer, Reachable, Remembered
<1>1. ASSUME NEW t \in Task, NEW q \in Queue, Sleep(t, q)
      PROVE  WqInv'
  BY <1>1 DEF Sleep, sleep_on, SleepReads, SleepHeads, SleepStops, Runs
<1>2. ASSUME NEW t \in Task, NEW q \in Queue, interruptible_sleep_on(t, q)
      PROVE  WqInv'
  BY <1>2 DEF interruptible_sleep_on, SleepReads, SleepHeads, SleepStops, Runs
<1>3. ASSUME NEW t \in Task, NEW q \in Queue, OpenReads(t, q)
      PROVE  WqInv'
  BY <1>3 DEF OpenReads, SleepReads, Runs
<1>4. ASSUME NEW t \in Task, OpenHeads(t)
      PROVE  WqInv'
  BY <1>4 DEF OpenHeads, SleepHeads
<1>5. ASSUME NEW t \in Task, OpenStops(t)
      PROVE  WqInv'
  BY <1>5 DEF OpenStops, SleepStops
<1>6. ASSUME NEW t \in Task, OpenAgain(t)
      PROVE  WqInv'
  BY <1>6 DEF OpenAgain, Running
<1>7. ASSUME NEW t \in Task, do_exit(t)
      PROVE  WqInv'
  BY <1>7 DEF do_exit, Runs
<1>8. ASSUME NEW t \in Task, ReturnToUser(t)
      PROVE  WqInv'
  BY <1>8 DEF ReturnToUser, yield, Runs
<1>9. ASSUME NEW t \in Task, send_sig(t)
      PROVE  WqInv'
  BY <1>9 DEF send_sig
<1>10. ASSUME NEW t \in Task, ResumeSleepOn(t)
       PROVE  WqInv'
  BY <1>10 DEF ResumeSleepOn, Scanned, Signalled, Running
<1>11. ASSUME NEW t \in Task, ResumeNotHead(t)
       PROVE  WqInv'
  <2>1. on[t] \in IQueue /\ current = NULL /\ wait[on[t]] \in Task \ {t}
    BY <1>11 DEF ResumeNotHead, NotHead
  <2>2. on[wait[on[t]]] = on[t] /\ state[wait[on[t]]] \in {"RUNNING", "INTERRUPTIBLE"}
    BY <1>11, <2>1
  <2>3. /\ state'[t] = "INTERRUPTIBLE"
        /\ state'[wait[on[t]]] = "RUNNING"
        /\ \A u \in Task \ {t, wait[on[t]]} :
              \/ state'[u] = state[u]
              \/ state[u] = "INTERRUPTIBLE" /\ state'[u] = "RUNNING"
    BY <1>11, <2>1, ScannedStates DEF ResumeNotHead, Running
  <2>4. Remembered(t)
    BY <1>11 DEF ResumeNotHead
  <2>5. UNCHANGED <<current, wait, tmp, on, signal, stage>>
    BY <1>11 DEF ResumeNotHead
  <2>6. OffQueue'
    BY <2>1, <2>2, <2>3, <2>4, <2>5
  <2>7. RunningTask'
    BY <2>1, <2>2, <2>3, <2>4, <2>5
  <2>8. HeadIsSleeping'
    BY <2>1, <2>2, <2>3, <2>4, <2>5
  <2>9. TmpIsSleeping'
    BY <2>1, <2>2, <2>3, <2>4, <2>5
  <2>10. NoLostSleeper'
    BY <2>1, <2>2, <2>3, <2>4, <2>5
  <2>11. OnePointer'
    BY <2>1, <2>2, <2>3, <2>4, <2>5
  <2> QED
    BY <2>6, <2>7, <2>8, <2>9, <2>10, <2>11
<1>12. ASSUME NEW t \in Task, OpenFinds(t)
       PROVE  WqInv'
  BY <1>12 DEF OpenFinds, NotHead, Scanned, Signalled, Running
<1>13. ASSUME NEW t \in Task, ResumeInterruptible(t)
       PROVE  WqInv'
  <2>1. on[t] \in IQueue /\ current = NULL /\ wait[on[t]] \in {NULL, t} /\ stage = "none"
    BY <1>13 DEF ResumeInterruptible
  <2>2. ~Remembered(t) /\ current' = t /\ UNCHANGED <<signal, stage>>
    BY <1>13 DEF ResumeInterruptible
  <2>3. /\ wait' = [wait EXCEPT ![on[t]] = NULL]
        /\ tmp' = [tmp EXCEPT ![t] = NULL]
        /\ on' = [on EXCEPT ![t] = NULL]
    BY <1>13 DEF ResumeInterruptible
  <2>4. tmp[t] # NULL => on[tmp[t]] = on[t] /\ tmp[t] # t /\ state[tmp[t]] \in {"RUNNING", "INTERRUPTIBLE"}
    BY <2>1, <2>2
  <2>5. tmp[t] # NULL => state'[tmp[t]] = "RUNNING"
    BY <1>13 DEF ResumeInterruptible, Running
  <2>6. state'[t] = "RUNNING"
    BY <1>13, ScannedStates DEF ResumeInterruptible, Running
  <2>7. \A u \in Task : u # tmp[t] =>
              \/ state'[u] = state[u]
              \/ state[u] = "INTERRUPTIBLE" /\ state'[u] = "RUNNING"
    BY <1>13, ScannedStates DEF ResumeInterruptible, Running
  <2>8. OffQueue'
    BY <2>1, <2>2, <2>3, <2>4, <2>5, <2>6, <2>7
  <2>9. RunningTask'
    BY <2>1, <2>2, <2>3, <2>4, <2>5, <2>6, <2>7
  <2>10. HeadIsSleeping'
    BY <2>1, <2>2, <2>3, <2>4, <2>5, <2>6, <2>7
  <2>11. TmpIsSleeping'
    BY <2>1, <2>2, <2>3, <2>4, <2>5, <2>6, <2>7
  <2>12. NoLostSleeper'
    BY <2>1, <2>2, <2>3, <2>4, <2>5, <2>6, <2>7
  <2>13. OnePointer'
    BY <2>1, <2>2, <2>3, <2>4, <2>5, <2>6, <2>7
  <2> QED
    BY <2>8, <2>9, <2>10, <2>11, <2>12, <2>13
<1>14. ASSUME NEW q \in Queue, WakeUp(q)
       PROVE  WqInv'
  <2>1. UNCHANGED <<current, on, signal, stage, tmp>>
    BY <1>14 DEF WakeUp, wake_up
  <2>2. wait' = [wait EXCEPT ![q] = NULL]
    BY <1>14 DEF WakeUp, wake_up
  <2>3. state' = [u \in Task |-> IF u = wait[q] THEN "RUNNING" ELSE state[u]]
    BY <1>14 DEF WakeUp, wake_up, Running
  <2>4. stage = "none" \/ on[current] # q \/ wait[q] = NULL
    BY <1>14 DEF WakeUp, Struck
  <2>5. OffQueue'
    BY <1>14, <2>1, <2>2, <2>3, <2>4
  <2>6. RunningTask'
    BY <1>14, <2>1, <2>2, <2>3, <2>4
  <2>7. HeadIsSleeping'
    BY <1>14, <2>1, <2>2, <2>3, <2>4
  <2>8. TmpIsSleeping'
    BY <1>14, <2>1, <2>2, <2>3, <2>4
  <2>9. NoLostSleeper'
    BY <1>14, <2>1, <2>2, <2>3, <2>4
  <2>10. OnePointer'
    BY <1>14, <2>1, <2>2, <2>3, <2>4
  <2> QED
    BY <2>5, <2>6, <2>7, <2>8, <2>9, <2>10
<1>15. CASE UNCHANGED wqVars
  BY <1>15 DEF wqVars
<1> QED
  BY <1>1, <1>2, <1>3, <1>4, <1>5, <1>6, <1>7, <1>8, <1>9, <1>10, <1>11,
     <1>12, <1>13, <1>14, <1>15
     DEF WqNext, Resume, OpenStep

(* As long as no wake-up has struck inside a sleep function and no signal  *)
(* between a wake-up and the run of the woken task, the queues are well    *)
(* formed: heads and remembered sleepers are asleep on the right queue,    *)
(* and each sleeper is reached by exactly one pointer (sched.cc:153-196).  *)
THEOREM SleepQueuesRight ==
    WqSpec => [](HeadIsSleeping /\ TmpIsSleeping /\ OnePointer)
<1>1. WqInit => WqInv
  BY WqInitInv
<1>2. WqInv /\ [WqNext]_wqVars => WqInv'
  BY WqStepInv
<1>3. WqInv => HeadIsSleeping /\ TmpIsSleeping /\ OnePointer
  BY DEF WqInv
<1> QED
  BY <1>1, <1>2, <1>3, PTL DEF WqSpec

(* Until then no task that called a sleep function is lost: somebody still *)
(* points to it.                                                           *)
THEOREM SleepersReachable == WqSpec => []NoLostSleeper
<1>1. WqInit => WqInv
  BY WqInitInv
<1>2. WqInv /\ [WqNext]_wqVars => WqInv'
  BY WqStepInv
<1>3. WqInv => NoLostSleeper
  BY DEF WqInv
<1> QED
  BY <1>1, <1>2, <1>3, PTL DEF WqSpec

(* Until then do_exit never returns (exit.cc:134): no wake-up reaches a    *)
(* zombie.                                                                 *)
THEOREM ZombiesStay == WqSpec => ExitIsFinal
<1> DEFINE Final == trouble = {} =>
              \A t \in Task : state[t] = "ZOMBIE" => state'[t] = "ZOMBIE"
<1>1. WqInit => WqInv
  BY WqInitInv
<1>2. WqInv /\ [WqNext]_wqVars => WqInv'
  BY WqStepInv
<1>3. WqInv /\ [WqNext]_wqVars => [Final]_wqVars
  <2> SUFFICES ASSUME WqInv, WqNext, trouble = {} PROVE Final
    OBVIOUS
  <2> USE NullIsNoTask, QueueAssumption
  <2> USE DEF WqInv, WqTypeOK, SleepTypeOK, TaskState, Stage, OffQueue,
              RunningTask, HeadIsSleeping, TmpIsSleeping
  <2>1. ASSUME NEW t \in Task, NEW q \in Queue,
               Sleep(t, q) \/ interruptible_sleep_on(t, q) \/ OpenReads(t, q)
        PROVE  Final
    BY <2>1 DEF Sleep, sleep_on, interruptible_sleep_on, OpenReads,
                SleepReads, SleepHeads, SleepStops, Runs
  <2>2. ASSUME NEW t \in Task, OpenStep(t)
        PROVE  Final
    <3>1. CASE OpenHeads(t) \/ OpenStops(t)
      BY <3>1 DEF OpenHeads, OpenStops, SleepHeads, SleepStops
    <3>2. CASE OpenAgain(t)
      BY <3>2 DEF OpenAgain, Running
    <3> QED
      BY <2>2, <3>1, <3>2 DEF OpenStep
  <2>3. ASSUME NEW t \in Task, do_exit(t) \/ ReturnToUser(t) \/ send_sig(t)
        PROVE  Final
    BY <2>3 DEF do_exit, ReturnToUser, yield, send_sig, Runs
  <2>4. ASSUME NEW t \in Task, Resume(t)
        PROVE  Final
    <3>1. CASE ResumeSleepOn(t)
      BY <3>1, ScannedStates DEF ResumeSleepOn, Running
    <3>2. CASE ResumeNotHead(t)
      BY <3>2, ScannedStates DEF ResumeNotHead, NotHead, Running
    <3>3. CASE OpenFinds(t)
      BY <3>3, ScannedStates DEF OpenFinds
    <3>4. CASE ResumeInterruptible(t)
      BY <3>4, ScannedStates DEF ResumeInterruptible, Running
    <3> QED
      BY <2>4, <3>1, <3>2, <3>3, <3>4 DEF Resume
  <2>5. ASSUME NEW q \in Queue, WakeUp(q)
        PROVE  Final
    BY <2>5 DEF WakeUp, wake_up, Running
  <2> QED
    BY <2>1, <2>2, <2>3, <2>4, <2>5 DEF WqNext
<1> QED
  BY <1>1, <1>2, <1>3, PTL DEF WqSpec, ExitIsFinal

---------------------------------------------------------------------------
(***************************************************************************)
(* The buffer cache.                                                       *)
(***************************************************************************)
(* A buffer once used keeps a real block: no request and no write is for a *)
(* buffer that buffer_init left without one.                               *)
RealBlocks ==
    /\ \A b \in Buffer : b_dirt[b] => b_blk[b] \in Block
    /\ \A t \in Task : \A b \in held[t] : b_blk[b] \in Block
    /\ \A t \in Task : pc[t] \in {"lock"} \cup InMakeRequest =>
          b_blk[rbh[t]] \in Block

(* Between getblk and lock_buffer nobody else runs: the buffer is the one  *)
(* of the wanted block, unlocked, and the major that ll_rw_block looked up *)
(* is still that of the buffer.                                            *)
NoSleepBetween ==
    \A t \in Task :
        /\ pc[t] = "got" =>
              current = t /\ ~b_lock[bh[t]] /\ b_blk[bh[t]] = key[t]
        /\ pc[t] = "lock" => current = t /\ ~b_lock[rbh[t]]
        /\ pc[t] \in {"lock"} \cup InMakeRequest =>
              major[t] = MAJOR(b_blk[rbh[t]][1])

(* A slot is in a list at most once.                                       *)
ListsAreInjective ==
    \A m \in Major : \A i, j \in 1..Len(queue[m]) :
        queue[m][i] = queue[m][j] => i = j

QueuedIsReal ==
    \A m \in Major : \A n \in 1..Len(queue[m]) :
        b_blk[request[queue[m][n]].bh] \in Block

LockInv ==
    /\ UniqueBlock
    /\ RealBlocks
    /\ NoSleepBetween
    /\ LockHasOneOwner
    /\ ListsAreInjective
    /\ QueuedIsReal
    /\ RequestFitsBuffer
-----------------------------------------------------------------------------
(***************************************************************************)
(* Types.                                                                  *)
(***************************************************************************)

(* The sleep functions keep the types of their variables.                  *)
LEMMA SleepOnType ==
    ASSUME SleepTypeOK, NEW t \in Task, NEW q \in Queue, sleep_on(t, q)
    PROVE  SleepTypeOK'
BY DEF SleepTypeOK, sleep_on, SleepReads, SleepHeads, SleepStops, TaskState

LEMMA WakeUpType ==
    ASSUME SleepTypeOK, NEW Q, wake_up(Q), UNCHANGED current
    PROVE  SleepTypeOK'
BY DEF SleepTypeOK, wake_up, Running, TaskState

LEMMA SwitchToType ==
    ASSUME SleepTypeOK, NEW t \in Task, switch_to(t)
    PROVE  SleepTypeOK'
BY DEF SleepTypeOK, switch_to, Running, TaskState

LEMMA YieldType ==
    ASSUME SleepTypeOK, NEW t \in Task, yield(t)
    PROVE  SleepTypeOK'
BY DEF SleepTypeOK, yield

(* The types of the buffers, of the requests and of the tasks' variables.  *)
BufferTypeOK ==
    /\ b_blk \in [Buffer -> Block \cup {NoBlock}]
    /\ b_count \in [Buffer -> Int]
    /\ b_lock \in [Buffer -> BOOLEAN]
    /\ b_dirt \in [Buffer -> BOOLEAN]
    /\ b_uptodate \in [Buffer -> BOOLEAN]
    /\ b_data \in [Buffer -> Nat]
    /\ free_list \in [Buffer -> Buffer]
    /\ latest \in [Block -> Nat]

RequestRecord ==
    [used : BOOLEAN, cmd : {READ, WRITE}, dev : Nat, sector : Nat,
     bh : Buffer, sent : BOOLEAN, data : Nat]

IoTypeOK ==
    /\ request \in [Slot -> RequestRecord]
    /\ queue \in [Major -> Seq(Slot)]
    /\ disk \in [Block -> Nat]
    /\ errors \in Nat
    /\ missed \subseteq {"late", "lost"}

TaskTypeOK ==
    /\ pc \in [Task -> Pc]
    /\ op \in [Task -> AllOps]
    /\ todo \in [Task -> SUBSET Block]
    /\ held \in [Task -> SUBSET Buffer]
    /\ key \in [Task -> Block]
    /\ bh \in [Task -> Buffer]
    /\ idx \in [Task -> Nat]
    /\ sdev \in [Task -> Nat]
    /\ rbh \in [Task -> Buffer]
    /\ major \in [Task -> Nat]
    /\ ret \in [Task -> {"more", "sync", "syncdev"}]
    /\ left \in Nat

LEMMA TypeParts ==
    TypeOK <=> SleepTypeOK /\ BufferTypeOK /\ IoTypeOK /\ TaskTypeOK
BY DEF TypeOK, BufferTypeOK, IoTypeOK, TaskTypeOK, RequestRecord

LEMMA BlockType ==
    ASSUME NEW k \in Block \cup {NoBlock}
    PROVE  k[1] \in Nat /\ k[2] \in Nat /\ k = <<k[1], k[2]>> /\ MAJOR(k[1]) \in Nat
BY BufferAssumption DEF NoBlock, MAJOR

LEMMA NoBlockIsNone == NoBlock \notin Block
BY BufferAssumption DEF NoBlock

LEMMA LoopBufferType ==
    ASSUME TypeOK, NEW t \in Task
    PROVE  LoopBuffer(t) \in Buffer
<1>1. idx[t] \in Nat /\ NR_BUFFERS \in Nat /\ NR_BUFFERS > 0
  BY BufferAssumption DEF TypeOK
<1>2. (idx[t] - 1) % NR_BUFFERS \in 0..(NR_BUFFERS - 1)
  BY <1>1
<1> QED
  BY <1>1, <1>2 DEF LoopBuffer, Buffer

(* The local variables of the tasks.                                       *)
LEMMA TaskTypeStep ==
    ASSUME TypeOK, NEW t \in Task,
           Step(t) \/ Call(t) \/ Preempt(t) \/ PageFault(t) \/ SwitchTo(t)
    PROVE  TaskTypeOK'
<1>1. TaskTypeOK /\ BufferTypeOK
  BY TypeParts
<1> USE <1>1 DEF TaskTypeOK, Pc, Goto, opVars, getVars, syncVars, reqVars
<1>2. CASE wait_on_buffer(t)
  BY <1>2 DEF wait_on_buffer
<1>3. CASE FindHit(t)
  BY <1>3 DEF FindHit, Cached
<1>4. CASE FindMiss(t)
  BY <1>4 DEF FindMiss
<1>5. CASE Found(t)
  BY <1>5 DEF Found
<1>6. CASE ScanNone(t)
  BY <1>6 DEF ScanNone
<1>7. CASE ClaimAgain(t)
  BY <1>7 DEF ClaimAgain
<1>8. CASE ClaimTake(t)
  BY <1>8 DEF ClaimTake, Take, NotValid
<1>9. CASE LockBuffer(t)
  BY <1>9 DEF LockBuffer
<1>10. CASE SlotFound(t)
  BY <1>10 DEF SlotFound
<1>11. CASE SlotNone(t)
  BY <1>11 DEF SlotNone
<1>12. CASE SlotReads(t) \/ SlotHeads(t) \/ SlotSleep(t)
  BY <1>12 DEF SlotReads, SlotHeads, SlotSleep
<1>13. CASE GotAhead(t)
  BY <1>13 DEF GotAhead
<1>14. CASE NextBlock(t)
  BY <1>14 DEF NextBlock
<1>15. CASE NoMoreBlocks(t)
  BY <1>15 DEF NoMoreBlocks
<1>16. CASE ReadDone(t)
  BY <1>16 DEF ReadDone
<1>17. CASE UseRead(t)
  BY <1>17 DEF UseRead
<1>18. CASE BlockWriteCopy(t)
  BY <1>18 DEF BlockWriteCopy
<1>19. CASE FileWriteCopy(t)
  BY <1>19 DEF FileWriteCopy
<1>20. CASE MarkDirty(t)
  BY <1>20 DEF MarkDirty
<1>21. CASE LoopDone(t)
  BY <1>21 DEF LoopDone
<1>22. CASE LoopSkip(t)
  BY <1>22 DEF LoopSkip
<1>23. CASE invalidate_buffers(t)
  BY <1>23 DEF invalidate_buffers
<1>24. CASE Preempt(t)
  BY <1>24 DEF Preempt
<1>25. CASE PageFault(t)
  BY <1>25 DEF PageFault
<1>26. CASE SwitchTo(t)
  BY <1>26 DEF SwitchTo
<1>27. CASE ScanPick(t)
  BY <1>27 DEF ScanPick, Unused, BufferTypeOK
<1>28. CASE ClaimDirty(t)
  <2>1. b_blk[bh[t]][1] \in Nat
    BY BlockType DEF BufferTypeOK
  <2> QED  BY <2>1, <1>28 DEF ClaimDirty
<1>29. CASE GotBlock(t)
  <2>1. MAJOR(b_blk[bh[t]][1]) \in Nat
    BY BlockType DEF BufferTypeOK
  <2> QED  BY <2>1, <1>29 DEF GotBlock, ll_rw_block
<1>30. CASE SyncWrite(t)
  <2>1. LoopBuffer(t) \in Buffer
    BY LoopBufferType
  <2>2. MAJOR(b_blk[LoopBuffer(t)][1]) \in Nat
    BY <2>1, BlockType DEF BufferTypeOK
  <2> QED  BY <2>1, <2>2, <1>30 DEF SyncWrite, ll_rw_block
<1>31. CASE PageDone(t)
  BY <1>31 DEF PageDone, brelse
<1>32. CASE Release(t)
  BY <1>32 DEF Release, brelse
<1>33. ASSUME NEW o \in AllOps, NEW k \in Block, EnterBlock(t, o, k)
       PROVE  TaskTypeOK'
  <2>1. \A R \in MoreBlocks(o, k) : R \subseteq Block
    BY DEF MoreBlocks
  <2>2. left > 0 /\ left' = left - 1
    BY <1>33 DEF EnterBlock, Enter
  <2> QED  BY <2>1, <2>2, <1>33 DEF EnterBlock, Enter
<1>34. CASE sys_sync(t)
  BY <1>34 DEF sys_sync, Enter, AllOps
<1>35. ASSUME NEW k \in Block, check_disk_change(t, k[1])
       PROVE  TaskTypeOK'
  <2>1. k[1] \in Nat
    BY BlockType
  <2> QED  BY <2>1, <1>35 DEF check_disk_change, Enter, AllOps
<1> QED
  BY <1>2, <1>3, <1>4, <1>5, <1>6, <1>7, <1>8, <1>9, <1>10, <1>11, <1>12, <1>13, <1>14, <1>15,
     <1>16, <1>17, <1>18, <1>19, <1>20, <1>21, <1>22, <1>23, <1>24, <1>25, <1>26, <1>27, <1>28,
     <1>29, <1>30, <1>31, <1>32, <1>33, <1>34, <1>35 DEF Step, Call

-----------------------------------------------------------------------------
(***************************************************************************)
(* Locks and requests.                                                     *)
(***************************************************************************)

(* A step of the running task that neither locks a buffer nor makes a      *)
(* request nor gives a buffer to another block.                            *)
QuietStep(t) ==
    /\ current = t
    /\ UNCHANGED <<b_blk, b_lock, request, queue>>
    /\ \A b \in Buffer : b_dirt'[b] => b_dirt[b] \/ b_blk[b] \in Block
    /\ \A u \in Task : \A b \in held'[u] : b_blk[b] \in Block
    /\ \A u \in Task : u # t =>
          pc'[u] = pc[u] /\ rbh'[u] = rbh[u] /\ major'[u] = major[u]
    /\ pc[t] \in InMakeRequest <=> pc'[t] \in InMakeRequest
    /\ pc[t] \in InMakeRequest => rbh'[t] = rbh[t] /\ major'[t] = major[t]
    /\ pc'[t] = "got" =>
          current' = t /\ ~b_lock[bh'[t]] /\ b_blk[bh'[t]] = key'[t]
    /\ pc'[t] = "lock" =>
          /\ current' = t
          /\ ~b_lock[rbh'[t]]
          /\ b_blk[rbh'[t]] \in Block
          /\ major'[t] = MAJOR(b_blk[rbh'[t]][1])

LEMMA QuietStepInv ==
    ASSUME LockInv, NEW t \in Task, QuietStep(t)
    PROVE  LockInv'
<1>1. UniqueBlock' /\ ListsAreInjective' /\ QueuedIsReal' /\ RequestFitsBuffer'
  <2>1. UNCHANGED <<b_blk, request, queue>>
    BY DEF QuietStep
  <2> QED  BY <2>1 DEF LockInv, UniqueBlock, ListsAreInjective, QueuedIsReal,
                RequestFitsBuffer
<1>2. RealBlocks'
  BY DEF LockInv, QuietStep, RealBlocks
<1>3. NoSleepBetween'
  BY DEF LockInv, QuietStep, NoSleepBetween
<1>4. \A b \in Buffer : Lockers(b)' = Lockers(b) /\ Requests(b)' = Requests(b)
  BY DEF QuietStep, Lockers, Requests
<1>5. LockHasOneOwner'
  BY <1>4 DEF LockInv, QuietStep, LockHasOneOwner
<1> QED
  BY <1>1, <1>2, <1>3, <1>5 DEF LockInv

LEMMA QuietSteps ==
    ASSUME TypeOK, LockInv, NEW t \in Task,
           \/ wait_on_buffer(t)
           \/ FindHit(t) \/ FindMiss(t) \/ Found(t)
           \/ ScanNone(t) \/ ScanPick(t) \/ ClaimAgain(t) \/ ClaimDirty(t)
           \/ SlotNone(t) \/ SlotReads(t) \/ SlotHeads(t) \/ SlotSleep(t)
           \/ GotBlock(t) \/ NextBlock(t) \/ NoMoreBlocks(t)
           \/ PageDone(t) \/ ReadDone(t)
           \/ UseRead(t) \/ BlockWriteCopy(t) \/ FileWriteCopy(t) \/ MarkDirty(t)
           \/ Release(t)
           \/ LoopDone(t) \/ LoopSkip(t) \/ SyncWrite(t) \/ invalidate_buffers(t)
           \/ Call(t) \/ Preempt(t) \/ PageFault(t)
    PROVE  QuietStep(t)
<1>1. TaskTypeOK /\ BufferTypeOK
  BY TypeParts
<1>2. RealBlocks /\ NoSleepBetween
  BY DEF LockInv
<1> USE <1>1 DEF TaskTypeOK, BufferTypeOK, Goto, At, bufVars, ioVars, opVars,
        getVars, syncVars, reqVars, sleepVars, QuietStep, RealBlocks
<1>3. CASE FindHit(t)
  BY <1>3, <1>2 DEF FindHit
<1>4. CASE FindMiss(t)
  BY <1>4, <1>2 DEF FindMiss
<1>5. CASE Found(t)
  BY <1>5, <1>2 DEF Found
<1>6. CASE ScanPick(t)
  BY <1>6, <1>2 DEF ScanPick
<1>7. CASE ClaimAgain(t)
  BY <1>7, <1>2 DEF ClaimAgain
<1>8. CASE ClaimDirty(t)
  BY <1>8, <1>2 DEF ClaimDirty
<1>9. CASE SlotNone(t)
  BY <1>9, <1>2 DEF SlotNone
<1>10. CASE NextBlock(t)
  BY <1>10, <1>2 DEF NextBlock
<1>11. CASE NoMoreBlocks(t)
  BY <1>11, <1>2 DEF NoMoreBlocks
<1>12. CASE ReadDone(t)
  BY <1>12, <1>2 DEF ReadDone
<1>13. CASE UseRead(t)
  BY <1>13, <1>2 DEF UseRead
<1>14. CASE BlockWriteCopy(t)
  BY <1>14, <1>2 DEF BlockWriteCopy
<1>15. CASE FileWriteCopy(t)
  BY <1>15, <1>2 DEF FileWriteCopy
<1>16. CASE MarkDirty(t)
  BY <1>16, <1>2 DEF MarkDirty
<1>17. CASE LoopDone(t)
  BY <1>17, <1>2 DEF LoopDone
<1>18. CASE LoopSkip(t)
  BY <1>18, <1>2 DEF LoopSkip
<1>19. CASE invalidate_buffers(t)
  BY <1>19, <1>2 DEF invalidate_buffers
<1>20. CASE Preempt(t)
  BY <1>20, <1>2 DEF Preempt, yield, NoSleepBetween
<1>21. CASE PageFault(t)
  BY <1>21, <1>2 DEF PageFault, yield, NoSleepBetween
<1>22. CASE ScanNone(t)
  BY <1>22, <1>2 DEF ScanNone, sleep_on, SleepStops
<1>23. CASE SlotReads(t) \/ SlotHeads(t) \/ SlotSleep(t)
  BY <1>23, <1>2 DEF SlotReads, SlotHeads, SlotSleep
<1>24. CASE PageDone(t)
  <2>1. pc[t] = "finish"
    BY <1>24 DEF PageDone
  <2>2. PICK b \in Buffer, l \in {"user", "finish"} : brelse(t, b, l)
    BY <1>24 DEF PageDone
  <2> QED  BY <1>24, <1>2, <2>1, <2>2 DEF PageDone, brelse
<1>25. CASE Release(t)
  BY <1>25, <1>2 DEF Release, brelse
<1>26. CASE wait_on_buffer(t)
  <2>1. pc[t] # "got" /\ pc[t] # "lock"
    BY <1>26, <1>2 DEF wait_on_buffer, WaitsFor, NoSleepBetween
  <2> QED  BY <1>26, <1>2, <2>1 DEF wait_on_buffer
<1>27. CASE GotBlock(t)
  BY <1>27, <1>2 DEF GotBlock, ll_rw_block, NoSleepBetween
<1>28. CASE SyncWrite(t)
  <2>1. LoopBuffer(t) \in Buffer
    BY LoopBufferType
  <2> QED  BY <1>28, <1>2, <2>1 DEF SyncWrite, ll_rw_block
<1>29. CASE Call(t)
  BY <1>29, <1>2 DEF Call, EnterBlock, sys_sync, check_disk_change, Enter
<1> QED
  BY <1>3, <1>4, <1>5, <1>6, <1>7, <1>8, <1>9, <1>10, <1>11, <1>12, <1>13, <1>14, <1>15, <1>16,
     <1>17, <1>18, <1>19, <1>20, <1>21, <1>22, <1>23, <1>24, <1>25, <1>26, <1>27, <1>28, <1>29

(* What a new request does to the table and the lists.                     *)
LEMMA FillRequestInv ==
    ASSUME TypeOK, LockInv, NEW r \in FreeSlots, NEW cmd \in {READ, WRITE},
           NEW b \in Buffer, b_blk[b] \in Block, NEW m, m = MAJOR(b_blk[b][1]),
           FillRequest(r, cmd, b, m), UNCHANGED b_blk
    PROVE  /\ request' \in [Slot -> RequestRecord]
           /\ queue' \in [Major -> Seq(Slot)]
           /\ request'[r].used /\ request'[r].bh = b
           /\ \A s \in Slot : s # r => request'[s] = request[s]
           /\ ListsAreInjective' /\ QueuedIsReal' /\ RequestFitsBuffer'
<1> DEFINE new == [used |-> TRUE, cmd |-> cmd, dev |-> b_blk[b][1],
                   sector |-> 2 * b_blk[b][2], bh |-> b,
                   sent |-> FALSE, data |-> 0]
<1>1. IoTypeOK /\ BufferTypeOK
  BY TypeParts
<1>2. /\ b_blk[b][1] \in Nat /\ b_blk[b][2] \in Nat
      /\ b_blk[b] = <<b_blk[b][1], b_blk[b][2]>>
  BY BlockType
<1>3. r \in Slot /\ ~request[r].used
  BY DEF FreeSlots
<1>4. m \in Major
  BY DEF Major
<1>5. new \in RequestRecord
  BY <1>2 DEF RequestRecord
<1>6. new.used /\ new.bh = b /\ new.dev = b_blk[b][1] /\ new.sector = 2 * b_blk[b][2]
  OBVIOUS
<1>7. request' = [request EXCEPT ![r] = new]
  BY DEF FillRequest
<1> HIDE DEF new
<1>8. /\ request' \in [Slot -> RequestRecord]
      /\ request'[r] = new
      /\ \A s \in Slot : s # r => request'[s] = request[s]
  BY <1>1, <1>3, <1>5, <1>7 DEF IoTypeOK
<1> DEFINE q == queue[m]
           req == request'
           p == add_request(req, q, r)
<1>9. q \in Seq(Slot)
  BY <1>1, <1>4 DEF IoTypeOK
<1>9a. queue' = [queue EXCEPT ![m] = p]
  BY DEF FillRequest
<1>10. \A i \in 1..Len(q) : q[i] # r /\ q[i] \in Slot
  BY <1>3, <1>4, <1>9 DEF LockInv, RequestFitsBuffer
<1>11. \A i, j \in 1..Len(q) : q[i] = q[j] => i = j
  BY <1>4 DEF LockInv, ListsAreInjective
<1> HIDE DEF q, req
<1>12. /\ p \in Seq(Slot)
       /\ Len(p) = Len(q) + 1
       /\ \A n \in 1..Len(p) : p[n] = r \/ \E i \in 1..Len(q) : p[n] = q[i]
       /\ \A i \in 1..Len(q) : \E n \in 1..Len(p) : p[n] = q[i]
       /\ \E n \in 1..Len(p) : p[n] = r
       /\ /\ \A i \in 1..Len(q) : q[i] # r
          /\ \A i, j \in 1..Len(q) : q[i] = q[j] => i = j
          => \A i, j \in 1..Len(p) : p[i] = p[j] => i = j
  BY <1>3, <1>9, AddRequestList, Zenon
<1> HIDE DEF p
<1>13. /\ queue' \in [Major -> Seq(Slot)]
       /\ queue'[m] = p
       /\ \A l \in Major : l # m => queue'[l] = queue[l]
  BY <1>1, <1>4, <1>9a, <1>12 DEF IoTypeOK
<1>14. ListsAreInjective'
  <2>1. Major' = Major
    OBVIOUS
  <2>2. \A i, j \in 1..Len(p) : p[i] = p[j] => i = j
    BY <1>10, <1>11, <1>12
  <2> QED
    BY <2>1, <2>2, <1>13 DEF LockInv, ListsAreInjective
<1>15. ASSUME NEW l \in Major, NEW n \in 1..Len(queue'[l])
       PROVE  \/ queue'[l][n] = r /\ l = m
              \/ \E i \in 1..Len(queue[l]) :
                    queue'[l][n] = queue[l][i] /\ queue[l][i] \in Slot /\ queue[l][i] # r
  <2>1. CASE l = m
    BY <2>1, <1>10, <1>12, <1>13, <1>15 DEF q
  <2>2. CASE l # m
    <3>1. queue'[l] = queue[l] /\ queue[l] \in Seq(Slot)
      BY <2>2, <1>1, <1>13, <1>15 DEF IoTypeOK
    <3>2. request[queue[l][n]].used /\ queue[l][n] \in Slot
      BY <3>1, <1>15 DEF LockInv, RequestFitsBuffer
    <3> QED  BY <3>1, <3>2, <1>3, <1>15
  <2> QED  BY <2>1, <2>2
<1>16. QueuedIsReal'
  <2> SUFFICES ASSUME NEW l \in Major, NEW n \in 1..Len(queue'[l])
               PROVE  b_blk[request'[queue'[l][n]].bh] \in Block
    BY DEF QueuedIsReal
  <2>1. CASE queue'[l][n] = r
    BY <2>1, <1>6, <1>8
  <2>2. CASE queue'[l][n] # r
    <3>1. PICK i \in 1..Len(queue[l]) :
             queue'[l][n] = queue[l][i] /\ queue[l][i] \in Slot
      BY <2>2, <1>15
    <3>2. request'[queue'[l][n]] = request[queue[l][i]]
      BY <2>2, <3>1, <1>8
    <3> QED  BY <3>1, <3>2 DEF LockInv, QueuedIsReal
  <2> QED  BY <2>1, <2>2
<1>17. RequestFitsBuffer'
  <2> SUFFICES ASSUME NEW l \in Major, NEW n \in 1..Len(queue'[l])
               PROVE  LET x == request'[queue'[l][n]] IN
                      /\ x.used
                      /\ <<x.dev, x.sector \div 2>> = b_blk[x.bh]
                      /\ MAJOR(x.dev) = l
    BY DEF RequestFitsBuffer
  <2>1. CASE queue'[l][n] = r
    <3>1. l = m
      BY <2>1, <1>15
    <3>2. (2 * b_blk[b][2]) \div 2 = b_blk[b][2]
      BY <1>2
    <3> QED  BY <2>1, <3>1, <3>2, <1>2, <1>6, <1>8
  <2>2. CASE queue'[l][n] # r
    <3>1. PICK i \in 1..Len(queue[l]) :
             queue'[l][n] = queue[l][i] /\ queue[l][i] \in Slot
      BY <2>2, <1>15
    <3>2. request'[queue'[l][n]] = request[queue[l][i]]
      BY <2>2, <3>1, <1>8
    <3> QED  BY <3>1, <3>2 DEF LockInv, RequestFitsBuffer
  <2> QED  BY <2>1, <2>2
<1> QED
  BY <1>6, <1>8, <1>13, <1>14, <1>16, <1>17

(* lock_buffer; make_request with a free slot; the read that breada starts.*)
LEMMA LockBufferInv ==
    ASSUME TypeOK, LockInv, NEW t \in Task, LockBuffer(t)
    PROVE  LockInv'
<1> DEFINE b == rbh[t]
<1>1. /\ TaskTypeOK /\ BufferTypeOK /\ b \in Buffer
      /\ current = t /\ pc[t] = "lock" /\ ~b_lock[b] /\ current' = t
      /\ UNCHANGED <<b_blk, b_dirt, request, queue, held, bh, key, rbh, major>>
  BY TypeParts DEF LockBuffer, At, TaskTypeOK, ioVars, opVars, getVars, reqVars
<1>2. /\ b_blk[b] \in Block
      /\ major[t] = MAJOR(b_blk[b][1])
  BY <1>1 DEF LockInv, RealBlocks, NoSleepBetween
<1>3. CASE NeedsIO(t, b)
  <2>1. b_lock' = [b_lock EXCEPT ![b] = TRUE] /\ pc' = [pc EXCEPT ![t] = "slot"]
    BY <1>3 DEF LockBuffer, Goto
  <2>2. UniqueBlock' /\ ListsAreInjective' /\ QueuedIsReal' /\ RequestFitsBuffer'
    BY <1>1 DEF LockInv, UniqueBlock, ListsAreInjective, QueuedIsReal,
         RequestFitsBuffer
  <2>3. RealBlocks'
    BY <1>1, <1>2, <2>1 DEF LockInv, RealBlocks, TaskTypeOK
  <2>4. NoSleepBetween'
    BY <1>1, <1>2, <2>1 DEF LockInv, NoSleepBetween, TaskTypeOK
  <2>5. \A c \in Buffer : /\ Requests(c)' = Requests(c)
                          /\ c # b => Lockers(c)' = Lockers(c)
    BY <1>1, <2>1 DEF Requests, Lockers, TaskTypeOK
  <2>6. Lockers(b) = {} /\ Requests(b) = {}
    BY <1>1 DEF LockInv, LockHasOneOwner
  <2>7. Lockers(b)' = {t}
    BY <1>1, <2>1, <2>6 DEF Lockers, TaskTypeOK
  <2>8. LockHasOneOwner'
    <3>1. b_lock'[b] /\ \A c \in Buffer : c # b => b_lock'[c] = b_lock[c]
      BY <1>1, <2>1 DEF BufferTypeOK
    <3> QED
      BY <2>5, <2>6, <2>7, <3>1, <1>1 DEF LockInv, LockHasOneOwner
  <2> QED
    BY <2>2, <2>3, <2>4, <2>8 DEF LockInv
<1>4. CASE ~NeedsIO(t, b)
  <2>1. /\ UNCHANGED b_lock
        /\ \A u \in Task : pc'[u] = IF u = t THEN ret[t] ELSE pc[u]
    BY <1>1, <1>4 DEF LockBuffer, Goto, TaskTypeOK
  <2>2. ret[t] \in {"more", "sync", "syncdev"}
    BY <1>1 DEF TaskTypeOK
  <2>3. QuietStep(t)
    BY <1>1, <2>1, <2>2 DEF QuietStep, LockInv, RealBlocks
  <2> QED
    BY <2>3, QuietStepInv
<1> QED
  BY <1>3, <1>4

LEMMA SlotFoundInv ==
    ASSUME TypeOK, LockInv, NEW t \in Task, SlotFound(t)
    PROVE  LockInv' /\ request' \in [Slot -> RequestRecord]
           /\ queue' \in [Major -> Seq(Slot)]
<1> DEFINE b == rbh[t]
           r == FindSlot(rw(t), FreeSlots)
<1>1. /\ TaskTypeOK /\ BufferTypeOK /\ b \in Buffer
      /\ current = t /\ pc[t] = "slot" /\ current' = t
      /\ pc' = [pc EXCEPT ![t] = ret[t]]
      /\ b_dirt' = [b_dirt EXCEPT ![b] = FALSE]
      /\ UNCHANGED <<b_blk, b_lock, held, bh, key, rbh, major>>
  BY TypeParts DEF SlotFound, FillRequest, Goto, At, TaskTypeOK, sleepVars,
       ioVars, opVars, getVars, reqVars
<1>2. b_blk[b] \in Block /\ major[t] = MAJOR(b_blk[b][1])
  BY <1>1 DEF LockInv, RealBlocks, NoSleepBetween
<1>3. r \in FreeSlots /\ r \in Slot /\ ~request[r].used
  <2>1. FreeSlots \in SUBSET Slot /\ r # 0
    BY DEF FreeSlots, SlotFound
  <2> QED  BY <2>1, FindSlotType DEF FreeSlots
<1>4. rw(t) \in {READ, WRITE} /\ FillRequest(r, rw(t), b, major[t])
  BY DEF SlotFound, rw
<1> HIDE DEF r
<1>5. /\ request' \in [Slot -> RequestRecord]
      /\ queue' \in [Major -> Seq(Slot)]
      /\ request'[r].used /\ request'[r].bh = b
      /\ \A s \in Slot : s # r => request'[s] = request[s]
      /\ ListsAreInjective' /\ QueuedIsReal' /\ RequestFitsBuffer'
  BY <1>1, <1>2, <1>3, <1>4, FillRequestInv
<1>6. ret[t] \in {"more", "sync", "syncdev"}
  BY <1>1 DEF TaskTypeOK
<1>7. UniqueBlock'
  BY <1>1 DEF LockInv, UniqueBlock
<1>8. RealBlocks'
  BY <1>1, <1>6 DEF LockInv, RealBlocks, TaskTypeOK, BufferTypeOK
<1>9. NoSleepBetween'
  BY <1>1, <1>6 DEF LockInv, NoSleepBetween, TaskTypeOK
<1>10. t \in Lockers(b) /\ Lockers(b) = {t} /\ Requests(b) = {} /\ b_lock[b]
  <2>1. t \in Lockers(b)
    BY <1>1 DEF Lockers
  <2> QED  BY <1>1, <2>1 DEF LockInv, LockHasOneOwner
<1>11. Lockers(b)' = {} /\ Requests(b)' = {r}
  <2>1. Lockers(b)' = Lockers(b) \ {t}
    BY <1>1, <1>6 DEF Lockers, TaskTypeOK
  <2>2. Requests(b)' = Requests(b) \cup {r}
    BY <1>1, <1>3, <1>5 DEF Requests
  <2> QED  BY <1>10, <2>1, <2>2
<1>12. \A c \in Buffer : c # b => Lockers(c)' = Lockers(c) /\ Requests(c)' = Requests(c)
  <2> TAKE c \in Buffer
  <2> HAVE c # b
  <2>1. Lockers(c)' = Lockers(c)
    BY <1>1, <1>6 DEF Lockers, TaskTypeOK
  <2>2. Requests(c)' = Requests(c)
    BY <1>3, <1>5 DEF Requests
  <2> QED  BY <2>1, <2>2
<1>13. LockHasOneOwner'
  BY <1>1, <1>10, <1>11, <1>12 DEF LockInv, LockHasOneOwner
<1> QED
  BY <1>5, <1>7, <1>8, <1>9, <1>13 DEF LockInv

LEMMA GotAheadInv ==
    ASSUME TypeOK, LockInv, NEW t \in Task, GotAhead(t)
    PROVE  LockInv' /\ request' \in [Slot -> RequestRecord]
           /\ queue' \in [Major -> Seq(Slot)]
<1>1. /\ TaskTypeOK /\ BufferTypeOK /\ IoTypeOK
      /\ current = t /\ pc[t] = "got" /\ current' = t
      /\ pc' = [pc EXCEPT ![t] = "more"]
      /\ UNCHANGED <<b_blk, held, bh, key, rbh, major>>
  BY TypeParts DEF GotAhead, Goto, At, sleepVars, opVars, getVars, reqVars
<1>2. PICK b \in held[t] :
         \/ ReadAhead(t, b)
         \/ UNCHANGED <<request, queue, b_dirt, b_lock>>
  BY DEF GotAhead
<1>3. b \in Buffer /\ b_blk[b] \in Block
  BY <1>1 DEF TaskTypeOK, LockInv, RealBlocks
<1> DEFINE m == MAJOR(b_blk[b][1])
           r == FindSlot(READ, FreeSlots)
<1>4. CASE UNCHANGED <<request, queue, b_dirt, b_lock>>
  <2>1. QuietStep(t)
    BY <1>1, <1>4 DEF QuietStep, LockInv, RealBlocks, TaskTypeOK
  <2> QED
    BY <2>1, <1>1, <1>4, QuietStepInv DEF IoTypeOK
<1>5. CASE /\ ~b_lock[b] /\ r # 0
           /\ FillRequest(r, READ, b, m)
           /\ b_lock' = [b_lock EXCEPT ![b] = TRUE]
  <2>1. r \in FreeSlots /\ r \in Slot /\ ~request[r].used
    <3>1. FreeSlots \in SUBSET Slot
      BY DEF FreeSlots
    <3> QED  BY <3>1, <1>5, FindSlotType DEF FreeSlots
  <2> HIDE DEF r
  <2>2. b_dirt' = [b_dirt EXCEPT ![b] = FALSE]
    BY <1>5 DEF FillRequest
  <2>3. /\ request' \in [Slot -> RequestRecord]
        /\ queue' \in [Major -> Seq(Slot)]
        /\ request'[r].used /\ request'[r].bh = b
        /\ \A s \in Slot : s # r => request'[s] = request[s]
        /\ ListsAreInjective' /\ QueuedIsReal' /\ RequestFitsBuffer'
    BY <1>1, <1>3, <1>5, <2>1, FillRequestInv
  <2>4. UniqueBlock'
    BY <1>1 DEF LockInv, UniqueBlock
  <2>5. RealBlocks'
    BY <1>1, <2>2 DEF LockInv, RealBlocks, TaskTypeOK, BufferTypeOK
  <2>6. NoSleepBetween'
    BY <1>1 DEF LockInv, NoSleepBetween, TaskTypeOK
  <2>7. Lockers(b) = {} /\ Requests(b) = {}
    BY <1>3, <1>5 DEF LockInv, LockHasOneOwner
  <2>8. \A c \in Buffer : Lockers(c)' = Lockers(c)
    BY <1>1 DEF Lockers, TaskTypeOK
  <2>9. Requests(b)' = {r}
    <3>1. Requests(b)' = Requests(b) \cup {r}
      BY <2>1, <2>3 DEF Requests
    <3> QED  BY <3>1, <2>7
  <2>10. \A c \in Buffer : c # b => Requests(c)' = Requests(c)
    BY <2>1, <2>3 DEF Requests
  <2>11. LockHasOneOwner'
    <3>1. b_lock'[b] /\ \A c \in Buffer : c # b => b_lock'[c] = b_lock[c]
      BY <1>1, <1>3, <1>5 DEF BufferTypeOK
    <3> QED
      BY <2>7, <2>8, <2>9, <2>10, <3>1 DEF LockInv, LockHasOneOwner
  <2> QED
    BY <2>3, <2>4, <2>5, <2>6, <2>11 DEF LockInv
<1> QED
  BY <1>2, <1>4, <1>5 DEF ReadAhead

(* What is known of a queued request.                                      *)
LEMMA QueuedRequest ==
    ASSUME TypeOK, LockInv, NEW m \in Major, NEW n \in 1..Len(queue[m])
    PROVE  /\ queue[m][n] \in Slot
           /\ request[queue[m][n]].used
           /\ request[queue[m][n]].bh \in Buffer
           /\ b_blk[request[queue[m][n]].bh] \in Block
           /\ b_blk[request[queue[m][n]].bh] =
                 <<request[queue[m][n]].dev, request[queue[m][n]].sector \div 2>>
           /\ MAJOR(request[queue[m][n]].dev) = m
<1>1. IoTypeOK
  BY TypeParts
<1>2. queue[m][n] \in Slot
  BY <1>1 DEF IoTypeOK
<1>3. request[queue[m][n]] \in RequestRecord
  BY <1>1, <1>2 DEF IoTypeOK
<1>4. request[queue[m][n]].bh \in Buffer
  BY <1>3 DEF RequestRecord
<1>5. b_blk[request[queue[m][n]].bh] \in Block
  BY DEF LockInv, QueuedIsReal
<1> QED
  BY <1>2, <1>4, <1>5 DEF LockInv, RequestFitsBuffer

(* getblk gives a buffer to another block: it is unlocked, so no request   *)
(* and no task in make_request has it.                                     *)
LEMMA ClaimTakeInv ==
    ASSUME TypeOK, LockInv, NEW t \in Task, ClaimTake(t)
    PROVE  LockInv'
<1> DEFINE b == bh[t]
<1>1. /\ TaskTypeOK /\ BufferTypeOK /\ IoTypeOK /\ b \in Buffer /\ key[t] \in Block
      /\ current = t /\ pc[t] = "claim" /\ current' = t /\ ~b_lock[b]
      /\ Cached(key[t]) = {}
      /\ pc' = [pc EXCEPT ![t] = "got"]
      /\ b_blk' = [b_blk EXCEPT ![b] = key[t]]
      /\ b_dirt' = [b_dirt EXCEPT ![b] = FALSE]
      /\ UNCHANGED <<b_lock, request, queue, held, bh, key, rbh, major>>
  BY TypeParts DEF ClaimTake, Take, NotValid, Goto, At, TaskTypeOK, sleepVars, ioVars, opVars,
       getVars, reqVars
<1>2. /\ b_blk'[b] = key[t]
      /\ \A c \in Buffer : c # b => b_blk'[c] = b_blk[c] /\ b_blk[c] # key[t]
      /\ \A c \in Buffer : b_blk[c] \in Block => b_blk'[c] \in Block
  BY <1>1 DEF Cached, BufferTypeOK
<1>3. UniqueBlock'
  BY <1>1, <1>2 DEF LockInv, UniqueBlock
<1>4. RealBlocks'
  BY <1>1, <1>2 DEF LockInv, RealBlocks, TaskTypeOK, BufferTypeOK
<1>5. Lockers(b) = {} /\ Requests(b) = {}
  BY <1>1 DEF LockInv, LockHasOneOwner
<1>6. ASSUME NEW u \in Task, pc'[u] \in {"lock"} \cup InMakeRequest
      PROVE  rbh[u] \in Buffer /\ rbh[u] # b /\ pc[u] = pc'[u]
  <2>1. u # t /\ pc'[u] = pc[u] /\ rbh[u] \in Buffer
    BY <1>1, <1>6 DEF TaskTypeOK
  <2>2. pc[u] # "lock"
    BY <1>1, <2>1 DEF LockInv, NoSleepBetween
  <2> QED  BY <2>1, <2>2, <1>5, <1>6 DEF Lockers
<1>7. NoSleepBetween'
  <2> SUFFICES ASSUME NEW u \in Task
               PROVE  /\ pc'[u] = "got" =>
                           current' = u /\ ~b_lock'[bh'[u]] /\ b_blk'[bh'[u]] = key'[u]
                      /\ pc'[u] = "lock" => current' = u /\ ~b_lock'[rbh'[u]]
                      /\ pc'[u] \in {"lock"} \cup InMakeRequest =>
                           major'[u] = MAJOR(b_blk'[rbh'[u]][1])
    BY DEF NoSleepBetween
  <2>1. pc'[u] = "got" => u = t
    BY <1>1 DEF LockInv, NoSleepBetween, TaskTypeOK
  <2> QED
    BY <2>1, <1>1, <1>2, <1>6 DEF LockInv, NoSleepBetween
<1>8. \A c \in Buffer : Lockers(c)' = Lockers(c) /\ Requests(c)' = Requests(c)
  BY <1>1 DEF Lockers, Requests, TaskTypeOK
<1>9. LockHasOneOwner'
  BY <1>1, <1>8 DEF LockInv, LockHasOneOwner
<1>10. ListsAreInjective'
  BY <1>1 DEF LockInv, ListsAreInjective
<1>11. ASSUME NEW m \in Major, NEW n \in 1..Len(queue[m])
       PROVE  /\ request[queue[m][n]].bh \in Buffer
              /\ b_blk'[request[queue[m][n]].bh] = b_blk[request[queue[m][n]].bh]
  <2>1. queue[m][n] \in Slot /\ request[queue[m][n]].used
        /\ request[queue[m][n]].bh \in Buffer
    BY QueuedRequest
  <2>2. request[queue[m][n]].bh # b
    BY <2>1, <1>5 DEF Requests
  <2> QED  BY <2>1, <2>2, <1>2
<1>12. QueuedIsReal'
  BY <1>1, <1>11 DEF LockInv, QueuedIsReal
<1>13. RequestFitsBuffer'
  <2>1. \A m \in Major : \A n \in 1..Len(queue[m]) :
           b_blk'[request[queue[m][n]].bh] = b_blk[request[queue[m][n]].bh]
    BY <1>11
  <2>2. RequestFitsBuffer /\ queue' = queue /\ request' = request
    BY <1>1 DEF LockInv
  <2> QED  BY <2>1, <2>2 DEF RequestFitsBuffer
<1> QED
  BY <1>3, <1>4, <1>7, <1>9, <1>10, <1>12, <1>13 DEF LockInv

(* schedule() finds no task between getblk and lock_buffer.                *)
LEMMA SwitchToInv ==
    ASSUME TypeOK, LockInv, NEW t \in Task, SwitchTo(t)
    PROVE  LockInv'
<1>1. /\ UNCHANGED <<b_blk, b_lock, b_dirt, request, queue, held, pc, bh, key, rbh, major>>
      /\ current = NULL
  BY DEF SwitchTo, switch_to, bufVars, ioVars, opVars, getVars, reqVars
<1>2. \A u \in Task : pc[u] # "got" /\ pc[u] # "lock"
  BY <1>1, NullIsNoTask DEF LockInv, NoSleepBetween
<1>3. NoSleepBetween'
  BY <1>1, <1>2 DEF LockInv, NoSleepBetween
<1>4. UniqueBlock' /\ ListsAreInjective' /\ QueuedIsReal' /\ RequestFitsBuffer'
  BY <1>1 DEF LockInv, UniqueBlock, ListsAreInjective, QueuedIsReal,
       RequestFitsBuffer
<1>5. RealBlocks' /\ LockHasOneOwner'
  BY <1>1 DEF LockInv, RealBlocks, LockHasOneOwner, Lockers, Requests
<1> QED
  BY <1>3, <1>4, <1>5 DEF LockInv

(* The driver sends data, and ends a request: only the buffer of the head  *)
(* of the list is unlocked, and no other request or task has it.           *)
LEMMA SendDataInv ==
    ASSUME TypeOK, LockInv, NEW m \in Major, SendData(m)
    PROVE  LockInv' /\ request' \in [Slot -> RequestRecord]
<1> DEFINE r == Head(queue[m])
<1>1. /\ IoTypeOK /\ BufferTypeOK /\ r \in Slot
      /\ request' = [request EXCEPT ![r].sent = TRUE,
                                    ![r].data = b_data[request[r].bh]]
      /\ UNCHANGED <<b_blk, b_lock, b_dirt, queue, held, pc, current, bh, key, rbh, major>>
  BY TypeParts DEF SendData, IoTypeOK, bufVars, opVars, getVars, reqVars, sleepVars
<1>2. request[r].bh \in Buffer /\ b_data[request[r].bh] \in Nat
  BY <1>1 DEF IoTypeOK, RequestRecord, BufferTypeOK
<1>3. request' \in [Slot -> RequestRecord]
  BY <1>1, <1>2 DEF IoTypeOK, RequestRecord
<1>4. \A s \in Slot : /\ request'[s].used = request[s].used
                      /\ request'[s].bh = request[s].bh
                      /\ request'[s].dev = request[s].dev
                      /\ request'[s].sector = request[s].sector
  BY <1>1 DEF IoTypeOK, RequestRecord
<1>6. UniqueBlock' /\ ListsAreInjective' /\ RealBlocks' /\ NoSleepBetween'
  BY <1>1 DEF LockInv, UniqueBlock, ListsAreInjective, RealBlocks,
       NoSleepBetween
<1>7. QueuedIsReal' /\ RequestFitsBuffer'
  <2>1. b_blk' = b_blk /\ queue' = queue
    BY <1>1
  <2>2. ASSUME NEW l \in Major, NEW n \in 1..Len(queue[l])
        PROVE  LET x == request'[queue[l][n]] IN
               /\ b_blk[x.bh] \in Block
               /\ x.used
               /\ <<x.dev, x.sector \div 2>> = b_blk[x.bh]
               /\ MAJOR(x.dev) = l
    <3> DEFINE s == queue[l][n]
    <3>1. /\ s \in Slot /\ request[s].used
          /\ b_blk[request[s].bh] \in Block
          /\ b_blk[request[s].bh] = <<request[s].dev, request[s].sector \div 2>>
          /\ MAJOR(request[s].dev) = l
      BY QueuedRequest
    <3>2. /\ request'[s].used = request[s].used
          /\ request'[s].bh = request[s].bh
          /\ request'[s].dev = request[s].dev
          /\ request'[s].sector = request[s].sector
      BY <1>4, <3>1
    <3> HIDE DEF s
    <3>3. /\ b_blk[request'[s].bh] \in Block
          /\ request'[s].used
          /\ <<request'[s].dev, request'[s].sector \div 2>> = b_blk[request'[s].bh]
          /\ MAJOR(request'[s].dev) = l
      BY <3>1, <3>2
    <3> QED  BY <3>3 DEF s
  <2>3. QueuedIsReal'
    BY <2>1, <2>2 DEF QueuedIsReal
  <2>4. RequestFitsBuffer'
    BY <2>1, <2>2 DEF RequestFitsBuffer
  <2> QED  BY <2>3, <2>4
<1>8. \A c \in Buffer : Lockers(c)' = Lockers(c) /\ Requests(c)' = Requests(c)
  BY <1>1, <1>4 DEF Lockers, Requests
<1>9. LockHasOneOwner'
  BY <1>1, <1>8 DEF LockInv, LockHasOneOwner
<1> QED
  BY <1>3, <1>6, <1>7, <1>9 DEF LockInv

LEMMA EndRequestInv ==
    ASSUME TypeOK, LockInv, NEW m \in Major, NEW ok \in BOOLEAN,
           end_request(m, ok)
    PROVE  /\ LockInv'
           /\ request' \in [Slot -> RequestRecord]
           /\ queue' \in [Major -> Seq(Slot)]
           /\ disk' \in [Block -> Nat]
           /\ b_data' \in [Buffer -> Nat]
           /\ b_uptodate' \in [Buffer -> BOOLEAN]
           /\ b_lock' \in [Buffer -> BOOLEAN]
<1> DEFINE r == Head(queue[m])
           b == request[r].bh
           k == <<request[r].dev, request[r].sector \div 2>>
<1>1. /\ queue[m] # <<>>
      /\ b_data' = IF ok /\ request[r].cmd = READ
                   THEN [b_data EXCEPT ![b] = disk[k]] ELSE b_data
      /\ disk' = IF ok /\ request[r].cmd = WRITE
                 THEN [disk EXCEPT ![k] = request[r].data] ELSE disk
      /\ b_uptodate' = [b_uptodate EXCEPT ![b] = ok]
      /\ b_lock' = [b_lock EXCEPT ![b] = FALSE]
      /\ request' = [request EXCEPT ![r] = NoRequest]
      /\ queue' = [queue EXCEPT ![m] = Tail(@)]
      /\ UNCHANGED <<b_blk, b_dirt, held, pc, current, bh, key, rbh, major>>
  BY DEF end_request, Complete, opVars, getVars, reqVars
<1>2. IoTypeOK /\ BufferTypeOK /\ TaskTypeOK
  BY TypeParts
<1>3. queue[m] \in Seq(Slot) /\ Len(queue[m]) \in Nat /\ 1 \in 1..Len(queue[m])
      /\ r = queue[m][1]
  BY <1>1, <1>2 DEF IoTypeOK
<1>4. /\ r \in Slot /\ request[r].used /\ b \in Buffer
      /\ k = b_blk[b] /\ k \in Block /\ MAJOR(request[r].dev) = m
  <2> HIDE DEF r
  <2> QED  BY <1>3, QueuedRequest
<1>5. request[r] \in RequestRecord
  BY <1>2, <1>4 DEF IoTypeOK
<1>6. request[r].data \in Nat
  BY <1>5 DEF RequestRecord
<1>7. NoRequest \in RequestRecord /\ ~NoRequest.used
  <2>1. 1 \in Buffer
    BY BufferAssumption DEF Buffer
  <2> QED  BY <2>1 DEF NoRequest, RequestRecord
<1> HIDE DEF r, b, k
<1>8. /\ request' \in [Slot -> RequestRecord]
      /\ ~request'[r].used
      /\ \A s \in Slot : s # r => request'[s] = request[s]
  BY <1>1, <1>2, <1>4, <1>7 DEF IoTypeOK
<1>9. disk' \in [Block -> Nat] /\ b_data' \in [Buffer -> Nat]
  BY <1>1, <1>2, <1>4, <1>6 DEF IoTypeOK, BufferTypeOK
<1>10. /\ b_uptodate' \in [Buffer -> BOOLEAN]
       /\ b_lock' \in [Buffer -> BOOLEAN]
       /\ ~b_lock'[b] /\ \A c \in Buffer : c # b => b_lock'[c] = b_lock[c]
  BY <1>1, <1>2, <1>4 DEF BufferTypeOK
<1>11. /\ queue' \in [Major -> Seq(Slot)]
       /\ \A l \in Major : l # m => queue'[l] = queue[l]
       /\ Len(queue'[m]) = Len(queue[m]) - 1
       /\ \A n \in 1..Len(queue'[m]) : queue'[m][n] = queue[m][n+1]
                                       /\ n + 1 \in 1..Len(queue[m])
  <2>1. /\ Tail(queue[m]) \in Seq(Slot)
        /\ Len(Tail(queue[m])) = Len(queue[m]) - 1
        /\ \A n \in 1..(Len(queue[m]) - 1) : Tail(queue[m])[n] = queue[m][n+1]
                                             /\ n + 1 \in 1..Len(queue[m])
    BY <1>1, <1>3
  <2>2. /\ queue'[m] = Tail(queue[m])
        /\ \A l \in Major : l # m => queue'[l] = queue[l]
        /\ queue' \in [Major -> Seq(Slot)]
    BY <2>1, <1>1, <1>2 DEF IoTypeOK
  <2> QED  BY <2>1, <2>2
<1>12. ASSUME NEW l \in Major, NEW n \in 1..Len(queue'[l])
       PROVE  \E i \in 1..Len(queue[l]) :
                 queue'[l][n] = queue[l][i] /\ queue[l][i] # r
  <2>1. CASE l = m
    <3>1. n + 1 \in 1..Len(queue[m]) /\ queue'[l][n] = queue[m][n+1] /\ n \in Nat
      BY <2>1, <1>11, <1>12
    <3>2. queue[m][n+1] # queue[m][1]
      BY <3>1, <1>3, <1>12 DEF LockInv, ListsAreInjective
    <3> QED  BY <2>1, <3>1, <3>2, <1>3
  <2>2. CASE l # m
    <3>1. queue'[l] = queue[l] /\ n \in 1..Len(queue[l])
      BY <2>2, <1>11, <1>12
    <3>2. MAJOR(request[queue[l][n]].dev) = l
      BY <3>1, QueuedRequest
    <3> QED  BY <2>2, <3>1, <3>2, <1>4
  <2> QED  BY <2>1, <2>2
<1>13. QueuedIsReal' /\ RequestFitsBuffer'
  <2>1. b_blk' = b_blk
    BY <1>1
  <2>2. ASSUME NEW l \in Major, NEW n \in 1..Len(queue'[l])
        PROVE  LET x == request'[queue'[l][n]] IN
               /\ b_blk[x.bh] \in Block
               /\ x.used
               /\ <<x.dev, x.sector \div 2>> = b_blk[x.bh]
               /\ MAJOR(x.dev) = l
    <3>1. PICK i \in 1..Len(queue[l]) :
             queue'[l][n] = queue[l][i] /\ queue[l][i] # r
      BY <1>12
    <3>2. queue[l][i] \in Slot
      BY QueuedRequest
    <3>3. request'[queue'[l][n]] = request[queue[l][i]]
      BY <3>1, <3>2, <1>8
    <3> QED
      BY <3>3, QueuedRequest
  <2>3. QueuedIsReal'
    BY <2>1, <2>2 DEF QueuedIsReal
  <2>4. RequestFitsBuffer'
    BY <2>1, <2>2 DEF RequestFitsBuffer
  <2> QED  BY <2>3, <2>4
<1>14. ListsAreInjective'
  <2> SUFFICES ASSUME NEW l \in Major, NEW i \in 1..Len(queue'[l]),
                      NEW j \in 1..Len(queue'[l]), queue'[l][i] = queue'[l][j]
               PROVE  i = j
    BY DEF ListsAreInjective
  <2>1. CASE l = m
    <3>1. /\ i + 1 \in 1..Len(queue[m]) /\ j + 1 \in 1..Len(queue[m])
          /\ queue[m][i+1] = queue[m][j+1]
      BY <2>1, <1>11
    <3>2. i + 1 = j + 1
      BY <3>1 DEF LockInv, ListsAreInjective
    <3> QED  BY <3>2
  <2>2. CASE l # m
    BY <2>2, <1>11 DEF LockInv, ListsAreInjective
  <2> QED  BY <2>1, <2>2
<1>15. UniqueBlock' /\ RealBlocks'
  BY <1>1 DEF LockInv, UniqueBlock, RealBlocks
<1>16. NoSleepBetween'
  <2>1. \A t \in Task : bh[t] \in Buffer /\ rbh[t] \in Buffer
    BY <1>2 DEF TaskTypeOK
  <2>2. \A c \in Buffer : ~b_lock[c] => ~b_lock'[c]
    BY <1>10
  <2> QED
    BY <2>1, <2>2, <1>1 DEF LockInv, NoSleepBetween
<1>17. r \in Requests(b) /\ Requests(b) = {r} /\ Lockers(b) = {}
  <2>1. r \in Requests(b)
    BY <1>4 DEF Requests, b
  <2> QED  BY <2>1, <1>4 DEF LockInv, LockHasOneOwner
<1>18. \A c \in Buffer : Lockers(c)' = Lockers(c) /\ Requests(c)' = Requests(c) \ {r}
  <2> TAKE c \in Buffer
  <2>1. Lockers(c)' = Lockers(c)
    BY <1>1 DEF Lockers
  <2>2. Requests(c)' = Requests(c) \ {r}
    BY <1>8 DEF Requests
  <2> QED  BY <2>1, <2>2
<1>19. \A c \in Buffer : c # b => r \notin Requests(c)
  BY DEF Requests, b
<1>20. LockHasOneOwner'
  <2> SUFFICES ASSUME NEW c \in Buffer
               PROVE  /\ b_lock'[c] <=> Lockers(c)' # {} \/ Requests(c)' # {}
                      /\ Lockers(c)' = {} \/ Requests(c)' = {}
                      /\ \A t, u \in Lockers(c)' : t = u
                      /\ \A x, y \in Requests(c)' : x = y
    BY DEF LockHasOneOwner
  <2>1. CASE c = b
    BY <2>1, <1>10, <1>17, <1>18
  <2>2. CASE c # b
    <3>1. Lockers(c)' = Lockers(c) /\ Requests(c)' = Requests(c)
      BY <2>2, <1>18, <1>19
    <3> QED  BY <2>2, <3>1, <1>10 DEF LockInv, LockHasOneOwner
  <2> QED  BY <2>1, <2>2
<1> QED
  BY <1>8, <1>9, <1>10, <1>11, <1>13, <1>14, <1>15, <1>16, <1>20 DEF LockInv

-----------------------------------------------------------------------------
(***************************************************************************)
(* The rest of the types, and the theorem.                                 *)
(***************************************************************************)
TaskAction(t) ==
    Step(t) \/ Call(t) \/ Preempt(t) \/ PageFault(t) \/ SwitchTo(t)

(* What a step of a task does to the sleep queues.                         *)
SleepStep(t) ==
    \/ UNCHANGED sleepVars
    \/ current = t /\ \E q \in Queue : sleep_on(t, q)
    \/ \E Q : wake_up(Q) /\ UNCHANGED current
    \/ yield(t)
    \/ switch_to(t)

(* The statements of the sleep on wait_for_request.                        *)
SlotStep(t) == SlotReads(t) \/ SlotHeads(t) \/ SlotSleep(t)

LEMMA SleepSteps ==
    ASSUME TypeOK, NEW t \in Task, TaskAction(t)
    PROVE  SleepStep(t) \/ SlotStep(t)
<1>1. TaskTypeOK
  BY TypeParts
<1>2. /\ \A b \in Buffer : b_wait(b) \in Queue
      /\ buffer_wait \in Queue
      /\ wait_for_request \in Queue
  BY BufferAssumption
<1>3. CASE UNCHANGED sleepVars
  BY <1>3 DEF SleepStep
<1>4. CASE wait_on_buffer(t)
  <2>1. LoopBuffer(t) \in Buffer
    BY LoopBufferType
  <2>2. WaitsFor(t) \subseteq Buffer
    BY <2>1, <1>1 DEF WaitsFor, TaskTypeOK
  <2>3. PICK b \in Buffer : sleep_on(t, b_wait(b))
    BY <2>2, <1>4 DEF wait_on_buffer
  <2> QED  BY <2>3, <1>2, <1>4 DEF SleepStep, wait_on_buffer
<1>5. CASE ScanNone(t)
  BY <1>5, <1>2 DEF ScanNone, At, SleepStep
<1>6. CASE SlotReads(t) \/ SlotHeads(t) \/ SlotSleep(t)
  BY <1>6 DEF SlotStep
<1>7. CASE LockBuffer(t)
  <2>1. \/ UNCHANGED sleepVars
        \/ wake_up({b_wait(rbh[t])}) /\ UNCHANGED current
    BY <1>7 DEF LockBuffer, sleepVars
  <2> QED  BY <2>1, Zenon DEF SleepStep
<1>8. CASE PageDone(t) \/ Release(t)
  <2>1. wake_up({buffer_wait}) /\ UNCHANGED current
    BY <1>8 DEF PageDone, Release, brelse
  <2> QED  BY <2>1, Zenon DEF SleepStep
<1>9. CASE Preempt(t) \/ PageFault(t)
  BY <1>9 DEF Preempt, PageFault, SleepStep
<1>10. CASE SwitchTo(t)
  BY <1>10 DEF SwitchTo, SleepStep
<1>11. CASE Call(t)
  BY <1>11, <1>3 DEF Call, EnterBlock, sys_sync, check_disk_change, Enter
<1>12. CASE \/ FindHit(t) \/ FindMiss(t) \/ Found(t)
            \/ ScanPick(t) \/ ClaimAgain(t) \/ ClaimDirty(t) \/ ClaimTake(t)
            \/ SlotFound(t) \/ SlotNone(t)
            \/ GotBlock(t) \/ GotAhead(t) \/ NextBlock(t) \/ NoMoreBlocks(t)
  BY <1>12, <1>3 DEF FindHit, FindMiss, Found, ScanPick, ClaimAgain,
       ClaimDirty, ClaimTake, Take, SlotFound, SlotNone, GotBlock, GotAhead,
       NextBlock, NoMoreBlocks
<1>13. CASE \/ ReadDone(t) \/ UseRead(t) \/ BlockWriteCopy(t)
            \/ FileWriteCopy(t) \/ MarkDirty(t)
            \/ LoopDone(t) \/ LoopSkip(t) \/ SyncWrite(t)
            \/ invalidate_buffers(t)
  BY <1>13, <1>3 DEF ReadDone, UseRead, BlockWriteCopy, FileWriteCopy,
       MarkDirty, LoopDone, LoopSkip, SyncWrite, invalidate_buffers
<1> QED
  BY <1>4, <1>5, <1>6, <1>7, <1>8, <1>9, <1>10, <1>11, <1>12, <1>13
     DEF TaskAction, Step

LEMMA SleepTypeStep ==
    ASSUME TypeOK, NEW t \in Task, TaskAction(t)
    PROVE  SleepTypeOK'
<1>1. SleepTypeOK
  BY TypeParts
<1>2. SleepStep(t) \/ SlotStep(t)
  BY SleepSteps
<1>3. CASE UNCHANGED sleepVars
  BY <1>1, <1>3 DEF SleepTypeOK, sleepVars
<1>4. CASE SlotStep(t)
  <2>1. CASE SlotReads(t)
    BY <1>1, <2>1, BufferAssumption DEF SlotReads, SleepReads, SleepTypeOK
  <2>2. CASE SlotHeads(t)
    BY <1>1, <2>2, BufferAssumption DEF SlotHeads, SleepHeads, SleepTypeOK
  <2>3. CASE SlotSleep(t)
    BY <1>1, <2>3 DEF SlotSleep, SleepStops, SleepTypeOK, TaskState
  <2> QED  BY <1>4, <2>1, <2>2, <2>3 DEF SlotStep
<1> QED
  BY <1>1, <1>2, <1>3, <1>4, SleepOnType, WakeUpType, YieldType, SwitchToType
     DEF SleepStep

LEMMA CopyType ==
    ASSUME BufferTypeOK, RealBlocks, NEW t \in Task, NEW b \in held[t],
           b \in Buffer, Copy(b)
    PROVE  latest' \in [Block -> Nat] /\ b_data' \in [Buffer -> Nat]
<1>1. b_blk[b] \in Block
  BY DEF RealBlocks
<1> QED
  BY <1>1 DEF BufferTypeOK, Copy

LEMMA BufferTypeStep ==
    ASSUME TypeOK, LockInv, NEW t \in Task, TaskAction(t)
    PROVE  BufferTypeOK'
<1>1. BufferTypeOK /\ TaskTypeOK /\ RealBlocks
  BY TypeParts DEF LockInv
<1> USE DEF BufferTypeOK, bufVars, opVars
<1>2. CASE UNCHANGED <<bufVars, latest>>
  BY <1>1, <1>2
<1>3. CASE FindHit(t)
  BY <1>1, <1>3 DEF FindHit, Cached
<1>4. CASE Found(t)
  BY <1>1, <1>4 DEF Found, TaskTypeOK
<1>5. CASE ClaimTake(t)
  <2>1. bh[t] \in Buffer /\ key[t] \in Block
    BY <1>1 DEF TaskTypeOK
  <2>2. free_list' \in [Buffer -> Buffer]
    <3>1. \A i \in Buffer : i < NR_BUFFERS => i + 1 \in Buffer
      BY BufferAssumption DEF Buffer
    <3> QED  BY <1>1, <1>5, <2>1, <3>1 DEF ClaimTake, Take, NotValid, ToEnd
  <2> QED  BY <1>1, <1>5, <2>1, <2>2 DEF ClaimTake, Take, NotValid
<1>6. CASE LockBuffer(t)
  BY <1>1, <1>6 DEF LockBuffer, TaskTypeOK
<1>7. CASE SlotFound(t)
  BY <1>1, <1>7 DEF SlotFound, FillRequest, TaskTypeOK
<1>8. CASE GotAhead(t)
  <2>1. bh[t] \in Buffer /\ held[t] \subseteq Buffer
    BY <1>1 DEF TaskTypeOK
  <2>2. b_dirt' \in [Buffer -> BOOLEAN] /\ b_lock' \in [Buffer -> BOOLEAN]
    <3>1. PICK c \in held[t] : \/ ReadAhead(t, c)
                               \/ UNCHANGED <<request, queue, b_dirt, b_lock>>
      BY <1>8 DEF GotAhead
    <3>2. \/ b_dirt' = [b_dirt EXCEPT ![c] = FALSE]
             /\ b_lock' = [b_lock EXCEPT ![c] = TRUE]
          \/ UNCHANGED <<b_dirt, b_lock>>
      BY <3>1 DEF ReadAhead, FillRequest
    <3> QED  BY <1>1, <2>1, <3>2
  <2>3. /\ b_count' = [b_count EXCEPT ![bh[t]] = @ - 1]
        /\ UNCHANGED <<b_blk, b_uptodate, b_data, free_list, latest>>
    BY <1>8 DEF GotAhead
  <2> QED  BY <1>1, <2>1, <2>2, <2>3
<1>9. CASE PageDone(t) \/ Release(t)
  <2>1. PICK b \in Buffer : /\ b_count' = [b_count EXCEPT ![b] = @ - 1]
                            /\ UNCHANGED <<b_blk, b_lock, b_dirt, b_uptodate,
                                           b_data, free_list, latest>>
    BY <1>1, <1>9 DEF PageDone, Release, brelse, TaskTypeOK
  <2> QED  BY <1>1, <2>1
<1>10. CASE BlockWriteCopy(t) \/ FileWriteCopy(t)
  <2>1. PICK b \in held[t] : Copy(b)
    BY <1>10 DEF BlockWriteCopy, FileWriteCopy
  <2>2. latest' \in [Block -> Nat] /\ b_data' \in [Buffer -> Nat]
    BY <1>1, <2>1, CopyType DEF TaskTypeOK
  <2> QED  BY <1>1, <1>10, <2>2 DEF BlockWriteCopy, FileWriteCopy
<1>11. CASE MarkDirty(t)
  BY <1>1, <1>11 DEF MarkDirty, TaskTypeOK
<1>12. CASE invalidate_buffers(t)
  BY <1>1, <1>12 DEF invalidate_buffers
<1>13. CASE \/ wait_on_buffer(t) \/ FindMiss(t) \/ ScanNone(t) \/ ScanPick(t)
            \/ ClaimAgain(t) \/ ClaimDirty(t) \/ SlotNone(t) \/ SlotReads(t) \/ SlotHeads(t) \/ SlotSleep(t)
            \/ GotBlock(t) \/ NextBlock(t) \/ NoMoreBlocks(t) \/ ReadDone(t)
            \/ UseRead(t) \/ LoopDone(t) \/ LoopSkip(t) \/ SyncWrite(t)
            \/ Preempt(t) \/ PageFault(t) \/ SwitchTo(t)
  BY <1>13, <1>2 DEF wait_on_buffer, FindMiss, ScanNone, ScanPick, ClaimAgain,
       ClaimDirty, SlotNone, SlotReads, SlotHeads, SlotSleep, GotBlock, NextBlock, NoMoreBlocks,
       ReadDone, UseRead, LoopDone, LoopSkip, SyncWrite, Preempt, PageFault,
       SwitchTo
<1>14. CASE Call(t)
  BY <1>14, <1>2 DEF Call, EnterBlock, sys_sync, check_disk_change, Enter
<1> QED
  BY <1>3, <1>4, <1>5, <1>6, <1>7, <1>8, <1>9, <1>10, <1>11, <1>12, <1>13,
     <1>14 DEF TaskAction, Step

LEMMA IoTypeStep ==
    ASSUME TypeOK, LockInv, NEW t \in Task, TaskAction(t)
    PROVE  IoTypeOK'
<1>1. IoTypeOK
  BY TypeParts
<1>2. CASE UNCHANGED ioVars
  BY <1>1, <1>2 DEF IoTypeOK, ioVars
<1>3. CASE SlotFound(t)
  BY <1>1, <1>3, SlotFoundInv DEF SlotFound, IoTypeOK
<1>4. CASE GotAhead(t)
  BY <1>1, <1>4, GotAheadInv DEF GotAhead, IoTypeOK
<1>5. CASE \/ wait_on_buffer(t) \/ FindHit(t) \/ FindMiss(t) \/ Found(t)
           \/ ScanNone(t) \/ ScanPick(t) \/ ClaimAgain(t) \/ ClaimDirty(t)
           \/ ClaimTake(t) \/ LockBuffer(t) \/ SlotNone(t)
           \/ SlotReads(t) \/ SlotHeads(t) \/ SlotSleep(t)
           \/ GotBlock(t) \/ NextBlock(t) \/ NoMoreBlocks(t)
  BY <1>5, <1>2 DEF wait_on_buffer, FindHit, FindMiss, Found, ScanNone,
       ScanPick, ClaimAgain, ClaimDirty, ClaimTake, Take, LockBuffer, SlotNone,
       SlotReads, SlotHeads, SlotSleep, GotBlock, NextBlock, NoMoreBlocks
<1>6. CASE \/ PageDone(t) \/ Release(t) \/ ReadDone(t) \/ UseRead(t)
           \/ BlockWriteCopy(t) \/ FileWriteCopy(t) \/ MarkDirty(t)
           \/ LoopDone(t) \/ LoopSkip(t) \/ SyncWrite(t)
           \/ invalidate_buffers(t)
           \/ Preempt(t) \/ PageFault(t) \/ SwitchTo(t)
  BY <1>6, <1>2 DEF PageDone, Release, brelse, ReadDone, UseRead,
       BlockWriteCopy, FileWriteCopy, MarkDirty, LoopDone, LoopSkip, SyncWrite,
       invalidate_buffers, Preempt, PageFault, SwitchTo
<1>7. CASE Call(t)
  BY <1>7, <1>2 DEF Call, EnterBlock, sys_sync, check_disk_change, Enter
<1> QED
  BY <1>3, <1>4, <1>5, <1>6, <1>7 DEF TaskAction, Step

LEMMA TaskStepInv ==
    ASSUME TypeOK, LockInv, NEW t \in Task, TaskAction(t)
    PROVE  TypeOK' /\ LockInv'
<1>1. TypeOK'
  <2>1. SleepTypeOK' /\ BufferTypeOK' /\ IoTypeOK' /\ TaskTypeOK'
    BY SleepTypeStep, BufferTypeStep, IoTypeStep, TaskTypeStep DEF TaskAction
  <2> QED  BY <2>1 DEF TypeOK, BufferTypeOK, IoTypeOK, TaskTypeOK, RequestRecord
<1>2. LockInv'
  BY LockBufferInv, SlotFoundInv, GotAheadInv, ClaimTakeInv, SwitchToInv,
     QuietSteps, QuietStepInv DEF TaskAction, Step
<1> QED  BY <1>1, <1>2

LEMMA DeviceStepInv ==
    ASSUME TypeOK, LockInv, NEW m \in Major, Device(m)
    PROVE  TypeOK' /\ LockInv'
<1>1. SleepTypeOK /\ BufferTypeOK /\ IoTypeOK /\ TaskTypeOK
  BY TypeParts
<1> USE DEF opVars, getVars, syncVars, reqVars, bufVars, sleepVars
<1>2. CASE SendData(m)
  <2>1. LockInv' /\ request' \in [Slot -> RequestRecord]
    BY <1>2, SendDataInv
  <2>2. SleepTypeOK' /\ BufferTypeOK' /\ TaskTypeOK'
    BY <1>1, <1>2 DEF SendData, SleepTypeOK, BufferTypeOK, TaskTypeOK
  <2>3. IoTypeOK'
    BY <1>1, <1>2, <2>1 DEF SendData, IoTypeOK
  <2> QED  BY <2>1, <2>2, <2>3 DEF TypeOK, BufferTypeOK, IoTypeOK, TaskTypeOK,
                RequestRecord
<1>3. ASSUME NEW ok \in BOOLEAN, end_request(m, ok), errors' \in Nat
      PROVE  TypeOK' /\ LockInv'
  <2>1. /\ LockInv'
        /\ request' \in [Slot -> RequestRecord]
        /\ queue' \in [Major -> Seq(Slot)]
        /\ disk' \in [Block -> Nat]
        /\ b_data' \in [Buffer -> Nat]
        /\ b_uptodate' \in [Buffer -> BOOLEAN]
        /\ b_lock' \in [Buffer -> BOOLEAN]
    BY <1>3, EndRequestInv
  <2>2. SleepTypeOK'
    <3>1. \E Q : wake_up(Q) /\ UNCHANGED current
      BY <1>3 DEF end_request, Complete
    <3> QED  BY <3>1, <1>1, WakeUpType
  <2>3. BufferTypeOK' /\ TaskTypeOK'
    BY <1>1, <1>3, <2>1 DEF end_request, Complete, BufferTypeOK, TaskTypeOK
  <2>4. IoTypeOK'
    BY <1>1, <1>3, <2>1 DEF IoTypeOK, end_request, Complete, Missed
  <2> QED  BY <2>1, <2>2, <2>3, <2>4 DEF TypeOK, BufferTypeOK, IoTypeOK,
                TaskTypeOK, RequestRecord
<1>4. CASE RequestOk(m)
  <2>1. errors' \in Nat
    BY <1>1, <1>4 DEF RequestOk, IoTypeOK
  <2> QED  BY <1>3, <1>4, <2>1 DEF RequestOk
<1>5. CASE RequestFails(m)
  <2>1. errors' \in Nat
    BY <1>1, <1>5 DEF RequestFails, IoTypeOK
  <2> QED  BY <1>3, <1>5, <2>1 DEF RequestFails
<1> QED
  BY <1>2, <1>4, <1>5 DEF Device

LEMMA InitInv == Init => TypeOK /\ LockInv
<1> SUFFICES ASSUME Init PROVE TypeOK /\ LockInv
  OBVIOUS
<1>1. 1 \in Buffer /\ Block # {} /\ MaxOps \in Nat /\ MaxErrors \in Nat
  BY BufferAssumption DEF Buffer
<1>2. \A m \in Major : queue[m] = <<>> /\ Len(queue[m]) = 0
  BY DEF Init
<1>3. SleepTypeOK
  BY DEF Init, SleepInit, SleepTypeOK, TaskState
<1>4. BufferTypeOK /\ TaskTypeOK
  BY <1>1 DEF Init, BufferTypeOK, TaskTypeOK, AllOps, Pc
<1>5. IoTypeOK
  BY <1>1 DEF Init, IoTypeOK, NoRequest, RequestRecord
<1>6. UniqueBlock /\ RealBlocks /\ NoSleepBetween
  BY DEF Init, UniqueBlock, RealBlocks, NoSleepBetween
<1>7. \A b \in Buffer : Lockers(b) = {} /\ Requests(b) = {}
  BY DEF Init, Lockers, Requests, NoRequest
<1>8. LockHasOneOwner
  BY <1>7 DEF Init, LockHasOneOwner
<1>9. ListsAreInjective /\ QueuedIsReal /\ RequestFitsBuffer
  BY <1>2 DEF ListsAreInjective, QueuedIsReal, RequestFitsBuffer
<1> QED
  BY <1>3, <1>4, <1>5, <1>6, <1>8, <1>9, TypeParts DEF LockInv

LEMMA StepInv == TypeOK /\ LockInv /\ [Next]_vars => TypeOK' /\ LockInv'
<1> SUFFICES ASSUME TypeOK, LockInv, [Next]_vars PROVE TypeOK' /\ LockInv'
  OBVIOUS
<1>1. CASE UNCHANGED vars
  <2>1. UNCHANGED <<sleepVars, bufVars, ioVars, pc, opVars, getVars, syncVars,
                    reqVars>>
    BY <1>1 DEF vars
  <2>2. TypeOK'
    BY <2>1 DEF TypeOK, SleepTypeOK, sleepVars, bufVars, ioVars, opVars,
         getVars, syncVars, reqVars
  <2>3. UniqueBlock' /\ RealBlocks' /\ NoSleepBetween'
    BY <2>1 DEF LockInv, UniqueBlock, RealBlocks, NoSleepBetween, sleepVars,
         bufVars, ioVars, opVars, getVars, syncVars, reqVars
  <2>4. LockHasOneOwner'
    BY <2>1 DEF LockInv, LockHasOneOwner, Lockers, Requests, bufVars, ioVars,
         reqVars
  <2>5. ListsAreInjective' /\ QueuedIsReal' /\ RequestFitsBuffer'
    BY <2>1 DEF LockInv, ListsAreInjective, QueuedIsReal, RequestFitsBuffer,
         bufVars, ioVars
  <2> QED
    BY <2>2, <2>3, <2>4, <2>5 DEF LockInv
<1>2. ASSUME NEW t \in Task, TaskAction(t) PROVE TypeOK' /\ LockInv'
  BY <1>2, TaskStepInv
<1>3. ASSUME NEW m \in Major, Device(m) PROVE TypeOK' /\ LockInv'
  BY <1>3, DeviceStepInv
<1> QED
  BY <1>1, <1>2, <1>3 DEF Next, TaskAction, Done

(* Every variable keeps its type.                                          *)
THEOREM TypeCorrect == Spec => []TypeOK
BY InitInv, StepInv, PTL DEF Spec

(* For any number of tasks, buffers and slots: a block is in one buffer, a *)
(* locked buffer has one owner, and a queued request is for the block of   *)
(* its buffer and in the list of its device, although getblk, lock_buffer  *)
(* and make_request sleep in between.                                      *)
THEOREM CacheIsCoherent ==
    Spec => [](UniqueBlock /\ LockHasOneOwner /\ RequestFitsBuffer)
<1>1. LockInv => UniqueBlock /\ LockHasOneOwner /\ RequestFitsBuffer
  BY DEF LockInv
<1> QED
  BY <1>1, InitInv, StepInv, PTL DEF Spec

(* A lock is held by one task in make_request or by one request, and       *)
(* unlock_buffer in end_request frees it for nobody else (blk.h:103).      *)
THEOREM LocksHaveOneOwner == Spec => []LockHasOneOwner
<1>1. LockInv => LockHasOneOwner
  BY DEF LockInv
<1> QED
  BY <1>1, InitInv, StepInv, PTL DEF Spec

-----------------------------------------------------------------------------
(***************************************************************************)
(* Sleepers.                                                               *)
(***************************************************************************)

(* The task that has the processor is awake, and remembers a sleeper only  *)
(* in the sleep on wait_for_request, where it is the only task between the *)
(* statements.  Then the head of the queue is the one it has read, or the  *)
(* queue has been woken since; and the task is the head until that is      *)
(* lost.                                                                   *)
Between == {"reads", "heads"}

RunnerIsAwake ==
    /\ \A t \in Task : pc[t] \in Between => current = t
    /\ current # NULL =>
          /\ state[current] = "RUNNING"
          /\ pc[current] \notin Between => tmp[current] = NULL
          /\ pc[current] = "reads" =>
                wait[wait_for_request] \in {NULL, tmp[current]}
          /\ pc[current] = "heads" =>
                "lost" \in missed \/ wait[wait_for_request] = current

SleepersInv == RunnerIsAwake /\ NoSleeperLost

(* Only the three statements lead into or through the sleep.               *)
LEMMA BetweenStep ==
    ASSUME TypeOK, RunnerIsAwake, NEW t \in Task, TaskAction(t), ~SlotStep(t)
    PROVE  /\ UNCHANGED missed
           /\ pc[t] \notin Between /\ pc'[t] \notin Between
           /\ \A u \in Task : u # t => pc'[u] = pc[u]
           /\ current \in {t, NULL}
<1>1. TaskTypeOK
  BY TypeParts
<1> USE <1>1 DEF TaskTypeOK, Between, Goto, At, ioVars
<1>2. CASE wait_on_buffer(t) \/ Preempt(t) \/ PageFault(t)
  <2>1. CASE wait_on_buffer(t)
    BY <2>1 DEF wait_on_buffer, WaitsFor
  <2>2. CASE Preempt(t) \/ PageFault(t)
    BY <2>2 DEF Preempt, PageFault, yield
  <2> QED  BY <1>2, <2>1, <2>2
<1>3. CASE SwitchTo(t)
  BY <1>3, NullIsNoTask DEF SwitchTo, switch_to, RunnerIsAwake
<1>4. CASE Call(t)
  BY <1>4 DEF Call, EnterBlock, sys_sync, check_disk_change, Enter
<1>5. CASE \/ FindHit(t) \/ FindMiss(t) \/ Found(t)
           \/ ScanNone(t) \/ ScanPick(t) \/ ClaimAgain(t) \/ ClaimDirty(t)
  BY <1>5 DEF FindHit, FindMiss, Found, ScanNone, ScanPick, ClaimAgain, ClaimDirty
<1>6. CASE ClaimTake(t) \/ LockBuffer(t) \/ SlotFound(t) \/ SlotNone(t)
  BY <1>6 DEF ClaimTake, Take, LockBuffer, SlotFound, SlotNone
<1>7. CASE GotBlock(t) \/ GotAhead(t) \/ NextBlock(t) \/ NoMoreBlocks(t)
  BY <1>7 DEF GotBlock, ll_rw_block, GotAhead, NextBlock, NoMoreBlocks
<1>8. CASE PageDone(t) \/ ReadDone(t) \/ Release(t)
  BY <1>8 DEF PageDone, ReadDone, Release, brelse
<1>9. CASE \/ UseRead(t) \/ BlockWriteCopy(t) \/ FileWriteCopy(t)
           \/ MarkDirty(t)
  BY <1>9 DEF UseRead, BlockWriteCopy, FileWriteCopy, MarkDirty
<1>10. CASE LoopDone(t) \/ LoopSkip(t) \/ SyncWrite(t) \/ invalidate_buffers(t)
  BY <1>10 DEF LoopDone, LoopSkip, SyncWrite, ll_rw_block, invalidate_buffers
<1> QED
  BY <1>2, <1>3, <1>4, <1>5, <1>6, <1>7, <1>8, <1>9, <1>10
     DEF TaskAction, Step, SlotStep

LEMMA SleepersStep ==
    ASSUME TypeOK, SleepersInv, NEW t \in Task, SleepStep(t),
           UNCHANGED missed,
           pc[t] \notin Between, pc'[t] \notin Between,
           \A u \in Task : u # t => pc'[u] = pc[u],
           current \in {t, NULL}
    PROVE  SleepersInv'
<1> USE NullIsNoTask, BufferAssumption
<1> USE DEF SleepersInv, RunnerIsAwake, NoSleeperLost
<1>1. SleepTypeOK
  BY TypeParts
<1> USE DEF SleepTypeOK, TaskState
<1>b. \A u \in Task : pc'[u] \notin Between
  OBVIOUS
<1>c. \A u \in Task : pc'[u] # "reads" /\ pc'[u] # "heads"
  BY <1>b DEF Between
<1>2. ASSUME UNCHANGED sleepVars PROVE SleepersInv'
  <2>1. UNCHANGED current /\ UNCHANGED state /\ UNCHANGED wait /\ UNCHANGED tmp
    BY <1>2 DEF sleepVars
  <2>2. RunnerIsAwake'
    BY <1>1, <1>b, <1>c, <2>1
  <2> QED  BY <2>1, <2>2
<1>3. ASSUME current = t, NEW q \in Queue, sleep_on(t, q)
      PROVE  SleepersInv'
  BY <1>1, <1>3 DEF sleep_on, SleepReads, SleepHeads, SleepStops
<1>4. ASSUME NEW Q, wake_up(Q), UNCHANGED current
      PROVE  SleepersInv'
  <2>1. /\ UNCHANGED tmp
        /\ \A q \in Queue : \/ wait'[q] = wait[q]
                           \/ wait[q] = NULL
                           \/ state'[wait[q]] = "RUNNING"
        /\ \A u \in Task : state'[u] \in {state[u], "RUNNING"}
    BY <1>1, <1>4 DEF wake_up, Running
  <2>2. current # NULL => pc[current] \notin Between
    BY <1>1
  <2>3. RunnerIsAwake'
    BY <1>1, <1>b, <1>c, <1>4, <2>1, <2>2
  <2>4. NoSleeperLost'
    BY <1>1, <1>4, <2>1
  <2> QED  BY <2>3, <2>4
<1>5. CASE yield(t)
  BY <1>1, <1>5 DEF yield
<1>6. CASE switch_to(t)
  <2>1. /\ current = NULL /\ current' = t /\ state[t] = "RUNNING"
        /\ UNCHANGED wait
        /\ tmp' = [tmp EXCEPT ![t] = NULL]
        /\ tmp[t] # NULL => state'[tmp[t]] = "RUNNING"
        /\ \A u \in Task : state'[u] \in {state[u], "RUNNING"}
    BY <1>1, <1>6 DEF switch_to, Running
  <2>2. RunnerIsAwake'
    BY <1>1, <1>b, <1>c, <2>1
  <2>3. NoSleeperLost'
    BY <1>1, <2>1
  <2> QED  BY <2>2, <2>3
<1> QED
  BY <1>2, <1>3, <1>4, <1>5, <1>6 DEF SleepStep

(* The three statements themselves.                                        *)
LEMMA SlotStepSleepers ==
    ASSUME TypeOK, SleepersInv, NEW t \in Task, SlotStep(t)
    PROVE  SleepersInv'
<1> USE NullIsNoTask, BufferAssumption
<1> USE DEF SleepersInv, RunnerIsAwake, NoSleeperLost, Between, At, Goto, ioVars
<1>1. SleepTypeOK /\ pc \in [Task -> Pc]
  BY TypeParts DEF TaskTypeOK
<1> USE DEF SleepTypeOK, TaskState
<1>2. CASE SlotReads(t)
  BY <1>1, <1>2 DEF SlotReads, SleepReads
<1>3. CASE SlotHeads(t)
  BY <1>1, <1>3 DEF SlotHeads, SleepHeads
<1>4. CASE SlotSleep(t)
  BY <1>1, <1>4 DEF SlotSleep, SleepStops
<1> QED
  BY <1>2, <1>3, <1>4 DEF SlotStep

(* The end of a request wakes wait_for_request wherever the running task   *)
(* is.                                                                     *)
LEMMA EndRequestSleepers ==
    ASSUME TypeOK, SleepersInv, NEW m \in Major, NEW ok, end_request(m, ok)
    PROVE  SleepersInv'
<1> USE NullIsNoTask, BufferAssumption
<1>1. SleepTypeOK
  BY TypeParts
<1>2. /\ UNCHANGED <<current, pc, tmp>>
      /\ missed' = missed \cup Missed(Head(queue[m]))
      /\ wait'[wait_for_request] = NULL
      /\ \A q \in Queue : \/ wait'[q] = wait[q]
                           \/ wait[q] = NULL
                           \/ state'[wait[q]] = "RUNNING"
      /\ \A u \in Task : state'[u] \in {state[u], "RUNNING"}
  <2>1. UNCHANGED <<current, pc>> /\ missed' = missed \cup Missed(Head(queue[m]))
    BY DEF end_request, Complete
  <2>2. PICK b : wake_up({b_wait(b), wait_for_request})
    BY DEF end_request
  <2>3. UNCHANGED tmp /\ wait'[wait_for_request] = NULL
    BY <2>2 DEF wake_up
  <2>4. \A q \in Queue : \/ wait'[q] = wait[q]
                           \/ wait[q] = NULL
                           \/ state'[wait[q]] = "RUNNING"
    BY <1>1, <2>2 DEF wake_up, Running, SleepTypeOK
  <2>5. \A u \in Task : state'[u] \in {state[u], "RUNNING"}
    BY <2>2 DEF wake_up, Running
  <2> QED  BY <2>1, <2>3, <2>4, <2>5
<1>3. current # NULL /\ pc[current] = "heads" => "lost" \in missed'
  BY <1>2 DEF Missed
<1>4. RunnerIsAwake'
  BY <1>1, <1>2, <1>3 DEF SleepersInv, RunnerIsAwake, SleepTypeOK, Between
<1>5. NoSleeperLost'
  BY <1>1, <1>2 DEF SleepersInv, NoSleeperLost, SleepTypeOK
<1> QED
  BY <1>4, <1>5 DEF SleepersInv

(* Unless a request ends between the last two statements of the sleep on   *)
(* wait_for_request (sched.cc:162-163), every task that sleeps in the      *)
(* block layer can be reached by a wake_up: it is the head of a queue or a *)
(* task still to be resumed remembers it, whatever queues the interrupts   *)
(* empty in between.                                                       *)
THEOREM NoSleeperIsLost == Spec => []NoSleeperLost
<1>1. Init => SleepersInv
  BY DEF Init, SleepInit, SleepersInv, RunnerIsAwake, NoSleeperLost, Between
<1>2. TypeOK /\ SleepersInv /\ [Next]_vars => SleepersInv'
  <2> SUFFICES ASSUME TypeOK, SleepersInv, [Next]_vars PROVE SleepersInv'
    OBVIOUS
  <2>1. ASSUME NEW t \in Task, TaskAction(t) PROVE SleepersInv'
    BY <2>1, SleepSteps, SleepersStep, BetweenStep, SlotStepSleepers
       DEF SleepersInv
  <2>2. ASSUME UNCHANGED <<sleepVars, pc, missed>> PROVE SleepersInv'
    BY <2>2 DEF sleepVars, SleepersInv, RunnerIsAwake, NoSleeperLost
  <2>3. ASSUME NEW m \in Major, Device(m) PROVE SleepersInv'
    <3>1. SendData(m) => UNCHANGED <<sleepVars, pc, missed>>
      BY DEF SendData
    <3> QED  BY <2>2, <2>3, <3>1, EndRequestSleepers
                DEF Device, RequestOk, RequestFails
  <2> QED
    BY <2>1, <2>2, <2>3 DEF Next, TaskAction, Done, vars, ioVars
<1>3. SleepersInv => NoSleeperLost
  BY DEF SleepersInv
<1> QED
  BY <1>1, <1>2, <1>3, InitInv, StepInv, PTL DEF Spec

-----------------------------------------------------------------------------
(***************************************************************************)
(* Use counts.                                                             *)
(***************************************************************************)

(* Where a task is inside getblk, outside the functions that use buffers,  *)
(* and the operations that read more than one block.                       *)
IsAt(t, l, r) == pc[t] \in l \/ (pc[t] \in {"lock"} \cup InMakeRequest /\ ret[t] = r)
InGetblk(t) ==
    IsAt(t, {"find", "found", "scan", "claim", "got", "syncdev"}, "syncdev")
Outside(t) == IsAt(t, {"user", "sync", "inval"}, "sync")
Many == {"bread_page", "block_read", "block_write"}

(* The blocks a task holds, looks for and has still to get are different:  *)
(* so a buffer that getblk returns is not one the task holds already, and  *)
(* the use that was counted for it is a new one.                           *)
TaskUse(t) ==
    /\ Outside(t) => held[t] = {} /\ todo[t] = {}
    /\ pc[t] \in {"finish", "use", "use2", "brelse"} => todo[t] = {}
    /\ pc[t] \in {"use", "use2", "brelse"} => op[t] # "bread_page"
    /\ op[t] \notin Many => todo[t] = {}
    /\ op[t] # "bread_page" => \A b, c \in held[t] : b = c
    /\ InGetblk(t) /\ op[t] \notin Many => held[t] = {}
    /\ InGetblk(t) => /\ key[t] \notin todo[t]
                      /\ \A b \in held[t] : b_blk[b] # key[t]
    /\ \A b \in held[t] : b_blk[b] \notin todo[t]

UseInv ==
    /\ CountIsUsers
    /\ \A t \in Task : TaskUse(t)

(* The sets that CountIsUsers counts, and what adding or dropping a user   *)
(* does to the count.                                                      *)
LEMMA UserSetsFinite ==
    ASSUME NEW b
    PROVE  /\ IsFiniteSet(Users(b)) /\ Cardinality(Users(b)) \in Nat
           /\ IsFiniteSet(Getters(b)) /\ Cardinality(Getters(b)) \in Nat
<1>1. Users(b) \in SUBSET Task /\ Getters(b) \in SUBSET Task
  BY DEF Users, Getters
<1>2. IsFiniteSet(Users(b)) /\ IsFiniteSet(Getters(b))
  BY <1>1, TasksFinite, FS_Subset
<1> QED
  BY <1>2, FS_CardinalityType

LEMMA CountChanged ==
    ASSUME BufferTypeOK, CountIsUsers, NEW t, NEW b \in Buffer,
           \A c \in Buffer : c # b => /\ Users(c)' = Users(c)
                                      /\ Getters(c)' = Getters(c)
                                      /\ b_count'[c] = b_count[c],
           \/ /\ Users(b)' = Users(b)
              /\ t \notin Getters(b) /\ Getters(b)' = Getters(b) \cup {t}
              /\ b_count'[b] = b_count[b] + 1
           \/ /\ Users(b)' = Users(b)
              /\ t \in Getters(b) /\ Getters(b)' = Getters(b) \ {t}
              /\ b_count'[b] = b_count[b] - 1
           \/ /\ t \notin Users(b) /\ Users(b)' = Users(b) \cup {t}
              /\ t \in Getters(b) /\ Getters(b)' = Getters(b) \ {t}
              /\ b_count'[b] = b_count[b]
           \/ /\ t \in Users(b) /\ Users(b)' = Users(b) \ {t}
              /\ Getters(b)' = Getters(b)
              /\ b_count'[b] = b_count[b] - 1
    PROVE  CountIsUsers'
<1> DEFINE U == Users(b)
           G == Getters(b)
<1>1. /\ IsFiniteSet(U) /\ Cardinality(U) \in Nat
      /\ IsFiniteSet(G) /\ Cardinality(G) \in Nat
  BY UserSetsFinite
<1>2. b_count[b] = Cardinality(U) + Cardinality(G)
  BY DEF CountIsUsers
<1>3. /\ t \notin U => Cardinality(U \cup {t}) = Cardinality(U) + 1
      /\ t \in U => Cardinality(U \ {t}) = Cardinality(U) - 1
      /\ t \notin G => Cardinality(G \cup {t}) = Cardinality(G) + 1
      /\ t \in G => Cardinality(G \ {t}) = Cardinality(G) - 1
  <2> HIDE DEF U, G
  <2> QED  BY <1>1, FS_AddElement, FS_RemoveElement
<1>4. b_count'[b] = Cardinality(Users(b)') + Cardinality(Getters(b)')
  <2> DEFINE n == Cardinality(U)
             k == Cardinality(G)
  <2>1. n \in Nat /\ k \in Nat /\ b_count[b] = n + k
    BY <1>1, <1>2
  <2>2. /\ t \notin U => Cardinality(U \cup {t}) = n + 1
        /\ t \in U => Cardinality(U \ {t}) = n - 1
        /\ t \notin G => Cardinality(G \cup {t}) = k + 1
        /\ t \in G => Cardinality(G \ {t}) = k - 1
    BY <1>3
  <2>3. \/ Cardinality(Users(b)') = n /\ Cardinality(Getters(b)') = k + 1
           /\ b_count'[b] = b_count[b] + 1
        \/ Cardinality(Users(b)') = n /\ Cardinality(Getters(b)') = k - 1
           /\ b_count'[b] = b_count[b] - 1
        \/ Cardinality(Users(b)') = n + 1 /\ Cardinality(Getters(b)') = k - 1
           /\ b_count'[b] = b_count[b]
        \/ Cardinality(Users(b)') = n - 1 /\ Cardinality(Getters(b)') = k
           /\ b_count'[b] = b_count[b] - 1
    BY <2>2, Zenon
  <2> HIDE DEF n, k
  <2> QED  BY <2>1, <2>3
<1>5. ASSUME NEW c \in Buffer
      PROVE  b_count'[c] = Cardinality(Users(c)') + Cardinality(Getters(c)')
  <2>1. CASE c = b
    BY <2>1, <1>4
  <2>2. CASE c # b
    BY <2>2 DEF CountIsUsers
  <2> QED  BY <2>1, <2>2
<1> QED
  BY <1>5 DEF CountIsUsers

LEMMA CountKept ==
    ASSUME CountIsUsers,
           \A c \in Buffer : /\ Users(c)' = Users(c)
                             /\ Getters(c)' = Getters(c)
                             /\ b_count'[c] = b_count[c]
    PROVE  CountIsUsers'
BY DEF CountIsUsers

(* A buffer in use is not free for getblk to take.                         *)
LEMMA HeldIsCounted ==
    ASSUME CountIsUsers, NEW b \in Buffer, b_count[b] = 0
    PROVE  Users(b) = {} /\ Getters(b) = {}
<1>1. b_count[b] = Cardinality(Users(b)) + Cardinality(Getters(b))
  BY DEF CountIsUsers
<1>2. Cardinality(Users(b)) = 0 /\ Cardinality(Getters(b)) = 0
  BY <1>1, UserSetsFinite
<1> QED
  BY <1>2, UserSetsFinite, FS_EmptySet

(* The steps of a task leave the variables of the others alone.            *)
OthersSame(t) ==
    \A u \in Task : u # t =>
        /\ pc'[u] = pc[u] /\ op'[u] = op[u] /\ todo'[u] = todo[u]
        /\ held'[u] = held[u] /\ key'[u] = key[u] /\ bh'[u] = bh[u]
        /\ ret'[u] = ret[u] /\ rbh'[u] = rbh[u]

LEMMA OthersAreSame ==
    ASSUME TypeOK, NEW t \in Task, TaskAction(t)
    PROVE  OthersSame(t)
<1>1. TaskTypeOK
  BY TypeParts
<1> USE <1>1 DEF TaskTypeOK, OthersSame, Goto, opVars, getVars, reqVars
<1>2. CASE wait_on_buffer(t) \/ FindHit(t) \/ FindMiss(t) \/ Found(t)
           \/ ScanNone(t) \/ ScanPick(t)
  BY <1>2 DEF wait_on_buffer, FindHit, FindMiss, Found, ScanNone, ScanPick
<1>3. CASE ClaimAgain(t) \/ ClaimDirty(t) \/ ClaimTake(t) \/ LockBuffer(t)
           \/ SlotFound(t) \/ SlotNone(t) \/ SlotReads(t) \/ SlotHeads(t) \/ SlotSleep(t)
  BY <1>3 DEF ClaimAgain, ClaimDirty, ClaimTake, Take, LockBuffer, SlotFound,
       SlotNone, SlotReads, SlotHeads, SlotSleep
<1>4. CASE GotBlock(t) \/ GotAhead(t) \/ NextBlock(t) \/ NoMoreBlocks(t)
  BY <1>4 DEF GotBlock, ll_rw_block, GotAhead, NextBlock, NoMoreBlocks
<1>5. CASE PageDone(t) \/ Release(t) \/ ReadDone(t) \/ UseRead(t)
           \/ BlockWriteCopy(t) \/ FileWriteCopy(t) \/ MarkDirty(t)
  BY <1>5 DEF PageDone, Release, brelse, ReadDone, UseRead, BlockWriteCopy,
       FileWriteCopy, MarkDirty
<1>6. CASE LoopDone(t) \/ LoopSkip(t) \/ SyncWrite(t) \/ invalidate_buffers(t)
  BY <1>6 DEF LoopDone, LoopSkip, SyncWrite, ll_rw_block, invalidate_buffers
<1>7. CASE Call(t) \/ Preempt(t) \/ PageFault(t) \/ SwitchTo(t)
  BY <1>7 DEF Call, EnterBlock, sys_sync, check_disk_change, Enter, Preempt,
       PageFault, SwitchTo
<1> QED
  BY <1>2, <1>3, <1>4, <1>5, <1>6, <1>7 DEF TaskAction, Step

(* A buffer that a task holds keeps its block: getblk takes only unused    *)
(* buffers.                                                                *)
LEMMA HeldKeepsBlock ==
    ASSUME TypeOK, CountIsUsers, NEW t \in Task, TaskAction(t),
           NEW u \in Task, NEW b \in held[u]
    PROVE  b_blk'[b] = b_blk[b]
<1>1. TaskTypeOK /\ BufferTypeOK
  BY TypeParts
<1>2. b \in Buffer
  BY <1>1 DEF TaskTypeOK
<1>3. CASE ClaimTake(t)
  <2>1. b_count[bh[t]] = 0 /\ bh[t] \in Buffer
        /\ b_blk' = [b_blk EXCEPT ![bh[t]] = key[t]]
    BY <1>1, <1>3 DEF ClaimTake, Take, TaskTypeOK
  <2>2. b # bh[t]
    BY <2>1, HeldIsCounted DEF Users
  <2> QED  BY <1>1, <1>2, <2>1, <2>2 DEF BufferTypeOK
<1> USE DEF bufVars
<1>4. CASE wait_on_buffer(t) \/ FindHit(t) \/ FindMiss(t) \/ Found(t)
           \/ ScanNone(t) \/ ScanPick(t) \/ ClaimAgain(t) \/ ClaimDirty(t)
           \/ LockBuffer(t) \/ SlotFound(t) \/ SlotNone(t) \/ SlotReads(t) \/ SlotHeads(t) \/ SlotSleep(t)
           \/ GotBlock(t) \/ GotAhead(t) \/ NextBlock(t) \/ NoMoreBlocks(t)
  BY <1>4 DEF wait_on_buffer, FindHit, FindMiss, Found, ScanNone, ScanPick,
       ClaimAgain, ClaimDirty, LockBuffer, SlotFound, SlotNone,
       SlotReads, SlotHeads, SlotSleep,
       GotBlock, GotAhead, NextBlock, NoMoreBlocks
<1>5. CASE PageDone(t) \/ Release(t) \/ ReadDone(t) \/ UseRead(t)
           \/ BlockWriteCopy(t) \/ FileWriteCopy(t) \/ MarkDirty(t)
           \/ LoopDone(t) \/ LoopSkip(t) \/ SyncWrite(t) \/ invalidate_buffers(t)
           \/ Call(t) \/ Preempt(t) \/ PageFault(t) \/ SwitchTo(t)
  BY <1>5 DEF PageDone, Release, brelse, ReadDone, UseRead, BlockWriteCopy,
       FileWriteCopy, MarkDirty, LoopDone, LoopSkip, SyncWrite,
       invalidate_buffers, Call, EnterBlock, sys_sync, check_disk_change,
       Enter, Preempt, PageFault, SwitchTo
<1> QED
  BY <1>3, <1>4, <1>5 DEF TaskAction, Step

LEMMA OthersUse ==
    ASSUME UseInv, NEW t \in Task, OthersSame(t), NEW u \in Task, u # t,
           \A b \in held[u] : b_blk'[b] = b_blk[b]
    PROVE  TaskUse(u)'
<1>1. /\ pc'[u] = pc[u] /\ op'[u] = op[u] /\ todo'[u] = todo[u]
      /\ held'[u] = held[u] /\ key'[u] = key[u] /\ ret'[u] = ret[u]
  BY DEF OthersSame
<1> QED
  BY <1>1 DEF UseInv, TaskUse, InGetblk, Outside, IsAt

(* The blocks that bread_page and breada read besides the first one.       *)
LEMMA MoreBlocksDiffer ==
    ASSUME NEW o \in AllOps, NEW k \in Block, NEW R \in MoreBlocks(o, k)
    PROVE  k \notin R /\ (o \notin Many => R = {})
<1>1. k[1] \in Nat /\ k[2] \in Nat /\ k = <<k[1], k[2]>>
  BY BlockType
<1>2. CASE o = "bread_page"
  BY <1>2 DEF MoreBlocks, Many
<1>3. CASE o \in {"block_read", "block_write"}
  <2>1. R = {<<k[1], k[2] + 1>>, <<k[1], k[2] + 2>>} \cap Block
    BY <1>3 DEF MoreBlocks
  <2>2. k # <<k[1], k[2] + 1>> /\ k # <<k[1], k[2] + 2>>
    BY <1>1
  <2> QED  BY <1>3, <2>1, <2>2 DEF Many
<1>4. CASE o \notin Many
  BY <1>4 DEF MoreBlocks, Many
<1> QED
  BY <1>2, <1>3, <1>4 DEF Many

LEMMA TaskUseStep ==
    ASSUME TypeOK, LockInv, UseInv, NEW t \in Task, TaskAction(t),
           \A b \in held[t] : b_blk'[b] = b_blk[b]
    PROVE  TaskUse(t)'
<1>1. TaskTypeOK /\ BufferTypeOK
  BY TypeParts
<1>2. TaskUse(t)
  BY DEF UseInv
<1> USE <1>1, <1>2 DEF TaskTypeOK, TaskUse, InGetblk, Outside, IsAt, Goto, At,
        bufVars, opVars, getVars, reqVars
<1>3. CASE wait_on_buffer(t) \/ Preempt(t) \/ PageFault(t) \/ SwitchTo(t)
  BY <1>3 DEF wait_on_buffer, Preempt, PageFault, SwitchTo
<1>4. CASE FindHit(t) \/ FindMiss(t) \/ Found(t)
  BY <1>4 DEF FindHit, FindMiss, Found
<1>5. CASE ScanNone(t) \/ ScanPick(t) \/ ClaimAgain(t) \/ ClaimDirty(t)
  BY <1>5 DEF ScanNone, ScanPick, ClaimAgain, ClaimDirty
<1>6. CASE ClaimTake(t)
  BY <1>6 DEF ClaimTake, Take
<1>7. CASE LockBuffer(t)
  BY <1>7 DEF LockBuffer
<1>8. CASE SlotFound(t)
  BY <1>8 DEF SlotFound
<1>9. CASE SlotNone(t) \/ SlotReads(t) \/ SlotHeads(t) \/ SlotSleep(t)
  BY <1>9 DEF SlotNone, SlotReads, SlotHeads, SlotSleep
<1>10. CASE GotBlock(t)
  <2>1. /\ pc[t] = "got" /\ held'[t] = held[t] \cup {bh[t]}
        /\ UNCHANGED <<op, todo, key, b_blk>>
        /\ b_blk[bh[t]] = key[t]
        /\ \/ pc'[t] = "lock" /\ ret'[t] = "more" /\ op[t] # "block_write_full"
           \/ pc'[t] = "use" /\ op[t] = "block_write_full"
           \/ pc'[t] = "more"
        /\ op[t] \in {"block_read", "block_write"} => held[t] = {}
    BY <1>10 DEF GotBlock, ll_rw_block, Ahead, LockInv, NoSleepBetween
  <2> QED  BY <2>1 DEF Many
<1>11. CASE GotAhead(t)
  BY <1>11 DEF GotAhead
<1>12. CASE NextBlock(t)
  BY <1>12 DEF NextBlock
<1>13. CASE NoMoreBlocks(t) \/ ReadDone(t) \/ UseRead(t) \/ MarkDirty(t)
  BY <1>13 DEF NoMoreBlocks, ReadDone, UseRead, MarkDirty
<1>14. CASE BlockWriteCopy(t) \/ FileWriteCopy(t)
  BY <1>14 DEF BlockWriteCopy, FileWriteCopy
<1>15. CASE PageDone(t)
  <2>1. PICK b \in held[t] : brelse(t, b, IF held[t] = {b} THEN "user" ELSE "finish")
    BY <1>15 DEF PageDone
  <2>2. /\ pc[t] = "finish" /\ op[t] = "bread_page"
        /\ held'[t] = held[t] \ {b}
        /\ pc'[t] = IF held[t] = {b} THEN "user" ELSE "finish"
        /\ UNCHANGED <<b_blk, op, todo, key, ret>>
    BY <1>15, <2>1 DEF PageDone, brelse
  <2> QED  BY <2>2
<1>16. CASE Release(t)
  <2>1. PICK b \in held[t] : brelse(t, b, "user")
    BY <1>16 DEF Release
  <2>2. /\ pc[t] = "brelse" /\ held'[t] = held[t] \ {b} /\ pc'[t] = "user"
        /\ UNCHANGED <<b_blk, op, todo, key, ret>>
    BY <1>16, <2>1 DEF Release, brelse
  <2>3. op[t] # "bread_page" => held'[t] = {}
    BY <2>2
  <2> QED  BY <2>2, <2>3
<1>17. CASE LoopDone(t) \/ LoopSkip(t) \/ invalidate_buffers(t)
  BY <1>17 DEF LoopDone, LoopSkip, invalidate_buffers
<1>18. CASE SyncWrite(t)
  BY <1>18 DEF SyncWrite, ll_rw_block
<1>19. ASSUME NEW o \in AllOps, NEW k \in Block, EnterBlock(t, o, k)
       PROVE  TaskUse(t)'
  <2>1. PICK R \in MoreBlocks(o, k) : todo' = [todo EXCEPT ![t] = R]
    BY <1>19 DEF EnterBlock
  <2>2. k \notin R /\ (o \notin Many => R = {})
    BY MoreBlocksDiffer
  <2>3. /\ pc[t] = "user" /\ pc'[t] = "find" /\ op'[t] = o /\ key'[t] = k
        /\ todo'[t] = R /\ held' = held
    BY <1>19, <2>1 DEF EnterBlock, Enter
  <2> QED  BY <2>2, <2>3
<1>20. CASE sys_sync(t)
  BY <1>20 DEF sys_sync, Enter
<1>21. ASSUME NEW k \in Block, check_disk_change(t, k[1])
       PROVE  TaskUse(t)'
  BY <1>21 DEF check_disk_change, Enter
<1> QED
  BY <1>3, <1>4, <1>5, <1>6, <1>7, <1>8, <1>9, <1>10, <1>11, <1>12, <1>13,
     <1>14, <1>15, <1>16, <1>17, <1>18, <1>19, <1>20, <1>21
     DEF TaskAction, Step, Call

LEMMA CountStep ==
    ASSUME TypeOK, LockInv, UseInv, NEW t \in Task, TaskAction(t)
    PROVE  CountIsUsers'
<1>1. TaskTypeOK /\ BufferTypeOK /\ OthersSame(t) /\ TaskUse(t) /\ CountIsUsers
  BY TypeParts, OthersAreSame DEF UseInv
<1>2. bh[t] \in Buffer /\ held[t] \subseteq Buffer /\ t \in Task
  BY <1>1 DEF TaskTypeOK
<1> DEFINE Gets == pc[t] \in {"found", "got"}
           Gets2 == pc'[t] \in {"found", "got"}
<1>3. ASSUME UNCHANGED b_count, held'[t] = held[t], Gets <=> Gets2,
             Gets => bh'[t] = bh[t]
      PROVE  CountIsUsers'
  <2>1. \A c \in Buffer : Users(c)' = Users(c) /\ Getters(c)' = Getters(c)
    BY <1>1, <1>3 DEF OthersSame, Users, Getters
  <2> QED  BY <2>1, <1>1, <1>3, CountKept
<1> USE DEF At, Goto, bufVars, opVars, getVars
<1>4. CASE FindHit(t)
  <2>1. PICK b \in Buffer : /\ b_count' = [b_count EXCEPT ![b] = @ + 1]
                            /\ bh' = [bh EXCEPT ![t] = b]
    BY <1>4 DEF FindHit, Cached
  <2>2. /\ pc[t] = "find" /\ pc'[t] = "found" /\ bh'[t] = b
        /\ held' = held
        /\ b_count'[b] = b_count[b] + 1
        /\ \A c \in Buffer : c # b => b_count'[c] = b_count[c]
    BY <1>1, <1>4, <2>1 DEF FindHit, TaskTypeOK, BufferTypeOK
  <2>3. \A c \in Buffer : Users(c)' = Users(c)
    BY <2>2 DEF Users
  <2>4. /\ t \notin Getters(b) /\ Getters(b)' = Getters(b) \cup {t}
        /\ \A c \in Buffer : c # b => Getters(c)' = Getters(c)
    BY <1>1, <2>2 DEF OthersSame, Getters
  <2> QED  BY <1>1, <2>2, <2>3, <2>4, CountChanged
<1>5. CASE Found(t)
  <2>1. CASE b_blk[bh[t]] = key[t]
    BY <1>1, <1>3, <1>5, <2>1 DEF Found, TaskTypeOK
  <2>2. CASE b_blk[bh[t]] # key[t]
    <3>1. /\ pc[t] = "found" /\ pc'[t] = "find" /\ UNCHANGED <<bh, held>>
          /\ b_count'[bh[t]] = b_count[bh[t]] - 1
          /\ \A c \in Buffer : c # bh[t] => b_count'[c] = b_count[c]
      BY <1>1, <1>2, <1>5, <2>2 DEF Found, TaskTypeOK, BufferTypeOK
    <3>2. \A c \in Buffer : Users(c)' = Users(c)
      BY <3>1 DEF Users
    <3>3. /\ t \in Getters(bh[t]) /\ Getters(bh[t])' = Getters(bh[t]) \ {t}
          /\ \A c \in Buffer : c # bh[t] => Getters(c)' = Getters(c)
      BY <1>1, <3>1 DEF OthersSame, Getters
    <3> QED  BY <1>1, <1>2, <3>1, <3>2, <3>3, CountChanged
  <2> QED  BY <2>1, <2>2
<1>6. CASE ClaimTake(t)
  <2>1. /\ pc[t] = "claim" /\ pc'[t] = "got" /\ UNCHANGED <<bh, held>>
        /\ b_count[bh[t]] = 0 /\ b_count'[bh[t]] = b_count[bh[t]] + 1
        /\ \A c \in Buffer : c # bh[t] => b_count'[c] = b_count[c]
    BY <1>1, <1>2, <1>6 DEF ClaimTake, Take, TaskTypeOK, BufferTypeOK
  <2>2. \A c \in Buffer : Users(c)' = Users(c)
    BY <2>1 DEF Users
  <2>3. /\ t \notin Getters(bh[t]) /\ Getters(bh[t])' = Getters(bh[t]) \cup {t}
        /\ \A c \in Buffer : c # bh[t] => Getters(c)' = Getters(c)
    BY <1>1, <2>1 DEF OthersSame, Getters
  <2> QED  BY <1>1, <1>2, <2>1, <2>2, <2>3, CountChanged
<1>7. CASE GotBlock(t)
  <2>1. /\ pc[t] = "got" /\ pc'[t] \in {"lock", "use", "more", "syncdev"}
        /\ UNCHANGED <<bh, b_count>> /\ held'[t] = held[t] \cup {bh[t]}
        /\ b_blk[bh[t]] = key[t]
    BY <1>1, <1>7 DEF GotBlock, ll_rw_block, TaskTypeOK, LockInv, NoSleepBetween
  <2>2. bh[t] \notin held[t]
    BY <1>1, <2>1 DEF TaskUse, InGetblk, IsAt
  <2>3. /\ t \notin Users(bh[t]) /\ Users(bh[t])' = Users(bh[t]) \cup {t}
        /\ \A c \in Buffer : c # bh[t] => Users(c)' = Users(c)
    BY <1>1, <2>1, <2>2 DEF OthersSame, Users
  <2>4. /\ t \in Getters(bh[t]) /\ Getters(bh[t])' = Getters(bh[t]) \ {t}
        /\ \A c \in Buffer : c # bh[t] => Getters(c)' = Getters(c)
    BY <1>1, <2>1 DEF OthersSame, Getters
  <2> QED  BY <1>1, <1>2, <2>1, <2>3, <2>4, CountChanged
<1>8. CASE GotAhead(t)
  <2>1. /\ pc[t] = "got" /\ pc'[t] = "more" /\ UNCHANGED <<bh, held>>
        /\ b_count'[bh[t]] = b_count[bh[t]] - 1
        /\ \A c \in Buffer : c # bh[t] => b_count'[c] = b_count[c]
    BY <1>1, <1>2, <1>8 DEF GotAhead, TaskTypeOK, BufferTypeOK
  <2>2. \A c \in Buffer : Users(c)' = Users(c)
    BY <2>1 DEF Users
  <2>3. /\ t \in Getters(bh[t]) /\ Getters(bh[t])' = Getters(bh[t]) \ {t}
        /\ \A c \in Buffer : c # bh[t] => Getters(c)' = Getters(c)
    BY <1>1, <2>1 DEF OthersSame, Getters
  <2> QED  BY <1>1, <1>2, <2>1, <2>2, <2>3, CountChanged
<1>9. CASE PageDone(t) \/ Release(t)
  <2>1. PICK b \in held[t], l \in {"user", "finish"} : brelse(t, b, l)
    BY <1>9 DEF PageDone, Release
  <2>2. /\ pc[t] \in {"finish", "brelse"} /\ pc'[t] \in {"user", "finish"}
        /\ UNCHANGED bh /\ held'[t] = held[t] \ {b} /\ b \in Buffer
        /\ b_count'[b] = b_count[b] - 1
        /\ \A c \in Buffer : c # b => b_count'[c] = b_count[c]
    BY <1>1, <1>2, <1>9, <2>1 DEF PageDone, Release, brelse, TaskTypeOK, BufferTypeOK
  <2>3. /\ t \in Users(b) /\ Users(b)' = Users(b) \ {t}
        /\ \A c \in Buffer : c # b => Users(c)' = Users(c)
    BY <1>1, <2>2 DEF OthersSame, Users
  <2>4. \A c \in Buffer : Getters(c)' = Getters(c)
    BY <1>1, <2>2 DEF OthersSame, Getters
  <2> QED  BY <1>1, <2>2, <2>3, <2>4, CountChanged
<1>10. CASE wait_on_buffer(t) \/ Preempt(t) \/ PageFault(t) \/ SwitchTo(t)
  BY <1>3, <1>10 DEF wait_on_buffer, Preempt, PageFault, SwitchTo
<1>11. CASE FindMiss(t) \/ ScanNone(t) \/ ScanPick(t) \/ ClaimAgain(t)
            \/ ClaimDirty(t)
  BY <1>1, <1>3, <1>11 DEF FindMiss, ScanNone, ScanPick, ClaimAgain, ClaimDirty,
       TaskTypeOK
<1>12. CASE LockBuffer(t) \/ SlotFound(t) \/ SlotNone(t) \/ SlotReads(t) \/ SlotHeads(t) \/ SlotSleep(t)
  <2>1. ret[t] \in {"more", "sync", "syncdev"}
    BY <1>1 DEF TaskTypeOK
  <2> QED
    BY <1>1, <1>3, <1>12, <2>1 DEF LockBuffer, SlotFound, SlotNone, SlotReads, SlotHeads, SlotSleep,
       TaskTypeOK
<1>13. CASE NextBlock(t) \/ NoMoreBlocks(t) \/ ReadDone(t) \/ UseRead(t)
            \/ BlockWriteCopy(t) \/ FileWriteCopy(t) \/ MarkDirty(t)
  BY <1>1, <1>3, <1>13 DEF NextBlock, NoMoreBlocks, ReadDone, UseRead,
       BlockWriteCopy, FileWriteCopy, MarkDirty, TaskTypeOK
<1>14. CASE LoopDone(t) \/ LoopSkip(t) \/ invalidate_buffers(t)
  BY <1>1, <1>3, <1>14 DEF LoopDone, LoopSkip, invalidate_buffers, TaskTypeOK
<1>15. CASE SyncWrite(t)
  BY <1>1, <1>3, <1>15 DEF SyncWrite, ll_rw_block, TaskTypeOK
<1>16. CASE Call(t)
  BY <1>1, <1>3, <1>16 DEF Call, EnterBlock, sys_sync, check_disk_change, Enter,
       TaskTypeOK
<1> QED
  BY <1>4, <1>5, <1>6, <1>7, <1>8, <1>9, <1>10, <1>11, <1>12, <1>13, <1>14,
     <1>15, <1>16 DEF TaskAction, Step

LEMMA UseStepInv ==
    TypeOK /\ LockInv /\ UseInv /\ [Next]_vars => UseInv'
<1> SUFFICES ASSUME TypeOK, LockInv, UseInv, [Next]_vars PROVE UseInv'
  OBVIOUS
<1>1. ASSUME NEW t \in Task, TaskAction(t) PROVE UseInv'
  <2>1. CountIsUsers'
    BY <1>1, CountStep
  <2>2. \A u \in Task : \A b \in held[u] : b_blk'[b] = b_blk[b]
    BY <1>1, HeldKeepsBlock DEF UseInv
  <2>3. TaskUse(t)'
    BY <1>1, <2>2, TaskUseStep
  <2>4. \A u \in Task : u # t => TaskUse(u)'
    BY <1>1, <2>2, OthersAreSame, OthersUse
  <2> QED  BY <2>1, <2>3, <2>4 DEF UseInv
<1>2. ASSUME UNCHANGED <<b_blk, b_count, pc, op, todo, held, key, bh, ret>>
      PROVE  UseInv'
  BY <1>2 DEF UseInv, CountIsUsers, Users, Getters, TaskUse, InGetblk, Outside,
       IsAt
<1>3. ASSUME NEW m \in Major, Device(m) PROVE UseInv'
  BY <1>2, <1>3 DEF Device, SendData, RequestOk, RequestFails, end_request,
       Complete, bufVars, opVars, getVars, reqVars
<1> QED
  BY <1>1, <1>2, <1>3 DEF Next, TaskAction, Done, vars, bufVars, opVars, getVars,
       reqVars

LEMMA UseInitInv == Init => UseInv
<1> SUFFICES ASSUME Init PROVE UseInv
  OBVIOUS
<1>1. \A b \in Buffer : Users(b) = {} /\ Getters(b) = {} /\ b_count[b] = 0
  BY DEF Init, Users, Getters
<1>2. CountIsUsers
  BY <1>1, FS_EmptySet DEF CountIsUsers
<1>3. \A t \in Task : TaskUse(t)
  BY DEF Init, TaskUse, InGetblk, IsAt
<1> QED
  BY <1>2, <1>3 DEF UseInv

(* b_count is the number of tasks that use the buffer, for any number of   *)
(* tasks and buffers: no use is lost or counted twice, in getblk, breada,  *)
(* bread_page and brelse (buffer.cc:186-264, 299-349).                     *)
THEOREM CountsAreRight == Spec => []CountIsUsers
<1>1. UseInv => CountIsUsers
  BY DEF UseInv
<1> QED
  BY <1>1, UseInitInv, UseStepInv, InitInv, StepInv, PTL DEF Spec

(* A task's buffer is not given to another block while the task holds it.  *)
THEOREM HeldBlocksStay == Spec => HeldBlockStays
<1> DEFINE Stays == \A t \in Task : \A b \in held[t] : b_blk'[b] = b_blk[b]
<1>1. TypeOK /\ LockInv /\ UseInv /\ [Next]_vars => [Stays]_vars
  <2> SUFFICES ASSUME TypeOK, UseInv, Next PROVE Stays
    OBVIOUS
  <2>1. ASSUME NEW t \in Task, TaskAction(t) PROVE Stays
    BY <2>1, HeldKeepsBlock DEF UseInv
  <2>2. UNCHANGED b_blk => Stays
    OBVIOUS
  <2>3. ASSUME NEW m \in Major, Device(m) PROVE Stays
    BY <2>2, <2>3 DEF Device, SendData, RequestOk, RequestFails, end_request,
       Complete, bufVars
  <2> QED  BY <2>1, <2>2, <2>3 DEF Next, TaskAction, Done, vars, bufVars
<1> QED
  BY <1>1, UseInitInv, UseStepInv, InitInv, StepInv, PTL DEF Spec, HeldBlockStays

-----------------------------------------------------------------------------
(***************************************************************************)
(* The data, when no disk fails or is changed and the tasks write parts of *)
(* blocks of devices: block_write marks the buffer dirty after the copy.   *)
(***************************************************************************)
SafeOps == {"file_read", "block_read", "block_write", "bread_page", "sys_sync"}

NoFaults ==
    /\ errors = 0
    /\ \A t \in Task : op[t] \in SafeOps /\ pc[t] # "inval"

(* Somebody is about to mark b dirty; b is to be written or being written. *)
Copier(b) == \E t \in Task : pc[t] = "use2" /\ b \in held[t]
WriteQueued(b) ==
    \E r \in Slot : request[r].used /\ request[r].bh = b /\ request[r].cmd = WRITE
InWork(b) == b_dirt[b] \/ WriteQueued(b) \/ Copier(b)

(* A valid buffer holds what was written last.                             *)
ValidIsLatest ==
    \A b \in Buffer :
        b_blk[b] \in Block /\ b_uptodate[b] => b_data[b] = latest[b_blk[b]]

(* Only valid buffers are dirty, used or written, and only others read.    *)
WrittenIsValid ==
    /\ \A b \in Buffer : b_dirt[b] => b_uptodate[b]
    /\ \A t \in Task : pc[t] \in {"use", "use2"} =>
          \A b \in held[t] : b_uptodate[b]
    /\ \A t \in Task : pc[t] \in InMakeRequest =>
          (rw(t) = WRITE <=> b_uptodate[rbh[t]])
    /\ \A r \in Slot : request[r].used =>
          /\ b_blk[request[r].bh] \in Block
          /\ request[r].cmd = WRITE <=> b_uptodate[request[r].bh]

(* What the driver has sent is the last write, or the buffer will be       *)
(* written again.                                                          *)
SentIsLatest ==
    \A r \in Slot, b \in Buffer :
        /\ request[r].used /\ request[r].bh = b
        /\ request[r].cmd = WRITE /\ request[r].sent
        => request[r].data = latest[b_blk[b]] \/ b_dirt[b] \/ Copier(b)

(* The disk has the last write of a block that nobody has work with.       *)
OnDisk ==
    \A k \in Block :
        (\A b \in Buffer : b_blk[b] = k => ~InWork(b)) => disk[k] = latest[k]

DataInv == NoFaults /\ ValidIsLatest /\ WrittenIsValid /\ SentIsLatest /\ OnDisk

(* A step that leaves the data alone.                                      *)
DataQuiet(t) ==
    /\ UNCHANGED <<b_blk, b_dirt, b_uptodate, b_data, disk, latest, request, errors>>
    /\ op'[t] \in SafeOps /\ pc'[t] # "inval"
    /\ pc[t] = "use2" <=> pc'[t] = "use2"
    /\ pc[t] = "use2" => held'[t] = held[t]
    /\ pc'[t] = "use" => \A b \in held'[t] : b_uptodate[b]
    /\ pc'[t] \in InMakeRequest =>
          (rw(t)' = WRITE <=> b_uptodate[rbh'[t]])

LEMMA DataQuietInv ==
    ASSUME DataInv, NEW t \in Task, OthersSame(t), DataQuiet(t)
    PROVE  DataInv'
<1>1. NoFaults'
  BY DEF DataInv, NoFaults, DataQuiet, OthersSame
<1>2. ValidIsLatest'
  BY DEF DataInv, ValidIsLatest, DataQuiet
<1>3. \A b : Copier(b)' <=> Copier(b)
  BY DEF Copier, DataQuiet, OthersSame
<1>4. \A b : InWork(b)' <=> InWork(b)
  BY <1>3 DEF InWork, WriteQueued, DataQuiet
<1>5. SentIsLatest'
  BY <1>3 DEF DataInv, SentIsLatest, DataQuiet
<1>6. OnDisk'
  BY <1>4 DEF DataInv, OnDisk, DataQuiet
<1>7. WrittenIsValid'
  <2>1. \A u \in Task : u # t => rw(u)' = rw(u)
    BY DEF OthersSame, rw
  <2> QED  BY <2>1 DEF DataInv, WrittenIsValid, DataQuiet, OthersSame
<1> QED
  BY <1>1, <1>2, <1>5, <1>6, <1>7 DEF DataInv

LEMMA DataQuietSteps ==
    ASSUME Ops \subseteq SafeOps, TypeOK, LockInv, UseInv, DataInv,
           NEW t \in Task,
           \/ wait_on_buffer(t)
           \/ FindHit(t) \/ FindMiss(t) \/ Found(t)
           \/ ScanNone(t) \/ ScanPick(t) \/ ClaimAgain(t) \/ ClaimDirty(t)
           \/ SlotNone(t) \/ SlotReads(t) \/ SlotHeads(t) \/ SlotSleep(t)
           \/ GotBlock(t) \/ NextBlock(t) \/ NoMoreBlocks(t)
           \/ PageDone(t) \/ ReadDone(t) \/ UseRead(t) \/ Release(t)
           \/ LoopDone(t) \/ LoopSkip(t) \/ SyncWrite(t)
           \/ Call(t) \/ Preempt(t) \/ PageFault(t) \/ SwitchTo(t)
    PROVE  DataQuiet(t)
<1>1. TaskTypeOK /\ BufferTypeOK
  BY TypeParts
<1>2. /\ op[t] \in SafeOps /\ pc[t] # "inval"
      /\ pc[t] \in {"use", "use2"} => \A b \in held[t] : b_uptodate[b]
      /\ pc[t] \in InMakeRequest => (rw(t) = WRITE <=> b_uptodate[rbh[t]])
  BY DEF DataInv, NoFaults, WrittenIsValid
<1> USE <1>1, <1>2 DEF TaskTypeOK, BufferTypeOK, Goto, At, bufVars, ioVars, opVars,
        getVars, syncVars, reqVars, sleepVars, DataQuiet, rw
<1>3. CASE wait_on_buffer(t) \/ Preempt(t) \/ PageFault(t) \/ SwitchTo(t)
  BY <1>3 DEF wait_on_buffer, Preempt, PageFault, SwitchTo
<1>4. CASE FindHit(t) \/ FindMiss(t) \/ Found(t)
  BY <1>4 DEF FindHit, FindMiss, Found
<1>5. CASE ScanNone(t) \/ ScanPick(t) \/ ClaimAgain(t) \/ ClaimDirty(t)
  BY <1>5 DEF ScanNone, ScanPick, ClaimAgain, ClaimDirty
<1>6. CASE SlotNone(t) \/ SlotReads(t) \/ SlotHeads(t) \/ SlotSleep(t)
  BY <1>6 DEF SlotNone, SlotReads, SlotHeads, SlotSleep
<1>7. CASE GotBlock(t)
  BY <1>7 DEF GotBlock, ll_rw_block, SafeOps
<1>8. CASE NextBlock(t) \/ NoMoreBlocks(t) \/ UseRead(t)
  BY <1>8 DEF NextBlock, NoMoreBlocks, UseRead
<1>9. CASE ReadDone(t)
  <2>1. \A b, c \in held[t] : b = c
    BY <1>9 DEF ReadDone, UseInv, TaskUse
  <2> QED  BY <1>9, <2>1 DEF ReadDone
<1>10. CASE PageDone(t) \/ Release(t)
  <2>1. PICK b \in held[t], l \in {"user", "finish"} : brelse(t, b, l)
    BY <1>10 DEF PageDone, Release
  <2>2. pc[t] \in {"finish", "brelse"}
    BY <1>10 DEF PageDone, Release
  <2> QED  BY <2>1, <2>2 DEF brelse
<1>11. CASE LoopDone(t) \/ LoopSkip(t)
  BY <1>11 DEF LoopDone, LoopSkip
<1>12. CASE SyncWrite(t)
  BY <1>12 DEF SyncWrite, ll_rw_block
<1>13. ASSUME NEW o \in AllOps, NEW k \in Block, EnterBlock(t, o, k)
       PROVE  DataQuiet(t)
  BY <1>13 DEF EnterBlock, Enter
<1>14. CASE sys_sync(t)
  BY <1>14 DEF sys_sync, Enter, SafeOps
<1>15. ASSUME NEW k, check_disk_change(t, k)
       PROVE  DataQuiet(t)
  BY <1>15 DEF check_disk_change, Enter, SafeOps
<1> QED
  BY <1>3, <1>4, <1>5, <1>6, <1>7, <1>8, <1>9, <1>10, <1>11, <1>12, <1>13,
     <1>14, <1>15 DEF Call

LEMMA LockBufferData ==
    ASSUME TypeOK, LockInv, DataInv, NEW t \in Task, LockBuffer(t)
    PROVE  DataQuiet(t)
<1>1. TaskTypeOK /\ BufferTypeOK
  BY TypeParts
<1>2. /\ op[t] \in SafeOps /\ pc[t] = "lock" /\ rbh[t] \in Buffer
      /\ ret[t] \in {"more", "sync", "syncdev"}
      /\ b_dirt[rbh[t]] => b_uptodate[rbh[t]]
  BY <1>1 DEF DataInv, NoFaults, WrittenIsValid, LockBuffer, At, TaskTypeOK
<1>3. /\ UNCHANGED <<b_blk, b_dirt, b_uptodate, b_data, disk, latest, request, errors,
                     op, held, ret, rbh>>
      /\ pc'[t] = IF NeedsIO(t, rbh[t]) THEN "slot" ELSE ret[t]
  BY <1>1 DEF LockBuffer, Goto, ioVars, opVars, reqVars, TaskTypeOK
<1>4. NeedsIO(t, rbh[t]) => (rw(t) = WRITE <=> b_uptodate[rbh[t]])
  BY <1>2 DEF NeedsIO
<1>5. rw(t)' = rw(t)
  BY <1>3 DEF rw
<1> QED
  BY <1>2, <1>3, <1>4, <1>5 DEF DataQuiet

(* A request for a buffer that has none: a valid one is to be written, the *)
(* others are to be read.                                                  *)
LEMMA FillRequestData ==
    ASSUME TypeOK, LockInv, DataInv, NEW t \in Task, OthersSame(t),
           NEW r \in Slot, ~request[r].used, NEW cmd \in {READ, WRITE},
           NEW b \in Buffer, b_blk[b] \in Block, Requests(b) = {}, NEW m,
           FillRequest(r, cmd, b, m), cmd = WRITE <=> b_uptodate[b],
           UNCHANGED <<b_blk, b_uptodate, b_data, disk, latest, errors, op, held>>,
           pc[t] \notin {"use", "use2"}, pc'[t] \in {"more", "sync", "syncdev"}
    PROVE  DataInv'
<1> DEFINE new == [used |-> TRUE, cmd |-> cmd, dev |-> b_blk[b][1],
                   sector |-> 2 * b_blk[b][2], bh |-> b,
                   sent |-> FALSE, data |-> 0]
<1>1. BufferTypeOK /\ IoTypeOK /\ TaskTypeOK
  BY TypeParts
<1>2. new.used /\ new.bh = b /\ new.cmd = cmd /\ ~new.sent
  OBVIOUS
<1>3. request' = [request EXCEPT ![r] = new]
  BY DEF FillRequest
<1> HIDE DEF new
<1>4. request'[r] = new /\ \A s \in Slot : s # r => request'[s] = request[s]
  BY <1>1, <1>3 DEF IoTypeOK
<1>5. ~b_dirt'[b] /\ \A c \in Buffer : c # b => b_dirt'[c] = b_dirt[c]
  BY <1>1 DEF FillRequest, BufferTypeOK
<1>6. \A s \in Slot : request[s].used => request[s].bh # b /\ request[s].bh \in Buffer
  BY <1>1 DEF Requests, IoTypeOK, RequestRecord
<1>7. \A c : Copier(c)' <=> Copier(c)
  BY DEF Copier, OthersSame
<1>8. NoFaults' /\ ValidIsLatest'
  BY DEF DataInv, NoFaults, ValidIsLatest, OthersSame
<1>9. WrittenIsValid'
  <2>1. \A u \in Task : u # t => rw(u)' = rw(u)
    BY DEF OthersSame, rw
  <2>2. \A c \in Buffer : b_dirt'[c] => b_uptodate'[c]
    BY <1>5 DEF DataInv, WrittenIsValid
  <2>3. \A u \in Task :
          /\ pc'[u] \in {"use", "use2"} => \A c \in held'[u] : b_uptodate'[c]
          /\ pc'[u] \in InMakeRequest => (rw(u)' = WRITE <=> b_uptodate'[rbh'[u]])
    BY <2>1 DEF DataInv, WrittenIsValid, OthersSame
  <2>4. \A s \in Slot : request'[s].used =>
          /\ b_blk'[request'[s].bh] \in Block
          /\ request'[s].cmd = WRITE <=> b_uptodate'[request'[s].bh]
    BY <1>2, <1>4 DEF DataInv, WrittenIsValid
  <2> QED  BY <2>2, <2>3, <2>4 DEF WrittenIsValid
<1>10. SentIsLatest'
  <2> SUFFICES ASSUME NEW s \in Slot, NEW c \in Buffer, request'[s].used,
                      request'[s].bh = c, request'[s].cmd = WRITE, request'[s].sent
               PROVE  request'[s].data = latest'[b_blk'[c]] \/ b_dirt'[c] \/ Copier(c)'
    BY DEF SentIsLatest
  <2>1. s # r /\ request'[s] = request[s]
    BY <1>2, <1>4
  <2>2. c # b
    BY <2>1, <1>6
  <2>3. b_dirt'[c] = b_dirt[c]
    BY <2>2, <1>5
  <2>4. request[s].data = latest[b_blk[c]] \/ b_dirt[c] \/ Copier(c)
    BY <2>1 DEF DataInv, SentIsLatest
  <2> QED  BY <2>1, <2>3, <2>4, <1>7
<1>11. ASSUME NEW c \in Buffer, InWork(c) PROVE InWork(c)'
  <2>1. WriteQueued(c) => WriteQueued(c)'
    <3> SUFFICES ASSUME NEW s \in Slot, request[s].used, request[s].bh = c,
                        request[s].cmd = WRITE
                 PROVE  WriteQueued(c)'
      BY DEF WriteQueued
    <3>1. request'[s] = request[s]
      BY <1>4
    <3> QED  BY <3>1 DEF WriteQueued
  <2>2. CASE c = b
    <3>1. b_dirt[b] => cmd = WRITE
      BY DEF DataInv, WrittenIsValid
    <3>2. cmd = WRITE => WriteQueued(b)'
      BY <1>2, <1>4 DEF WriteQueued
    <3> QED  BY <1>7, <1>11, <2>1, <2>2, <3>1, <3>2 DEF InWork
  <2>3. CASE c # b
    BY <1>5, <1>7, <1>11, <2>1, <2>3 DEF InWork
  <2> QED  BY <2>2, <2>3
<1>12. OnDisk'
  BY <1>11 DEF DataInv, OnDisk
<1> QED
  BY <1>8, <1>9, <1>10, <1>12 DEF DataInv

LEMMA SlotFoundData ==
    ASSUME TypeOK, LockInv, DataInv, NEW t \in Task, SlotFound(t), OthersSame(t)
    PROVE  DataInv'
<1> DEFINE b == rbh[t]
           r == FindSlot(rw(t), FreeSlots)
<1>1. /\ TaskTypeOK /\ b \in Buffer /\ pc[t] = "slot"
      /\ pc' = [pc EXCEPT ![t] = ret[t]]
      /\ UNCHANGED <<b_blk, b_uptodate, b_data, disk, latest, errors, op, held>>
  BY TypeParts DEF SlotFound, Goto, At, TaskTypeOK, opVars
<1>2. b_blk[b] \in Block
  BY <1>1 DEF LockInv, RealBlocks
<1>3. r \in Slot /\ ~request[r].used
  <2>1. FreeSlots \in SUBSET Slot /\ r # 0
    BY DEF FreeSlots, SlotFound
  <2> QED  BY <2>1, FindSlotType DEF FreeSlots
<1>4. rw(t) \in {READ, WRITE} /\ FillRequest(r, rw(t), b, major[t])
  BY DEF SlotFound, rw
<1>5. rw(t) = WRITE <=> b_uptodate[b]
  BY <1>1 DEF DataInv, WrittenIsValid
<1>6. Requests(b) = {}
  <2>1. t \in Lockers(b)
    BY <1>1 DEF Lockers
  <2> QED  BY <1>1, <2>1 DEF LockInv, LockHasOneOwner
<1>7. pc'[t] \in {"more", "sync", "syncdev"}
  BY <1>1 DEF TaskTypeOK
<1> HIDE DEF r, b
<1> QED
  BY <1>1, <1>2, <1>3, <1>4, <1>5, <1>6, <1>7, FillRequestData

LEMMA GotAheadData ==
    ASSUME TypeOK, LockInv, DataInv, NEW t \in Task, GotAhead(t), OthersSame(t)
    PROVE  DataInv'
<1>1. /\ TaskTypeOK /\ pc[t] = "got" /\ pc'[t] = "more"
      /\ UNCHANGED <<b_blk, b_uptodate, b_data, disk, latest, errors, op, held, rbh, ret>>
  BY TypeParts DEF GotAhead, Goto, At, TaskTypeOK, opVars, reqVars
<1>2. PICK b \in held[t] :
         \/ ReadAhead(t, b)
         \/ UNCHANGED <<request, queue, b_dirt, b_lock>>
  BY DEF GotAhead
<1>3. b \in Buffer /\ b_blk[b] \in Block
  BY <1>1 DEF TaskTypeOK, LockInv, RealBlocks
<1> DEFINE m == MAJOR(b_blk[b][1])
           r == FindSlot(READ, FreeSlots)
<1>4. CASE UNCHANGED <<request, queue, b_dirt, b_lock>>
  <2>1. DataQuiet(t)
    BY <1>1, <1>4 DEF DataQuiet, DataInv, NoFaults
  <2> QED
    BY <2>1, DataQuietInv
<1>5. CASE /\ ~b_lock[b] /\ ~b_uptodate[b] /\ r # 0
           /\ FillRequest(r, READ, b, m)
  <2>1. r \in Slot /\ ~request[r].used
    <3>1. FreeSlots \in SUBSET Slot
      BY DEF FreeSlots
    <3> QED  BY <3>1, <1>5, FindSlotType DEF FreeSlots
  <2> HIDE DEF r, m
  <2>2. Requests(b) = {}
    BY <1>3, <1>5 DEF LockInv, LockHasOneOwner
  <2>3. READ \in {READ, WRITE} /\ (READ = WRITE <=> b_uptodate[b])
    BY <1>5 DEF READ, WRITE
  <2> QED
    BY <1>1, <1>3, <1>5, <2>1, <2>2, <2>3, FillRequestData
<1> QED
  BY <1>2, <1>4, <1>5 DEF ReadAhead

(* getblk takes a buffer with which nobody has work: what was in it is on  *)
(* the disk.                                                               *)
LEMMA ClaimTakeData ==
    ASSUME TypeOK, LockInv, UseInv, DataInv, NEW t \in Task, ClaimTake(t),
           OthersSame(t)
    PROVE  DataInv'
<1> DEFINE b == bh[t]
<1>1. /\ TaskTypeOK /\ BufferTypeOK /\ IoTypeOK /\ b \in Buffer /\ key[t] \in Block
      /\ pc[t] = "claim" /\ ~b_lock[b] /\ b_count[b] = 0 /\ ~b_dirt[b]
      /\ Cached(key[t]) = {}
      /\ pc'[t] = "got"
      /\ b_blk' = [b_blk EXCEPT ![b] = key[t]]
      /\ b_dirt' = [b_dirt EXCEPT ![b] = FALSE]
      /\ b_uptodate' = [b_uptodate EXCEPT ![b] = FALSE]
      /\ UNCHANGED <<b_data, disk, latest, errors, request, op, held, rbh, ret>>
  BY TypeParts DEF ClaimTake, Take, NotValid, Goto, At, TaskTypeOK, ioVars, opVars,
       reqVars
<1>2. Lockers(b) = {} /\ Requests(b) = {} /\ Users(b) = {}
  BY <1>1, HeldIsCounted DEF LockInv, LockHasOneOwner, UseInv
<1>3. /\ b_blk'[b] = key[t] /\ ~b_uptodate'[b] /\ ~b_dirt'[b]
      /\ \A c \in Buffer : c # b => /\ b_blk'[c] = b_blk[c]
                                    /\ b_uptodate'[c] = b_uptodate[c]
                                    /\ b_dirt'[c] = b_dirt[c]
  BY <1>1 DEF BufferTypeOK
<1>4. \A c : Copier(c)' <=> Copier(c)
  BY <1>1 DEF Copier, OthersSame
<1>5. \A s \in Slot : request[s].used => request[s].bh \in Buffer /\ request[s].bh # b
  BY <1>1, <1>2 DEF Requests, IoTypeOK, RequestRecord
<1>6. NoFaults'
  BY <1>1 DEF DataInv, NoFaults, OthersSame
<1>7. ValidIsLatest'
  BY <1>1, <1>3 DEF DataInv, ValidIsLatest
<1>8. WrittenIsValid'
  <2>1. \A u \in Task : u # t => rw(u)' = rw(u)
    BY DEF OthersSame, rw
  <2>2. \A c \in Buffer : b_dirt'[c] => b_uptodate'[c]
    BY <1>3 DEF DataInv, WrittenIsValid
  <2>3. \A u \in Task : \A c \in held[u] : c \in Buffer /\ c # b
    BY <1>1, <1>2 DEF Users, TaskTypeOK
  <2>4. \A u \in Task : pc[u] \in InMakeRequest => rbh[u] \in Buffer /\ rbh[u] # b
    BY <1>1, <1>2 DEF Lockers, TaskTypeOK
  <2>5. \A u \in Task :
          /\ pc'[u] \in {"use", "use2"} => \A c \in held'[u] : b_uptodate'[c]
          /\ pc'[u] \in InMakeRequest => (rw(u)' = WRITE <=> b_uptodate'[rbh'[u]])
    BY <1>1, <1>3, <2>1, <2>3, <2>4 DEF DataInv, WrittenIsValid, OthersSame
  <2>6. \A s \in Slot : request'[s].used =>
          /\ b_blk'[request'[s].bh] \in Block
          /\ request'[s].cmd = WRITE <=> b_uptodate'[request'[s].bh]
    BY <1>1, <1>3, <1>5 DEF DataInv, WrittenIsValid
  <2> QED  BY <2>2, <2>5, <2>6 DEF WrittenIsValid
<1>9. SentIsLatest'
  BY <1>1, <1>3, <1>4, <1>5 DEF DataInv, SentIsLatest
<1>10. ~InWork(b)
  BY <1>1, <1>2 DEF InWork, WriteQueued, Requests, Copier, Users
<1>11. \A c \in Buffer : c # b => (InWork(c)' <=> InWork(c))
  BY <1>1, <1>3, <1>4 DEF InWork, WriteQueued
<1>12. OnDisk'
  <2> SUFFICES ASSUME NEW k \in Block,
                      \A c \in Buffer : b_blk'[c] = k => ~InWork(c)'
               PROVE  disk[k] = latest[k]
    BY <1>1 DEF OnDisk
  <2>1. \A c \in Buffer : b_blk[c] = k => ~InWork(c)
    BY <1>3, <1>10, <1>11
  <2> QED  BY <2>1 DEF DataInv, OnDisk
<1> QED
  BY <1>6, <1>7, <1>8, <1>9, <1>12 DEF DataInv

(* The copy of new data into a valid buffer; the mark that follows it.     *)
LEMMA BlockWriteCopyData ==
    ASSUME TypeOK, LockInv, UseInv, DataInv, NEW t \in Task, BlockWriteCopy(t),
           OthersSame(t)
    PROVE  DataInv'
<1>1. /\ TaskTypeOK /\ BufferTypeOK /\ pc[t] = "use" /\ pc'[t] = "use2"
      /\ op[t] = "block_write"
      /\ UNCHANGED <<b_blk, b_dirt, b_uptodate, disk, errors, request, op, held, rbh, ret>>
  BY TypeParts DEF BlockWriteCopy, Goto, At, TaskTypeOK, ioVars, opVars, reqVars,
       DataInv, NoFaults, SafeOps
<1>2. PICK b \in held[t] : Copy(b)
  BY DEF BlockWriteCopy
<1> DEFINE k == b_blk[b]
<1>3. /\ b \in Buffer /\ k \in Block
      /\ \A c \in Buffer : b_blk[c] = k => c = b
      /\ \A c \in held[t] : b_uptodate[c]
  BY <1>1, NoBlockIsNone DEF TaskTypeOK, LockInv, RealBlocks, UniqueBlock, DataInv,
       WrittenIsValid
<1>4. /\ b_data'[b] = latest'[k]
      /\ \A c \in Buffer : c # b => b_data'[c] = b_data[c]
      /\ \A j \in Block : j # k => latest'[j] = latest[j]
  BY <1>1, <1>2, <1>3 DEF Copy, BufferTypeOK
<1>5. Copier(b)' /\ \A c : Copier(c) => Copier(c)'
  BY <1>1 DEF Copier, OthersSame
<1>6. NoFaults'
  BY <1>1 DEF DataInv, NoFaults, OthersSame
<1>7. ValidIsLatest'
  BY <1>1, <1>3, <1>4 DEF DataInv, ValidIsLatest
<1>8. WrittenIsValid'
  <2>1. \A u \in Task : u # t => rw(u)' = rw(u)
    BY DEF OthersSame, rw
  <2> QED  BY <2>1, <1>1, <1>3 DEF DataInv, WrittenIsValid, OthersSame
<1>9. SentIsLatest'
  <2> SUFFICES ASSUME NEW s \in Slot, NEW c \in Buffer, request[s].used,
                      request[s].bh = c, request[s].cmd = WRITE, request[s].sent
               PROVE  request[s].data = latest'[b_blk[c]] \/ b_dirt[c] \/ Copier(c)'
    BY <1>1 DEF SentIsLatest
  <2>1. b_blk[c] \in Block
    BY DEF DataInv, WrittenIsValid
  <2>2. request[s].data = latest[b_blk[c]] \/ b_dirt[c] \/ Copier(c)
    BY DEF DataInv, SentIsLatest
  <2> QED  BY <2>1, <2>2, <1>3, <1>4, <1>5
<1>10. \A c \in Buffer : InWork(c) => InWork(c)'
  BY <1>1, <1>5 DEF InWork, WriteQueued
<1>11. InWork(b)'
  BY <1>5 DEF InWork
<1>12. OnDisk'
  <2> SUFFICES ASSUME NEW j \in Block, \A c \in Buffer : b_blk[c] = j => ~InWork(c)'
               PROVE  disk[j] = latest'[j]
    BY <1>1 DEF OnDisk
  <2>1. j # k
    BY <1>3, <1>11
  <2>2. \A c \in Buffer : b_blk[c] = j => ~InWork(c)
    BY <1>10
  <2> QED  BY <2>1, <2>2, <1>4 DEF DataInv, OnDisk
<1> QED
  BY <1>6, <1>7, <1>8, <1>9, <1>12 DEF DataInv

LEMMA MarkDirtyData ==
    ASSUME TypeOK, LockInv, UseInv, DataInv, NEW t \in Task, MarkDirty(t),
           OthersSame(t)
    PROVE  DataInv'
<1>1. /\ TaskTypeOK /\ BufferTypeOK /\ pc[t] = "use2" /\ pc'[t] = "brelse"
      /\ UNCHANGED <<b_blk, b_uptodate, b_data, latest, disk, errors, request, op, held,
                     rbh, ret>>
  BY TypeParts DEF MarkDirty, Goto, At, TaskTypeOK, ioVars, opVars, reqVars,
       DataInv, NoFaults, SafeOps
<1>2. PICK b \in held[t] : b_dirt' = [b_dirt EXCEPT ![b] = TRUE]
  BY DEF MarkDirty
<1>3. /\ b \in Buffer /\ b_uptodate[b]
      /\ \A c \in held[t] : c = b
  BY <1>1 DEF TaskTypeOK, UseInv, TaskUse, DataInv, WrittenIsValid
<1>4. b_dirt'[b] /\ \A c \in Buffer : c # b => b_dirt'[c] = b_dirt[c]
  BY <1>1, <1>2, <1>3 DEF BufferTypeOK
<1>5. \A c : Copier(c) => c = b \/ Copier(c)'
  BY <1>1, <1>3 DEF Copier, OthersSame
<1>6. NoFaults' /\ ValidIsLatest'
  BY <1>1 DEF DataInv, NoFaults, ValidIsLatest, OthersSame
<1>7. WrittenIsValid'
  <2>1. \A u \in Task : u # t => rw(u)' = rw(u)
    BY DEF OthersSame, rw
  <2> QED  BY <2>1, <1>1, <1>3, <1>4 DEF DataInv, WrittenIsValid, OthersSame
<1>8. SentIsLatest'
  BY <1>1, <1>4, <1>5 DEF DataInv, SentIsLatest
<1>9. \A c \in Buffer : InWork(c) => InWork(c)'
  BY <1>1, <1>4, <1>5 DEF InWork, WriteQueued
<1>10. OnDisk'
  BY <1>1, <1>9 DEF DataInv, OnDisk
<1> QED
  BY <1>6, <1>7, <1>8, <1>10 DEF DataInv

(* The device takes the data of a valid buffer; ...                        *)
LEMMA SendDataData ==
    ASSUME TypeOK, LockInv, DataInv, NEW m \in Major, SendData(m)
    PROVE  DataInv'
<1> DEFINE r == Head(queue[m])
<1>1. /\ IoTypeOK /\ BufferTypeOK /\ r \in Slot /\ request[r].cmd = WRITE
      /\ request[r].used /\ request[r].bh \in Buffer
      /\ request' = [request EXCEPT ![r].sent = TRUE,
                                    ![r].data = b_data[request[r].bh]]
      /\ UNCHANGED <<b_blk, b_dirt, b_uptodate, b_data, latest, disk, errors, pc, op,
                     held, rbh, ret>>
  <2>1. IoTypeOK /\ BufferTypeOK
    BY TypeParts
  <2>2. queue[m] # <<>> /\ queue[m] \in Seq(Slot)
    BY <2>1 DEF SendData, IoTypeOK
  <2>3. 1 \in 1..Len(queue[m]) /\ r = queue[m][1]
    BY <2>2
  <2>4. r \in Slot /\ request[r].used /\ request[r].bh \in Buffer
    BY <2>3, QueuedRequest, Zenon
  <2> QED  BY <2>1, <2>4 DEF SendData, bufVars, opVars, reqVars
<1> HIDE DEF r
<1>2. /\ \A s \in Slot : /\ request'[s].used = request[s].used
                         /\ request'[s].bh = request[s].bh
                         /\ request'[s].cmd = request[s].cmd
      /\ \A s \in Slot : s # r => request'[s] = request[s]
      /\ request'[r].data = b_data[request[r].bh]
  BY <1>1 DEF IoTypeOK, RequestRecord
<1>3. request'[r].data = latest[b_blk[request[r].bh]]
  BY <1>1, <1>2 DEF DataInv, WrittenIsValid, ValidIsLatest
<1>4. \A c : Copier(c)' <=> Copier(c)
  BY <1>1 DEF Copier
<1>5. \A c : InWork(c)' <=> InWork(c)
  <2>1. \A c : WriteQueued(c)' <=> WriteQueued(c)
    BY <1>2 DEF WriteQueued
  <2> QED  BY <2>1, <1>1, <1>4 DEF InWork
<1>6. NoFaults' /\ ValidIsLatest'
  BY <1>1 DEF DataInv, NoFaults, ValidIsLatest
<1>7. WrittenIsValid'
  <2>1. \A u \in Task : rw(u)' = rw(u)
    BY <1>1 DEF rw
  <2>2. WrittenIsValid
    BY DEF DataInv
  <2>3. /\ \A b \in Buffer : b_dirt'[b] => b_uptodate'[b]
        /\ \A t \in Task : pc'[t] \in {"use", "use2"} => \A b \in held'[t] : b_uptodate'[b]
        /\ \A t \in Task : pc'[t] \in InMakeRequest =>
              (rw(t)' = WRITE <=> b_uptodate'[rbh'[t]])
    BY <2>1, <2>2, <1>1 DEF WrittenIsValid
  <2>4. ASSUME NEW s \in Slot, request'[s].used
        PROVE  /\ b_blk'[request'[s].bh] \in Block
               /\ request'[s].cmd = WRITE <=> b_uptodate'[request'[s].bh]
    <3>1. request[s].used /\ request'[s].bh = request[s].bh /\ request'[s].cmd = request[s].cmd
      BY <2>4, <1>2
    <3>2. /\ b_blk[request[s].bh] \in Block
          /\ request[s].cmd = WRITE <=> b_uptodate[request[s].bh]
      BY <3>1, <2>2 DEF WrittenIsValid
    <3> QED  BY <3>1, <3>2, <1>1
  <2> QED  BY <2>3, <2>4 DEF WrittenIsValid
<1>8. SentIsLatest'
  <2> SUFFICES ASSUME NEW s \in Slot, NEW c \in Buffer, request'[s].used,
                      request'[s].bh = c, request'[s].cmd = WRITE, request'[s].sent
               PROVE  request'[s].data = latest[b_blk[c]] \/ b_dirt[c] \/ Copier(c)
    BY <1>1, <1>4 DEF SentIsLatest
  <2>1. CASE s = r
    BY <2>1, <1>2, <1>3
  <2>2. CASE s # r
    BY <2>2, <1>2 DEF DataInv, SentIsLatest
  <2> QED  BY <2>1, <2>2
<1>9. OnDisk'
  BY <1>1, <1>5 DEF DataInv, OnDisk
<1> QED
  BY <1>6, <1>7, <1>8, <1>9 DEF DataInv

(* ... a block read is the last one written, and what is written is, too,  *)
(* unless there is more to write.                                          *)
LEMMA RequestOkData ==
    ASSUME TypeOK, LockInv, DataInv, NEW m \in Major, RequestOk(m)
    PROVE  DataInv'
<1> DEFINE r == Head(queue[m])
           b == request[r].bh
           k == <<request[r].dev, request[r].sector \div 2>>
<1>1. /\ queue[m] # <<>>
      /\ request[r].cmd = WRITE => request[r].sent
      /\ b_data' = IF request[r].cmd = READ
                   THEN [b_data EXCEPT ![b] = disk[k]] ELSE b_data
      /\ disk' = IF request[r].cmd = WRITE
                 THEN [disk EXCEPT ![k] = request[r].data] ELSE disk
      /\ b_uptodate' = [b_uptodate EXCEPT ![b] = TRUE]
      /\ request' = [request EXCEPT ![r] = NoRequest]
      /\ UNCHANGED <<b_blk, b_dirt, latest, errors, pc, op, held, rbh, ret>>
  BY DEF RequestOk, end_request, Complete, opVars, reqVars
<1>2. IoTypeOK /\ BufferTypeOK /\ TaskTypeOK
  BY TypeParts
<1>3. queue[m] \in Seq(Slot) /\ 1 \in 1..Len(queue[m]) /\ r = queue[m][1]
  BY <1>1, <1>2 DEF IoTypeOK
<1>4. /\ r \in Slot /\ request[r].used /\ b \in Buffer
      /\ k = b_blk[b] /\ k \in Block
  <2> HIDE DEF r
  <2> QED  BY <1>3, QueuedRequest
<1>5. /\ request[r].cmd \in {READ, WRITE} /\ READ # WRITE /\ ~NoRequest.used
      /\ request[r].cmd = WRITE <=> b_uptodate[b]
  BY <1>2, <1>4 DEF IoTypeOK, RequestRecord, NoRequest, READ, WRITE, DataInv,
       WrittenIsValid
<1>6. Requests(b) = {r} /\ Lockers(b) = {}
  <2>1. r \in Requests(b)
    BY <1>4 DEF Requests
  <2> QED  BY <2>1, <1>4 DEF LockInv, LockHasOneOwner
<1>7. \A c \in Buffer : b_blk[c] = k => c = b
  BY <1>4, NoBlockIsNone DEF LockInv, UniqueBlock
<1>8. request[r].cmd = WRITE =>
         request[r].data = latest[k] \/ b_dirt[b] \/ Copier(b)
  BY <1>1, <1>4 DEF DataInv, SentIsLatest
<1>9. request[r].cmd = READ => disk[k] = latest[k]
  <2> SUFFICES ASSUME request[r].cmd = READ PROVE disk[k] = latest[k]
    OBVIOUS
  <2>1. ~b_uptodate[b]
    BY <1>5
  <2>2. ~b_dirt[b] /\ ~Copier(b)
    BY <2>1, <1>4 DEF DataInv, WrittenIsValid, Copier
  <2>3. ~WriteQueued(b)
    BY <1>5, <1>6 DEF WriteQueued, Requests
  <2> QED  BY <2>2, <2>3, <1>4, <1>7 DEF DataInv, OnDisk, InWork
<1> HIDE DEF r, b, k
<1>10. /\ ~request'[r].used
       /\ \A s \in Slot : s # r => request'[s] = request[s]
       /\ \A s \in Slot : request'[s].used =>
             s # r /\ request[s].used /\ request[s].bh # b
  BY <1>1, <1>2, <1>4, <1>5, <1>6 DEF IoTypeOK, Requests
<1>11. /\ b_uptodate'[b]
       /\ \A c \in Buffer : c # b => b_uptodate'[c] = b_uptodate[c]
       /\ request[r].cmd = READ => b_data'[b] = disk[k] /\ disk' = disk
       /\ request[r].cmd = WRITE => b_data' = b_data /\ disk'[k] = request[r].data
       /\ \A c \in Buffer : c # b => b_data'[c] = b_data[c]
       /\ \A j \in Block : j # k => disk'[j] = disk[j]
  BY <1>1, <1>2, <1>4, <1>5 DEF IoTypeOK, BufferTypeOK
<1>12. \A c : Copier(c)' <=> Copier(c)
  BY <1>1 DEF Copier
<1>13. NoFaults'
  BY <1>1 DEF DataInv, NoFaults
<1>14. ValidIsLatest'
  <2> SUFFICES ASSUME NEW c \in Buffer, b_blk[c] \in Block, b_uptodate'[c]
               PROVE  b_data'[c] = latest[b_blk[c]]
    BY <1>1 DEF ValidIsLatest
  <2>1. CASE c = b
    BY <2>1, <1>4, <1>5, <1>9, <1>11 DEF DataInv, ValidIsLatest
  <2>2. CASE c # b
    BY <2>2, <1>11 DEF DataInv, ValidIsLatest
  <2> QED  BY <2>1, <2>2
<1>15. WrittenIsValid'
  <2>1. \A u \in Task : rw(u)' = rw(u)
    BY <1>1 DEF rw
  <2>2. \A c \in Buffer : b_uptodate[c] => b_uptodate'[c]
    BY <1>11
  <2>3. \A c \in Buffer : b_dirt'[c] => b_uptodate'[c]
    BY <1>1, <2>2 DEF DataInv, WrittenIsValid
  <2>4. \A u \in Task : pc[u] \in {"use", "use2"} => \A c \in held[u] : b_uptodate'[c]
    BY <1>2, <2>2 DEF DataInv, WrittenIsValid, TaskTypeOK
  <2>5. \A u \in Task : pc[u] \in InMakeRequest =>
           rbh[u] \in Buffer /\ rbh[u] # b
    BY <1>2, <1>6 DEF Lockers, TaskTypeOK
  <2>6. \A u \in Task : pc[u] \in InMakeRequest =>
           (rw(u)' = WRITE <=> b_uptodate'[rbh[u]])
    BY <1>11, <2>1, <2>5 DEF DataInv, WrittenIsValid
  <2>7. \A s \in Slot : request'[s].used =>
          /\ b_blk[request'[s].bh] \in Block
          /\ request'[s].cmd = WRITE <=> b_uptodate'[request'[s].bh]
    <3> SUFFICES ASSUME NEW s \in Slot, request'[s].used
                 PROVE  /\ b_blk[request'[s].bh] \in Block
                        /\ request'[s].cmd = WRITE <=> b_uptodate'[request'[s].bh]
      OBVIOUS
    <3>1. request'[s] = request[s] /\ request[s].used /\ request[s].bh # b
      BY <1>10
    <3>2. request[s].bh \in Buffer
      BY <1>2 DEF IoTypeOK, RequestRecord
    <3> QED  BY <3>1, <3>2, <1>11 DEF DataInv, WrittenIsValid
  <2> QED  BY <1>1, <2>3, <2>4, <2>6, <2>7 DEF WrittenIsValid
<1>16. SentIsLatest'
  BY <1>1, <1>10, <1>12 DEF DataInv, SentIsLatest
<1>17. \A c \in Buffer : c # b => (InWork(c) => InWork(c)')
  <2> SUFFICES ASSUME NEW c \in Buffer, c # b, WriteQueued(c) PROVE WriteQueued(c)'
    BY <1>1, <1>12 DEF InWork
  <2>1. PICK s \in Slot : request[s].used /\ request[s].bh = c /\ request[s].cmd = WRITE
    BY DEF WriteQueued
  <2>2. s # r
    BY <2>1 DEF b
  <2>3. request'[s] = request[s]
    BY <2>2, <1>10
  <2> QED  BY <2>1, <2>3 DEF WriteQueued
<1>18. OnDisk'
  <2> SUFFICES ASSUME NEW j \in Block, \A c \in Buffer : b_blk[c] = j => ~InWork(c)'
               PROVE  disk'[j] = latest[j]
    BY <1>1 DEF OnDisk
  <2>1. CASE j = k
    <3>1. ~b_dirt[b] /\ ~Copier(b)
      BY <2>1, <1>1, <1>4, <1>12 DEF InWork
    <3> QED  BY <2>1, <3>1, <1>5, <1>8, <1>9, <1>11
  <2>2. CASE j # k
    <3>1. \A c \in Buffer : b_blk[c] = j => ~InWork(c)
      BY <2>2, <1>4, <1>17
    <3> QED  BY <2>2, <3>1, <1>11 DEF DataInv, OnDisk
  <2> QED  BY <2>1, <2>2
<1> QED
  BY <1>13, <1>14, <1>15, <1>16, <1>18 DEF DataInv

LEMMA DataStepInv ==
    ASSUME Ops \subseteq SafeOps
    PROVE  TypeOK /\ LockInv /\ UseInv /\ DataInv /\ [Next]_vars => DataInv'
<1> SUFFICES ASSUME TypeOK, LockInv, UseInv, DataInv, [Next]_vars PROVE DataInv'
  OBVIOUS
<1>1. ASSUME NEW t \in Task, TaskAction(t) PROVE DataInv'
  <2>1. OthersSame(t)
    BY <1>1, OthersAreSame
  <2>2. ~FileWriteCopy(t) /\ ~invalidate_buffers(t)
    BY DEF FileWriteCopy, invalidate_buffers, At, DataInv, NoFaults, SafeOps
  <2> QED
    BY <1>1, <2>1, <2>2, DataQuietSteps, DataQuietInv, LockBufferData, SlotFoundData,
       GotAheadData, ClaimTakeData, BlockWriteCopyData, MarkDirtyData
       DEF TaskAction, Step
<1>2. ASSUME NEW m \in Major, Device(m) PROVE DataInv'
  <2>1. ~RequestFails(m)
    BY DEF RequestFails, DataInv, NoFaults
  <2> QED  BY <1>2, <2>1, SendDataData, RequestOkData DEF Device
<1>3. CASE UNCHANGED vars
  <2>1. UNCHANGED <<b_blk, b_dirt, b_uptodate, b_data, latest, disk, request, errors,
                    pc, op, held, rbh, ret>>
    BY <1>3 DEF vars, bufVars, ioVars, opVars, reqVars
  <2>2. NoFaults' /\ ValidIsLatest' /\ WrittenIsValid'
    BY <2>1 DEF DataInv, NoFaults, ValidIsLatest, WrittenIsValid, rw
  <2>3. \A c : (Copier(c)' <=> Copier(c)) /\ (InWork(c)' <=> InWork(c))
    BY <2>1 DEF Copier, InWork, WriteQueued
  <2>4. SentIsLatest' /\ OnDisk'
    BY <2>1, <2>3 DEF DataInv, SentIsLatest, OnDisk
  <2> QED  BY <2>2, <2>4 DEF DataInv
<1> QED
  BY <1>1, <1>2, <1>3 DEF Next, TaskAction, Done

LEMMA DataInitInv ==
    ASSUME MaxErrors = 0, Init
    PROVE  DataInv
<1>1. \A b \in Buffer : b_blk[b] \notin Block /\ ~b_dirt[b]
  BY NoBlockIsNone DEF Init
<1>2. \A r \in Slot : ~request[r].used
  BY DEF Init, NoRequest
<1>3. NoFaults /\ WrittenIsValid
  BY <1>1, <1>2 DEF Init, NoFaults, WrittenIsValid, SafeOps
<1>4. ValidIsLatest /\ SentIsLatest
  BY <1>1, <1>2 DEF ValidIsLatest, SentIsLatest
<1>5. OnDisk
  BY DEF Init, OnDisk
<1> QED
  BY <1>3, <1>4, <1>5 DEF DataInv

(* The two data properties follow from the data invariant.                 *)
LEMMA DataIsRight ==
    ASSUME MaxErrors = 0, Ops \subseteq SafeOps
    PROVE  Spec => [](ReadSeesLastWrite /\ CleanIsOnDisk)
<1>1. TypeOK /\ LockInv /\ UseInv /\ DataInv => ReadSeesLastWrite /\ CleanIsOnDisk
  <2> SUFFICES ASSUME TypeOK, LockInv, UseInv, DataInv
               PROVE  ReadSeesLastWrite /\ CleanIsOnDisk
    OBVIOUS
  <2>1. TaskTypeOK /\ BufferTypeOK
    BY TypeParts
  <2>2. ReadSeesLastWrite
    BY <2>1 DEF ReadSeesLastWrite, TaskTypeOK, LockInv, RealBlocks, DataInv,
         WrittenIsValid, ValidIsLatest
  <2>3. CleanIsOnDisk
    <3> SUFFICES ASSUME NEW b \in Buffer, b_blk[b] # NoBlock, b_count[b] = 0,
                        ~b_lock[b], ~b_dirt[b]
                 PROVE  disk[b_blk[b]] = latest[b_blk[b]]
      BY DEF CleanIsOnDisk
    <3>1. b_blk[b] \in Block
      BY <2>1 DEF BufferTypeOK
    <3>2. Users(b) = {} /\ Requests(b) = {}
      BY HeldIsCounted DEF UseInv, LockInv, LockHasOneOwner
    <3>3. ~InWork(b)
      BY <3>2 DEF InWork, WriteQueued, Copier, Users, Requests
    <3>4. \A c \in Buffer : b_blk[c] = b_blk[b] => c = b
      BY DEF LockInv, UniqueBlock
    <3> QED  BY <3>1, <3>3, <3>4 DEF DataInv, OnDisk
  <2> QED  BY <2>2, <2>3
<1>2. Init => DataInv
  BY DataInitInv
<1>3. TypeOK /\ LockInv /\ UseInv /\ DataInv /\ [Next]_vars => DataInv'
  BY DataStepInv
<1> QED
  BY <1>1, <1>2, <1>3, UseInitInv, UseStepInv, InitInv, StepInv, PTL DEF Spec

(* With disks that do not fail and are not changed, and without            *)
(* file_write and the whole-block path of block_write: a reader finds the  *)
(* last write in its buffer (buffer.cc:270-284), for any number of tasks,  *)
(* buffers and blocks, whoever took, read and wrote buffers meanwhile.     *)
THEOREM ReadersSeeLastWrite ==
    ASSUME MaxErrors = 0, Ops \subseteq SafeOps
    PROVE  Spec => []ReadSeesLastWrite
BY DataIsRight, PTL

(* Under the same conditions a buffer that getblk may give away holds      *)
(* nothing that is not on the disk: no write is lost (buffer.cc:244-245).  *)
THEOREM CleanBuffersOnDisk ==
    ASSUME MaxErrors = 0, Ops \subseteq SafeOps
    PROVE  Spec => []CleanIsOnDisk
BY DataIsRight, PTL

=============================================================================
