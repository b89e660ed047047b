---------------------------- MODULE BufferCache ----------------------------
(***************************************************************************)
(* The buffer cache (fs/buffer.cc) on top of the block request layer       *)
(* (kernel/blk_drv/ll_rw_blk.cc, blk.h), used by the tasks that read and   *)
(* write blocks (fs/block_dev.cc, fs/file_dev.cc, mm/memory.cc).           *)
(*                                                                         *)
(* A task runs in kernel mode until it sleeps: its steps need current = t  *)
(* (module SleepOn).  Only the interrupts of the block devices fall        *)
(* between them.  Every place where a function of buffer.cc may sleep is a *)
(* value of pc[t]; the local variables of the functions t is in are        *)
(* functions of t.                                                         *)
(*                                                                         *)
(* Left out: the hash chains (find_buffer is "the buffer with this         *)
(* block"), the inodes that sync_dev and sys_sync write first, and the     *)
(* contents of a block, for which the number of the write that made it     *)
(* stands.                                                                 *)
(***************************************************************************)
EXTENDS SleepOn, Request, Integers

CONSTANTS
    NR_BUFFERS,     \* the number of buffer heads
    Block,          \* the blocks in use, pairs <<dev, block number>>
    Driver,         \* the major numbers with a request_fn
    Ops,            \* the operations the tasks call
    MaxOps,         \* bound: calls of an operation
    MaxErrors       \* bound: requests that fail

MAJOR(dev) == dev \div 256

Buffer == 1..NR_BUFFERS
NoBlock == <<0, 0>>         \* b_dev = 0: buffer_init

b_wait(b) == <<"b_wait", b>>
buffer_wait == <<"buffer_wait", 0>>
wait_for_request == <<"wait_for_request", 0>>

AllOps == {"file_read", "file_write", "block_read", "block_write",
           "block_write_full", "bread_page", "sys_sync", "check_disk_change"}

ASSUME BufferAssumption ==
    /\ NR_BUFFERS \in Nat \ {0}
    /\ Block # {} /\ Block \subseteq (Nat \ {0}) \X Nat
    /\ Ops \subseteq AllOps
    /\ MaxOps \in Nat
    /\ MaxErrors \in Nat
    /\ {b_wait(b) : b \in Buffer} \cup {buffer_wait, wait_for_request}
          \subseteq Queue

(* task[] has NR_TASKS entries (sched.cc).                                 *)
ASSUME TasksFinite == IsFiniteSet(Task)

VARIABLES
    b_blk,          \* <<b_dev, b_blocknr>>
    b_count, b_lock, b_dirt, b_uptodate, b_data,
    free_list,      \* the buffers in the order of the circular free list
    request,        \* the request table
    queue,          \* queue[m]: blk_dev[m].current_request and its followers
    disk,           \* what is on the disks
    pc,             \* where the task is in the functions of buffer.cc
    op,             \* the operation it is in
    todo,           \* blocks still to be got (bread_page, breada)
    held,           \* buffers got and not yet released
    key, bh,        \* getblk: the block wanted, the buffer looked at
    idx, sdev,      \* sync loops: 1 + loop index, device
    rbh, major,     \* ll_rw_block: its buffer and its local major,
    ret,            \* ... and where the call returns to
    left, errors,   \* operations and I/O errors left (bounds)
    missed,         \* ghost: wake-ups that came before the sleep they end
    latest          \* history: the last write to each block

bufVars == <<b_blk, b_count, b_lock, b_dirt, b_uptodate, b_data, free_list>>
ioVars == <<request, queue, disk, errors, missed>>
opVars == <<op, todo, held, left, latest>>
getVars == <<key, bh>>
syncVars == <<idx, sdev>>
reqVars == <<rbh, major, ret>>
vars == <<sleepVars, bufVars, ioVars, pc, opVars, getVars, syncVars, reqVars>>

Major == {MAJOR(k[1]) : k \in Block}

NoRequest == [used |-> FALSE, cmd |-> READ, dev |-> 0, sector |-> 0,
              bh |-> 1, sent |-> FALSE, data |-> 0]
FreeSlots == {r \in Slot : ~request[r].used}

(* In make_request: looking for a slot, none found, and the statements of  *)
(* the sleep on wait_for_request.                                          *)
InMakeRequest == {"slot", "full", "reads", "heads"}

Pc == {"user", "find", "found", "scan", "claim", "got", "more", "finish",
       "use", "use2", "brelse", "sync", "syncdev", "inval",
       "lock"} \cup InMakeRequest

TypeOK ==
    /\ SleepTypeOK
    /\ b_blk \in [Buffer -> Block \cup {NoBlock}]
    /\ b_count \in [Buffer -> Int]
    /\ b_lock \in [Buffer -> BOOLEAN]
    /\ b_dirt \in [Buffer -> BOOLEAN]
    /\ b_uptodate \in [Buffer -> BOOLEAN]
    /\ b_data \in [Buffer -> Nat]
    /\ free_list \in [Buffer -> Buffer]
    /\ request \in [Slot -> [used : BOOLEAN, cmd : {READ, WRITE}, dev : Nat,
                             sector : Nat, bh : Buffer, sent : BOOLEAN,
                             data : Nat]]
    /\ queue \in [Major -> Seq(Slot)]
    /\ disk \in [Block -> Nat]
    /\ latest \in [Block -> Nat]
    /\ pc \in [Task -> Pc]
    /\ op \in [Task -> AllOps]
    /\ todo \in [Task -> SUBSET Block]
    /\ held \in [Task -> SUBSET Buffer]
    /\ key \in [Task -> Block]
    /\ bh \in [Task -> Buffer]
    /\ idx \in [Task -> Nat]
    /\ sdev \in [Task -> Nat]
    /\ rbh \in [Task -> Buffer]
    /\ major \in [Task -> Nat]
    /\ ret \in [Task -> {"more", "sync", "syncdev"}]
    /\ left \in Nat
    /\ errors \in Nat
    /\ missed \subseteq {"late", "lost"}

(* buffer_init, blk_dev_init; no task is in the kernel.                    *)
Init ==
    /\ SleepInit
    /\ b_blk = [b \in Buffer |-> NoBlock]
    /\ b_count = [b \in Buffer |-> 0]
    /\ b_lock = [b \in Buffer |-> FALSE]
    /\ b_dirt = [b \in Buffer |-> FALSE]
    /\ b_uptodate = [b \in Buffer |-> FALSE]
    /\ b_data = [b \in Buffer |-> 0]
    /\ free_list = [n \in Buffer |-> n]
    /\ request = [r \in Slot |-> NoRequest]
    /\ queue = [m \in Major |-> <<>>]
    /\ disk = [k \in Block |-> 0]
    /\ latest = [k \in Block |-> 0]
    /\ pc = [t \in Task |-> "user"]
    /\ op = [t \in Task |-> "sys_sync"]
    /\ todo = [t \in Task |-> {}]
    /\ held = [t \in Task |-> {}]
    /\ key = [t \in Task |-> CHOOSE k \in Block : TRUE]
    /\ bh = [t \in Task |-> 1]
    /\ idx = [t \in Task |-> 1]
    /\ sdev = [t \in Task |-> 0]
    /\ rbh = [t \in Task |-> 1]
    /\ major = [t \in Task |-> 0]
    /\ ret = [t \in Task |-> "more"]
    /\ left = MaxOps
    /\ errors = MaxErrors
    /\ missed = {}

At(t, l) == current = t /\ pc[t] = l
Goto(t, l) == pc' = [pc EXCEPT ![t] = l]

(* Mutant of Cached: a buffer under I/O is passed over.                    *)
CachedUnlocked(k) == {b \in Buffer : b_blk[b] = k /\ ~b_lock[b]}

Cached(k) == {b \in Buffer : b_blk[b] = k}        \* find_buffer
MoreBlocks(o, k) ==                               \* blocks read besides k
    CASE o = "bread_page" ->
            {R \in SUBSET {j \in Block \ {k} : j[1] = k[1]} : Cardinality(R) <= 3}
      [] o \in {"block_read", "block_write"} ->
            {{<<k[1], k[2] + 1>>, <<k[1], k[2] + 2>>} \cap Block}
      [] OTHER -> {{}}

-----------------------------------------------------------------------------
(***************************************************************************)
(* System calls and page faults enter the block layer.                     *)
(***************************************************************************)
Enter(t, o) ==
    /\ At(t, "user")
    /\ left > 0
    /\ o \in Ops
    /\ left' = left - 1
    /\ op' = [op EXCEPT ![t] = o]
    /\ UNCHANGED <<sleepVars, bufVars, ioVars, held, latest, bh, reqVars>>

(* file_read, file_write: bread; block_read, block_write: breada; a whole  *)
(* block written: getblk; a page fault: bread_page.                        *)
EnterBlock(t, o, k) ==
    /\ Enter(t, o)
    /\ o \notin {"sys_sync", "check_disk_change"}
    /\ key' = [key EXCEPT ![t] = k]
    /\ \E R \in MoreBlocks(o, k) : todo' = [todo EXCEPT ![t] = R]
    /\ Goto(t, "find")
    /\ UNCHANGED syncVars

sys_sync(t) ==
    /\ Enter(t, "sys_sync")
    /\ idx' = [idx EXCEPT ![t] = 1]
    /\ Goto(t, "sync")
    /\ UNCHANGED <<sdev, todo, key>>

(* check_disk_change for a floppy that was changed; the super blocks and   *)
(* inodes it drops are not part of this module.                            *)
check_disk_change(t, dev) ==
    /\ Enter(t, "check_disk_change")
    /\ MAJOR(dev) = 2
    /\ sdev' = [sdev EXCEPT ![t] = dev]
    /\ idx' = [idx EXCEPT ![t] = 1]
    /\ Goto(t, "inval")
    /\ UNCHANGED <<todo, key>>

(* The timer interrupt in user mode takes the processor away.              *)
Preempt(t) ==
    /\ At(t, "user")
    /\ yield(t)
    /\ UNCHANGED <<bufVars, ioVars, pc, opVars, getVars, syncVars, reqVars>>

SwitchTo(t) ==
    /\ switch_to(t)
    /\ UNCHANGED <<bufVars, ioVars, pc, opVars, getVars, syncVars, reqVars>>

-----------------------------------------------------------------------------
(***************************************************************************)
(* wait_on_buffer, and the same loop in lock_buffer: as long as the buffer *)
(* is locked the task sleeps and stays where it is.                        *)
(***************************************************************************)
LoopBuffer(t) == ((idx[t] - 1) % NR_BUFFERS) + 1
LoopEnd(t) == IF pc[t] = "syncdev" THEN 2 * NR_BUFFERS ELSE NR_BUFFERS
InLoop(t) ==
    /\ idx[t] <= LoopEnd(t)
    /\ pc[t] = "sync" \/ b_blk[LoopBuffer(t)][1] = sdev[t]

WaitsFor(t) ==
    CASE pc[t] \in {"found", "claim"} -> {bh[t]}
      [] pc[t] \in {"finish", "brelse"} -> held[t]
      [] pc[t] = "lock" -> {rbh[t]}
      [] pc[t] \in {"sync", "syncdev", "inval"} ->
            IF InLoop(t) THEN {LoopBuffer(t)} ELSE {}
      [] OTHER -> {}

wait_on_buffer(t) ==
    /\ current = t
    /\ \E b \in WaitsFor(t) : b_lock[b] /\ sleep_on(t, b_wait(b))
    /\ UNCHANGED <<bufVars, ioVars, pc, opVars, getVars, syncVars, reqVars>>

-----------------------------------------------------------------------------
(***************************************************************************)
(* getblk.                                                                 *)
(***************************************************************************)

(* Mutant of FindHit: the use is not counted.                              *)
FindUncounted(t) ==
    /\ At(t, "find")
    /\ \E b \in Cached(key[t]) : bh' = [bh EXCEPT ![t] = b]
    /\ Goto(t, "found")
    /\ UNCHANGED <<sleepVars, bufVars, ioVars, opVars, key, syncVars, reqVars>>

(* get_hash_table: the block is in the cache.                              *)
FindHit(t) ==
    /\ At(t, "find")
    /\ \E b \in Cached(key[t]) :
          /\ b_count' = [b_count EXCEPT ![b] = @ + 1]
          /\ bh' = [bh EXCEPT ![t] = b]
    /\ Goto(t, "found")
    /\ UNCHANGED <<sleepVars, b_blk, b_lock, b_dirt, b_uptodate, b_data,
                   free_list, ioVars, opVars, key, syncVars, reqVars>>

FindMiss(t) ==
    /\ At(t, "find")
    /\ Cached(key[t]) = {}
    /\ Goto(t, "scan")
    /\ UNCHANGED <<sleepVars, bufVars, ioVars, opVars, getVars, syncVars,
                   reqVars>>

(* get_hash_table after wait_on_buffer: is it still the same block?        *)
Found(t) ==
    /\ At(t, "found")
    /\ ~b_lock[bh[t]]
    /\ IF b_blk[bh[t]] = key[t]
       THEN Goto(t, "got") /\ UNCHANGED b_count
       ELSE Goto(t, "find") /\ b_count' = [b_count EXCEPT ![bh[t]] = @ - 1]
    /\ UNCHANGED <<sleepVars, b_blk, b_lock, b_dirt, b_uptodate, b_data,
                   free_list, ioVars, opVars, getVars, syncVars, reqVars>>

(* The search of the free list for an unused buffer: the first of those    *)
(* with the least BADNESS.                                                 *)
BADNESS(b) == (IF b_dirt[b] THEN 2 ELSE 0) + (IF b_lock[b] THEN 1 ELSE 0)

Unused == {n \in Buffer : b_count[free_list[n]] = 0}
Better(m, n) ==
    LET x == BADNESS(free_list[m])  y == BADNESS(free_list[n])
    IN  x < y \/ (x = y /\ m <= n)

(* No unused buffer: sleep, and start again.                               *)
ScanNone(t) ==
    /\ At(t, "scan")
    /\ Unused = {}
    /\ sleep_on(t, buffer_wait)
    /\ Goto(t, "find")
    /\ UNCHANGED <<bufVars, ioVars, opVars, getVars, syncVars, reqVars>>

ScanPick(t) ==
    /\ At(t, "scan")
    /\ \E n \in Unused :
          /\ \A m \in Unused : Better(n, m)
          /\ bh' = [bh EXCEPT ![t] = free_list[n]]
    /\ Goto(t, "claim")
    /\ UNCHANGED <<sleepVars, bufVars, ioVars, opVars, key, syncVars, reqVars>>

(* The chosen buffer after wait_on_buffer: somebody took it meanwhile, or  *)
(* somebody brought the wanted block in (checked only once it is clean).   *)
ClaimAgain(t) ==
    /\ At(t, "claim")
    /\ ~b_lock[bh[t]]
    /\ \/ b_count[bh[t]] # 0
       \/ ~b_dirt[bh[t]] /\ Cached(key[t]) # {}
    /\ Goto(t, "find")
    /\ UNCHANGED <<sleepVars, bufVars, ioVars, opVars, getVars, syncVars,
                   reqVars>>

(* It is dirty: sync_dev(bh->b_dev), and look again.                       *)
ClaimDirty(t) ==
    /\ At(t, "claim")
    /\ ~b_lock[bh[t]]
    /\ b_count[bh[t]] = 0
    /\ b_dirt[bh[t]]
    /\ sdev' = [sdev EXCEPT ![t] = b_blk[bh[t]][1]]
    /\ idx' = [idx EXCEPT ![t] = 1]
    /\ Goto(t, "syncdev")
    /\ UNCHANGED <<sleepVars, bufVars, ioVars, opVars, getVars, reqVars>>

(* The buffer becomes the one of the wanted block and goes to the end of   *)
(* the free list.                                                          *)
ToEnd(s, b) ==
    LET n == CHOOSE n \in Buffer : s[n] = b
    IN  [i \in Buffer |-> IF i < n THEN s[i] ELSE
                          IF i < NR_BUFFERS THEN s[i+1] ELSE b]

Take(t) ==
    LET b == bh[t] IN
    /\ b_count' = [b_count EXCEPT ![b] = 1]
    /\ b_dirt' = [b_dirt EXCEPT ![b] = FALSE]
    /\ b_blk' = [b_blk EXCEPT ![b] = key[t]]
    /\ free_list' = ToEnd(free_list, b)
    /\ Goto(t, "got")
    /\ UNCHANGED <<sleepVars, b_lock, b_data, ioVars, opVars, getVars,
                   syncVars, reqVars>>
NotValid(b) == b_uptodate' = [b_uptodate EXCEPT ![b] = FALSE]

(* Mutants of ClaimTake: the test of b_count after wait_on_buffer, or       *)
(* b_uptodate=0 is missing.                                                *)
ClaimUsed(t) ==
    /\ At(t, "claim") /\ ~b_lock[bh[t]] /\ ~b_dirt[bh[t]] /\ Cached(key[t]) = {}
    /\ NotValid(bh[t]) /\ Take(t)
ClaimValid(t) ==
    /\ At(t, "claim") /\ ~b_lock[bh[t]] /\ b_count[bh[t]] = 0 /\ ~b_dirt[bh[t]]
    /\ Cached(key[t]) = {}
    /\ UNCHANGED b_uptodate /\ Take(t)

ClaimTake(t) ==
    /\ At(t, "claim")
    /\ ~b_lock[bh[t]]
    /\ b_count[bh[t]] = 0
    /\ ~b_dirt[bh[t]]
    /\ Cached(key[t]) = {}
    /\ NotValid(bh[t])
    /\ Take(t)

-----------------------------------------------------------------------------
(***************************************************************************)
(* ll_rw_block and make_request.                                           *)
(***************************************************************************)

(* The call ll_rw_block(rw, b) of t, to return to r: nothing happens when  *)
(* there is no driver.  The command follows from the place of the call.    *)
ll_rw_block(t, b, r) ==
    LET m == MAJOR(b_blk[b][1]) IN
    /\ Goto(t, IF m \in Driver THEN "lock" ELSE r)
    /\ rbh' = [rbh EXCEPT ![t] = b]
    /\ major' = [major EXCEPT ![t] = m]
    /\ ret' = [ret EXCEPT ![t] = r]

rw(t) == IF ret[t] = "more" THEN READ ELSE WRITE

(* lock_buffer, once the buffer is unlocked, and the test whether there is *)
(* anything to do; if not, unlock_buffer.                                  *)
NeedsIO(t, b) == IF rw(t) = WRITE THEN b_dirt[b] ELSE ~b_uptodate[b]

LockBuffer(t) ==
    LET b == rbh[t] IN
    /\ At(t, "lock")
    /\ ~b_lock[b]
    /\ IF NeedsIO(t, b)
       THEN /\ b_lock' = [b_lock EXCEPT ![b] = TRUE]
            /\ Goto(t, "slot")
            /\ UNCHANGED <<state, wait, tmp>>
       ELSE /\ wake_up({b_wait(b)})
            /\ Goto(t, ret[t])
            /\ UNCHANGED b_lock
    /\ UNCHANGED <<current, b_blk, b_count, b_dirt, b_uptodate, b_data,
                   free_list, ioVars, opVars, getVars, syncVars, reqVars>>

(* A free slot is filled in and linked into the device's list; add_request *)
(* also marks the buffer clean.                                            *)
FillRequest(r, cmd, b, m) ==
    /\ request' = [request EXCEPT ![r] =
            [used |-> TRUE, cmd |-> cmd, dev |-> b_blk[b][1],
             sector |-> 2 * b_blk[b][2], bh |-> b,
             sent |-> FALSE, data |-> 0]]
    /\ queue' = [queue EXCEPT ![m] = add_request(request', @, r)]
    /\ b_dirt' = [b_dirt EXCEPT ![b] = FALSE]

SlotFound(t) ==
    LET r == FindSlot(rw(t), FreeSlots) IN
    /\ At(t, "slot")
    /\ r # 0
    /\ FillRequest(r, rw(t), rbh[t], major[t])
    /\ Goto(t, ret[t])
    /\ UNCHANGED <<sleepVars, b_blk, b_count, b_lock, b_uptodate, b_data,
                   free_list, disk, errors, missed, opVars, getVars, syncVars,
                   reqVars>>

(* No slot.  The search and the sleep on wait_for_request run with         *)
(* interrupts enabled: a request may end between any two statements.       *)
SlotNone(t) ==
    /\ At(t, "slot")
    /\ FindSlot(rw(t), FreeSlots) = 0
    /\ Goto(t, "full")
    /\ UNCHANGED <<sleepVars, bufVars, ioVars, opVars, getVars, syncVars,
                   reqVars>>

SlotReads(t) ==
    /\ At(t, "full")
    /\ SleepReads(t, wait_for_request)
    /\ Goto(t, "reads")
    /\ UNCHANGED <<current, state, wait, bufVars, ioVars, opVars, getVars,
                   syncVars, reqVars>>

SlotHeads(t) ==
    /\ At(t, "reads")
    /\ SleepHeads(t, wait_for_request)
    /\ Goto(t, "heads")
    /\ UNCHANGED <<current, state, tmp, bufVars, ioVars, opVars, getVars,
                   syncVars, reqVars>>

SlotSleep(t) ==
    /\ At(t, "heads")
    /\ SleepStops(t, "UNINTERRUPTIBLE")
    /\ Goto(t, "slot")
    /\ UNCHANGED <<wait, tmp, bufVars, ioVars, opVars, getVars, syncVars,
                   reqVars>>

-----------------------------------------------------------------------------
(***************************************************************************)
(* bread, breada and bread_page after each getblk.                         *)
(***************************************************************************)
Ahead(t) == op[t] \in {"block_read", "block_write"} /\ held[t] # {}

(* A block that is to be used: read it unless it is valid or about to be   *)
(* overwritten as a whole (block_write).                                   *)
GotBlock(t) ==
    LET b == bh[t] IN
    /\ At(t, "got")
    /\ ~Ahead(t)
    /\ held' = [held EXCEPT ![t] = @ \cup {b}]
    /\ IF op[t] # "block_write_full" /\ ~b_uptodate[b]
       THEN ll_rw_block(t, b, "more")
       ELSE /\ Goto(t, IF op[t] = "block_write_full" THEN "use" ELSE "more")
            /\ UNCHANGED reqVars
    /\ UNCHANGED <<sleepVars, bufVars, ioVars, op, todo, left, latest, getVars,
                   syncVars>>

(* Mutant of ReadAhead: the test of b_lock is missing.                     *)
ReadAheadLocked(t, b) ==
    LET m == MAJOR(b_blk[b][1])
        r == FindSlot(READ, FreeSlots)
    IN  IF m \in Driver /\ ~b_uptodate[b] /\ r # 0
        THEN /\ FillRequest(r, READ, b, m)
             /\ b_lock' = [b_lock EXCEPT ![b] = TRUE]
        ELSE UNCHANGED <<request, queue, b_dirt, b_lock>>

(* A block that breada reads ahead.  The read that is started is that of   *)
(* the first block, bh, not of tmp (buffer.cc:339); the use count of tmp   *)
(* is taken back without a wake_up.  READA never sleeps; its unlock_buffer *)
(* when there is nothing to read or no slot finds nobody waiting, as only  *)
(* a locked buffer has sleepers.                                           *)
ReadAhead(t, b) ==
    LET m == MAJOR(b_blk[b][1])
        r == FindSlot(READ, FreeSlots)
    IN  IF m \in Driver /\ ~b_lock[b] /\ ~b_uptodate[b] /\ r # 0
        THEN /\ FillRequest(r, READ, b, m)
             /\ b_lock' = [b_lock EXCEPT ![b] = TRUE]
        ELSE UNCHANGED <<request, queue, b_dirt, b_lock>>

GotAhead(t) ==
    LET b == bh[t] IN
    /\ At(t, "got")
    /\ Ahead(t)
    /\ \E first \in held[t] :
          IF b_uptodate[b] THEN UNCHANGED <<request, queue, b_dirt, b_lock>>
                           ELSE ReadAhead(t, first)
    /\ b_count' = [b_count EXCEPT ![b] = @ - 1]
    /\ Goto(t, "more")
    /\ UNCHANGED <<sleepVars, b_blk, b_uptodate, b_data, free_list, disk,
                   errors, missed, opVars, getVars, syncVars, reqVars>>

(* The next block of the argument list, or the end of it.                  *)
NextBlock(t) ==
    /\ At(t, "more")
    /\ \E k \in todo[t] :
          /\ key' = [key EXCEPT ![t] = k]
          /\ todo' = [todo EXCEPT ![t] = @ \ {k}]
    /\ Goto(t, "find")
    /\ UNCHANGED <<sleepVars, bufVars, ioVars, op, held, left, latest, bh,
                   syncVars, reqVars>>

NoMoreBlocks(t) ==
    /\ At(t, "more")
    /\ todo[t] = {}
    /\ Goto(t, "finish")
    /\ UNCHANGED <<sleepVars, bufVars, ioVars, opVars, getVars, syncVars,
                   reqVars>>

(* Mutant of brelse: nobody is woken.                                      *)
BrelseSilent(t, b, l) ==
    /\ ~b_lock[b]
    /\ b_count' = [b_count EXCEPT ![b] = @ - 1]
    /\ held' = [held EXCEPT ![t] = @ \ {b}]
    /\ Goto(t, l)
    /\ UNCHANGED <<sleepVars, b_blk, b_lock, b_dirt, b_uptodate, b_data,
                   free_list, ioVars, op, todo, left, latest, getVars,
                   syncVars, reqVars>>

(* brelse(b) by a task that goes on at l.                                  *)
brelse(t, b, l) ==
    /\ ~b_lock[b]
    /\ b_count' = [b_count EXCEPT ![b] = @ - 1]
    /\ held' = [held EXCEPT ![t] = @ \ {b}]
    /\ wake_up({buffer_wait})
    /\ Goto(t, l)
    /\ UNCHANGED <<current, b_blk, b_lock, b_dirt, b_uptodate, b_data,
                   free_list, ioVars, op, todo, left, latest, getVars,
                   syncVars, reqVars>>

(* bread_page copies each block when it is there and releases it.          *)
PageDone(t) ==
    /\ At(t, "finish")
    /\ op[t] = "bread_page"
    /\ \E b \in held[t] :
          brelse(t, b, IF held[t] = {b} THEN "user" ELSE "finish")

(* bread and breada return the buffer, or NULL when it could not be read.  *)
ReadDone(t) ==
    /\ At(t, "finish")
    /\ op[t] # "bread_page"
    /\ \E b \in held[t] :
          /\ ~b_lock[b]
          /\ Goto(t, IF b_uptodate[b] THEN "use" ELSE "brelse")
    /\ UNCHANGED <<sleepVars, bufVars, ioVars, opVars, getVars, syncVars,
                   reqVars>>
-----------------------------------------------------------------------------
(***************************************************************************)
(* The callers use the buffer.  Copying from or to user memory may fault,  *)
(* and then the task sleeps with the buffer in use but not locked.         *)
(***************************************************************************)
PageFault(t) ==
    /\ pc[t] \in {"use", "use2"}
    /\ yield(t)
    /\ UNCHANGED <<bufVars, ioVars, pc, opVars, getVars, syncVars, reqVars>>

UseRead(t) ==
    /\ At(t, "use")
    /\ op[t] \in {"file_read", "block_read"}
    /\ Goto(t, "brelse")
    /\ UNCHANGED <<sleepVars, bufVars, ioVars, opVars, getVars, syncVars,
                   reqVars>>

(* The copy of new data into buffer b.                                     *)
Copy(b) ==
    LET k == b_blk[b] IN
    /\ latest' = [latest EXCEPT ![k] = @ + 1]
    /\ b_data' = [b_data EXCEPT ![b] = latest[k] + 1]

(* block_write copies the data and then marks the buffer dirty ...         *)
BlockWriteCopy(t) ==
    /\ At(t, "use")
    /\ op[t] \in {"block_write", "block_write_full"}
    /\ \E b \in held[t] : Copy(b)
    /\ Goto(t, "use2")
    /\ UNCHANGED <<sleepVars, b_blk, b_count, b_lock, b_dirt, b_uptodate,
                   free_list, ioVars, op, todo, held, left, getVars, syncVars,
                   reqVars>>

(* ... file_write marks it dirty first.                                    *)
FileWriteCopy(t) ==
    /\ At(t, "use2")
    /\ op[t] = "file_write"
    /\ \E b \in held[t] : Copy(b)
    /\ Goto(t, "brelse")
    /\ UNCHANGED <<sleepVars, b_blk, b_count, b_lock, b_dirt, b_uptodate,
                   free_list, ioVars, op, todo, held, left, getVars, syncVars,
                   reqVars>>

MarkDirty(t) ==
    /\ \/ At(t, "use") /\ op[t] = "file_write" /\ Goto(t, "use2")
       \/ At(t, "use2") /\ op[t] # "file_write" /\ Goto(t, "brelse")
    /\ \E b \in held[t] : b_dirt' = [b_dirt EXCEPT ![b] = TRUE]
    /\ UNCHANGED <<sleepVars, b_blk, b_count, b_lock, b_uptodate, b_data,
                   free_list, ioVars, opVars, getVars, syncVars, reqVars>>

Release(t) ==
    /\ At(t, "brelse")
    /\ \E b \in held[t] : brelse(t, b, "user")

-----------------------------------------------------------------------------
(***************************************************************************)
(* sys_sync, sync_dev (called by getblk) and invalidate_buffers: loops     *)
(* over all buffers (sync_dev goes round twice) that wait for each one and *)
(* then write or invalidate it.                                            *)
(***************************************************************************)
LoopDone(t) ==
    /\ current = t
    /\ pc[t] \in {"sync", "syncdev", "inval"}
    /\ idx[t] > LoopEnd(t)
    /\ Goto(t, IF pc[t] = "syncdev" THEN "claim" ELSE "user")
    /\ UNCHANGED <<sleepVars, bufVars, ioVars, opVars, getVars, syncVars,
                   reqVars>>

(* Another device's buffer, or a clean one.                                *)
LoopSkip(t) ==
    /\ current = t
    /\ pc[t] \in {"sync", "syncdev", "inval"}
    /\ idx[t] <= LoopEnd(t)
    /\ \/ ~InLoop(t)
       \/ pc[t] # "inval" /\ ~b_lock[LoopBuffer(t)] /\ ~b_dirt[LoopBuffer(t)]
    /\ idx' = [idx EXCEPT ![t] = @ + 1]
    /\ UNCHANGED <<sleepVars, bufVars, ioVars, pc, opVars, getVars, sdev,
                   reqVars>>

SyncWrite(t) ==
    LET b == LoopBuffer(t) IN
    /\ current = t
    /\ pc[t] \in {"sync", "syncdev"}
    /\ InLoop(t)
    /\ ~b_lock[b]
    /\ b_dirt[b]
    /\ idx' = [idx EXCEPT ![t] = @ + 1]
    /\ ll_rw_block(t, b, pc[t])
    /\ UNCHANGED <<sleepVars, bufVars, ioVars, opVars, getVars, sdev>>

invalidate_buffers(t) ==
    LET b == LoopBuffer(t) IN
    /\ At(t, "inval")
    /\ InLoop(t)
    /\ ~b_lock[b]
    /\ b_uptodate' = [b_uptodate EXCEPT ![b] = FALSE]
    /\ b_dirt' = [b_dirt EXCEPT ![b] = FALSE]
    /\ idx' = [idx EXCEPT ![t] = @ + 1]
    /\ UNCHANGED <<sleepVars, b_blk, b_count, b_lock, b_data, free_list, ioVars,
                   pc, opVars, getVars, sdev, reqVars>>

-----------------------------------------------------------------------------
(***************************************************************************)
(* The block devices and their interrupts.                                 *)
(***************************************************************************)

(* The driver hands the data of a write to the controller, at some time    *)
(* between the start of the request and its end (hd.cc: port_write).       *)
SendData(m) ==
    LET r == Head(queue[m]) IN
    /\ queue[m] # <<>>
    /\ request[r].cmd = WRITE
    /\ ~request[r].sent
    /\ request' = [request EXCEPT ![r].sent = TRUE,
                                  ![r].data = b_data[request[r].bh]]
    /\ UNCHANGED <<sleepVars, bufVars, queue, disk, errors, missed, pc, opVars,
                   getVars, syncVars, reqVars>>

(* What the wake-up of wait_for_request by the end of request r misses in  *)
(* the middle of make_request.  "late": the last outstanding request ends  *)
(* after the search found no slot, and nobody sleeps on the queue; the     *)
(* task will sleep although the table is empty.  "lost": the task is the   *)
(* head of the queue but has not yet set its state; nobody points to it    *)
(* when it sleeps.  (Between the two statements before that the old head,  *)
(* which the task remembers, may be woken; it is then woken once more.)    *)
Outstanding == Slot \ FreeSlots
Missed(r) ==
    IF current = NULL THEN {}
    ELSE IF pc[current] = "heads" THEN {"lost"}
    ELSE IF /\ pc[current] \in {"full", "reads"}
            /\ wait[wait_for_request] = NULL
            /\ Outstanding = {r}
    THEN {"late"} ELSE {}

(* end_request(ok), after the data of a read was copied into the buffer.   *)
HeadBuffer(m) == request[Head(queue[m])].bh

Complete(m, ok) ==
    LET r == Head(queue[m])
        q == request[r]
        b == q.bh
        k == <<q.dev, q.sector \div 2>>
    IN
    /\ queue[m] # <<>>
    /\ q.cmd = WRITE => q.sent
    /\ b_data' = IF ok /\ q.cmd = READ THEN [b_data EXCEPT ![b] = disk[k]]
                                       ELSE b_data
    /\ disk' = IF ok /\ q.cmd = WRITE THEN [disk EXCEPT ![k] = q.data] ELSE disk
    /\ b_uptodate' = [b_uptodate EXCEPT ![b] = ok]
    /\ b_lock' = [b_lock EXCEPT ![b] = FALSE]
    /\ request' = [request EXCEPT ![r] = NoRequest]
    /\ queue' = [queue EXCEPT ![m] = Tail(@)]
    /\ missed' = missed \cup Missed(r)
    /\ UNCHANGED <<current, b_blk, b_count, free_list, pc, opVars, getVars,
                   syncVars, reqVars>>

(* Mutant of end_request: the buffer is marked clean when the write ends.   *)
EndCleans(m, ok) ==
    /\ Complete(m, ok)
    /\ wake_up({b_wait(HeadBuffer(m)), wait_for_request})
    /\ b_dirt' = [b_dirt EXCEPT ![HeadBuffer(m)] = FALSE]

end_request(m, ok) ==
    /\ Complete(m, ok)
    /\ wake_up({b_wait(HeadBuffer(m)), wait_for_request})
    /\ UNCHANGED b_dirt

RequestOk(m) == end_request(m, TRUE) /\ UNCHANGED errors
RequestFails(m) == errors > 0 /\ errors' = errors - 1 /\ end_request(m, FALSE)

-----------------------------------------------------------------------------
Step(t) ==
    \/ wait_on_buffer(t)
    \/ FindHit(t) \/ FindMiss(t) \/ Found(t)
    \/ ScanNone(t) \/ ScanPick(t)
    \/ ClaimAgain(t) \/ ClaimDirty(t) \/ ClaimTake(t)
    \/ LockBuffer(t)
    \/ SlotFound(t) \/ SlotNone(t)
    \/ SlotReads(t) \/ SlotHeads(t) \/ SlotSleep(t)
    \/ GotBlock(t) \/ GotAhead(t) \/ NextBlock(t) \/ NoMoreBlocks(t)
    \/ PageDone(t) \/ ReadDone(t)
    \/ UseRead(t) \/ BlockWriteCopy(t) \/ FileWriteCopy(t) \/ MarkDirty(t)
    \/ Release(t)
    \/ LoopDone(t) \/ LoopSkip(t) \/ SyncWrite(t) \/ invalidate_buffers(t)

Call(t) ==
    \/ \E o \in AllOps, k \in Block : EnterBlock(t, o, k)
    \/ sys_sync(t)
    \/ \E k \in Block : check_disk_change(t, k[1])

Device(m) == SendData(m) \/ RequestOk(m) \/ RequestFails(m)

(* All calls are made and have returned, or a task may sleep for ever.     *)
Done ==
    /\ \/ left = 0 /\ \A t \in Task : pc[t] = "user"
       \/ missed # {}
    /\ UNCHANGED vars

Next ==
    \/ \E t \in Task : Step(t) \/ Call(t) \/ Preempt(t) \/ PageFault(t)
                       \/ SwitchTo(t)
    \/ \E m \in Major : Device(m)
    \/ Done

Spec == Init /\ [][Next]_vars

(* Fairness: a runnable task gets the processor again and goes on with     *)
(* what it does in the kernel, page faults come to an end, the timer takes *)
(* the processor from a task in user mode, and the devices answer.         *)
Fairness ==
    /\ \A t \in Task : /\ SF_vars(Step(t))
                       /\ SF_vars(SwitchTo(t))
                       /\ WF_vars(Preempt(t))
    /\ \A m \in Major : WF_vars(SendData(m)) /\ WF_vars(RequestOk(m))

FairSpec == Spec /\ Fairness
-----------------------------------------------------------------------------
(***************************************************************************)
(* Properties.                                                             *)
(***************************************************************************)

(* A block is in at most one buffer, although getblk sleeps between the    *)
(* search for the block and the claim of a buffer for it: "this buffer is  *)
(* the only one of it's kind" (buffer.cc:244).                             *)
UniqueBlock ==
    \A b, c \in Buffer : b_blk[b] = b_blk[c] /\ b_blk[b] # NoBlock => b = c

(* b_count is the number of users of the buffer.  brelse never finds a     *)
(* free buffer to free (buffer.cc:262), and a buffer that somebody uses is *)
(* never unused for getblk.                                                *)
Users(b) == {t \in Task : b \in held[t]}
Getters(b) == {t \in Task : pc[t] \in {"found", "got"} /\ bh[t] = b}

CountIsUsers ==
    \A b \in Buffer :
        b_count[b] = Cardinality(Users(b)) + Cardinality(Getters(b))

(* A locked buffer has exactly one owner, a task in make_request or a      *)
(* request, and an unlocked one has none.  So no driver finds its buffer   *)
(* unlocked (blk.h:103, 134) and no two requests share a buffer.           *)
Lockers(b) == {t \in Task : pc[t] \in InMakeRequest /\ rbh[t] = b}
Requests(b) == {r \in Slot : request[r].used /\ request[r].bh = b}

LockHasOneOwner ==
    \A b \in Buffer :
        /\ b_lock[b] <=> Lockers(b) # {} \/ Requests(b) # {}
        /\ Lockers(b) = {} \/ Requests(b) = {}
        /\ \A t, u \in Lockers(b) : t = u
        /\ \A r, s \in Requests(b) : r = s

(* As long as a request is queued its buffer is that of the block the      *)
(* request names, and it is in the list of that block's device, though     *)
(* ll_rw_block looked up the device before it slept: no driver meets a     *)
(* foreign request (blk.h:131) or fills a buffer with another block.       *)
RequestFitsBuffer ==
    \A m \in Major : \A n \in 1..Len(queue[m]) :
        LET q == request[queue[m][n]] IN
        /\ q.used
        /\ <<q.dev, q.sector \div 2>> = b_blk[q.bh]
        /\ MAJOR(q.dev) = m

(* The buffer that a task got from getblk stays the buffer of that block   *)
(* until the task releases it, whoever runs while the task sleeps.         *)
HeldBlockStays ==
    [][\A t \in Task : \A b \in held[t] : b_blk'[b] = b_blk[b]]_vars

(* Unless a request has ended between "*p = current" and the state of the  *)
(* task, no sleeper is lost: it is the head of a queue, or a task that has *)
(* yet to run or to be woken remembers it.                                 *)
NoSleeperLost ==
    "lost" \notin missed =>
    \A t \in Task : state[t] = "UNINTERRUPTIBLE" =>
        \/ \E q \in Queue : wait[q] = t
        \/ \E u \in Task : tmp[u] = t

(* A read returns what was written last (no I/O errors, no disk change).   *)
ReadSeesLastWrite ==
    \A t \in Task : pc[t] = "use" /\ op[t] \in {"file_read", "block_read"} =>
        \A b \in held[t] : b_data[b] = latest[b_blk[b]]

(* An unused, unlocked and clean buffer may be given away: "we know that   *)
(* ... it's unused (b_count=0), unlocked (b_lock=0), and clean"            *)
(* (buffer.cc:244-245).  What was written to it is on the disk.            *)
CleanIsOnDisk ==
    \A b \in Buffer :
        /\ b_blk[b] # NoBlock
        /\ b_count[b] = 0
        /\ ~b_lock[b]
        /\ ~b_dirt[b]
        => disk[b_blk[b]] = latest[b_blk[b]]

(* Every call returns unless a wake-up is missed in make_request: nobody   *)
(* waits for ever, for a lock, a request slot or a buffer, if there are    *)
(* enough buffers for what the tasks hold while they wait for more.        *)
EveryCallReturns == \A t \in Task : []<>(pc[t] = "user" \/ missed # {})
=============================================================================
