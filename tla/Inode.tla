------------------------------- MODULE Inode -------------------------------
(***************************************************************************)
(* The inode table, fs/inode.cc, with the parts of fs/bitmap.cc and        *)
(* fs/super.cc that work on it: iget, iput, the search for an empty inode, *)
(* new and freed inodes, sync, pipes, mount and umount.                    *)
(*                                                                         *)
(* A task in the kernel runs until it sleeps: on a locked inode, or for a  *)
(* block (bread, brelse, truncate).  cpu is the task that runs; a task has *)
(* a stack of frames, the functions it is in with their inode variable.    *)
(* The only field of an inode on disk is i_nlinks; links is a ghost: the   *)
(* number of directory entries there are for an inode.  Disk changes are   *)
(* not modelled (check_disk_change, invalidate_inodes).                    *)
(*                                                                         *)
(* trouble is a ghost that names the known races of this code as they hit: *)
(*   "stale"      iget for a number whose last name was removed while the  *)
(*                caller slept between reading the entry and iget;         *)
(*   "unmounted"  iget crossed a mount point to a device that is being     *)
(*                unmounted: umount has looked at the inodes in use before;*)
(*   "locked"     free_inode clears an inode that is being written;        *)
(*   "twice"      a second umount of a device, while the first one sleeps  *)
(*                in iput(s_imount) ("Mounted inode has i_mount=0").       *)
(***************************************************************************)
EXTENDS Naturals, Sequences, FiniteSets, FiniteSetsExt

CONSTANTS
    Task,
    NR_INODE, NR_SUPER,
    Dev, ROOT_DEV,
    Num,                \* inode numbers of a device
    InitLinks,          \* links of every inode on the disks at the start
    BlkFile,            \* the block special files
    None,
    Go,                 \* TRUE: the system goes on after a known race
    MaxHeld, MaxLinks,  \* bounds: inodes a task holds, links,
    MaxCalls            \* ... and calls

ROOT_INO == 1
Slot == 1..NR_INODE
Super == 1..NR_SUPER

ASSUME InodeAssumption ==
    /\ NR_INODE \in Nat \ {0} /\ NR_SUPER \in Nat \ {0}
    /\ ROOT_DEV \in Dev /\ 0 \notin Dev /\ ROOT_INO \in Num /\ Num \subseteq Nat \ {0}
    /\ InitLinks \in [Dev \X Num -> Nat] /\ InitLinks[<<ROOT_DEV, ROOT_INO>>] > 0
    /\ None \notin Task /\ IsFiniteSet(Task) /\ Go \in BOOLEAN
    /\ MaxLinks \in Nat

VARIABLES
    inode,      \* inode_table
    super,      \* super_block
    disk,       \* i_nlinks of the inodes on the disks (and in the buffers)
    imap,       \* the inode bitmaps of the disks: the numbers in use
    links,      \* ghost: directory entries
    task, cpu,
    panic, trouble, calls

ioVars == <<disk, imap, links>>
vars == <<inode, super, ioVars, task, cpu, panic, trouble, calls>>

Zeroed == [dev |-> 0, num |-> 0, count |-> 0, dirt |-> FALSE, lock |-> None,
           pipe |-> FALSE, mount |-> FALSE, nlinks |-> 0]
NoSuper == [dev |-> 0, imount |-> 0, isup |-> 0, lock |-> FALSE]
Frame(at, i) == [at |-> at, i |-> i]

(* After mount_root: the root inode is used by its super block, twice, and *)
(* by every task.                                                          *)
mount_root ==
    /\ inode = [i \in Slot |-> IF i = 1
                  THEN [Zeroed EXCEPT !.dev = ROOT_DEV, !.num = ROOT_INO,
                                      !.count = 2 + Cardinality(Task), !.mount = FALSE,
                                      !.nlinks = InitLinks[<<ROOT_DEV, ROOT_INO>>]]
                  ELSE Zeroed]
    /\ super = [s \in Super |-> IF s = 1 THEN [dev |-> ROOT_DEV, imount |-> 1, isup |-> 1,
                                               lock |-> FALSE] ELSE NoSuper]
    /\ disk = InitLinks /\ links = InitLinks
    /\ imap = {p \in Dev \X Num : InitLinks[p] > 0}
    /\ task = [t \in Task |-> [stk |-> <<>>, dev |-> 0, nr |-> 0, empty |-> 0, got |-> 0,
                               sb |-> 0, held |-> [i \in Slot |-> 0]]]
    /\ cpu = None /\ panic = "none" /\ trouble = {} /\ calls = MaxCalls

-----------------------------------------------------------------------------
(* Control.  IO: the frames whose task sleeps for a block.                 *)
IO == {"brelse", "read", "write", "trunc", "read_super"}
WaitsOnInode == {"iput", "irepeat", "found", "write_inode", "sync"}

get_super(dev) == {s \in Super : dev # 0 /\ super[s].dev = dev}

Blocked(f, table) ==
    \/ f.at \in WaitsOnInode /\ f.i \in Slot /\ table[f.i].lock # None
    \/ f.at = "mount_super" /\ \E s \in get_super(f.i) : super[s].lock

Top(stk) == IF stk = <<>> THEN Frame("user", 0) ELSE Head(stk)

CanRun(t) ==
    /\ panic = "none" /\ (trouble # {} => Go)
    /\ cpu = t \/ (cpu = None /\ ~Blocked(Top(task[t].stk), inode))

At(t, at) == CanRun(t) /\ Top(task[t].stk).at = at
It(t) == Head(task[t].stk).i
Rest(t) == Tail(task[t].stk)

(* The task goes on with the record rec, or sleeps.                        *)
Runs(t, rec) ==
    /\ task' = [task EXCEPT ![t] = rec]
    /\ cpu' = IF Top(rec.stk).at \in IO \cup {"user"} \/ Blocked(Top(rec.stk), inode')
              THEN None ELSE t

Next_(t, stk) == Runs(t, [task[t] EXCEPT !.stk = stk])

Halts(what) ==
    /\ panic' = what
    /\ UNCHANGED <<inode, super, ioVars, task, cpu, calls>>

Panics(what) == Halts(what) /\ UNCHANGED trouble

(* A system call begins.  A call of several others counts as such.         *)
BeginsFor(t, n) == At(t, "user") /\ calls >= n /\ calls' = calls - n
Begins(t) == BeginsFor(t, 1)
Holds(t) == {i \in Slot : task[t].held[i] > 0}
MayHold(t) == MapThenSumSet(LAMBDA i : task[t].held[i], Slot) < MaxHeld

-----------------------------------------------------------------------------
(***************************************************************************)
(* Calls.                                                                  *)
(***************************************************************************)
(* get_dir and namei: an entry is read in a directory (its own inode or    *)
(* the root), brelse sleeps, the directory is put back, iget.              *)
namei(t, dir, nr) ==
    /\ Begins(t) /\ MayHold(t)
    /\ dir \in Holds(t) \cup {1} /\ ~inode[dir].pipe
    /\ inode[dir].dev # 0 /\ links[<<inode[dir].dev, nr>>] > 0 /\ nr # ROOT_INO
    /\ inode' = [inode EXCEPT ![dir].count = @ + 1]
    /\ Runs(t, [task[t] EXCEPT !.dev = inode[dir].dev, !.nr = nr,
            !.stk = <<Frame("brelse", 0), Frame("iput", dir), Frame("iget", 0),
                      Frame("keep", 0)>>])
    /\ UNCHANGED <<super, ioVars, panic, trouble>>

brelse(t) ==
    /\ At(t, "brelse")
    /\ UNCHANGED inode /\ Next_(t, Rest(t))
    /\ UNCHANGED <<super, ioVars, panic, trouble, calls>>

(* The caller has the inode; namei and the others mark it dirty.           *)
Keep(t) ==
    LET i == task[t].got IN
    /\ At(t, "keep")
    /\ inode' = IF i = 0 \/ inode[i].pipe THEN inode ELSE [inode EXCEPT ![i].dirt = TRUE]
    /\ Runs(t, [task[t] EXCEPT !.stk = Rest(t), !.got = 0,
                   !.held = [j \in Slot |-> task[t].held[j]
                                + IF j # i THEN 0 ELSE IF inode[j].pipe THEN 2 ELSE 1]])
    /\ UNCHANGED <<super, ioVars, panic, trouble, calls>>

Close(t, i) ==
    /\ Begins(t) /\ i \in Holds(t)
    /\ UNCHANGED inode
    /\ Runs(t, [task[t] EXCEPT !.held[i] = @ - 1, !.stk = <<Frame("iput", i)>>])
    /\ UNCHANGED <<super, ioVars, panic, trouble>>

(* utime, chmod, chown: an inode is looked up, changed and put back.       *)
Change(t, dir, nr) ==
    /\ BeginsFor(t, 3) /\ dir \in Holds(t) \cup {1} /\ ~inode[dir].pipe
    /\ inode[dir].dev # 0 /\ links[<<inode[dir].dev, nr>>] > 0 /\ nr # ROOT_INO
    /\ inode' = [inode EXCEPT ![dir].count = @ + 1]
    /\ Runs(t, [task[t] EXCEPT !.dev = inode[dir].dev, !.nr = nr,
            !.stk = <<Frame("brelse", 0), Frame("iput", dir), Frame("iget", 0),
                      Frame("change", 0)>>])
    /\ UNCHANGED <<super, ioVars, panic, trouble>>

Changes(t) ==
    LET i == task[t].got IN
    /\ At(t, "change") /\ i # 0
    /\ inode' = [inode EXCEPT ![i].dirt = TRUE]
    /\ Runs(t, [task[t] EXCEPT !.got = 0, !.stk = <<Frame("iput", i)>> \o Rest(t)])
    /\ UNCHANGED <<super, ioVars, panic, trouble, calls>>

(* chdir and chroot: the inode takes the place of one that the task holds, *)
(* which is put back first; or it is no directory.                         *)
sys_chdir(t, dir, nr, old) ==
    /\ BeginsFor(t, 2) /\ old \in Holds(t) /\ ~inode[old].pipe /\ dir \in {old, 1}
    /\ inode[dir].dev # 0 /\ links[<<inode[dir].dev, nr>>] > 0 /\ nr # ROOT_INO
    /\ inode' = [inode EXCEPT ![dir].count = @ + 1]
    /\ Runs(t, [task[t] EXCEPT !.dev = inode[dir].dev, !.nr = nr,
            !.stk = <<Frame("brelse", 0), Frame("iput", dir), Frame("iget", 0),
                      Frame("chdir", old)>>])
    /\ UNCHANGED <<super, ioVars, panic, trouble>>

Chdir(t) ==
    LET T == task[t] old == It(t) IN
    /\ At(t, "chdir") /\ T.got # 0
    /\ UNCHANGED inode
    /\ \/ Runs(t, [T EXCEPT !.got = 0, !.stk = <<Frame("iput", T.got)>> \o Rest(t)])
       \/ Runs(t, [T EXCEPT !.held[old] = @ - 1,
                            !.stk = <<Frame("iput", old), Frame("keep", 0)>> \o Rest(t)])
    /\ UNCHANGED <<super, ioVars, panic, trouble, calls>>

(* sys_link and sys_unlink on the inode (the entries are in Names).        *)
Relink(t, i, n) ==
    LET p == <<inode[i].dev, inode[i].num>> IN
    /\ Begins(t) /\ i \in Holds(t) /\ ~inode[i].pipe
    /\ p \notin BlkFile /\ p[2] # ROOT_INO /\ ~inode[i].mount
    /\ links[p] > 0 /\ n \in {links[p] - 1, links[p] + 1} /\ n <= MaxLinks
    /\ inode' = [inode EXCEPT ![i].nlinks = IF n > links[p] THEN @ + 1 ELSE @ - 1,
                              ![i].dirt = TRUE]
    /\ links' = [links EXCEPT ![p] = n]
    /\ UNCHANGED <<super, disk, imap, task, cpu, panic, trouble>>

Creat(t, dir) ==
    /\ Begins(t) /\ MayHold(t) /\ dir \in Holds(t) \cup {1} /\ ~inode[dir].pipe
    /\ UNCHANGED inode
    /\ Runs(t, [task[t] EXCEPT !.dev = inode[dir].dev,
            !.stk = <<Frame("empty", 0), Frame("new_inode", 0), Frame("keep", 0)>>])
    /\ UNCHANGED <<super, ioVars, panic, trouble>>

sys_pipe(t) ==
    /\ Begins(t) /\ MayHold(t)
    /\ UNCHANGED inode
    /\ Next_(t, <<Frame("empty", 0), Frame("get_pipe_inode", 0), Frame("keep", 0)>>)
    /\ UNCHANGED <<super, ioVars, panic, trouble>>

sys_sync(t) ==
    /\ Begins(t)
    /\ UNCHANGED inode /\ Next_(t, <<Frame("sync", 1)>>)
    /\ UNCHANGED <<super, ioVars, panic, trouble>>

-----------------------------------------------------------------------------
(***************************************************************************)
(* iget.                                                                   *)
(***************************************************************************)
iget(t) ==
    /\ At(t, "iget")
    /\ IF task[t].dev = 0 THEN Panics("iget with dev==0")
       ELSE /\ UNCHANGED inode
            /\ Next_(t, <<Frame("empty", 0), Frame("scan", 0)>> \o Rest(t))
            /\ UNCHANGED <<super, ioVars, panic, trouble, calls>>

(* get_empty_inode takes an inode nobody uses (which, depends on the one   *)
(* that it took last).  All those are clean and unlocked (CountIsUsers),   *)
(* so that it does not have to write and to search again.                  *)
get_empty_inode(t) ==
    /\ At(t, "empty")
    /\ IF \A i \in Slot : inode[i].count > 0 THEN Panics("No free inodes in mem")
       ELSE \E i \in {j \in Slot : inode[j].count = 0} :
            /\ inode' = [inode EXCEPT ![i] = [Zeroed EXCEPT !.count = 1]]
            /\ Runs(t, [task[t] EXCEPT !.empty = i, !.stk = Rest(t)])
            /\ UNCHANGED <<super, ioVars, panic, trouble, calls>>

Matches(i, dev, nr) == inode[i].dev = dev /\ inode[i].num = nr

(* iget is about to return an inode that a known race has taken away.  A   *)
(* device is mounted until umount clears i_mount of the directory.         *)
Mounted(dev) ==
    \E s \in Super : /\ super[s].dev = dev /\ super[s].imount # 0
                     /\ dev = ROOT_DEV \/ inode[super[s].imount].mount

Race(T) == (IF links[<<T.dev, T.nr>>] = 0 THEN {"stale"} ELSE {})
           \cup (IF T.nr = ROOT_INO /\ ~Mounted(T.dev) THEN {"unmounted"} ELSE {})

(* Mutant of IgetScans: only inodes that are in use are looked at.         *)
ScansUsed(t) ==
    LET T == task[t]
        match == {i \in Slot : Matches(i, T.dev, T.nr) /\ inode[i].count > 0}
    IN
    /\ At(t, "scan")
    /\ IF match # {} THEN
            /\ UNCHANGED <<inode, trouble>>
            /\ Next_(t, <<Frame("found", Min(match))>> \o Rest(t))
       ELSE /\ inode' = [inode EXCEPT ![T.empty].dev = T.dev, ![T.empty].num = T.nr,
                                      ![T.empty].lock = t]
            /\ trouble' = trouble \cup Race(T)
            /\ Runs(t, [T EXCEPT !.empty = 0, !.stk = <<Frame("read", T.empty)>> \o Rest(t)])
    /\ UNCHANGED <<super, ioVars, panic, calls>>

(* The search; an inode that is not in the table is read (read_inode locks *)
(* it first).                                                              *)
IgetScans(t) ==
    LET T == task[t]
        match == {i \in Slot : Matches(i, T.dev, T.nr)}
    IN
    /\ At(t, "scan")
    /\ IF match # {} THEN
            /\ UNCHANGED <<inode, trouble>>
            /\ Next_(t, <<Frame("found", Min(match))>> \o Rest(t))
            /\ UNCHANGED <<super, ioVars, panic, calls>>
       ELSE /\ trouble' = trouble \cup Race(T)
            /\ IF get_super(T.dev) = {} THEN Halts("trying to read inode without dev")
               ELSE /\ inode' = [inode EXCEPT ![T.empty].dev = T.dev, ![T.empty].num = T.nr,
                                              ![T.empty].lock = t]
                    /\ Runs(t, [T EXCEPT !.empty = 0,
                                         !.stk = <<Frame("read", T.empty)>> \o Rest(t)])
                    /\ UNCHANGED <<super, ioVars, panic, calls>>

(* After wait_on_inode: another inode by now, a mount point, or the one.   *)
IgetFound(t) ==
    LET T == task[t]
        i == It(t)
        over == {s \in Super : super[s].imount = i}
    IN
    /\ At(t, "found")
    /\ \/ /\ ~Matches(i, T.dev, T.nr)
          /\ UNCHANGED <<inode, trouble>>
          /\ Next_(t, <<Frame("scan", 0)>> \o Rest(t))
       \/ /\ Matches(i, T.dev, T.nr) /\ inode[i].mount /\ over # {}
          /\ inode' = [inode EXCEPT ![i].count = @ + 1]
          /\ Next_(t, <<Frame("iput", i), Frame("cross", Min(over))>> \o Rest(t))
          /\ UNCHANGED trouble
       \/ /\ Matches(i, T.dev, T.nr) /\ ~(inode[i].mount /\ over # {})
          /\ inode' = [inode EXCEPT ![i].count = @ + 1]
          /\ trouble' = trouble \cup Race(T)
          /\ Runs(t, [T EXCEPT !.got = i, !.empty = 0,
                               !.stk = <<Frame("iput", T.empty)>> \o Rest(t)])
    /\ UNCHANGED <<super, ioVars, panic, calls>>

(* The root of the mounted device is looked for.                           *)
IgetCrosses(t) ==
    /\ At(t, "cross")
    /\ UNCHANGED inode
    /\ Runs(t, [task[t] EXCEPT !.dev = super[It(t)].dev, !.nr = ROOT_INO,
                               !.stk = <<Frame("scan", 0)>> \o Rest(t)])
    /\ UNCHANGED <<super, ioVars, panic, trouble, calls>>

(* The block is there: the inode is copied from it.                        *)
read_inode(t) ==
    LET i == It(t) IN
    /\ At(t, "read")
    /\ inode' = [inode EXCEPT ![i].nlinks = disk[<<inode[i].dev, inode[i].num>>], ![i].lock = None]
    /\ Runs(t, [task[t] EXCEPT !.got = i, !.stk = Rest(t)])
    /\ UNCHANGED <<super, ioVars, panic, trouble, calls>>

(* new_inode: the first free bit; its number, links and count are set.     *)
new_inode(t) ==
    LET T == task[t]
        free == {n \in Num : <<T.dev, n>> \notin imap}
        p == <<T.dev, Min(free)>>
    IN
    /\ At(t, "new_inode")
    /\ IF get_super(T.dev) = {} THEN Panics("new_inode with unknown device")
       ELSE /\ \/ /\ free = {}
                  /\ UNCHANGED <<inode, imap, links>>
                  /\ Runs(t, [T EXCEPT !.empty = 0,
                                       !.stk = <<Frame("iput", T.empty)>> \o Rest(t)])
               \/ /\ free # {}
                  /\ imap' = imap \cup {p} /\ links' = [links EXCEPT ![p] = 1]
                  /\ inode' = [inode EXCEPT ![T.empty] = [@ EXCEPT !.dev = p[1], !.num = p[2],
                                                !.count = 1, !.nlinks = 1, !.dirt = TRUE]]
                  /\ Runs(t, [T EXCEPT !.empty = 0, !.got = T.empty, !.stk = Rest(t)])
            /\ UNCHANGED <<super, disk, panic, trouble, calls>>

(* get_pipe_inode: a page, and two users; or there is no page.             *)
get_pipe_inode(t) ==
    LET i == task[t].empty IN
    /\ At(t, "get_pipe_inode")
    /\ \/ /\ inode' = [inode EXCEPT ![i].count = 2, ![i].pipe = TRUE]
          /\ Runs(t, [task[t] EXCEPT !.empty = 0, !.got = i, !.stk = Rest(t)])
       \/ /\ inode' = [inode EXCEPT ![i].count = 0]
          /\ Runs(t, [task[t] EXCEPT !.empty = 0, !.stk = Rest(t)])
    /\ UNCHANGED <<super, ioVars, panic, trouble, calls>>

-----------------------------------------------------------------------------
(***************************************************************************)
(* iput, write_inode, sync_inodes.                                         *)
(***************************************************************************)
iput(t) ==
    LET i == It(t) IN
    /\ At(t, "iput")
    /\ IF inode[i].count = 0 THEN Panics("iput: trying to free free inode")
       ELSE /\ \/ /\ inode[i].pipe
                  /\ inode' = [inode EXCEPT ![i].count = @ - 1,
                                 ![i].dirt = IF inode[i].count = 1 THEN FALSE ELSE @,
                                 ![i].pipe = inode[i].count > 1]
                  /\ Next_(t, Rest(t))
               \/ /\ ~inode[i].pipe /\ inode[i].dev = 0
                  /\ inode' = [inode EXCEPT ![i].count = @ - 1]
                  /\ Next_(t, Rest(t))
               \/ /\ ~inode[i].pipe /\ inode[i].dev # 0
                  /\ UNCHANGED inode
                  /\ Next_(t, IF <<inode[i].dev, inode[i].num>> \in BlkFile    \* sync_dev
                              THEN <<Frame("brelse", 0), Frame("sync", 1),
                                     Frame("irepeat", i)>> \o Rest(t)
                              ELSE <<Frame("irepeat", i)>> \o Rest(t))
            /\ UNCHANGED <<super, ioVars, panic, trouble, calls>>

(* Mutant of iput_repeat: after write_inode the count is not tested again. *)
RepeatOnce(t) ==
    LET i == It(t) IN
    /\ At(t, "irepeat")
    /\ \/ /\ inode[i].count > 1 \/ (inode[i].nlinks > 0 /\ ~inode[i].dirt)
          /\ inode' = [inode EXCEPT ![i].count = @ - 1]
          /\ Next_(t, Rest(t))
       \/ /\ inode[i].count = 1 /\ inode[i].nlinks = 0
          /\ UNCHANGED inode /\ Next_(t, <<Frame("trunc", i)>> \o Rest(t))
       \/ /\ inode[i].count = 1 /\ inode[i].nlinks > 0 /\ inode[i].dirt
          /\ inode' = [inode EXCEPT ![i].count = 0]
          /\ Next_(t, <<Frame("write_inode", i)>> \o Rest(t))
    /\ UNCHANGED <<super, ioVars, panic, trouble, calls>>

(* The label "repeat": the last user frees the inode, or writes it first.  *)
iput_repeat(t) ==
    LET i == It(t) IN
    /\ At(t, "irepeat")
    /\ \/ /\ inode[i].count > 1 \/ (inode[i].nlinks > 0 /\ ~inode[i].dirt)
          /\ inode' = [inode EXCEPT ![i].count = @ - 1]
          /\ Next_(t, Rest(t))
       \/ /\ inode[i].count = 1 /\ inode[i].nlinks = 0
          /\ UNCHANGED inode /\ Next_(t, <<Frame("trunc", i)>> \o Rest(t))
       \/ /\ inode[i].count = 1 /\ inode[i].nlinks > 0 /\ inode[i].dirt
          /\ UNCHANGED inode
          /\ Next_(t, <<Frame("write_inode", i)>> \o task[t].stk)
    /\ UNCHANGED <<super, ioVars, panic, trouble, calls>>

(* After truncate: the bit and the whole structure are cleared.            *)
free_inode(t) ==
    LET i == It(t) IN
    /\ At(t, "trunc")
    /\ IF inode[i].count > 1 THEN Panics("free_inode")
       ELSE IF inode[i].nlinks > 0 THEN Panics("trying to free inode with links")
       ELSE IF get_super(inode[i].dev) = {}
            THEN Panics("trying to free inode on nonexistent device")
       ELSE /\ imap' = imap \ {<<inode[i].dev, inode[i].num>>}
            /\ trouble' = trouble \cup (IF inode[i].lock # None THEN {"locked"} ELSE {})
            /\ inode' = [inode EXCEPT ![i] = Zeroed]
            /\ Next_(t, Rest(t))
            /\ UNCHANGED <<super, disk, links, panic, calls>>

write_inode(t) ==
    LET i == It(t) IN
    /\ At(t, "write_inode")
    /\ IF ~inode[i].dirt \/ inode[i].dev = 0 THEN
            /\ UNCHANGED inode /\ Next_(t, Rest(t))
            /\ UNCHANGED <<super, ioVars, panic, trouble, calls>>
       ELSE IF get_super(inode[i].dev) = {} THEN Panics("trying to write inode without device")
       ELSE /\ inode' = [inode EXCEPT ![i].lock = t]
            /\ Next_(t, <<Frame("write", i)>> \o Rest(t))
            /\ UNCHANGED <<super, ioVars, panic, trouble, calls>>

(* Mutant of Written: the inode is not copied to the buffer.               *)
WrittenNot(t) ==
    LET i == It(t) IN
    /\ At(t, "write")
    /\ inode' = [inode EXCEPT ![i].dirt = FALSE, ![i].lock = None]
    /\ Next_(t, Rest(t))
    /\ UNCHANGED <<super, ioVars, panic, trouble, calls>>

(* The block is there: the inode is copied to it.  (After the race         *)
(* "locked" the structure is no longer the inode that was to be written.)  *)
Written(t) ==
    LET i == It(t) p == <<inode[i].dev, inode[i].num>> IN
    /\ At(t, "write")
    /\ inode' = [inode EXCEPT ![i].dirt = FALSE, ![i].lock = None]
    /\ disk' = IF p \in DOMAIN disk THEN [disk EXCEPT ![p] = inode[i].nlinks] ELSE disk
    /\ Next_(t, Rest(t))
    /\ UNCHANGED <<super, imap, links, panic, trouble, calls>>

(* The block of read_inode or of write_inode cannot be read.               *)
BlockUnread(t) ==
    /\ At(t, "read") \/ At(t, "write")
    /\ Panics("unable to read i-node block")

sync_inodes(t) ==
    LET i == It(t) IN
    /\ At(t, "sync")
    /\ UNCHANGED inode
    /\ IF i > NR_INODE THEN Next_(t, Rest(t))
       ELSE Next_(t, (IF inode[i].dirt /\ ~inode[i].pipe
                      THEN <<Frame("write_inode", i)>> ELSE <<>>)
                     \o <<Frame("sync", i + 1)>> \o Rest(t))
    /\ UNCHANGED <<super, ioVars, panic, trouble, calls>>

-----------------------------------------------------------------------------
(***************************************************************************)
(* mount and umount.                                                       *)
(***************************************************************************)
(* sys_mount has the directory (its reference goes to the mount).          *)
sys_mount(t, i, dev) ==
    /\ Begins(t) /\ i \in Holds(t) /\ ~inode[i].pipe /\ dev \in Dev
    /\ <<inode[i].dev, inode[i].num>> \notin BlkFile
    /\ UNCHANGED inode
    /\ Runs(t, [task[t] EXCEPT !.held[i] = @ - 1, !.stk =
            IF inode[i].count # 1 \/ inode[i].num = ROOT_INO THEN <<Frame("iput", i)>>
            ELSE <<Frame("mount_super", dev), Frame("mount", i)>>])
    /\ UNCHANGED <<super, ioVars, panic, trouble>>

(* read_super: the super block is there, or there is no room, or it is     *)
(* locked and read.                                                        *)
read_super(t) ==
    LET dev == It(t)
        there == get_super(dev)
        room == {s \in Super : super[s].dev = 0}
    IN
    /\ At(t, "mount_super")
    /\ UNCHANGED inode
    /\ \/ /\ there # {} \/ room = {}
          /\ Runs(t, [task[t] EXCEPT !.sb = IF there # {} THEN Min(there) ELSE 0, !.stk = Rest(t)])
          /\ UNCHANGED super
       \/ /\ there = {} /\ room # {}
          /\ super' = [super EXCEPT ![Min(room)] = [NoSuper EXCEPT !.dev = dev, !.lock = TRUE]]
          /\ Next_(t, <<Frame("read_super", Min(room))>> \o Rest(t))
    /\ UNCHANGED <<ioVars, panic, trouble, calls>>

SuperIsRead(t) ==
    LET s == It(t) IN
    /\ At(t, "read_super")
    /\ UNCHANGED inode
    /\ \E ok \in BOOLEAN :
          /\ super' = [super EXCEPT ![s].lock = FALSE, ![s].dev = IF ok THEN @ ELSE 0]
          /\ Runs(t, [task[t] EXCEPT !.sb = IF ok THEN s ELSE 0, !.stk = Rest(t)])
    /\ UNCHANGED <<ioVars, panic, trouble, calls>>

Mount(t) ==
    LET i == It(t)
        s == task[t].sb
        free == {r \in Super : super[r].imount = 0 /\ ~inode[i].mount}
    IN
    /\ At(t, "mount")
    /\ \/ /\ s \notin free
          /\ UNCHANGED <<inode, super>>
          /\ Next_(t, <<Frame("iput", i)>> \o Rest(t))
       \/ /\ s \in free
          /\ super' = [super EXCEPT ![s].imount = i]
          /\ inode' = [inode EXCEPT ![i].mount = TRUE, ![i].dirt = TRUE]
          /\ Next_(t, Rest(t))
    /\ UNCHANGED <<ioVars, panic, trouble, calls>>

(* Mutant of sys_umount: nobody asks whether the device is in use.         *)
UmountAnyway(t, s) ==
    /\ Begins(t) /\ super[s].dev \notin {0, ROOT_DEV} /\ ~super[s].lock /\ super[s].imount # 0
    /\ inode' = [inode EXCEPT ![super[s].imount].mount = FALSE]
    /\ Next_(t, <<Frame("iput", super[s].imount), Frame("umount", s)>>)
    /\ UNCHANGED <<super, ioVars, panic, trouble>>

(* sys_umount up to the first iput (when nothing speaks against it).       *)
sys_umount(t, s) ==
    /\ Begins(t) /\ super[s].dev \notin {0, ROOT_DEV} /\ ~super[s].lock /\ super[s].imount # 0
    /\ \A i \in Slot : inode[i].dev = super[s].dev => inode[i].count = 0
    /\ inode' = [inode EXCEPT ![super[s].imount].mount = FALSE]
    /\ trouble' = trouble \cup (IF inode[super[s].imount].mount THEN {} ELSE {"twice"})
    /\ Next_(t, <<Frame("iput", super[s].imount), Frame("umount", s)>>)
    /\ UNCHANGED <<super, ioVars, panic>>

(* ... s_imount and s_dev are cleared (put_super), and sync_dev.           *)
put_super(t) ==
    /\ At(t, "umount")
    /\ super' = [super EXCEPT ![It(t)] = NoSuper]
    /\ UNCHANGED inode
    /\ Next_(t, <<Frame("sync", 1)>> \o Rest(t))
    /\ UNCHANGED <<ioVars, panic, trouble, calls>>

-----------------------------------------------------------------------------
Call(t) ==
    \/ \E i \in Slot : \/ \E nr \in Num : \/ namei(t, i, nr) \/ Change(t, i, nr)
                                           \/ \E old \in Slot : sys_chdir(t, i, nr, old)
                       \/ Close(t, i) \/ Creat(t, i)
                       \/ \E n \in 0..MaxLinks : Relink(t, i, n)
                       \/ \E dev \in Dev : sys_mount(t, i, dev)
    \/ sys_pipe(t) \/ sys_sync(t)
    \/ \E s \in Super : sys_umount(t, s)

Kernel(t) ==
    \/ brelse(t) \/ Keep(t) \/ Changes(t) \/ Chdir(t) \/ iget(t) \/ get_empty_inode(t)
    \/ IgetScans(t) \/ IgetFound(t) \/ IgetCrosses(t) \/ read_inode(t)
    \/ new_inode(t) \/ get_pipe_inode(t) \/ iput(t)
    \/ iput_repeat(t) \/ free_inode(t) \/ write_inode(t) \/ Written(t) \/ BlockUnread(t)
    \/ sync_inodes(t)
    \/ read_super(t) \/ SuperIsRead(t) \/ Mount(t) \/ put_super(t)

InoNext == \E t \in Task : Call(t) \/ Kernel(t)

InoSpec == mount_root /\ [][InoNext]_vars

-----------------------------------------------------------------------------
(* No two inodes of the table are the same inode of the disk, whatever     *)
(* tasks look for it, read it, create and free it at the same time.        *)
UniqueInode ==
    trouble = {} => \A i, j \in Slot : i # j /\ inode[i].dev # 0 =>
        ~Matches(i, inode[j].dev, inode[j].num)

(* The pointers to inode i: in the frames of functions that will put it    *)
(* back, in all of a task (a pipe has two ends), in all tasks, in the super*)
(* blocks (umount puts back the one of s_imount before it clears it).      *)
Frames(stk, i) ==
    Cardinality({k \in DOMAIN stk : /\ stk[k].at \in {"iput", "irepeat", "trunc", "mount", "read"}
                                    /\ stk[k].i = i})

Pointers(T, i, pipe) ==
    T.held[i] + Frames(T.stk, i) + (IF T.empty = i THEN 1 ELSE 0)
    + (IF T.got # i THEN 0 ELSE IF pipe THEN 2 ELSE 1)

Total(n) == Cardinality(UNION {{t} \X (1..n[t]) : t \in DOMAIN n})

Uses(i) == Total([t \in Task |-> Pointers(task[t], i, inode[i].pipe)])

Has(stk, f) == \E k \in DOMAIN stk : stk[k] = f

Leaving(s) == \E t \in Task : Has(task[t].stk, Frame("umount", s))

OfSupers(i) == Cardinality({s \in Super : super[s].imount = i /\ ~Leaving(s)})
               + Cardinality({s \in Super : super[s].isup = i})

(* i_count is the number of users: those that hold the inode, those that   *)
(* are on the way to or from it, the mounts.  When there is none the inode *)
(* is clean and unlocked: get_empty_inode never has to write one out.      *)
CountIsUsers ==
    trouble = {} => \A i \in Slot :
        /\ inode[i].count = Uses(i) + OfSupers(i) + (IF i = 1 THEN Cardinality(Task) ELSE 0)
        /\ inode[i].count = 0 => ~inode[i].dirt /\ inode[i].lock = None

(* No change is lost: the link count of an inode that has names is found   *)
(* in the table if the inode is there, else on the disk; a clean inode is  *)
(* on the disk.                                                            *)
LinksKnown ==
    trouble = {} => \A p \in DOMAIN links :
        LET core == {i \in Slot : Matches(i, p[1], p[2])
                        /\ \A t \in Task : ~Has(task[t].stk, Frame("read", i))}
        IN  /\ links[p] > 0 => p \in imap
            /\ links[p] > 0 /\ core = {} => disk[p] = links[p]
            /\ \A i \in core : /\ inode[i].nlinks = links[p]
                               /\ ~inode[i].dirt => disk[p] = inode[i].nlinks

(* Of the panics in this code two are reached: when the table is full, and *)
(* when the disk cannot read a block of inodes (inode.cc:306, 330).  The   *)
(* others, which say that the kernel has lost count or that a device in    *)
(* use is not mounted, are not; unused devices have no inodes in use.      *)
NeverPanics ==
    trouble = {} =>
        /\ panic \in {"none", "No free inodes in mem", "unable to read i-node block"}
        /\ \A i \in Slot : inode[i].count > 0 /\ inode[i].dev # 0 => get_super(inode[i].dev) # {}

=============================================================================
