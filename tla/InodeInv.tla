------------------------------ MODULE InodeInv ------------------------------
(***************************************************************************)
(* The inductive invariant of the inode table: what every task knows of    *)
(* the inodes and super blocks in its functions while it sleeps there, and *)
(* that i_count, the table, the bitmaps and the disks agree, as long as    *)
(* none of the known races has struck.  Inode_proofs proves it.            *)
(***************************************************************************)
EXTENDS Inode

(* The functions that work for a system call; Service are those that they  *)
(* call and that leave the variables of the call alone.                    *)
Service == {"iput", "irepeat", "trunc", "brelse", "sync", "write_inode", "write"}
Putting == {"iput", "irepeat", "trunc"}
Keeper == {"keep", "change", "chdir"}
Searching == {"scan", "found", "cross", "new_inode", "get_pipe_inode"}

OnSlot == {"iput", "irepeat", "trunc", "found", "read", "write_inode", "write", "mount", "chdir"}
OnSuper == {"cross", "umount", "read_super"}
OnNone == {"brelse", "iget", "scan", "empty", "new_inode", "get_pipe_inode", "keep", "change"}

FrameType ==
    [at : OnSlot, i : Slot] \cup [at : OnSuper, i : Super] \cup [at : OnNone, i : {0}]
    \cup [at : {"sync"}, i : 1..(NR_INODE + 1)] \cup [at : {"mount_super"}, i : Dev]

TaskType ==
    [stk : Seq(FrameType), dev : Dev \cup {0}, nr : Num \cup {0}, empty : Slot \cup {0},
     got : Slot \cup {0}, sb : Super \cup {0}, held : [Slot -> Nat]]

InodeType ==
    [dev : Dev \cup {0}, num : Num \cup {0}, count : Nat, dirt : BOOLEAN, lock : Task \cup {None},
     pipe : BOOLEAN, mount : BOOLEAN, nlinks : Nat]

SuperType ==
    [dev : Dev \cup {0}, imount : Slot \cup {0}, isup : Slot \cup {0}, lock : BOOLEAN]

Types ==
    /\ inode \in [Slot -> InodeType]
    /\ super \in [Super -> SuperType]
    /\ disk \in [Dev \X Num -> Nat] /\ links \in [Dev \X Num -> Nat]
    /\ imap \subseteq Dev \X Num
    /\ task \in [Task -> TaskType]
    /\ cpu \in Task \cup {None}

(* What function calls what: frame f may be above one at "below".          *)
Fits(f, below) ==
    /\ below \notin IO
    /\ f.at \in Service => below # "mount"
    /\ f.at \in Putting => below \notin Service
    /\ f.at \in {"iget", "scan", "found", "cross", "read"} => below \in Keeper
    /\ f.at \in {"new_inode", "get_pipe_inode"} => below = "keep"
    /\ f.at = "empty" => below \in {"scan", "new_inode", "get_pipe_inode"}
    /\ f.at \in {"mount_super", "read_super"} => below = "mount"
    /\ f.at \in Keeper \cup {"mount", "umount"} => below = "user"

WellFormed(stk) ==
    \A k \in DOMAIN stk :
        Fits(stk[k], IF k + 1 \in DOMAIN stk THEN stk[k + 1].at ELSE "user")

(* The function that the services work for.                                *)
Work(stk) ==
    LET W == {k \in DOMAIN stk : stk[k].at \notin Service}
    IN  IF W = {} THEN Frame("user", 0) ELSE stk[Min(W)]

(* The variables empty and got, where the task works for at.               *)
WorkOK(T, at) ==
    /\ at \notin Keeper => T.got = 0
    /\ at \in {"change", "chdir"} => T.got # 0
    /\ at \in Searching => T.empty # 0
    /\ at \notin Searching => T.empty = 0

(* The device cannot go: it is the root, or the task holds an inode of it. *)
Safe(T) == T.dev = ROOT_DEV \/ \E j \in Slot : T.held[j] > 0 /\ inode[j].dev = T.dev

Looking(stk) ==
    \/ Has(stk, Frame("iget", 0)) \/ Has(stk, Frame("scan", 0))
    \/ \E i \in Slot : Has(stk, Frame("found", i))

DevInv(T) ==
    /\ Looking(T.stk) => T.dev \in Dev /\ T.nr \in Num /\ (T.nr = ROOT_INO \/ Safe(T))
    /\ Has(T.stk, Frame("new_inode", 0)) => T.dev \in Dev /\ Safe(T)
    /\ Has(T.stk, Frame("change", 0)) /\ T.got # 0 => inode[T.got].dev # 0

(* What is known of inode i and super block s in functions that use them.  *)
SlotInv(t, i) ==
    /\ Has(task[t].stk, Frame("irepeat", i)) => inode[i].dev # 0
    /\ Has(task[t].stk, Frame("trunc", i)) =>
            inode[i].dev # 0 /\ inode[i].count = 1 /\ inode[i].nlinks = 0
    /\ Has(task[t].stk, Frame("read", i)) =>
            /\ inode[i].dev # 0 /\ inode[i].count = 1 /\ ~inode[i].dirt
            /\ links[<<inode[i].dev, inode[i].num>>] > 0 /\ inode[i].lock = t
    /\ Has(task[t].stk, Frame("write", i)) => inode[i].lock = t
    /\ Has(task[t].stk, Frame("mount", i)) =>
            /\ inode[i].dev # 0 /\ <<inode[i].dev, inode[i].num>> \notin BlkFile
            /\ \A s \in Super : super[s].imount # i
    /\ Has(task[t].stk, Frame("chdir", i)) =>
            task[t].held[i] > 0 /\ (task[t].got # 0 => inode[task[t].got].dev # 0)

SuperInv(t, s) ==
    /\ Has(task[t].stk, Frame("read_super", s)) => super[s].lock /\ super[s].dev # 0
    /\ Has(task[t].stk, Frame("umount", s)) =>
            /\ super[s].imount # 0 /\ super[s].dev # 0 /\ super[s].dev # ROOT_DEV
            /\ ~inode[super[s].imount].mount
            /\ \/ Frames(task[t].stk, super[s].imount) > 0
               \/ cpu = t /\ Top(task[t].stk) = Frame("umount", s)

(* A task that crosses a mount point does not sleep.                       *)
CrossOK(t) ==
    LET T == task[t] s == Work(T.stk).i IN
    Work(T.stk).at = "cross" =>
        /\ cpu = t /\ super[s].imount # 0 /\ inode[super[s].imount].mount
        /\ \/ Top(T.stk).at = "cross"
           \/ Top(T.stk).at \in {"iput", "irepeat"} /\ Top(T.stk).i = super[s].imount

Own(t) ==
    LET T == task[t] IN
    /\ WellFormed(T.stk)
    /\ WorkOK(T, Work(T.stk).at)
    /\ DevInv(T) /\ (\A i \in Slot : SlotInv(t, i)) /\ (\A s \in Super : SuperInv(t, s))
    /\ CrossOK(t)
    /\ \A i \in Slot : T.held[i] > 0 \/ T.got = i => inode[i].pipe \/ inode[i].dev # 0
    /\ T.empty # 0 => inode[T.empty] = [Zeroed EXCEPT !.count = 1]
    /\ Top(T.stk).at = "mount" =>
            cpu = t /\ (T.sb # 0 => super[T.sb].dev # 0 /\ ~super[T.sb].lock)
    /\ cpu = t => Top(T.stk).at \notin IO \cup {"user"} /\ ~Blocked(Top(T.stk), inode)
    /\ \A i \in Slot : inode[i].lock = t => Top(T.stk) \in {Frame("read", i), Frame("write", i)}

(* What one task only does at a time.                                      *)
Pairs ==
    \A t, u \in Task : \A f \in FrameType :
        f.at \in {"mount", "umount", "read_super"} /\ Has(task[t].stk, f) /\ Has(task[u].stk, f)
            => t = u

Table ==
    /\ \A i \in Slot :
        /\ inode[i].dev = 0 => ~inode[i].dirt /\ inode[i].lock = None /\ ~inode[i].mount
        /\ inode[i].dev # 0 => /\ ~inode[i].pipe /\ inode[i].num \in Num
                               /\ <<inode[i].dev, inode[i].num>> \in imap
        /\ inode[i].mount => <<inode[i].dev, inode[i].num>> \notin BlkFile
        /\ inode[i].count = 0 => ~inode[i].dirt /\ inode[i].lock = None
        /\ inode[i].count > 0 /\ inode[i].dev # 0 => Mounted(inode[i].dev)
    /\ inode[1].dev = ROOT_DEV

Supers ==
    /\ super[1] = [dev |-> ROOT_DEV, imount |-> 1, isup |-> 1, lock |-> FALSE]
    /\ \A s \in Super : /\ super[s].imount # 0 => super[s].dev # 0 /\ ~super[s].lock
                        /\ super[s].isup # 0 => s = 1
                        /\ \A r \in Super : r # s /\ super[s].imount = super[r].imount
                                => super[s].imount = 0

Counts ==
    \A i \in Slot : inode[i].count = Uses(i) + OfSupers(i) + (IF i = 1 THEN Cardinality(Task) ELSE 0)

Unique ==
    \A i, j \in Slot : i # j /\ inode[i].dev # 0 => ~Matches(i, inode[j].dev, inode[j].num)

InCore(i) == \A t \in Task : ~Has(task[t].stk, Frame("read", i))

Linked ==
    /\ \A p \in Dev \X Num : links[p] > 0 => p \in imap
    /\ \A p \in Dev \X Num :
            links[p] > 0 /\ (\A i \in Slot : ~(Matches(i, p[1], p[2]) /\ InCore(i)))
                => disk[p] = links[p]
    /\ \A i \in Slot : inode[i].dev # 0 /\ InCore(i) =>
            /\ inode[i].nlinks = links[<<inode[i].dev, inode[i].num>>]
            /\ ~inode[i].dirt => disk[<<inode[i].dev, inode[i].num>>] = inode[i].nlinks

InoInv ==
    /\ Types /\ (\A t \in Task : Own(t)) /\ Pairs
    /\ Table /\ Supers /\ Counts /\ Unique /\ Linked
    /\ panic \in {"none", "No free inodes in mem", "unable to read i-node block"}

IInv == trouble = {} => InoInv

-----------------------------------------------------------------------------
(***************************************************************************)
(* Notions of the proof.                                                   *)
(***************************************************************************)
(* Total counts these: the uses of an inode, one by one.                   *)
Tokens(n) == UNION {{t} \X (1..n[t]) : t \in DOMAIN n}

(* Frame f is a pointer to i that its function will put back.              *)
Counting(f, i) ==
    IF f.at \in {"iput", "irepeat", "trunc", "mount", "read"} /\ f.i = i THEN 1 ELSE 0

(* Who points to an inode.                                                 *)
Points(t, i) == Pointers(task[t], i, inode[i].pipe)

(* Some inodes have one user only.                                         *)
Alone(u, i) ==
    \/ task[u].empty = i
    \/ Has(task[u].stk, Frame("trunc", i)) \/ Has(task[u].stk, Frame("read", i))

(* A step of t leaves alone what u relies on.                              *)
Spared(t, u) ==
    /\ \A i \in Slot :
        /\ Points(u, i) > 0 => /\ inode'[i].dev = inode[i].dev /\ inode'[i].num = inode[i].num
                               /\ inode'[i].pipe = inode[i].pipe
        /\ task[u].empty = i => inode'[i] = inode[i]
        /\ Has(task[u].stk, Frame("read", i)) =>
                inode'[i] = inode[i] /\ links'[<<inode[i].dev, inode[i].num>>] > 0
        /\ Has(task[u].stk, Frame("trunc", i)) =>
                inode'[i].count = inode[i].count /\ inode'[i].nlinks = inode[i].nlinks
        /\ \/ inode'[i].lock = inode[i].lock
           \/ inode[i].lock \in {None, t} /\ inode'[i].lock \in {None, t}
        /\ inode'[i].mount /\ ~inode[i].mount => \A s \in Super : super[s].imount # i
    /\ \A s \in Super :
        /\ Has(task[u].stk, Frame("read_super", s)) => super'[s] = super[s]
        /\ Has(task[u].stk, Frame("umount", s)) => super'[s] = super[s]
        /\ \A i \in Slot : Has(task[u].stk, Frame("mount", i)) => super'[s].imount # i

(* A step of t: what does not change for the others.                       *)
OnlyTask(t) == \A u \in Task : u # t => task'[u] = task[u]

(* A quiet step: a task goes on, takes or puts back inodes; no inode       *)
(* changes its identity and no mount changes.                              *)
Quiet(t) ==
    /\ OnlyTask(t) /\ cpu \in {t, None} /\ cpu' \in {t, None}
    /\ UNCHANGED <<super, disk, imap, links, panic>>
    /\ \A i \in Slot :
        /\ inode'[i].dev = inode[i].dev /\ inode'[i].num = inode[i].num
        /\ inode'[i].mount = inode[i].mount /\ inode'[i].nlinks = inode[i].nlinks
        /\ inode'[i].pipe = inode[i].pipe \/ \A u \in Task : u # t => Points(u, i) = 0
        /\ inode'[i].pipe => inode[i].dev = 0
        /\ inode'[i].dirt => inode[i].dev # 0
        /\ inode'[i].dirt = inode[i].dirt \/ inode'[i].dirt \/ inode[i].dev = 0
        /\ \/ inode'[i].lock = inode[i].lock
           \/ inode[i].lock = None /\ inode'[i].lock = t /\ inode[i].dev # 0 /\ inode[i].dirt
        /\ inode'[i].count - inode[i].count = Points(t, i)' - Points(t, i)
        /\ inode'[i].count = 0 => ~inode'[i].dirt /\ inode'[i].lock = None
        /\ inode'[i].count > 0 /\ inode[i].dev # 0 => inode[i].count > 0 \/ Mounted(inode[i].dev)
        /\ inode'[i] # inode[i] => \A u \in Task : u # t =>
                task[u].empty # i /\ ~Has(task[u].stk, Frame("read", i))
        /\ inode'[i].count # inode[i].count => \A u \in Task : u # t =>
                ~Has(task[u].stk, Frame("trunc", i))
        /\ Has(task'[t].stk, Frame("read", i)) <=> Has(task[t].stk, Frame("read", i))
        /\ Has(task'[t].stk, Frame("mount", i)) =>
                \/ Has(task[t].stk, Frame("mount", i))
                \/ \A u \in Task : u # t => ~Has(task[u].stk, Frame("mount", i))
    /\ \A s \in Super :
        /\ Has(task'[t].stk, Frame("umount", s)) <=> Has(task[t].stk, Frame("umount", s))
        /\ Has(task'[t].stk, Frame("read_super", s)) => Has(task[t].stk, Frame("read_super", s))

(* A frame of a service that is new on the stack.                          *)
NewOK(t, g) ==
    /\ g.at \in Service
    /\ g.at = "irepeat" => inode'[g.i].dev # 0
    /\ g.at = "trunc" => inode'[g.i].dev # 0 /\ inode'[g.i].count = 1 /\ inode'[g.i].nlinks = 0
    /\ g.at = "write" => inode'[g.i].lock = t

(* A service goes on with the stack c.                                     *)
ServiceTo(t, at, c) ==
    /\ at \in Service /\ At(t, at) /\ c \in Seq(FrameType) /\ Next_(t, c)
    /\ WellFormed(c) /\ Work(c) = Work(task[t].stk)
    /\ c = Rest(t) \/ Top(c).at \in Service
    /\ \A g : Has(Rest(t), g) => Has(c, g)
    /\ \A g : Has(c, g) => Has(Rest(t), g) \/ NewOK(t, g)
    /\ \/ \A i \in Slot : Frames(task[t].stk, i) > 0 => Frames(c, i) > 0
       \/ c = Rest(t) /\ at \in Putting
    /\ Work(task[t].stk).at = "cross" =>
              \/ c = Rest(t) /\ at \in Putting
              \/ Top(c) = Frame("irepeat", It(t)) /\ inode'[It(t)].lock = None

(* What it may do to inode i.                                              *)
MayDo(t, c, i) ==
    /\ inode'[i].dev = inode[i].dev /\ inode'[i].num = inode[i].num
    /\ inode'[i].mount = inode[i].mount /\ inode'[i].nlinks = inode[i].nlinks
    /\ \/ inode'[i].pipe = inode[i].pipe
       \/ /\ \A u \in Task : u # t => Points(u, i) = 0
          /\ task[t].held[i] = 0 /\ task[t].got # i /\ Frames(Rest(t), i) = 0
    /\ inode'[i].pipe => inode[i].dev = 0
    /\ inode'[i].dirt => inode[i].dev # 0
    /\ inode'[i].dirt = inode[i].dirt \/ inode'[i].dirt \/ inode[i].dev = 0
    /\ \/ inode'[i].lock = inode[i].lock
       \/ inode[i].lock = None /\ inode'[i].lock = t /\ inode[i].dev # 0 /\ inode[i].dirt
    /\ inode'[i].lock = t => Top(c) = Frame("write", i)
    /\ inode'[i].count - inode[i].count = Frames(c, i) - Frames(task[t].stk, i)
    /\ inode'[i].count = 0 => ~inode'[i].dirt /\ inode'[i].lock = None
    /\ inode'[i].count > 0 /\ inode[i].dev # 0 => inode[i].count > 0
    /\ inode'[i] # inode[i] => \A u \in Task :
            task[u].empty # i /\ (u # t => ~Has(task[u].stk, Frame("read", i)))
    /\ inode'[i].count # inode[i].count => \A u \in Task : u # t =>
            ~Has(task[u].stk, Frame("trunc", i))

(* A user of inode i goes: the top frame pointed to it.                    *)
Put(a, b) ==
    /\ b.dev = a.dev /\ b.num = a.num /\ b.mount = a.mount /\ b.nlinks = a.nlinks
    /\ b.lock = a.lock /\ b.dirt = a.dirt /\ b.count = a.count - 1
    /\ b.pipe = a.pipe \/ (a.count = 1 /\ ~b.pipe)
    /\ a.count = 1 => ~a.dirt

(* A step that changes inodes or the disk, but no super block.             *)
Steady(t) ==
    /\ OnlyTask(t) /\ cpu \in {t, None} /\ cpu' \in {t, None}
    /\ UNCHANGED <<super, panic>>
    /\ \A u \in Task : u # t => Spared(t, u)
    /\ \A i \in Slot :
        /\ inode'[i].pipe = inode[i].pipe \/ \A u \in Task : u # t => Points(u, i) = 0
        /\ inode'[i].count - inode[i].count = Points(t, i)' - Points(t, i)
        /\ Has(task'[t].stk, Frame("mount", i)) => Has(task[t].stk, Frame("mount", i))
    /\ \A s \in Super :
        /\ Has(task'[t].stk, Frame("umount", s)) <=> Has(task[t].stk, Frame("umount", s))
        /\ Has(task'[t].stk, Frame("read_super", s)) => Has(task[t].stk, Frame("read_super", s))

(* The line of the table for one inode.                                    *)
Good(i) ==
    /\ inode[i].dev = 0 => ~inode[i].dirt /\ inode[i].lock = None /\ ~inode[i].mount
    /\ inode[i].dev # 0 => /\ ~inode[i].pipe /\ inode[i].num \in Num
                           /\ <<inode[i].dev, inode[i].num>> \in imap
    /\ inode[i].mount => <<inode[i].dev, inode[i].num>> \notin BlkFile
    /\ inode[i].count = 0 => ~inode[i].dirt /\ inode[i].lock = None
    /\ inode[i].count > 0 /\ inode[i].dev # 0 => Mounted(inode[i].dev)

(* The stack at the start of a call.                                       *)
Starting(rec) ==
    /\ rec \in TaskType /\ rec.got = 0 /\ rec.empty = 0 /\ WellFormed(rec.stk)
    /\ Work(rec.stk).at \notin Searching \cup {"change", "chdir", "cross"}
    /\ Top(rec.stk).at # "mount"
    /\ \A g : Has(rec.stk, g) =>
            g.at \notin {"irepeat", "trunc", "read", "write", "read_super", "umount"}
    /\ Looking(rec.stk) => rec.nr \in Num
    /\ Looking(rec.stk) \/ Has(rec.stk, Frame("new_inode", 0)) =>
            /\ rec.dev \in Dev
            /\ \E d \in Slot : (d = 1 \/ rec.held[d] > 0) /\ rec.dev = inode[d].dev
    /\ \A i \in Slot : Has(rec.stk, Frame("chdir", i)) => rec.held[i] > 0

(* The functions that a task is in from the lookup of an inode to its use. *)
Plain ==
    {"iput", "iget", "scan", "found", "cross", "empty", "new_inode", "get_pipe_inode"} \cup Keeper

(* A step that marks an inode dirty, or counts one more user.              *)
Touched(t, i) ==
    /\ inode'[i].dev = inode[i].dev /\ inode'[i].num = inode[i].num
    /\ inode'[i].pipe = inode[i].pipe /\ inode'[i].lock = inode[i].lock
    /\ inode'[i].mount = inode[i].mount /\ inode'[i].nlinks = inode[i].nlinks
    /\ inode[i].dev # 0 /\ Mounted(inode[i].dev)
    /\ inode'[i].dirt \/ inode'[i].dirt = inode[i].dirt
    /\ inode'[i].count > 0
    /\ \A u \in Task : u # t => ~Alone(u, i)

(* A step that changes one inode, to which no other task points.           *)
OneInode(t, rec, i) ==
    /\ CanRun(t) /\ rec \in TaskType /\ Runs(t, rec) /\ UNCHANGED <<super, panic>>
    /\ \A g : Has(task[t].stk, g) => g.at \in Plain \cup {"read"}
    /\ \A g : Has(rec.stk, g) => g.at \in Plain \cup {"read"}
    /\ \A p \in Dev \X Num : links[p] > 0 => links'[p] > 0
    /\ i \in Slot /\ (\A u \in Task : u # t => Points(u, i) = 0)
    /\ inode[i].lock \in {None, t} /\ inode'[i].lock \in {None, t}
    /\ inode'[i].mount => inode[i].mount
    /\ inode'[i].count - inode[i].count = Pointers(rec, i, inode'[i].pipe) - Points(t, i)
    /\ \A j \in Slot : j # i =>
          inode'[j] = inode[j] /\ Pointers(rec, j, inode[j].pipe) = Points(t, j)

(* The empty inode becomes J: no inode of the disk, or a new one.          *)
NewInode(J, got) ==
    \/ J.dev = 0 /\ ~J.dirt /\ UNCHANGED <<imap, links>>
    \/ /\ J.dev \in Dev /\ J.num \in Num /\ <<J.dev, J.num>> \notin imap /\ Mounted(J.dev)
       /\ got # 0 /\ ~J.pipe /\ J.dirt /\ J.nlinks = 1
       /\ imap' = imap \cup {<<J.dev, J.num>>}
       /\ links' = [links EXCEPT ![<<J.dev, J.num>>] = 1]

(* A step that changes a super block or a mount point.                     *)
Mounting(t) ==
    /\ OnlyTask(t) /\ cpu \in {t, None} /\ cpu' \in {t, None}
    /\ UNCHANGED <<disk, imap, links, panic>>
    /\ \A u \in Task : u # t => Spared(t, u)
    /\ \A i \in Slot :
        /\ inode'[i].dev = inode[i].dev /\ inode'[i].num = inode[i].num
        /\ inode'[i].pipe = inode[i].pipe /\ inode'[i].lock = inode[i].lock
        /\ inode'[i].count = inode[i].count /\ inode'[i].nlinks = inode[i].nlinks
        /\ \/ inode'[i].dirt = inode[i].dirt
           \/ inode'[i].dirt /\ inode[i].dev # 0 /\ inode[i].count > 0
        /\ inode'[i].mount =>
                inode[i].dev # 0 /\ <<inode[i].dev, inode[i].num>> \notin BlkFile
        /\ inode[i].count > 0 /\ inode[i].dev # 0 => Mounted(inode[i].dev)'
        /\ Points(t, i)' + OfSupers(i)' = Points(t, i) + OfSupers(i)
        /\ ~Has(task'[t].stk, Frame("read", i)) /\ ~Has(task[t].stk, Frame("read", i))
    /\ \A f \in FrameType :
          f.at \in {"mount", "umount", "read_super"} /\ Has(task'[t].stk, f) =>
            Has(task[t].stk, f) \/ \A u \in Task : u # t => ~Has(task[u].stk, f)

(* The functions that a task is in then.                                   *)
MountFrames == {"mount", "read_super", "umount", "iput", "sync"}

(* ... and the table of inodes stays as it is.                             *)
SuperOnly(t, rec) ==
    /\ CanRun(t) /\ rec \in TaskType /\ Runs(t, rec) /\ UNCHANGED <<inode, disk, imap, links, panic>>
    /\ rec.held = task[t].held /\ rec.got = task[t].got /\ rec.empty = task[t].empty
    /\ \A i \in Slot :
        /\ Frames(rec.stk, i) = Frames(task[t].stk, i) /\ OfSupers(i)' = OfSupers(i)
        /\ ~Has(rec.stk, Frame("read", i)) /\ ~Has(task[t].stk, Frame("read", i))
    /\ \A f \in FrameType :
          f.at \in {"mount", "umount", "read_super"} /\ Has(rec.stk, f) =>
            Has(task[t].stk, f) \/ \A u \in Task : u # t => ~Has(task[u].stk, f)
    /\ \A s \in Super :
        /\ \A u \in Task : u # t /\ (Has(task[u].stk, Frame("read_super", s))
                                        \/ Has(task[u].stk, Frame("umount", s)))
                => super'[s] = super[s]
        /\ super'[s].imount \in {0, super[s].imount}
    /\ \A d : Mounted(d) => Mounted(d)'

(* A super block that is not a mount changes.                              *)
Unmounted(s) ==
    /\ super'[s].imount = super[s].imount /\ super'[s].isup = super[s].isup
    /\ super'[s] = super[s] \/ super[s].imount = 0

(* What a task that mounts knows of the directory.                         *)
MountAt(t, i) ==
    LET T == task[t] IN
    /\ CanRun(t) /\ T \in TaskType /\ Types /\ T.got = 0 /\ T.empty = 0 /\ Rest(t) = <<>>
    /\ (\A g : Has(T.stk, g) <=> g = Frame("mount", i))
    /\ (\A j : Frames(T.stk, j) = (IF j = i THEN 1 ELSE 0))
    /\ (\A j \in Slot : inode[j].lock # t)
    /\ i \in Slot /\ inode[i].dev # 0 /\ <<inode[i].dev, inode[i].num>> \notin BlkFile
    /\ (\A s \in Super : super[s].imount # i)
    /\ (T.sb # 0 => super[T.sb].dev # 0 /\ ~super[T.sb].lock)
    /\ (\A u \in Task : u # t => ~Has(task[u].stk, Frame("mount", i)))
=============================================================================
