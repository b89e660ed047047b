------------------------------- MODULE Names -------------------------------
(***************************************************************************)
(* Directories, fs/namei.cc, with the bitmaps of fs/bitmap.cc and          *)
(* fs/truncate.cc: open, mknod, mkdir, rmdir, unlink, link, and what they  *)
(* do to the entries, the link counts, the inodes and the blocks of one    *)
(* disk.  Inodes in memory and on disk are one here (Inode is about their  *)
(* difference), and iput frees an inode in one step.                       *)
(*                                                                         *)
(* A call is a few steps: the kernel sleeps when it reads a block of a     *)
(* directory (find_entry, add_entry, empty_dir), in iget, in iput, and in  *)
(* new_block, which waits for a buffer (getblk) with the bit of the block  *)
(* set and the block in no inode yet.  Paths are a name in the root, or a  *)
(* name in a directory that is in the root.                                *)
(* "." and ".." are not entries here, but they are in the link counts.     *)
(*                                                                         *)
(* trouble is a ghost that names the known races of this code as they hit: *)
(*   "stale"       an inode is freed while another call, which has read    *)
(*                 its number in an entry, sleeps before or in iget;       *)
(*   "duplicate"   add_entry for a name that another call has just added;  *)
(*   "moved"       unlink or rmdir clears an entry that has changed;       *)
(*   "deleted"     an entry is added to a directory removed meanwhile;     *)
(*   "nonexistent" unlink of an inode that has no links ("Deleting         *)
(*                 nonexistent file");                                     *)
(*   "grown"       two calls find one i_zone empty and allocate it: the    *)
(*                 second block replaces the first, which leaks, with the  *)
(*                 entries in it;                                          *)
(* and one error that needs no second task:                                *)
(*   "full"        mkdir frees its block twice when add_entry fails.       *)
(***************************************************************************)
EXTENDS Naturals, Sequences, FiniteSets, FiniteSetsExt, Functions

CONSTANTS
    Task, Name,
    NInode,             \* inodes 1..NInode, 1 is the root
    NBlock,             \* data blocks
    PerBlock,           \* entries of a block of a directory
    None,
    Go,                 \* TRUE: the system goes on after a known error
    Ops,                \* the calls that tasks make
    MaxCalls            \* a bound: calls

Num == 1..NInode
Block == 1..NBlock

ASSUME NamesAssumption ==
    /\ NInode \in Nat \ {0} /\ NBlock \in Nat \ {0} /\ PerBlock \in Nat \ {0}
    /\ None \notin Name /\ Go \in BOOLEAN

VARIABLES
    fs,         \* inodes, entries, bitmaps, and what panic() said
    task, held, \* the call of a task, the inodes it has open
    trouble, stale,
    calls

vars == <<fs, task, held, trouble, stale, calls>>

Free == [kind |-> "none", nlinks |-> 0, count |-> 0, zone |-> <<>>]
Idle == [pc |-> "user", op |-> "none", path |-> None, name |-> None, dir |-> 0, ino |-> 0, de |-> 0, blk |-> 0]

Init ==
    /\ fs = [inode |-> [n \in Num |-> IF n = 1
                THEN [kind |-> "dir", nlinks |-> 2, count |-> 1, zone |-> <<1>>] ELSE Free],
             ent |-> [n \in Num |-> <<>>], imap |-> {1}, zmap |-> {1}, panic |-> "none"]
    /\ task = [t \in Task |-> Idle] /\ held = [t \in Task |-> {}]
    /\ trouble = {} /\ stale = FALSE /\ calls = MaxCalls

-----------------------------------------------------------------------------
(***************************************************************************)
(* What the helpers do to fs.                                              *)
(***************************************************************************)
Use(f, n) == [f EXCEPT !.inode[n].count = @ + 1]
Links(f, n, k) == [f EXCEPT !.inode[n].nlinks = k]

free_block(f, b) ==
    IF b \in f.zmap THEN [f EXCEPT !.zmap = @ \ {b}]
    ELSE [f EXCEPT !.panic = "free_block: bit already cleared"]

FreeBlocks(f, zone) ==
    [f EXCEPT !.zmap = @ \ Range(zone),
              !.panic = IF Range(zone) \subseteq f.zmap THEN @
                        ELSE "free_block: bit already cleared"]

(* Only regular files and directories have blocks.                         *)
truncate(f, n) ==
    IF f.inode[n].kind = "none" THEN f
    ELSE [FreeBlocks(f, f.inode[n].zone) EXCEPT !.inode[n].zone = <<>>, !.ent[n] = <<>>]

free_inode(f, n) == [f EXCEPT !.imap = @ \ {n}, !.inode[n] = Free, !.ent[n] = <<>>]

iput(f, n) ==
    IF f.inode[n].count > 1 \/ f.inode[n].nlinks > 0
    THEN [f EXCEPT !.inode[n].count = @ - 1]
    ELSE free_inode(truncate(f, n), n)

(* new_block takes the first free bit (guard: there is one), and sleeps.   *)
NewBlock(f) == Min(Block \ f.zmap)


new_block(f) == [f EXCEPT !.zmap = @ \cup {NewBlock(f)}]

(* The block b is there: _bmap and mkdir put it in i_zone[z], whatever     *)
(* i_zone[z] is now.                                                       *)
SetZone(f, n, z, b) ==
    [f EXCEPT !.inode[n].zone = IF z \in DOMAIN @ THEN [@ EXCEPT ![z] = b] ELSE Append(@, b)]

NewNum(f) == Min(Num \ f.imap)

new_inode(f, kind) ==
    [f EXCEPT !.imap = @ \cup {NewNum(f)},
              !.inode[NewNum(f)] = [kind |-> kind, nlinks |-> 1, count |-> 1, zone |-> <<>>]]

(* find_entry: the places of entries with the name (the first counts).     *)
find_entry(d, name) ==
    {k \in DOMAIN fs.ent[d] : fs.ent[d][k].ino # 0 /\ fs.ent[d][k].name = name}

(* add_entry: the first free place, or the next one, for which create_block*)
(* may have to find a block.                                               *)
ZoneOf(k) == (k - 1) \div PerBlock + 1
FreePlaces(d) == {k \in DOMAIN fs.ent[d] : fs.ent[d][k].ino = 0}
Size(d) == Len(fs.ent[d])
Place(d) == IF FreePlaces(d) # {} THEN Min(FreePlaces(d)) ELSE Size(d) + 1
Fits(d) == ZoneOf(Place(d)) <= Len(fs.inode[d].zone)
RoomFor(d) == Fits(d) \/ Block \ fs.zmap # {}

add_entry(f, d, k, name, n) ==
    LET de == [name |-> name, ino |-> n]
    IN  [f EXCEPT !.ent[d] = IF k \in DOMAIN @ THEN [@ EXCEPT ![k] = de] ELSE Append(@, de)]

(* A new block of a directory is empty: the entries that were in the block *)
(* it replaces are gone.                                                   *)
Grown(d, k, b) ==
    [SetZone(fs, d, ZoneOf(k), b) EXCEPT !.ent[d] =
        [j \in DOMAIN @ |-> IF ZoneOf(j) = ZoneOf(k) THEN [@[j] EXCEPT !.ino = 0] ELSE @[j]]]

Deleted(n) == fs.inode[n].nlinks = 0

-----------------------------------------------------------------------------
(* Control.                                                                *)
CanRun == fs.panic = "none" /\ (trouble # {} \/ stale => Go)
At(t, pc) == CanRun /\ task[t].pc = pc
(* A task that is about to call iget for n.                                *)
Awaits(t, n) ==
    \/ task[t].pc = "enter" /\ task[t].dir = n
    \/ task[t].pc \in {"open", "unlink", "rmdir", "namei"} /\ task[t].ino = n

(* The inodes that a step of t frees.                                      *)
Frees(t) ==
    stale' = (stale \/ \E u \in Task \ {t}, n \in fs.imap \ fs'.imap : Awaits(u, n))

Goto(t, rec) == task' = [task EXCEPT ![t] = rec] /\ Frees(t)
Return(t, f) == fs' = f /\ Goto(t, Idle) /\ UNCHANGED held
Hits(cond, what) == trouble' = trouble \cup (IF cond THEN {what} ELSE {})
Quiet == UNCHANGED <<trouble, calls>>

(* A call begins in the root directory.  link looks up the old name first. *)
Begin(t, op, path, name) ==
    /\ At(t, "user") /\ calls > 0 /\ calls' = calls - 1
    /\ fs' = Use(fs, 1)
    /\ Goto(t, [Idle EXCEPT !.pc = IF op = "link" THEN "old" ELSE IF path = None THEN "find" ELSE "walk",
                            !.op = op, !.path = path, !.name = name, !.dir = 1])
    /\ UNCHANGED <<held, trouble>>

(* get_dir: the directory of the path is looked up in the root ...         *)
get_dir(t) ==
    LET found == find_entry(1, task[t].path) IN
    /\ At(t, "walk")
    /\ \/ found = {} /\ Return(t, LET f == iput(fs, 1) IN
                                  IF task[t].op = "link" THEN iput(f, task[t].ino) ELSE f)
       \/ /\ found # {}
          /\ fs' = iput(fs, 1)
          /\ Goto(t, [task[t] EXCEPT !.pc = "enter", !.dir = fs.ent[1][Min(found)].ino])
          /\ UNCHANGED held
    /\ Quiet

(* ... and iget has it; it must be a directory that is not deleted.        *)
Enter(t) ==
    LET d == task[t].dir f == Use(fs, d) IN
    /\ At(t, "enter")
    /\ \/ /\ fs.inode[d].kind = "dir" /\ ~Deleted(d)
          /\ fs' = f /\ Goto(t, [task[t] EXCEPT !.pc = "find"])
          /\ UNCHANGED held
       \/ /\ fs.inode[d].kind # "dir" \/ Deleted(d)
          /\ Return(t, IF task[t].op = "link" THEN iput(iput(f, d), task[t].ino) ELSE iput(f, d))
    /\ Quiet

-----------------------------------------------------------------------------
(***************************************************************************)
(* open_namei, sys_mknod, sys_mkdir.                                       *)
(***************************************************************************)
At2(t, op) == At(t, "find") /\ task[t].op = op
Found(t) == find_entry(task[t].dir, task[t].name)

(* The name is there: open goes on to iget, the others return.             *)
OpenFinds(t) ==
    LET T == task[t] IN
    /\ At(t, "find") /\ T.op \in {"open", "creat", "trunc"} /\ Found(t) # {}
    /\ fs' = iput(fs, T.dir)
    /\ Goto(t, [T EXCEPT !.pc = "open", !.ino = fs.ent[T.dir][Min(Found(t))].ino])
    /\ UNCHANGED held /\ Quiet

open_namei(t) ==
    LET T == task[t] f == Use(fs, T.ino) IN
    /\ At(t, "open")
    /\ \/ /\ fs.inode[T.ino].kind # "file" \/ Deleted(T.ino) \/ T.ino \in held[t]
          /\ Return(t, iput(f, T.ino))
       \/ /\ fs.inode[T.ino].kind = "file" /\ ~Deleted(T.ino) /\ T.ino \notin held[t]
          /\ fs' = IF T.op = "open" THEN f ELSE truncate(f, T.ino)
          /\ held' = [held EXCEPT ![t] = @ \cup {T.ino}]
          /\ Goto(t, Idle)
    /\ Quiet

(* Nothing to be done: the name is (not) there, or there is no inode.      *)
FindFails(t) ==
    LET T == task[t] IN
    /\ At(t, "find")
    /\ \/ Found(t) # {} /\ T.op \in {"mknod", "mkdir", "link"}
       \/ Found(t) = {} /\ T.op \in {"open", "trunc", "unlink", "rmdir"}
       \/ Found(t) = {} /\ T.op = "creat" /\ Deleted(T.dir)
       \/ Found(t) = {} /\ T.op \in {"creat", "mknod", "mkdir"} /\ fs.imap = Num
    /\ Return(t, IF T.op = "link" THEN iput(iput(fs, T.dir), T.ino) ELSE iput(fs, T.dir))
    /\ Quiet

NewFile(t) ==
    LET T == task[t] IN
    /\ At(t, "find") /\ T.op \in {"creat", "mknod"} /\ Found(t) = {} /\ fs.imap # Num
    /\ T.op = "creat" => ~Deleted(T.dir)
    /\ fs' = new_inode(fs, "file")
    /\ Goto(t, [T EXCEPT !.pc = "add", !.ino = NewNum(fs)])
    /\ UNCHANGED held /\ Quiet

(* mkdir takes an inode and a block, and sleeps in new_block.              *)
NewDir(t) ==
    LET T == task[t] n == NewNum(fs) f == new_inode(fs, "none") IN
    /\ At2(t, "mkdir") /\ Found(t) = {} /\ fs.imap # Num
    /\ \/ /\ fs.zmap = Block
          /\ Return(t, iput(Links(iput(f, T.dir), n, 0), n))
       \/ /\ fs.zmap # Block
          /\ fs' = new_block(f)
          /\ Goto(t, [T EXCEPT !.pc = "mkdir", !.ino = n, !.blk = NewBlock(f)])
          /\ UNCHANGED held
    /\ Quiet

(* i_zone[0] is the block, "." and ".." are made; or it cannot be read.    *)
MakeDir(t) ==
    LET T == task[t] n == T.ino f == SetZone(fs, n, 1, T.blk) IN
    /\ At(t, "mkdir")
    /\ \/ /\ fs' = [f EXCEPT !.inode[n].nlinks = 2, !.inode[n].kind = "dir"]
          /\ Goto(t, [T EXCEPT !.pc = "add", !.blk = 0])
          /\ UNCHANGED held
       \/ Return(t, iput(Links(free_block(iput(f, T.dir), T.blk), n, 0), n))
    /\ Quiet

-----------------------------------------------------------------------------
(***************************************************************************)
(* add_entry, for all of them.                                             *)
(***************************************************************************)
Added(f, T) ==
    CASE T.op = "creat" -> iput(f, T.dir)
      [] T.op = "mknod" -> iput(iput(f, T.dir), T.ino)
      [] T.op = "mkdir" -> iput(iput([f EXCEPT !.inode[T.dir].nlinks = @ + 1], T.dir), T.ino)
      [] T.op = "link" -> iput(f, T.dir)

(* The entry is made at place k.  creat has the file open then; link still *)
(* has to count the new link, after iput(dir), which may sleep.            *)
Adds(t, f, k, grown) ==
    LET T == task[t] IN
    /\ fs' = Added(add_entry(f, T.dir, k, T.name, T.ino), T)
    /\ held' = [held EXCEPT ![t] = @ \cup (IF T.op = "creat" THEN {T.ino} ELSE {})]
    /\ Goto(t, IF T.op = "link" THEN [T EXCEPT !.pc = "linked", !.de = 0, !.blk = 0] ELSE Idle)
    /\ trouble' = trouble \cup (IF find_entry(T.dir, T.name) # {} THEN {"duplicate"} ELSE {})
                          \cup (IF Deleted(T.dir) THEN {"deleted"} ELSE {})
                          \cup (IF grown THEN {"grown"} ELSE {})
    /\ UNCHANGED calls

(* There is a place in the blocks of the directory ...                     *)
AddEntry(t) ==
    LET d == task[t].dir IN
    /\ At(t, "add") /\ Fits(d)
    /\ Adds(t, fs, Place(d), FALSE)

(* ... or create_block has to find one, and sleeps in new_block.           *)
AddGrows(t) ==
    LET d == task[t].dir IN
    /\ At(t, "add") /\ ~Fits(d) /\ RoomFor(d)
    /\ fs' = new_block(fs)
    /\ Goto(t, [task[t] EXCEPT !.pc = "grow", !.de = Place(d), !.blk = NewBlock(fs)])
    /\ UNCHANGED held /\ Quiet

AddGrown(t) ==
    LET T == task[t] IN
    /\ At(t, "grow")
    /\ Adds(t, Grown(T.dir, T.de, T.blk), T.de, ZoneOf(T.de) \in DOMAIN fs.inode[T.dir].zone)

(* No room: what was taken is given back.  mkdir frees the block, but      *)
(* leaves it in i_zone for truncate.                                       *)
AddFails(t) ==
    LET T == task[t] f == iput(fs, T.dir) IN
    /\ At(t, "add") /\ ~RoomFor(T.dir)
    /\ Return(t, CASE T.op = "link" -> iput(f, T.ino)
                   [] T.op = "mkdir" ->
                        iput(Links(free_block(f, fs.inode[T.ino].zone[1]), T.ino, 0), T.ino)
                   [] OTHER -> iput(Links(f, T.ino, 0), T.ino))
    /\ Hits(T.op = "mkdir", "full")
    /\ UNCHANGED calls

-----------------------------------------------------------------------------
(***************************************************************************)
(* sys_unlink, sys_rmdir, sys_link.                                        *)
(***************************************************************************)
(* The entry is found; iget may sleep.  The place of the entry is kept.    *)
RemoveFinds(t) ==
    LET T == task[t] k == Min(Found(t)) IN
    /\ At(t, "find") /\ T.op \in {"unlink", "rmdir"} /\ Found(t) # {}
    /\ UNCHANGED <<fs, held>> /\ Quiet
    /\ Goto(t, [T EXCEPT !.pc = T.op, !.de = k, !.ino = fs.ent[T.dir][k].ino])

Moved(T) == fs.ent[T.dir][T.de] # [name |-> T.name, ino |-> T.ino]
Cleared(f, T) == [f EXCEPT !.ent[T.dir][T.de].ino = 0]

(* Mutant of sys_unlink: the link is not given up.                         *)
UnlinkKeeps(t) ==
    LET T == task[t] n == T.ino f == Use(fs, n) IN
    /\ At(t, "unlink")
    /\ \/ fs.inode[n].kind = "dir" /\ Return(t, iput(iput(f, n), T.dir))
       \/ fs.inode[n].kind # "dir" /\ Return(t, iput(iput(Cleared(f, T), n), T.dir))
    /\ Quiet

sys_unlink(t) ==
    LET T == task[t] n == T.ino f == Use(fs, n)
        links == IF fs.inode[n].nlinks = 0 THEN 0 ELSE fs.inode[n].nlinks - 1
    IN
    /\ At(t, "unlink")
    /\ \/ /\ fs.inode[n].kind = "dir"
          /\ Return(t, iput(iput(f, n), T.dir)) /\ UNCHANGED trouble
       \/ /\ fs.inode[n].kind # "dir"
          /\ Return(t, iput(iput(Links(Cleared(f, T), n, links), n), T.dir))
          /\ trouble' = trouble \cup (IF Moved(T) THEN {"moved"} ELSE {})
                                \cup (IF Deleted(n) THEN {"nonexistent"} ELSE {})
    /\ UNCHANGED calls

(* rmdir wants a directory that nobody else uses, and looks into it.       *)
RmdirGets(t) ==
    LET T == task[t] n == T.ino f == Use(fs, n) IN
    /\ At(t, "rmdir")
    /\ \/ /\ fs.inode[n].count > 0 \/ fs.inode[n].kind # "dir"
          /\ Return(t, iput(iput(f, n), T.dir))
       \/ /\ fs.inode[n].count = 0 /\ fs.inode[n].kind = "dir"
          /\ fs' = f /\ Goto(t, [T EXCEPT !.pc = "empty"]) /\ UNCHANGED held
    /\ Quiet

sys_rmdir(t) ==
    LET T == task[t] n == T.ino
        f == [Links(Cleared(fs, T), n, 0) EXCEPT !.inode[T.dir].nlinks = @ - 1]
        empty_dir == \A k \in DOMAIN fs.ent[n] : fs.ent[n][k].ino = 0
    IN
    /\ At(t, "empty")
    /\ \/ ~empty_dir /\ Return(t, iput(iput(fs, n), T.dir)) /\ UNCHANGED trouble
       \/ empty_dir /\ Return(t, iput(iput(f, T.dir), n)) /\ Hits(Moved(T), "moved")
    /\ UNCHANGED calls

(* sys_link: namei of the old name, which is in the root here, ...         *)
LinkFinds(t) ==
    LET found == find_entry(1, task[t].name) IN
    /\ At(t, "old")
    /\ \/ found = {} /\ Return(t, iput(fs, 1))
       \/ /\ found # {}
          /\ fs' = iput(fs, 1)
          /\ Goto(t, [task[t] EXCEPT !.pc = "namei", !.ino = fs.ent[1][Min(found)].ino])
          /\ UNCHANGED held
    /\ Quiet

(* ... iget; then the directory of the new name is looked up.              *)
LinkGets(t, new) ==
    LET T == task[t] f == Use(fs, T.ino) IN
    /\ At(t, "namei")
    /\ \/ fs.inode[T.ino].kind = "dir" /\ Return(t, iput(f, T.ino))
       \/ /\ fs.inode[T.ino].kind # "dir"
          /\ fs' = Use(f, 1)
          /\ Goto(t, [T EXCEPT !.name = new, !.pc = IF T.path = None THEN "find" ELSE "walk"])
          /\ UNCHANGED held
    /\ Quiet

LinkAdds(t) ==
    /\ At2(t, "link") /\ Found(t) = {}
    /\ UNCHANGED <<fs, held>> /\ Quiet
    /\ Goto(t, [task[t] EXCEPT !.pc = "add"])

sys_link(t) ==
    LET n == task[t].ino IN
    /\ At(t, "linked")
    /\ Return(t, iput([fs EXCEPT !.inode[n].nlinks = @ + 1], n))
    /\ Quiet

-----------------------------------------------------------------------------
(* An open file that has no block is written: create_block, which sleeps   *)
(* in new_block, ...                                                       *)
WriteFile(t, n) ==
    /\ At(t, "user") /\ calls > 0 /\ calls' = calls - 1
    /\ n \in held[t] /\ fs.inode[n].zone = <<>> /\ fs.zmap # Block
    /\ fs' = new_block(fs)
    /\ Goto(t, [Idle EXCEPT !.pc = "write", !.ino = n, !.blk = NewBlock(fs)])
    /\ UNCHANGED <<held, trouble>>

(* ... and then stores the block in i_zone[0].                             *)
FileGrown(t) ==
    LET T == task[t] IN
    /\ At(t, "write")
    /\ Return(t, SetZone(fs, T.ino, 1, T.blk))
    /\ Hits(fs.inode[T.ino].zone # <<>>, "grown")
    /\ UNCHANGED calls

(* An open file is closed.                                                 *)
Close(t, n) ==
    /\ At(t, "user") /\ n \in held[t]
    /\ fs' = iput(fs, n)
    /\ held' = [held EXCEPT ![t] = @ \ {n}]
    /\ Frees(t)
    /\ UNCHANGED <<task, trouble, calls>>

Step(t) ==
    \/ get_dir(t) \/ Enter(t) \/ OpenFinds(t) \/ open_namei(t) \/ FindFails(t)
    \/ NewFile(t) \/ NewDir(t) \/ MakeDir(t) 
    \/ AddEntry(t) \/ AddGrows(t) \/ AddGrown(t) \/ AddFails(t) \/ FileGrown(t)
    \/ RemoveFinds(t) \/ sys_unlink(t) \/ RmdirGets(t) \/ sys_rmdir(t)
    \/ LinkFinds(t) \/ (\E new \in Name : LinkGets(t, new)) \/ LinkAdds(t) \/ sys_link(t)

Next == \E t \in Task :
    \/ \E op \in Ops, path \in Name \cup {None}, name \in Name : Begin(t, op, path, name)
    \/ Step(t)
    \/ \E n \in Num : WriteFile(t, n) \/ Close(t, n)

Spec == Init /\ [][Next]_vars

-----------------------------------------------------------------------------
Clean == trouble = {} /\ ~stale
Entries(n) == {<<d, k>> \in Num \X (1..(NInode + NInode)) :
                  k \in DOMAIN fs.ent[d] /\ fs.ent[d][k].ino = n}
Subdirs(n) == {k \in DOMAIN fs.ent[n] :
                  fs.ent[n][k].ino # 0 /\ fs.inode[fs.ent[n][k].ino].kind = "dir"}
Tasks(pcs, ops, n) == {t \in Task : task[t].pc \in pcs /\ task[t].op \in ops /\ task[t].ino = n}

(* i_nlinks is the number of entries for the inode, with "." and the ".."  *)
(* of its subdirectories, but for calls that are at work on it.  An inode  *)
(* that is free has no entries then, and none is lost with its last entry. *)
LinkCounts ==
    Clean => \A n \in Num :
        fs.inode[n].nlinks + Cardinality(Tasks({"linked"}, {"link"}, n)) =
            Cardinality(Entries(n)) + Cardinality(Tasks({"add", "grow", "mkdir"}, {"creat", "mknod", "mkdir"}, n))
            + (IF fs.inode[n].kind = "dir" /\ ~Deleted(n) THEN 1 + Cardinality(Subdirs(n)) ELSE 0)
            + (IF n = 1 THEN 1 ELSE 0)

Growing == {t \in Task : task[t].pc \in {"grow", "write", "mkdir"}}
Owned == UNION {Range(fs.inode[n].zone) : n \in Num}


=============================================================================
