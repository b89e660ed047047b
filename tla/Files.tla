------------------------------- MODULE Files -------------------------------
(***************************************************************************)
(* Open files and descriptors (fs/open.cc, fs/fcntl.cc, fs/read_write.cc,  *)
(* fs/file_dev.cc), pipes (fs/pipe.cc), and what fork, exec and exit do to *)
(* them.  There is one regular file and one inode for pipes; what iget and *)
(* iput do to inodes is in Inode.                                          *)
(*                                                                         *)
(* The kernel sleeps in open_namei, in get_pipe_inode, in bread, in iput,  *)
(* in a pipe, and where a copy to or from user memory faults for a page    *)
(* that has to be loaded.  Sleepers are a set: wake_up of a queue makes    *)
(* all its tasks run in the end (WaitQueue).                               *)
(*                                                                         *)
(* Bytes of the pipe are numbered in the order in which they are claimed   *)
(* by writers, and wrong says that a call moved other bytes than those it  *)
(* has to move.  trouble names two races of this code that lead there:     *)
(*   "fault"   the pipe's head or tail is moved before the bytes are       *)
(*             copied, and the copy sleeps while they are used;            *)
(*   "shared"  file_read sleeps between the two places where it reads      *)
(*             f_pos, and a task that shares the file moves it.            *)
(***************************************************************************)
EXTENDS Naturals, Sequences, FiniteSets, FiniteSetsExt

CONSTANTS
    Task, None,
    NR_OPEN,            \* descriptors of a task
    NR_FILE,            \* entries of file_table
    PAGE_SIZE,          \* of the buffer of a pipe
    BLOCK_SIZE,
    MaxSize,            \* a bound: the size of the file
    Count,              \* the counts of read and write, the places of lseek
    Go,                 \* TRUE: the system goes on after a known error
    MaxCalls            \* a bound: calls

Fd == 0..NR_OPEN - 1
File == 1..NR_FILE
Inode == {"file", "pipe"}

ASSUME FilesAssumption ==
    /\ NR_OPEN \in Nat \ {0} /\ NR_FILE \in Nat \ {0} /\ PAGE_SIZE \in Nat \ {0, 1}
    /\ BLOCK_SIZE \in Nat \ {0} /\ Count \subseteq Nat \ {0} /\ None \notin File

VARIABLES
    alive,
    filp, cloexec,      \* the descriptors of a task, those that exec closes
    file,               \* file_table
    icount, size,       \* i_count, and i_size of the file
    pipe,               \* PIPE_HEAD, PIPE_TAIL, the page
    asleep,             \* tasks that sleep on i_wait of the pipe
    call,               \* where a task is in a call
    sent, got,          \* bytes of the pipe that were claimed
    trouble, wrong, calls

vars == <<alive, filp, cloexec, file, icount, size, pipe, asleep, call, sent, got,
          trouble, wrong, calls>>
fdvars == <<alive, filp, cloexec>>
pipevars == <<pipe, asleep, sent, got>>
errors == <<trouble, wrong>>

Unused == [count |-> 0, inode |-> "file", mode |-> 0, pos |-> 0, append |-> FALSE]
PipeEnd(mode) == [count |-> 1, inode |-> "pipe", mode |-> mode, pos |-> 0, append |-> FALSE]
Ready == [op |-> "none"]
EmptyPipe == [head |-> 0, tail |-> 0, page |-> [i \in 0..PAGE_SIZE - 1 |-> 0]]

(* A task that has a pipe and may have forked.                             *)
Init ==
    LET init == CHOOSE t \in Task : TRUE
    IN  /\ \E others \in SUBSET (Task \ {init}) : alive = {init} \cup others
        /\ filp = [t \in Task |-> [fd \in Fd |-> IF t \in alive /\ fd < 2 THEN fd + 1 ELSE None]]
        /\ file = [f \in File |-> IF f > 2 THEN Unused
                     ELSE [PipeEnd(f) EXCEPT !.count = Cardinality(alive)]]
    /\ icount = [file |-> 0, pipe |-> 2] /\ size = MaxSize
    /\ cloexec = [t \in Task |-> {}]
    /\ pipe = EmptyPipe /\ asleep = {} /\ sent = 0 /\ got = 0
    /\ call = [t \in Task |-> Ready] /\ trouble = {} /\ wrong = {} /\ calls = MaxCalls

-----------------------------------------------------------------------------
(* Control.                                                                *)
CanRun == trouble = {} \/ Go
At(t, op) == CanRun /\ t \notin asleep /\ call[t].op = op
Goto(t, rec) == call' = [call EXCEPT ![t] = rec] /\ UNCHANGED calls
Return(t) == Goto(t, Ready)
Called(t) == t \in alive /\ At(t, "none") /\ calls > 0 /\ calls' = calls - 1
Begin(t, rec) == Called(t) /\ call' = [call EXCEPT ![t] = rec]
AtOnce(t) == Called(t) /\ UNCHANGED call

FreeFds(t) == {fd \in Fd : filp[t][fd] = None}
FreeFiles == {f \in File : file[f].count = 0}
Second(S) == Min(S \ {Min(S)})

(* iput of an inode of the file or the pipe; wake_up for the pipe.         *)
iput(i) ==
    /\ icount' = [icount EXCEPT ![i] = @ - 1]
    /\ asleep' = IF i = "pipe" THEN {} ELSE asleep

-----------------------------------------------------------------------------
(***************************************************************************)
(* open and close.  A call that finds no free descriptor or entry returns  *)
(* an error and is not a step.                                             *)
(***************************************************************************)
sys_open(t) ==
    /\ FreeFds(t) # {} /\ FreeFiles # {}
    /\ LET fd == Min(FreeFds(t))
           f == Min(FreeFiles)
       IN  /\ Begin(t, [op |-> "open", fd |-> fd, f |-> f])
           /\ cloexec' = [cloexec EXCEPT ![t] = @ \ {fd}]
           /\ filp' = [filp EXCEPT ![t][fd] = f]
           /\ file' = [file EXCEPT ![f].count = @ + 1]
    /\ UNCHANGED <<alive, icount, size, pipevars, errors>>

open_namei(t) ==
    /\ At(t, "open")
    /\ LET c == call[t]
       IN  \/ \E append \in BOOLEAN, trunc \in BOOLEAN :
                /\ file' = [file EXCEPT ![c.f] = [count |-> 1, inode |-> "file", mode |-> 0,
                                                  pos |-> 0, append |-> append]]
                /\ icount' = [icount EXCEPT !["file"] = @ + 1]
                /\ size' = IF trunc THEN 0 ELSE size
                /\ UNCHANGED filp
           \/ /\ filp' = [filp EXCEPT ![t][c.fd] = None]
              /\ file' = [file EXCEPT ![c.f].count = 0]
              /\ UNCHANGED <<icount, size>>
    /\ Return(t)
    /\ UNCHANGED <<alive, cloexec, pipevars, errors>>

(* What sys_close does.                                                    *)
Close(t, fd) ==
    /\ filp' = [filp EXCEPT ![t][fd] = None]
    /\ cloexec' = [cloexec EXCEPT ![t] = @ \ {fd}]
    /\ IF filp[t][fd] = None
       THEN UNCHANGED <<file, icount, asleep>>
       ELSE /\ file' = [file EXCEPT ![filp[t][fd]].count = @ - 1]
            /\ IF file[filp[t][fd]].count > 1 THEN UNCHANGED <<icount, asleep>>
               ELSE iput(file[filp[t][fd]].inode)

sys_close(t, fd) ==
    /\ AtOnce(t) /\ filp[t][fd] # None
    /\ Close(t, fd)
    /\ UNCHANGED <<alive, size, pipe, sent, got, errors>>

-----------------------------------------------------------------------------
(* dup, dup2, fcntl.                                                       *)
(* Mutant of dupfd: the use is not counted.                                *)
DupUncounted(t, fd, arg) ==
    IF filp[t][fd] = None \/ {d \in FreeFds(t) : d >= arg} = {}
    THEN UNCHANGED <<filp, file, cloexec>>
    ELSE LET d == Min({e \in FreeFds(t) : e >= arg})
         IN  /\ filp' = [filp EXCEPT ![t][d] = filp[t][fd]]
             /\ cloexec' = [cloexec EXCEPT ![t] = @ \ {d}]
             /\ UNCHANGED file

dupfd(t, fd, arg) ==
    IF filp[t][fd] = None \/ {d \in FreeFds(t) : d >= arg} = {}
    THEN UNCHANGED <<filp, file, cloexec>>
    ELSE LET d == Min({e \in FreeFds(t) : e >= arg})
         IN  /\ filp' = [filp EXCEPT ![t][d] = filp[t][fd]]
             /\ cloexec' = [cloexec EXCEPT ![t] = @ \ {d}]
             /\ file' = [file EXCEPT ![filp[t][fd]].count = @ + 1]

sys_dup(t, fd, arg) ==
    /\ AtOnce(t) /\ filp[t][fd] # None /\ dupfd(t, fd, arg)
    /\ UNCHANGED <<alive, icount, size, pipevars, errors>>

(* dup2 closes first, and iput may sleep.                                  *)
sys_dup2(t, old, new) ==
    /\ Begin(t, [op |-> "dup2", old |-> old, new |-> new])
    /\ Close(t, new)
    /\ UNCHANGED <<alive, size, pipe, sent, got, errors>>

Dup2Ends(t) ==
    /\ At(t, "dup2") /\ dupfd(t, call[t].old, call[t].new)
    /\ Return(t)
    /\ UNCHANGED <<alive, icount, size, pipevars, errors>>

sys_fcntl(t, fd) ==
    /\ AtOnce(t) /\ filp[t][fd] # None
    /\ \/ \E on \in BOOLEAN :
            cloexec' = [cloexec EXCEPT ![t] = IF on THEN @ \cup {fd} ELSE @ \ {fd}]
            /\ UNCHANGED file
       \/ \E append \in BOOLEAN :
            file' = [file EXCEPT ![filp[t][fd]].append = append] /\ UNCHANGED cloexec
    /\ UNCHANGED <<alive, filp, icount, size, pipevars, errors>>

-----------------------------------------------------------------------------
(* fork, exec and exit.                                                    *)
copy_process(t, u) ==
    /\ AtOnce(t) /\ u \notin alive
    /\ alive' = alive \cup {u}
    /\ filp' = [filp EXCEPT ![u] = filp[t]]
    /\ cloexec' = [cloexec EXCEPT ![u] = cloexec[t]]
    /\ file' = [f \in File |-> [file[f] EXCEPT
                    !.count = @ + Cardinality({fd \in Fd : filp[t][fd] = f})]]
    /\ UNCHANGED <<icount, size, pipevars, errors>>

do_execve(t) ==
    /\ Begin(t, [op |-> "close", fds |-> cloexec[t], exit |-> FALSE])
    /\ UNCHANGED <<fdvars, file, icount, size, pipevars, errors>>

do_exit(t) ==
    /\ Begin(t, [op |-> "close", fds |-> Fd \ FreeFds(t), exit |-> TRUE])
    /\ UNCHANGED <<fdvars, file, icount, size, pipevars, errors>>

(* The loops over the descriptors in exec and exit.                        *)
CloseNext(t) ==
    /\ At(t, "close") /\ call[t].fds # {}
    /\ Close(t, Min(call[t].fds))
    /\ Goto(t, [call[t] EXCEPT !.fds = @ \ {Min(@)}])
    /\ UNCHANGED <<alive, size, pipe, sent, got, errors>>

CloseEnds(t) ==
    /\ At(t, "close") /\ call[t].fds = {}
    /\ IF call[t].exit THEN alive' = alive \ {t} /\ UNCHANGED cloexec
       ELSE cloexec' = [cloexec EXCEPT ![t] = {}] /\ UNCHANGED alive
    /\ Return(t)
    /\ UNCHANGED <<filp, file, icount, size, pipevars, errors>>

-----------------------------------------------------------------------------
(* Pipes.  sys_pipe gives everything back when it cannot get all it needs. *)
sys_pipe(t) ==
    /\ Cardinality(FreeFds(t)) >= 2 /\ Cardinality(FreeFiles) >= 2
    /\ LET fd == <<Min(FreeFds(t)), Second(FreeFds(t))>>
           f == <<Min(FreeFiles), Second(FreeFiles)>>
       IN  /\ Begin(t, [op |-> "pipe", fd |-> fd, f |-> f])
           /\ filp' = [filp EXCEPT ![t][fd[1]] = f[1], ![t][fd[2]] = f[2]]
           /\ file' = [file EXCEPT ![f[1]].count = 1, ![f[2]].count = 1]
    /\ UNCHANGED <<alive, cloexec, icount, size, pipevars, errors>>

get_pipe_inode(t) ==
    /\ At(t, "pipe")
    /\ LET c == call[t]
       IN  \/ /\ icount["pipe"] = 0
              /\ icount' = [icount EXCEPT !["pipe"] = 2]
              /\ pipe' = EmptyPipe /\ sent' = 0 /\ got' = 0
              /\ file' = [file EXCEPT ![c.f[1]] = PipeEnd(1), ![c.f[2]] = PipeEnd(2)]
              /\ UNCHANGED filp
           \/ /\ filp' = [filp EXCEPT ![t][c.fd[1]] = None, ![t][c.fd[2]] = None]
              /\ file' = [file EXCEPT ![c.f[1]].count = 0, ![c.f[2]].count = 0]
              /\ UNCHANGED <<icount, pipe, sent, got>>
    /\ Return(t)
    /\ UNCHANGED <<alive, cloexec, size, asleep, errors>>

PipeSize == (pipe.head + PAGE_SIZE - pipe.tail) % PAGE_SIZE

(* Mutant of Room: the page may be filled, and is then taken for empty.    *)
RoomAll == PAGE_SIZE - PipeSize

Room == PAGE_SIZE - 1 - PipeSize
Cells(from, n) == [i \in 1..n |-> (from + i - 1) % PAGE_SIZE]
Touched(from, n) == {Cells(from, n)[i] : i \in 1..n}

(* The bytes that another task has claimed and not yet copied.             *)
Copying(t) ==
    UNION {Touched(call[u].at, call[u].n) :
            u \in {v \in Task \ {t} : call[v].op \in {"copyout", "copyin"}}}
Uses(t, from, n) ==
    trouble' = IF Touched(from, n) \cap Copying(t) # {} THEN trouble \cup {"fault"} ELSE trouble
Wrong(what, is) == wrong' = IF is THEN wrong \cup {what} ELSE wrong

(***************************************************************************)
(* read_pipe to its next sleep, or to its end: after a chunk of n bytes at *)
(* cell at, which begins with byte number first, it takes what there is.   *)
(***************************************************************************)
(* Mutant of ReadOn: a reader that has to sleep does not wake the writers. *)
ReadNoWake(t, at, n, first, left) ==
    LET k == Min({left, PipeSize})
    IN  /\ pipe' = [pipe EXCEPT !.tail = (@ + k) % PAGE_SIZE]
        /\ got' = got + k
        /\ IF k = left \/ icount["pipe"] # 2
           THEN asleep' = {} /\ Return(t)
           ELSE asleep' = asleep \cup {t} /\ Goto(t, [op |-> "read", left |-> left - k])
        /\ UNCHANGED <<fdvars, file, icount, size, sent, errors>>

ReadOn(t, at, n, first, left) ==
    LET k == Min({left, PipeSize})
        cells == Cells(at, n) \o Cells(pipe.tail, k)
    IN  /\ pipe' = [pipe EXCEPT !.tail = (@ + k) % PAGE_SIZE]
        /\ got' = got + k
        /\ Uses(t, pipe.tail, k)
        /\ Wrong("pipe", \E i \in DOMAIN cells :
                pipe.page[cells[i]] # (IF i <= n THEN first + i ELSE got + i - n))
        /\ IF k = left \/ icount["pipe"] # 2
           THEN asleep' = {} /\ Return(t)
           ELSE asleep' = {t} /\ Goto(t, [op |-> "read", left |-> left - k])
        /\ UNCHANGED <<fdvars, file, icount, size, sent>>

read_pipe(t) == At(t, "read") /\ ReadOn(t, 0, 0, 0, call[t].left)

(* The copy of the first chunk faults: the tail has been moved.            *)
ReadFaults(t) ==
    /\ At(t, "read") /\ PipeSize > 0
    /\ LET n == Min({PAGE_SIZE - pipe.tail, call[t].left, PipeSize})
       IN  /\ pipe' = [pipe EXCEPT !.tail = (@ + n) % PAGE_SIZE]
           /\ got' = got + n
           /\ Goto(t, [op |-> "copyout", at |-> pipe.tail, n |-> n, first |-> got,
                       left |-> call[t].left - n])
           /\ Uses(t, pipe.tail, n)
    /\ UNCHANGED <<fdvars, file, icount, size, asleep, sent, wrong>>

CopyOut(t) ==
    /\ At(t, "copyout")
    /\ ReadOn(t, call[t].at, call[t].n, call[t].first, call[t].left)

(* write_pipe in the same way; n bytes of an earlier chunk are copied to   *)
(* cell at.  With no reader, a full pipe ends the call with SIGPIPE.       *)
WriteOn(t, at, n, first, left) ==
    LET k == Min({left, Room})
        old == Cells(at, n)
        new == Cells(pipe.head, k)
        Put(page, cells, from) ==
            [c \in 0..PAGE_SIZE - 1 |-> IF \E i \in DOMAIN cells : cells[i] = c
                THEN from + (CHOOSE i \in DOMAIN cells : cells[i] = c) ELSE page[c]]
    IN  /\ pipe' = [pipe EXCEPT !.head = (@ + k) % PAGE_SIZE,
                                !.page = Put(Put(@, old, first), new, sent)]
        /\ sent' = sent + k
        /\ Uses(t, pipe.head, k)
        /\ IF k = left \/ icount["pipe"] # 2
           THEN asleep' = {} /\ Return(t)
           ELSE asleep' = {t} /\ Goto(t, [op |-> "write", left |-> left - k])
        /\ UNCHANGED <<fdvars, file, icount, size, got, wrong>>

write_pipe(t) == At(t, "write") /\ WriteOn(t, 0, 0, 0, call[t].left)

WriteFaults(t) ==
    /\ At(t, "write") /\ Room > 0
    /\ LET n == Min({PAGE_SIZE - pipe.head, call[t].left, Room})
       IN  /\ pipe' = [pipe EXCEPT !.head = (@ + n) % PAGE_SIZE]
           /\ sent' = sent + n
           /\ Goto(t, [op |-> "copyin", at |-> pipe.head, n |-> n, first |-> sent,
                       left |-> call[t].left - n])
           /\ Uses(t, pipe.head, n)
    /\ UNCHANGED <<fdvars, file, icount, size, asleep, got, wrong>>

CopyIn(t) ==
    /\ At(t, "copyin")
    /\ WriteOn(t, call[t].at, call[t].n, call[t].first, call[t].left)

-----------------------------------------------------------------------------
(***************************************************************************)
(* read, write and lseek.  A task that moves f_pos while another sleeps in *)
(* file_read on the same entry is in trouble.                              *)
(***************************************************************************)
Moves(t, f) ==
    trouble' = IF \E u \in Task \ {t} : call[u].op = "file_read" /\ call[u].f = f
               THEN trouble \cup {"shared"} ELSE trouble

sys_read(t, fd, count) ==
    /\ filp[t][fd] # None
    /\ LET f == filp[t][fd]
           left == Min({count, size - file[f].pos})
       IN  \/ /\ file[f].inode = "pipe" /\ file[f].mode = 1
              /\ Begin(t, [op |-> "read", left |-> count])
           \/ /\ file[f].inode = "file" /\ file[f].pos < size
              /\ Begin(t, [op |-> "file_read", f |-> f, left |-> left,
                           block |-> file[f].pos \div BLOCK_SIZE])
    /\ UNCHANGED <<fdvars, file, icount, size, pipevars, errors>>

(* One block: bread has slept, or has failed.  The offset in the block is  *)
(* that of f_pos now.                                                      *)
file_read(t) ==
    /\ At(t, "file_read")
    /\ LET c == call[t]
           pos == file[c.f].pos
           chars == Min({BLOCK_SIZE - (pos % BLOCK_SIZE), c.left})
       IN  \/ /\ file' = [file EXCEPT ![c.f].pos = @ + chars]
              /\ Moves(t, c.f)
              /\ Wrong("file", pos \div BLOCK_SIZE # c.block)
              /\ IF chars = c.left THEN Return(t)
                 ELSE Goto(t, [c EXCEPT !.left = @ - chars,
                                        !.block = (pos + chars) \div BLOCK_SIZE])
           \/ Return(t) /\ UNCHANGED <<file, errors>>
    /\ UNCHANGED <<fdvars, icount, size, pipevars>>

sys_write(t, fd, count) ==
    /\ filp[t][fd] # None
    /\ LET f == filp[t][fd]
           pos == IF file[f].append THEN size ELSE file[f].pos
       IN  \/ /\ file[f].inode = "pipe" /\ file[f].mode = 2
              /\ Begin(t, [op |-> "write", left |-> count])
           \/ /\ file[f].inode = "file" /\ pos + count <= MaxSize
              /\ Begin(t, [op |-> "file_write", f |-> f, left |-> count, pos |-> pos])
    /\ UNCHANGED <<fdvars, file, icount, size, pipevars, errors>>

(* One block; create_block or bread may fail.  f_pos is set at the end.    *)
file_write(t) ==
    /\ At(t, "file_write")
    /\ LET c == call[t]
           chars == Min({BLOCK_SIZE - (c.pos % BLOCK_SIZE), c.left})
           Ends(pos) ==
                /\ Return(t)
                /\ IF file[c.f].append THEN UNCHANGED <<file, trouble>>
                   ELSE file' = [file EXCEPT ![c.f].pos = pos] /\ Moves(t, c.f)
       IN  \/ /\ size' = Max({size, c.pos + chars})
              /\ IF chars = c.left THEN Ends(c.pos + chars)
                 ELSE /\ Goto(t, [c EXCEPT !.left = @ - chars, !.pos = @ + chars])
                      /\ UNCHANGED <<file, trouble>>
           \/ Ends(c.pos) /\ UNCHANGED size
    /\ UNCHANGED <<fdvars, icount, pipevars, wrong>>

sys_lseek(t, fd, pos) ==
    /\ AtOnce(t) /\ filp[t][fd] # None /\ file[filp[t][fd]].inode = "file"
    /\ file' = [file EXCEPT ![filp[t][fd]].pos = pos]
    /\ Moves(t, filp[t][fd])
    /\ UNCHANGED <<fdvars, icount, size, pipevars, wrong>>

-----------------------------------------------------------------------------
(* The steps by which a call goes on.                                      *)
Continue(t) ==
    \/ open_namei(t) \/ Dup2Ends(t) \/ CloseNext(t) \/ CloseEnds(t) \/ get_pipe_inode(t)
    \/ read_pipe(t) \/ ReadFaults(t) \/ CopyOut(t)
    \/ write_pipe(t) \/ WriteFaults(t) \/ CopyIn(t)
    \/ file_read(t) \/ file_write(t)

Next ==
    \E t \in Task :
        \/ Continue(t)
        \/ sys_open(t) \/ sys_pipe(t) \/ do_execve(t) \/ do_exit(t)
        \/ \E u \in Task : copy_process(t, u)
        \/ \E fd \in Fd :
            \/ sys_close(t, fd) \/ sys_fcntl(t, fd)
            \/ \E d \in Fd : sys_dup(t, fd, d) \/ sys_dup2(t, fd, d)
            \/ \E n \in Count : sys_read(t, fd, n) \/ sys_write(t, fd, n)
            \/ \E pos \in Count : sys_lseek(t, fd, pos)

(* A task that is not asleep runs: schedule() gives everyone its turn, and *)
(* disk and page transfers end.                                            *)
Spec == Init /\ [][Next]_vars /\ \A t \in Task : WF_vars(Continue(t))

-----------------------------------------------------------------------------
(* The entries of calls that have not yet set them.                        *)
Pending ==
    UNION {IF call[t].op = "open" THEN {call[t].f}
           ELSE IF call[t].op = "pipe" THEN {call[t].f[1], call[t].f[2]} ELSE {} : t \in Task}

(***************************************************************************)
(* f_count is the number of descriptors, in all tasks, that name an entry, *)
(* and i_count the number of entries in use with the inode: the pipe's     *)
(* "i_count != 2" then means that all descriptors of the other end are     *)
(* closed, through any dup, dup2, fork, exec and exit.                     *)
(***************************************************************************)
FileCounts ==
    /\ \A f \in File :
        file[f].count = Cardinality({d \in alive \X Fd : filp[d[1]][d[2]] = f})
    /\ \A i \in Inode :
        icount[i] = Cardinality({f \in File \ Pending : file[f].count > 0 /\ file[f].inode = i})

(* A reader gets the bytes of the pipe once and in order, and file_read    *)
(* copies from the block that f_pos is in, but for the two races.          *)
RightBytes == trouble = {} => wrong = {}

CanGoOn(t) ==
    \/ icount["pipe"] # 2
    \/ call[t].op = "read" /\ PipeSize > 0
    \/ call[t].op = "write" /\ Room > 0

(* A task does not sleep on in a pipe when it could go on: for a reader,   *)
(* there are bytes or no writers; for a writer, room or no readers.        *)
PipeSleeperWoken ==
    \A t \in Task :
        (t \in asleep /\ CanGoOn(t)) ~> (t \notin asleep \/ trouble # {})
=============================================================================
