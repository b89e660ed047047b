------------------------------- MODULE Memory -------------------------------
(***************************************************************************)
(* Memory management: mm/memory.cc, with what fork, exec and exit do to    *)
(* the page tables.  The kernel is not preempted, so a system call or a    *)
(* page fault is one step up to the place where it sleeps: do_no_page      *)
(* while it reads the page, a system call between verify_area and its copy *)
(* to user space, exec while it closes files.                              *)
(*                                                                         *)
(* view is a ghost: what a task must find at each of its addresses.  A     *)
(* task writes its own number.  trouble is a ghost, too: the known races   *)
(* of this code that have been lost,                                       *)
(*   "torn"    a page that un_wp_page has copied is not dirty until it is  *)
(*             written: it was shared before that with another task of the *)
(*             executable although it has been changed;                    *)
(*   "exec"    a page of the old program was shared with a task of the new *)
(*             executable while exec slept;                                *)
(*   "verify"  a page was shared between verify_area and the copy to it;   *)
(* and a leak,                                                             *)
(*   "oom"     a task was killed in copy_strings.                          *)
(***************************************************************************)
EXTENDS Integers, FiniteSets, FiniteSetsExt

CONSTANTS
    NR_TASKS,       \* tasks 1..NR_TASKS, without task 0
    NR_PAGES,       \* the page frames above LOW_MEM
    NR_ADDR,        \* the pages of a task's address space ...
    PerTable,       \* ... and how many of them one page table maps
    EndData,        \* pages below it come from the executable
    Exec,           \* the executables
    MaxFork,        \* a bound: calls of fork,
    MaxExec,        \* ... calls of exec,
    MaxOdd,         \* ... system calls that write to user space, ticks
                    \*     behind a write fault, sleeps of an exec
    NULL

ASSUME MemoryAssumption ==
    /\ {NR_TASKS, NR_ADDR, PerTable} \subseteq Nat \ {0}
    /\ NR_PAGES \in Nat \ {0, 1}
    /\ EndData \in 0..(NR_ADDR - 1)
    /\ NULL \notin Exec

Task == 1..NR_TASKS
Frame == 1..NR_PAGES
Addr == 0..(NR_ADDR - 1)
DirOf(a) == a \div PerTable
Dir == {DirOf(a) : a \in Addr}
ArgAddr == NR_ADDR - 1          \* where exec puts the arguments
Low == -1                       \* a page below LOW_MEM, which is not counted

VARIABLES
    mem,        \* mem_map, the page directory, the page tables, the pages
    task,       \* the tasks and where they are
    view,       \* ghost: what each task must see
    trouble,    \* ghost: what went wrong already
    left        \* the bounds

vars == <<mem, task, view, trouble, left>>

Absent == [page |-> 0, rw |-> FALSE, dirty |-> FALSE]
Pte == [page : Frame \cup {0, Low}, rw : BOOLEAN, dirty : BOOLEAN]

(* The contents of a page: empty, arguments of exec, a page of the kernel, *)
(* a page of an executable, or written by a task.                          *)
Zero == <<"zero", 0>>
Args == <<"args", 0>>
Kernel == <<"kernel", 0>>
Image(e) == <<"image", e>>
By(t) == <<"by", t>>
Value == {Zero, Args, Kernel} \cup {Image(e) : e \in Exec} \cup {By(t) : t \in Task}

(* A task: where it is ("load" goes back to back), its executable, the     *)
(* page of its task_struct, the pages its kernel stack knows of (the page  *)
(* that is loaded, the arguments of exec), the address it is busy with and *)
(* the executable that it changes to.  Two ghosts: torn, the addresses     *)
(* whose page was copied without a write (one that has been written since  *)
(* is dirty), and ready: verify_area left no page that is write-protected. *)
NoTask == [st |-> "none", back |-> "none", exe |-> NULL, self |-> 0,
           load |-> 0, args |-> 0, at |-> 0, new |-> NULL,
           torn |-> {}, ready |-> FALSE]

TypeOK ==
    /\ mem \in [map : [Frame -> Int],
                dir : [Task -> [Dir -> Frame \cup {0}]],
                pte : [Task -> [Addr -> Pte]],
                data : [Frame -> Value]]
    /\ task \in [Task -> [st : {"none", "user", "load", "copy", "exec", "close", "zombie"},
                          back : {"none", "user", "copy", "exec"},
                          exe : Exec \cup {NULL}, self : Frame \cup {0},
                          load : Frame \cup {0}, args : Frame \cup {0},
                          at : Addr, new : Exec \cup {NULL},
                          torn : SUBSET Addr, ready : BOOLEAN]]
    /\ view \in [Task -> [Addr -> Value]]
    /\ trouble \subseteq {"verify", "torn", "exec", "oom"}

(* Task 1 is init, forked from task 0: its first page is a page of the     *)
(* kernel, and it has no executable.                                       *)
Init ==
    /\ mem = [map |-> [f \in Frame |-> IF f >= NR_PAGES - 1 THEN 1 ELSE 0],
              dir |-> [t \in Task |-> [d \in Dir |->
                          IF t = 1 /\ d = 0 THEN NR_PAGES - 1 ELSE 0]],
              pte |-> [t \in Task |-> [a \in Addr |->
                          IF t = 1 /\ a = 0 THEN [Absent EXCEPT !.page = Low] ELSE Absent]],
              data |-> [f \in Frame |-> Zero]]
    /\ task = [t \in Task |-> IF t = 1
                 THEN [NoTask EXCEPT !.st = "user", !.self = NR_PAGES] ELSE NoTask]
    /\ view = [t \in Task |-> [a \in Addr |->
                                 IF t = 1 /\ a = 0 THEN Kernel ELSE Zero]]
    /\ trouble = {}
    /\ left = [fork |-> MaxFork, exec |-> MaxExec, odd |-> MaxOdd]

-----------------------------------------------------------------------------
(***************************************************************************)
(* The operators work on a memory m and return the next one.               *)
(* get_free_page takes the last free page, 0 means that there is none.     *)
(***************************************************************************)
Free(m) == {f \in Frame : m.map[f] = 0}
FreePage(m) == IF Free(m) = {} THEN 0 ELSE Max(Free(m))

get_free_page(m) ==
    IF FreePage(m) = 0 THEN m
    ELSE [m EXCEPT !.map[FreePage(m)] = 1, !.data[FreePage(m)] = Zero]

free_page(m, f) == IF f \in Frame THEN [m EXCEPT !.map[f] = @ - 1] ELSE m

free_page_tables(m, t) ==
    [m EXCEPT
        !.map = [f \in Frame |-> @[f] - Cardinality({a \in Addr : m.pte[t][a].page = f})
                                      - Cardinality({d \in Dir : m.dir[t][d] = f})],
        !.pte[t] = [a \in Addr |-> Absent],
        !.dir[t] = [d \in Dir |-> 0]]

(* copy_page_tables copies the tables of t in order, until there is no     *)
(* page for the next one; each takes the last free page that is left.      *)
Tables(m, t) == {d \in Dir : m.dir[t][d] # 0}
Before(m, t, d) == Cardinality({e \in Tables(m, t) : e < d})
Copied(m, t) == {d \in Tables(m, t) : Before(m, t, d) < Cardinality(Free(m))}
NewTable(m, t, d) ==
    CHOOSE f \in Free(m) : Cardinality({g \in Free(m) : g > f}) = Before(m, t, d)

Shared(m, t) == {a \in Addr : DirOf(a) \in Copied(m, t) /\ m.pte[t][a].page # 0}

(* Mutant of copy_page_tables: the father's page is not write-protected.   *)
CopyWritable(m, t, c) ==
    LET new == {NewTable(m, t, d) : d \in Copied(m, t)}
    IN  [m EXCEPT
           !.dir[c] = [d \in Dir |-> IF d \in Copied(m, t) THEN NewTable(m, t, d) ELSE @[d]],
           !.pte[c] = [a \in Addr |-> IF a \in Shared(m, t)
                         THEN [m.pte[t][a] EXCEPT !.rw = FALSE] ELSE @[a]],
           !.map = [f \in Frame |-> IF f \in new THEN 1
                      ELSE @[f] + Cardinality({a \in Shared(m, t) : m.pte[t][a].page = f})],
           !.data = [f \in Frame |-> IF f \in new THEN Zero ELSE @[f]]]

(* The child's entries and, above LOW_MEM, the father's are                *)
(* write-protected, and the pages are counted.                             *)
copy_page_tables(m, t, c) ==
    LET new == {NewTable(m, t, d) : d \in Copied(m, t)}
    IN  [m EXCEPT
           !.dir[c] = [d \in Dir |-> IF d \in Copied(m, t) THEN NewTable(m, t, d) ELSE @[d]],
           !.pte[c] = [a \in Addr |-> IF a \in Shared(m, t)
                         THEN [m.pte[t][a] EXCEPT !.rw = FALSE] ELSE @[a]],
           !.pte[t] = [a \in Addr |-> IF a \in Shared(m, t)
                         THEN [@[a] EXCEPT !.rw = FALSE] ELSE @[a]],
           !.map = [f \in Frame |-> IF f \in new THEN 1
                      ELSE @[f] + Cardinality({a \in Shared(m, t) : m.pte[t][a].page = f})],
           !.data = [f \in Frame |-> IF f \in new THEN Zero ELSE @[f]]]

AllCopied(m, t, c) == \A d \in Dir : m.dir[t][d] # 0 => m.dir[c][d] # 0

(* A page table for the address a, if there is a page for it.              *)
WithTable(m, t, a) ==
    IF m.dir[t][DirOf(a)] # 0 \/ FreePage(m) = 0 THEN m
    ELSE [get_free_page(m) EXCEPT !.dir[t][DirOf(a)] = FreePage(m)]

HasTable(m, t, a) == WithTable(m, t, a).dir[t][DirOf(a)] # 0

put_page(m, t, f, a) ==
    [WithTable(m, t, a) EXCEPT !.pte[t][a] = [page |-> f, rw |-> TRUE, dirty |-> FALSE]]

Private(m, f) == f # Low /\ m.map[f] = 1

(* Mutant of un_wp_page: the old page keeps its count.                     *)
UnWpUncounted(m, t, a) ==
    LET old == m.pte[t][a].page IN
    IF Private(m, old) THEN [m EXCEPT !.pte[t][a].rw = TRUE]
    ELSE [get_free_page(m) EXCEPT
            !.pte[t][a] = [page |-> FreePage(m), rw |-> TRUE, dirty |-> FALSE],
            !.data[FreePage(m)] = IF old = Low THEN Kernel ELSE m.data[old]]

(* Copy on write.  The new page is not dirty, whatever the old one was.    *)
un_wp_page(m, t, a) ==
    LET old == m.pte[t][a].page IN
    IF Private(m, old) THEN [m EXCEPT !.pte[t][a].rw = TRUE]
    ELSE [free_page(get_free_page(m), old) EXCEPT
            !.pte[t][a] = [page |-> FreePage(m), rw |-> TRUE, dirty |-> FALSE],
            !.data[FreePage(m)] = IF old = Low THEN Kernel ELSE m.data[old]]

(* The addresses of t that are torn after un_wp_page.                      *)
Torn(m, t, a) == task[t].torn \cup (IF Private(m, m.pte[t][a].page) THEN {} ELSE {a})

Protected(m, t, a) == m.pte[t][a].page # 0 /\ ~m.pte[t][a].rw
CanCopy(m, t, a) == Private(m, m.pte[t][a].page) \/ FreePage(m) # 0

(* The processor writes to a page: the contents change and the dirty bit   *)
(* is set.  In the kernel it does not look at rw (boot/head.s leaves the   *)
(* WP bit of cr0 alone).                                                   *)
Store(m, t, a) == [m EXCEPT !.pte[t][a].dirty = TRUE, !.data[m.pte[t][a].page] = By(t)]

(* What a task finds at an address with a page.                            *)
Seen(t, a) == LET f == mem.pte[t][a].page IN IF f = Low THEN Kernel ELSE mem.data[f]

-----------------------------------------------------------------------------
At(t, S) == task[t].st \in S
Same == UNCHANGED <<view, trouble, left>>
Counted(x) == left[x] > 0 /\ left' = [left EXCEPT ![x] = @ - 1]

(* The task calls do_exit with memory m: sys_exit or oom().  The pages its *)
(* kernel stack knows of are not given back.                               *)
do_exit(t, m) ==
    /\ mem' = free_page_tables(m, t)
    /\ task' = [task EXCEPT ![t] = [NoTask EXCEPT !.st = "zombie", !.self = task[t].self]]
    /\ trouble' = trouble \cup (IF task[t].args # 0 THEN {"oom"} ELSE {})
    /\ UNCHANGED <<view, left>>

sys_exit(t) == t # 1 /\ At(t, {"user"}) /\ do_exit(t, mem)

(* The father waits: release() gives the page of the task_struct back.     *)
release(t) ==
    /\ t # 1 /\ At(t, {"zombie"})
    /\ mem' = free_page(mem, task[t].self)
    /\ task' = [task EXCEPT ![t] = NoTask]
    /\ Same

(* fork: a page for the task_struct, then the page tables; when they do    *)
(* not fit, what has been copied is freed again.                           *)
copy_process(t, c) ==
    /\ At(t, {"user"}) /\ At(c, {"none"})
    /\ \A s \in 1..(c - 1) : task[s].st # "none"
    /\ FreePage(mem) # 0
    /\ LET m == copy_page_tables(get_free_page(mem), t, c) IN
       \/ /\ AllCopied(m, t, c)
          /\ mem' = m
          /\ task' = [task EXCEPT ![c] =
                        [NoTask EXCEPT !.st = "user", !.exe = task[t].exe,
                                       !.self = FreePage(mem), !.torn = task[t].torn]]
          /\ view' = [view EXCEPT ![c] = view[t]]
       \/ /\ ~AllCopied(m, t, c)
          /\ mem' = free_page(free_page_tables(m, c), FreePage(mem))
          /\ UNCHANGED <<task, view>>
    /\ Counted("fork")
    /\ UNCHANGED trouble

-----------------------------------------------------------------------------
(* Writes of a task in user mode.                                          *)
Write(t, a) ==
    /\ At(t, {"user"}) /\ mem.pte[t][a].rw
    /\ mem' = Store(mem, t, a)
    /\ view' = [view EXCEPT ![t][a] = By(t)]
    /\ UNCHANGED <<task, trouble, left>>

(* A write to a protected page: do_wp_page, and the instruction is started *)
(* again at once ...                                                       *)
WriteFault(t, a) ==
    /\ At(t, {"user"}) /\ Protected(mem, t, a) /\ CanCopy(mem, t, a)
    /\ mem' = Store(un_wp_page(mem, t, a), t, a)
    /\ view' = [view EXCEPT ![t][a] = By(t)]
    /\ UNCHANGED <<task, trouble, left>>

(* ... or a timer interrupt comes first and another task runs.             *)
WriteFaultTick(t, a) ==
    /\ At(t, {"user"}) /\ Protected(mem, t, a) /\ CanCopy(mem, t, a)
    /\ Counted("odd")
    /\ mem' = un_wp_page(mem, t, a)
    /\ task' = [task EXCEPT ![t].torn = Torn(mem, t, a)]
    /\ UNCHANGED <<view, trouble>>

WriteOom(t, a) ==
    /\ At(t, {"user"}) /\ Protected(mem, t, a) /\ ~CanCopy(mem, t, a)
    /\ do_exit(t, mem)

-----------------------------------------------------------------------------
(***************************************************************************)
(* do_no_page: a page beyond the executable is empty; one of the           *)
(* executable is shared with a task that has it clean, or read.            *)
(***************************************************************************)
Faults(t, a) == /\ At(t, {"user", "copy", "exec"}) /\ mem.pte[t][a].page = 0
                /\ At(t, {"copy"}) => task[t].at = a

Anonymous(t, a) == task[t].exe = NULL \/ a >= EndData

get_empty_page(t, a) ==
    /\ Faults(t, a) /\ Anonymous(t, a)
    /\ \/ /\ FreePage(mem) # 0 /\ HasTable(get_free_page(mem), t, a)
          /\ mem' = put_page(get_free_page(mem), t, FreePage(mem), a)
          /\ UNCHANGED task /\ Same
       \/ /\ FreePage(mem) = 0 \/ ~HasTable(get_free_page(mem), t, a)
          /\ do_exit(t, mem)

(* Mutant of Clean: the dirty bit is not looked at.                        *)
AnyPage(p, a) == mem.pte[p][a].page \notin {0, Low}

(* try_to_share: is there a page at a in p, clean and above LOW_MEM?       *)
Clean(p, a) == mem.pte[p][a].page \notin {0, Low} /\ ~mem.pte[p][a].dirty

(* The tasks that share_page finds, from the last one down.                *)
Sharers(t, a) ==
    {p \in Task \ {t} : /\ task[p].st # "none" /\ task[p].exe = task[t].exe
                        /\ Clean(p, a)}

(* The page of p is not the one of its executable.                         *)
Lost(p, a) ==
    IF Seen(p, a) = Image(task[p].exe) THEN {}
    ELSE IF At(p, {"close"}) THEN {"exec"}
    ELSE IF a \in task[p].torn THEN {"torn"} ELSE {}

share_page(t, a) ==
    /\ Faults(t, a) /\ ~Anonymous(t, a) /\ Sharers(t, a) # {}
    /\ LET p == Max(Sharers(t, a))
           m == WithTable(mem, t, a)
           entry == [mem.pte[p][a] EXCEPT !.rw = FALSE]
       IN  \/ /\ HasTable(mem, t, a)
              /\ mem' = [m EXCEPT !.pte[p][a] = entry, !.pte[t][a] = entry,
                                  !.map[entry.page] = @ + 1]
              /\ trouble' = trouble \cup Lost(p, a)
              /\ UNCHANGED <<task, view, left>>
           \/ ~HasTable(mem, t, a) /\ do_exit(t, mem)

(* bread_page sleeps; the page is known to the kernel stack only.          *)
LoadBegins(t, a) ==
    /\ Faults(t, a) /\ ~Anonymous(t, a) /\ Sharers(t, a) = {}
    /\ \/ /\ FreePage(mem) # 0
          /\ mem' = get_free_page(mem)
          /\ task' = [task EXCEPT ![t].st = "load", ![t].back = task[t].st,
                                  ![t].at = a, ![t].load = FreePage(mem)]
          /\ Same
       \/ FreePage(mem) = 0 /\ do_exit(t, mem)

LoadEnds(t) ==
    /\ At(t, {"load"})
    /\ LET f == task[t].load
           a == task[t].at
           m == [mem EXCEPT !.data[f] = Image(task[t].exe)]
       IN  \/ /\ HasTable(m, t, a)
              /\ mem' = put_page(m, t, f, a)
              /\ task' = [task EXCEPT ![t].st = task[t].back, ![t].back = "none",
                                      ![t].load = 0]
              /\ Same
           \/ ~HasTable(m, t, a) /\ do_exit(t, free_page(m, f))

-----------------------------------------------------------------------------
(***************************************************************************)
(* A system call that writes to user space: verify_area first, the copy    *)
(* later, often after a sleep; or there is nothing to copy.                *)
(***************************************************************************)
verify_area(t, a) ==
    /\ At(t, {"user"}) /\ left.odd > 0
    /\ \/ /\ Protected(mem, t, a) /\ ~CanCopy(mem, t, a)
          /\ do_exit(t, mem)
       \/ /\ Protected(mem, t, a) => CanCopy(mem, t, a)
          /\ Counted("odd")
          /\ mem' = IF Protected(mem, t, a) THEN un_wp_page(mem, t, a) ELSE mem
          /\ task' = [task EXCEPT ![t].st = "copy", ![t].at = a,
                                  ![t].torn = IF Protected(mem, t, a) THEN Torn(mem, t, a) ELSE @,
                                  ![t].ready = ~Protected(mem', t, a)]
          /\ UNCHANGED <<view, trouble>>

(* put_fs_byte and its kind, once the page is there.                       *)
CopyToUser(t) ==
    /\ At(t, {"copy"}) /\ mem.pte[t][task[t].at].page \notin {0, Low}
    /\ mem' = Store(mem, t, task[t].at)
    /\ view' = [view EXCEPT ![t][task[t].at] = By(t)]
    /\ task' = [task EXCEPT ![t].st = "user", ![t].ready = FALSE]
    /\ trouble' = trouble \cup (IF task[t].ready /\ ~Private(mem, mem.pte[t][task[t].at].page)
                                THEN {"verify"} ELSE {})
    /\ UNCHANGED left

NothingToCopy(t) ==
    /\ At(t, {"copy"})
    /\ task' = [task EXCEPT ![t].st = "user", ![t].ready = FALSE]
    /\ UNCHANGED mem /\ Same

-----------------------------------------------------------------------------
(***************************************************************************)
(* exec.  copy_strings fills a page with the arguments and may fault on    *)
(* them; then the executable changes, files are closed, the old pages are  *)
(* freed and the arguments put at the top of the new address space.        *)
(***************************************************************************)
copy_strings(m) == [get_free_page(m) EXCEPT !.data[FreePage(m)] = Args]

ExecBegins(t, e) ==
    /\ At(t, {"user"}) /\ Counted("exec")
    /\ FreePage(mem) # 0
    /\ mem' = copy_strings(mem)
    /\ task' = [task EXCEPT ![t].st = "exec", ![t].args = FreePage(mem), ![t].new = e]
    /\ UNCHANGED <<view, trouble>>

(* copy_strings cannot go on, or the header is wrong: exec_error1 and 2.   *)
ExecFails(t) ==
    /\ At(t, {"exec"})
    /\ mem' = free_page(mem, task[t].args)
    /\ task' = [task EXCEPT ![t].st = "user", ![t].args = 0, ![t].new = NULL]
    /\ Same

change_ldt(m, t, args) == put_page(m, t, args, ArgAddr)

Finished(t, e) ==
    /\ mem' = change_ldt(free_page_tables(mem, t), t, task[t].args)
    /\ task' = [task EXCEPT ![t].st = "user", ![t].exe = e, ![t].args = 0, ![t].new = NULL,
                            ![t].torn = {}]
    /\ view' = [view EXCEPT ![t] = [a \in Addr |-> CASE a = ArgAddr -> Args
                                                     [] a < EndData -> Image(e)
                                                     [] OTHER -> Zero]]
    /\ UNCHANGED <<trouble, left>>

do_execve(t) == At(t, {"exec"}) /\ Finished(t, task[t].new)

(* A file with close_on_exec is closed and that sleeps: the task has its   *)
(* new executable and its old pages.                                       *)
ExecCloses(t) ==
    /\ At(t, {"exec"})
    /\ task' = [task EXCEPT ![t].st = "close", ![t].exe = task[t].new]
    /\ Counted("odd")
    /\ UNCHANGED <<mem, view, trouble>>

ExecClosed(t) == At(t, {"close"}) /\ Finished(t, task[t].exe)

-----------------------------------------------------------------------------
Next ==
    \E t \in Task :
        \/ sys_exit(t) \/ release(t)
        \/ \E c \in Task : copy_process(t, c)
        \/ \E a \in Addr : \/ Write(t, a) \/ WriteFault(t, a) \/ WriteFaultTick(t, a)
                           \/ WriteOom(t, a) \/ get_empty_page(t, a) \/ share_page(t, a)
                           \/ LoadBegins(t, a) \/ verify_area(t, a)
        \/ LoadEnds(t) \/ CopyToUser(t) \/ NothingToCopy(t)
        \/ \E e \in Exec : ExecBegins(t, e)
        \/ ExecFails(t) \/ do_execve(t) \/ ExecCloses(t) \/ ExecClosed(t)

Spec == Init /\ [][Next]_vars

-----------------------------------------------------------------------------
(* Who refers to a frame: entries of page tables, the page directory,      *)
(* task_structs and kernel stacks.                                         *)
Refs(f) ==
    Cardinality({x \in Task \X Addr : mem.pte[x[1]][x[2]].page = f})
    + Cardinality({x \in Task \X Dir : mem.dir[x[1]][x[2]] = f})
    + Cardinality({t \in Task : task[t].self = f})
    + Cardinality({t \in Task : task[t].load = f})
    + Cardinality({t \in Task : task[t].args = f})

(* mem_map counts the references to every page: no page is free while      *)
(* something points to it, none is counted that nothing points to (except  *)
(* the arguments of an exec that is killed for want of memory in           *)
(* copy_strings, which are lost), and un_wp_page (memory.cc:227) may trust *)
(* a count of one.                                                         *)
RefCounts ==
    \A f \in Frame : IF "oom" \in trouble THEN mem.map[f] >= Refs(f)
                                          ELSE mem.map[f] = Refs(f)

(* A page that somebody may write to is mapped once: fork, un_wp_page and  *)
(* try_to_share write-protect what they share (memory.cc:178, 329).        *)
WritableUnshared ==
    \A t \in Task, a \in Addr :
        mem.pte[t][a].rw => mem.map[mem.pte[t][a].page] = 1 /\ mem.pte[t][a].page # Low

(* A task finds at every present address what it wrote there last, what    *)
(* its father had there, or the contents of its executable, whoever shares *)
(* the page: copy-on-write and try_to_share cannot be noticed.             *)
ViewIsOwn ==
    \A t \in Task, a \in Addr :
        At(t, {"user", "load", "exec", "copy"}) /\ mem.pte[t][a].page # 0
            => Seen(t, a) = view[t][a]

(* ViewIsOwn, until one of the races "torn", "exec" and "verify" has been  *)
(* lost: system calls that write to user space, ticks behind a write fault *)
(* and an exec that sleeps are harmless when nobody shares the page then.  *)
PrivateView == trouble \cap {"verify", "torn", "exec"} = {} => ViewIsOwn
=============================================================================
