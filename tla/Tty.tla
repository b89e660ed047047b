-------------------------------- MODULE Tty --------------------------------
(***************************************************************************)
(* A serial terminal: the line discipline (kernel/chr_drv/tty_io.cc), the  *)
(* ioctls that change it (tty_ioctl.cc) and the serial driver (serial.cc,  *)
(* rs_io.s).  One task reads, some write and call ioctl; the interrupts    *)
(* for a received and for a sent character come between any two of their   *)
(* steps.  Tasks are not preempted in the kernel: current keeps the        *)
(* processor until it sleeps, calls schedule() or faults in a copy between *)
(* kernel and user memory.                                                 *)
(*                                                                         *)
(* The queues are rings as in tty.h; of write_q only the number of         *)
(* characters matters.  typed is a ghost: what secondary has to hold.      *)
(* trouble is a ghost, too: the races of this code that were lost so far.  *)
(*   "erase"  a character is erased after tty_read found that there is one *)
(*   "count"  secondary.data++ comes in the middle of secondary.data--     *)
(*            (the kernel is built without optimisation: load and store)   *)
(*   "eof"    ioctl changes the end-of-file character while one waits      *)
(*   "putch"  an echo comes in the middle of the PUTCH of tty_write        *)
(*   "echo"   PUTCH in a full write_q: by an echo, which does not test, or *)
(*            by a writer that faulted after its test                      *)
(*   "alarm"  tty_read returns at end-of-file with its alarm still set     *)
(***************************************************************************)
EXTENDS Integers, Sequences, FiniteSets, SequencesExt

CONSTANTS
    Writer,         \* the tasks that write; the reader is one more
    Size,           \* TTY_BUF_SIZE
    LeftMin,        \* sleep_if_full wants that much room: 128
    Startup,        \* the driver wakes writers at that many characters: 256
    Slack,          \* tty_read takes an incomplete line at that room: 20
    VMIN, Time,     \* c_cc[VMIN], and whether c_cc[VTIME] is not 0
    IFlag, OFlag,   \* flags of c_iflag, c_oflag that are set
    Input,          \* the characters that are typed,
    Lines,          \* what is written,
    Counts,         \* the counts of read
    MaxEvents,      \* a bound: characters typed and calls
    None, Go        \* TRUE: the system goes on after a race was lost

ASSUME TtyAssumption ==
    /\ {Size, LeftMin, Startup, Slack, VMIN, MaxEvents} \subseteq Nat
    /\ Startup + LeftMin < Size /\ None \notin Writer

Reader == "reader"
Task == Writer \cup {Reader}

VARIABLES
    termios,        \* canon, echo, and the end-of-file character
    read_q, secondary, write_q,
    cooking,        \* the interrupt handler is in copy_to_cooked
    tx,             \* transmit interrupts are enabled
    current, asleep, sig,
    reader, writer, \* where the tasks are
    cr_flag,
    typed, trouble, left

vars == <<termios, read_q, secondary, write_q, cooking, tx, current, asleep, sig,
          reader, writer, cr_flag, typed, trouble, left>>
tasks == <<current, asleep, sig, reader, writer, cr_flag>>

-----------------------------------------------------------------------------
(* tty.h                                                                   *)
EMPTY(q) == q.head = q.tail
LEFT(q) == (q.tail - q.head - 1) % Size
FULL(q) == LEFT(q) = 0
CHARS(q) == (q.head - q.tail) % Size
Contents(q) == [i \in 1..CHARS(q) |-> q.buf[(q.tail + i - 1) % Size]]
PUTCH(c, q) == [q EXCEPT !.buf[q.head] = c, !.head = (@ + 1) % Size]
GETCH(q) == [q EXCEPT !.tail = (@ + 1) % Size]
Count(q, n) == [q EXCEPT !.head = (@ + n) % Size]

Ring == [head |-> 0, tail |-> 0, buf |-> [i \in 0..Size - 1 |-> "none"]]
User == [pc |-> "user", nr |-> 0, got |-> 0, min |-> 0, flag |-> FALSE, c |-> "none", data |-> 0]

(* A terminal that ioctl has set up (TCSETS, with ISIG; TIOCSPGRP) before  *)
(* anybody uses it.                                                        *)
Init ==
    /\ termios \in [canon : {TRUE}, echo : BOOLEAN, eof : {"eof"}]
    /\ read_q = Ring /\ secondary = Ring @@ [data |-> 0] /\ write_q = [head |-> 0, tail |-> 0]
    /\ cooking = FALSE /\ tx = FALSE
    /\ current = None /\ asleep = {} /\ sig = [t \in Task |-> {}]
    /\ reader = User /\ writer = [w \in Writer |-> [pc |-> "user", line |-> <<>>]]
    /\ cr_flag = FALSE /\ typed = <<>> /\ trouble = {}
    /\ left = MaxEvents

CanRun == trouble = {} \/ Go
Hits(S) == trouble' = trouble \cup S
If(cond, what) == IF cond THEN {what} ELSE {}
IsEnd(c) == c \in {"nl", termios.eof}
Ends(s) == Cardinality({i \in DOMAIN s : IsEnd(s[i])})

-----------------------------------------------------------------------------
(***************************************************************************)
(* Interrupts.  A character arrives ...                                    *)
(***************************************************************************)
ReadChar(c) ==
    /\ CanRun /\ ~cooking /\ left > 0 /\ left' = left - 1
    /\ read_q' = IF FULL(read_q) THEN read_q ELSE PUTCH(c, read_q)
    /\ cooking' = TRUE
    /\ UNCHANGED <<termios, secondary, write_q, tx, tasks, typed, trouble>>

Raw == read_q.buf[read_q.tail]

(* The input flags; a character may be dropped.                            *)
Mapped(c) ==
    IF c = "cr" THEN IF "ICRNL" \in IFlag THEN "nl" ELSE IF "IGNCR" \in IFlag THEN "none" ELSE c
    ELSE IF c = "nl" /\ "INLCR" \in IFlag THEN "cr" ELSE c

(* Mutant of CanCook: the room in secondary is not looked at.              *)
CanCookFull == CanRun /\ cooking /\ ~EMPTY(read_q)

CanCook == CanRun /\ cooking /\ ~EMPTY(read_q) /\ ~FULL(secondary)

(* An echo of n characters, and tty->write.                                *)
Echo(n) ==
    LET m == IF termios.echo THEN n ELSE 0
        putting == \E w \in Writer : writer[w].pc = "putch"
    IN  /\ write_q' = Count(write_q, m)
        /\ tx' = (tx \/ (m > 0 /\ ~EMPTY(write_q')))
        /\ Hits(If(m > LEFT(write_q), "echo") \cup If(m > 0 /\ putting, "putch")
                \cup If(reader.pc = "getch" /\ EMPTY(secondary'), "erase")
                \cup If(reader.pc = "data" /\ secondary'.data # secondary.data, "count"))

Width(c) == IF c \in {"a", "erase"} THEN 1 ELSE 2       \* as DEL or as ^X

(* The part of typed that KILL takes away, or ERASE: nothing up to the     *)
(* last end of a line.                                                     *)
Editable ==
    LET ends == {i \in DOMAIN Contents(secondary) : IsEnd(Contents(secondary)[i])} IN
    CHARS(secondary) - (IF ends = {} THEN 0 ELSE CHOOSE i \in ends : \A j \in ends : j <= i)

Erase(n) ==
    LET gone == SubSeq(Contents(secondary), CHARS(secondary) - n + 1, CHARS(secondary)) IN
    /\ secondary' = [secondary EXCEPT !.head = (@ - n) % Size]
    /\ typed' = SubSeq(typed, 1, Len(typed) - n)
    /\ Echo(FoldLeft(LAMBDA k, c : k + Width(c), 0, gone))

(* Canonical mode: characters that edit the line.                          *)
CookEdit ==
    /\ CanCook /\ termios.canon /\ Mapped(Raw) \in {"erase", "kill"}
    /\ read_q' = GETCH(read_q)
    /\ Erase(IF Mapped(Raw) = "kill" \/ Editable = 0 THEN Editable ELSE 1)
    /\ UNCHANGED <<termios, cooking, tasks, left>>

(* Characters that are not stored: dropped by the input flags, or INTR and *)
(* tty_intr (every task here is in the terminal's process group).          *)
CookSignal ==
    /\ CanCook /\ Mapped(Raw) \in {"intr", "none"}
    /\ read_q' = GETCH(read_q)
    /\ sig' = [t \in Task |-> sig[t] \cup If(Mapped(Raw) = "intr", "int")]
    /\ UNCHANGED <<termios, secondary, write_q, cooking, tx, current, asleep, reader, writer,
                   cr_flag, typed, trouble, left>>

CookChar ==
    LET c == Mapped(Raw) IN
    /\ CanCook /\ c \notin {"intr", "none"} /\ ~(termios.canon /\ c \in {"erase", "kill"})
    /\ read_q' = GETCH(read_q)
    /\ secondary' = PUTCH(c, IF IsEnd(c) THEN [secondary EXCEPT !.data = @ + 1] ELSE secondary)
    /\ typed' = Append(typed, c)
    /\ Echo(Width(c))
    /\ UNCHANGED <<termios, cooking, tasks, left>>

(* Mutant of CookEnds: nobody is woken.                                    *)
CookQuietly ==
    /\ CanRun /\ cooking /\ (EMPTY(read_q) \/ FULL(secondary))
    /\ cooking' = FALSE
    /\ UNCHANGED <<termios, read_q, secondary, write_q, tx, tasks, typed, trouble, left>>

CookEnds ==
    /\ CanRun /\ cooking /\ (EMPTY(read_q) \/ FULL(secondary))
    /\ cooking' = FALSE
    /\ asleep' = asleep \ {Reader}
    /\ UNCHANGED <<termios, read_q, secondary, write_q, tx, current, sig, reader, writer, cr_flag,
                   typed, trouble, left>>

(* Mutant of write_char: writers are woken only when the queue is empty,   *)
(* and that is tested before the character is taken.                       *)
WriteCharLate ==
    /\ CanRun /\ ~cooking /\ tx
    /\ write_q' = IF EMPTY(write_q) THEN write_q ELSE GETCH(write_q)
    /\ tx' = ~EMPTY(write_q')
    /\ asleep' = IF EMPTY(write_q) THEN asleep \cap {Reader} ELSE asleep
    /\ UNCHANGED <<termios, read_q, secondary, cooking, current, sig, reader, writer, cr_flag,
                   typed, trouble, left>>

(* ... or one can be sent.                                                 *)
write_char ==
    /\ CanRun /\ ~cooking /\ tx
    /\ write_q' = IF EMPTY(write_q) THEN write_q ELSE GETCH(write_q)
    /\ tx' = ~EMPTY(write_q')
    /\ asleep' = IF CHARS(write_q) <= Startup \/ EMPTY(write_q') THEN asleep \cap {Reader}
                 ELSE asleep
    /\ UNCHANGED <<termios, read_q, secondary, cooking, current, sig, reader, writer, cr_flag,
                   typed, trouble, left>>

-----------------------------------------------------------------------------
(***************************************************************************)
(* Tasks.  A signal makes a task run that sleeps in the loops here; it is  *)
(* delivered when the call returns.                                        *)
(***************************************************************************)
Pc(t) == IF t = Reader THEN reader.pc ELSE writer[t].pc

Schedule(t) ==
    /\ CanRun /\ ~cooking /\ current = None /\ Pc(t) # "user"
    /\ t \notin asleep \/ sig[t] # {}
    /\ current' = t /\ asleep' = asleep \ {t}
    /\ UNCHANGED <<termios, read_q, secondary, write_q, cooking, tx, sig, reader, writer, cr_flag,
                   typed, trouble, left>>

(* The alarm that tty_read has set.                                        *)
Alarm ==
    /\ CanRun /\ ~cooking /\ reader.pc # "user" /\ reader.flag /\ "alrm" \notin sig[Reader]
    /\ sig' = [sig EXCEPT ![Reader] = @ \cup {"alrm"}]
    /\ UNCHANGED <<termios, read_q, secondary, write_q, cooking, tx, current, asleep, reader,
                   writer, cr_flag, typed, trouble, left>>

Runs(t, pc) == CanRun /\ ~cooking /\ current = t /\ Pc(t) = pc
Quiet == UNCHANGED <<read_q, write_q, cooking, tx, writer, cr_flag>>

tty_read(nr) ==
    /\ CanRun /\ ~cooking /\ current = None /\ reader.pc = "user"
    /\ left > 0 /\ left' = left - 1
    /\ current' = Reader
    /\ LET timed == Time /\ VMIN = 0
           min == IF timed THEN 1 ELSE VMIN
       IN  reader' = [User EXCEPT !.pc = "loop", !.nr = nr, !.flag = timed,
                                  !.min = IF min > nr THEN nr ELSE min]
    /\ Quiet /\ UNCHANGED <<termios, secondary, asleep, sig, typed, trouble>>

ReadReturns == current' = None /\ reader' = User /\ sig' = [sig EXCEPT ![Reader] = {}]

(* tty_read waits for characters, in canonical mode for a whole line: it   *)
(* sleeps only when there are none, and spins otherwise.                   *)
MustWait ==
    \/ EMPTY(secondary)
    \/ termios.canon /\ secondary.data = 0 /\ LEFT(secondary) > Slack

ReadLoop ==
    /\ Runs(Reader, "loop")
    /\ \/ sig[Reader] # {} /\ ReadReturns /\ UNCHANGED asleep
       \/ /\ sig[Reader] = {} /\ EMPTY(secondary)               \* sleep_if_empty
          /\ current' = None /\ asleep' = asleep \cup {Reader} /\ UNCHANGED <<reader, sig>>
       \/ /\ sig[Reader] = {} /\ ~MustWait
          /\ reader' = [reader EXCEPT !.pc = "getch"] /\ UNCHANGED <<current, asleep, sig>>
    /\ Quiet /\ UNCHANGED <<termios, secondary, typed, trouble, left>>

(* After the copy to user memory: the tests of the loops, for secondary q. *)
Test(q, nr, got) ==
    LET next == CASE nr > 0 /\ ~EMPTY(q) -> "getch"
                  [] nr = 0 \/ termios.canon \/ got >= reader.min -> "user"
                  [] OTHER -> "loop"
    IN  IF next = "user" THEN ReadReturns
        ELSE /\ reader' = [reader EXCEPT !.pc = next, !.nr = nr, !.got = got,
                    !.flag = @ \/ (Time /\ ~termios.canon /\ next = "loop")]
             /\ UNCHANGED <<current, sig>>

(* The character c has been taken; the copy may fault.                     *)
Deliver(c, q) ==
    IF c = termios.eof /\ termios.canon
    THEN ReadReturns /\ Hits(If(reader.flag, "alarm"))
    ELSE /\ \/ Test(q, reader.nr - 1, reader.got + 1)
            \/ /\ reader' = [reader EXCEPT !.pc = "next", !.nr = @ - 1, !.got = @ + 1]
               /\ current' = None /\ UNCHANGED sig
         /\ UNCHANGED trouble

Getch ==
    LET c == secondary.buf[secondary.tail] IN
    /\ Runs(Reader, "getch")
    /\ secondary' = GETCH(secondary) /\ typed' = IF typed = <<>> THEN typed ELSE Tail(typed)
    /\ IF IsEnd(c)
       THEN /\ reader' = [reader EXCEPT !.pc = "data", !.c = c, !.data = secondary.data]
            /\ UNCHANGED <<current, sig, trouble>>
       ELSE Deliver(c, secondary')
    /\ Quiet /\ UNCHANGED <<termios, asleep, left>>

(* The store of secondary.data--.                                          *)
CountDown ==
    /\ Runs(Reader, "data")
    /\ secondary' = [secondary EXCEPT !.data = reader.data - 1]
    /\ Deliver(reader.c, secondary)
    /\ Quiet /\ UNCHANGED <<termios, asleep, typed, left>>

ReadNext ==
    /\ Runs(Reader, "next") /\ Test(secondary, reader.nr, reader.got)
    /\ Quiet /\ UNCHANGED <<termios, secondary, asleep, typed, trouble, left>>

-----------------------------------------------------------------------------
(* tty_write.                                                              *)
Same == UNCHANGED <<termios, read_q, secondary, cooking, reader, typed>>
Go_(w, pc) == writer' = [writer EXCEPT ![w].pc = pc]
WriteReturns(w) ==
    /\ current' = None /\ writer' = [writer EXCEPT ![w] = [pc |-> "user", line |-> <<>>]]
    /\ sig' = [sig EXCEPT ![w] = {}]

tty_write(w, line) ==
    /\ CanRun /\ ~cooking /\ current = None /\ writer[w].pc = "user"
    /\ left > 0 /\ left' = left - 1
    /\ current' = w /\ writer' = [writer EXCEPT ![w] = [pc |-> "loop", line |-> line]]
    /\ Same /\ UNCHANGED <<write_q, tx, asleep, sig, cr_flag, trouble>>

(* sleep_if_full: a queue that is full has to get LeftMin free places.     *)
WriteLoop(w) ==
    /\ Runs(w, "loop") \/ Runs(w, "full")
    /\ LET wait == IF writer[w].pc = "loop" THEN FULL(write_q) ELSE LEFT(write_q) < LeftMin
       IN  \/ sig[w] # {} /\ WriteReturns(w) /\ UNCHANGED asleep
           \/ /\ sig[w] = {} /\ wait
              /\ current' = None /\ asleep' = asleep \cup {w} /\ Go_(w, "full") /\ UNCHANGED sig
           \/ sig[w] = {} /\ ~wait /\ Go_(w, "fill") /\ UNCHANGED <<current, asleep, sig>>
    /\ Same /\ UNCHANGED <<write_q, tx, cr_flag, trouble, left>>

(* get_fs_byte may fault.                                                  *)
Fetch(w) ==
    /\ Runs(w, "fill") /\ writer[w].line # <<>> /\ ~FULL(write_q)
    /\ Go_(w, "putch") /\ current' \in {w, None}
    /\ Same /\ UNCHANGED <<write_q, tx, asleep, sig, cr_flag, trouble, left>>

(* PUTCH of the character, or of a carriage return before a newline.       *)
Put(w) ==
    LET cr == Head(writer[w].line) = "nl" /\ ~cr_flag /\ "ONLCR" \in OFlag IN
    /\ Runs(w, "putch")
    /\ write_q' = Count(write_q, 1) /\ Hits(If(FULL(write_q), "echo"))
    /\ cr_flag' = cr
    /\ writer' = [writer EXCEPT ![w].pc = "fill", ![w].line = IF cr THEN @ ELSE Tail(@)]
    /\ Same /\ UNCHANGED <<tx, current, asleep, sig, left>>

rs_write == tx \/ ~EMPTY(write_q)

WriteStarts(w) ==
    /\ Runs(w, "fill") /\ (writer[w].line = <<>> \/ FULL(write_q))
    /\ tx' = rs_write
    /\ IF writer[w].line = <<>> THEN WriteReturns(w)
       ELSE current' = None /\ Go_(w, "loop") /\ UNCHANGED sig
    /\ Same /\ UNCHANGED <<write_q, asleep, cr_flag, trouble, left>>

(* tty_ioctl: TCSETS and its kind set canon and echo, change the           *)
(* end-of-file character; TCSETSF and TCFLSH empty queues.                 *)
tty_ioctl(w) ==
    /\ CanRun /\ ~cooking /\ current = None /\ writer[w].pc = "user"
    /\ left > 0 /\ left' = left - 1
    /\ \/ /\ \E canon \in BOOLEAN : termios' = [termios EXCEPT !.canon = canon]
          /\ read_q' \in {read_q, [read_q EXCEPT !.head = read_q.tail]}
          /\ UNCHANGED <<write_q, trouble>>
       \/ /\ termios' = [termios EXCEPT !.eof = "a"]
          /\ Hits(If(Range(typed) \cap {"eof", "a"} # {} \/ reader.c = "eof", "eof"))
          /\ UNCHANGED <<read_q, write_q>>
       \/ /\ write_q' = [write_q EXCEPT !.head = write_q.tail]
          /\ read_q' \in {read_q, [read_q EXCEPT !.head = read_q.tail]}
          /\ UNCHANGED <<termios, trouble>>
    /\ UNCHANGED <<secondary, cooking, tx, tasks, typed>>

-----------------------------------------------------------------------------
Interrupts == CookEdit \/ CookSignal \/ CookChar \/ CookEnds \/ write_char
Reads == ReadLoop \/ Getch \/ CountDown \/ ReadNext
Writes(w) == WriteLoop(w) \/ Fetch(w) \/ Put(w) \/ WriteStarts(w)

Next ==
    \/ \E c \in Input : ReadChar(c)
    \/ Interrupts \/ Alarm
    \/ \E t \in Task : Schedule(t)
    \/ \E nr \in Counts : tty_read(nr)
    \/ Reads
    \/ \E w \in Writer : (\E line \in Lines : tty_write(w, line)) \/ tty_ioctl(w) \/ Writes(w)

(* Interrupt handlers run to their ends, characters that can be sent are,  *)
(* the current task goes on, and schedule() lets every task run.           *)
Spec ==
    /\ Init /\ [][Next]_vars
    /\ WF_vars(Interrupts) /\ WF_vars(write_char) /\ WF_vars(Reads)
    /\ \A w \in Writer : WF_vars(Writes(w))
    /\ \A t \in Task : SF_vars(Schedule(t))

-----------------------------------------------------------------------------
(* secondary holds what was typed, after editing, and secondary.data is    *)
(* the number of complete lines in it, for any interleaving of interrupts  *)
(* and tty_read but for the races that are named above.                    *)
InputRight ==
    trouble = {} =>
        /\ Contents(secondary) = typed
        /\ secondary.data = Ends(typed) + (IF reader.pc = "data" THEN 1 ELSE 0)

(* A reader for which there is a complete line does not wait on.           *)
LineIsRead ==
    (reader.pc = "loop" /\ secondary.data > 0) ~> (reader.pc # "loop" \/ trouble # {})

(* tty_read goes round its loop without sleeping.                          *)
Spins == current = Reader /\ reader.pc = "loop" /\ ~EMPTY(secondary) /\ MustWait

(* A write returns, however the queue is filled by echoes, flushed and     *)
(* sent, unless the reader keeps the processor: in canonical mode it spins *)
(* in the kernel as long as there is an incomplete line (tty_io.cc:256).   *)
WritesReturn ==
    \A w \in Writer : (writer[w].pc # "user") ~> (writer[w].pc = "user" \/ Spins \/ trouble # {})
=============================================================================
