------------------------------- MODULE MCTty -------------------------------
(* Instances of Tty for TLC: see MCTty.cfg.                                *)
EXTENDS Tty
MCLines == {<<"a", "nl", "a">>}
(* Without the cells of the rings that are not in use (they are read only  *)
(* after a race was lost), and without the place of write_q in its ring.   *)
Looked == <<termios, Contents(read_q), Contents(secondary), secondary.data, secondary.head,
            CHARS(write_q), cooking, tx, current, asleep, sig, reader, writer, cr_flag,
            typed, trouble, left>>
=============================================================================
