--------------------------- MODULE MCBufferCache ---------------------------
(* Instances of BufferCache for TLC: see MCBuffer*.cfg.                    *)
EXTENDS BufferCache, TLC

MCQueue == {b_wait(b) : b \in Buffer} \cup {buffer_wait, wait_for_request}

Floppy == 512           \* device 0x200: major 2, the floppy driver
Hd == 769               \* device 0x301: major 3, the hard disk driver

TwoDisks == {<<Hd, 1>>, <<Hd, 2>>, <<Floppy, 1>>}
(* Blocks that are not read ahead of each other.                           *)
Apart == {<<Hd, 1>>, <<Hd, 4>>, <<Floppy, 1>>}

Symmetry == Permutations(Task)
=============================================================================
