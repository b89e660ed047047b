------------------------------ MODULE MCInode ------------------------------
(* Instances of Inode for TLC.  The root disk has its root (1), a          *)
(* directory (2) and a block special file (3); disk 2 has its root.        *)
EXTENDS InodeInv, TLC

MCLinks == [p \in Dev \X Num |-> IF p \in {<<1, 1>>, <<1, 2>>, <<1, 3>>, <<2, 1>>} THEN 1 ELSE 0]
MCBlk == {<<1, 3>>}
Sym == Permutations(Task)
=============================================================================
