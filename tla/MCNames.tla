------------------------------ MODULE MCNames ------------------------------
(* Instances of Names for TLC: see MCNames.cfg.                            *)
EXTENDS Names, TLC

Sym == Permutations(Task) \cup Permutations(Name)
=============================================================================
