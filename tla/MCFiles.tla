------------------------------ MODULE MCFiles ------------------------------
(* Instances of Files for TLC: see MCFiles.cfg.                            *)
EXTENDS Files
=============================================================================
