------------------------------ MODULE MCFloppy ------------------------------
(* Instances of Floppy for TLC: see MCFloppy.cfg.                          *)
EXTENDS Floppy
=============================================================================
