----------------------------- MODULE MCHdDriver -----------------------------
(* Instances of HdDriver for TLC: see MCHdDriver.cfg.                      *)
EXTENDS HdDriver
=============================================================================
