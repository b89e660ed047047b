---------------------------- MODULE MCWaitQueue ----------------------------
(* An instance of WaitQueue for TLC: each kind of sleep on a queue that is *)
(* closed to interrupts (u, i) and on an Open one (v, j).                  *)
EXTENDS WaitQueue, TLC

CONSTANTS t1, t2, t3, u, v, i, j

(* The search ends where a race has been lost: the properties say nothing  *)
(* of what comes after.                                                    *)
UntilTrouble == trouble = {}
=============================================================================
