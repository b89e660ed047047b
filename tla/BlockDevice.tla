----------------------------- MODULE BlockDevice -----------------------------
(***************************************************************************)
(* What a block device driver promises to ll_rw_block: a request that was  *)
(* made ends exactly once, with success only when the whole block has been *)
(* moved between its place on the disk and its place in the buffer.        *)
(***************************************************************************)
EXTENDS Naturals

CONSTANTS
    Job             \* the requests that can be made

VARIABLES
    pending,        \* the requests that have been made and have not ended
    ended           \* how the last one ended

DevInit == pending = {} /\ ended = "none"

Submit(j) ==
    /\ j \notin pending
    /\ pending' = pending \cup {j}
    /\ UNCHANGED ended

Complete(j) ==
    /\ j \in pending
    /\ pending' = pending \ {j}
    /\ ended' \in {"moved", "failed"}

DevNext == \E j \in Job : Submit(j) \/ Complete(j)

DevSafe == DevInit /\ [][DevNext]_<<pending, ended>>

DevSpec ==
    /\ DevSafe
    /\ \A j \in Job : WF_<<pending, ended>>(Complete(j))
=============================================================================
