------------------------------ MODULE MCMemory ------------------------------
(***************************************************************************)
(* Memory with a few tasks, pages and addresses.  States that differ in    *)
(* the numbers of their pages only behave alike: Looked leaves the numbers *)
(* out and keeps which entries have the same page, its count and contents, *)
(* and how many pages are free.  Nor does a task depend on the address it  *)
(* was last busy with, or on a copied page that has been written since: it *)
(* is dirty, and stays so until it is copied again or freed.  (TypeOK      *)
(* makes TLC evaluate the functions of the state before it stores them.)   *)
(***************************************************************************)
EXTENDS Memory

Place == Task \X Addr
PageAt(x) == mem.pte[x[1]][x[2]].page

Looked ==
    <<[x \in Place |-> IF PageAt(x) = 0 THEN <<>>
                       ELSE <<mem.pte[x[1]][x[2]].rw, mem.pte[x[1]][x[2]].dirty,
                              {y \in Place : PageAt(y) = PageAt(x)},
                              IF PageAt(x) = Low THEN 0 ELSE mem.map[PageAt(x)],
                              Seen(x[1], x[2])>>],
      [t \in Task |-> {d \in Dir : mem.dir[t][d] # 0}],
      [t \in Task |-> [task[t] EXCEPT !.self = @ = 0, !.load = @ = 0, !.args = @ = 0,
                                     !.at = IF task[t].st \in {"load", "copy"} THEN @ ELSE 0,
                                     !.torn = {a \in @ : ~mem.pte[t][a].dirty}]],
      Cardinality({f \in Frame : mem.map[f] = 0}),
      [t \in Task |-> IF task[t].st \in {"none", "zombie"} THEN 0 ELSE view[t]],
      trouble, left, TypeOK>>
=============================================================================
