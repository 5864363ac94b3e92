------------------------------ MODULE MCReclaim ------------------------------
(***************************************************************************)
(* Two threads and two Classes of one name: enough for a request to       *)
(* hold a Class that another thread releases, for an unlink at the head   *)
(* and one through a predecessor, and for a walk to step from one         *)
(* unlinked node into another.                                            *)
(***************************************************************************)
EXTENDS Reclaim

CONSTANTS T1, T2, C1, C2, C3

MCThreads == {T1, T2}
MCClasses == {C1, C2}
=============================================================================
