---------------------------- MODULE MCWorkerBoot ----------------------------
(***************************************************************************)
(* Small instances of WorkerBoot.                                          *)
(***************************************************************************)
EXTENDS WorkerBoot

CONSTANTS p1, p2, p3, t1, t2

\* p1 and p2 are instances of one tenant; p3 points at its database by mistake.
MCTenantOf == [p \in Procs |-> IF p = p3 THEN t2 ELSE t1]
=============================================================================
