------------------------------- MODULE Faults -------------------------------
(***************************************************************************)
(* The faults a run may have: an error of Redis, MySQL, ESI, Discord or    *)
(* SQS, or a crash.  The services that EXTEND it share one budget.         *)
(***************************************************************************)
EXTENDS Naturals

CONSTANT MaxFaults    \* bound on faults

ASSUME FaultsAssumption == MaxFaults \in Nat

VARIABLE faults       \* faults so far

Fault == faults < MaxFaults /\ faults' = faults + 1
NoFault == UNCHANGED faults
=============================================================================
