------------------------------ MODULE Processes ------------------------------
(***************************************************************************)
(* What the parts of a running service have in common: the processes, and  *)
(* a budget of faults.  Every step in which something outside the process  *)
(* fails (a call, a file, the process itself) spends one fault, so that    *)
(* the faults of a behaviour are finitely many but may come at any point   *)
(* and in any combination.                                                 *)
(***************************************************************************)
EXTENDS Naturals

CONSTANTS Procs,      \* the service processes
          MaxFaults   \* bound on the faults of a behaviour

ASSUME FaultAssumption == MaxFaults \in Nat

VARIABLE faults       \* faults left

Fault == faults > 0 /\ faults' = faults - 1
=============================================================================
