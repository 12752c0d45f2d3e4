----------------------------- MODULE Lifecycle -----------------------------
(***************************************************************************)
(* lifecycle.rs: the process-local switch between serving and shutdown.     *)
(* One lock guards the phase and the number of authorized operations, so    *)
(* each operator is one critical section.  Everything that may still write  *)
(* to the ledger or the sink holds an OperationGuard, counted in `active`.  *)
(***************************************************************************)
EXTENDS Naturals

VARIABLES phase, active

lifecycleVars == <<phase, active>>

Phase == {"running", "quiescing", "draining", "stopped"}

LifecycleInit == phase = "running" /\ active = 0

\* The deadline is set once; later calls change nothing.
BeginQuiesce ==
  /\ phase = "running"
  /\ phase' = "quiescing"
  /\ UNCHANGED active

StartDraining ==
  /\ phase = "quiescing"
  /\ phase' = "draining"
  /\ UNCHANGED active

StopWithWork ==
  /\ phase \in {"quiescing", "draining"}
  /\ phase' = "stopped"
  /\ UNCHANGED active
Stop ==
  /\ phase \in {"quiescing", "draining"}
  /\ active = 0
  /\ phase' = "stopped"
  /\ UNCHANGED active

\* A guard is only given out before the cutoff.
TryOperation ==
  /\ phase = "running"
  /\ active' = active + 1
  /\ UNCHANGED phase

DropGuard ==
  /\ active' = active - 1
  /\ UNCHANGED phase
=============================================================================
