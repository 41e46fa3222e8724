------------------------------ MODULE FfiGate -------------------------------
(***************************************************************************)
(* What FfiGate promises: a mutex without contents, shared by a provider   *)
(* and by every guard that it made.  It is free or has one holder; whoever *)
(* holds it gives it back itself, by leaving the scope of its MutexGuard,  *)
(* also when it unwinds, since gate_lock takes a poisoned gate all the     *)
(* same.  Nothing is promised about who is next.                           *)
(***************************************************************************)
CONSTANT Callers   \* the threads that call into the library

VARIABLE holders   \* those that are between gate_lock and the end of its scope

GateInit == holders = {}

\* gate_lock returns.
Acquire(x) ==
  /\ holders = {}
  /\ holders' = {x}

\* The MutexGuard is dropped.
Release(x) ==
  /\ holders = {x}
  /\ holders' = {}

GateNext == \E x \in Callers : Acquire(x) \/ Release(x)

GateSpec == GateInit /\ [][GateNext]_holders

=============================================================================
