-------------------------- MODULE MCTracerLifecycle --------------------------
(* Small instances of TracerLifecycle.                                     *)
EXTENDS TracerLifecycleProps
=============================================================================
