---------------------------- MODULE MCLifecycle -----------------------------
(***************************************************************************)
(* The box's lifecycle, its timeouts at two seconds a tick.                *)
(***************************************************************************)
EXTENDS LifecycleProofs

MCSupplies == {"host", "charger"}   \* "other" behaves as a host does here
=============================================================================
