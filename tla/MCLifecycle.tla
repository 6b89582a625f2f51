----------------------------- MODULE MCLifecycle -----------------------------
(***************************************************************************)
(* Instances of Lifecycle: two ports with a device each.                   *)
(***************************************************************************)
EXTENDS LifecycleProperties, TLC

CONSTANTS gt06, teltonika, s1, s2

PortOfBoth == (s1 :> gt06) @@ (s2 :> teltonika)
=============================================================================
