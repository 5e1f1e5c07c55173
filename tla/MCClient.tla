------------------------------ MODULE MCClient ------------------------------
(***************************************************************************)
(* Instances of StateFullClient for TLC: three requests at a time, of all  *)
(* five kinds between them.                                                *)
(***************************************************************************)
EXTENDS StateFullClient, TLC

CONSTANTS k1, k2, k3

MCCalls == {k1, k2, k3}
WaitAndConnect == (k1 :> "wait") @@ (k2 :> "connect")
MCKinds == { WaitAndConnect @@ (k3 :> k) : k \in {"rest", "timedRest", "nowait"} }
=============================================================================
