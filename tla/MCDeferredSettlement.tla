------------------------ MODULE MCDeferredSettlement ------------------------
(* Instances of DeferredSettlement for TLC. *)
EXTENDS SettlementInvariant
=============================================================================
