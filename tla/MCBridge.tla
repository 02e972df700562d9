------------------------------ MODULE MCBridge ------------------------------
(***************************************************************************)
(* A small bridge: one name is the bridge's own, one topic is forwarded,   *)
(* and enough failures for the backoff to reach its limit.                 *)
(***************************************************************************)
EXTENDS BridgeProperties

MCLocalClients == {BridgeName, "device"}
MCTopics       == {"sensor", "other"}
=============================================================================
