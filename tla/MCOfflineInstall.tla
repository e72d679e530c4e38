-------------------------- MODULE MCOfflineInstall --------------------------
(* One track with a primary object and an alternate representation.         *)
EXTENDS OfflineInstall
CONSTANTS primary, alternate, v1, v2
MCPlan == <<primary, alternate>>
=============================================================================
