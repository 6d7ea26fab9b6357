--------------------------- MODULE MCGatewayToken ---------------------------
(* An instance of GatewayToken for TLC: the numbers are those of the .cfg.  *)
EXTENDS GatewayToken
=============================================================================
