----------------------------- MODULE MCBosNode -----------------------------
(* Instances of BosNode for TLC.                                           *)
EXTENDS BosNode, TLC
=============================================================================
