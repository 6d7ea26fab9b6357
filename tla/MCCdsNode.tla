----------------------------- MODULE MCCdsNode -----------------------------
(* Instances of CdsNode for TLC.                                           *)
EXTENDS CdsNode, TLC
=============================================================================
