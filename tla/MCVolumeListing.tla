-------------------------- MODULE MCVolumeListing --------------------------
(* An instance of VolumeListing for TLC.                                   *)
EXTENDS VolumeListing
=============================================================================
