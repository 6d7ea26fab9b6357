---------------------------- MODULE MCVolumeSize ----------------------------
(* An instance of VolumeSize for TLC: four bytes to the GB and six bits to   *)
(* the integer.                                                              *)
EXTENDS VolumeSize

\* None, around one and two GB, and up to the largest integer.
MCBytes == {0, 1, 3, 4, 5, 8, 9, 12, 27, 28, 29, 31}
=============================================================================
