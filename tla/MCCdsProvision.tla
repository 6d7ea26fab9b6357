--------------------------- MODULE MCCdsProvision ---------------------------
(* Instances of CdsProvision for TLC.                                      *)
EXTENDS CdsProvision, TLC

MCSymmetry == Permutations(Calls) \cup Permutations(VolIds)
MCReplicaSymmetry == MCSymmetry \cup Permutations(Replicas)
=============================================================================
