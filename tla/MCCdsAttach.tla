---------------------------- MODULE MCCdsAttach ----------------------------
(* Instances of CdsAttach for TLC.                                         *)
EXTENDS CdsAttach, TLC

MCSymmetry == Permutations(Nodes) \cup Permutations(Calls)
              \cup Permutations(Resizers)
=============================================================================
