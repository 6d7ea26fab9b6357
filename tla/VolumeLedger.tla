---------------------------- MODULE VolumeLedger ----------------------------
(***************************************************************************)
(* What the CDS provisioner promises, without processes, requests or       *)
(* caches: a name is backed by at most one volume in its whole life, the   *)
(* orchestrator is told that volume and no other, and once the volume has  *)
(* been destroyed at its request the name is never backed again.           *)
(***************************************************************************)
CONSTANTS Names, VolIds

VARIABLES
    backing,     \* backing[n]: the volumes that exist under name n
    promised     \* promised[n]: the volumes CreateVolume of n was answered with

ledger == <<backing, promised>>

Init == /\ backing = [n \in Names |-> {}]
        /\ promised = [n \in Names |-> {}]

Provide(n, v) ==
    /\ backing[n] = {}
    /\ promised[n] = {}
    /\ \A m \in Names : v \notin backing[m] \cup promised[m]
    /\ backing' = [backing EXCEPT ![n] = {v}]
    /\ UNCHANGED promised

Promise(n) ==
    /\ backing[n] # {}
    /\ promised' = [promised EXCEPT ![n] = backing[n]]
    /\ UNCHANGED backing

Withdraw(n) ==
    /\ promised[n] # {}
    /\ backing' = [backing EXCEPT ![n] = {}]
    /\ UNCHANGED promised

Next == \E n \in Names : \/ \E v \in VolIds : Provide(n, v)
                         \/ Promise(n)
                         \/ Withdraw(n)

Spec == Init /\ [][Next]_ledger
=============================================================================
