----------------------------- MODULE VolumeSeat -----------------------------
(***************************************************************************)
(* What the CDS controller promises about where a volume is, without       *)
(* calls, flights or statuses: it is at no more than one node, it comes    *)
(* only to a node that claims it, it is granted once it is there, and a    *)
(* node that holds it keeps it until it gives it back or is lost.          *)
(***************************************************************************)
CONSTANTS Nodes, Nil

VARIABLES
    seat,        \* the node the volume is at, or coming to, or leaving
    moving,      \* it is coming or leaving
    claim,       \* claim[n]: what the orchestrator wants, or was told, of n
    lost         \* nodes that no longer exist

place == <<seat, moving, claim, lost>>

Init == /\ seat = Nil
        /\ moving = FALSE
        /\ claim = [n \in Nodes |-> "none"]
        /\ lost = {}

Claim(n, from, to) ==
    /\ claim[n] \in from
    /\ claim' = [claim EXCEPT ![n] = to]
    /\ UNCHANGED <<seat, moving, lost>>

Want(n) == Claim(n, {"none"}, "publishing")

GiveBack(n) == Claim(n, {"publishing", "published"}, "unpublishing")

Grant(n) ==
    /\ (seat = n /\ ~moving) \/ n \in lost
    /\ Claim(n, {"publishing"}, "published")

Release(n) ==
    /\ seat # n
    /\ Claim(n, {"unpublishing"}, "none")

Come(n) ==
    /\ seat = Nil
    /\ claim[n] # "none" /\ n \notin lost
    /\ seat' = n /\ moving' = TRUE
    /\ UNCHANGED <<claim, lost>>

Settle ==
    /\ moving
    /\ moving' = FALSE
    /\ UNCHANGED <<seat, claim, lost>>

Rise ==
    /\ seat # Nil /\ claim[seat] = "unpublishing"
    /\ moving' = TRUE
    /\ UNCHANGED <<seat, claim, lost>>

Leave ==
    /\ moving /\ claim[seat] # "published"
    /\ seat' = Nil /\ moving' = FALSE
    /\ UNCHANGED <<claim, lost>>

Lose(n) ==
    /\ lost' = lost \cup {n}
    /\ seat' = IF seat = n THEN Nil ELSE seat
    /\ moving' = (moving /\ seat # n)
    /\ UNCHANGED claim

Next == \/ \E n \in Nodes : Want(n) \/ GiveBack(n) \/ Grant(n) \/ Release(n)
                            \/ Come(n) \/ Lose(n)
        \/ Settle \/ Rise \/ Leave

Spec == Init /\ [][Next]_place
=============================================================================
