\* The volume is used at one node at a time; requests fail, the process dies;
\* safety and liveness.
SPECIFICATION FairSpec
CONSTANTS
    Nodes = {n1, n2}
    Calls = {c1, c2}
    Resizers = {e1}
    MaxSize = 2
    Nil = Nil
    Online = TRUE
    Exclusive = TRUE
    Faults = {"crash", "api_error", "lost_reply", "cloud_fails", "node_gone",
              "volume_gone"}
    MaxFaults = 2
INVARIANTS
    PublishedIsAttached
    UnpublishedIsDetached
PROPERTIES
    PublishSettles
    UnpublishSettles
    ImplementsSeat
