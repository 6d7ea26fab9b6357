\* Liveness of provisioning, with a bounded number of faults of every kind.
SPECIFICATION FairSpec
CONSTANTS
    Replicas = {r1, r2}
    Names = {n1}
    Sizes = {1}
    Rejected = {}
    Calls = {c1, c2}
    VolIds = {v1, v2}
    Nil = Nil
    ClusterID = cluster
    Faults = {"crash", "give_up", "api_error", "lost_reply", "list_lag", "detail_lag"}
    MaxFaults = 1
PROPERTIES
    EventuallyAnswered
CHECK_DEADLOCK FALSE
