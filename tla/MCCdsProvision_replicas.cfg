\* Two replicas, one name: duplicated, lost and zombie work, restarts.
SPECIFICATION Spec
CONSTANTS
    Replicas = {r1, r2}
    Names = {n1}
    Sizes = {1, 2, 3}
    Rejected = {3}
    Calls = {c1, c2}
    VolIds = {v1, v2}
    Nil = Nil
    ClusterID = cluster
    Faults = {"crash", "give_up", "api_error", "lost_reply", "list_lag"}
    MaxFaults = 2
SYMMETRY MCReplicaSymmetry
INVARIANTS
    AnswersAgree
    DeletedIsGone
    LockTracksFlight
PROPERTIES
    ImplementsLedger
CHECK_DEADLOCK FALSE
