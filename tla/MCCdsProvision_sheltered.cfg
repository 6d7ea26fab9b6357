\* One replica over a cloud that forgets client tokens at once: only the
\* singleflight group and creatingVolumeCache prevent a second volume.
SPECIFICATION Spec
CONSTANTS
    Replicas = {r1}
    Names = {n1, n2}
    Sizes = {1, 2}
    Rejected = {2}
    Calls = {c1, c2}
    VolIds = {v1, v2, v3}
    Nil = Nil
    ClusterID = cluster
    Faults = {"token_forgotten", "api_error", "give_up", "detail_lag"}
    MaxFaults = 1
SYMMETRY MCSymmetry
INVARIANTS
    OneVolumePerName
CHECK_DEADLOCK FALSE
