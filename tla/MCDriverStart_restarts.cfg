\* Every process dies or starts anew while its sources come and go: safety and
\* liveness.
SPECIFICATION FairSpec
CONSTANTS
    Deployments <- MCDeployments
    Faults = {"meta_down", "meta_empty", "meta_page", "api_down", "foreign",
              "no_id", "no_zone", "no_cluster", "killed"}
    MaxFaults = 3
INVARIANTS
    ToldItsOwn
    GatewayKnowsCluster
PROPERTIES
    ServesInTheEnd
