\* Calls fail or outlive their callers, the driver dies, the node restarts.
SPECIFICATION FairSpec
CONSTANTS
    Calls = {c1, c2}
    Devs = {vdb, vdc}
    Renaming = FALSE
    Nil = Nil
    Bare = Bare
    Faults = {"crash", "reboot", "timeout", "error"}
    MaxFaults = 2
    Once = {"timeout"}
INVARIANTS
    TypeOK
    NeverReformatted
    StagedIsMounted
    PublishedIsVolume
    UnstagedIsClean
    ExpandedIsGrown
PROPERTIES
    StageSettles
    UndoSettles
    ExpandSettles
