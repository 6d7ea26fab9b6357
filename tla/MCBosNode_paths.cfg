\* Calls fail or outlive their callers, bosfs and the driver die, containers end.
SPECIFICATION FairSpec
CONSTANTS
    Calls = {c1, c2}
    Ids = {i1, i2, i3}
    Nil = Nil
    Faults = {"crash", "timeout", "error", "bosfs_dies", "halt"}
    MaxFaults = 2
    MaxLate = 1
CHECK_DEADLOCK FALSE
INVARIANTS
    TypeOK
    ContainerHasItsFiles
    PublishedIsServed
    UnpublishedIsClean
PROPERTIES
    PublishedGetsMounted
    PublishSettles
    UnpublishSettles
