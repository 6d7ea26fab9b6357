\* Three pages are listed while volumes are created and deleted on all of them.
SPECIFICATION Spec
CONSTANTS
    Ids = {1, 2, 3, 4, 5}
    MaxKeys = 2
    NotFound = NotFound
    MultiVolumes = MultiVolumes
    Failed = Failed
    Nil = Nil
    Faults = {"list_error"}
    MaxFaults = 1
INVARIANTS
    AnswerWasTrue
