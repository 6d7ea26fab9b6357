\* A publish call is given up, its flight is not.
SPECIFICATION Spec
CONSTANTS
    Nodes = {n1, n2}
    Calls = {c1, c2}
    Resizers = {e1}
    MaxSize = 1
    Nil = Nil
    Online = FALSE
    Exclusive = TRUE
    Faults = {"give_up"}
    MaxFaults = 1
INVARIANTS
    PublishedIsAttached
