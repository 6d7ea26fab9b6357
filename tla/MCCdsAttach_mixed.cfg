\* Two nodes are used with no order between them: a caller gives up, the
\* process dies, or an attachment is listed late; two expansions overlap.
SPECIFICATION Spec
CONSTANTS
    Nodes = {n1, n2}
    Calls = {c1, c2}
    Resizers = {e1, e2}
    MaxSize = 3
    Nil = Nil
    Online = TRUE
    Exclusive = FALSE
    Faults = {"crash", "give_up", "late_listing"}
    MaxFaults = 1
SYMMETRY MCSymmetry
INVARIANTS
    ExpandedIsLarge
PROPERTIES
    DetachingIsWanted
