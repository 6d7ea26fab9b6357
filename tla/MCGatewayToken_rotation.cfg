\* The token is rotated, late, withdrawn or spoiled while requests are signed and retried.
SPECIFICATION FairSpec
CONSTANTS
    Life = 4
    MaxRetries = 2
    Nil = Nil
    Text = Text
    Faults = {"withdrawn", "emptied", "garbled", "huge", "late_rotation", "lost_reply"}
    MaxFaults = 3
INVARIANTS
    WholeOrUntouched
    TokenOfThisCall
PROPERTIES
    SignedIsLive
    EventuallyAccepted
