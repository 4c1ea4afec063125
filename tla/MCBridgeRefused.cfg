\* The person pastes a text past the bound, and a peer edits the document.
SPECIFICATION Spec
CONSTANTS
    e1 = e1
    r1 = r1
    r2 = r2
    k1 = k1
    Windows <- HostHere
    Local = {e1}
    Remote = {r1}
    Disk = {k1}
    Heavy = {e1}
    Broken = {}
    MaxAttempts = 3
    MaxOpens = 1
    MaxRefusals = 0
    MaxReads = 1
    MaxTurns = 1
    MaxCuts = 0
PROPERTY RefusedTextStays
CHECK_DEADLOCK FALSE
