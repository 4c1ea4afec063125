\* Safety of one peer whose seals may fail and whose connection drops once, while the
\* other writer edits too; and two writers with two edits and two drops between them.
CONSTANTS
    e1 = e1
    e2 = e2
    r1 = r1
    Edits = {e1}
    RemoteEdits = {r1}
    Renew = 1
    SealMayFail = TRUE
    MaxStates = 3
    MaxSeats = 2
    Clients = {"a", "b"}
    MaxEdits = 2
    MaxDrops = 2
SPECIFICATION SidesSpec
CHECK_DEADLOCK FALSE
INVARIANTS EveryEditIsAccountedFor ViewerTextStaysHere QuietReplicasAgree
PROPERTY RequestsArePaced
