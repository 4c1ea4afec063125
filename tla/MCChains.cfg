\* Seals succeed: what is held goes out, and what is owed is asked.  And two renames on
\* a connection that may drop twice and be seated again; and three presses on the downloads of
\* a file, over two sessions.
CONSTANTS
    e1 = e1
    c1 = c1
    c2 = c2
    Edits = {e1}
    RemoteEdits = {}
    Renew = 1
    SealMayFail = FALSE
    MaxStates = 2
    MaxSeats = 2
    Calls = {c1, c2}
    MaxDrops = 2
    Paths = {"a"}
    MaxPolls = 2
    MaxPresses = 3
    MaxChanges = 2
    MaxSessions = 2
    Nothing = "nothing"
SPECIFICATION ChainsSpec
CHECK_DEADLOCK FALSE
INVARIANT AnsweredInTurn
PROPERTIES EveryChainMovesOn DownloadIsTheAnswer
