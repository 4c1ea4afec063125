\* Three ways in and one reload; two documents, two participants, two presses, two frames of
\* the room and one dropped socket; four presses in a tree of two folders and two files.
CONSTANTS
    MaxTries = 3
    MaxReloads = 1
    Folders <- TheFolders
    Files <- TheFiles
    Listings <- TheListings
    MaxPresses = 4
    MaxMoves = 1
    Paths = {"a", "c"}
    Peers = {"p", "q"}
    Windows = {"host", "guest"}
    Carets = {"good"}
    None = "nowhere"
    MaxKeys = 2
    MaxFrames = 2
    MaxBlips = 1
SPECIFICATION PageSpec
INVARIANTS
    CardIsLive
    TabRemembers
PROPERTIES
    AskedIsInFront
    FollowLands
    RowsAreKept
CHECK_DEADLOCK FALSE
