\* Two documents, two edits, one write of another program, one failing write and one move;
\* and three acts one at a time, or two that overlap, over two sessions; and
\* walks of folders of twelve places.
CONSTANTS
    Names <- Two
    MaxEdits = 2
    MaxForeign = 1
    MaxFailures = 1
    MaxMoves = 1
    Paths <- MCPaths
    FileNames = {"f"}
    Disks <- MCDisks
    MaxActs = 3
    MaxSessions = 2
    Places <- WalkPlaces
    NameOrder <- WalkOrder
    Excluded <- MCExcluded
    Secret <- MCSecret
    BinaryNames <- MCBinaryNames
    Folders <- WalkFolders
SPECIFICATION FolderSpec
INVARIANTS
    WrittenWhenQuiet
    MoveKeepsTheText
    ListingIsTheFolder
PROPERTIES
    NeverBlind
    ActsKeepTheTree
CHECK_DEADLOCK FALSE
