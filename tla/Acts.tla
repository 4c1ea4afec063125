-------------------------------- MODULE Acts --------------------------------
(***************************************************************************)
(* What a host does to its folder from the tree, and how the room and the  *)
(* tree hear of it (src/browser/main.ts: createEntry, removeEntry,         *)
(* moveEntry, publishFolder; new-entry.ts: createInFolder; the folder's    *)
(* own create, remove and move, each as one step).                         *)
(*                                                                         *)
(* An act is a chain of awaits: the folder, a walk of it, the publication  *)
(* of what the walk found, for a new file its opening.  The session it was *)
(* begun in may end at any of them, and another may be seated.             *)
(*                                                                         *)
(* A path is a sequence of names.  What the tree draws is the room's       *)
(* listing, which is files, and the folders the page remembers (made).     *)
(***************************************************************************)
EXTENDS Naturals, Sequences, FiniteSets, SequencesExt

CONSTANTS
    Paths,          \* the paths there may be, closed under parents
    FileNames,      \* the names that are files'
    Disks,          \* what the folder may hold when it is first picked
    MaxActs,        \* bound: acts begun one at a time; of overlapping ones, one fewer
    MaxSessions     \* bound: sessions seated

IsFile(p) == Last(p) \in FileNames
Ancestors(p) == {q \in Paths : IsStrictPrefix(q, p)}
Destination(p, into) == into \o <<Last(p)>>
Landing(p, to, q) == to \o SubSeq(q, Len(p) + 1, Len(q))

\* A folder holds what is above what it holds, and nothing is in a file.
IsTree(held) ==
    \A p \in held : Ancestors(p) \subseteq held /\ \A q \in Ancestors(p) : ~IsFile(q)

Words == UNION {{p[i] : i \in DOMAIN p} : p \in Paths}

\* Of the paths: where one may be moved to, what is under it may be moved with it.
ASSUME ActsAssumption ==
    /\ \A p \in Paths : /\ p \in Seq(Words) \ {<<>>}
                        /\ \A n \in 1..Len(p) : SubSeq(p, 1, n) \in Paths
    /\ \A p, q \in Paths, into \in Paths \cup {<<>>} :
          IsPrefix(p, q) /\ Destination(p, into) \in Paths
             => Landing(p, Destination(p, into), q) \in Paths
    /\ \A held \in Disks : held \subseteq Paths /\ IsTree(held)
    /\ MaxActs \in Nat \ {0} /\ MaxSessions \in Nat \ {0}

VARIABLES
    disk,           \* the paths the folder holds
    session,        \* the binding, by its number; 0 for none
    sessions,       \* sessions seated
    room,           \* the listing the room is drawn from (grantListing)
    made,           \* madeFolders: folders drawn from the page's memory
    documents,      \* documents this window has open
    acts,           \* the acts begun, in order
    singly,         \* never changes: one act at a time
    slips,          \* history: what went wrong in this session, of Slips
    unnamed         \* history: folders an act made besides the one it names

actVars == <<disk, session, sessions, room, made, documents, acts, singly, slips, unnamed>>

FilesOf(held) == {p \in held : IsFile(p)}
FoldersOf(held) == held \ FilesOf(held)
Below(p, set) == {q \in set : IsStrictPrefix(p, q)}
Within(p, set) == {q \in set : IsPrefix(p, q)}
Act == 1..Len(acts)
Slips == {"unpublished", "halved"}
ActStages == {"folder", "walk", "publish", "open", "over"}

ActsTypeOK ==
    /\ disk \subseteq Paths /\ room \subseteq Paths /\ made \subseteq Paths
    /\ documents \subseteq Paths /\ unnamed \subseteq Paths
    /\ session \in 0..MaxSessions /\ sessions \in 0..MaxSessions
    /\ \A a \in Act : acts[a].at \in ActStages /\ acts[a].kind \in {"create", "remove", "move", "open"}
    /\ singly \in BOOLEAN /\ slips \subseteq Slips

---------------------------------------------------------------------------
(* The folder.                                                             *)

\* emptyFolders: the folders of the last walk that hold no shared file.
EmptyFolders(held) == {p \in FoldersOf(held) : FilesOf(Below(p, held)) = {}}

\* create, with createDirectories: what is there is not replaced, a file is no folder.
Creates(p) == p \notin disk /\ ~\E q \in Ancestors(p) : IsFile(q)
Created(p) == disk \cup {p} \cup Ancestors(p)

\* move and destinationRefusal: the source is there, the target is not, its folder is.
CanMove(p, to) ==
    /\ p \in disk /\ to \in Paths \ disk
    /\ ~IsPrefix(p, to)
    /\ Len(to) > 1 => Front(to) \in FoldersOf(disk)
Arrives(p, to) == {Landing(p, to, q) : q \in Within(p, disk)}

---------------------------------------------------------------------------
(* The memory of folders.                                                  *)

\* forgetMadeFolder, for every path in gone.
ForgetsIt(set, gone) == set \ gone
Forget(set, gone) == {q \in set : ~\E p \in gone : IsPrefix(p, q)}

\* keepEmptiedFolder: the folders above p, from below, up to one something is listed in.
Emptied(p, listing) == {q \in Ancestors(p) : FilesOf(Below(q, listing)) = {}}

---------------------------------------------------------------------------
(* Sessions.                                                               *)

\* host: a walk, a mint and a seat.  A window that is seated has long had the answer of a
\* folder it asked in its last session.
Seat ==
    /\ session = 0 /\ sessions < MaxSessions
    /\ \A a \in Act : acts[a].at # "folder"
    /\ sessions' = sessions + 1
    /\ session' = sessions + 1
    /\ room' = FilesOf(disk)
    /\ made' = EmptyFolders(disk)
    /\ unnamed' = {} /\ slips' = {}
    /\ UNCHANGED <<disk, documents, acts, singly>>

\* leaveSession.
Leave ==
    /\ session # 0
    /\ session' = 0
    /\ room' = {} /\ made' = {} /\ documents' = {}
    /\ UNCHANGED <<disk, sessions, acts, singly, slips, unnamed>>

---------------------------------------------------------------------------
(* Acts.                                                                   *)

Free == singly => \A a \in Act : acts[a].at = "over"
Implied == UNION {Ancestors(p) : p \in room}

\* level and grantTree: a row is drawn under a row.  A listed file has one for every folder
\* it goes through; a folder of the page's memory has its own alone.
Rows(listing, folders) ==
    LET all == listing \cup folders \cup UNION {Ancestors(p) : p \in listing} IN
    {p \in all : Ancestors(p) \subseteq all}
Drawn == Rows(room, made)

\* isTaken and fileOnTheWay.
Taken(p) == p \in room \cup made \cup Implied \/ Ancestors(p) \cap room # {}

\* Begins an act of this session.  An open has nothing to ask of the folder.
Begin(kind, p, to) ==
    /\ session # 0 /\ Len(acts) < (IF singly THEN MaxActs ELSE MaxActs - 1) /\ Free
    /\ acts' = Append(acts, [kind |-> kind, path |-> p, to |-> to, session |-> session,
                             at |-> IF kind = "open" THEN "open" ELSE "folder",
                             walk |-> {}, gone |-> {}, partial |-> FALSE])
    /\ UNCHANGED <<disk, session, sessions, room, made, documents, singly, slips, unnamed>>

\* A name typed into the row, through folders or none (checkNewEntry).
BeginCreate == \E p \in Paths : ~Taken(p) /\ Begin("create", p, p)
BeginRemove == \E p \in Drawn : Begin("remove", p, p)
BeginMove == \E p \in Drawn, into \in {<<>>} \cup Implied \cup made :
    /\ Destination(p, into) \in Paths
    /\ Begin("move", p, Destination(p, into))
BeginOpen == \E p \in room : Begin("open", p, p)

Ever(a) == acts[a].session # 0

\* binding === session.
Mine(a) == acts[a].session = session
GoesTo(a, stage) == acts' = [acts EXCEPT ![a].at = stage]
Over == [kind |-> "open", path |-> <<>>, to |-> <<>>, session |-> 0, at |-> "over",
         walk |-> {}, gone |-> {}, partial |-> FALSE]
Ends(a) == acts' = [acts EXCEPT ![a] = Over]

\* The folder refused, or threw: nothing was done, and the row says so.  A create that is
\* refused takes its path out of the page's memory.
ActRefused(a) ==
    /\ acts[a].at = "folder"
    /\ Ends(a)
    /\ made' = IF acts[a].kind = "create" /\ Mine(a) THEN made \ {acts[a].path} ELSE made
    /\ UNCHANGED <<disk, session, sessions, room, documents, singly, slips, unnamed>>

FolderCreates(a) ==
    /\ acts[a].at = "folder" /\ acts[a].kind = "create" /\ Creates(acts[a].path)
    /\ disk' = Created(acts[a].path)
    /\ unnamed' = unnamed \cup (Ancestors(acts[a].path) \ disk)
    /\ GoesTo(a, "walk")
    /\ UNCHANGED <<session, sessions, room, made, documents, singly, slips>>

\* folder.remove, and what this session made of it.  A session that ended meanwhile ends
\* the act there.
FolderRemoves(a) ==
    LET p == acts[a].path
        gone == {p} \cup FilesOf(Within(p, disk)) IN
    /\ acts[a].at = "folder" /\ acts[a].kind = "remove"
    /\ disk' = disk \ Within(p, disk)
    /\ IF Mine(a)
       THEN /\ acts' = [acts EXCEPT ![a].at = "walk", ![a].gone = gone]
            /\ made' = Forget(made, gone)
       ELSE Ends(a) /\ UNCHANGED made
    /\ UNCHANGED <<session, sessions, room, documents, singly, slips, unnamed>>

\* folder.move: everything arrives, and the source goes unless its removal is refused.
FolderMoves(a) ==
    LET p == acts[a].path
        to == acts[a].to IN
    /\ acts[a].at = "folder" /\ acts[a].kind = "move" /\ CanMove(p, to)
    /\ \E partial \in BOOLEAN :
          /\ disk' = (IF partial THEN disk ELSE disk \ Within(p, disk)) \cup Arrives(p, to)
          /\ IF Mine(a)
             THEN acts' = [acts EXCEPT ![a].at = "walk", ![a].partial = partial,
                                       ![a].gone = FilesOf(Within(p, disk))]
             ELSE Ends(a)
          /\ slips' = IF partial THEN slips \cup {"halved"} ELSE slips
    /\ unnamed' = unnamed \cup FoldersOf(Arrives(p, to)) \cup FoldersOf(Within(p, disk))
    /\ UNCHANGED <<session, sessions, room, made, documents, singly>>

\* folder.list().
WalkFolder(a) ==
    /\ acts[a].at = "walk"
    /\ acts' = [acts EXCEPT ![a].at = "publish", ![a].walk = FilesOf(disk)]
    /\ UNCHANGED <<disk, session, sessions, room, made, documents, singly, slips, unnamed>>

\* The tail of createEntry, with the session asked for again.
CreateEnds(a) ==
    made' = IF IsFile(acts[a].path) THEN made ELSE made \cup {acts[a].path}

RemoveEnds(a, listing) ==
    /\ made' = made \cup Emptied(acts[a].path, listing)
    /\ documents' = documents \ acts[a].gone

\* The tail of moveEntry: the row the folder had goes with it; what was open is dropped.
MoveEnds(a, listing) ==
    LET p == acts[a].path IN
    /\ made' = Forget(made, {p}) \cup (IF p \in made THEN {acts[a].to} ELSE {})
                                 \cup Emptied(p, listing)
    /\ documents' = IF acts[a].partial THEN documents ELSE documents \ acts[a].gone

\* What is opened when an act has ended: the file that was made, and of a move the name the
\* document in front went to.
Opens(a, fails) ==
    CASE acts[a].kind = "create" /\ IsFile(acts[a].path) /\ ~fails -> {acts[a].path}
      [] acts[a].kind = "move" /\ ~acts[a].partial ->
            {Landing(acts[a].path, acts[a].to, q) : q \in documents \cap acts[a].gone}
      [] OTHER -> {}

\* The publication, and what is left of the act.  A publication that fails leaves the
\* listing as it was.
PublishFolder(a) ==
    /\ acts[a].at = "publish" /\ Mine(a)
    /\ \E fails \in BOOLEAN :
          LET listing == IF fails THEN room ELSE acts[a].walk IN
          /\ room' = listing
          /\ slips' = IF fails THEN slips \cup {"unpublished"} ELSE slips
          /\ \/ (Opens(a, fails) = {} \/ acts[a].kind = "move") /\ Ends(a)
             \/ \E p \in Opens(a, fails) : acts' = [acts EXCEPT ![a].at = "open", ![a].path = p]
          /\ CASE acts[a].kind = "create" -> CreateEnds(a) /\ UNCHANGED documents
               [] acts[a].kind = "remove" -> RemoveEnds(a, listing)
               [] acts[a].kind = "move"   -> MoveEnds(a, listing)
    /\ UNCHANGED <<disk, session, sessions, singly, unnamed>>

\* Every later await finds that the session is another.
ActAbandoned(a) ==
    /\ acts[a].at \in {"publish", "open"} /\ ~Mine(a)
    /\ Ends(a)
    /\ UNCHANGED <<disk, session, sessions, room, made, documents, singly, slips, unnamed>>

\* openPath lands; what cannot be opened is said and left.
Open(a) ==
    /\ acts[a].at = "open" /\ Mine(a)
    /\ \/ documents' = documents \cup {acts[a].path}
       \/ UNCHANGED documents
    /\ Ends(a)
    /\ UNCHANGED <<disk, session, sessions, room, made, singly, slips, unnamed>>

---------------------------------------------------------------------------

ActsInit ==
    /\ disk \in Disks
    /\ session = 0 /\ sessions = 0
    /\ room = {} /\ made = {} /\ documents = {}
    /\ acts = <<>>
    /\ singly \in BOOLEAN
    /\ slips = {} /\ unnamed = {}

ActsNext ==
    \/ Seat \/ Leave
    \/ BeginCreate \/ BeginRemove \/ BeginMove \/ BeginOpen
    \/ \E a \in Act :
          \/ ActRefused(a) \/ FolderCreates(a) \/ FolderRemoves(a) \/ FolderMoves(a)
          \/ WalkFolder(a) \/ PublishFolder(a) \/ ActAbandoned(a) \/ Open(a)

ActsSpec == ActsInit /\ [][ActsNext]_actVars

---------------------------------------------------------------------------
(* Properties.                                                             *)

\* An act changes what the page holds only of the session it was begun in, however late its
\* folder, its walk or its publication answers (main.ts: every await is followed by a look
\* at the binding).
ActsStayInTheirSession ==
    [][ session' = session /\ (room' # room \/ made' # made \/ documents' # documents) =>
          \E a \in Act : acts'[a] # acts[a] /\ acts[a].session = session ]_actVars

Quiet == session # 0 /\ "unpublished" \notin slips /\ \A a \in Act : acts[a].at = "over"

\* With nothing under way, acts that were taken one at a time have left a tree that is the
\* folder: the room lists its files, no row is drawn of a folder that is gone, no document
\* is open of a file that is; and every folder has a row, but for those an act made on the
\* way to another or moved, and what is in them (publishFolder, keepEmptiedFolder,
\* forgetMadeFolder, dropDocuments).
TreeIsTheFolder ==
    singly /\ Quiet =>
        /\ room = FilesOf(disk)
        /\ Drawn \subseteq disk
        /\ documents \subseteq disk
        /\ \A p \in FoldersOf(disk) \ Drawn : \E q \in unnamed : IsPrefix(q, p)

\* Acts taken one at a time leave a tree that is the folder, and what an act changes is the
\* session's it was begun in, however they overlap (main.ts, createEntry, removeEntry,
\* moveEntry and publishFolder).
ActsKeepTheTree == []TreeIsTheFolder /\ ActsStayInTheirSession
=============================================================================
