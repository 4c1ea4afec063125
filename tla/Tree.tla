-------------------------------- MODULE Tree --------------------------------
(***************************************************************************)
(* The file tree of the page (src/browser/tree-view.ts, GrantTreeView):    *)
(* the rows drawn of the room's listing and of the folders the page made,  *)
(* the row a name is typed in, the row that asks to be taken out and the   *)
(* row that is held for a move, over the answers these wait for.           *)
(*                                                                         *)
(* The rows are rebuilt only where a key over what they read has moved     *)
(* (render, rowsKey), so what is drawn is state of its own.  A path is a   *)
(* sequence of names.                                                      *)
(***************************************************************************)
EXTENDS Naturals, Sequences, FiniteSets, SequencesExt

CONSTANTS
    Folders, Files,     \* the paths there may be
    Listings,           \* what the room may list
    MaxPresses,         \* bound: what the person presses
    MaxMoves            \* bound: times the room moves

Nowhere == <<"-">>
EntryPaths == Folders \cup Files
EntryKinds == {"file", "directory"}
Parent(p) == IF Len(p) > 1 THEN Front(p) ELSE <<>>

\* The paths are those of a tree, and the marker for "no row" is none of them.
ASSUME TreeAssumption ==
    /\ \A p \in EntryPaths : Parent(p) \in Folders \cup {<<>>}
    /\ Nowhere \notin EntryPaths
    /\ Listings \subseteq SUBSET Files
    /\ MaxPresses \in Nat /\ MaxMoves \in Nat

In(p, folder) == IsStrictPrefix(folder, p)
AboveOf(set) == {q \in Folders : \E p \in set : In(p, q)}

VARIABLES
    listing, local,     \* the room's files; the folders the page remembers
    draft,              \* the create row: [id, kind, prefix, named, busy], or NoDraft
    draftRow,           \* the draft its element was built for, 0 for none
    drafts,             \* drafts so far
    creating,           \* creates under way: [id, kind, prefix]
    asking,             \* the row that asks to be taken out, or Nowhere
    deleting,           \* the removal under way, or Nowhere
    holding,            \* the row held for a move: [path, into, pointer], or NoHold
    moving,             \* moves under way: [path, into]
    pinned,             \* the folders the guest, or this view, opened
    drawn,              \* what the pane shows: see Drawing
    drawnRows,          \* the key it was drawn for, or Stale
    presses, moves      \* counts for the bounds

treeVars == <<listing, local, draft, draftRow, drafts, creating, asking, deleting, holding, moving,
          pinned, drawn, drawnRows, presses, moves>>
room == <<listing, local>>

NoDraft == [id |-> 0, kind |-> "none", prefix |-> <<>>, named |-> FALSE, busy |-> FALSE]
NoHold == [path |-> Nowhere, into |-> Nowhere, pointer |-> FALSE]
Stale == [rows |-> {Nowhere}]

---------------------------------------------------------------------------
(* What is drawn.  A view is what render() reads, as a record.             *)

View == [listing |-> listing, local |-> local, draft |-> draft, row |-> draftRow,
         asking |-> asking, hold |-> holding, pinned |-> pinned, key |-> drawnRows]

\* folders: every folder a row could be dropped into.
FoldersOf(v) == AboveOf(v.listing) \cup v.local

\* draftHome: the deepest folder of the prefix that the tree has.
Deepest(set) == IF set = {} THEN <<>> ELSE CHOOSE p \in set : \A q \in set : Len(q) <= Len(p)
Home(v) == Deepest({p \in FoldersOf(v) : IsPrefix(p, v.draft.prefix)})

\* level and grantTree: a row is drawn under a row.
Rows(v) ==
    LET all == v.listing \cup v.local \cup AboveOf(v.listing) IN
    {p \in all : \A q \in Folders : In(p, q) => q \in all}

Taken(v, p) == \E q \in v.listing \cup v.local : IsPrefix(p, q)

\* landRefusal and landing: the folder the held row would land in, Nowhere for nowhere.
Lands(v, into) ==
    LET held == v.hold.path IN
    /\ held # Nowhere /\ into # Nowhere
    /\ into # Parent(held)
    /\ held \in Folders => ~IsPrefix(held, into)
    /\ ~Taken(v, Append(into, Last(held)))
Landing(v) == IF Lands(v, v.hold.into) THEN v.hold.into ELSE Nowhere

\* render's key and rowsKey; a pointer's hold is left out of it.
Key(v) ==
    [rows |-> v.listing, local |-> v.local, asking |-> v.asking,
     draft |-> IF v.draft = NoDraft THEN <<>> ELSE <<v.draft.kind, Home(v)>>,
     moving |-> IF v.hold.pointer THEN <<>> ELSE <<v.hold.path, v.hold.into>>]

\* deleteWhat, filesUnder and struckLevel: what the row that asks says it would take, as a
\* number of files, and what is struck through beneath it, level by level.
Goes(v) == Cardinality({q \in v.listing : In(q, v.asking)})
Struck(v) == {q \in v.listing \cup AboveOf(v.listing) : In(q, v.asking)}

\* askingDirectory: the folder that asks is drawn open.
AskedOpen(v) == {v.asking} \cap Folders

\* rebuildRows: the live create row is kept, or built for the draft that is open.
Drawing(v) ==
    [rows |-> Rows(v), asking |-> v.asking, goes |-> Goes(v), struck |-> Struck(v), held |-> {v.hold.path} \ {Nowhere}, landing |-> Landing(v),
     row |-> IF v.draft = NoDraft THEN 0 ELSE IF v.row # 0 THEN v.row ELSE v.draft.id,
     home |-> IF v.draft = NoDraft THEN Nowhere ELSE Home(v),
     open |-> v.pinned \cup AskedOpen(v)
              \cup {p \in Folders : v.draft # NoDraft /\ IsPrefix(p, Home(v))}]

\* A view as it is left by a handler, drawn or not.
Shows(v) ==
    /\ draft' = v.draft /\ asking' = v.asking /\ holding' = v.hold /\ pinned' = v.pinned
    /\ listing' = v.listing /\ local' = v.local
    /\ IF Key(v) = v.key
       THEN draftRow' = v.row /\ drawnRows' = v.key /\ UNCHANGED drawn
       ELSE /\ drawn' = Drawing(v)
            /\ draftRow' = Drawing(v).row
            /\ drawnRows' = Key(v)

OpenFolder(v, p) == [v EXCEPT !.pinned = @ \cup {p}, !.key = Stale]

\* Nothing else is pressed while a row is dragged.
Press == presses < MaxPresses /\ presses' = presses + 1 /\ ~holding.pointer

---------------------------------------------------------------------------
(* The room.                                                               *)

\* The listing, or the page's memory of folders, has moved, and the page renders.
RoomMoves ==
    /\ moves < MaxMoves /\ moves' = moves + 1
    /\ \E files \in Listings, folders \in SUBSET Folders :
          /\ <<files, folders>> # room
          /\ Shows([View EXCEPT !.listing = files, !.local = folders])
    /\ UNCHANGED <<drafts, creating, deleting, moving, presses>>

\* reset: the session ends, and the pane is emptied; what is under way is answered later.
Reset ==
    /\ moves < MaxMoves /\ moves' = moves + 1
    /\ listing' = {} /\ local' = {}
    /\ draft' = NoDraft /\ draftRow' = 0 /\ asking' = Nowhere /\ holding' = NoHold
    /\ drawn' = [rows |-> {}, asking |-> Nowhere, goes |-> 0, struck |-> {}, held |-> {}, landing |-> Nowhere, row |-> 0,
                 home |-> Nowhere, open |-> {}]
    /\ drawnRows' = Stale
    /\ UNCHANGED <<drafts, creating, deleting, moving, pinned, presses>>

\* The person opens or shuts a folder: the browser shows it, and no row is rebuilt.
Toggle ==
    /\ Press
    /\ \E p \in drawn.rows \cap Folders :
          IF p \in drawn.open
          THEN /\ pinned' = pinned \ {p}
               /\ drawn' = [drawn EXCEPT !.open = @ \ {p}]
          ELSE /\ pinned' = pinned \cup {p}
               /\ drawn' = [drawn EXCEPT !.open = @ \cup {p}]
    /\ UNCHANGED <<listing, local, draft, draftRow, drafts, creating, asking, deleting, holding,
                   moving, drawnRows, moves>>

---------------------------------------------------------------------------
(* The create row.                                                         *)

\* openDraft: an equal reopen stays the same row; another is a fresh one, and idle.
Same(v, kind, prefix) == v.draft # NoDraft /\ v.draft.kind = kind /\ v.draft.prefix = prefix
OpenDraft(v, kind, prefix) ==
    IF Same(v, kind, prefix)
    THEN Shows(v) /\ UNCHANGED drafts
    ELSE /\ drafts' = drafts + 1
         /\ Shows([v EXCEPT !.row = 0,
                     !.draft = [id |-> drafts + 1, kind |-> kind, prefix |-> prefix,
                                named |-> FALSE, busy |-> FALSE]])

\* beginCreate, and a folder row's own New file.
BeginCreate ==
    /\ Press
    /\ \E kind \in EntryKinds, parent \in {<<>>} \cup (drawn.rows \cap Folders) :
          OpenDraft(View, kind, parent)
    /\ UNCHANGED <<creating, deleting, moving, moves>>

\* cancelCreate.
Cancelled(v) == [v EXCEPT !.draft = NoDraft, !.row = 0]
CancelCreate ==
    /\ draft # NoDraft /\ Press
    /\ Shows(Cancelled(View))
    /\ UNCHANGED <<drafts, creating, deleting, moving, moves>>

\* absorbTyped, in the row that is drawn: a folder part moves into the prefix, and the row is
\* drawn again only where it stands elsewhere then.  While a create runs the field is read-only,
\* and Backspace still eats the prefix.  A row whose draft is gone is dead.
TypeName ==
    /\ Press
    /\ draft # NoDraft /\ draftRow = draft.id
    /\ \E prefix \in {<<>>} \cup Folders, named \in BOOLEAN :
          LET v == [View EXCEPT !.draft.prefix = prefix, !.draft.named = named] IN
          /\ v # View
          /\ draft.busy => named = draft.named /\ In(draft.prefix, prefix)
          /\ IF Home(v) # Home(View)
             THEN Shows(v)
             ELSE /\ draft' = v.draft
                  /\ UNCHANGED <<listing, local, draftRow, asking, holding, pinned, drawn, drawnRows>>
    /\ UNCHANGED <<drafts, creating, deleting, moving, moves>>

\* commit: a name the check takes goes to the page, once.
Commit ==
    /\ draft # NoDraft /\ draftRow = draft.id /\ draft.named /\ ~draft.busy
    /\ Press
    /\ draft' = [draft EXCEPT !.busy = TRUE]
    /\ creating' = creating \cup {[id |-> draft.id, kind |-> draft.kind, prefix |-> draft.prefix]}
    /\ UNCHANGED <<listing, local, draftRow, drafts, asking, deleting, holding, moving, pinned,
                   drawn, drawnRows, moves>>

\* Whether the answer of a create is one for the row that is open.
Alike(c) == draft # NoDraft /\ draft.kind = c.kind /\ draft.prefix = c.prefix
Owns(c) == draft.id = c.id

\* The page answers a create.  A refusal is said in the row; a file that was made closes it
\* and opens its folder; a folder that was made has the row open again in it.
CreateAnswered ==
    /\ \E c \in creating :
          /\ creating' = creating \ {c}
          /\ IF ~Owns(c)
             THEN UNCHANGED <<listing, local, draft, draftRow, asking, holding, pinned, drawn,
                              drawnRows, drafts>>
             ELSE LET idle == [View EXCEPT !.draft.busy = FALSE] IN
                  /\ \/ /\ draft' = idle.draft
                        /\ UNCHANGED <<room, draftRow, asking, holding, pinned, drawn, drawnRows,
                                       drafts>>
                     \/ /\ c.kind = "file"
                        /\ Shows(Cancelled(IF c.prefix = <<>> THEN idle ELSE OpenFolder(idle, c.prefix)))
                        /\ UNCHANGED drafts
                     \/ /\ c.kind = "directory"
                        /\ \E p \in Folders : Parent(p) = c.prefix /\ OpenDraft(idle, "file", p)
    /\ UNCHANGED <<deleting, moving, presses, moves>>

---------------------------------------------------------------------------
(* The row that asks.                                                      *)

\* beginDelete.
BeginDelete ==
    /\ Press
    /\ \E p \in drawn.rows : Shows([View EXCEPT !.asking = p, !.hold = NoHold])
    /\ UNCHANGED <<drafts, creating, deleting, moving, moves>>

\* cancelDelete: the keep control, and Escape.
CancelDelete ==
    /\ asking # Nowhere /\ Press
    /\ Shows([View EXCEPT !.asking = Nowhere])
    /\ UNCHANGED <<drafts, creating, deleting, moving, moves>>

\* confirmDelete: one removal at a time.
ConfirmDelete ==
    /\ drawn.asking # Nowhere /\ drawn.asking \in drawn.rows /\ deleting = Nowhere
    /\ deleting' = drawn.asking
    /\ UNCHANGED <<room, draft, draftRow, drafts, creating, asking, holding, moving, pinned, drawn,
                   drawnRows, presses, moves>>

\* Its answer: a refusal stands under the row that asked; a removal takes the question down,
\* whichever row asks by then.
DeleteAnswered ==
    /\ deleting # Nowhere
    /\ deleting' = Nowhere
    /\ \/ UNCHANGED <<room, draft, draftRow, asking, holding, pinned, drawn, drawnRows>>
       \/ Shows([View EXCEPT !.asking = Nowhere])
    /\ UNCHANGED <<drafts, creating, moving, presses, moves>>

---------------------------------------------------------------------------
(* The row that is held.                                                   *)

\* beginMove: a drag does not rebuild, its row is dimmed where it stands; it does not begin
\* while a row asks.  The keyboard picks up a file, and drops the question.
BeginDrag ==
    /\ Press
    /\ asking = Nowhere
    /\ \E p \in drawn.rows :
          /\ holding' = [path |-> p, into |-> Parent(p), pointer |-> TRUE]
          /\ drawn' = [drawn EXCEPT !.held = @ \cup {p}]
    /\ UNCHANGED <<room, draft, draftRow, drafts, creating, asking, deleting, moving, pinned,
                   drawnRows, moves>>
PickUp ==
    /\ Press
    /\ holding = NoHold
    /\ \E p \in drawn.rows \cap Files :
          Shows([View EXCEPT !.asking = Nowhere,
                             !.hold = [path |-> p, into |-> Parent(p), pointer |-> FALSE]])
    /\ UNCHANGED <<drafts, creating, deleting, moving, moves>>

\* stepMove: the choice walks the folders and the top level.
StepMove ==
    /\ holding # NoHold /\ Press
    /\ \E into \in {<<>>} \cup FoldersOf(View) : Shows([View EXCEPT !.hold.into = into])
    /\ UNCHANGED <<drafts, creating, deleting, moving, moves>>

\* leaveMove.
LeaveMove ==
    /\ holding # NoHold /\ Press
    /\ Shows([View EXCEPT !.hold = NoHold])
    /\ UNCHANGED <<drafts, creating, deleting, moving, moves>>

\* dropMove by Enter: nothing keeps a second press from a second move.
DropHeld ==
    /\ holding # NoHold /\ Lands(View, holding.into)
    /\ Press
    /\ moving' = moving \cup {[path |-> holding.path, into |-> holding.into]}
    /\ UNCHANGED <<room, draft, draftRow, drafts, creating, asking, deleting, holding, pinned, drawn,
                   drawnRows, moves>>

\* endMove: the drag has ended, over a folder that takes the row or not; the hold is
\* forgotten and the rows are built anew.
Released(v) == [v EXCEPT !.hold = NoHold, !.key = Stale]
DragEnds ==
    /\ holding.pointer
    /\ \/ UNCHANGED moving
       \/ \E into \in {<<>>} \cup (drawn.rows \cap Folders) :
             /\ Lands(View, into)
             /\ moving' = moving \cup {[path |-> holding.path, into |-> into]}
    /\ Shows(Released(View))
    /\ UNCHANGED <<drafts, creating, deleting, presses, moves>>

\* The page answers a move: whatever is held by then is let go of, and the folder it landed
\* in opens.
MoveAnswered ==
    /\ \E m \in moving :
          LET v == [View EXCEPT !.hold = NoHold] IN
          /\ moving' = moving \ {m}
          /\ \/ Shows(v)
             \/ Shows(IF m.into = <<>> THEN v ELSE OpenFolder(v, m.into))
    /\ UNCHANGED <<drafts, creating, deleting, presses, moves>>

---------------------------------------------------------------------------

TreeInit ==
    /\ listing \in Listings /\ local = {}
    /\ draft = NoDraft /\ draftRow = 0 /\ drafts = 0 /\ creating = {}
    /\ asking = Nowhere /\ deleting = Nowhere /\ holding = NoHold /\ moving = {}
    /\ pinned = {}
    /\ LET v == [listing |-> listing, local |-> {}, draft |-> NoDraft, row |-> 0, asking |-> Nowhere,
                 hold |-> NoHold, pinned |-> {}, key |-> Stale] IN
       drawnRows = Key(v) /\ drawn = Drawing(v)
    /\ presses = 0 /\ moves = 0

TreeNext ==
    \/ RoomMoves \/ Reset \/ Toggle
    \/ BeginCreate \/ CancelCreate \/ TypeName \/ Commit \/ CreateAnswered
    \/ BeginDelete \/ CancelDelete \/ ConfirmDelete \/ DeleteAnswered
    \/ BeginDrag \/ PickUp \/ StepMove \/ LeaveMove \/ DropHeld \/ DragEnds \/ MoveAnswered

TreeSpec == TreeInit /\ [][TreeNext]_treeVars

---------------------------------------------------------------------------
(* Properties.                                                             *)

Drafts == [id : Nat, kind : EntryKinds \cup {"none"}, prefix : Folders \cup {<<>>},
           named : BOOLEAN, busy : BOOLEAN]
Holds == [path : EntryPaths \cup {Nowhere}, into : Folders \cup {<<>>, Nowhere}, pointer : BOOLEAN]

TreeTypeOK ==
    /\ listing \subseteq Files /\ local \subseteq Folders /\ pinned \subseteq Folders
    /\ draft \in Drafts /\ (draft.kind = "none" => draft = NoDraft)
    /\ drafts \in Nat /\ draftRow \in Nat /\ presses \in Nat /\ moves \in Nat
    /\ creating \subseteq [id : Nat, kind : EntryKinds, prefix : Folders \cup {<<>>}]
    /\ asking \in EntryPaths \cup {Nowhere} /\ deleting \in EntryPaths \cup {Nowhere}
    /\ holding \in Holds /\ moving \subseteq [path : EntryPaths, into : Folders \cup {<<>>}]

\* What the pane shows is what the view holds, however few of its handlers rebuild the rows
\* (render, rowsKey, openFolder, endMove): its rows, the one that asks and all that it would
\* take, where the create row stands, the one the keyboard holds and where it would land, and
\* the folders that were opened.
RowsAreDrawn ==
    LET now == Drawing(View) IN
    /\ \A field \in {"rows", "asking", "goes", "struck", "home"} : drawn[field] = now[field]
    /\ holding # NoHold /\ ~holding.pointer => drawn.held = now.held /\ drawn.landing = now.landing
    /\ pinned \cap drawn.rows \subseteq drawn.open

\* The answer of a create is given to the row that asked for it, and to no other that was
\* opened since, however alike (commit).
RowsAnswerForThemselves ==
    [][ \A c \in creating : c \notin creating' /\ draft' # draft => draft.id = c.id ]_treeVars

\* The pane shows what the tree holds, and a create's answer is given to the row that asked
\* for it (tree-view.ts render and commit).
RowsAreKept == []RowsAreDrawn /\ RowsAnswerForThemselves
=============================================================================
