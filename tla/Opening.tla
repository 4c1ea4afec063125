------------------------------ MODULE Opening -------------------------------
(***************************************************************************)
(* What is in front of the editor (src/src/browser/editor.ts,              *)
(* MonacoBinding): the documents a person opens, the participant a window  *)
(* goes to or follows, the documents the grant takes away and the end of   *)
(* the room.                                                               *)
(*                                                                         *)
(* An opening waits for the room, and in a host's window for the folder;   *)
(* one that waits is a record in shows, with whether openingCycle and      *)
(* landingCycle are still its own (mine, lands).  A frame of the room      *)
(* lands again where the followed participant is.  All the binding holds   *)
(* is one record, ed: a handler is the composition of what it calls.       *)
(***************************************************************************)
EXTENDS Naturals, FiniteSets

CONSTANTS
    Paths, Peers,
    Windows,      \* the windows looked at: "host" shares a folder, "guest" does not
    Carets,       \* what a caret may be: "none" yet, one that resolves, one that does not
    None,
    MaxKeys,      \* bound: what the person presses
    MaxFrames,    \* bound: frames of the room that move something
    MaxBlips      \* bound: opens a dropped socket rejects

\* A participant that left, one no presence tells of, and one in a file or in none.
Departed == [at |-> None, caret |-> "left"]
Unheard  == [at |-> None, caret |-> "unheard"]
Where    == {Departed, Unheard} \cup [at : Paths \cup {None}, caret : Carets]

VARIABLES
    window, ed,
    presence,   \* what the room says of each participant
    blip,       \* the socket dropped and is not seated again
    keys, frames, blips

counts      == <<keys, frames, blips>>
openingVars == <<window, ed, presence, blip, counts>>

OpeningInit ==
    /\ window \in Windows
    /\ presence \in [Peers -> {Unheard}]
    /\ blip = FALSE /\ keys = 0 /\ frames = 0 /\ blips = 0
    /\ ed = [path |-> None, fronted |-> {}, models |-> {}, held |-> {}, has |-> {},
             dropped |-> {}, following |-> None, followingPath |-> None, pendingGoTo |-> None,
             shows |-> {}, role |-> "guest", readOnly |-> TRUE, terminal |-> FALSE,
             disposed |-> FALSE, last |-> None, shown |-> FALSE, caret |-> None, ended |-> FALSE]

-----------------------------------------------------------------------------
\* showDocument()

\* applyEditability(), said to the editor only where it changed.
ReadOnly(d) == d.terminal \/ d.path = None \/ d.role = "viewer"
Editability(d) == [d EXCEPT !.readOnly = ReadOnly(d)]

\* The opening in hand is the newest of this binding.
IsCurrent(d, r) == ~d.disposed /\ ~d.terminal /\ r.mine

\* What a landing comes to once its document is in front (landOn()).
AnyLanding(d, r) == d.path = r.path
Owned(d, r) ==
    /\ d.path = r.path /\ r.lands
    /\ r.peer = (IF r.by = "go" THEN d.pendingGoTo ELSE d.following)
Arrived(d, r) == IF r.by = "go" THEN [d EXCEPT !.pendingGoTo = None] ELSE d
Landed(d, r) ==
    IF r.by = "open" \/ ~Owned(d, r) THEN d
    ELSE LET e == IF r.by = "follow" THEN [d EXCEPT !.followingPath = r.path] ELSE d
         IN  CASE r.caret = "none" -> Arrived(e, r)
               [] r.caret = "bad" -> IF r.path \in d.has THEN Arrived(e, r) ELSE e
               [] OTHER -> IF r.path \in d.has THEN Arrived([e EXCEPT !.caret = r.peer], r) ELSE e

Fronts(d, r) ==
    Landed(Editability([d EXCEPT !.path = r.path, !.fronted = @ \cup {r.path},
                                 !.models = @ \cup {r.path}, !.shown = @ \/ r.mine]), r)

\* Once the room has answered: a host reads a file nobody has published from its folder.
Builds(d, r) ==
    IF window = "host" /\ r.path \notin d.models \cup d.has
    THEN [d EXCEPT !.shows = @ \cup {[r EXCEPT !.pc = "text"]}]
    ELSE Fronts(d, r)

Show(d, path, by, peer, caret) ==
    IF d.disposed \/ d.terminal THEN d
    ELSE LET r == [path |-> path, by |-> by, peer |-> peer, caret |-> caret,
                   pc |-> "open", mine |-> TRUE, lands |-> TRUE]
             e == [d EXCEPT !.shows = {[s EXCEPT !.mine = FALSE] : s \in @},
                            !.last = path, !.shown = FALSE]
         IN  IF path \in d.fronted \cap d.models THEN Fronts(e, r)
             ELSE IF path \in d.held THEN Builds(e, r)
             ELSE [e EXCEPT !.held = @ \cup {path}, !.shows = @ \cup {r}]

-----------------------------------------------------------------------------
\* The follow and the go-to.

ClearFollow(d) == [d EXCEPT !.following = None, !.followingPath = None]

\* A landing of its own, which ends the ones under way.
LandOn(d, peer, by) ==
    LET e == [d EXCEPT !.shows = {[s EXCEPT !.lands = FALSE] : s \in @}]
        w == presence'[peer]
    IN  IF w = Departed THEN IF by = "go" THEN [e EXCEPT !.pendingGoTo = None] ELSE ClearFollow(e)
        ELSE IF w.at = None THEN e
        ELSE Show(e, w.at, by, peer, w.caret)

FollowTick(d) == IF d.following = None THEN d ELSE LandOn(d, d.following, "follow")
RetryGoTo(d)  == IF d.pendingGoTo = None THEN d ELSE LandOn(d, d.pendingGoTo, "go")
TicksGoTo(d)  == RetryGoTo(d)
Tick(d)       == IF d.following = None THEN RetryGoTo(d) ELSE FollowTick(d)

-----------------------------------------------------------------------------
\* What the person does.

Pressed == keys < MaxKeys /\ keys' = keys + 1

OpenDocument(p) ==
    /\ Pressed /\ ~ed.disposed
    /\ ed' = Show(ClearFollow([ed EXCEPT !.pendingGoTo = None]), p, "open", None, "none")
    /\ UNCHANGED <<window, presence, blip, frames, blips>>

\* The page's own reopening, at the name a move gave the file.
ReopenMoved(p) ==
    /\ Pressed /\ ~ed.disposed /\ window = "host"
    /\ ed' = Show(ed, p, "open", None, "none")
    /\ UNCHANGED <<window, presence, blip, frames, blips>>

StopsFirst(d) == ClearFollow(d)
GoTo(q) ==
    /\ Pressed /\ ~ed.terminal /\ ~ed.disposed
    /\ UNCHANGED presence
    /\ ed' = RetryGoTo([StopsFirst(ed) EXCEPT !.pendingGoTo = q])
    /\ UNCHANGED <<window, blip, frames, blips>>

Follow(q) ==
    /\ Pressed /\ ~ed.terminal /\ ~ed.disposed
    /\ UNCHANGED presence
    /\ ed' = FollowTick(IF ed.following = q THEN ed
                       ELSE [ed EXCEPT !.following = q, !.pendingGoTo = None, !.ended = FALSE])
    /\ UNCHANGED <<window, blip, frames, blips>>

StopFollowing ==
    /\ Pressed /\ ed.following # None
    /\ ed' = ClearFollow(ed)
    /\ UNCHANGED <<window, presence, blip, frames, blips>>

\* A keystroke in the document in front; in a guest's window it publishes the text.
Type ==
    /\ Pressed /\ ~ed.readOnly /\ ~ed.disposed
    /\ ed' = [ClearFollow(ed) EXCEPT !.has = @ \cup {ed.path},
                                   !.ended = @ \/ ed.following # None]
    /\ UNCHANGED <<window, presence, blip, frames, blips>>

-----------------------------------------------------------------------------
\* What the room does.

Frame == frames < MaxFrames /\ frames' = frames + 1 /\ ~ed.disposed /\ ~ed.terminal /\ ~blip

PresenceChanged(q, w) ==
    /\ Frame /\ presence[q] # w
    /\ presence' = [presence EXCEPT ![q] = w]
    /\ ed' = Tick(ed)
    /\ UNCHANGED <<window, blip, keys, blips>>

DocumentsChanged ==
    /\ Frame /\ UNCHANGED presence
    /\ ed' = Tick(ed)
    /\ UNCHANGED <<window, blip, keys, blips>>

\* The text of a held document arrives.
DocumentChanged(p) ==
    /\ p \in ed.held \ ed.has /\ ~ed.disposed /\ ~ed.terminal /\ ~blip
    /\ UNCHANGED presence
    /\ ed' = Tick([ed EXCEPT !.has = @ \cup {p}])
    /\ UNCHANGED <<window, blip, counts>>

\* The role the applied state gives this connection; every event re-reads it.
RoleChanged(role) ==
    /\ Frame /\ role # ed.role /\ UNCHANGED presence
    /\ ed' = Tick(Editability([ed EXCEPT !.role = role]))
    /\ UNCHANGED <<window, blip, keys, blips>>

\* followGrant() and dropDocuments(): what the listing no longer names is closed.
LocksLater(d) == d
Locks(d) == Editability(d)
CloseDocument(d, p) ==
    LET e == [d EXCEPT !.held = @ \ {p}, !.fronted = @ \ {p}, !.models = @ \ {p}]
    IN  IF d.path = p THEN Locks([e EXCEPT !.path = None]) ELSE e
DropDocument(d, p) ==
    LET e == IF d.followingPath = p THEN ClearFollow(d) ELSE d
        f == [e EXCEPT !.dropped = @ \cup {p}]
    IN  IF p \in d.fronted THEN CloseDocument(f, p) ELSE f
GrantChanged(p) ==
    /\ Frame /\ p \notin ed.dropped
    /\ ed' = DropDocument(ed, p)
    /\ UNCHANGED <<window, presence, blip, keys, blips>>

EnterTerminal ==
    /\ Frame
    /\ ed' = Editability([ClearFollow(ed) EXCEPT !.terminal = TRUE, !.pendingGoTo = None,
                            !.shows = {[s EXCEPT !.lands = FALSE] : s \in @}])
    /\ UNCHANGED <<window, presence, blip, keys, blips>>

Dispose ==
    /\ Pressed /\ ~ed.disposed
    /\ ed' = [ed EXCEPT !.disposed = TRUE, !.following = None, !.pendingGoTo = None,
                        !.models = {}]
    /\ UNCHANGED <<window, presence, blip, frames, blips>>

\* An opening goes on when the room, or the folder, answers it; one that is no
\* longer current does nothing.
OpeningAnswered(r) ==
    /\ r \in ed.shows
    /\ UNCHANGED presence
    /\ ed' = LET d == [ed EXCEPT !.shows = @ \ {r}]
            IN  IF ~IsCurrent(ed, r) THEN d
                ELSE IF r.pc = "open" THEN Builds(d, r) ELSE Fronts(d, r)
    /\ UNCHANGED <<window, blip, counts>>

\* The socket drops: the open rejects, and the relay will seat the session again,
\* which the page hears as the documents of the room.
Rejected(r) ==
    /\ r \in ed.shows /\ r.pc = "open" /\ blips < MaxBlips
    /\ blips' = blips + 1 /\ blip' = TRUE
    /\ ed' = [ed EXCEPT !.shows = @ \ {r}]
    /\ UNCHANGED <<window, presence, keys, frames>>

Seated ==
    /\ blip /\ blip' = FALSE /\ UNCHANGED presence
    /\ ed' = IF ed.disposed \/ ed.terminal THEN ed ELSE Tick(ed)
    /\ UNCHANGED <<window, counts>>

-----------------------------------------------------------------------------
Answers == \E r \in ed.shows : OpeningAnswered(r)

OpeningNext ==
    \/ \E p \in Paths : OpenDocument(p) \/ ReopenMoved(p) \/ GrantChanged(p) \/ DocumentChanged(p)
    \/ \E q \in Peers : GoTo(q) \/ Follow(q) \/ \E w \in Where : PresenceChanged(q, w)
    \/ StopFollowing \/ Type \/ DocumentsChanged \/ EnterTerminal \/ Dispose
    \/ \E role \in {"guest", "viewer"} : RoleChanged(role)
    \/ Answers \/ \E r \in ed.shows : Rejected(r)
    \/ Seated

OpeningSpec == OpeningInit /\ [][OpeningNext]_openingVars

\* The room and the folder answer, a dropped socket is seated again and the text of a
\* held document arrives.
OpeningLiveSpec ==
    /\ OpeningSpec /\ WF_openingVars(Seated)
    /\ WF_openingVars(Answers)
    /\ \A p \in Paths : WF_openingVars(DocumentChanged(p))

-----------------------------------------------------------------------------
\* A caret is placed only for the participant this window goes to or follows by
\* then, whatever was pressed while the document was on its way (landOn()).
CaretOfTheOneAsked ==
    [][ed'.caret # ed.caret => ed'.caret \in {ed.following, ed.pendingGoTo}
                             \/ keys' # keys]_openingVars

\* A document that was overtaken while the room or the folder was answering never
\* comes in front of the one asked for last: that one is what is shown, or nothing
\* is because the grant took it away (showDocument()), and the caret in it is of the one asked
\* for.  And the editor takes text exactly where the room would: not past the end, without a
\* document in front, or as a viewer (applyEditability(), called wherever one of the three
\* may have changed).
AskedIsInFront ==
    /\ [](/\ ed.shown /\ ed.path # None => ed.path = ed.last
          /\ ~ed.disposed => ed.readOnly = ReadOnly(ed))
    /\ CaretOfTheOneAsked

\* A follow lands: a participant who stays in a file the room still lists, with a
\* follow that stands and nothing else opened, has that file in front of this window, however
\* many frames came meanwhile and whether or not the socket dropped (followTick(),
\* backgroundTick()).
FollowLands ==
    \A q \in Peers, p \in Paths :
        <>[](ed.following = q /\ presence[q].at = p /\ ed.last = p /\ p \notin ed.dropped)
            => <>[](ed.path = p)
=============================================================================
