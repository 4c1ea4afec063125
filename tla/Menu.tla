-------------------------------- MODULE Menu --------------------------------
(***************************************************************************)
(* The people of a room in the page's bar (src/src/browser/main.ts and     *)
(* room.ts): a strip of faces, the dialog a face opens, the own name's     *)
(* edit inside it, and a refused go-to that stands there for a while.      *)
(*                                                                         *)
(* Every frame of the room rebuilds the strip and the dialog from nothing, *)
(* so that what the person has typed, what has focus and what is said to   *)
(* be expanded must be carried over by hand.  All the page holds of it is  *)
(* one record, page; controls, strip and expanded are what the DOM holds,  *)
(* which is the work of the last draw and not a function of the rest.      *)
(***************************************************************************)
EXTENDS Naturals, Sequences, FiniteSets

CONSTANTS
    Self, Order,   \* this window's seat, and the others in the room's order
    Limit,         \* FACE_LIMIT, or a phone's
    First,         \* the name this window joined under
    Typings,       \* what a person may type instead: another name, or nothing
    Blank, More, None,
    Stand,         \* GO_TO_REFUSAL_STAND_MS, in ticks
    MaxPresses,    \* bound: what the person presses
    MaxDraws,      \* bound: frames of the room
    MaxVisits      \* bound: sessions one after the other

Peers == {Order[i] : i \in DOMAIN Order}

ASSUME MenuAssumption ==
    /\ Self \notin Peers /\ More \notin Peers \cup {Self}
    /\ None \notin Peers \cup {Self, More, First, Blank} \cup Typings
    /\ Limit \in Nat \ {0, 1} /\ Stand \in Nat

VARIABLES
    page,
    goTos,     \* go-tos under way: [peer, session, waits], waits once the press was answered
    follows,   \* follows that have not landed
    renames,   \* names sent and not answered, in order
    stands,    \* what each running timer of a refusal has left
    stood,     \* history: how long the refusal that stands has stood
    visit, presses, draws      \* visit: which session this is

promises == <<goTos, follows, renames>>
counts   == <<presses, draws>>
menuVars == <<page, promises, stands, stood, visit, counts>>

Face(a) == <<"face", a>>
Pick(p) == <<"pick", p>>
Go      == <<"go">>
Follows == <<"follow">>
Rename  == <<"rename">>
Back    == <<"back">>
Field   == <<"field">>      \* the name field, its save and its cancel
Elsewhere == <<"away">>       \* anything else: the editor, or nothing

NoMenu == [view |-> "none", peer |-> None, anchor |-> None, fromList |-> FALSE]

-----------------------------------------------------------------------------
\* The strip of faces.

\* Where each participant is: at[p] is whether p has a file open; those who left are not in it.
InRoom(e) == {Self} \cup DOMAIN e.at

\* The person is first, then the others in the room's order.
Place(p) == IF p = Self THEN 0 ELSE CHOOSE i \in DOMAIN Order : Order[i] = p
Ahead(p, people) == Cardinality({q \in people : Place(q) < Place(p)})

VisibleFaces(people, following) ==
    LET shown(n) == {p \in people : Ahead(p, people) < n}
    IN  IF Cardinality(people) <= Limit THEN people
        ELSE IF following \in people \ shown(Limit - 1)
        THEN shown(Limit - 2) \cup {following} ELSE shown(Limit - 1)

Anchors(e) ==
    LET shown == VisibleFaces(InRoom(e), e.following)
    IN  shown \cup (IF shown = InRoom(e) THEN {} ELSE {More})

SyncExpanded(e) == [e EXCEPT !.expanded = {e.menu.anchor} \cap e.strip]

RenderRoom(e) ==
    LET faces == Anchors(e)
        f == SyncExpanded([e EXCEPT !.strip = faces])
    IN  IF e.focus \in {Face(a) : a \in e.strip \ faces} THEN [f EXCEPT !.focus = Elsewhere] ELSE f

-----------------------------------------------------------------------------
\* The dialog.

PersonActs(e, p) ==
    IF p = Self THEN IF e.renaming = None THEN {Rename} ELSE {Field}
    ELSE {Follows} \cup (IF e.at[p] THEN {Go} ELSE {})

Controls(e) ==
    CASE e.menu.view = "none" -> {}
      [] e.menu.view = "everyone" -> {Pick(p) : p \in InRoom(e)}
      [] OTHER -> PersonActs(e, e.menu.peer) \cup (IF e.menu.fromList THEN {Back} ELSE {})

\* What focus falls to: a control on the page, or nothing when the one that had it goes.
FocusOn(e, x) == [e EXCEPT !.focus = IF x \in e.controls \cup {Face(a) : a \in e.strip} THEN x
                                     ELSE IF @ \in e.controls THEN Elsewhere ELSE @]

CloseMenu(e, refocus) ==
    LET f == [e EXCEPT !.menu = NoMenu, !.renaming = None, !.value = None, !.controls = {},
                       !.expanded = {}, !.focus = IF @ \in e.controls THEN Elsewhere ELSE @]
    IN  IF refocus THEN FocusOn(f, Face(e.menu.anchor)) ELSE f

\* The own name's edit, as the draw that follows finds it.
OpensAgain(e) == e.renaming
RenameView(e) == IF e.value = None THEN e.renaming ELSE e.value

\* Over the element the dialog lives in, with focus on what selector names, if it is drawn.
RenderMenu(e, selector) ==
    IF e.menu.view = "none" THEN e
    ELSE IF e.menu.view = "person" /\ e.menu.peer \notin InRoom(e) THEN CloseMenu(e, FALSE)
    ELSE [e EXCEPT
            !.controls = Controls(e),
            !.value = IF Field \in Controls(e) THEN RenameView(e) ELSE None,
            !.focus = IF selector \in Controls(e) THEN selector
                      ELSE IF @ \in e.controls THEN Elsewhere ELSE @]

\* The control that has focus, where the redraw can find it again.
MenuFocusSelector(e) ==
    IF e.focus \in e.controls \ {Follows, Field} THEN e.focus ELSE Elsewhere

RenameHoldsTheList(e) == e.value # None /\ e.focus = Field

DrawRoom(e) ==
    LET f == RenderRoom(e)
    IN  IF RenameHoldsTheList(f) THEN f ELSE RenderMenu(f, MenuFocusSelector(f))

\* The first control of the dialog, in the order it is drawn.
FirstOf(e) ==
    IF Back \in e.controls THEN Back
    ELSE IF e.menu.view = "everyone" THEN Pick(Self)
    ELSE IF e.menu.peer = Self THEN Rename
    ELSE IF Go \in e.controls THEN Go ELSE Follows

OpenMenu(e, menu) ==
    LET f == SyncExpanded(RenderMenu([e EXCEPT !.menu = menu, !.renaming = None], Elsewhere))
    IN  FocusOn(f, FirstOf(f))

EndRename(e) == RenderMenu([e EXCEPT !.renaming = None, !.value = None], Rename)

\* A follow that begins or ends.
SyncFollow(e, following) == DrawRoom([e EXCEPT !.following = following])

\* What follows the answer to a rename, whatever it was.
Renamed(e) == RenderMenu(DrawRoom(e), Rename)

-----------------------------------------------------------------------------
Fresh(e) == [e EXCEPT !.selfName = First, !.strip = Anchors(e)]

MenuInit ==
    /\ page = Fresh([menu |-> NoMenu, renaming |-> None, value |-> None, focus |-> Elsewhere,
                  controls |-> {}, strip |-> {}, expanded |-> {}, refusal |-> None,
                  following |-> None, selfName |-> First, at |-> [p \in Peers |-> TRUE]])
    /\ goTos = {} /\ follows = {} /\ renames = <<>> /\ stands = {} /\ stood = 0
    /\ visit = 1 /\ presses = 0 /\ draws = 0

Presses == presses < MaxPresses /\ presses' = presses + 1 /\ UNCHANGED draws
Rests   == UNCHANGED <<promises, stands, stood, visit>>

\* What the person presses.
PressAnchor(a) ==
    /\ Presses /\ Rests /\ a \in page.strip
    /\ page' = LET e == [page EXCEPT !.focus = Face(a)]
            IN  IF page.menu.anchor = a THEN CloseMenu(e, TRUE)
                ELSE OpenMenu(e, IF a = More
                                 THEN [NoMenu EXCEPT !.view = "everyone", !.anchor = a]
                                 ELSE [view |-> "person", peer |-> a, anchor |-> a, fromList |-> FALSE])

PickFromList(p) ==
    /\ Presses /\ Rests /\ Pick(p) \in page.controls
    /\ page' = OpenMenu(page, [view |-> "person", peer |-> p, anchor |-> page.menu.anchor, fromList |-> TRUE])

BackToEveryone ==
    /\ Presses /\ Rests /\ Back \in page.controls
    /\ page' = FocusOn(RenderMenu([page EXCEPT !.menu = [NoMenu EXCEPT !.view = "everyone",
                                                                 !.anchor = page.menu.anchor]],
                               Elsewhere),
                    Pick(page.menu.peer))

Escape ==
    /\ Presses /\ Rests /\ page.menu.view # "none"
    /\ page' = IF page.renaming # None THEN EndRename(page) ELSE CloseMenu(page, TRUE)

\* A press on neither the dialog nor a face, which keeps a name the person has typed.
PressOutside ==
    /\ page.menu.view # "none" /\ Rests /\ UNCHANGED counts
    /\ page' = LET e == [page EXCEPT !.focus = Elsewhere]
            IN  IF page.renaming # None /\ page.value \notin {None, Blank, page.renaming} THEN e
                ELSE CloseMenu(e, FALSE)

\* Focus moved by the keyboard.
Tab(x) ==
    /\ x \in page.controls \cup {Face(a) : a \in page.strip} \cup {Elsewhere}
    /\ page' = [page EXCEPT !.focus = x]
    /\ Rests /\ UNCHANGED counts

StartRename ==
    /\ Presses /\ Rests /\ Rename \in page.controls /\ page.renaming = None
    /\ page' = RenderMenu([page EXCEPT !.renaming = page.selfName, !.value = None], Field)

Type(t) ==
    /\ Presses /\ Rests /\ page.focus = Field
    /\ page' = [page EXCEPT !.value = t]

CancelRename ==
    /\ Presses /\ Rests /\ Field \in page.controls
    /\ page' = EndRename(page)

\* A name the bound refuses, or the one in force, is answered without the room.
CommitRename ==
    /\ Presses /\ Field \in page.controls
    /\ IF page.value \in {Blank, page.selfName}
       THEN page' = Renamed(EndRename(page)) /\ UNCHANGED renames
       ELSE page' = EndRename(page) /\ renames' = Append(renames, [name |-> page.value, session |-> visit])
    /\ UNCHANGED <<goTos, follows, stands, stood, visit>>

\* From the dialog of a participant, or from the pane with no document in it, which offers the
\* first of the room that is in a file.
InAFile(e)  == {p \in DOMAIN e.at : e.at[p]}
FromPane(p) ==
    /\ page.focus = Elsewhere
    /\ p \in InAFile(page) /\ \A q \in InAFile(page) : Place(p) <= Place(q)

GoTo(p) ==
    /\ Presses
    /\ (Go \in page.controls /\ p = page.menu.peer) \/ FromPane(p)
    /\ goTos' = goTos \cup {[peer |-> p, session |-> visit, waits |-> FALSE]}
    /\ page' = IF page.following = None THEN page ELSE SyncFollow(page, None)
    /\ UNCHANGED <<follows, renames, stands, stood, visit>>

Follow(p) ==
    /\ Presses /\ page.following # p
    /\ (Follows \in page.controls /\ p = page.menu.peer) \/ FromPane(p)
    /\ follows' = follows \cup {[peer |-> p, session |-> visit]}
    /\ page' = SyncFollow(page, p)
    /\ UNCHANGED <<goTos, renames, stands, stood, visit>>

StopFollow(p) ==
    /\ Presses /\ Rests /\ page.following = p
    /\ \/ /\ Follows \in page.controls /\ p = page.menu.peer
          /\ page' = FocusOn(CloseMenu(SyncFollow(page, None), FALSE), Face(p))
       \/ /\ FromPane(p)
          /\ page' = SyncFollow(page, None)

-----------------------------------------------------------------------------
\* What is answered.

Active(r) == r.session = visit

\* The editor landed where it was asked to go, and the dialog has done its work.
GoToLands(r) ==
    /\ r \in goTos /\ ~r.waits /\ goTos' = goTos \ {r}
    /\ page' = IF Active(r) THEN CloseMenu(page, TRUE) ELSE page
    /\ UNCHANGED <<follows, renames, stands, stood, visit, counts>>

FollowLands(r) ==
    /\ r \in follows /\ follows' = follows \ {r}
    /\ \/ page' = IF Active(r) /\ page.following = r.peer
               THEN FocusOn(CloseMenu(page, FALSE), Face(r.peer)) ELSE page
       \/ UNCHANGED page     \* another landing has taken its place
    /\ UNCHANGED <<goTos, renames, stands, stood, visit, counts>>

\* The clock of the sentence that stood before, once another one replaces it.
Cleared == {}

\* A go-to the room could not answer: in the dialog it was asked in, or on the alert.
ShowGoToRefusal(r) ==
    /\ r \in goTos /\ Active(r) /\ goTos' = goTos \ {r}
    /\ IF page.menu.view = "person" /\ page.menu.peer = r.peer
       THEN /\ page' = RenderMenu([page EXCEPT !.refusal = r.peer], Go)
            /\ stands' = Cleared \cup {Stand} /\ stood' = 0
       ELSE UNCHANGED <<page, stands, stood>>
    /\ UNCHANGED <<follows, renames, visit, counts>>

\* A go-to that has to wait is tried again with every frame: it may be refused later, and
\* is over when it lands or is overtaken.
GoToWaits(r) ==
    /\ r \in goTos
    /\ goTos' = (goTos \ {r}) \cup (IF r.waits THEN {} ELSE {[r EXCEPT !.waits = TRUE]})
    /\ UNCHANGED <<page, follows, renames, stands, stood, visit, counts>>

RefusalEnds ==
    /\ 0 \in stands /\ stands' = stands \ {0}
    /\ page' = RenderMenu([page EXCEPT !.refusal = None], 
                         IF page.focus \in page.controls THEN Go ELSE Elsewhere)
    /\ UNCHANGED <<promises, stood, visit, counts>>

TimePasses ==
    /\ stands # {} /\ 0 \notin stands
    /\ stands' = {t - 1 : t \in stands}
    /\ stood' = IF page.refusal = None THEN 0 ELSE stood + 1
    /\ UNCHANGED <<page, promises, visit, counts>>

\* The room answers in order; it takes the name or refuses it (renameSelf()).
RenameAnswered(taken) ==
    /\ renames # <<>> /\ renames' = Tail(renames)
    /\ LET r == Head(renames)
       IN  page' = IF ~Active(r) THEN page
                ELSE Renamed(IF taken THEN [page EXCEPT !.selfName = r.name] ELSE page)
    /\ UNCHANGED <<goTos, follows, stands, stood, visit, counts>>

\* A frame of the room: p leaves, opens a file or closes it.
Without(at, p) == [q \in DOMAIN at \ {p} |-> at[q]]
PresenceFrame(p) ==
    /\ draws < MaxDraws /\ draws' = draws + 1 /\ p \in DOMAIN page.at
    /\ \E at \in {Without(page.at, p), [page.at EXCEPT ![p] = ~@]} :
         LET e == DrawRoom([page EXCEPT !.at = at])
         IN  page' = IF page.following \in DOMAIN page.at \ DOMAIN at THEN SyncFollow(e, None) ELSE e
    /\ Rests /\ UNCHANGED presses

\* The person types in a document, which ends the follow.
FollowEnds ==
    /\ Presses /\ Rests /\ page.following # None /\ page.focus = Elsewhere
    /\ page' = SyncFollow(page, None)

\* leaveSession(), and another session: the timer of a refusal goes on.
Leaves ==
    /\ Presses /\ visit < MaxVisits /\ visit' = visit + 1
    /\ page' = Fresh(CloseMenu([page EXCEPT !.refusal = None, !.following = None, !.focus = Elsewhere], FALSE))
    /\ UNCHANGED <<promises, stands, stood>>

MenuNext ==
    \/ \E a \in Peers \cup {Self, More} : PressAnchor(a)
    \/ \E p \in Peers \cup {Self} : PickFromList(p)
    \/ \E x \in page.controls \cup {Face(a) : a \in page.strip} \cup {Elsewhere} : Tab(x)
    \/ \E t \in Typings : Type(t)
    \/ BackToEveryone \/ Escape \/ PressOutside \/ StartRename \/ CancelRename \/ CommitRename
    \/ \E p \in Peers : GoTo(p) \/ Follow(p) \/ StopFollow(p)
    \/ FollowEnds \/ Leaves
    \/ \E r \in goTos : GoToLands(r) \/ ShowGoToRefusal(r) \/ GoToWaits(r)
    \/ \E r \in follows : FollowLands(r)
    \/ \E taken \in BOOLEAN : RenameAnswered(taken)
    \/ \E p \in Peers : PresenceFrame(p)
    \/ RefusalEnds \/ TimePasses

MenuSpec == MenuInit /\ [][MenuNext]_menuVars

-----------------------------------------------------------------------------
\* The faces and the dialog are the room's as it stands, however few handlers draw which
\* of them and however long the name field holds the dialog back, and the face that says it is
\* expanded is the one whose dialog is open (main.ts, drawRoom, openMenu, closeMenu).
DialogIsTheRoom ==
    /\ page.strip = Anchors(page)
    /\ page.controls = Controls(page)
    /\ page.expanded = {page.menu.anchor} \cap page.strip

\* A name that is being typed survives whatever is not the person's own act: frames, answers,
\* clocks, a press outside and focus that is elsewhere (main.ts, renameView and the
\* pointerdown listener).  A go-to or a follow that lands closes the dialog, name and all.
TypedNameIsKept ==
    [][/\ page.value # None /\ page.value \notin {Blank, page.renaming}
       /\ presses' = presses /\ visit' = visit
       /\ goTos \subseteq goTos' /\ follows \subseteq follows'
       => page'.value = page.value /\ page'.renaming = page.renaming]_menuVars

\* A frame of the room leaves focus on the control that has it, if it draws that control
\* again (main.ts, drawRoom; room.ts, renderRoom); the toggle of a follow has no name the redraw
\* could find it by.
FocusIsKept ==
    [][/\ draws' # draws /\ page.focus # Follows
       /\ page.focus \in page'.controls \cup {Face(a) : a \in page'.strip}
       => page'.focus = page.focus]_menuVars

\* A refusal stands its whole time, however many others it replaced and whatever the
\* session before left running (main.ts, showGoToRefusal).
RefusalStands ==
    [][page.refusal # None /\ page'.refusal = None => stood = Stand \/ visit' # visit]_menuVars

\* The faces and their dialog are the room's, and what the person types in it, has focus on and
\* was told there is kept over every draw (main.ts, drawRoom, renderMenu, showGoToRefusal).
MenuIsThePersons ==
    []DialogIsTheRoom /\ TypedNameIsKept /\ FocusIsKept /\ RefusalStands
=============================================================================
