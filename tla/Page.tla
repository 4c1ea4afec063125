-------------------------------- MODULE Page --------------------------------
(***************************************************************************)
(* The page between the card and the session (src/browser/main.ts): the    *)
(* two ways in, joining an invite and hosting a folder, each a chain of    *)
(* awaits that may fail at every one; the one session the page holds; and  *)
(* the ways out of it, by the person, by the room and by a reload.         *)
(*                                                                         *)
(* A way in that was begun is a try, and its session has its number.  A    *)
(* try's own link is its number too.                                       *)
(***************************************************************************)
EXTENDS Naturals, FiniteSets

CONSTANTS
    MaxTries,       \* bound: ways in begun
    MaxReloads      \* bound: reloads of the page

PageAssumption == MaxTries \in Nat \ {0} /\ MaxReloads \in Nat

VARIABLES
    tries,          \* try -> [kind, at]: how far each way in has come
    begun,          \* how many there are
    card,           \* what the card is: see CardType
    settled,        \* joinGate: a join is queued or running
    hosting,        \* a host attempt is in flight
    seat,           \* the try whose binding and engine the page holds, 0 for none
    linkGuard,      \* the opener guard it holds, by its try, 0 for none
    guards,         \* guards registered on the editor's opener service
    engines,        \* engines that were seated and not disconnected
    leave,          \* [asking, closing, disposed]: a host's question, how many leaves
                    \* await a closing, and whether the binding was disposed of for one
    bar,            \* the link in the address bar: a try's, Invite, or 0 for none
    mark,           \* sessionStorage: this tab hosts a room
    calm,           \* never changes: one thing at a time (SubmitJoin, AttemptHost, Unhurried)
    reloads,
    told            \* history: [was, said] of the last reload, a host's tab and its notice,
                    \* and the sessions that were left

vars == <<tries, begun, card, settled, hosting, seat, linkGuard, guards, engines, leave, bar,
          mark, calm, reloads, told>>

Try == 1..MaxTries
Invite == MaxTries + 1      \* the link the tab was opened with
Kinds == {"none", "join", "host"}
Stages == {"none", "queued", "prepare", "dial", "first", "pick", "list", "mint", "over"}
Reads == {"unread", "noAnswer", "server", "notServer"}
CardType ==
    [armed: BOOLEAN, loaded: BOOLEAN,    \* the bundle has run; the page's load event came
     shown: BOOLEAN,                      \* joinPane: the card is in front
     joinOn: BOOLEAN,                     \* the join button is enabled
     intent: {"join", "start"},
     linkIsTheInvite: BOOLEAN,
     picker: BOOLEAN,                     \* this browser has a folder picker
     read: Reads, asking: 0..2,           \* lastServerRead; the reads of /meta begun
     hostOn: BOOLEAN]                     \* the start action is shown

TypeOK ==
    /\ tries \in [Try -> [kind: Kinds, at: Stages]]
    /\ begun \in 0..MaxTries
    /\ card \in CardType
    /\ settled \in BOOLEAN /\ hosting \in BOOLEAN
    /\ seat \in 0..MaxTries /\ linkGuard \in 0..MaxTries
    /\ guards \subseteq Try /\ engines \subseteq Try
    /\ leave \in [asking: BOOLEAN, closing: 0..2, disposed: BOOLEAN]
    /\ bar \in 0..Invite
    /\ mark \in BOOLEAN /\ calm \in BOOLEAN /\ reloads \in 0..MaxReloads
    /\ told \in [was: BOOLEAN, said: BOOLEAN, left: SUBSET Try]

At(t, stage) == tries[t].at = stage
InFlight == {t \in Try : tries[t].at \notin {"none", "over"}}
Hosts(t) == t # 0 /\ tries[t].kind = "host"
Moves(t, stage) == tries' = [tries EXCEPT ![t].at = stage]

---------------------------------------------------------------------------
(* The card.                                                               *)

\* hostAvailability: whether the card may offer to start a room.
Offered(c, read) == c.picker /\ read \in {"server", "noAnswer"}

\* showHosting: one read of the page's own origin on the card.  A guest's card has the
\* quiet line and no button.
ShowHosting(c, read) ==
    [c EXCEPT !.read = read, !.hostOn = c.intent = "start" /\ Offered(c, read)]

ShowsAgain(c) == IF c.read = "unread" THEN c ELSE ShowHosting(c, c.read)

\* A page as it loads: the address bar decides the intent.
FreshCard(link, picker) ==
    [armed |-> FALSE, loaded |-> FALSE, shown |-> TRUE, joinOn |-> TRUE,
     intent |-> IF link THEN "join" ELSE "start", linkIsTheInvite |-> link,
     picker |-> picker, read |-> "unread", asking |-> 0, hostOn |-> FALSE]

\* offerHosting: the origin is read, and read once more when it did not answer; the second
\* answer is not put on a card whose action is being answered.
FirstRead ==
    /\ card.armed /\ card.asking = 0
    /\ \E read \in IF card.picker THEN Reads \ {"unread"} ELSE {"notServer"} :
          card' = [ShowHosting(card, read) EXCEPT !.asking = IF read = "noAnswer" THEN 1 ELSE 2]
    /\ UNCHANGED <<tries, begun, settled, hosting, seat, linkGuard, guards, engines, leave, bar,
                   mark, calm, reloads, told>>

RereadAlways(read) == read # "noAnswer"
Reread(read) == read # "noAnswer" /\ ~hosting

SecondRead ==
    /\ card.asking = 1
    /\ \E read \in Reads \ {"unread"} :
          card' = [IF Reread(read) THEN ShowHosting(card, read) ELSE card EXCEPT !.asking = 2]
    /\ UNCHANGED <<tries, begun, settled, hosting, seat, linkGuard, guards, engines, leave, bar,
                   mark, calm, reloads, told>>

\* swapCardToStart: a guest's card becomes the start card.  The line that does it is shown
\* where a room may be started.
SwapCardToStart ==
    /\ card.armed /\ card.shown /\ card.intent = "join"
    /\ card.read # "unread" /\ Offered(card, card.read)
    /\ card' = ShowsAgain([card EXCEPT !.intent = "start"])
    /\ UNCHANGED <<tries, begun, settled, hosting, seat, linkGuard, guards, engines, leave, bar,
                   mark, calm, reloads, told>>

---------------------------------------------------------------------------
(* The join gate, and the ways in.                                         *)

\* attemptJoin: a refused name or invite hands the card back; a join that is queued or
\* running makes this one a duplicate; otherwise it starts, or waits for the load.
AttemptJoin(c) ==
    \/ /\ card' = [c EXCEPT !.joinOn = TRUE]
       /\ UNCHANGED <<tries, begun, settled>>
    \/ /\ settled
       /\ card' = c
       /\ UNCHANGED <<tries, begun, settled>>
    \/ /\ ~settled /\ begun < MaxTries
       /\ settled' = TRUE
       /\ begun' = begun + 1
       /\ tries' = [tries EXCEPT ![begun + 1] =
                      [kind |-> "join", at |-> IF c.loaded THEN "prepare" ELSE "queued"]]
       /\ card' = [c EXCEPT !.joinOn = FALSE]

\* The bundle runs: a submit the shell held while it was on its way is replayed.
Arm ==
    /\ ~card.armed
    /\ \/ card' = [card EXCEPT !.armed = TRUE] /\ UNCHANGED <<tries, begun, settled>>
       \/ AttemptJoin([card EXCEPT !.armed = TRUE, !.joinOn = FALSE])
    /\ UNCHANGED <<hosting, seat, linkGuard, guards, engines, leave, bar, mark, calm, reloads, told>>

\* A submit, by the button or by Enter; runPrimary sends Enter in the name here where no
\* start action is shown.
SubmitJoin ==
    /\ card.armed /\ card.shown
    /\ calm => ~hosting
    /\ AttemptJoin(card)
    /\ UNCHANGED <<hosting, seat, linkGuard, guards, engines, leave, bar, mark, calm, reloads, told>>

\* The load event: the queued join begins.
Load ==
    /\ card.armed /\ ~card.loaded
    /\ card' = [card EXCEPT !.loaded = TRUE]
    /\ tries' = [t \in Try |-> IF At(t, "queued") THEN [tries[t] EXCEPT !.at = "prepare"] ELSE tries[t]]
    /\ UNCHANGED <<begun, settled, hosting, seat, linkGuard, guards, engines, leave, bar, mark, calm,
                   reloads, told>>

\* attemptHost: single-flight by a flag of its own, and the picker at once.
AttemptHost ==
    /\ card.shown /\ card.hostOn /\ ~hosting
    /\ calm => ~settled
    /\ begun < MaxTries
    /\ hosting' = TRUE
    /\ begun' = begun + 1
    /\ tries' = [tries EXCEPT ![begun + 1] = [kind |-> "host", at |-> "pick"]]
    /\ UNCHANGED <<card, settled, seat, linkGuard, guards, engines, leave, bar, mark, calm, reloads,
                   told>>

\* The picker answers with a folder; a prompt dismissed or a folder refused is FailedHost.
Picked(t) ==
    /\ At(t, "pick") /\ Moves(t, "prepare")
    /\ UNCHANGED <<begun, card, settled, hosting, seat, linkGuard, guards, engines, leave, bar, mark,
                   calm, reloads, told>>

\* prepareEditor: the editor stack is there, and the guard of the opener is registered.
Prepared(t) ==
    /\ At(t, "prepare")
    /\ Moves(t, IF Hosts(t) THEN "list" ELSE "dial")
    /\ guards' = guards \cup {t}
    /\ linkGuard' = t
    /\ UNCHANGED <<begun, card, settled, hosting, seat, engines, leave, bar, mark, calm, reloads, told>>

\* folder.list(): the listing the room is minted with.
Listed(t) ==
    /\ At(t, "list") /\ Moves(t, "mint")
    /\ UNCHANGED <<begun, card, settled, hosting, seat, linkGuard, guards, engines, leave, bar, mark,
                   calm, reloads, told>>

\* runJoin's catch: the guard goes, the gate opens and the card is handed back.
HandedBack(c) == [c EXCEPT !.joinOn = TRUE]

FailedJoin(t) ==
    /\ tries[t].kind = "join" /\ tries[t].at \in {"prepare", "dial"}
    /\ Moves(t, "over")
    /\ guards' = guards \ {linkGuard}
    /\ linkGuard' = 0
    /\ settled' = FALSE
    /\ card' = HandedBack(card)
    /\ UNCHANGED <<begun, hosting, seat, engines, leave, bar, mark, calm, reloads, told>>

\* attemptHost's catch and finally: the button again, and nothing of what was prepared.
FailedHost(t) ==
    /\ tries[t].kind = "host" /\ tries[t].at \in {"pick", "prepare", "list", "mint"}
    /\ Moves(t, "over")
    /\ hosting' = FALSE
    /\ UNCHANGED <<begun, card, settled, seat, linkGuard, guards, engines, leave, bar, mark, calm,
                   reloads, told>>

---------------------------------------------------------------------------
(* The session.                                                            *)

\* seatSession, up to its first open.
SeatSession(t) ==
    /\ seat' = t
    /\ engines' = engines \cup {t}
    /\ card' = [card EXCEPT !.shown = FALSE]

\* What a join does once its first document is open: persistJoinUrl of the link the page
\* holds by then, which is none when the session was left meanwhile.  Another server's link
\* is refused by the browser.
PersistsLinkOf(t) == bar' \in {bar} \cup ({t} \ {0})

\* A window has settled what it awaits of one session before another room answers.
Unhurried == calm => leave.closing = 0 /\ \A t \in Try : ~At(t, "first")

\* joinRoom resolves.  A room that names a document has it opened first, and the rest of
\* join() waits for that; one that names none is seated in one turn.
JoinSeated(t) ==
    /\ At(t, "dial") /\ Unhurried
    /\ SeatSession(t)
    /\ \/ Moves(t, "first") /\ UNCHANGED bar
       \/ Moves(t, "over") /\ PersistsLinkOf(t)
    /\ UNCHANGED <<begun, settled, hosting, linkGuard, guards, leave, mark, calm, reloads, told>>

FirstOpened(t) ==
    /\ At(t, "first")
    /\ Moves(t, "over")
    /\ PersistsLinkOf(seat)
    /\ UNCHANGED <<begun, card, settled, hosting, seat, linkGuard, guards, engines, leave, mark, calm,
                   reloads, told>>

\* hostRoom resolves: a room just minted has no document, so host() runs to its end.
HostSeated(t) ==
    /\ At(t, "mint") /\ Unhurried
    /\ SeatSession(t)
    /\ Moves(t, "over")
    /\ mark' = TRUE
    /\ hosting' = FALSE
    /\ UNCHANGED <<begun, settled, linkGuard, guards, leave, bar, calm, reloads, told>>

KeepsTheEngine ==
    /\ guards' = guards \ {linkGuard}
    /\ UNCHANGED engines

\* dropSession: the guard, the binding and the engine the page holds.
DropSession ==
    /\ guards' = guards \ {linkGuard}
    /\ engines' = engines \ {seat}

\* showStartAgain, and the offer as it was last read.
StartAgain(c) ==
    ShowsAgain([HandedBack(c) EXCEPT !.intent = "start", !.shown = TRUE, !.linkIsTheInvite = FALSE])

ForgetsTheLink == bar' = 0 /\ UNCHANGED mark
\* forgetJoinUrl and clearHostingMark.
ForgetsTheRoom == bar' = 0 /\ mark' = FALSE

\* leaveSession, with the closings still awaited after it.
LeaveSession(closing) ==
    IF seat = 0
    THEN /\ leave' = [leave EXCEPT !.closing = closing]
         /\ UNCHANGED <<guards, engines, linkGuard, seat, bar, mark, card, settled, told>>
    ELSE /\ DropSession
         /\ linkGuard' = 0
         /\ seat' = 0
         /\ ForgetsTheRoom
         /\ leave' = [asking |-> FALSE, closing |-> closing, disposed |-> FALSE]
         /\ card' = StartAgain(card)
         /\ settled' = FALSE
         /\ told' = [told EXCEPT !.left = @ \cup {seat}]

\* The leave control (leave.ts): a guest leaves at once, a host is asked.
PressLeave ==
    /\ seat # 0 /\ ~card.shown
    /\ IF leave.asking \/ Hosts(seat)
       THEN /\ leave' = [leave EXCEPT !.asking = ~@]
            /\ UNCHANGED <<guards, engines, linkGuard, seat, bar, mark, card, settled, told>>
       ELSE LeaveSession(leave.closing)
    /\ UNCHANGED <<tries, begun, hosting, calm, reloads>>

\* Cancel, Escape, and a press anywhere else.
CancelLeave ==
    /\ leave.asking
    /\ leave' = [leave EXCEPT !.asking = FALSE]
    /\ UNCHANGED <<tries, begun, card, settled, hosting, seat, linkGuard, guards, engines, bar, mark,
                   calm, reloads, told>>

\* leaveRoom of a host: the binding is disposed of, and the closing awaited for a second.
\* Nothing keeps a second press from a second one.
LeaveAnyway ==
    /\ leave.asking /\ Hosts(seat) /\ leave.closing < 2
    /\ leave' = [asking |-> FALSE, closing |-> leave.closing + 1, disposed |-> TRUE]
    /\ UNCHANGED <<tries, begun, card, settled, hosting, seat, linkGuard, guards, engines, bar, mark,
                   calm, reloads, told>>

\* A closing is out, or its second is over: whatever session is bound by then is left.
ClosingDone ==
    /\ leave.closing > 0
    /\ LeaveSession(leave.closing - 1)
    /\ UNCHANGED <<tries, begun, hosting, calm, reloads>>

\* The room is gone, or the reconnection gave up: a notice of the binding that is bound, and
\* not disposed of.
RoomGone ==
    /\ seat # 0 /\ ~leave.disposed
    /\ LeaveSession(leave.closing)
    /\ UNCHANGED <<tries, begun, hosting, calm, reloads>>

\* A reload: everything of the page goes but the address bar and the tab's storage, and the
\* next load takes the mark (takeHostingNotice).
Reload ==
    /\ reloads < MaxReloads
    /\ reloads' = reloads + 1
    /\ told' = [told EXCEPT !.was = Hosts(seat), !.said = mark]
    /\ mark' = FALSE
    /\ card' = FreshCard(bar # 0, card.picker)
    /\ tries' = [t \in Try |-> IF t \in InFlight THEN [tries[t] EXCEPT !.at = "over"] ELSE tries[t]]
    /\ settled' = FALSE /\ hosting' = FALSE
    /\ seat' = 0 /\ linkGuard' = 0 /\ guards' = {} /\ engines' = {}
    /\ leave' = [asking |-> FALSE, closing |-> 0, disposed |-> FALSE]
    /\ UNCHANGED <<begun, bar, calm>>

---------------------------------------------------------------------------

Init ==
    /\ tries = [t \in Try |-> [kind |-> "none", at |-> "none"]]
    /\ begun = 0
    /\ bar \in {0, Invite}
    /\ \E picker \in BOOLEAN : card = FreshCard(bar = Invite, picker)
    /\ settled = FALSE /\ hosting = FALSE
    /\ seat = 0 /\ linkGuard = 0 /\ guards = {} /\ engines = {}
    /\ leave = [asking |-> FALSE, closing |-> 0, disposed |-> FALSE]
    /\ mark = FALSE /\ calm \in BOOLEAN /\ reloads = 0
    /\ told = [was |-> FALSE, said |-> FALSE, left |-> {}]

Next ==
    \/ FirstRead \/ SecondRead \/ SwapCardToStart
    \/ Arm \/ SubmitJoin \/ Load \/ AttemptHost
    \/ \E t \in Try :
          \/ Picked(t) \/ Prepared(t) \/ Listed(t) \/ FailedJoin(t) \/ FailedHost(t)
          \/ JoinSeated(t) \/ FirstOpened(t) \/ HostSeated(t)
    \/ PressLeave \/ CancelLeave \/ LeaveAnyway \/ ClosingDone \/ RoomGone
    \/ Reload

Spec == Init /\ [][Next]_vars

---------------------------------------------------------------------------
(* Properties.                                                             *)

\* A card with no session and no attempt behind it can be used: it is in front, its join is
\* enabled, and neither gate holds a press back (main.ts, runJoin's catch, attemptHost's
\* finally and leaveSession).  And while a start is being answered its offer stands
\* (offerHosting: nothing takes the offer back once a click is being answered).
CardIsLive ==
    /\ seat = 0 /\ InFlight = {} =>
          card.shown /\ ~hosting /\ (card.armed => card.joinOn /\ ~settled)
    /\ hosting => card.hostOn

\* What the tab keeps over a reload is so.  A reload is told of a hosted room exactly where
\* one was (markHosting, clearHostingMark); the address bar has neither the link of a room this
\* window left (forgetJoinUrl) nor that of one it hosts (host); and no engine outlives its
\* session or is overwritten by the next (leaveSession, dropSession).  Where both ways in are
\* taken at once, none of it is so.
TabRemembers ==
    calm =>
        /\ told.was = told.said
        /\ bar \notin told.left
        /\ bar \in Try => ~Hosts(bar)
        /\ engines \subseteq {seat}

\* ``The registration lives on the editor's opener service until it is disposed, so it is
\* held here and dropped with the session -- never left behind for the next join to
\* overwrite'' (prepareEditor).
NoGuardLeftBehind == guards \subseteq {linkGuard}
=============================================================================
