------------------------------ MODULE Absence ------------------------------
(***************************************************************************)
(* A host that is away, and what a guest's page says of it.  The session   *)
(* times the absence from the room's states and roster (src/src/engine/    *)
(* peer.ts); the relay reports what changed (relay.ts); the facade turns   *)
(* reports into the adapter's events (src/src/bridge/peer-engine.ts); and  *)
(* the page folds these into the session card and the bar's health         *)
(* (src/src/browser/main.ts and notice.ts).  Meanwhile the guest's own     *)
(* socket drops and is re-dialled.                                         *)
(*                                                                         *)
(* A host has a seat per connection, 1, 2, ...; another guest, the friend, *)
(* holds a document and sends the room's last state on, as peers do when   *)
(* the host cannot.  Time is counted in the session's ticks.               *)
(***************************************************************************)
EXTENDS Naturals, Sequences

CONSTANTS
    Expire,      \* awareness_expire_ms, in ticks: the window of an absence and of a lease
    MaxSeats,    \* bound: connections of the host
    MaxSpoken,   \* bound: states and holds sent
    MaxBlips,    \* bound: drops of the guest, and failed dials
    MaxTime      \* bound: ticks

ASSUME BoundsAssumption ==
    /\ Expire \in Nat /\ MaxSeats \in Nat \ {0}
    /\ MaxSpoken \in Nat /\ MaxBlips \in Nat /\ MaxTime \in Nat

Seats  == 1..MaxSeats
Friend == MaxSeats + 1
Off    == Expire + 1     \* no absence is being timed

VARIABLES
    hostAt,   \* external: the host's seat, 0 while it has none
    seats,    \* external: seats it has had
    company,  \* external: the friend is in the room
    latest,   \* external: the last state published, [edition, seat]
    spoken, blips, time,
    linked,   \* the guest's socket is open and seated
    frames,   \* frames on the way to the session
    due,      \* the tick of this unit of time has not run
    guest,    \* the guest: session, relay, facade and page
    blinked   \* history: the socket dropped since the absence was told

absenceVars == <<hostAt, seats, company, latest, spoken, blips, time, linked, frames, due, guest,
                 blinked>>

-----------------------------------------------------------------------------
\* The session card and the health dot.

Stop(c) == [c EXCEPT !.timers = {}, !.left = 0]
\* A sentence painted over another, whose timer goes on.
PaintOver(c, mode) == [c EXCEPT !.mode = mode]
Paint(c, mode) == [Stop(c) EXCEPT !.mode = mode]
Clear(c) == Paint(c, "none")
Say(c) == [Paint(c, "return") EXCEPT !.timers = @ \cup {"stand"}]
EndDropped(c) == IF c.mode = "dropped" THEN Clear(c) ELSE c
EndAway(c) == IF c.mode \in {"away", "ended"} THEN Clear(c) ELSE c
Away(c, left) ==
    IF left = 0 THEN Paint(c, "ended")
    ELSE [Paint(c, "away") EXCEPT !.left = left, !.timers = @ \cup {"count"}]

Health(c, h) == [c EXCEPT !.health = h]

\* What the page does with a notice.
OnNotice(c, n) ==
    CASE n.kind = "documents"    -> Health(EndDropped(c), "ok")
      [] n.kind = "peers"        -> LET e == EndDropped(c)
                                    IN  Health(IF n.host THEN EndAway(e) ELSE e, "ok")
      [] n.kind = "grace"        -> Away(c, n.left)
      [] n.kind = "hostBack"     -> Health(Say(c), "ok")
      [] n.kind = "reconnecting" -> Health(Paint(c, "dropped"), "reconnecting")

Told(s, n) == [s EXCEPT !.card = OnNotice(@, n)]

-----------------------------------------------------------------------------
\* The session's clock of an absence, and what the facade makes of the relay's reports.

HostSeen(s) == s.named \in s.roster
Since(s, restart) ==
    IF s.named = 0 \/ HostSeen(s) THEN Off ELSE IF restart \/ s.age = Off THEN 0 ELSE s.age
RefreshHostAway(s, restart) == [s EXCEPT !.age = Since(s, restart)]

PeerInfos(s) == [x \in s.roster |-> x = s.named]
Membership(s) == [kind |-> "peers", host |-> HostSeen(s)]
Documents == [kind |-> "documents"]

\* reportHostAway: the edges of the absence, and nothing in between.
HostAway(s) ==
    IF s.grace THEN [kind |-> "hostBack"] ELSE [kind |-> "grace", left |-> Expire - s.age]

\* The page is told of what is not what it was told last, in this order.
Changes(s) ==
    LET m == IF PeerInfos(s) # s.people THEN Told(s, Membership(s)) ELSE s
        o == IF s.holds # s.documents THEN Told(m, Documents) ELSE m
    IN  IF s.grace # (s.age # Off) THEN Told(o, HostAway(s)) ELSE o

Refresh(s) ==
    [Changes(s) EXCEPT !.people = PeerInfos(s), !.documents = s.holds, !.grace = s.age # Off]

\* The relay reports what is not what it last reported.
Reports(s) ==
    IF s.roster # s.lastPeers \/ s.holds # s.lastOpen
    THEN [Refresh(s) EXCEPT !.lastPeers = s.roster, !.lastOpen = s.holds]
    ELSE s

Over(s) == [s EXCEPT !.over = TRUE, !.card = Health(Clear(@), "ok")]

AbsenceInit ==
    /\ hostAt = 1 /\ seats = 1 /\ company \in BOOLEAN /\ latest = [edition |-> 1, seat |-> 1]
    /\ spoken = 0 /\ blips = 0 /\ time = 0
    /\ linked = TRUE /\ frames = <<>> /\ due = FALSE /\ blinked = FALSE
    /\ LET roster == {1} \cup IF company THEN {Friend} ELSE {}
       IN  guest = [roster |-> roster, named |-> 1, issued |-> 1, age |-> Off,
                    holds |-> FALSE, lease |-> 0, lastPeers |-> roster, lastOpen |-> FALSE,
                    people |-> [x \in roster |-> x = 1], documents |-> FALSE, grace |-> FALSE,
                    card |-> [mode |-> "none", left |-> 0, timers |-> {}, health |-> "ok"],
                    over |-> FALSE]

-----------------------------------------------------------------------------
\* The room.

HostSeated == hostAt # 0
Room == (IF HostSeated THEN {hostAt} ELSE {}) \cup (IF company THEN {Friend} ELSE {})
Sends(sent) == frames' = IF linked THEN frames \o sent ELSE frames
LastState == [kind |-> "state", edition |-> latest.edition, seat |-> latest.seat]

HostLeaves ==
    /\ HostSeated
    /\ hostAt' = 0 /\ Sends(<<[kind |-> "left", seat |-> hostAt]>>)
    /\ UNCHANGED <<seats, company, latest, spoken, blips, time, linked, due, guest, blinked>>

HostReturns ==
    /\ ~HostSeated /\ seats < MaxSeats
    /\ hostAt' = seats + 1 /\ seats' = seats + 1
    /\ LET joined == [kind |-> "joined", seat |-> seats + 1]
       IN  Sends(IF company THEN <<joined, LastState>> ELSE <<joined>>)
    /\ UNCHANGED <<company, latest, spoken, blips, time, linked, due, guest, blinked>>

HostPublishes ==
    /\ HostSeated /\ spoken < MaxSpoken /\ spoken' = spoken + 1
    /\ latest' = [edition |-> latest.edition + 1, seat |-> hostAt]
    /\ Sends(<<[kind |-> "state", edition |-> latest.edition + 1, seat |-> hostAt]>>)
    /\ UNCHANGED <<hostAt, seats, company, blips, time, linked, due, guest, blinked>>

FriendHolds ==
    /\ company /\ spoken < MaxSpoken /\ spoken' = spoken + 1
    /\ Sends(<<[kind |-> "holds"]>>)
    /\ UNCHANGED <<hostAt, seats, company, latest, blips, time, linked, due, guest, blinked>>

-----------------------------------------------------------------------------
\* The guest.

\* History: whether the socket dropped since the facade told the page of this absence.
Blinks(s) == blinked' = (blinked /\ guest.grace /\ s.grace)

\* One frame; a state is ordered by its edition, and one that is not above is refused.
ProcessFrame(s, f) ==
    CASE f.kind = "joined" -> [s EXCEPT !.roster = @ \cup {f.seat}]
      [] f.kind = "left"   -> RefreshHostAway([s EXCEPT !.roster = @ \ {f.seat}], FALSE)
      [] f.kind = "holds"  -> Refresh([s EXCEPT !.holds = TRUE, !.lease = Expire])
      [] f.kind = "state"  ->
            IF f.edition <= s.issued THEN s
            ELSE Refresh(RefreshHostAway([s EXCEPT !.named = f.seat, !.issued = f.edition], TRUE))

\* The inbox is processed frame by frame, and what changed is reported when it is empty: also
\* while the socket is down, for a drop leaves it as it is.
DrainInbox ==
    /\ frames # <<>> /\ ~guest.over
    /\ LET s == ProcessFrame(guest, Head(frames))
       IN  guest' = IF Tail(frames) = <<>> THEN Reports(s) ELSE s
    /\ frames' = Tail(frames) /\ Blinks(guest')
    /\ UNCHANGED <<hostAt, seats, company, latest, spoken, blips, time, linked, due>>

\* A tick: leases, the absence and its end, and a report.
Tick ==
    /\ due /\ ~guest.over /\ due' = FALSE
    /\ LET s == RefreshHostAway([guest EXCEPT !.holds = @ /\ guest.lease > 0], FALSE)
       IN  guest' = IF s.age = Expire THEN Over(s) ELSE Reports(s)
    /\ Blinks(guest')
    /\ UNCHANGED <<hostAt, seats, company, latest, spoken, blips, time, linked, frames>>

\* The last frames of a connection may be lost with it.
SocketDrops ==
    /\ linked /\ ~guest.over /\ blips < MaxBlips /\ blips' = blips + 1
    /\ linked' = FALSE
    /\ \E k \in 0..Len(frames) : frames' = SubSeq(frames, 1, k)
    /\ guest' = Told(guest, [kind |-> "reconnecting"])
    /\ blinked' = TRUE
    /\ UNCHANGED <<hostAt, seats, company, latest, spoken, time, due>>

RetryFails ==
    /\ ~linked /\ ~guest.over /\ blips < MaxBlips /\ blips' = blips + 1
    /\ guest' = Told(guest, [kind |-> "reconnecting"])
    /\ blinked' = TRUE
    /\ UNCHANGED <<hostAt, seats, company, latest, spoken, time, linked, frames, due>>

\* A new seat over the same session: the facade's reports are forced; the clock of an absence is
\* looked at by the tick that follows, and the friend sends the state on where the host cannot.
SeatedAgain ==
    /\ ~linked /\ ~guest.over
    /\ linked' = TRUE /\ due' = TRUE
    /\ frames' = frames \o IF company /\ ~HostSeated THEN <<LastState>> ELSE <<>>
    /\ LET s == [guest EXCEPT !.roster = Room]
           t == [Told(Told(s, Documents), Membership(s)) EXCEPT
                    !.people = PeerInfos(s), !.documents = s.holds]
       IN  guest' = IF frames = <<>> THEN Reports(t) ELSE t
    /\ Blinks(guest')
    /\ UNCHANGED <<hostAt, seats, company, latest, spoken, blips, time>>

\* The card's own timers: the countdown's last reading, and a sentence that has stood.
CountdownEnds ==
    /\ "count" \in guest.card.timers /\ guest.card.left = 0
    /\ guest' = [guest EXCEPT !.card = Paint(@, "ended")]
    /\ UNCHANGED <<hostAt, seats, company, latest, spoken, blips, time, linked, frames, due,
                   blinked>>

StandEnds ==
    /\ "stand" \in guest.card.timers
    /\ guest' = [guest EXCEPT !.card = Clear(@)]
    /\ UNCHANGED <<hostAt, seats, company, latest, spoken, blips, time, linked, frames, due,
                   blinked>>

Less(n) == IF n = 0 THEN 0 ELSE n - 1

\* A tick's worth of time passes, when the tick before it has run.
Elapse ==
    /\ ~due /\ ~guest.over /\ time < MaxTime /\ time' = time + 1
    /\ "count" \in guest.card.timers => guest.card.left > 0
    /\ due' = TRUE
    /\ guest' = [guest EXCEPT !.age = IF @ \in {Off, Expire} THEN @ ELSE @ + 1, !.lease = Less(@),
                      !.card.left = Less(@)]
    /\ UNCHANGED <<hostAt, seats, company, latest, spoken, blips, linked, frames, blinked>>

AbsenceNext ==
    \/ HostLeaves \/ HostReturns \/ HostPublishes \/ FriendHolds
    \/ DrainInbox \/ Tick \/ SocketDrops \/ RetryFails \/ SeatedAgain
    \/ CountdownEnds \/ StandEnds \/ Elapse

AbsenceSpec == AbsenceInit /\ [][AbsenceNext]_absenceVars

-----------------------------------------------------------------------------
\* A guest's record, and what each variable is.
Card ==
    [mode : {"none", "away", "ended", "return", "dropped"}, left : Nat,
     timers : SUBSET {"count", "stand"}, health : {"ok", "reconnecting"}]
Guest ==
    [roster : SUBSET (Seats \cup {Friend}), named : Seats, issued : Nat, age : 0..Off,
     holds : BOOLEAN, lease : 0..Expire, lastPeers : SUBSET (Seats \cup {Friend}),
     lastOpen : BOOLEAN, people : UNION {[r -> BOOLEAN] : r \in SUBSET (Seats \cup {Friend})},
     documents : BOOLEAN, grace : BOOLEAN, card : Card, over : BOOLEAN]
Carried ==
    [kind : {"left", "joined"}, seat : Seats]
    \cup [kind : {"state"}, edition : Nat, seat : Seats] \cup [kind : {"holds"}]

AbsenceTypeOK ==
    /\ hostAt \in Seats \cup {0} /\ seats \in Seats /\ company \in BOOLEAN
    /\ latest \in [edition : Nat, seat : Seats]
    /\ spoken \in Nat /\ blips \in Nat /\ time \in Nat
    /\ linked \in BOOLEAN /\ frames \in Seq(Carried) /\ due \in BOOLEAN
    /\ guest \in Guest /\ blinked \in BOOLEAN

Counts == guest.card.mode \in {"away", "ended"}

\* The card counts an absence down only while there is one, says a return only when the host is
\* back, shows a dropped line only with a dropped socket, and never lets a sentence that was
\* there before take an absence's countdown away (notice.ts, wireSessionCard).
CardSaysWhatIs ==
    /\ Counts => guest.grace
    /\ guest.card.mode = "return" => ~guest.grace
    /\ guest.card.mode = "dropped" => ~linked
    /\ guest.grace /\ ~blinked /\ ~guest.over => Counts

\* "A host that is away is the session card's alone, with its countdown" (main.ts, setHealth):
\* when nothing is on its way and the tick has run, an absence that is being timed is shown.
AbsenceIsShown ==
    linked /\ ~due /\ frames = <<>> /\ ~guest.over /\ guest.age # Off => Counts
=============================================================================
