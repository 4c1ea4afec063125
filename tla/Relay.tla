------------------------------- MODULE Relay -------------------------------
(***************************************************************************)
(* One connection of a guest over its drops and re-dials                   *)
(* (src/src/engine/relay.ts, RelaySession): the dial and its handshake,    *)
(* the bounded retry, the re-seat of the session the relay holds, the      *)
(* inbox in front of that session and the frames it hands to the socket.   *)
(*                                                                         *)
(* A dial is numbered by generation; the number is also the seat the room  *)
(* gives it and the session key minted for it.  Other people join and      *)
(* leave the room at any time, each under a seat of its own.  The session  *)
(* behind the relay (peer.ts) is here only what the relay can disturb: its *)
(* key, whether it is detached or over, its roster and what it has queued. *)
(***************************************************************************)
EXTENDS Naturals, FiniteSets, Sequences

CONSTANTS
    People,       \* the other seats of the room
    RetryBudget,  \* attempts without a seat before the relay gives up
    MaxInbox,     \* MAX_INBOX_FRAMES
    MaxDrops,     \* bound: drops of a seated connection
    MaxNews,      \* bound: frames the room sends besides joins and leaves
    Prompt,       \* which timings there are: TRUE, that a re-seat and the frames
                  \* of a connection are done with before the next event of the socket
    Closes        \* which transports there are: TRUE, one that takes close(1008)

ASSUME RelayAssumption ==
    /\ IsFiniteSet(People)
    /\ RetryBudget \in Nat /\ MaxInbox \in Nat \ {0}
    /\ MaxDrops \in Nat /\ MaxNews \in Nat
    /\ Prompt \subseteq BOOLEAN /\ Closes \subseteq BOOLEAN

VARIABLES
    canReconnect, \* a guest whose reconnect policy is enabled; fixed
    prompt,       \* the timing of this behaviour; fixed
    closes,       \* its transport takes close(1008); fixed
    dial,         \* "idle", "opening", or "greeting": the hello awaits its answer
    generation,   \* dials so far
    socket,       \* the dial whose socket this relay holds, or 0
    open,         \* the dials whose connection the server still has
    retryArmed,   \* the backoff timer is set
    attempts,     \* retries since the last seat
    settling,     \* the seat create() or reseat() is awaited for, or 0
    snapshot,     \* the people the handshake named
    key,          \* the session's key, or 0 before there is a session
    detached,     \* ... and its detached flag
    over,         \* ... and whether it has set its own ending
    roster,       \* ... and the seats it believes present
    outbound,     \* ... and the keys of the frames it has queued
    peerList,     \* the relay's own list of people
    inbox,        \* frames received and not yet processed
    ended,        \* the relay has set its ending
    destroyed,    \* disconnect() was called
    told,         \* the last of the connection's events a listener heard
    members,      \* the room: each person has not come, is in, or has left
    drops, news,  \* counts for the bounds
    tries,        \* history: dials since the last seat
    sent          \* history: <<connection, key of a frame put on it>>

wire    == <<dial, generation, socket, open, retryArmed, attempts, tries>>
session == <<key, detached, over, roster, outbound>>
queue   == <<settling, snapshot, peerList, inbox>>
said    == <<ended, destroyed, told>>
given   == <<canReconnect, prompt, closes>>
world   == <<given, members, drops, news>>
vars    == <<wire, session, queue, said, world, sent>>

Present == {p \in People : members[p] = "in"}
Seated  == socket # 0 /\ socket \in open /\ dial = "idle"

Init ==
    /\ canReconnect \in BOOLEAN /\ prompt \in Prompt /\ closes \in Closes
    /\ dial = "opening" /\ generation = 1 /\ tries = 1
    /\ socket = 0 /\ open = {} /\ retryArmed = FALSE /\ attempts = 0
    /\ settling = 0 /\ snapshot = {} /\ peerList = {} /\ inbox = <<>>
    /\ key = 0 /\ detached = FALSE /\ over = FALSE /\ roster = {} /\ outbound = <<>>
    /\ ended = FALSE /\ destroyed = FALSE /\ told = "nothing"
    /\ members = [p \in People |-> "new"] /\ drops = 0 /\ news = 0
    /\ sent = {}

-----------------------------------------------------------------------------
\* What the handlers share.

\* endWith(): the first ending stands, and the retry timer goes with it.
EndWith ==
    /\ ended' = TRUE
    /\ told' = IF ended THEN told ELSE "ended"
    /\ retryArmed' = FALSE

\* scheduleReconnect(): nothing after an ending; an ending past the budget.
RetriesOnceMore ==
    IF ended THEN UNCHANGED <<attempts, retryArmed, ended, told>>
    ELSE IF attempts > RetryBudget THEN EndWith /\ UNCHANGED attempts
    ELSE /\ attempts' = attempts + 1 /\ retryArmed' = TRUE
         /\ told' = "reconnecting" /\ UNCHANGED ended
RetriesUntold ==
    IF ended THEN UNCHANGED <<attempts, retryArmed, ended, told>>
    ELSE IF attempts >= RetryBudget THEN EndWith /\ UNCHANGED attempts
    ELSE attempts' = attempts + 1 /\ retryArmed' = TRUE /\ UNCHANGED <<told, ended>>
ScheduleReconnect ==
    IF ended THEN UNCHANGED <<attempts, retryArmed, ended, told>>
    ELSE IF attempts >= RetryBudget THEN EndWith /\ UNCHANGED attempts
    ELSE /\ attempts' = attempts + 1 /\ retryArmed' = TRUE
         /\ told' = "reconnecting" /\ UNCHANGED ended

\* enqueue(): past the bound what is queued goes and the connection is dropped.
Enqueue(f) ==
    IF Len(inbox) >= MaxInbox
    THEN /\ inbox' = <<>>
         /\ open' = IF closes THEN open \ {socket} ELSE open
    ELSE inbox' = Append(inbox, f) /\ UNCHANGED open

-----------------------------------------------------------------------------
\* Dialling.

\* openSocket() resolves: the socket is the relay's and the hello goes out.
Opened ==
    /\ ~destroyed /\ dial = "opening"
    /\ dial' = "greeting" /\ socket' = generation /\ open' = open \cup {generation}
    /\ UNCHANGED <<generation, retryArmed, attempts, tries, session, queue, said, world,
                   sent>>

\* A dial that is refused, closed, or past its deadline: its socket is closed.  The
\* first one rejects join(); a retry's refusal is terminal or it is tried again.
Abandoned(g) == open \ {g}

\* A refusal a retry cannot change is a stop; any other failure is tried again.
SwallowsTheFailure ==
    \/ EndWith /\ UNCHANGED attempts
    \/ UNCHANGED <<attempts, retryArmed, ended, told>>
RetryFailed ==
    \/ EndWith /\ UNCHANGED attempts
    \/ ScheduleReconnect

DialFails ==
    /\ ~destroyed /\ dial # "idle"
    /\ dial' = "idle" /\ socket' = 0 /\ open' = Abandoned(generation)
    /\ IF key = 0
       THEN destroyed' = TRUE /\ UNCHANGED <<attempts, retryArmed, ended, told>>
       ELSE /\ UNCHANGED destroyed
            /\ RetryFailed
    /\ UNCHANGED <<generation, tries, session, queue, world, sent>>

\* room.joined: the handshake is over and the session is to be seated.  A session
\* that ended while the dial was out is left as it is.
Answered ==
    /\ ~destroyed /\ dial = "greeting"
    /\ prompt => inbox = <<>> /\ (over => ended)
    /\ dial' = "idle" /\ peerList' = Present
    /\ IF ended
       THEN UNCHANGED <<settling, snapshot, attempts, tries>>
       ELSE /\ settling' = generation /\ snapshot' = Present
            /\ attempts' = 0 /\ tries' = 0
    /\ UNCHANGED <<generation, socket, open, retryArmed, inbox, session, said, world, sent>>

\* create() or reseat() completes: a key is minted for the seat.  A mint that fails
\* leaves the session as it was, and the listener hears the same.
Seat ==
    /\ key' = settling /\ detached' = FALSE /\ over' = FALSE
    /\ roster' = snapshot

Settle ==
    /\ ~destroyed /\ settling # 0
    /\ \/ Seat
       \/ key # 0 /\ UNCHANGED <<key, detached, over, roster>>
    /\ settling' = 0 /\ told' = "seated"
    /\ UNCHANGED <<outbound, snapshot, peerList, inbox, ended, destroyed, wire, world, sent>>

\* onClose(): the session is detached, with what it had queued, and a retry is
\* scheduled.  Without a retry to make, and before a session, the drop is the end.
KeepsTheQueue == detached' = TRUE /\ UNCHANGED outbound
Detach == detached' = TRUE /\ outbound' = <<>>

Drop ==
    /\ ~destroyed /\ socket # 0 /\ dial = "idle"
    /\ prompt => settling = 0 \/ key = 0
    /\ socket \in open => drops < MaxDrops
    /\ open' = open \ {socket}
    /\ drops' = IF socket \in open THEN drops + 1 ELSE drops
    /\ IF ended
       THEN UNCHANGED <<socket, detached, outbound, attempts, retryArmed, ended, told>>
       ELSE /\ socket' = 0
            /\ IF canReconnect /\ key # 0
               THEN Detach /\ ScheduleReconnect
               ELSE EndWith /\ UNCHANGED <<detached, outbound, attempts>>
    /\ UNCHANGED <<dial, generation, tries, key, over, roster, queue, destroyed,
                   given, members, news, sent>>

\* retry(): the timer fires.  A mint is over before the shortest backoff is.
RetryFires ==
    /\ ~destroyed /\ ~ended /\ retryArmed /\ dial = "idle" /\ settling = 0
    /\ retryArmed' = FALSE
    /\ dial' = "opening" /\ generation' = generation + 1 /\ tries' = tries + 1
    /\ UNCHANGED <<socket, open, attempts, session, queue, said, world, sent>>

\* disconnect(): a dial in flight is superseded and its socket closed when it lands.
Disconnect ==
    /\ ~destroyed /\ destroyed' = TRUE
    /\ retryArmed' = FALSE /\ dial' = "idle" /\ socket' = 0 /\ open' = {}
    /\ UNCHANGED <<generation, attempts, tries, session, queue, ended, told, world, sent>>

-----------------------------------------------------------------------------
\* Frames.

\* Somebody joins or leaves; a seated connection is sent the event.
SomebodyMoves(p) ==
    /\ ~destroyed /\ members[p] # "out"
    /\ members' = [members EXCEPT ![p] = IF @ = "new" THEN "in" ELSE "out"]
    /\ IF Seated
       THEN Enqueue([kind |-> IF members[p] = "new" THEN "joined" ELSE "left", who |-> p])
       ELSE UNCHANGED <<inbox, open>>
    /\ UNCHANGED <<dial, generation, socket, retryArmed, attempts, tries, session, settling,
                   snapshot, peerList, said, given, drops, news, sent>>

\* room.gone, or a frame with the host's closing.
RoomSends(kind) ==
    /\ ~destroyed /\ Seated /\ news < MaxNews
    /\ news' = news + 1
    /\ Enqueue([kind |-> kind])
    /\ UNCHANGED <<dial, generation, socket, retryArmed, attempts, tries, session, settling,
                   snapshot, peerList, said, given, members, drops, sent>>

\* drain() and process(): one frame at a time.  What the session is handed waits its
\* turn behind a re-seat; the relay's own room.gone does not.
Process ==
    /\ ~destroyed /\ key # 0 /\ inbox # <<>>
    /\ inbox' = Tail(inbox)
    /\ LET f == Head(inbox) IN
       /\ settling = 0 \/ f.kind = "gone"
       /\ \/ /\ f.kind = "joined"
             /\ peerList' = peerList \cup {f.who} /\ roster' = roster \cup {f.who}
             /\ UNCHANGED <<over, ended, told, retryArmed>>
          \/ /\ f.kind = "left"
             /\ peerList' = peerList \ {f.who} /\ roster' = roster \ {f.who}
             /\ UNCHANGED <<over, ended, told, retryArmed>>
          \/ /\ f.kind = "closing"
             /\ over' = TRUE
             /\ UNCHANGED <<peerList, roster, ended, told, retryArmed>>
          \/ /\ f.kind = "gone"
             /\ EndWith
             /\ UNCHANGED <<peerList, roster, over>>
    /\ UNCHANGED <<dial, generation, socket, open, attempts, tries, key, detached, outbound,
                   settling, snapshot, destroyed, world, sent>>

\* report(): an ending of the session's own is the relay's.
Report ==
    /\ ~destroyed /\ over /\ ~ended
    /\ EndWith
    /\ UNCHANGED <<dial, generation, socket, open, attempts, tries, session, queue,
                   destroyed, world, sent>>

\* A tick of pump() ends the session on a clock of its own, and is reported with it.
ClockEnds ==
    /\ ~destroyed /\ key # 0 /\ ~over /\ ~ended
    /\ over' = TRUE /\ EndWith
    /\ UNCHANGED <<dial, generation, socket, open, attempts, tries, key, detached, roster,
                   outbound, queue, destroyed, world, sent>>

\* The session seals a frame under its key: an announcement at the least.
Publish ==
    /\ ~destroyed /\ key # 0 /\ settling = 0
    /\ ~detached /\ ~over /\ ~ended
    /\ outbound = <<>>
    /\ outbound' = <<key>>
    /\ UNCHANGED <<wire, key, detached, over, roster, queue, said, world, sent>>

\* drainOutbound(): everything queued goes to the socket, if it is still open.
DrainOutbound ==
    /\ ~destroyed /\ key # 0 /\ socket # 0 /\ outbound # <<>>
    /\ outbound' = <<>>
    /\ sent' = IF socket \in open THEN sent \cup {<<socket, Head(outbound)>>} ELSE sent
    /\ UNCHANGED <<wire, key, detached, over, roster, queue, said, world>>

Next ==
    \/ Opened \/ DialFails \/ Answered \/ Settle \/ Drop \/ RetryFires \/ Disconnect
    \/ \E p \in People : SomebodyMoves(p)
    \/ \E kind \in {"gone", "closing"} : RoomSends(kind)
    \/ Process \/ Report \/ ClockEnds \/ Publish \/ DrainOutbound

\* The timers of the relay fire, its awaits resolve, and a dial is answered, refused
\* or cut off by its deadline.
Fairness ==
    /\ WF_vars(RetryFires) /\ WF_vars(Settle) /\ WF_vars(Process) /\ WF_vars(Report)
    /\ WF_vars(Opened \/ DialFails)

Spec == Init /\ [][Next]_vars /\ Fairness

-----------------------------------------------------------------------------
Frames == [kind : {"joined", "left"}, who : People] \cup [kind : {"gone", "closing"}]

WireOK ==
    /\ dial \in {"idle", "opening", "greeting"}
    /\ generation \in Nat \ {0} /\ socket \in 0..generation /\ open \subseteq 1..generation
    /\ retryArmed \in BOOLEAN /\ attempts \in Nat /\ tries \in Nat
SessionOK ==
    /\ key \in 0..generation /\ detached \in BOOLEAN /\ over \in BOOLEAN
    /\ roster \subseteq People /\ outbound \in Seq(1..generation)
QueueOK ==
    /\ settling \in 0..generation /\ snapshot \subseteq People /\ peerList \subseteq People
    /\ inbox \in Seq(Frames) /\ Len(inbox) <= MaxInbox
SaidOK ==
    /\ ended \in BOOLEAN /\ destroyed \in BOOLEAN
    /\ told \in {"nothing", "seated", "reconnecting", "ended"}
WorldOK ==
    /\ canReconnect \in BOOLEAN /\ prompt \in BOOLEAN /\ closes \in BOOLEAN
    /\ members \in [People -> {"new", "in", "out"}]
    /\ drops \in 0..MaxDrops /\ news \in 0..MaxNews
SentOK == sent \subseteq (1..generation) \X (1..generation)

TypeOK == WireOK /\ SessionOK /\ QueueOK /\ SaidOK /\ WorldOK /\ SentOK

\* A frame goes out only on the connection its key was seated on: detach() "drops
\* what the dead socket never sent ... because that socket would be handed frames
\* sealed under the key the room is about to drop" (relay.ts:1093).
NoFrameUnderADeadKey == \A f \in sent : f[1] = f[2]

\* With every frame of its connection processed, a seated session believes present
\* exactly the people the room has, and the relay's list agrees: "the roster the
\* handshake seated it among" and what has been said since.
QuietRosterAgrees ==
    Seated /\ ~destroyed /\ key = socket /\ settling = 0 /\ inbox = <<>>
        => roster = Present /\ peerList = Present

\* Both hold as long as the socket leaves a re-seat and the frames of one connection the
\* time to end, and an overfull inbox drops its connection: over drops and re-dials the
\* session's key is its connection's, and its roster the room's.  And what ends the
\* reconnecting line is a seat: the person is not told the connection is back while there
\* is none ("the line stands for as long as that lasts", browser/main.ts:2660).
PromptSessionAgrees ==
    prompt =>
        /\ NoFrameUnderADeadKey
        /\ closes => QuietRosterAgrees
        /\ told = "seated" => ended \/ destroyed \/ socket # 0

\* A retry is bounded, and so is what it leaves behind: between two seats the relay dials
\* no more often than its budget, however the dials fail, and the server holds one
\* connection of this client.
DialsAreBounded ==
    /\ key # 0 => tries <= RetryBudget
    /\ Cardinality(open) <= 1

\* The reconnecting state is left: a drop ends in a seat, in an ending, or with the
\* person leaving ("A `seated` follows when it lands, and an `ended` when it gives
\* up", relay.ts:89).
DropIsResolved == told = "reconnecting" ~> told # "reconnecting" \/ destroyed
=============================================================================
