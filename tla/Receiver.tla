------------------------------ MODULE Receiver ------------------------------
(***************************************************************************)
(* What a peer that is not the host makes of the frames that reach it      *)
(* (src/src/engine/peer.ts, PeerSession.deliver, tick, seatJoined,         *)
(* seatLeft, reseat), over the reader of sealed.ts.                        *)
(*                                                                         *)
(* The relay carries frames in any order, more than once or not at all;    *)
(* only a seat's own frames stop when it leaves.  A delivery awaits its    *)
(* signatures, so it begins and ends in two steps of the serial queue.     *)
(* Ages stop at Expire.  Its own edits, requests and announcements are     *)
(* Peer's.                                                                 *)
(***************************************************************************)
EXTENDS Reader

CONSTANTS
    Seats,      \* the other seats
    SeatOf,     \* the seat each key was minted at
    Expire,     \* awareness_expire_ms
    MaxMoves    \* bound: joins, leaves and re-seats

Off  == Expire + 1        \* no clock runs
Ages == 0..Off
NoFrame == 0

ASSUME ReceiverAssumption == Expire \in Nat /\ MaxMoves \in Nat /\ NoFrame \notin DOMAIN Wire

VARIABLES
    reader,
    stateIssued,   \* the edition of the applied state, 0 before one
    heldState,     \* heldStateFrame: what a joiner is sent while the host is away, by its place in Wire
    leases,        \* the age of each id's lease
    roster, departed,
    hostAway,      \* how long the host's seat has been missed
    age,           \* how long the session has run
    over,          \* why it ended
    reading,       \* the deliveries under way, one at most: [frame, candidates, issued, ended]
    outbound,      \* the frame of another it put on the wire again, if any
    moves,
    accepted       \* history: how often each frame was applied, up to twice

session == <<stateIssued, heldState, leases, roster, departed, hostAway, age, over>>
vars    == <<reader, session, reading, outbound, moves, accepted>>

Init ==
    /\ reader = NewReader /\ stateIssued = 0 /\ heldState = NoFrame
    /\ leases = [i \in Ids |-> Off] /\ roster = Seats /\ departed = {}
    /\ hostAway = Off /\ age = 0 /\ over = "no" /\ reading = {} /\ outbound = NoFrame
    /\ moves = 0 /\ accepted = [n \in DOMAIN Wire |-> 0]

-----------------------------------------------------------------------------
\* What the handlers ask and share.

StateHeld == stateIssued # 0
Overlaps  == Cardinality(reading) < 2
Idle      == reading = {}

\* hostSeat(): the label of the first host entry in the order of the keys.
Hosts(r)    == {k \in DOMAIN r.committed : r.committed[k].role = "host"}
HostSeat(r) == r.committed[CHOOSE k \in Hosts(r) : \A j \in Hosts(r) : k <= j].seat

\* refreshHostAway().
Absent(r, seats) == Hosts(r) # {} /\ HostSeat(r) \notin seats
RefreshHostAway(r, seats, restart) ==
    hostAway' = IF ~Absent(r, seats) THEN Off
                ELSE IF restart \/ hostAway = Off THEN 0 ELSE hostAway

\* dropDepartedHolds(): the ids of the committed keys that label a seat that has left.
Departed(r, gone) == {IdOf[k] : k \in {j \in DOMAIN r.committed : r.committed[j].seat \in gone}}
Without(r, ids)   == [r EXCEPT !.holds = [i \in Ids |-> IF i \in ids THEN {} ELSE r.holds[i]]]
Lapse(ids)        == [i \in Ids |-> IF i \in ids THEN Off ELSE leases[i]]

DropsByTheOldState(r, gone) ==
    /\ reader' = Without(r, Departed(reader, gone))
    /\ leases' = Lapse(Departed(reader, gone))
DropDeparted(r, gone) ==
    /\ reader' = Without(r, Departed(r, gone))
    /\ leases' = Lapse(Departed(r, gone))

-----------------------------------------------------------------------------
\* deliver().

\* The server stops a seat's frames at its leave, and sends them before it says so.
CanArrive(f) == Counted(f) => SeatOf[f.signer] \in roster

\* What is decided before the first await.
DeliverBegins(n) ==
    /\ Idle /\ CanArrive(Wire[n])
    /\ LET f == Wire[n]
       IN  IF Layout(f) = "read" /\ (f.kind = Announcement \/ Screens(reader, f) = "pending")
           THEN reading' = reading \cup {[frame |-> n, candidates |-> Candidates(reader, f),
                                           issued |-> reader.issued, ended |-> reader.ended]}
           ELSE UNCHANGED reading
    /\ UNCHANGED <<reader, session, outbound, moves, accepted>>

Outcome(read) ==
    LET f == Wire[read.frame]
    IN  IF f.kind = Announcement THEN ReadAnnouncement(reader, f)
        ELSE Weighs(reader, f, read.candidates)

\* ignores(): a closing before a state.  The edition it moved is put back, for there is
\* no state yet that it could be above.
KeepsIt(r, read) == r
PutBack(r, read) == [r EXCEPT !.issued = read.issued, !.ended = read.ended]

\* fold() and afterState().
Fold(n) ==
    LET f == Wire[n]
    IN  \/ /\ f.kind = State
           /\ stateIssued' = f.load.issued /\ heldState' = n
           /\ RefreshHostAway(Accept(reader, f), roster, TRUE)
           /\ DropDeparted(Accept(reader, f), departed)
           /\ UNCHANGED over
        \/ /\ f.kind = Closing
           /\ reader' = Accept(reader, f) /\ over' = "closing"
           /\ UNCHANGED <<stateIssued, heldState, hostAway, leases>>
        \/ /\ f.kind = Holds
           /\ reader' = Accept(reader, f) /\ leases' = [leases EXCEPT ![f.id] = 0]
           /\ UNCHANGED <<stateIssued, heldState, hostAway, over>>
        \/ /\ f.kind \in {Stream, Announcement}
           /\ reader' = Accept(reader, f)
           /\ UNCHANGED <<stateIssued, heldState, hostAway, leases, over>>

Applied(read) ==
    /\ Outcome(read) = "accepted" /\ (Wire[read.frame].kind = Closing => StateHeld)
    /\ Fold(read.frame)
    /\ accepted' = IF accepted[read.frame] < 2 THEN [accepted EXCEPT ![read.frame] = @ + 1]
                   ELSE accepted

Ignored(read) ==
    /\ Outcome(read) = "accepted" /\ Wire[read.frame].kind = Closing /\ ~StateHeld
    /\ reader' = PutBack(Accept(reader, Wire[read.frame]), read)
    /\ UNCHANGED <<stateIssued, heldState, hostAway, leases, over, accepted>>

Dropped(read) ==
    /\ Outcome(read) # "accepted"
    /\ UNCHANGED <<reader, stateIssued, heldState, hostAway, leases, over, accepted>>

DeliverEnds ==
    \E read \in reading :
       /\ reading' = reading \ {read}
       /\ Applied(read) \/ Ignored(read) \/ Dropped(read)
       /\ UNCHANGED <<roster, departed, age, outbound, moves>>

-----------------------------------------------------------------------------
\* Seats, clocks and re-seats.

\* seatJoined(): the state this peer holds goes out again for a joiner the host cannot
\* answer.
SeatJoined(s) ==
    /\ Idle /\ s \notin roster /\ moves < MaxMoves
    /\ roster' = roster \cup {s} /\ departed' = departed \ {s}
    /\ outbound' = IF heldState # NoFrame /\ over = "no"
                      /\ (Hosts(reader) = {} \/ HostSeat(reader) \notin roster')
                   THEN heldState ELSE NoFrame
    /\ moves' = moves + 1
    /\ UNCHANGED <<reader, stateIssued, heldState, leases, hostAway, age, over, reading, accepted>>

SeatLeft(s) ==
    /\ Idle /\ s \in roster /\ moves < MaxMoves
    /\ roster' = roster \ {s} /\ departed' = departed \cup {s}
    /\ DropDeparted(reader, departed')
    /\ RefreshHostAway(reader, roster', FALSE)
    /\ moves' = moves + 1
    /\ UNCHANGED <<stateIssued, heldState, age, over, reading, outbound, accepted>>

\* reseat(): the roster of the new connection, which names no seat that has left, and
\* nothing of the receiver's marks.
Reseat(seated) ==
    /\ Idle /\ moves < MaxMoves
    /\ roster' = seated /\ over' = "no" /\ outbound' = NoFrame /\ moves' = moves + 1
    /\ UNCHANGED <<reader, stateIssued, heldState, leases, departed, hostAway, age, reading, accepted>>

\* expireLeases(), refreshHostAway() and windowPassed() of a tick.
ExpireLeases ==
    LET lapsed == {i \in Ids : leases[i] = Expire}
    IN  reader' = Without(reader, lapsed) /\ leases' = Lapse(lapsed)

WindowPassed ==
    IF over # "no" THEN over
    ELSE IF hostAway' = Expire THEN "host-away"
    ELSE IF ~StateHeld /\ age = Expire THEN "no-state" ELSE "no"

Tick ==
    /\ Idle /\ ExpireLeases /\ RefreshHostAway(reader, roster, FALSE)
    /\ over' = WindowPassed
    /\ UNCHANGED <<stateIssued, heldState, roster, departed, age, reading, outbound, moves, accepted>>

Older(a) == IF a < Expire THEN a + 1 ELSE a
TimePasses ==
    /\ leases' = [i \in Ids |-> Older(leases[i])]
    /\ hostAway' = Older(hostAway) /\ age' = Older(age)
    /\ UNCHANGED <<reader, stateIssued, heldState, roster, departed, over, reading, outbound,
                   moves, accepted>>

Next ==
    \/ \E n \in DOMAIN Wire : DeliverBegins(n)
    \/ DeliverEnds
    \/ \E s \in Seats : SeatJoined(s) \/ SeatLeft(s)
    \/ \E seated \in SUBSET (Seats \ departed) : Reseat(seated)
    \/ Tick \/ TimePasses

Spec == Init /\ [][Next]_vars

-----------------------------------------------------------------------------
\* The tables a state may have left, and a reader with one of them.
Tables     == {Nobody} \cup {f.load.peers : f \in {g \in Frames : g.kind = State /\ g.load.is = "state"}}
ReaderType == [committed : Tables, marks : [Ids -> Nat], listing : SUBSET Usable,
               holds : [Ids -> SUBSET Usable], issued : Nat, ended : BOOLEAN]

TypeOK ==
    /\ reader \in ReaderType
    /\ stateIssued \in Nat /\ heldState \in DOMAIN Wire \cup {NoFrame}
    /\ stateIssued = 0 <=> heldState = NoFrame
    /\ leases \in [Ids -> Ages] /\ roster \subseteq Seats /\ departed \subseteq Seats
    /\ hostAway \in Ages /\ age \in 0..Expire
    /\ over \in {"no", "closing", "host-away", "no-state"}
    /\ outbound \in DOMAIN Wire \cup {NoFrame} /\ moves \in 0..MaxMoves
    /\ accepted \in [DOMAIN Wire -> 0..2]
    /\ \A read \in reading : read.frame \in DOMAIN Wire
    /\ \A read, other \in reading : read = other

Was(n) == accepted[n] > 0

\* A frame comes after another if nothing that orders the two says otherwise.
Follows(f, g) ==
    /\ Counted(f) /\ Counted(g) /\ f.id = g.id => f.counter > g.counter
    /\ Ordered(f) /\ Ordered(g) => f.load.issued > g.load.issued

\* Whatever the relay repeats, delays or drops, and however deliveries overlap, what is
\* applied under one key id rises in its counter, and states and closings rise in their
\* edition: nothing is applied twice or behind what superseded it.
AppliedInOrder ==
    [][\A n \in DOMAIN Wire : accepted'[n] > accepted[n] =>
          \A m \in DOMAIN Wire : Was(m) => Follows(Wire[n], Wire[m])]_vars

Given        == {Wire[n] : n \in {m \in DOMAIN Wire : Was(m)}}
Newest(f)    == f.kind = State /\ \A g \in Given : g.kind = State /\ g # f => Follows(f, g)
RolesNow(ks) == UNION {{f.load.peers[k].role : k \in ks \cap DOMAIN f.load.peers} : f \in {g \in Given : Newest(g)}}

\* Between two deliveries, when the next frame's verdict is taken, a frame is refused for
\* what came before only if something that was applied supersedes it, or the newest state
\* that was applied does not let its sender say it: no frame that was itself refused or
\* ignored, a closing before the first state among them, ever costs an honest one that
\* follows.
RefusedForCause ==
    Idle => \A f \in Frames :
       LET v == Verdict(reader, f)
       IN  /\ v = "replayed_counter" =>
                 \E g \in Given : Counted(g) /\ g.id = f.id /\ g.counter >= f.counter
           /\ v = "stale_issued" =>
                 \E g \in Given : Ordered(g) /\ g.load.issued >= f.load.issued
           /\ v = "uncommitted_key" /\ f.kind \in {Stream, Holds} =>
                 RolesNow({k \in Keys : IdOf[k] = f.id}) = {}
           /\ v = "unauthorised_content" => RolesNow({f.signer}) = {"viewer"}

\* What a peer is held to ends with its seat, whichever of the leave and the state that
\* commits the key comes last, and otherwise with a lease that runs.  That holds do not come
\* after the leave is the server's to see to (CanArrive), and is not checked.  An entry's
\* seat is what the host believes, and an id may be two keys': the end is promised of a key
\* whose label is its seat and whose id names no other (dropDepartedHolds, expireLeases).
Known(k) == reader.committed[k].seat = SeatOf[k] /\ ByKeyId(reader, IdOf[k]) = {k}
HoldsEnd ==
    /\ \A i \in Ids : reader.holds[i] # {} => leases[i] # Off
    /\ \A k \in DOMAIN reader.committed :
          SeatOf[k] \in departed /\ Known(k) => reader.holds[IdOf[k]] = {}
=============================================================================
