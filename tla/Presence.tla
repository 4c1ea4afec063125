------------------------------ MODULE Presence ------------------------------
(***************************************************************************)
(* What a peer says of itself - the paths it holds and its caret - and     *)
(* what another peer shows of it (src/src/engine/peer.ts, PeerSession:     *)
(* holds, shownLeases, awareness), over drops of either connection.             *)
(*                                                                         *)
(* A connection of the peer has a number: its session key, its seat and    *)
(* its awareness id.  The server sends the watcher what happens in one     *)
(* order.  Frames, timers and queued tasks are prompt: time passes when    *)
(* nothing is under way.  A drop does not fall inside a re-seat, which is  *)
(* Relay's concern.  Of the library's awareness this has a state per id    *)
(* and whether its clock has left 0: entries arrive in order, and only one *)
(* at clock 0 is not newer than what a receiver has.                       *)
(***************************************************************************)
EXTENDS Naturals, FiniteSets, Sequences, SequencesExt

CONSTANTS
    Paths, Carets,
    Renew, ExpireAfter,  \* awareness_renew_ms, awareness_expire_ms
    MaxConns,       \* bound: connections of the peer
    MaxChanges,     \* bound: what the person does
    MaxMisses       \* bound: drops of the watcher, and seals that fail

ASSUME PresenceAssumption ==
    /\ Renew \in Nat \ {0} /\ ExpireAfter \in Nat
    /\ MaxConns \in Nat \ {0}

None   == "none"
Never(n) == n + 1               \* an age with nothing to measure from
Conns  == 1..MaxConns
Gone   == [state |-> None, fresh |-> TRUE]   \* an id at clock 0

VARIABLES
    conn, detached, minting,  \* minting: a re-seat awaits its key
    known,        \* the key its applied state commits, 0 for none
    held, holdsSent, holdsAge,
    local,        \* localState: the caret to publish
    own,          \* the library's entry under this connection's id
    awarenessHeld, renewedAge,
    job,          \* awareness publications queued: the ids they name
    asked,        \* a tick is queued besides the grid's
    tickAge,
    host,         \* external: the key the host's newest state commits
    inbox,        \* states on the way to the peer
    wire,         \* what is on the way to the watcher
    gone, commits, shown, shownLeases, aware, seenAge, watchAge,   \* the watcher's
    changes, misses,
    lost, kept    \* history: since the watcher last took a holds frame in, the holds
                  \* frames lost, and the paths of it that the peer goes on holding

peer    == <<conn, detached, minting, known>>
holds   == <<held, holdsSent, holdsAge>>
caret   == <<local, own, awarenessHeld, renewedAge, job>>
watcher == <<gone, commits, shown, shownLeases, aware, seenAge>>
faults  == <<misses, lost>>
doings  == <<changes, kept>>
timers  == <<tickAge, watchAge>>
presenceVars ==
    <<peer, holds, caret, asked, host, inbox, wire, watcher, timers, doings, faults>>

PresenceInit ==
    /\ conn = 1 /\ detached = FALSE /\ minting = FALSE /\ known = 0
    /\ held = {} /\ holdsSent = {} /\ holdsAge = Never(Renew)
    /\ local = None /\ own = Gone /\ awarenessHeld = FALSE /\ renewedAge = Never(Renew)
    /\ job = {} /\ asked = FALSE /\ tickAge = 0
    /\ host = 0 /\ inbox = <<>> /\ wire = <<>>
    /\ gone = {} /\ commits = 0 /\ lost = 0 /\ kept = {}
    /\ watchAge \in 0..(Renew - 1)   \* the two tick as they will
    /\ shown = [n \in Conns |-> {}] /\ shownLeases = [n \in Conns |-> Never(ExpireAfter)]
    /\ aware = [n \in Conns |-> None] /\ seenAge = [n \in Conns |-> Never(ExpireAfter)]
    /\ changes = 0 /\ misses = 0

-----------------------------------------------------------------------------
\* The peer.

MayPublish == ~detached /\ known = conn
Unbusy       == job = {} /\ ~minting
Due(age)   == age >= Renew

HoldsFrame == [what |-> "holds", from |-> conn, holds |-> held]
CaretFrame(entry) == [what |-> "caret", from |-> conn, entry |-> entry]

Losing(frames) ==
    lost' = lost + (IF \E i \in DOMAIN frames : frames[i].what = "holds" THEN 1 ELSE 0)

\* publish(): a frame goes out, or its seal fails.
Publish(frames) ==
    \/ wire' = wire \o frames /\ UNCHANGED faults
    \/ /\ misses < MaxMisses /\ misses' = misses + 1
       /\ \E i \in DOMAIN frames :
             wire' = wire \o RemoveAt(frames, i) /\ Losing(<<frames[i]>>)

\* setLocalState() of the library, and the publication its event queues.
SetLocalState(v) ==
    /\ own' = [state |-> v, fresh |-> FALSE]
    /\ job' = job \cup {conn}

\* open() and release() of the relay: the holds go out at a tick of their own.
Open(p) ==
    /\ p \notin held /\ held' = held \cup {p}
    /\ asked' = TRUE /\ UNCHANGED <<holdsSent, holdsAge, kept>>
Release(ps) ==
    /\ ps # {} /\ ps \subseteq held /\ held' = held \ ps
    /\ kept' = kept \ ps /\ asked' = TRUE /\ UNCHANGED <<holdsSent, holdsAge>>

\* setAwareness(): a state that says what the last one said is not published.
SetAwareness(v) ==
    /\ v # local /\ local' = v /\ SetLocalState(v)
    /\ UNCHANGED <<awarenessHeld, renewedAge>>

Person ==
    /\ changes < MaxChanges /\ changes' = changes + 1
    /\ \/ /\ \E p \in Paths : Open(p) \/ Release({p}) \/ Release(held)
          /\ UNCHANGED caret
       \/ /\ \E v \in Carets \cup {None} : SetAwareness(v)
          /\ UNCHANGED <<holds, asked, kept>>
    /\ UNCHANGED <<peer, host, inbox, wire, watcher, timers, faults>>

\* The publication of a caret, in its turn: held back until a state commits this key.
Job ==
    /\ ~minting /\ job # {}
    /\ job' = {}
    /\ IF ~MayPublish
       THEN awarenessHeld' = TRUE /\ UNCHANGED <<renewedAge, wire, faults>>
       ELSE Publish(<<CaretFrame(own)>>) /\ renewedAge' = 0 /\ UNCHANGED awarenessHeld
    /\ UNCHANGED <<local, own, peer, holds, asked, host, inbox, watcher, timers, doings>>

\* announceHolds(): the whole held set, when it changed or is due.
NothingToSay == held = {} /\ holdsSent = {} /\ holdsAge = Never(Renew)
OnlyChanges  == held # holdsSent
HoldsDue     == held # holdsSent \/ Due(holdsAge)

OwesHolds    == ~detached /\ ~NothingToSay /\ HoldsDue
Announced(owed) ==
    IF owed THEN holdsSent' = held /\ holdsAge' = 0 /\ UNCHANGED held ELSE UNCHANGED holds

AnnounceHolds ==
    LET owed == MayPublish /\ OwesHolds
    IN  /\ Announced(owed)
        /\ IF owed THEN Publish(<<HoldsFrame>>) ELSE UNCHANGED <<wire, faults>>

\* renewAwareness(): the same state on a newer clock.
RenewAwareness ==
    IF local # None /\ Due(renewedAge)
    THEN SetLocalState(local) /\ renewedAge' = 0 /\ UNCHANGED <<local, awarenessHeld>>
    ELSE UNCHANGED caret

PresenceTick ==
    /\ Unbusy /\ (asked \/ tickAge = Renew)
    /\ asked' = FALSE /\ tickAge' = IF tickAge = Renew THEN 0 ELSE tickAge
    /\ AnnounceHolds /\ RenewAwareness
    /\ UNCHANGED <<peer, host, inbox, watcher, watchAge, doings>>

\* afterState(): a state that commits this key sends the caret that was held back, and the
\* holds if they are due.
HeldBackAwareness ==
    IF awarenessHeld /\ local # None /\ ~detached THEN <<CaretFrame(own)>> ELSE <<>>

Flush ==
    /\ awarenessHeld' = (awarenessHeld /\ local # None /\ detached)
    /\ renewedAge' = IF HeldBackAwareness = <<>> THEN renewedAge ELSE 0
    /\ Announced(OwesHolds)
    /\ Publish(HeldBackAwareness \o (IF OwesHolds THEN <<HoldsFrame>> ELSE <<>>))

HearState ==
    /\ Unbusy /\ inbox # <<>>
    /\ known' = Head(inbox).commits /\ inbox' = Tail(inbox)
    /\ IF known' = conn
       THEN Flush
       ELSE UNCHANGED <<awarenessHeld, renewedAge, holds, wire, faults>>
    /\ UNCHANGED <<local, own, job, conn, detached, minting, asked, host, watcher, timers,
                   doings>>

\* Drops and re-seats.  Nothing of holds or caret is given up, the id is a new one, and its
\* clock 0 is spent.
Drop ==
    /\ ~detached /\ ~minting /\ conn < MaxConns
    /\ detached' = TRUE /\ inbox' = <<>>
    /\ wire' = Append(wire, [what |-> "left", from |-> conn])
    /\ UNCHANGED <<conn, minting, known, holds, caret, asked, host, watcher, timers, doings,
                   faults>>

ReseatBegins ==
    /\ detached /\ Unbusy
    /\ minting' = TRUE
    /\ wire' = Append(wire, [what |-> "joined", from |-> conn + 1])
    /\ UNCHANGED <<conn, detached, known, holds, caret, asked, host, inbox, watcher, timers,
                   doings, faults>>

ReseatEnds ==
    /\ minting
    /\ conn' = conn + 1 /\ detached' = FALSE /\ minting' = FALSE
    /\ own' = Gone /\ awarenessHeld' = FALSE /\ renewedAge' = Never(Renew)
    /\ holdsAge' = Never(Renew) /\ asked' = TRUE
    /\ UNCHANGED <<known, held, holdsSent, local, job, host, inbox, wire, watcher, timers,
                   doings, faults>>

\* seatJoined(): somebody is to hear the holds again.
HearsJoiner == holdsAge' = Never(Renew) /\ UNCHANGED <<held, holdsSent>>

-----------------------------------------------------------------------------
\* External: the host commits the key that is announced to it, and tells the room.

HostCommits ==
    /\ ~detached /\ ~minting /\ host # conn
    /\ host' = conn
    /\ inbox' = Append(inbox, [commits |-> conn])
    /\ wire' = Append(wire, [what |-> "state", from |-> conn])
    /\ UNCHANGED <<peer, holds, caret, asked, watcher, timers, doings, faults>>

-----------------------------------------------------------------------------
\* The watcher.

\* dropDepartedHolds(), for the key a state commits.
DropGone(n, lefts) ==
    LET drops == n \in lefts
    IN  /\ shown'  = IF drops THEN [shown EXCEPT ![n] = {}] ELSE shown
        /\ shownLeases' =
              IF drops THEN [shownLeases EXCEPT ![n] = Never(ExpireAfter)] ELSE shownLeases

\* peer.joined and peer.left; forgetAwareness() keeps the clock of the id.
HearJoined(n) ==
    /\ gone' = gone \ {n}
    /\ UNCHANGED <<commits, shown, shownLeases, aware, seenAge>>
HearLeft(n) ==
    /\ aware' = [aware EXCEPT ![n] = None]
    /\ seenAge' = [seenAge EXCEPT ![n] = Never(ExpireAfter)]
    /\ gone' = gone \cup {n}
    /\ DropGone(commits, gone') /\ UNCHANGED commits

HearsState(n) ==
    /\ commits' = n /\ DropGone(n, gone)
    /\ UNCHANGED <<gone, aware, seenAge>>

HearHolds(n, paths) ==
    /\ IF commits = n
       THEN shown' = [shown EXCEPT ![n] = paths] /\ shownLeases' = [shownLeases EXCEPT ![n] = 0]
       ELSE UNCHANGED <<shown, shownLeases>>
    /\ UNCHANGED <<gone, commits, aware, seenAge>>

\* noteRemoteAwareness(): an entry that was applied renews the state it names.
HearCaret(n, entry) ==
    /\ IF commits = n /\ ~entry.fresh
       THEN /\ aware' = [aware EXCEPT ![n] = entry.state]
            /\ seenAge' = [seenAge EXCEPT ![n] =
                              IF entry.state = None THEN Never(ExpireAfter) ELSE 0]
       ELSE UNCHANGED <<aware, seenAge>>
    /\ UNCHANGED <<gone, commits, shown, shownLeases>>

Hear ==
    /\ wire # <<>> /\ wire' = Tail(wire)
    /\ LET f == Head(wire)
       IN  /\ \/ f.what = "joined" /\ HearJoined(f.from)
              \/ f.what = "left"   /\ HearLeft(f.from)
              \/ f.what = "state"  /\ HearsState(f.from)
              \/ f.what = "holds"  /\ HearHolds(f.from, f.holds)
              \/ f.what = "caret"  /\ HearCaret(f.from, f.entry)
           /\ IF f.what = "holds" /\ f.from = commits
              THEN lost' = 0 /\ kept' = f.holds \cap held
              ELSE UNCHANGED <<lost, kept>>
    /\ UNCHANGED <<peer, holds, caret, asked, host, inbox, timers, changes, misses>>

\* expireLeases() and expireAwareness() at its tick.
LapseLeases ==
    LET lapsed == {n \in Conns : shownLeases[n] = ExpireAfter}
    IN  /\ shown'  = [n \in Conns |-> IF n \in lapsed THEN {} ELSE shown[n]]
        /\ shownLeases' =
              [n \in Conns |-> IF n \in lapsed THEN Never(ExpireAfter) ELSE shownLeases[n]]
KeepsAwareness == UNCHANGED <<aware, seenAge>>
LapseAwareness ==
    LET lapsed == {n \in Conns : seenAge[n] = ExpireAfter}
    IN  /\ aware'   = [n \in Conns |-> IF n \in lapsed THEN None ELSE aware[n]]
        /\ seenAge' = [n \in Conns |-> IF n \in lapsed THEN Never(ExpireAfter) ELSE seenAge[n]]

WatchTick ==
    /\ watchAge = Renew /\ watchAge' = 0
    /\ LapseLeases /\ LapseAwareness
    /\ UNCHANGED <<gone, commits, peer, holds, caret, asked, host, inbox, wire, tickAge,
                   doings, faults>>

\* The watcher's connection drops and is seated again: what was on the way is lost, the host
\* tells it the roles, and the peer hears of a joiner.
WatcherReseats ==
    /\ misses < MaxMisses /\ misses' = misses + 1
    /\ wire' = IF host = 0 THEN <<>> ELSE <<[what |-> "state", from |-> host]>>
    /\ Losing(wire)
    /\ IF detached THEN UNCHANGED holds ELSE HearsJoiner
    /\ UNCHANGED <<watcher, peer, caret, asked, host, inbox, timers, doings>>

-----------------------------------------------------------------------------
Aged(age, most) == IF age < most THEN age + 1 ELSE age

ClockRuns ==
    /\ Unbusy /\ ~asked /\ inbox = <<>> /\ wire = <<>> /\ tickAge < Renew /\ watchAge < Renew
    /\ tickAge' = tickAge + 1 /\ watchAge' = watchAge + 1
    /\ holdsAge' = Aged(holdsAge, Renew) /\ renewedAge' = Aged(renewedAge, Renew)
    /\ shownLeases' = [n \in Conns |-> Aged(shownLeases[n], ExpireAfter)]
    /\ seenAge' = [n \in Conns |-> Aged(seenAge[n], ExpireAfter)]
    /\ UNCHANGED <<held, holdsSent, local, own, awarenessHeld, job, peer, asked, host, inbox,
                   wire, gone, commits, shown, aware, doings, faults>>

PresenceNext ==
    \/ Person \/ Job \/ PresenceTick \/ HearState \/ Drop \/ ReseatBegins \/ ReseatEnds
    \/ HostCommits \/ Hear \/ WatchTick \/ WatcherReseats \/ ClockRuns

\* Queued tasks run, timers fire, the server delivers, the host answers and a re-seat that
\* began ends.  Nothing is assumed of the person or of connections.
PresenceFairness ==
    /\ WF_presenceVars(Job) /\ WF_presenceVars(PresenceTick)
    /\ WF_presenceVars(HearState) /\ WF_presenceVars(ReseatEnds)
    /\ WF_presenceVars(HostCommits) /\ WF_presenceVars(Hear)
    /\ WF_presenceVars(WatchTick) /\ WF_presenceVars(ClockRuns)

PresenceSpec     == PresenceInit /\ [][PresenceNext]_presenceVars
PresenceLiveSpec == PresenceSpec /\ PresenceFairness

-----------------------------------------------------------------------------
PresenceTypeOK ==
    /\ conn \in Conns /\ known \in 0..MaxConns /\ job \subseteq Conns
    /\ held \subseteq Paths /\ holdsSent \subseteq Paths
    /\ shown \in [Conns -> SUBSET Paths] /\ commits \in 0..MaxConns

\* A path a seated peer goes on holding does not disappear from another's view.  A change
\* between two ticks puts the next renewal off to the second tick after it, and announceHolds()
\* counts a renewal whose frame is lost: a lease outlasts two renewals with nothing lost,
\* and one more for each holds frame that a failed seal or a drop of the watcher lost
\* since one last came in.
Span(n)     == (2 + n) * Renew
OnTheWay(p) == \A i \in DOMAIN wire :
                  wire[i].what = "holds" /\ wire[i].from = conn => p \in wire[i].holds
HoldsAreKept ==
    [][\A p \in shown[conn] :
          /\ ~detached /\ ~detached' /\ Span(lost) <= ExpireAfter
          /\ p \in kept' /\ OnTheWay(p)
          => p \in shown'[conn]]_presenceVars

\* Once the person and the connections are quiet the watcher shows what the peer holds and
\* its caret, under its present connection only: nothing of it is missing, and nothing of
\* the connections before it stays.
Present(n)     == n = conn /\ ~detached
ViewIsTrue     == \A n \in Conns : /\ shown[n] = IF Present(n) THEN held ELSE {}
                                   /\ aware[n] = IF Present(n) THEN local ELSE None
ShownInTheEnd  == <>[]ViewIsTrue
=============================================================================
