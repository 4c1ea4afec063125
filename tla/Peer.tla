-------------------------------- MODULE Peer --------------------------------
(***************************************************************************)
(* A peer that is not the host: its edits, its key and its requests        *)
(* (src/src/engine/peer.ts, PeerSession).                                  *)
(*                                                                         *)
(* Everything asynchronous runs through one serial queue: todo holds the   *)
(* steps left of the task that runs, and sealing the frame whose seal it   *)
(* awaits.  What runs outside the queue - a local edit, detach(), the      *)
(* relay taking what is queued - happens between any two of those steps.   *)
(*                                                                         *)
(* A document is the set of edits in it, an edit's update is the edit, and *)
(* what is held back is a set: a merge of updates knows no order.          *)
(* One other peer of the room writes; the room states the host publishes   *)
(* say whether its key is committed and which role this peer's key has.    *)
(* Holds and awareness have state of their own that nothing here reads.    *)
(* Ages stop at Renew, which is all the code compares them with.           *)
(***************************************************************************)
EXTENDS Naturals, FiniteSets, Sequences

CONSTANTS
    Edits,        \* the edits this peer can make
    RemoteEdits,  \* the edits the other writer can make
    Renew,        \* awareness_renew_ms
    SealMayFail,  \* a seal can fail
    MaxStates,    \* bound: room states delivered
    MaxSeats      \* bound: seats, so re-seats and one

ASSUME PeerAssumption ==
    /\ Edits \cap RemoteEdits = {}
    /\ Renew \in Nat \ {0}
    /\ SealMayFail \in BOOLEAN
    /\ MaxStates \in Nat /\ MaxSeats \in Nat \ {0}

None    == "none"
Roles   == {None, "guest", "viewer"}
Never   == Renew + 1            \* an age with nothing to measure from
Ages    == 0..Never
NoCopy  == {"no baseline"}      \* no speculation
NoFrame == [what |-> "nothing", load |-> {}, begun |-> FALSE]

\* No document is mistaken for the lack of one.
ASSUME NoCopyAssumption == NoCopy \notin SUBSET (Edits \cup RemoteEdits)

VARIABLES
    seats,        \* seats had so far; the last one's key is the session's
    detached,     \* its socket is gone
    over,         \* the session has ended
    stateHeld,    \* a room state is applied
    role,         \* the role it gives this session's key, or None
    otherWrites,  \* whether it commits the other writer's key
    roleSeen,     \* the role the last application found
    doc,          \* the replica
    baseline,     \* the clean replica, while UNKNOWN-role edits may be rolled back
    unsent,       \* edits held back: [edit, speculative]
    jobs,         \* publications of edits waiting for their turn
    todo,         \* steps left of the running task
    sealing,      \* the frame being sealed, or NoFrame
    outbound,     \* frames queued for the relay
    announcedAge, handshakenAge, failedAge,
    failPending,  \* a failed SyncStep1 whose completion is not stamped
    resyncOwed,   \* a content frame was refused since the last SyncStep1
    served,       \* the other writer's first request was answered by one of ours
    reciprocal,   \* ... and that one is owed
    readiness,    \* this key's renewed eligibility owes a request
    states,       \* count for the bound
    exported,     \* history: edits put in a content frame of this session
    banned,       \* history: speculative edits a viewer's state rolled back
    armed         \* history: reciprocal requests armed in one eligibility

key    == <<seats, detached, over>>
room   == <<stateHeld, role, otherWrites, roleSeen, states>>
text   == <<doc, baseline, unsent, jobs, banned>>
task   == <<todo, sealing>>
wire   == <<outbound, exported>>
clocks == <<announcedAge, handshakenAge, failedAge, failPending>>
owed   == <<resyncOwed, served, reciprocal, readiness, armed>>
vars   == <<key, room, text, task, wire, clocks, owed>>

Init ==
    /\ seats = 1 /\ detached = FALSE /\ over = FALSE
    /\ stateHeld = FALSE /\ role = None /\ otherWrites = FALSE /\ roleSeen = None
    /\ doc = {} /\ baseline = NoCopy /\ unsent = {} /\ jobs = <<>>
    /\ todo = <<>> /\ sealing = NoFrame /\ outbound = {}
    /\ announcedAge = Never /\ handshakenAge = Never /\ failedAge = Never
    /\ failPending = FALSE
    /\ resyncOwed = FALSE /\ served = FALSE /\ reciprocal = FALSE /\ readiness = FALSE
    /\ states = 0 /\ exported = {} /\ banned = {} /\ armed = 0

-----------------------------------------------------------------------------
\* What the handlers ask.

Idle           == todo = <<>> /\ sealing = NoFrame
IsWriter       == role = "guest"
CommitsOurs    == role # None
MayPublish     == ~detached /\ ~over /\ stateHeld /\ CommitsOurs
Due(age)       == age >= Renew
Held           == {x.edit : x \in unsent}

PublicationDoc == IF baseline = NoCopy THEN doc ELSE baseline

OwesRequest == handshakenAge = Never \/ resyncOwed \/ reciprocal \/ readiness

IsContent(what) == what \in {"edit", "flush", "reply"}

\* publish(): whether the frame may go out, asked before the seal and after it.
Allowed(what) ==
    /\ ~detached /\ ~over
    /\ what # "announcement" => MayPublish /\ (IsContent(what) => IsWriter)

-----------------------------------------------------------------------------
\* Speculation.

Entries(es)    == [edit : es, speculative : {FALSE}]
AcceptedUnsent == Entries(Held)
Settled        == {x \in unsent : ~x.speculative}
Speculative    == {x.edit : x \in unsent \ Settled}

\* acceptSpeculation(): the edits become ordinary ones.
Accept ==
    /\ baseline' = NoCopy /\ unsent' = AcceptedUnsent
    /\ UNCHANGED <<doc, banned>>

\* discardSpeculative(): the clean history is the replica from now on.
KeepsTheReplica ==
    /\ unsent' = Settled
    /\ baseline' = NoCopy /\ UNCHANGED doc
    /\ banned' = banned \cup Speculative
Discard ==
    /\ unsent' = Settled
    /\ doc' = PublicationDoc /\ baseline' = NoCopy
    /\ banned' = banned \cup Speculative

-----------------------------------------------------------------------------
\* Outside the serial queue.

\* insert() and remove(): a viewer's is refused; the others land at once, are held,
\* and their publication is queued.
Edit(e) ==
    /\ e \notin doc \cup banned /\ role # "viewer"
    /\ baseline' = IF role # "guest" /\ baseline = NoCopy THEN doc ELSE baseline
    /\ doc' = doc \cup {e}
    /\ unsent' = unsent \cup {[edit |-> e, speculative |-> ~IsWriter]}
    /\ jobs' = Append(jobs, e)
    /\ UNCHANGED <<banned, key, room, task, wire, clocks, owed>>

Detach ==
    /\ ~detached
    /\ detached' = TRUE /\ outbound' = {}
    /\ UNCHANGED <<seats, over, exported, room, text, task, clocks, owed>>

\* takeOutbound(), by the relay.
TakeOutbound ==
    /\ outbound # {} /\ outbound' = {}
    /\ UNCHANGED <<exported, key, room, text, task, clocks, owed>>

\* noteStep1Failure(), by the relay after the tick or the delivery that failed.
NoteStep1Failure ==
    /\ failPending /\ Idle
    /\ failPending' = FALSE /\ failedAge' = 0
    /\ UNCHANGED <<announcedAge, handshakenAge, key, room, text, task, wire, owed>>

Older(age) == IF age < Renew THEN age + 1 ELSE age

Advance ==
    /\ announcedAge' = Older(announcedAge)
    /\ handshakenAge' = Older(handshakenAge)
    /\ failedAge' = Older(failedAge)
    /\ UNCHANGED <<failPending, key, room, text, task, wire, owed>>

-----------------------------------------------------------------------------
\* Tasks of the serial queue.

\* publish() begins: the seal of a frame that may not go out is never asked for.
Begins(what, load) ==
    sealing' = [what |-> what, load |-> load, begun |-> Allowed(what)]

\* afterState(): the other writer's obligations are pruned with its eligibility, this
\* key's readiness is renewed, and its history is settled before any frame is
\* encoded.
PruneReciprocal(w) ==
    /\ served' = (served /\ w) /\ reciprocal' = (reciprocal /\ w)
    /\ armed' = IF w THEN armed ELSE 0

Readiness(r) ==
    r = "guest" /\ (readiness \/ (handshakenAge # Never /\ roleSeen # "guest"))

\* What a state leaves the task to do.
HandshakeOnly(r) == IF r = None THEN <<"announce">> ELSE <<"handshake">>
StepsAfter(r)    == IF r = None THEN <<"announce">> ELSE <<"handshake", "flush">>

DeliverState(r, w) ==
    /\ Idle /\ ~over /\ states < MaxStates
    /\ states' = states + 1
    /\ stateHeld' = TRUE /\ role' = r /\ otherWrites' = w /\ roleSeen' = r
    /\ PruneReciprocal(w)
    /\ readiness' = Readiness(r)
    /\ \/ r = "viewer" /\ Discard
       \/ r = "guest" /\ Accept
       \/ r = None /\ UNCHANGED <<doc, baseline, unsent, banned>>
    /\ todo' = StepsAfter(r)
    /\ UNCHANGED <<jobs, sealing, resyncOwed, key, wire, clocks>>

\* applyContent() for an edit of the other writer: into both replicas.
DeliverEdit(e) ==
    /\ Idle /\ ~over /\ stateHeld /\ otherWrites
    /\ e \notin doc
    /\ doc' = doc \cup {e}
    /\ baseline' = IF baseline = NoCopy THEN NoCopy ELSE baseline \cup {e}
    /\ UNCHANGED <<unsent, jobs, banned, key, room, task, wire, clocks, owed>>

\* applyContent() for its SyncStep1: armReciprocal(), and the reply of a writer.
ArmsEveryTime == reciprocal' = TRUE /\ served' = TRUE /\ armed' = armed + 1
ArmReciprocal ==
    IF served THEN UNCHANGED <<served, reciprocal, armed>>
    ELSE served' = TRUE /\ reciprocal' = TRUE /\ armed' = armed + 1

DeliverRequest ==
    /\ Idle /\ ~over /\ stateHeld /\ otherWrites
    /\ ArmReciprocal
    /\ IF MayPublish /\ IsWriter THEN Begins("reply", PublicationDoc) ELSE UNCHANGED sealing
    /\ UNCHANGED <<todo, resyncOwed, readiness, key, room, text, wire, clocks>>

\* noteRefusal(): a content frame of a key no state commits opens an interval.
RefuseContent ==
    /\ Idle /\ ~over /\ ~(stateHeld /\ otherWrites)
    /\ resyncOwed' = TRUE
    /\ UNCHANGED <<served, reciprocal, readiness, armed, key, room, text, task, wire, clocks>>

\* autoTick(), while the session has not ended.
Tick ==
    /\ Idle /\ ~over
    /\ todo' = <<"reannounce", "resync">>
    /\ UNCHANGED <<sealing, key, room, text, wire, clocks, owed>>

\* A closing, or a window of the session's own that passes at a tick.
Ends ==
    /\ Idle /\ ~over
    /\ over' = TRUE
    /\ UNCHANGED <<seats, detached, room, text, task, wire, clocks, owed>>

\* reseat(): a new key over the same replica.  What belongs to the key goes with it,
\* and so does an ending the relay has not reported yet.
Reseat ==
    /\ Idle /\ detached /\ seats < MaxSeats
    /\ seats' = seats + 1 /\ detached' = FALSE /\ over' = FALSE
    /\ role' = None /\ roleSeen' = None
    /\ announcedAge' = Never /\ failedAge' = Never /\ failPending' = FALSE
    /\ handshakenAge' = Never
    /\ resyncOwed' = FALSE /\ served' = FALSE /\ reciprocal' = FALSE /\ readiness' = FALSE
    /\ armed' = 0
    /\ UNCHANGED <<stateHeld, otherWrites, states, text, task, wire>>

\* publishEdit()'s turn: an edit a state has flushed since is done; one that may not
\* go out stays held.
StillHeld(e) == e \in Held /\ MayPublish /\ IsWriter

EditsTurn ==
    /\ Idle /\ jobs # <<>>
    /\ jobs' = Tail(jobs)
    /\ IF StillHeld(Head(jobs))
       THEN /\ Accept
            /\ Begins("edit", {Head(jobs)})
       ELSE UNCHANGED <<doc, baseline, unsent, banned, sealing>>
    /\ UNCHANGED <<todo, key, room, wire, clocks, owed>>

-----------------------------------------------------------------------------
\* Steps of a task, and the seal each of them awaits.

\* A step publishes, or is passed over.
Reached(step)      == sealing = NoFrame /\ todo # <<>> /\ Head(todo) = step
Seals(what, load)  == todo' = Tail(todo) /\ Begins(what, load)
Passed             == todo' = Tail(todo) /\ UNCHANGED sealing

Announce ==
    /\ Reached("announce") \/ Reached("reannounce")
    /\ IF Head(todo) = "announce" \/ (~CommitsOurs /\ Due(announcedAge))
       THEN Seals("announcement", {}) ELSE Passed
    /\ UNCHANGED <<key, room, text, wire, clocks, owed>>

Handshake ==
    /\ Reached("handshake")
    /\ IF handshakenAge = Never
       THEN Seals("step1", PublicationDoc) ELSE Passed
    /\ UNCHANGED <<key, room, text, wire, clocks, owed>>

\* resync(): one request clock for every cause, and a failure waits a window.
OnlyForRefusals == resyncOwed /\ MayPublish /\ Due(handshakenAge)
UnpacedResync == OwesRequest /\ MayPublish
ResyncDue ==
    /\ OwesRequest /\ MayPublish
    /\ Due(handshakenAge)
    /\ ~failPending /\ Due(failedAge)

Resync ==
    /\ Reached("resync")
    /\ IF ResyncDue THEN Seals("step1", PublicationDoc) ELSE Passed
    /\ UNCHANGED <<key, room, text, wire, clocks, owed>>

\* flushHeldBackEdits(): what is held leaves unsent for the frame that carries it.
Flush ==
    /\ Reached("flush")
    /\ IF IsWriter /\ unsent # {}
       THEN /\ baseline' = NoCopy
            /\ IF MayPublish
               THEN Seals("flush", Held) /\ unsent' = {}
               ELSE Passed /\ unsent' = AcceptedUnsent
       ELSE Passed /\ UNCHANGED <<unsent, baseline>>
    /\ UNCHANGED <<doc, jobs, banned, key, room, wire, clocks, owed>>

\* A publication went out: what it was for is done.
Published(what, load) ==
    /\ announcedAge'  = IF what = "announcement" THEN 0 ELSE announcedAge
    /\ IF what = "step1"
       THEN /\ handshakenAge' = 0 /\ failedAge' = Never /\ failPending' = FALSE
            /\ resyncOwed' = FALSE /\ reciprocal' = FALSE /\ readiness' = FALSE
       ELSE UNCHANGED <<handshakenAge, failedAge, failPending, resyncOwed, reciprocal,
                        readiness>>
    /\ unsent' = IF what = "edit" THEN {x \in unsent : x.edit \notin load}
                 ELSE unsent
    /\ UNCHANGED <<served, armed>>

\* It did not: an edit is held still, or again, and a request stays owed.
LosesTheEdits(what, load) == UNCHANGED unsent
PutBack(what, load) ==
    unsent' = IF what = "flush" THEN Entries(load) \cup unsent ELSE unsent

Unpublished(what, load) ==
    /\ announcedAge' = IF what = "announcement" THEN 0 ELSE announcedAge
    /\ failPending' = (failPending \/ what = "step1")
    /\ PutBack(what, load)
    /\ UNCHANGED <<handshakenAge, failedAge, owed>>

StillAllowed(what) == Allowed(what)

Sealed ==
    /\ sealing # NoFrame
    /\ sealing' = NoFrame
    /\ LET what == sealing.what load == sealing.load IN
       IF sealing.begun /\ StillAllowed(what)
       THEN /\ Published(what, load)
            /\ outbound' = outbound \cup {[what |-> what, seat |-> seats]}
            /\ exported' = IF IsContent(what) THEN exported \cup load ELSE exported
       ELSE Unpublished(what, load) /\ UNCHANGED <<outbound, exported>>
    /\ UNCHANGED <<doc, baseline, jobs, banned, todo, key, room>>

SealFails ==
    /\ SealMayFail /\ sealing.begun
    /\ sealing' = NoFrame
    /\ Unpublished(sealing.what, sealing.load)
    /\ UNCHANGED <<doc, baseline, jobs, banned, outbound, exported, todo, key, room>>

Step == Announce \/ Handshake \/ Resync \/ Flush \/ Sealed \/ SealFails

Next ==
    \/ \E e \in Edits : Edit(e)
    \/ Detach \/ TakeOutbound \/ NoteStep1Failure \/ Advance
    \/ \E r \in Roles, w \in BOOLEAN : DeliverState(r, w)
    \/ \E e \in RemoteEdits : DeliverEdit(e)
    \/ DeliverRequest \/ RefuseContent \/ Tick \/ Ends \/ Reseat \/ EditsTurn
    \/ Step

\* The serial queue moves, the relay's timer ticks it, and time passes.
Fairness ==
    /\ WF_vars(Step) /\ SF_vars(EditsTurn) /\ SF_vars(NoteStep1Failure)
    /\ SF_vars(Tick) /\ WF_vars(Advance)

Spec == Init /\ [][Next]_vars /\ Fairness

-----------------------------------------------------------------------------
Entry  == [edit : Edits, speculative : BOOLEAN]
Steps  == {"announce", "reannounce", "handshake", "resync", "flush"}
Kinds  == {"announcement", "step1", "edit", "flush", "reply"}
Writes == SUBSET (Edits \cup RemoteEdits)

\* What is sealed: only a flush is bound to what this peer wrote.
Frames == [what : Kinds \ {"flush"}, load : Writes, begun : BOOLEAN]
          \cup [what : {"flush"}, load : SUBSET Edits, begun : BOOLEAN]

KeyOK    == seats \in 1..MaxSeats /\ detached \in BOOLEAN /\ over \in BOOLEAN
RoomOK   == /\ stateHeld \in BOOLEAN /\ role \in Roles /\ roleSeen \in Roles
            /\ otherWrites \in BOOLEAN /\ states \in 0..MaxStates
TextOK   == /\ doc \in Writes /\ (baseline = NoCopy \/ baseline \subseteq doc)
            /\ unsent \subseteq Entry /\ jobs \in Seq(Edits) /\ banned \subseteq Edits
TaskOK   == todo \in Seq(Steps) /\ sealing \in Frames \cup {NoFrame}
WireOK   == outbound \subseteq [what : Kinds, seat : 1..MaxSeats] /\ exported \in Writes
ClocksOK == /\ announcedAge \in Ages /\ handshakenAge \in Ages /\ failedAge \in Ages
            /\ failPending \in BOOLEAN
OwedOK   == /\ resyncOwed \in BOOLEAN /\ served \in BOOLEAN /\ reciprocal \in BOOLEAN
            /\ readiness \in BOOLEAN /\ armed \in Nat

TypeOK == KeyOK /\ RoomOK /\ TextOK /\ TaskOK /\ WireOK /\ ClocksOK /\ OwedOK

\* No local edit falls between: what this peer wrote and its replica keeps has gone
\* into a frame, is held back, or is in the frame being sealed, whatever failed or
\* dropped in between.
EveryEditIsAccountedFor ==
    \A e \in doc \cap Edits :
        e \in exported \/ e \in Held \/ (sealing.what = "flush" /\ e \in sealing.load)

\* What was typed before the room said "viewer" leaves the replica and is never
\* handed to the room, by no later promotion or answer either ("Refuse before
\* creating CRDT history that a later promotion could export", peer.ts:1423).
ViewerTextStaysHere == banned \cap (doc \cup exported \cup Held) = {}

\* One own SyncStep1 per renewal interval, whatever asked for it (peer.ts:2283), and
\* the first of a key at once; and the other writer's requests draw one of ours while it
\* stays a writer, so two peers do not ask each other for ever.
RequestsArePaced ==
    [][/\ armed' <= 1
       /\ [what |-> "step1", seat |-> seats] \in outbound' \ outbound
            => handshakenAge >= Renew]_vars

Publishing == MayPublish /\ IsWriter

\* A peer that stays a seated writer leaves no edit held back: "a client that kept
\* them there would leave the room without them for good" (peer.ts:1833).  And a peer the
\* room commits sends every request it owes.
HeldEditsGoOut ==
    /\ <>[]Publishing => \A e \in Edits : [](e \in Held => <>(e \notin Held))
    /\ <>[]MayPublish => [](OwesRequest => <>~OwesRequest)
=============================================================================
