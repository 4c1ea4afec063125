------------------------------- MODULE Bridge -------------------------------
(***************************************************************************)
(* One document between an editor's buffer and the session's replica       *)
(* (src/src/bridge/bridge.ts, SessionBridge).                              *)
(*                                                                         *)
(* A text is the set of marks in it, whatever its line endings; the        *)
(* difference of two texts is what one has and the other lacks, and a      *)
(* change lands on what the buffer holds by then.  A heavy mark takes a    *)
(* text past the size a session carries, a broken one is half a surrogate  *)
(* pair.                                                                   *)
(*                                                                         *)
(* The state of the document is one record s, so that a handler is the     *)
(* composition of the methods it calls, each an operator on s.  The editor *)
(* (EditorHost) is the one of this repository, where a change lands inside *)
(* the call and nothing is typed before its promise settles, or a late one *)
(* that keeps the contract of the interface: it may refuse, fail, or be    *)
(* typed into meanwhile.  The room and the person are external.            *)
(***************************************************************************)
EXTENDS Naturals, FiniteSets

CONSTANTS
    Windows,      \* the roles and editors looked at: [role, late]
    Local,        \* marks the person can type
    Remote,       \* marks the room can write
    Disk,         \* the text of the file, or of a tab kept from elsewhere
    Heavy,        \* marks that take a text over the bound
    Broken,       \* marks with a lone surrogate
    MaxAttempts,  \* DEFAULT_MAX_APPLY_ATTEMPTS
    MaxOpens,     \* bound: times the editor says the document opened
    MaxRefusals,  \* bound: applies a late editor refuses or fails
    MaxReads,     \* bound: reads of the file queued or under way
    MaxTurns,     \* bound: marks the room writes or takes away
    MaxCuts       \* bound: marks the person takes out

Marks == Local \cup Remote \cup Disk

ASSUME BridgeAssumption ==
    /\ Windows \subseteq [role : {"host", "guest"}, late : BOOLEAN]
    /\ Local \cap (Remote \cup Disk) = {} /\ Remote \cap Disk = {}
    /\ Heavy \subseteq Marks /\ Broken \subseteq Marks /\ "no model" \notin Marks
    /\ MaxAttempts \in Nat \ {0} /\ MaxOpens \in Nat /\ MaxRefusals \in Nat
    /\ MaxReads \in Nat /\ MaxTurns \in Nat /\ MaxCuts \in Nat

Closed   == {"no model"}      \* host.text(path) is undefined
NoFlight == [replica |-> Closed, before |-> Closed, cut |-> {}, add |-> {},
             moved |-> FALSE, landed |-> FALSE]

VARIABLES
    role,      \* "host" or "guest", for the session
    late,      \* which editor
    disposed,
    opens, refusals, turns,   \* counts for the bounds
    s          \* the document, see TypeOK

fixed == <<role, late>>
vars  == <<fixed, disposed, opens, refusals, turns, s>>

Fresh ==
    [buffer |-> Closed, replica |-> {}, has |-> FALSE,
     front |-> FALSE, unarrived |-> FALSE, seeded |-> FALSE, said |-> FALSE,
     flight |-> NoFlight, pending |-> FALSE, attempts |-> 0, stale |-> FALSE,
     save |-> "none", backstop |-> FALSE,
     asks |-> 0, held |-> FALSE, holding |-> FALSE,
     requested |-> FALSE, queued |-> 0, reading |-> 0, stirred |-> FALSE,
     ever |-> {}, typed |-> {}, cut |-> {}, own |-> {}, heard |-> {}, refused |-> {}, loose |-> {},
     seeds |-> 0]

Init ==
    /\ \E w \in Windows : role = w.role /\ late = w.late
    /\ disposed = FALSE /\ opens = 0 /\ refusals = 0 /\ turns = 0
    /\ s = Fresh

-----------------------------------------------------------------------------
\* What the code asks of a text.

Lone(text)       == text \cap Broken # {}
SeedRefusal(text) == text \cap (Heavy \cup Broken) # {}
Diff(d)          == (d.buffer \ d.replica) \cup (d.replica \ d.buffer)

\* host.report() of something about this document: what the two texts differ in
\* by then is something the person has been told of.
Told(d) == [d EXCEPT !.heard = @ \cup (IF d.buffer = Closed THEN {} ELSE Diff(d))]

-----------------------------------------------------------------------------
\* The deadline of a save: "armed", "paused" (an entry without a timer) or "none".

ScheduleSave(d) == [d EXCEPT !.save = "armed"]
PauseSave(d)    == [d EXCEPT !.save = IF @ = "none" THEN "none" ELSE "paused"]
MoveSave(d)     == IF d.save # "none" THEN ScheduleSave(d) ELSE d
ResumeSave(d)   ==
    IF /\ d.save = "paused" /\ d.flight = NoFlight
       /\ d.buffer # Closed /\ ~Lone(d.buffer) /\ ~Lone(d.replica)
    THEN ScheduleSave(d) ELSE d

-----------------------------------------------------------------------------
\* Buffer to replica.

\* engine.insert() and engine.delete().
Write(d) ==
    [d EXCEPT !.replica = d.buffer, !.has = TRUE, !.stirred = TRUE,
              !.ever = @ \cup d.buffer]

PublishRefused(d) == SeedRefusal(d.buffer) \/ Lone(d.replica)

\* A refusal is said once per document opened.
SayRefusal(d) ==
    [(IF d.said THEN d ELSE Told(d)) EXCEPT
        !.said = TRUE, !.refused = @ \cup (d.buffer \ d.replica)]

Publish(d) ==
    IF PublishRefused(d)
    THEN SayRefusal([PauseSave(d) EXCEPT !.backstop = FALSE])
    ELSE Write(d)

\* documentChanged(): a keystroke, or the event of a late editor's own apply.
PublishesInFlight(d) ==
    IF ~d.front \/ d.buffer \in {Closed, d.replica} THEN d ELSE Publish(MoveSave(d))
DocumentChanged(d) ==
    IF ~d.front \/ d.buffer = Closed THEN d
    ELSE IF d.buffer = d.replica THEN ResumeSave(d)
    ELSE IF d.flight # NoFlight
    THEN [PauseSave(d) EXCEPT !.flight.moved = TRUE, !.pending = TRUE]
    ELSE IF PublishRefused(d) THEN Publish(MoveSave(d))
    ELSE [Publish(MoveSave(d)) EXCEPT !.backstop = TRUE]

-----------------------------------------------------------------------------
\* Replica to buffer.

\* The change reaches the buffer as it is by now.
Landed(d) ==
    [d EXCEPT !.buffer = (@ \ d.flight.cut) \cup d.flight.add, !.flight.landed = TRUE]

\* issue(): the editor is asked for one change, and this one lands it at once.
Issue(d, cut, add) ==
    LET asked == [d EXCEPT !.flight =
                    [replica |-> d.replica, before |-> d.buffer, cut |-> cut, add |-> add,
                     moved |-> FALSE, landed |-> FALSE]]
    IN  IF late THEN asked ELSE Landed(asked)

Reconcile(d) ==
    IF d.flight # NoFlight THEN [PauseSave(d) EXCEPT !.pending = TRUE]
    ELSE IF d.buffer = Closed THEN d
    ELSE IF Lone(d.buffer) \/ Lone(d.replica)
    THEN Told([PauseSave(d) EXCEPT !.backstop = FALSE])
    ELSE IF d.buffer = d.replica
    THEN ResumeSave([d EXCEPT !.attempts = 0, !.backstop = FALSE])
    ELSE [ScheduleSave(Issue(d, d.buffer \ d.replica, d.replica \ d.buffer))
            EXCEPT !.backstop = TRUE]

ForgetsPending(d)  == [d EXCEPT !.pending = FALSE]
ReconcilePending(d) ==
    IF d.pending THEN Reconcile([d EXCEPT !.pending = FALSE]) ELSE d

\* refuse()
Refuse(d, moved) ==
    LET n == d.attempts + 1 IN
    IF n < MaxAttempts
    THEN Reconcile([(IF moved /\ n = 1 THEN Told(d) ELSE d) EXCEPT !.attempts = n])
    ELSE Told([d EXCEPT !.attempts = n, !.pending = FALSE, !.backstop = FALSE])

\* What settle() makes of a buffer that is neither what the change was to leave
\* nor what the replica holds.
DivergesUntold(d, f) ==
    IF d.buffer \in {Closed, f.replica, d.replica} \/ d.replica # f.replica THEN d ELSE Publish(d)
Resolve(d, f) ==
    IF d.buffer \in {Closed, f.replica, d.replica} THEN d
    ELSE IF d.replica # f.replica THEN Told(d)
    ELSE IF d.buffer = f.before /\ ~f.moved THEN d
    ELSE IF PublishRefused(d)
    THEN [Publish(d) EXCEPT !.pending = FALSE, !.backstop = FALSE]
    ELSE Publish(d)

Settle(d, applied) ==
    LET f == d.flight
        e == [d EXCEPT !.flight = NoFlight]
    IN  IF ~d.front THEN e
        ELSE IF ~applied THEN ResumeSave(Refuse(e, f.moved))
        ELSE ResumeSave(ReconcilePending(Resolve([e EXCEPT !.attempts = 0], f)))

-----------------------------------------------------------------------------
\* Opening, holding and closing.

SeedFails(d) == role = "host" /\ ~d.seeded /\ SeedRefusal(d.buffer)

\* The insert of a disk copy, only into a replica that has nothing for the path.
CopyIntoEmpty(d, text) ==
    IF d.replica # {} THEN d
    ELSE [d EXCEPT !.has = TRUE, !.replica = text, !.seeds = @ + 1]
InsertCopy(d, text) ==
    IF d.has THEN d
    ELSE [d EXCEPT !.has = TRUE, !.replica = text, !.ever = @ \cup text,
                   !.stirred = TRUE, !.seeds = @ + 1]

Seed(d) ==
    IF role # "host" \/ d.seeded THEN d
    ELSE InsertCopy([d EXCEPT !.seeded = TRUE], d.buffer)

Hold(d)    == [d EXCEPT !.asks = @ + 1, !.holding = TRUE]
Release(d) == IF d.held THEN [d EXCEPT !.held = FALSE, !.holding = FALSE] ELSE d

\* What a close and a refused hold both take away.
Forget(d) ==
    [d EXCEPT !.unarrived = FALSE, !.front = FALSE, !.flight = NoFlight,
              !.stale = @ \/ d.flight # NoFlight,
              !.save = "none", !.backstop = FALSE, !.pending = FALSE, !.attempts = 0]

\* The document goes in front of the bridge, unless its text may not be shared.
PutInFront(d) ==
    IF SeedFails(d) THEN SayRefusal([d EXCEPT !.front = FALSE])
    ELSE Reconcile(Seed([d EXCEPT !.front = TRUE]))

DocumentOpened(d) ==
    IF role = "guest" /\ ~d.has /\ d.buffer # {}
    THEN Hold([d EXCEPT !.unarrived = TRUE, !.own = IF d.front THEN @ ELSE @ \cup d.buffer])
    ELSE IF SeedFails(d) THEN PutInFront(d) ELSE Hold(PutInFront(d))

Arrive(d) ==
    IF d.buffer = Closed THEN [d EXCEPT !.unarrived = FALSE]
    ELSE PutInFront([d EXCEPT !.unarrived = FALSE])

-----------------------------------------------------------------------------
(* The editor.  In this repository's, a promise settles in the task that   *)
(* asked: the person, the room and the timers come after it.               *)

Quiet == ~disposed /\ (late \/ s.flight = NoFlight)

\* The model exists from here on; an event may be fired again for one that does.
Open(text) ==
    /\ Quiet /\ opens < MaxOpens
    /\ opens' = opens + 1 /\ s' = DocumentOpened([s EXCEPT !.buffer = text])
    /\ UNCHANGED <<fixed, disposed, refusals, turns>>

\* What a new model is made from: the file, the replica, or nothing yet.
Texts == IF s.buffer = Closed THEN {Disk, s.replica, {}} ELSE {s.buffer}

\* documentClosed(), and the model goes.
Close ==
    /\ Quiet /\ s.buffer # Closed
    /\ s' = [Release(Forget(s)) EXCEPT !.seeded = FALSE, !.said = FALSE,
                                  !.buffer = Closed, !.own = {}]
    /\ UNCHANGED <<fixed, disposed, opens, refusals, turns>>

\* The person types a mark or takes one out.
Type(m) ==
    /\ Quiet /\ s.buffer # Closed /\ m \notin s.typed
    /\ s' = DocumentChanged([s EXCEPT
                !.buffer = @ \cup {m}, !.typed = @ \cup {m},
                !.own = IF s.unarrived /\ ~s.front THEN @ \cup {m} ELSE @,
                !.loose = IF ~s.front \/ s.attempts > 0 THEN @ \cup {m} ELSE @])
    /\ UNCHANGED <<fixed, disposed, opens, refusals, turns>>

Cut(m) ==
    /\ Quiet /\ s.buffer # Closed /\ m \in s.buffer /\ Cardinality(s.cut \ {m}) < MaxCuts
    /\ s' = DocumentChanged([s EXCEPT !.buffer = @ \ {m}, !.cut = @ \cup {m}])
    /\ UNCHANGED <<fixed, disposed, opens, refusals, turns>>

InFlight == ~disposed /\ s.flight # NoFlight

\* A late editor: the change lands, and its event is the bridge's like any other ...
Lands ==
    /\ InFlight /\ ~s.flight.landed
    /\ s' = DocumentChanged(Landed(s))
    /\ UNCHANGED <<fixed, disposed, opens, refusals, turns>>

\* ... and only then the promise resolves.
Settles ==
    /\ InFlight /\ s.flight.landed
    /\ s' = Settle(s, TRUE)
    /\ UNCHANGED <<fixed, disposed, opens, refusals, turns>>

Refuses ==
    /\ InFlight /\ ~s.flight.landed /\ refusals < MaxRefusals
    /\ s' = Settle(s, FALSE) /\ refusals' = refusals + 1
    /\ UNCHANGED <<fixed, disposed, opens, turns>>

\* The promise rejects: issue()'s catch.
Fails ==
    /\ InFlight /\ ~s.flight.landed /\ refusals < MaxRefusals
    /\ s' = ResumeSave(ReconcilePending(Told([s EXCEPT !.flight = NoFlight])))
    /\ refusals' = refusals + 1
    /\ UNCHANGED <<fixed, disposed, opens, turns>>

\* The promise of an apply that a close or a refused hold disowned.
StaleSettles ==
    /\ s.stale /\ s' = [s EXCEPT !.stale = FALSE]
    /\ UNCHANGED <<fixed, disposed, opens, refusals, turns>>

-----------------------------------------------------------------------------
\* Timers.  A save is armed no earlier than a backstop that is armed, and for
\* longer (500 ms and 100 ms): it waits for it.

BackstopFires ==
    /\ Quiet /\ s.backstop
    /\ LET d == [s EXCEPT !.backstop = FALSE] IN
       s' = IF ~d.front THEN d
            ELSE IF d.flight # NoFlight THEN [d EXCEPT !.pending = TRUE]
            ELSE IF Lone(d.buffer) \/ Lone(d.replica) THEN Reconcile(d)
            ELSE IF d.buffer = d.replica THEN d
            ELSE ScheduleSave(Issue(Told(d), d.buffer, d.replica))
    /\ UNCHANGED <<fixed, disposed, opens, refusals, turns>>

SavesInFlight ==
    /\ Quiet /\ s.save = "armed" /\ ~s.backstop /\ s.buffer # Closed
    /\ s' = [s EXCEPT !.save = "none"]
    /\ UNCHANGED <<fixed, disposed, opens, refusals, turns>>
SaveFires ==
    /\ Quiet /\ s.save = "armed" /\ ~s.backstop
    /\ s' = IF s.buffer = Closed \/ s.flight # NoFlight \/ Lone(s.buffer) \/ Lone(s.replica)
            THEN PauseSave(s)
            ELSE [s EXCEPT !.save = "none"]
    /\ UNCHANGED <<fixed, disposed, opens, refusals, turns>>

-----------------------------------------------------------------------------
\* Holds, and files the room asks for.

\* A hold's answer, whatever became of the document since it was asked for.
HoldGranted ==
    /\ s.asks > 0
    /\ LET d == [s EXCEPT !.asks = @ - 1, !.held = TRUE] IN
       s' = IF d.unarrived /\ d.has THEN Arrive(d)
            ELSE IF ~d.front /\ ~d.unarrived THEN Release(d)
            ELSE d
    /\ UNCHANGED <<fixed, disposed, opens, refusals, turns>>

\* The room refuses no second hold on what a client already holds.
HoldRefused ==
    /\ s.asks > 0 /\ ~s.held
    /\ s' = Told([Forget(s) EXCEPT !.asks = @ - 1, !.holding = s.asks > 1])
    /\ UNCHANGED <<fixed, disposed, opens, refusals, turns>>

\* seedRequested() on an open set that names the path, and on one that does not.
Named ==
    /\ Quiet /\ role = "host" /\ ~s.requested /\ ~s.front
    /\ s.queued + s.reading < MaxReads
    /\ s' = [s EXCEPT !.requested = TRUE, !.queued = @ + 1]
    /\ UNCHANGED <<fixed, disposed, opens, refusals, turns>>

Unnamed ==
    /\ Quiet /\ s.requested /\ s' = [s EXCEPT !.requested = FALSE]
    /\ UNCHANGED <<fixed, disposed, opens, refusals, turns>>

\* pumpReads(): its turn comes, and a path the room closed meanwhile is not read.
ReadStarts ==
    /\ ~disposed /\ s.queued > 0
    /\ s' = [s EXCEPT !.queued = @ - 1, !.reading = IF s.requested THEN @ + 1 ELSE @]
    /\ UNCHANGED <<fixed, disposed, opens, refusals, turns>>

ReadEnds ==
    /\ s.reading > 0
    /\ LET d == [s EXCEPT !.reading = @ - 1] IN
       \/ s' = d                                           \* refused, or it throws
       \/ s' = IF SeedRefusal(Disk) THEN d ELSE InsertCopy(d, Disk)
    /\ UNCHANGED <<fixed, disposed, opens, refusals, turns>>

-----------------------------------------------------------------------------
\* The room.

\* The engine's documentChanged, in the step that moved the replica.
OnDocumentChanged(d) == IF d.unarrived THEN Arrive(d) ELSE Reconcile(d)

RoomWrites(text) ==
    /\ Quiet /\ turns < MaxTurns /\ (text # s.replica \/ ~s.has)
    /\ turns' = turns + 1
    /\ s' = OnDocumentChanged([s EXCEPT !.replica = text, !.has = TRUE, !.stirred = FALSE,
                                        !.ever = @ \cup text])
    /\ UNCHANGED <<fixed, disposed, opens, refusals>>

\* One mark more, one less, or an empty document published.
RoomTexts == {s.replica \cup {m} : m \in Remote \ s.ever} \cup {s.replica \ {m} : m \in s.replica}
             \cup {s.replica}

\* A text of this client's own is told of with the next frame.
Echo ==
    /\ Quiet /\ s.stirred
    /\ s' = OnDocumentChanged([s EXCEPT !.stirred = FALSE])
    /\ UNCHANGED <<fixed, disposed, opens, refusals, turns>>

\* A text attached without an event, which the hold's answer finds.
ArrivesSilently ==
    /\ Quiet /\ s.unarrived /\ ~s.front /\ s.asks > 0 /\ ~s.has
    /\ \E m \in Remote \ s.ever : s' = [s EXCEPT !.has = TRUE, !.replica = {m}, !.ever = @ \cup {m}]
    /\ UNCHANGED <<fixed, disposed, opens, refusals, turns>>

Dispose ==
    /\ ~disposed /\ disposed' = TRUE
    /\ s' = [Fresh EXCEPT !.has = s.has, !.replica = s.replica, !.seeds = s.seeds,
                          !.asks = s.asks, !.holding = s.holding, !.reading = s.reading]
    /\ UNCHANGED <<fixed, opens, refusals, turns>>

Next ==
    \/ \E text \in Texts : Open(text)
    \/ Close
    \/ \E m \in Local : Type(m)
    \/ \E m \in Marks : Cut(m)
    \/ Lands \/ Settles \/ Refuses \/ Fails \/ StaleSettles
    \/ BackstopFires \/ SaveFires
    \/ HoldGranted \/ HoldRefused
    \/ Named \/ Unnamed \/ ReadStarts \/ ReadEnds
    \/ \E text \in RoomTexts : RoomWrites(text)
    \/ Echo \/ ArrivesSilently \/ Dispose

\* An editor answers, and the backstop's timer fires.
Fairness == WF_vars(Lands \/ Refuses \/ Fails) /\ WF_vars(Settles) /\ WF_vars(BackstopFires)

Spec == Init /\ [][Next]_vars /\ Fairness

-----------------------------------------------------------------------------
Flight ==
    [replica : SUBSET Marks, before : SUBSET Marks, cut : SUBSET Marks, add : SUBSET Marks,
     moved : BOOLEAN, landed : BOOLEAN]
Document ==
    [buffer : (SUBSET Marks) \cup {Closed}, replica : SUBSET Marks, has : BOOLEAN,
     front : BOOLEAN, unarrived : BOOLEAN, seeded : BOOLEAN, said : BOOLEAN,
     flight : Flight \cup {NoFlight}, pending : BOOLEAN, attempts : Nat, stale : BOOLEAN,
     save : {"none", "armed", "paused"}, backstop : BOOLEAN,
     asks : Nat, held : BOOLEAN, holding : BOOLEAN,
     requested : BOOLEAN, queued : Nat, reading : Nat, stirred : BOOLEAN,
     ever : SUBSET Marks, typed : SUBSET Marks, cut : SUBSET Marks, own : SUBSET Marks,
     heard : SUBSET Marks, refused : SUBSET Marks, loose : SUBSET Marks,
     seeds : Nat]

TypeOK ==
    /\ role \in {"host", "guest"} /\ late \in BOOLEAN
    /\ disposed \in BOOLEAN /\ opens \in 0..MaxOpens /\ refusals \in 0..MaxRefusals
    /\ turns \in 0..MaxTurns
    /\ s \in Document

Excused(d) == d.ever \cup d.heard \cup d.refused \cup d.loose

\* What the person typed leaves the buffer by the bridge's hand only if the room had it,
\* the person was told the texts were apart, the room refused to carry it, or it was
\* typed under a retry of a refused apply or into a document not in front.
LossIsTold ==
    [][s'.buffer # Closed => (s.buffer \cap Local) \ (s'.buffer \cup s'.cut) \subseteq Excused(s')]_vars

\* A publication changes the room by what the person did, or by what the two texts were
\* known to differ in.  It takes nothing out that the buffer was merely behind on, and puts
\* nothing in that a guest's buffer held before the room's text arrived.
PublishesWhatWasDone ==
    [][turns' = turns => /\ s.replica \ s'.replica \subseteq s'.cut \cup s.heard
                         /\ (s'.replica \ s.replica) \cap s.own \subseteq s.heard]_vars

\* The file of a session lacks nothing of the room's text but what the person took out or
\* was told of, and has nothing the room has not but what they were told of or the room
\* refused to carry: no save falls while the buffer is behind the replica, or ahead of it.
SavedOrTold ==
    [][(s.save = "armed" /\ s'.save = "none" /\ s'.front) =>
          /\ s.replica \ s.buffer \subseteq s.heard \cup s.cut
          /\ s.buffer \ s.replica \subseteq s.heard \cup s.refused]_vars

\* However opens, closes, holds and reads fell, a document is entered once: one copy from
\* the disk at most is in the room, and with no answer outstanding the room counts this
\* client as a holder exactly of a document it has.
EnteredOnce ==
    /\ s.seeds <= 1
    /\ (s.asks = 0 /\ ~disposed) => s.holding = (s.front \/ s.unarrived)

\* Buffer and room do not stay apart in anything the person was not told of.
ApartQuietly == /\ ~disposed /\ s.front /\ ~s.said
                /\ ~(Diff(s) \subseteq s.heard)
Converges == []<>~ApartQuietly

\* "A refused publish leaves the buffer alone": the bridge converges it to the replica
\* when nothing else is left to do, "which is exactly what must not happen to text the
\* room refused to carry" (bridge.ts:388).
RefusedTextStays ==
    [][s'.buffer # Closed => (s.buffer \cap s.refused) \ (s'.buffer \cup s'.cut) \subseteq s.ever]_vars
=============================================================================
