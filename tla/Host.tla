-------------------------------- MODULE Host --------------------------------
(***************************************************************************)
(* The host's producer (src/src/engine/host.ts, class HostProducer) with   *)
(* the half of PeerSession that drives it (src/src/engine/peer.ts) and the *)
(* timer of RelaySession that ticks it (src/src/engine/relay.ts).          *)
(*                                                                         *)
(* A host tells its room one thing, the room state: an edition number, the *)
(* listing, and the keys that may publish.  Every handler that changes one *)
(* of these publishes before the next handler runs, so one action here is  *)
(* one handler and its publication.  The exceptions are what the module is *)
(* about: an answer to an announcement is deferred by a rate window, a     *)
(* seal can fail, and the process can die between any two handlers.        *)
(*                                                                         *)
(* Times are kept as ages that stop at the length the code compares them   *)
(* with, so that time is unbounded: sinceAnswer is clock - windowFrom, and *)
(* Renew also stands for an undefined windowFrom, which opens the window   *)
(* as well.  Frames are counted in the module FrameBudget; here the count  *)
(* reaching the budget is the event BudgetReached.                         *)
(***************************************************************************)
EXTENDS Seating

CONSTANTS
    Listings,     \* what the host's working tree can list
    NoState,      \* no state published by this process
    NoFrame,      \* a step that queued no frame
    Renew,        \* awareness_renew_ms: the length of the publish window
    Expire,       \* awareness_expire_ms: the host-away window
    SealMayFail,  \* whether the platform's crypto can refuse to seal a frame
    HasStore,     \* whether the adapter handed in a HostStore
    MaxEdition,   \* bound: no event is taken at an edition above this one
    MaxCommits,   \* bound: commitments of one process
    MaxLives      \* bound: processes of this host, the first one included

ASSUME HostAssumption ==
    /\ Renew \in Nat \ {0}
    /\ Expire \in Nat /\ Expire >= Renew
    /\ SealMayFail \in BOOLEAN
    /\ HasStore \in BOOLEAN
    /\ MaxEdition \in Nat /\ MaxCommits \in Nat /\ MaxLives \in Nat

\* What a state frame carries, the host's own entry apart: every process mints a
\* session key of its own, so that entry is known from the process that signed.
States == [issued : Nat, listing : Listings, peers : Peers]

\* What history keeps of a frame the host key signed: its edition, its kind, and
\* the process that signed it.
Frames == [issued : Nat, kind : {"state", "closing"}, host : Nat]

Reasons == {"mint", "roster", "listing", "announcement", "closing"}
Pushes == [issued : Nat, why : Reasons, fresh : BOOLEAN]

ASSUME AbsenceAssumption ==
    NoState \notin States /\ NoFrame \notin Pushes

VARIABLES
    \* --- the process and its PeerSession
    up,          \* the process runs and create() handed a session over
    life,        \* how many processes have tried to host the room
    ended,       \* PeerSession.ending: "no", "closing", "frame-budget", "host-away"
    spent,       \* roomFrames >= frameBudget
    held,        \* reader.issued: the highest edition this session applied, 0 for none
    heldFrom,    \* the process whose key that state's host entry names
    away,        \* clock - hostAwaySince, at most Expire, or NotAway
    \* --- HostProducer
    roster, seats, order, gone, closed, faulted,
    issued, verified, owed, sinceAnswer, lastState,
    tree,        \* what options.listing() would return now
    \* --- HostStore: the issued it holds, 0 while it holds nothing
    store,
    \* --- RelaySession's tick: time to the armed timer, and to the grid (tickAt)
    timer, grid,
    \* --- history, for the properties only
    sealed,      \* every frame the host key ever signed
    push,        \* the frame the last step queued, if it queued one: its edition,
                 \* what asked for it, and whether it was signed for it
    quiet        \* time since the last answer was queued, at most Renew

processVars  == <<up, life, ended, spent, held, heldFrom, away>>
producerVars == <<roster, seats, order, gone, closed, faulted,
                  issued, verified, owed, sinceAnswer, lastState, tree>>
timerVars    == <<timer, grid>>
historyVars  == <<sealed, push, quiet>>
vars == <<processVars, producerVars, store, timerVars, historyVars>>

-----------------------------------------------------------------------------
Ready == ~gone /\ ~closed
WindowOpensEarly == sinceAnswer > 0
WindowOpen == sinceAnswer >= Renew
Larger(a, b) == IF a > b THEN a ELSE b
Smaller(a, b) == IF a < b THEN a ELSE b
NextIssued == Larger(issued, verified) + 1

SealOutcomes == IF SealMayFail THEN BOOLEAN ELSE {TRUE}

\* refreshHostAway(): the applied state's host entry labels a seat the roster
\* lacks, which an earlier process's seat always is.
NotAway == -1
RefreshAway(r, h, from, restart) ==
    IF h = 0 \/ (from = life /\ OwnSeat \in Seated(r)) THEN NotAway
    ELSE IF restart \/ away = NotAway THEN 0
    ELSE away

\* arm(): the next tick is at the grid or at owedAt(), whichever comes first.
\* Its floor of one millisecond is below the unit of time used here.
ArmsTheGridOnly(owes, since, gridIn) == gridIn
Arm(owes, since, gridIn) ==
    IF owes THEN Smaller(Renew - since, gridIn) ELSE gridIn
ArmNow == timer' = Arm(owed' /\ ~gone' /\ ~closed', sinceAnswer', grid')

\* commitSeries(): the store has the edition before the frame can leave.
SavesThePrevious(n) == store' = IF HasStore THEN issued ELSE store
SaveSeries(n) == store' = IF HasStore THEN n ELSE store

-----------------------------------------------------------------------------
\* publishState(reason): reads what the handler has just written to the roster
\* and the seats; o is whether an answer is owed when it is called.
PublishesUnlessRoster(reason, o) ==
    /\ ~spent /\ ~gone' /\ ~closed /\ reason # "roster"
    /\ reason = "announcement" => o /\ WindowOpen
PublishesAfterClosing(reason, o) ==
    /\ ~spent /\ ~gone'
    /\ reason = "announcement" => o /\ WindowOpen
Publishes(reason, o) ==
    /\ ~spent /\ ~gone' /\ ~closed
    /\ reason = "announcement" => o /\ WindowOpen

NewState == [issued |-> NextIssued, listing |-> tree',
             peers |-> PeerEntries(roster', seats')]

UnchangedSinceOwn(f) == /\ f # NoState
                        /\ f.listing = NewState.listing
                        /\ f.peers = NewState.peers
Unchanged(f) == /\ f # NoState
                /\ f.issued >= verified
                /\ f.listing = NewState.listing
                /\ f.peers = NewState.peers

Pushed(n, reason, fresh) == [issued |-> n, why |-> reason, fresh |-> fresh]
QueuesNothing == push' = NoFrame /\ UNCHANGED <<sealed, quiet>>
Signed(n, kind, by) == sealed' = sealed \cup {[issued |-> n, kind |-> kind, host |-> by]}

Queue(n, reason, fresh) ==
    /\ push' = Pushed(n, reason, fresh)
    /\ quiet' = IF reason = "announcement" THEN 0 ELSE quiet
    /\ sinceAnswer' = IF reason = "announcement" THEN 0 ELSE sinceAnswer

Silent ==
    /\ UNCHANGED <<issued, verified, lastState, store, sinceAnswer, held, heldFrom>>
    /\ QueuesNothing

\* The four outcomes of publishState.  o: an answer is owed; a: the host-away
\* clock as the handler leaves it, which only an applied state restarts.

\* Nothing is due, and what was owed stays owed.
Withhold(reason, o, a) ==
    /\ ~Publishes(reason, o)
    /\ owed' = o
    /\ away' = a
    /\ UNCHANGED faulted /\ Silent

\* The state this host published last still says it all: the frame goes again.
Resend(reason, o, a) ==
    /\ Publishes(reason, o) /\ Unchanged(lastState)
    /\ owed' = FALSE
    /\ Queue(lastState.issued, reason, FALSE)
    /\ away' = a
    /\ UNCHANGED <<issued, verified, lastState, store, sealed, faulted, held, heldFrom>>

\* A new edition: saved, queued, and applied to this host's own reader.
PublishNew(reason, o) ==
    /\ Publishes(reason, o) /\ ~Unchanged(lastState)
    /\ owed' = FALSE
    /\ issued' = NextIssued
    /\ SaveSeries(NextIssued)
    /\ lastState' = NewState
    /\ Signed(NextIssued, "state", life)
    /\ Queue(NextIssued, reason, TRUE)
    /\ held' = NextIssued /\ heldFrom' = life
    /\ verified' = Larger(verified, NextIssued)
    /\ away' = RefreshAway(roster', NextIssued, life, TRUE)
    /\ UNCHANGED faulted

\* The seal fails after the debt was written off.
SealFails(reason, o, a) ==
    /\ Publishes(reason, o) /\ ~Unchanged(lastState)
    /\ FALSE \in SealOutcomes
    /\ owed' = FALSE
    /\ faulted' = TRUE
    /\ away' = a
    /\ Silent

PublishState(reason, o, a) ==
    \/ Withhold(reason, o, a)
    \/ Resend(reason, o, a)
    \/ PublishNew(reason, o)
    \/ SealFails(reason, o, a)

\* closing(): the last edition of this process.  Nothing is said if the seal fails.
Close ==
    /\ issued' = NextIssued
    /\ SaveSeries(NextIssued)
    /\ Signed(NextIssued, "closing", life)
    /\ Queue(NextIssued, "closing", TRUE)
    /\ closed' = TRUE
    /\ UNCHANGED faulted

NotClosed ==
    /\ \/ ~Ready /\ UNCHANGED faulted
       \/ Ready /\ FALSE \in SealOutcomes /\ faulted' = TRUE
    /\ QueuesNothing
    /\ UNCHANGED <<issued, store, sinceAnswer, closed>>

-----------------------------------------------------------------------------
\* The process

\* What a process has before create() has run, and what is left of it when it dies.
Blank ==
    /\ ended = "no" /\ held = 0 /\ heldFrom = 0 /\ away = NotAway
    /\ roster = <<>> /\ seats = Empty /\ order = 0
    /\ gone = FALSE /\ closed = FALSE /\ faulted = FALSE
    /\ issued = 0 /\ verified = 0 /\ owed = FALSE /\ sinceAnswer = Renew
    /\ lastState = NoState
    /\ timer = Renew /\ grid = Renew /\ quiet = Renew

Forget ==
    /\ ended' = "no" /\ held' = 0 /\ heldFrom' = 0 /\ away' = NotAway
    /\ roster' = <<>> /\ seats' = Empty /\ order' = 0
    /\ gone' = FALSE /\ closed' = FALSE /\ faulted' = FALSE
    /\ issued' = 0 /\ verified' = 0 /\ owed' = FALSE /\ sinceAnswer' = Renew
    /\ lastState' = NoState
    /\ timer' = Renew /\ grid' = Renew /\ quiet' = Renew

Init ==
    /\ Blank
    /\ up = FALSE /\ life = 0 /\ spent = FALSE
    /\ tree \in Listings
    /\ store = 0
    /\ sealed = {}
    /\ push = NoFrame

Within == issued < MaxEdition /\ order < MaxCommits

\* PeerSession.create with a HostOptions: everything the process kept is fresh,
\* except what the store has.  overBudget is the count it loads, charged for the
\* absence, having reached the budget; it can only have grown.
Loaded == IF HasStore THEN store ELSE 0
MintState == [issued |-> Loaded + 1, listing |-> tree,
              peers |-> Empty]

Fresh ==
    /\ roster' = <<OwnSeat>>
    /\ life' = life + 1
    /\ UNCHANGED <<ended, seats, order, gone, closed, faulted, owed, sinceAnswer,
                    quiet, away, timer, grid, tree>>

\* The mint state goes out before the session is handed over...
CreateAndMint ==
    /\ ~up /\ life < MaxLives /\ Within
    /\ spent => ~HasStore
    /\ Fresh /\ up' = TRUE /\ spent' = FALSE
    /\ issued' = MintState.issued /\ verified' = MintState.issued
    /\ held' = MintState.issued /\ heldFrom' = life + 1
    /\ lastState' = MintState
    /\ Signed(MintState.issued, "state", life + 1)
    /\ SaveSeries(MintState.issued)
    /\ push' = Pushed(MintState.issued, "mint", TRUE)

\* ... unless the loaded count is already at the budget, and a host whose mint
\* state cannot be sealed is not handed over at all.
CreateOverBudget ==
    /\ ~up /\ life < MaxLives /\ Within
    /\ HasStore /\ store # 0
    /\ Fresh /\ up' = TRUE /\ spent' = TRUE
    /\ issued' = Loaded /\ verified' = 0 /\ held' = 0 /\ heldFrom' = 0
    /\ lastState' = NoState
    /\ push' = NoFrame
    /\ UNCHANGED <<store, sealed>>

CreateFails ==
    /\ ~up /\ life < MaxLives
    /\ spent => ~HasStore
    /\ FALSE \in SealOutcomes
    /\ life' = life + 1
    /\ QueuesNothing
    /\ UNCHANGED <<up, ended, spent, held, heldFrom, away, producerVars, store,
                    timerVars>>

\* The process dies, or its page is reloaded: nothing is written on the way.
Crash ==
    /\ up
    /\ up' = FALSE
    /\ Forget
    /\ push' = NoFrame
    /\ UNCHANGED <<life, spent, tree, store, sealed>>

-----------------------------------------------------------------------------
\* What the relay delivers, one frame a drain, the timer armed after each

Live == up /\ ended = "no"

SeatJoined(s) ==
    /\ up /\ Within
    /\ roster' = Enter(roster, s)
    /\ gone' = (gone /\ s # OwnSeat)
    /\ UNCHANGED <<seats, order, closed, tree, up, life, ended, spent, grid>>
    /\ PublishState("roster", owed, away)
    /\ ArmNow

SeatLeft(s) ==
    /\ up /\ Within
    /\ roster' = RemoveFirst(roster, s)
    /\ gone' = (gone \/ s = OwnSeat)
    /\ seats' = Vacate(seats, s)
    /\ UNCHANGED <<order, closed, tree, up, life, ended, spent, grid>>
    /\ PublishState("roster", owed, RefreshAway(roster', held, heldFrom, FALSE))
    /\ ArmNow

\* hearAnnouncement: a key already committed is only owed an answer.
Announced(k, role) ==
    /\ up /\ Within
    /\ IF seats[k] # NoEntry
       THEN UNCHANGED <<seats, order>>
       ELSE seats' = Commit(k, role, roster, seats, order) /\ order' = order + 1
    /\ UNCHANGED <<roster, gone, closed, tree, up, life, ended, spent, grid>>
    /\ PublishState("announcement", TRUE, away)
    /\ ArmNow

\* A frame an earlier process of this host signed, sent again by a peer: the
\* reader takes only an edition above the one it holds.
HeardState(f) ==
    /\ up /\ f.kind = "state" /\ f.issued > held
    /\ held' = f.issued /\ heldFrom' = f.host
    /\ verified' = Larger(verified, f.issued)
    /\ away' = RefreshAway(roster, f.issued, f.host, TRUE)
    /\ UNCHANGED <<up, life, ended, spent, roster, seats, order, gone, closed, faulted,
                    issued, owed, sinceAnswer, lastState, tree, store, grid>>
    /\ QueuesNothing
    /\ ArmNow

HeardClosing(f) ==
    /\ up /\ f.kind = "closing" /\ held # 0 /\ f.issued > held
    /\ held' = f.issued
    /\ ended' = "closing"
    /\ UNCHANGED <<up, life, spent, heldFrom, away, producerVars, store, grid>>
    /\ QueuesNothing
    /\ ArmNow

\* One more frame counted, and the count is at the budget (see FrameBudget).
BudgetReached ==
    /\ Live /\ ~spent
    /\ spent' = TRUE
    /\ UNCHANGED <<up, life, ended, held, heldFrom, away, producerVars, store, grid>>
    /\ QueuesNothing
    /\ ArmNow

-----------------------------------------------------------------------------
\* What the adapter does

\* The working tree moves; the adapter says so in an action of its own, and any
\* state published in between lists the tree as it already is.
TreeMoves ==
    /\ up /\ Within
    /\ tree' \in Listings \ {tree}
    /\ UNCHANGED <<processVars, roster, seats, order, gone, closed, faulted, issued,
                    verified, owed, sinceAnswer, lastState, store, timerVars>>
    /\ QueuesNothing

ListingChanged ==
    /\ up /\ Within
    /\ UNCHANGED <<roster, seats, order, gone, closed, tree, up, life, ended, spent,
                    timerVars>>
    /\ PublishState("listing", owed, away)

CloseRoom ==
    /\ up
    /\ \/ Ready /\ Close /\ ended' = "closing"
       \/ NotClosed /\ UNCHANGED ended
    /\ UNCHANGED <<up, life, spent, held, heldFrom, away, roster, seats, order, gone,
                    verified, owed, lastState, tree, timerVars>>

-----------------------------------------------------------------------------
\* tickOne, in the order it runs: the host-away clock, the budget, the windows,
\* and then the answer that is owed.  Opening or releasing a path ticks too, so
\* a tick can come before its timer.

AwayNow == RefreshAway(roster, held, heldFrom, FALSE)
NextGrid == grid' = IF grid = 0 THEN Renew ELSE grid

TickOverBudget ==
    /\ Live /\ spent
    /\ \/ Ready /\ Close
       \/ NotClosed
    /\ ended' = "frame-budget"
    /\ away' = AwayNow
    /\ NextGrid
    /\ UNCHANGED <<up, life, spent, held, heldFrom, roster, seats, order, gone,
                    verified, owed, lastState, tree, timer>>

TickHostAway ==
    /\ Live /\ ~spent
    /\ AwayNow >= Expire
    /\ ended' = "host-away"
    /\ away' = AwayNow
    /\ NextGrid
    /\ UNCHANGED <<up, life, spent, held, heldFrom, producerVars, store, timer>>
    /\ QueuesNothing

TickAnswers ==
    /\ Live /\ ~spent
    /\ AwayNow < Expire
    /\ NextGrid
    /\ UNCHANGED <<roster, seats, order, gone, closed, tree, up, life, ended, spent>>
    /\ PublishState("announcement", owed, AwayNow)
    /\ ArmNow

Tick == TickOverBudget \/ TickHostAway \/ TickAnswers

\* Time passes until a timer is due, and then the timer runs.
Advance ==
    /\ Live /\ timer > 0
    /\ timer' = timer - 1
    /\ grid' = IF grid = 0 THEN 0 ELSE grid - 1
    /\ sinceAnswer' = Smaller(sinceAnswer + 1, Renew)
    /\ quiet' = Smaller(quiet + 1, Renew)
    /\ away' = IF away = NotAway THEN NotAway ELSE Smaller(away + 1, Expire)
    /\ UNCHANGED <<up, life, ended, spent, held, heldFrom, roster, seats, order, gone,
                    closed, faulted, issued, verified, owed, lastState, tree, store,
                    sealed>>
    /\ push' = NoFrame

Next ==
    \/ CreateAndMint \/ CreateOverBudget \/ CreateFails \/ Crash
    \/ \E s \in Seats : SeatJoined(s) \/ SeatLeft(s)
    \/ \E k \in Keys, role \in Roles : Announced(k, role)
    \/ \E f \in sealed : HeardState(f) \/ HeardClosing(f)
    \/ BudgetReached
    \/ TreeMoves \/ ListingChanged \/ CloseRoom
    \/ Tick \/ Advance

Spec == Init /\ [][Next]_vars

-----------------------------------------------------------------------------
TypeOK ==
    /\ up \in BOOLEAN /\ life \in Nat /\ spent \in BOOLEAN
    /\ ended \in {"no", "closing", "frame-budget", "host-away"}
    /\ held \in Nat /\ heldFrom \in Nat /\ away \in {NotAway} \cup 0..Expire
    /\ roster \in Seq(Seats)
    /\ seats \in Table /\ order \in Nat
    /\ gone \in BOOLEAN /\ closed \in BOOLEAN /\ faulted \in BOOLEAN
    /\ issued \in Nat /\ verified \in Nat /\ owed \in BOOLEAN
    /\ sinceAnswer \in 0..Renew
    /\ lastState \in States \cup {NoState} /\ tree \in Listings
    /\ store \in Nat /\ timer \in 0..Renew /\ grid \in 0..Renew
    /\ sealed \subseteq Frames
    /\ push \in Pushes \cup {NoFrame}
    /\ quiet \in 0..Renew

\* The host key's frames are one strictly rising series, across every crash and
\* reload of the host: commitSeries saves an edition before its frame is queued,
\* and create() continues the series it loads.
Authority == INSTANCE Authority WITH said <- sealed
SpeaksAsOneAuthority == Authority!Spec

\* The host never speaks below what the room may hold: every frame it queues,
\* a re-send included, is at or above every edition its reader has verified.
NeverBelowVerified ==
    [][push' # NoFrame => push'.issued >= verified]_vars

\* At most one key per seat in every state, the host's own seat excepted: that
\* one is the label of last resort, which evicts nobody.
OneKeyPerSeat ==
    lastState # NoState => \A j, k \in Keys :
        /\ lastState.peers[j] # NoEntry /\ lastState.peers[k] # NoEntry
        /\ lastState.peers[j].seat = lastState.peers[k].seat
        => j = k \/ lastState.peers[j].seat = OwnSeat

\* What the room was last told is what the host believes of its peers, unless
\* an answer is still owed or a seal failed: no roster change, no eviction and
\* no announcement is left untold between two handlers.
RoomIsTold ==
    up /\ Ready /\ ~spent /\ ~faulted /\ ~owed =>
        lastState # NoState /\ lastState.peers = PeerEntries(roster, seats)

\* Two answers to announcements are a window apart, whatever else is published
\* between them, so that a peer minting keys obliges one state a window.
AnswersAreRateBound ==
    [][push' # NoFrame /\ push'.why = "announcement" => quiet = Renew]_vars

\* An owed answer goes out when its window opens: the timer is never armed past
\* the end of the window, and so time never passes an open window by.
AnswerNotPassedOver ==
    Live /\ owed /\ Ready /\ ~spent => timer <= Renew - sinceAnswer

\* After a process has published its closing it queues nothing, and no frame of
\* that process is above it.
ClosingIsLast ==
    [][closed => push' = NoFrame]_vars
=============================================================================
