---------------------------- MODULE FrameBudget ----------------------------
(***************************************************************************)
(* The room's frame count, as its host keeps it (src/src/engine/host.ts:   *)
(* frames, savedFrames, savedAt; src/src/engine/peer.ts: roomFrames).      *)
(*                                                                         *)
(* Every frame sealed under the room's one frame key spends a nonce, so    *)
(* the host counts those it seals and those it is delivered, writes the    *)
(* count to its store on its ticks and beside every edition, and charges   *)
(* itself a fixed sum for every absence.  The count is right if it is      *)
(* never below the number of frames really sealed.                         *)
(*                                                                         *)
(* Ages stop at the length the code compares them with: savedAge is        *)
(* clock - savedAt, and Renew also stands for an undefined savedAt, which  *)
(* lets the next tick write as well.                                       *)
(***************************************************************************)
EXTENDS Integers

CONSTANTS
    Renew,         \* awareness_renew_ms
    Budget,        \* FRAME_BUDGET
    Charge,        \* ABSENCE_CHARGE
    Rate,          \* frames the room seals in one unit of time, at most
    MaxInFlight,   \* frames sealed by peers and not yet delivered to the host
    AwayFrames,    \* frames sealed while the host is away, at most
    MaxLives       \* bound: processes of this host

\* The charge is what one absence can hide: what was counted and never written,
\* what was on its way, and what was sealed while nobody counted.
ASSUME BudgetAssumption ==
    /\ Renew \in Nat \ {0} /\ Budget \in Nat /\ Charge \in Nat
    /\ Rate \in Nat \ {0} /\ MaxInFlight \in Nat /\ AwayFrames \in Nat
    /\ MaxLives \in Nat
    /\ Charge >= Rate * (2 * Renew + 1) + MaxInFlight + AwayFrames

VARIABLES
    up,          \* the host's process runs
    seated,      \* ... and its connection is seated
    life,        \* processes so far
    closed,      \* the session has ended
    roomFrames,  \* the count, PeerSession's and HostProducer's
    store,       \* the count the store holds, or Nothing before the first write
    savedFrames, \* the count the producer believes the store holds
    savedAge,    \* time since the last write, at most Renew
    grid,        \* time to the next tick of the ordinary grid
    inFlight,    \* frames of peers on their way to the host
    burst,       \* frames the room may still seal in this unit of time
    away,        \* frames the room may still seal in this absence
    total,       \* history: every frame sealed under the frame key
    unsaved      \* history: time for which the count has differed from the store

budgetVars == <<up, seated, life, closed, roomFrames, store, savedFrames, savedAge, grid,
                inFlight, burst, away, total, unsaved>>

Nothing == -1

BudgetInit ==
    /\ up = FALSE /\ seated = FALSE /\ life = 0 /\ closed = FALSE
    /\ roomFrames = 0 /\ store = Nothing /\ savedFrames = 0
    /\ savedAge = Renew /\ grid = Renew
    /\ inFlight = 0 /\ burst = Rate /\ away = AwayFrames
    /\ total = 0 /\ unsaved = 0

Live == up /\ ~closed
Smaller(a, b) == IF a < b THEN a ELSE b

\* save(): count n is what the store has from now on, written at age a.
Save(n, a) == store' = n /\ savedFrames' = n /\ savedAge' = a /\ unsaved' = 0
NoSave     == UNCHANGED <<store, savedFrames, savedAge, unsaved>>

\* countFrame() for a frame the host itself seals.
SealsAnother ==
    /\ burst > 0
    /\ roomFrames' = roomFrames + 1 /\ total' = total + 1 /\ burst' = burst - 1

\* create(): the stored count and the charge; the first process starts at 0.
CountForgetsTheCharge == IF store = Nothing THEN 0 ELSE store
LoadedFrames == IF store = Nothing THEN 0 ELSE store + Charge

Starts ==
    /\ ~up /\ life < MaxLives
    /\ up' = TRUE /\ seated' = TRUE /\ life' = life + 1
    /\ inFlight' = 0 /\ grid' = Renew /\ away' = AwayFrames
    /\ UNCHANGED closed

\* The mint state's edition is saved before the frame is counted.
Create ==
    /\ Starts
    /\ LoadedFrames < Budget /\ burst > 0
    /\ Save(LoadedFrames, 0)
    /\ roomFrames' = LoadedFrames + 1 /\ total' = total + 1 /\ burst' = burst - 1

\* A count already at the budget seals no mint state and writes nothing yet.
CreateOverBudget ==
    /\ Starts
    /\ LoadedFrames >= Budget
    /\ roomFrames' = LoadedFrames
    /\ savedFrames' = store /\ savedAge' = Renew /\ unsaved' = 0
    /\ UNCHANGED <<store, total, burst>>

Crash ==
    /\ up
    /\ up' = FALSE /\ seated' = FALSE /\ closed' = FALSE
    /\ roomFrames' = 0 /\ savedFrames' = 0 /\ savedAge' = Renew /\ grid' = Renew
    /\ inFlight' = 0 /\ unsaved' = 0
    /\ UNCHANGED <<life, store, burst, away, total>>

\* detach(): the connection is gone with what was on its way; the clocks go on.
HostDetaches ==
    /\ Live /\ seated
    /\ seated' = FALSE /\ inFlight' = 0
    /\ UNCHANGED <<up, life, closed, roomFrames, grid, burst, away, total>>
    /\ NoSave

\* reseat(): a return in the same process is charged and written at once.  Each
\* return of the bound is a life.
Reseat ==
    /\ Live /\ ~seated /\ life < MaxLives
    /\ seated' = TRUE /\ life' = life + 1 /\ away' = AwayFrames
    /\ roomFrames' = roomFrames + Charge
    /\ Save(roomFrames', savedAge)
    /\ UNCHANGED <<up, closed, grid, inFlight, burst, total>>

\* publish(): a frame of the host's own session, written at the next flush.
MayPublish == Live /\ seated /\ roomFrames < Budget

SealContent ==
    /\ MayPublish
    /\ SealsAnother
    /\ NoSave
    /\ UNCHANGED <<up, seated, life, closed, grid, inFlight, away>>

\* publishState(): commitSeries writes the count as it is, then the fresh frame is
\* counted.
SealState ==
    /\ Live /\ roomFrames < Budget
    /\ SealsAnother
    /\ Save(roomFrames, 0)
    /\ UNCHANGED <<up, seated, life, closed, grid, inFlight, away>>

\* closeRoom(): the closing is counted, and the count written with it.
SealClosing ==
    /\ Live
    /\ SealsAnother
    /\ Save(roomFrames', savedAge)
    /\ closed' = TRUE
    /\ UNCHANGED <<up, seated, life, grid, inFlight, away>>

\* Peers seal frames; deliverOne counts one when it is handed it.  Those nobody
\* counts are the ones of an absence, and of a room the host has ended.
PeerSeals ==
    /\ burst > 0 /\ life > 0
    /\ burst' = burst - 1 /\ total' = total + 1
    /\ IF Live /\ seated
       THEN inFlight < MaxInFlight /\ inFlight' = inFlight + 1 /\ UNCHANGED away
       ELSE away > 0 /\ away' = away - 1 /\ UNCHANGED inFlight
    /\ NoSave
    /\ UNCHANGED <<up, seated, life, closed, roomFrames, grid>>

Deliver ==
    /\ up /\ inFlight > 0
    /\ inFlight' = inFlight - 1
    /\ roomFrames' = roomFrames + 1
    /\ NoSave
    /\ UNCHANGED <<up, seated, life, closed, grid, burst, away, total>>

\* flushFrames() writes a count that differs, once a renewal has passed.
DueLater == roomFrames # savedFrames /\ savedAge > Renew
Due == roomFrames # savedFrames /\ savedAge >= Renew

\* The tick timer: on the grid, or sooner for a deadline of the session.
NextGrid == grid' = IF grid = 0 THEN Renew ELSE grid

\* tickOne(): flushFrames, and nothing else below the budget.
TickFlushes ==
    /\ Live /\ roomFrames < Budget
    /\ IF Due THEN Save(roomFrames, 0) ELSE NoSave
    /\ NextGrid
    /\ UNCHANGED <<up, seated, life, closed, roomFrames, inFlight, burst, away, total>>

\* budgetSpent(): the closing is the last frame, and the count is written with it.
TickCloses ==
    /\ Live /\ roomFrames >= Budget
    /\ SealsAnother
    /\ Save(roomFrames', IF Due THEN 0 ELSE savedAge)
    /\ closed' = TRUE
    /\ NextGrid
    /\ UNCHANGED <<up, seated, life, inFlight, away>>

\* Time passes up to the next grid tick.  Away from a live session it is free.
Advance ==
    /\ Live => grid > 0
    /\ grid' = IF Live THEN grid - 1 ELSE grid
    /\ savedAge' = Smaller(savedAge + 1, Renew)
    /\ unsaved' = IF Live /\ roomFrames # savedFrames
                  THEN Smaller(unsaved + 1, 2 * Renew) ELSE 0
    /\ burst' = Rate
    /\ UNCHANGED <<up, seated, life, closed, roomFrames, store, savedFrames, inFlight,
                   away, total>>

BudgetNext ==
    \/ Create \/ CreateOverBudget \/ Crash \/ HostDetaches \/ Reseat
    \/ SealContent \/ SealState \/ SealClosing
    \/ PeerSeals \/ Deliver
    \/ TickFlushes \/ TickCloses
    \/ Advance

BudgetSpec == BudgetInit /\ [][BudgetNext]_budgetVars

-----------------------------------------------------------------------------
BudgetTypeOK ==
    /\ up \in BOOLEAN /\ seated \in BOOLEAN /\ life \in Nat /\ closed \in BOOLEAN
    /\ roomFrames \in Nat /\ store \in Nat \cup {Nothing}
    /\ savedFrames \in Nat \cup {Nothing}
    /\ savedAge \in 0..Renew /\ grid \in 0..Renew
    /\ inFlight \in 0..MaxInFlight /\ burst \in 0..Rate /\ away \in 0..AwayFrames
    /\ total \in Nat /\ unsaved \in 0..(2 * Renew)

\* Below the budget a seated host never counts fewer frames than the room has
\* sealed, those on their way to it aside: what a crash loses and an absence hides
\* is in the charge.
CountCoversTheRoom ==
    seated /\ ~closed /\ roomFrames < Budget => total <= roomFrames + inFlight

\* The frames of a room stay inside its nonce budget over the lives of its host: the
\* count covers the room up to the budget, from there on the host seals one frame more,
\* the closing that ends it, and a change of the count is not unwritten for two renewals
\* (host.ts flushFrames: "at least once every awareness_renew_ms while it moves").
BudgetIsKept ==
    [][/\ CountCoversTheRoom' /\ unsaved' < 2 * Renew
       /\ roomFrames >= Budget /\ roomFrames' > roomFrames /\ total' > total => closed']_budgetVars
=============================================================================
