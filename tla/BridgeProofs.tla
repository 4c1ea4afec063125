---------------------------- MODULE BridgeProofs ----------------------------
(***************************************************************************)
(* What holds of Bridge for every set of marks and every bound: its types, *)
(* that a document is entered once, that nothing the person typed leaves   *)
(* the buffer untold, that a publication is what the person did, and that  *)
(* a file is written with nothing unknown in it.                           *)
(*                                                                         *)
(* A handler is a composition of the methods it calls, and so is its       *)
(* proof: Ready is what every method may rely on, Owned and Settled are    *)
(* what holds between two of them, and Does is what each may do to the     *)
(* texts.                                                                  *)
(***************************************************************************)
EXTENDS Bridge, TLAPS

-----------------------------------------------------------------------------
(* The invariant. *)

Opened(d) == d.buffer # Closed
Flying(d) == d.flight # NoFlight

\* One copy at most is entered, and what moves texts about waits for a document the room has.
Entered(d) ==
    /\ ~d.has => d.replica = {} /\ d.seeds = 0
    /\ d.seeds <= 1
    /\ d.pending \/ d.backstop \/ d.stirred \/ Flying(d) => d.has

\* A host has entered what it has in front, and only a guest waits for the room.
Roles(d) ==
    /\ role = "host" => ~d.unarrived /\ d.own = {}
    /\ role = "host" /\ d.front => d.seeded
    /\ role = "host" /\ d.seeded => d.has
    /\ role = "guest" => d.queued = 0 /\ d.reading = 0

Placed(d) ==
    /\ d.front \/ d.unarrived \/ Flying(d) => Opened(d)
    /\ d.unarrived /\ Flying(d) => d.front

\* Where the marks of the buffer come from.
Known(d) ==
    /\ d.typed \subseteq Local
    /\ d.ever \cap Local \subseteq d.typed
    /\ Opened(d) => d.buffer \subseteq d.typed \cup Disk \cup d.ever
    /\ d.own \subseteq d.typed \cup Disk \cup d.ever
    /\ d.replica \subseteq d.ever

\* The change under way: it takes out what the buffer had too much, and puts in what it lacked.
FlightOK(d) ==
    LET f == d.flight IN
    /\ f.replica \subseteq d.ever
    /\ f.before \cap Local \subseteq Excused(d) \cap d.typed
    /\ f.cut \subseteq f.before /\ f.add \subseteq f.replica
    /\ f.before \ f.replica \subseteq f.cut
    /\ f.cut \cap f.replica \subseteq f.add
    /\ f.replica \subseteq f.before \cup f.add
    /\ IF f.landed
       THEN /\ d.buffer \ Local \subseteq f.replica
            /\ d.buffer \cap f.before \subseteq f.replica
            /\ d.buffer \cap d.own \subseteq f.replica
            /\ f.replica \subseteq d.buffer \cup d.cut
       ELSE /\ d.buffer \ Local \subseteq f.before \cup f.replica
            /\ d.buffer \cap d.own \subseteq f.before \cup f.replica
            /\ f.replica \cap f.before \subseteq d.buffer \cup d.cut

Ready(d) ==
    /\ d \in Document
    /\ Entered(d) /\ Roles(d) /\ Placed(d) /\ Known(d)
    /\ Flying(d) => FlightOK(d)

\* What the person typed is excused, but for what was typed under a change in flight, which
\* its settle sees to.
Owned(d) ==
    Opened(d) => \/ d.buffer \cap Local \subseteq Excused(d)
                 \/ Flying(d) /\ d.front /\ d.flight.moved /\ d.attempts = 0

\* Between two texts at rest the buffer lacks only what the person took out or knows of, has
\* nothing of its own that nobody knows of, and no more than is known of or was refused.
Even(d) ==
    ~Flying(d) /\ d.front =>
        /\ d.replica \ d.buffer \subseteq d.cut \cup d.heard
        /\ (d.buffer \ d.replica) \cap d.own \subseteq d.heard
Followed(d) == Flying(d) /\ d.replica # d.flight.replica => d.pending
Excusable(d) ==
    ~Flying(d) /\ d.front => d.buffer \ d.replica \subseteq d.heard \cup d.refused
Settled(d) == Even(d) /\ Followed(d) /\ Excusable(d)

Holds(d) ==
    /\ d.front \/ d.unarrived => d.holding
    /\ d.holding => d.held \/ d.asks > 0
    /\ d.holding => d.front \/ d.unarrived \/ d.asks > 0

\* What dispose() leaves.
Over(d) ==
    /\ d.buffer = Closed /\ ~d.front /\ ~d.unarrived /\ ~Flying(d) /\ d.own = {}
    /\ d.save = "none"

Inv ==
    /\ TypeOK
    /\ Entered(s) /\ Roles(s) /\ Placed(s)
    /\ IF disposed THEN Over(s)
       ELSE Ready(s) /\ Owned(s) /\ Settled(s) /\ Holds(s)

-----------------------------------------------------------------------------
(* The fields of a document, and what a method leaves of them alone. *)

FieldNames ==
    {"buffer", "replica", "has", "front", "unarrived", "seeded", "said", "flight", "pending",
     "attempts", "stale", "save", "backstop", "asks", "held", "holding", "requested", "queued",
     "reading", "stirred", "ever", "typed", "cut", "own", "heard", "refused", "loose", "seeds"}
Alike(e, d, changed) == \A x \in FieldNames \ changed : e[x] = d[x]

\* What of a field may be put in it.
LEMMA Puts ==
    ASSUME NEW d \in Document
    PROVE  /\ \A x \in (SUBSET Marks) \cup {Closed} : [d EXCEPT !.buffer = x] \in Document
           /\ \A x \in SUBSET Marks :
                 /\ [d EXCEPT !.replica = x] \in Document /\ [d EXCEPT !.ever = x] \in Document
                 /\ [d EXCEPT !.typed = x] \in Document /\ [d EXCEPT !.cut = x] \in Document
                 /\ [d EXCEPT !.own = x] \in Document /\ [d EXCEPT !.heard = x] \in Document
                 /\ [d EXCEPT !.refused = x] \in Document /\ [d EXCEPT !.loose = x] \in Document
           /\ \A x \in BOOLEAN :
                 /\ [d EXCEPT !.has = x] \in Document /\ [d EXCEPT !.front = x] \in Document
                 /\ [d EXCEPT !.unarrived = x] \in Document /\ [d EXCEPT !.seeded = x] \in Document
                 /\ [d EXCEPT !.said = x] \in Document /\ [d EXCEPT !.pending = x] \in Document
                 /\ [d EXCEPT !.stale = x] \in Document /\ [d EXCEPT !.backstop = x] \in Document
                 /\ [d EXCEPT !.held = x] \in Document /\ [d EXCEPT !.holding = x] \in Document
                 /\ [d EXCEPT !.requested = x] \in Document
                 /\ [d EXCEPT !.stirred = x] \in Document
           /\ \A x \in Nat :
                 /\ [d EXCEPT !.attempts = x] \in Document /\ [d EXCEPT !.asks = x] \in Document
                 /\ [d EXCEPT !.queued = x] \in Document /\ [d EXCEPT !.reading = x] \in Document
                 /\ [d EXCEPT !.seeds = x] \in Document
           /\ \A x \in {"none", "armed", "paused"} : [d EXCEPT !.save = x] \in Document
           /\ \A x \in Flight \cup {NoFlight} : [d EXCEPT !.flight = x] \in Document
<1>1. \A x \in (SUBSET Marks) \cup {Closed} :
         [d EXCEPT !.buffer = x] \in Document
  BY DEF Document
<1>2. \A x \in SUBSET Marks :
         [d EXCEPT !.replica = x] \in Document /\ [d EXCEPT !.ever = x] \in Document
  BY DEF Document
<1>3. \A x \in SUBSET Marks :
         [d EXCEPT !.typed = x] \in Document /\ [d EXCEPT !.cut = x] \in Document
  BY DEF Document
<1>4. \A x \in SUBSET Marks :
         [d EXCEPT !.own = x] \in Document /\ [d EXCEPT !.heard = x] \in Document
  BY DEF Document
<1>5. \A x \in SUBSET Marks :
         [d EXCEPT !.refused = x] \in Document /\ [d EXCEPT !.loose = x] \in Document
  BY DEF Document
<1>6. \A x \in BOOLEAN :
         [d EXCEPT !.has = x] \in Document /\ [d EXCEPT !.front = x] \in Document
  BY DEF Document
<1>7. \A x \in BOOLEAN :
         [d EXCEPT !.unarrived = x] \in Document /\ [d EXCEPT !.seeded = x] \in Document
  BY DEF Document
<1>8. \A x \in BOOLEAN :
         [d EXCEPT !.said = x] \in Document /\ [d EXCEPT !.pending = x] \in Document
  BY DEF Document
<1>9. \A x \in BOOLEAN :
         [d EXCEPT !.stale = x] \in Document /\ [d EXCEPT !.backstop = x] \in Document
  BY DEF Document
<1>10. \A x \in BOOLEAN :
         [d EXCEPT !.held = x] \in Document /\ [d EXCEPT !.holding = x] \in Document
  BY DEF Document
<1>11. \A x \in BOOLEAN :
         [d EXCEPT !.requested = x] \in Document /\ [d EXCEPT !.stirred = x] \in Document
  BY DEF Document
<1>12. \A x \in Nat :
         [d EXCEPT !.attempts = x] \in Document /\ [d EXCEPT !.asks = x] \in Document
  BY DEF Document
<1>13. \A x \in Nat :
         [d EXCEPT !.queued = x] \in Document /\ [d EXCEPT !.reading = x] \in Document
  BY DEF Document
<1>14. \A x \in Nat :
         [d EXCEPT !.seeds = x] \in Document
  BY DEF Document
<1>15. \A x \in {"none", "armed", "paused"} :
         [d EXCEPT !.save = x] \in Document
  BY DEF Document
<1>16. \A x \in Flight \cup {NoFlight} :
         [d EXCEPT !.flight = x] \in Document
  BY DEF Document
<1> QED BY <1>1, <1>2, <1>3, <1>4, <1>5, <1>6, <1>7, <1>8, <1>9, <1>10,
            <1>11, <1>12, <1>13, <1>14, <1>15, <1>16

LEMMA Fields ==
    ASSUME NEW d \in Document
    PROVE  /\ d.buffer = Closed \/ d.buffer \subseteq Marks
           /\ d.replica \subseteq Marks /\ d.ever \subseteq Marks /\ d.typed \subseteq Marks
           /\ d.cut \subseteq Marks /\ d.own \subseteq Marks /\ d.heard \subseteq Marks
           /\ d.refused \subseteq Marks /\ d.loose \subseteq Marks
           /\ d.has \in BOOLEAN /\ d.front \in BOOLEAN /\ d.unarrived \in BOOLEAN
           /\ d.seeded \in BOOLEAN /\ d.said \in BOOLEAN /\ d.pending \in BOOLEAN
           /\ d.stale \in BOOLEAN /\ d.backstop \in BOOLEAN /\ d.held \in BOOLEAN
           /\ d.holding \in BOOLEAN /\ d.requested \in BOOLEAN /\ d.stirred \in BOOLEAN
           /\ d.attempts \in Nat /\ d.asks \in Nat /\ d.queued \in Nat /\ d.reading \in Nat
           /\ d.seeds \in Nat /\ d.save \in {"none", "armed", "paused"}
           /\ Flying(d) => d.flight \in Flight
<1>1. /\ d.buffer = Closed \/ d.buffer \subseteq Marks
      /\ d.replica \subseteq Marks /\ d.ever \subseteq Marks /\ d.typed \subseteq Marks
  BY DEF Document
<1>2. /\ d.cut \subseteq Marks /\ d.own \subseteq Marks /\ d.heard \subseteq Marks
      /\ d.refused \subseteq Marks /\ d.loose \subseteq Marks
  BY DEF Document
<1>3. /\ d.has \in BOOLEAN /\ d.front \in BOOLEAN /\ d.unarrived \in BOOLEAN
      /\ d.seeded \in BOOLEAN /\ d.said \in BOOLEAN /\ d.pending \in BOOLEAN
  BY DEF Document
<1>4. /\ d.stale \in BOOLEAN /\ d.backstop \in BOOLEAN /\ d.held \in BOOLEAN
      /\ d.holding \in BOOLEAN /\ d.requested \in BOOLEAN /\ d.stirred \in BOOLEAN
  BY DEF Document
<1>5. /\ d.attempts \in Nat /\ d.asks \in Nat /\ d.queued \in Nat /\ d.reading \in Nat
      /\ d.seeds \in Nat /\ d.save \in {"none", "armed", "paused"}
  BY DEF Document
<1>6. Flying(d) => d.flight \in Flight
  BY DEF Document, Flying
<1> QED BY <1>1, <1>2, <1>3, <1>4, <1>5, <1>6

\* A change under way is none: its texts are texts.
LEMMA FlightsFly == NoFlight \notin Flight /\ NoFlight.landed = FALSE
BY BridgeAssumption DEF NoFlight, Flight, Closed

\* The clocks.
LEMMA Clocks ==
    ASSUME NEW d \in Document
    PROVE  /\ \A e \in {ScheduleSave(d), PauseSave(d), MoveSave(d), ResumeSave(d)} :
                 /\ e \in Document /\ Alike(e, d, {"save"})
                 /\ d.save # "none" => e.save # "none"
<1>1. ASSUME NEW e, e = ScheduleSave(d)
      PROVE  e \in Document /\ Alike(e, d, {"save"}) /\ e.save = "armed"
  <2>1. e \in Document
    BY <1>1, Puts DEF ScheduleSave
  <2> QED BY <1>1, <2>1 DEF ScheduleSave, Alike, FieldNames, Document
<1>2. ASSUME NEW e, e = PauseSave(d)
      PROVE  e \in Document /\ Alike(e, d, {"save"}) /\ (d.save # "none" => e.save # "none")
  <2>1. e \in Document
    BY <1>2, Puts DEF PauseSave
  <2> QED BY <1>2, <2>1 DEF PauseSave, Alike, FieldNames, Document
<1>3. Alike(d, d, {"save"})
  BY DEF Alike
<1> QED BY <1>1, <1>2, <1>3 DEF MoveSave, ResumeSave

-----------------------------------------------------------------------------
(* What keeps the invariant. *)

Besides == {"said", "stale", "save", "requested", "asks", "held", "holding", "backstop"}
Excuses == {"heard", "refused", "loose"}

\* The person may be told of more, at any time.
LEMMA MoreIsExcused ==
    ASSUME NEW d \in Document, NEW e \in Document, Alike(e, d, Besides \cup Excuses),
           d.heard \subseteq e.heard, d.refused \subseteq e.refused, d.loose \subseteq e.loose,
           e.backstop => d.has
    PROVE  /\ Excused(d) \subseteq Excused(e)
           /\ e.buffer = d.buffer /\ e.replica = d.replica /\ e.front = d.front
           /\ e.flight = d.flight /\ e.pending = d.pending /\ e.has = d.has
           /\ Ready(d) => Ready(e)
           /\ Owned(d) => Owned(e)
           /\ Settled(d) => Settled(e)
<1>1. /\ e.buffer = d.buffer /\ e.replica = d.replica /\ e.has = d.has /\ e.front = d.front
      /\ e.unarrived = d.unarrived /\ e.seeded = d.seeded /\ e.flight = d.flight
      /\ e.pending = d.pending /\ e.attempts = d.attempts
  BY DEF Alike, FieldNames, Besides, Excuses
<1>2. /\ e.queued = d.queued /\ e.reading = d.reading /\ e.stirred = d.stirred
      /\ e.ever = d.ever /\ e.typed = d.typed /\ e.cut = d.cut /\ e.own = d.own
      /\ e.seeds = d.seeds
  BY DEF Alike, FieldNames, Besides, Excuses
<1>3. Excused(d) \subseteq Excused(e)
  BY <1>2 DEF Excused
<1>4. ASSUME Ready(d) PROVE Ready(e)
  <2>1. Entered(e) /\ Roles(e) /\ Placed(e) /\ Known(e)
    BY <1>1, <1>2, <1>4 DEF Ready, Entered, Roles, Placed, Known, Opened, Flying
  <2>2. Flying(e) => FlightOK(e)
    BY <1>1, <1>2, <1>3, <1>4 DEF Ready, FlightOK, Flying
  <2> QED BY <2>1, <2>2 DEF Ready
<1>5. Owned(d) => Owned(e)
  BY <1>1, <1>3 DEF Owned, Opened, Flying
<1>6. Settled(d) => Settled(e)
  BY <1>1, <1>2, <1>3 DEF Settled, Even, Followed, Excusable, Flying
<1> QED BY <1>1, <1>3, <1>4, <1>5, <1>6

LEMMA ClocksKeep ==
    ASSUME NEW d \in Document, NEW e \in {ScheduleSave(d), PauseSave(d), MoveSave(d), ResumeSave(d)},
           d.backstop => d.has
    PROVE  /\ e \in Document
           /\ e.buffer = d.buffer /\ e.replica = d.replica /\ e.front = d.front
           /\ e.flight = d.flight /\ e.pending = d.pending /\ e.has = d.has
           /\ e.heard = d.heard /\ e.own = d.own /\ e.cut = d.cut /\ e.attempts = d.attempts
           /\ Excused(d) = Excused(e)
           /\ Ready(d) => Ready(e)
           /\ Owned(d) => Owned(e)
           /\ Settled(d) => Settled(e)
<1>1. e \in Document /\ Alike(e, d, {"save"})
  BY Clocks
<1>2. Alike(e, d, Besides \cup Excuses)
  BY <1>1 DEF Alike, Besides
<1>3. /\ e.heard = d.heard /\ e.refused = d.refused /\ e.loose = d.loose
      /\ e.backstop = d.backstop /\ e.own = d.own /\ e.cut = d.cut /\ e.attempts = d.attempts
      /\ e.ever = d.ever
  BY <1>1 DEF Alike, FieldNames
<1>4. Excused(d) = Excused(e)
  BY <1>3 DEF Excused
<1> QED BY <1>1, <1>2, <1>3, <1>4, MoreIsExcused

\* A report, after which two texts at rest differ in nothing unknown.
LEMMA ToldIs ==
    ASSUME NEW d \in Document
    PROVE  /\ Told(d) \in Document /\ Alike(Told(d), d, {"heard"})
           /\ d.heard \subseteq Told(d).heard
           /\ Opened(d) => Diff(d) \subseteq Told(d).heard
<1>1. Told(d).heard = d.heard \cup (IF d.buffer = Closed THEN {} ELSE Diff(d))
  BY DEF Told, Document
<1>2. (IF d.buffer = Closed THEN {} ELSE Diff(d)) \subseteq Marks
  BY Fields DEF Diff
<1>3. Told(d) \in Document
  BY <1>2, Fields, Puts DEF Told
<1>4. Alike(Told(d), d, {"heard"})
  BY DEF Told, Document, Alike, FieldNames
<1> QED BY <1>1, <1>3, <1>4 DEF Opened

LEMMA ToldKeeps ==
    ASSUME NEW d \in Document, d.backstop => d.has
    PROVE  LET e == Told(d) IN
           /\ e \in Document
           /\ e.buffer = d.buffer /\ e.replica = d.replica /\ e.front = d.front
           /\ e.flight = d.flight /\ e.pending = d.pending /\ e.has = d.has
           /\ e.own = d.own /\ e.cut = d.cut /\ e.attempts = d.attempts /\ e.backstop = d.backstop
           /\ e.save = d.save
           /\ d.heard \subseteq e.heard
           /\ Excused(d) \subseteq Excused(e)
           /\ Ready(d) => Ready(e)
           /\ Owned(d) => Owned(e)
           /\ Settled(d) => Settled(e)
           /\ Ready(d) /\ ~Flying(d) => Owned(e) /\ Settled(e)
<1> DEFINE e == Told(d)
<1>1. e \in Document /\ Alike(e, d, {"heard"}) /\ d.heard \subseteq e.heard
      /\ (Opened(d) => Diff(d) \subseteq e.heard)
  BY ToldIs
<1> HIDE DEF e
<1>2. Alike(e, d, Besides \cup Excuses)
  BY <1>1 DEF Alike, Excuses
<1>3. /\ e.refused = d.refused /\ e.loose = d.loose /\ e.attempts = d.attempts
      /\ e.backstop = d.backstop /\ e.own = d.own /\ e.cut = d.cut /\ e.save = d.save
  BY <1>1 DEF Alike, FieldNames
<1>4. /\ e.buffer = d.buffer /\ e.replica = d.replica /\ e.front = d.front
      /\ e.flight = d.flight /\ e.pending = d.pending /\ e.has = d.has
      /\ Excused(d) \subseteq Excused(e)
      /\ (Ready(d) => Ready(e)) /\ (Owned(d) => Owned(e)) /\ (Settled(d) => Settled(e))
  BY <1>1, <1>2, <1>3, MoreIsExcused
<1>5. ASSUME Ready(d), ~Flying(d) PROVE Owned(e) /\ Settled(e)
  <2>1. Ready(e) /\ ~Flying(e)
    BY <1>4, <1>5 DEF Flying
  <2>2. Opened(e) => e.buffer \subseteq Excused(e) /\ Diff(d) \subseteq e.heard
    BY <1>1, <1>4, <2>1 DEF Ready, Known, Diff, Excused, Opened
  <2>3. Owned(e)
    BY <2>2 DEF Owned
  <2>4. Settled(e)
    BY <1>1, <1>4, <2>1, <2>2 DEF Settled, Even, Followed, Excusable, Ready, Placed, Diff, Opened
  <2> QED BY <2>3, <2>4
<1> QED BY <1>1, <1>3, <1>4, <1>5 DEF e

-----------------------------------------------------------------------------
(* Buffer to replica. *)

LEMMA SayRefusalKeeps ==
    ASSUME NEW d \in Document, Opened(d), d.backstop => d.has
    PROVE  LET e == SayRefusal(d) IN
           /\ e \in Document
           /\ e.buffer = d.buffer /\ e.replica = d.replica /\ e.front = d.front
           /\ e.flight = d.flight /\ e.pending = d.pending /\ e.has = d.has
           /\ e.own = d.own /\ e.cut = d.cut /\ e.attempts = d.attempts /\ e.backstop = d.backstop
           /\ e.save = d.save
           /\ Alike(e, d, {"heard", "said", "refused"})
           /\ d.heard \subseteq e.heard
           /\ Excused(d) \subseteq Excused(e)
           /\ d.buffer \ d.replica \subseteq e.refused
           /\ Ready(d) => Ready(e)
           /\ Owned(d) => Owned(e)
           /\ Settled(d) => Settled(e)
<1> DEFINE c == IF d.said THEN d ELSE Told(d)
           e == SayRefusal(d)
<1>1. c \in Document /\ Alike(c, d, {"heard"}) /\ d.heard \subseteq c.heard
  BY ToldIs DEF Alike
<1>2. c.refused = d.refused /\ d.buffer \subseteq Marks
  BY <1>1, Fields DEF Alike, FieldNames, Opened
<1> HIDE DEF c
<1>3. e = [c EXCEPT !.said = TRUE, !.refused = @ \cup (d.buffer \ d.replica)]
  BY DEF SayRefusal, c
<1>4. [c EXCEPT !.said = TRUE] \in Document
  BY <1>1, Puts
<1>5. e \in Document
  <2>1. c.refused \cup (d.buffer \ d.replica) \in SUBSET Marks
    BY <1>1, <1>2, Fields
  <2>2. [c EXCEPT !.said = TRUE, !.refused = c.refused \cup (d.buffer \ d.replica)] \in Document
    BY <1>4, <2>1, Puts
  <2> QED BY <1>3, <2>2
<1>6. Alike(e, c, {"said", "refused"}) /\ e.refused = d.refused \cup (d.buffer \ d.replica)
  BY <1>1, <1>2, <1>3 DEF Alike, FieldNames, Document
<1> HIDE DEF e
<1>7. Alike(e, d, {"heard", "said", "refused"}) /\ e.heard = c.heard
  BY <1>1, <1>6 DEF Alike, FieldNames
<1>8. Alike(e, d, Besides \cup Excuses) /\ e.loose = d.loose /\ e.attempts = d.attempts
      /\ e.backstop = d.backstop /\ e.own = d.own /\ e.cut = d.cut /\ e.save = d.save
  BY <1>7 DEF Alike, FieldNames, Besides, Excuses
<1> QED BY <1>1, <1>5, <1>6, <1>7, <1>8, MoreIsExcused, ZenonT(30) DEF e

LEMMA WriteKeeps ==
    ASSUME NEW d \in Document, Ready(d), Opened(d), ~Flying(d)
    PROVE  LET e == Write(d) IN
           /\ Alike(e, d, {"replica", "has", "stirred", "ever"})
           /\ e.replica = d.buffer /\ e.has = TRUE
           /\ Excused(d) \subseteq Excused(e)
           /\ Ready(e) /\ Owned(e) /\ Settled(e)
<1> DEFINE e == Write(d)
<1>1. d.buffer \subseteq Marks
  BY Fields DEF Opened
<1>2. e \in Document
  <2>1. [d EXCEPT !.replica = d.buffer] \in Document
    BY <1>1, Puts
  <2>2. [d EXCEPT !.replica = d.buffer, !.has = TRUE] \in Document
    BY <2>1, Puts
  <2>3. [d EXCEPT !.replica = d.buffer, !.has = TRUE, !.stirred = TRUE] \in Document
    BY <2>2, Puts
  <2>4. [d EXCEPT !.replica = d.buffer, !.has = TRUE, !.stirred = TRUE].ever = d.ever
    BY DEF Document
  <2>5. d.ever \cup d.buffer \in SUBSET Marks
    BY <1>1, Fields
  <2>6. [d EXCEPT !.replica = d.buffer, !.has = TRUE, !.stirred = TRUE, !.ever = d.ever \cup d.buffer]
          \in Document
    BY <2>3, <2>5, Puts
  <2> QED BY <2>6 DEF Write
<1>3. Alike(e, d, {"replica", "has", "stirred", "ever"})
      /\ e.replica = d.buffer /\ e.has = TRUE /\ e.ever = d.ever \cup d.buffer
  BY DEF Write, Document, Alike, FieldNames
<1> HIDE DEF e
<1>4. /\ e.buffer = d.buffer /\ e.front = d.front /\ e.unarrived = d.unarrived
      /\ e.seeded = d.seeded /\ e.flight = d.flight /\ e.typed = d.typed /\ e.cut = d.cut
      /\ e.own = d.own /\ e.heard = d.heard /\ e.refused = d.refused /\ e.loose = d.loose
      /\ e.queued = d.queued /\ e.reading = d.reading /\ e.seeds = d.seeds
  BY <1>3 DEF Alike, FieldNames
<1>5. Excused(d) \subseteq Excused(e) /\ e.buffer \subseteq Excused(e) /\ ~Flying(e)
  BY <1>3, <1>4 DEF Excused, Flying
<1>6. Ready(e)
  <2>1. Entered(e) /\ Roles(e) /\ Placed(e)
    BY <1>3, <1>4, <1>5 DEF Ready, Entered, Roles, Placed, Opened
  <2>2. Known(e)
    BY <1>3, <1>4, BridgeAssumption DEF Ready, Known, Opened
  <2> QED BY <1>2, <1>5, <2>1, <2>2 DEF Ready
<1>7. Owned(e) /\ Settled(e)
  BY <1>3, <1>4, <1>5 DEF Owned, Settled, Even, Followed, Excusable
<1> QED BY <1>3, <1>5, <1>6, <1>7 DEF e

\* What the bridge's methods touch of a document.
Texting ==
    {"save", "backstop", "heard", "said", "refused", "replica", "has", "stirred", "ever",
     "pending", "attempts", "flight", "buffer"}

\* A publication writes the buffer or refuses it, and then it is excused.
LEMMA PublishKeeps ==
    ASSUME NEW d \in Document, Ready(d), Opened(d), ~Flying(d)
    PROVE  LET e == Publish(d) IN
           /\ e \in Document /\ Alike(e, d, Texting \ {"buffer", "flight", "pending", "attempts"})
           /\ e.replica \in {d.replica, d.buffer} /\ (~PublishRefused(d) => e.has)
           /\ d.save # "none" => e.save # "none"
           /\ d.heard \subseteq e.heard
           /\ Excused(d) \subseteq Excused(e)
           /\ Ready(e) /\ Owned(e) /\ Excusable(e) /\ Followed(e)
           /\ Even(d) => Even(e)
<1>1. CASE PublishRefused(d)
  <2> DEFINE b == PauseSave(d)
             c == [b EXCEPT !.backstop = FALSE]
             e == SayRefusal(c)
  <2>1. b \in Document /\ Alike(b, d, {"save"}) /\ (d.save # "none" => b.save # "none")
    BY Clocks
  <2> HIDE DEF b
  <2>2. c \in Document /\ Alike(c, b, {"backstop"}) /\ c.backstop = FALSE
    <3>1. c \in Document
      BY <2>1, Puts
    <3> QED BY <2>1, <3>1 DEF Document, Alike, FieldNames
  <2> HIDE DEF c
  <2>3. /\ Alike(c, d, {"save", "backstop"}) /\ Alike(c, d, Besides \cup Excuses)
        /\ c.heard = d.heard /\ c.refused = d.refused /\ c.loose = d.loose
        /\ c.save = b.save /\ c.own = d.own /\ c.cut = d.cut
    BY <2>1, <2>2 DEF Alike, FieldNames, Besides
  <2>4. /\ Excused(d) \subseteq Excused(c) /\ Ready(c)
        /\ c.buffer = d.buffer /\ c.replica = d.replica /\ c.flight = d.flight
        /\ c.front = d.front
    BY <2>2, <2>3, MoreIsExcused
  <2>5. Opened(c)
    BY <2>4 DEF Opened
  <2>6. /\ e \in Document /\ Alike(e, c, {"heard", "said", "refused"}) /\ Ready(e)
        /\ Excused(c) \subseteq Excused(e) /\ c.buffer \ c.replica \subseteq e.refused
        /\ e.buffer = c.buffer /\ e.replica = c.replica /\ e.flight = c.flight
        /\ e.front = c.front /\ e.save = c.save /\ e.own = c.own /\ e.cut = c.cut
        /\ c.heard \subseteq e.heard
    BY <2>2, <2>4, <2>5, SayRefusalKeeps
  <2> HIDE DEF e
  <2>7. e.buffer \subseteq Excused(e)
    BY <2>4, <2>5, <2>6 DEF Ready, Known, Excused
  <2>8. ~Flying(e) /\ Owned(e) /\ Excusable(e) /\ Followed(e)
    BY <2>4, <2>6, <2>7 DEF Owned, Excusable, Followed, Flying
  <2>9. Even(d) => Even(e)
    BY <2>3, <2>4, <2>6 DEF Even, Flying
  <2>10. Alike(e, d, Texting \ {"buffer", "flight", "pending", "attempts"})
    BY <2>3, <2>6 DEF Alike, Texting
  <2>11. Publish(d) = e
    BY <1>1 DEF Publish, e, c, b
  <2> QED BY <1>1, <2>1, <2>3, <2>4, <2>6, <2>8, <2>9, <2>10, <2>11
<1>2. CASE ~PublishRefused(d)
  <2> DEFINE e == Write(d)
  <2>1. /\ Alike(e, d, {"replica", "has", "stirred", "ever"}) /\ e.replica = d.buffer
        /\ e.has = TRUE
        /\ Excused(d) \subseteq Excused(e) /\ Ready(e) /\ Owned(e) /\ Settled(e)
    BY WriteKeeps
  <2> HIDE DEF e
  <2>2. /\ Alike(e, d, Texting \ {"buffer", "flight", "pending", "attempts"})
        /\ e.save = d.save /\ e.heard = d.heard
    BY <2>1 DEF Alike, FieldNames, Texting
  <2>3. Publish(d) = e
    BY <1>2 DEF Publish, e
  <2> QED BY <2>1, <2>2, <2>3 DEF Settled, Ready
<1> QED BY <1>1, <1>2

\* An event of the buffer: what was typed is published, refused, excused, or left to the
\* settle of the change it was typed under.
Typed(d) ==
    Opened(d) => \/ d.buffer \cap Local \subseteq Excused(d)
                 \/ d.front /\ d.attempts = 0

LEMMA DocumentChangedKeeps ==
    ASSUME NEW d \in Document, Ready(d), Opened(d), Typed(d), Even(d), Followed(d)
    PROVE  LET e == DocumentChanged(d) IN
           /\ Alike(e, d, Texting \ {"buffer", "attempts"})
           /\ e.replica = d.replica \/ (~Flying(d) /\ d.front /\ e.replica = d.buffer)
           /\ d.save # "none" => e.save # "none"
           /\ d.heard \subseteq e.heard
           /\ Excused(d) \subseteq Excused(e)
           /\ Ready(e) /\ Owned(e) /\ Settled(e)
<1> DEFINE Goal(e) == /\ Alike(e, d, Texting \ {"buffer", "attempts"})
                      /\ e.replica = d.replica \/ (~Flying(d) /\ d.front /\ e.replica = d.buffer)
                      /\ d.save # "none" => e.save # "none"
                      /\ d.heard \subseteq e.heard
                      /\ Excused(d) \subseteq Excused(e)
                      /\ Ready(e) /\ Owned(e) /\ Settled(e)
<1>0. d.backstop => d.has
  BY DEF Ready, Entered
<1>1. CASE ~d.front
  <2>1. DocumentChanged(d) = d
    BY <1>1 DEF DocumentChanged
  <2>2. Owned(d)
    BY <1>1 DEF Owned, Typed
  <2>3. Settled(d)
    BY <1>1 DEF Settled, Excusable
  <2>4. Goal(d)
    BY <2>2, <2>3 DEF Alike
  <2> QED BY <2>1, <2>4
<1>2. CASE d.front /\ d.buffer = d.replica
  <2> DEFINE e == ResumeSave(d)
  <2>1. DocumentChanged(d) = e
    BY <1>2 DEF DocumentChanged, Opened
  <2>2. Alike(e, d, {"save"}) /\ (d.save # "none" => e.save # "none")
    BY Clocks
  <2>3. /\ e.replica = d.replica /\ e.heard = d.heard /\ Excused(d) = Excused(e)
        /\ (Ready(d) => Ready(e)) /\ (Owned(d) => Owned(e)) /\ (Settled(d) => Settled(e))
    BY <1>0, ClocksKeep
  <2>4. d.buffer \subseteq Excused(d)
    BY <1>2 DEF Ready, Known, Excused
  <2>5. Owned(d) /\ Settled(d)
    <3>1. Excusable(d)
      BY <1>2 DEF Excusable
    <3> QED BY <2>4, <3>1 DEF Owned, Settled
  <2>6. Alike(e, d, Texting \ {"buffer", "attempts"})
    BY <2>2 DEF Alike, Texting
  <2> QED BY <2>1, <2>2, <2>3, <2>5, <2>6
<1>3. CASE d.front /\ d.buffer # d.replica /\ Flying(d)
  <2> DEFINE b == PauseSave(d)
             e == [b EXCEPT !.flight.moved = TRUE, !.pending = TRUE]
  <2>1. DocumentChanged(d) = e
    BY <1>3 DEF DocumentChanged, Opened, Flying
  <2>2. b \in Document /\ Alike(b, d, {"save"}) /\ (d.save # "none" => b.save # "none")
    BY Clocks
  <2>3. /\ b.flight = d.flight /\ b.save = b.save /\ b.heard = d.heard /\ Excused(d) = Excused(b)
        /\ Ready(b) /\ b.buffer = d.buffer /\ b.replica = d.replica /\ b.front = d.front
        /\ b.attempts = d.attempts /\ b.has = d.has
    BY <1>0, ClocksKeep
  <2> HIDE DEF b
  <2>4. b.flight \in Flight
    BY <1>3, <2>3, Fields
  <2> DEFINE g == [b.flight EXCEPT !.moved = TRUE]
  <2>5. /\ g \in Flight /\ g.moved = TRUE /\ g.replica = b.flight.replica
        /\ g.before = b.flight.before /\ g.cut = b.flight.cut /\ g.add = b.flight.add
        /\ g.landed = b.flight.landed
    BY <2>4 DEF Flight
  <2>6. e = [b EXCEPT !.flight = g, !.pending = TRUE]
    BY <2>2 DEF Document
  <2> HIDE DEF g
  <2>7. e \in Document
    <3>1. [b EXCEPT !.flight = g] \in Document
      BY <2>2, <2>5, Puts
    <3> QED BY <2>6, <3>1, Puts
  <2>8. Alike(e, b, {"flight", "pending"}) /\ e.flight = g /\ e.pending = TRUE
    BY <2>2, <2>6 DEF Alike, FieldNames, Document
  <2> HIDE DEF e
  <2>9. /\ Alike(e, d, Texting \ {"buffer", "attempts"}) /\ e.save = b.save
        /\ e.replica = d.replica /\ e.heard = d.heard
    BY <2>2, <2>3, <2>8 DEF Alike, FieldNames, Texting
  <2>10. /\ e.buffer = b.buffer /\ e.replica = b.replica /\ e.has = b.has /\ e.front = b.front
         /\ e.unarrived = b.unarrived /\ e.seeded = b.seeded /\ e.attempts = b.attempts
         /\ e.queued = b.queued /\ e.reading = b.reading /\ e.stirred = b.stirred
         /\ e.backstop = b.backstop
    BY <2>8 DEF Alike, FieldNames
  <2>11. /\ e.ever = b.ever /\ e.typed = b.typed /\ e.cut = b.cut /\ e.own = b.own
         /\ e.seeds = b.seeds /\ e.heard = b.heard /\ e.refused = b.refused /\ e.loose = b.loose
    BY <2>8 DEF Alike, FieldNames
  <2>12. Excused(e) = Excused(b)
    BY <2>11 DEF Excused
  <2>13. Flying(e) /\ Flying(b)
    BY <1>3, <2>3, <2>5, <2>8, FlightsFly DEF Flying
  <2>14. Ready(e)
    <3>1. Entered(e) /\ Roles(e) /\ Placed(e) /\ Known(e)
      BY <2>3, <2>10, <2>11, <2>13 DEF Ready, Entered, Roles, Placed, Known, Opened
    <3>2. FlightOK(e)
      BY <2>3, <2>5, <2>8, <2>10, <2>11, <2>12, <2>13 DEF Ready, FlightOK
    <3> QED BY <2>7, <3>1, <3>2 DEF Ready
  <2>15. Owned(e)
    BY <2>3, <2>5, <2>8, <2>10, <2>12, <2>13 DEF Owned, Typed, Opened
  <2>16. Settled(e)
    BY <2>8, <2>13 DEF Settled, Even, Followed, Excusable
  <2> QED BY <2>1, <2>2, <2>3, <2>9, <2>12, <2>14, <2>15, <2>16
<1>4. CASE d.front /\ d.buffer # d.replica /\ ~Flying(d)
  <2> DEFINE b == MoveSave(d)
             c == Publish(b)
             e == [c EXCEPT !.backstop = TRUE]
  <2>1. DocumentChanged(d) = IF PublishRefused(d) THEN c ELSE e
    BY <1>4 DEF DocumentChanged, Opened, Flying
  <2>2. b \in Document /\ Alike(b, d, {"save"}) /\ (d.save # "none" => b.save # "none")
    BY Clocks
  <2>3. /\ b.flight = d.flight /\ b.heard = d.heard /\ Excused(d) = Excused(b)
        /\ Ready(b) /\ b.buffer = d.buffer /\ b.replica = d.replica /\ b.front = d.front
        /\ b.own = d.own /\ b.cut = d.cut /\ Opened(b) /\ ~Flying(b)
    BY <1>0, <1>4, ClocksKeep DEF Opened, Flying
  <2> HIDE DEF b
  <2>4. Even(b) /\ (PublishRefused(b) <=> PublishRefused(d))
    BY <1>4, <2>3 DEF Even, Flying, PublishRefused
  <2>5. /\ c \in Document /\ Alike(c, b, Texting \ {"buffer", "flight", "pending", "attempts"})
        /\ c.replica \in {b.replica, b.buffer} /\ (~PublishRefused(b) => c.has)
        /\ (b.save # "none" => c.save # "none") /\ b.heard \subseteq c.heard
        /\ Excused(b) \subseteq Excused(c)
        /\ Ready(c) /\ Owned(c) /\ Excusable(c) /\ Followed(c) /\ Even(c)
    BY <2>2, <2>3, <2>4, PublishKeeps
  <2> HIDE DEF c
  <2>6. Alike(c, d, Texting \ {"buffer", "attempts"})
    BY <2>2, <2>5 DEF Alike, Texting
  <2>7. Goal(c)
    BY <1>4, <2>2, <2>3, <2>5, <2>6 DEF Settled
  <2>8. ASSUME c.has PROVE Goal(e)
    <3>1. e \in Document /\ Alike(e, c, {"backstop"})
      <4>1. e \in Document
        BY <2>5, Puts
      <4> QED BY <2>5, <4>1 DEF Alike, FieldNames, Document
    <3> HIDE DEF e
    <3>2. /\ Alike(e, c, Besides \cup Excuses) /\ e.heard = c.heard /\ e.refused = c.refused
          /\ e.loose = c.loose /\ e.save = c.save
      BY <3>1 DEF Alike, FieldNames, Besides
    <3>3. /\ Excused(c) \subseteq Excused(e) /\ e.replica = c.replica
          /\ Ready(e) /\ Owned(e) /\ Settled(e)
      BY <2>5, <2>7, <2>8, <3>1, <3>2, MoreIsExcused
    <3>4. Alike(e, d, Texting \ {"buffer", "attempts"})
      BY <2>6, <3>1 DEF Alike, Texting
    <3> QED BY <2>7, <3>2, <3>3, <3>4
  <2> QED BY <2>1, <2>4, <2>5, <2>7, <2>8
<1> QED BY <1>1, <1>2, <1>3, <1>4

-----------------------------------------------------------------------------
(* Replica to buffer. *)

\* What a method does to the texts: what it takes out of the buffer is excused by then.
Tells(e, d) ==
    /\ d.save # "none" => e.save # "none"
    /\ d.heard \subseteq e.heard
    /\ Excused(d) \subseteq Excused(e)
    /\ (d.buffer \cap Local) \ e.buffer \subseteq Excused(e)
Does(e, d) == Alike(e, d, Texting) /\ Tells(e, d)

LEMMA DoesNothing == ASSUME NEW d PROVE Does(d, d)
BY DEF Does, Tells, Alike

LEMMA DoesAfter ==
    ASSUME NEW d, NEW e, NEW g, Does(e, d), Does(g, e)
    PROVE  Does(g, d)
BY DEF Does, Tells, Alike

\* The change lands: what it takes out was excused when it was asked for.
LEMMA LandedKeeps ==
    ASSUME NEW d \in Document, Ready(d), Flying(d), ~d.flight.landed
    PROVE  LET e == Landed(d) IN
           /\ Alike(e, d, {"buffer", "flight"})
           /\ e.flight = [d.flight EXCEPT !.landed = TRUE] /\ Flying(e) /\ Opened(e)
           /\ Excused(e) = Excused(d)
           /\ (d.buffer \cap Local) \ e.buffer \subseteq Excused(d)
           /\ d.buffer \cap Local \subseteq Excused(d) => e.buffer \cap Local \subseteq Excused(d)
           /\ Ready(e)
<1> DEFINE f == d.flight
           g == [f EXCEPT !.landed = TRUE]
           text == (d.buffer \ f.cut) \cup f.add
           e == [d EXCEPT !.buffer = text, !.flight = g]
<1>1. f \in Flight /\ FlightOK(d) /\ Opened(d)
  BY Fields DEF Ready, Placed
<1>2. /\ g \in Flight /\ g.landed = TRUE /\ g.moved = f.moved /\ g.replica = f.replica
      /\ g.before = f.before /\ g.cut = f.cut /\ g.add = f.add
  BY <1>1 DEF Flight
<1>3. Landed(d) = e
  BY DEF Landed, Document
<1>4. text \subseteq Marks
  <2>1. d.buffer \subseteq Marks /\ f.add \subseteq Marks
    BY <1>1, Fields DEF Flight, Opened
  <2> QED BY <2>1
<1>5. e \in Document
  <2>1. [d EXCEPT !.buffer = text] \in Document
    BY <1>4, Puts
  <2> QED BY <1>2, <2>1, Puts
<1> HIDE DEF g
<1>6. Alike(e, d, {"buffer", "flight"}) /\ e.buffer = text /\ e.flight = g
  BY DEF Alike, FieldNames, Document
<1> HIDE DEF e
<1>7. /\ e.replica = d.replica /\ e.has = d.has /\ e.front = d.front
      /\ e.unarrived = d.unarrived /\ e.seeded = d.seeded /\ e.attempts = d.attempts
      /\ e.queued = d.queued /\ e.reading = d.reading /\ e.stirred = d.stirred
      /\ e.backstop = d.backstop /\ e.pending = d.pending
  BY <1>6 DEF Alike, FieldNames
<1>8. /\ e.ever = d.ever /\ e.typed = d.typed /\ e.cut = d.cut /\ e.own = d.own
      /\ e.seeds = d.seeds /\ e.heard = d.heard /\ e.refused = d.refused /\ e.loose = d.loose
  BY <1>6 DEF Alike, FieldNames
<1>9. Excused(e) = Excused(d)
  BY <1>8 DEF Excused
<1>10. Flying(e) /\ Opened(e)
  BY <1>2, <1>4, <1>6, FlightsFly, BridgeAssumption DEF Flying, Opened, Closed
<1>11. f.add \subseteq d.ever /\ f.cut \cap Local \subseteq Excused(d)
  BY <1>1 DEF FlightOK
<1>12. /\ (d.buffer \cap Local) \ e.buffer \subseteq Excused(d)
       /\ d.buffer \cap Local \subseteq Excused(d) => e.buffer \cap Local \subseteq Excused(d)
  BY <1>6, <1>11 DEF Excused
<1>13. Ready(e)
  <2>1. Entered(e) /\ Roles(e) /\ Placed(e)
    BY <1>7, <1>8, <1>10 DEF Ready, Entered, Roles, Placed
  <2>2. Known(e)
    BY <1>1, <1>6, <1>7, <1>8, <1>11 DEF Ready, Known
  <2>3. FlightOK(e)
    <3>1. /\ e.buffer \ Local \subseteq f.replica /\ e.buffer \cap e.own \subseteq f.replica
      BY <1>1, <1>6, <1>8 DEF FlightOK
    <3>2. f.replica \subseteq e.buffer \cup e.cut
      BY <1>1, <1>6, <1>8 DEF FlightOK
    <3> QED BY <1>1, <1>2, <1>6, <1>8, <1>9, <3>1, <3>2 DEF FlightOK
  <2> QED BY <1>5, <2>1, <2>2, <2>3 DEF Ready
<1> QED BY <1>3, <1>6, <1>9, <1>10, <1>12, <1>13 DEF g

LEMMA IssueKeeps ==
    ASSUME NEW d \in Document, Ready(d), Opened(d), ~Flying(d), d.has, Owned(d),
           d.unarrived => d.front, NEW cut, NEW add,
           cut \subseteq d.buffer, d.buffer \ d.replica \subseteq cut,
           add \subseteq d.replica, cut \cap d.replica \subseteq add,
           d.replica \subseteq d.buffer \cup add
    PROVE  LET e == Issue(d, cut, add) IN
           /\ Alike(e, d, {"buffer", "flight"}) /\ Does(e, d)
           /\ Flying(e) /\ Ready(e) /\ Owned(e) /\ Settled(e)
<1> DEFINE g == [replica |-> d.replica, before |-> d.buffer, cut |-> cut, add |-> add,
                 moved |-> FALSE, landed |-> FALSE]
           a == [d EXCEPT !.flight = g]
<1>1. d.buffer \subseteq Marks /\ d.replica \subseteq Marks
      /\ d.buffer \cap Local \subseteq Excused(d)
  BY Fields DEF Opened, Owned
<1>2. /\ g \in Flight /\ g.replica = d.replica /\ g.before = d.buffer /\ g.cut = cut
      /\ g.add = add /\ g.landed = FALSE
  BY <1>1 DEF Flight
<1> HIDE DEF g
<1>3. a \in Document /\ Alike(a, d, {"flight"}) /\ a.flight = g
  <2>1. a \in Document
    BY <1>2, Puts
  <2> QED BY <2>1 DEF Alike, FieldNames, Document
<1>4. Issue(d, cut, add) = IF late THEN a ELSE Landed(a)
  BY DEF Issue, a, g
<1> HIDE DEF a
<1>5. /\ a.buffer = d.buffer /\ a.replica = d.replica /\ a.has = d.has /\ a.front = d.front
      /\ a.unarrived = d.unarrived /\ a.seeded = d.seeded /\ a.attempts = d.attempts
      /\ a.queued = d.queued /\ a.reading = d.reading /\ a.stirred = d.stirred
      /\ a.backstop = d.backstop /\ a.pending = d.pending
  BY <1>3 DEF Alike, FieldNames
<1>6. /\ a.ever = d.ever /\ a.typed = d.typed /\ a.cut = d.cut /\ a.own = d.own
      /\ a.seeds = d.seeds /\ a.heard = d.heard /\ a.refused = d.refused /\ a.loose = d.loose
      /\ a.save = d.save
  BY <1>3 DEF Alike, FieldNames
<1>7. Excused(a) = Excused(d) /\ Flying(a)
  BY <1>2, <1>3, <1>6, FlightsFly DEF Excused, Flying
<1>8. Ready(a)
  <2>1. Entered(a) /\ Roles(a) /\ Known(a)
    BY <1>5, <1>6, <1>7 DEF Ready, Entered, Roles, Known, Opened
  <2>2. Placed(a)
    BY <1>5, <1>7 DEF Ready, Placed, Opened
  <2>3. FlightOK(a)
    <3>1. d.buffer \cap Local \subseteq d.typed
      BY BridgeAssumption DEF Ready, Known
    <3> QED BY <1>1, <1>2, <1>3, <1>5, <1>6, <1>7, <3>1 DEF Ready, Known, FlightOK
  <2> QED BY <1>3, <2>1, <2>2, <2>3 DEF Ready
<1>9. CASE late
  <2>1. Alike(a, d, {"buffer", "flight"}) /\ Alike(a, d, Texting)
    BY <1>3 DEF Alike, Texting
  <2>2. Does(a, d)
    BY <1>5, <1>6, <1>7, <2>1 DEF Does, Tells
  <2>3. Owned(a) /\ Settled(a)
    BY <1>1, <1>2, <1>3, <1>5, <1>7 DEF Owned, Settled, Even, Followed, Excusable
  <2> QED BY <1>4, <1>7, <1>8, <1>9, <2>1, <2>2, <2>3
<1>10. CASE ~late
  <2> DEFINE e == Landed(a)
  <2>1. /\ Alike(e, a, {"buffer", "flight"})
        /\ e.flight = [a.flight EXCEPT !.landed = TRUE] /\ Flying(e) /\ Opened(e)
        /\ Excused(e) = Excused(a)
        /\ (a.buffer \cap Local) \ e.buffer \subseteq Excused(a)
        /\ a.buffer \cap Local \subseteq Excused(a) => e.buffer \cap Local \subseteq Excused(a)
        /\ Ready(e)
    BY <1>2, <1>3, <1>7, <1>8, LandedKeeps
  <2> HIDE DEF e
  <2>2. Alike(e, d, {"buffer", "flight"}) /\ Alike(e, d, Texting)
    BY <1>3, <2>1 DEF Alike, Texting
  <2>3. e.save = d.save /\ e.heard = d.heard /\ e.replica = d.replica
    BY <2>2 DEF Alike, FieldNames
  <2>4. Does(e, d)
    BY <1>5, <1>7, <2>1, <2>2, <2>3 DEF Does, Tells
  <2>5. e.flight.replica = d.replica
    BY <1>2, <1>3, <2>1 DEF Flight
  <2>6. Owned(e) /\ Settled(e)
    BY <1>1, <1>5, <1>7, <2>1, <2>3, <2>5 DEF Owned, Settled, Even, Followed, Excusable
  <2> QED BY <1>4, <1>10, <2>1, <2>2, <2>4, <2>6 DEF e
<1> QED BY <1>9, <1>10

\* A reconcile brings the two together, or asks for it, or says why not.
Reconciling == {"save", "backstop", "heard", "pending", "attempts", "flight", "buffer"}

Reconcilable(d) ==
    /\ Ready(d) /\ Owned(d)
    /\ Opened(d) /\ d.buffer # d.replica => d.has
    /\ d.unarrived => d.front

LEMMA ReconcileKeeps ==
    ASSUME NEW d \in Document, Reconcilable(d)
    PROVE  LET e == Reconcile(d) IN
           /\ Alike(e, d, Reconciling) /\ Does(e, d)
           /\ Ready(e) /\ Owned(e) /\ Settled(e)
<1>0. Ready(d) /\ Owned(d) /\ (d.backstop => d.has)
  BY DEF Reconcilable, Ready, Entered
<1> DEFINE b == PauseSave(d)
<1>1. /\ b \in Document /\ Alike(b, d, {"save"}) /\ (d.save # "none" => b.save # "none")
      /\ b.buffer = d.buffer /\ b.replica = d.replica /\ b.front = d.front
      /\ b.flight = d.flight /\ b.pending = d.pending /\ b.has = d.has
      /\ b.heard = d.heard /\ b.own = d.own /\ b.cut = d.cut /\ b.attempts = d.attempts
      /\ Excused(d) = Excused(b) /\ Ready(b) /\ Owned(b)
  BY <1>0, Clocks, ClocksKeep
<1> HIDE DEF b
<1>2. CASE Flying(d)
  <2> DEFINE e == [b EXCEPT !.pending = TRUE]
  <2>1. e \in Document /\ Alike(e, b, {"pending"}) /\ e.pending = TRUE
    <3>1. e \in Document
      BY <1>1, Puts
    <3> QED BY <1>1, <3>1 DEF Alike, FieldNames, Document
  <2>2. Reconcile(d) = e
    BY <1>2 DEF Reconcile, Flying, b
  <2> HIDE DEF e
  <2>3. /\ e.buffer = b.buffer /\ e.replica = b.replica /\ e.has = b.has /\ e.front = b.front
        /\ e.unarrived = b.unarrived /\ e.seeded = b.seeded /\ e.attempts = b.attempts
        /\ e.queued = b.queued /\ e.reading = b.reading /\ e.stirred = b.stirred
        /\ e.backstop = b.backstop /\ e.flight = b.flight /\ e.save = b.save
    BY <2>1 DEF Alike, FieldNames
  <2>4. /\ e.ever = b.ever /\ e.typed = b.typed /\ e.cut = b.cut /\ e.own = b.own
        /\ e.seeds = b.seeds /\ e.heard = b.heard /\ e.refused = b.refused /\ e.loose = b.loose
    BY <2>1 DEF Alike, FieldNames
  <2>5. Excused(e) = Excused(b) /\ Flying(e) /\ Flying(b)
    BY <1>1, <1>2, <2>3, <2>4 DEF Excused, Flying
  <2>6. Alike(e, d, Reconciling) /\ Alike(e, d, Texting)
    BY <1>1, <2>1 DEF Alike, Texting, Reconciling
  <2>7. Does(e, d)
    BY <1>1, <2>3, <2>4, <2>5, <2>6 DEF Does, Tells
  <2>8. Ready(e)
    <3>1. Entered(e) /\ Roles(e) /\ Placed(e) /\ Known(e)
      BY <1>1, <2>3, <2>4, <2>5 DEF Ready, Entered, Roles, Placed, Known, Opened
    <3>2. FlightOK(e)
      BY <1>1, <2>3, <2>4, <2>5 DEF Ready, FlightOK
    <3> QED BY <2>1, <3>1, <3>2 DEF Ready
  <2>9. Owned(e) /\ Settled(e)
    BY <1>1, <2>1, <2>3, <2>5 DEF Owned, Opened, Settled, Even, Followed, Excusable
  <2> QED BY <2>2, <2>6, <2>7, <2>8, <2>9
<1>3. CASE ~Flying(d) /\ ~Opened(d)
  <2>1. Reconcile(d) = d
    BY <1>3 DEF Reconcile, Flying, Opened
  <2>2. Settled(d)
    BY <1>0, <1>3 DEF Ready, Placed, Settled, Even, Followed, Excusable
  <2>3. Alike(d, d, Reconciling)
    BY DEF Alike
  <2> QED BY <1>0, <2>1, <2>2, <2>3, DoesNothing
<1>4. CASE ~Flying(d) /\ Opened(d) /\ (Lone(d.buffer) \/ Lone(d.replica))
  <2> DEFINE c == [b EXCEPT !.backstop = FALSE]
             e == Told(c)
  <2>1. c \in Document /\ Alike(c, b, {"backstop"}) /\ c.backstop = FALSE
    <3>1. c \in Document
      BY <1>1, Puts
    <3> QED BY <1>1, <3>1 DEF Alike, FieldNames, Document
  <2>2. Reconcile(d) = e
    BY <1>4 DEF Reconcile, Flying, Opened, b
  <2> HIDE DEF c
  <2>3. /\ Alike(c, b, Besides \cup Excuses) /\ c.heard = b.heard /\ c.refused = b.refused
        /\ c.loose = b.loose /\ c.save = b.save
    BY <2>1 DEF Alike, FieldNames, Besides
  <2>4. /\ Excused(b) \subseteq Excused(c) /\ Ready(c) /\ c.buffer = b.buffer
        /\ c.flight = b.flight
    BY <1>1, <2>1, <2>3, MoreIsExcused
  <2>5. ~Flying(c)
    BY <1>1, <1>4, <2>4 DEF Flying
  <2>6. Alike(e, c, {"heard"})
    BY <2>1, ToldIs
  <2>7. /\ e.buffer = c.buffer /\ c.heard \subseteq e.heard /\ e.save = c.save
        /\ Excused(c) \subseteq Excused(e) /\ Ready(e) /\ Owned(e) /\ Settled(e)
    BY <2>1, <2>4, <2>5, ToldKeeps
  <2> HIDE DEF e
  <2>8. Alike(e, d, Reconciling) /\ Alike(e, d, Texting)
    BY <1>1, <2>1, <2>6 DEF Alike, Texting, Reconciling
  <2>9. Does(e, d)
    BY <1>1, <2>3, <2>4, <2>7, <2>8 DEF Does, Tells
  <2> QED BY <2>2, <2>7, <2>8, <2>9
<1>5. CASE ~Flying(d) /\ Opened(d) /\ ~Lone(d.buffer) /\ ~Lone(d.replica) /\ d.buffer = d.replica
  <2> DEFINE c == [d EXCEPT !.attempts = 0, !.backstop = FALSE]
             e == ResumeSave(c)
  <2>1. c \in Document /\ Alike(c, d, {"attempts", "backstop"}) /\ c.backstop = FALSE
    <3>1. [d EXCEPT !.attempts = 0] \in Document
      BY Puts
    <3>2. c \in Document
      BY <3>1, Puts
    <3> QED BY <3>2 DEF Alike, FieldNames, Document
  <2>2. Reconcile(d) = e
    BY <1>5 DEF Reconcile, Flying, Opened
  <2> HIDE DEF c
  <2>3. /\ c.buffer = d.buffer /\ c.replica = d.replica /\ c.has = d.has /\ c.front = d.front
        /\ c.unarrived = d.unarrived /\ c.seeded = d.seeded /\ c.pending = d.pending
        /\ c.queued = d.queued /\ c.reading = d.reading /\ c.stirred = d.stirred
        /\ c.flight = d.flight /\ c.save = d.save
    BY <2>1 DEF Alike, FieldNames
  <2>4. /\ c.ever = d.ever /\ c.typed = d.typed /\ c.cut = d.cut /\ c.own = d.own
        /\ c.seeds = d.seeds /\ c.heard = d.heard /\ c.refused = d.refused /\ c.loose = d.loose
    BY <2>1 DEF Alike, FieldNames
  <2>5. Excused(c) = Excused(d) /\ ~Flying(c)
    BY <1>5, <2>3, <2>4 DEF Excused, Flying
  <2>6. Ready(c)
    BY <1>0, <1>5, <2>1, <2>3, <2>4, <2>5 DEF Ready, Entered, Roles, Placed, Known, Opened
  <2>7. c.buffer \subseteq Excused(c)
    BY <1>5, <2>3, <2>6 DEF Ready, Known, Excused
  <2>8. Owned(c) /\ Settled(c)
    BY <1>5, <2>3, <2>5, <2>7 DEF Owned, Settled, Even, Followed, Excusable
  <2>9. Alike(e, c, {"save"}) /\ (c.save # "none" => e.save # "none")
    BY <2>1, Clocks
  <2>10. /\ e.buffer = c.buffer /\ e.heard = c.heard /\ Excused(e) = Excused(c)
         /\ Ready(e) /\ Owned(e) /\ Settled(e)
    BY <2>1, <2>6, <2>8, ClocksKeep
  <2> HIDE DEF e
  <2>11. Alike(e, d, Reconciling) /\ Alike(e, d, Texting)
    BY <2>1, <2>9 DEF Alike, Texting, Reconciling
  <2>12. Does(e, d)
    BY <2>3, <2>4, <2>5, <2>9, <2>10, <2>11 DEF Does, Tells
  <2> QED BY <2>2, <2>10, <2>11, <2>12
<1>6. CASE ~Flying(d) /\ Opened(d) /\ ~Lone(d.buffer) /\ ~Lone(d.replica) /\ d.buffer # d.replica
  <2> DEFINE c == Issue(d, d.buffer \ d.replica, d.replica \ d.buffer)
             a == ScheduleSave(c)
             e == [a EXCEPT !.backstop = TRUE]
  <2>1. Reconcile(d) = e
    BY <1>6 DEF Reconcile, Flying, Opened
  <2>2. /\ Alike(c, d, {"buffer", "flight"}) /\ Does(c, d)
        /\ Flying(c) /\ Ready(c) /\ Owned(c) /\ Settled(c)
    BY <1>0, <1>6, IssueKeeps DEF Reconcilable
  <2> HIDE DEF c
  <2>3. c \in Document /\ c.has /\ c.backstop = d.backstop
    BY <1>6, <2>2 DEF Alike, FieldNames, Ready, Reconcilable
  <2>4. a \in Document /\ Alike(a, c, {"save"}) /\ (c.save # "none" => a.save # "none")
    BY <2>3, Clocks
  <2>5. /\ a.buffer = c.buffer /\ a.heard = c.heard /\ Excused(a) = Excused(c) /\ a.has = c.has
        /\ Ready(a) /\ Owned(a) /\ Settled(a)
    BY <2>2, <2>3, ClocksKeep
  <2> HIDE DEF a
  <2>6. e \in Document /\ Alike(e, a, {"backstop"})
    <3>1. e \in Document
      BY <2>4, Puts
    <3> QED BY <2>4, <3>1 DEF Alike, FieldNames, Document
  <2> HIDE DEF e
  <2>7. /\ Alike(e, a, Besides \cup Excuses) /\ e.heard = a.heard /\ e.refused = a.refused
        /\ e.loose = a.loose /\ e.save = a.save
    BY <2>6 DEF Alike, FieldNames, Besides
  <2>8. /\ Excused(a) \subseteq Excused(e) /\ Ready(e) /\ Owned(e) /\ Settled(e)
        /\ e.buffer = a.buffer
    BY <2>3, <2>4, <2>5, <2>6, <2>7, MoreIsExcused
  <2>9. Alike(e, d, Reconciling) /\ Alike(e, c, Texting)
    BY <2>2, <2>4, <2>6 DEF Alike, Texting, Reconciling
  <2>10. Does(e, c)
    BY <2>4, <2>5, <2>7, <2>8, <2>9 DEF Does, Tells
  <2> QED BY <2>1, <2>2, <2>8, <2>9, <2>10, DoesAfter
<1> QED BY <1>2, <1>3, <1>4, <1>5, <1>6

\* With nothing under way, what is still to be done may be forgotten or begun again.
LEMMA RestedKeeps ==
    ASSUME NEW d \in Document, NEW e \in Document, Ready(d), ~Flying(d),
           Alike(e, d, {"pending", "backstop", "attempts"}), e.pending \/ e.backstop => d.has
    PROVE  /\ Ready(e) /\ ~Flying(e) /\ Does(e, d)
           /\ Owned(d) => Owned(e)
           /\ Settled(d) => Settled(e)
           /\ Even(d) => Even(e)
<1>1. /\ e.buffer = d.buffer /\ e.replica = d.replica /\ e.has = d.has /\ e.front = d.front
      /\ e.unarrived = d.unarrived /\ e.seeded = d.seeded /\ e.save = d.save
      /\ e.queued = d.queued /\ e.reading = d.reading /\ e.stirred = d.stirred
      /\ e.flight = d.flight
  BY DEF Alike, FieldNames
<1>2. /\ e.ever = d.ever /\ e.typed = d.typed /\ e.cut = d.cut /\ e.own = d.own
      /\ e.seeds = d.seeds /\ e.heard = d.heard /\ e.refused = d.refused /\ e.loose = d.loose
  BY DEF Alike, FieldNames
<1>3. Excused(e) = Excused(d) /\ ~Flying(e)
  BY <1>1, <1>2 DEF Excused, Flying
<1>4. Ready(e)
  BY <1>1, <1>2, <1>3 DEF Ready, Entered, Roles, Placed, Known, Opened
<1>5. (Owned(d) => Owned(e)) /\ (Settled(d) => Settled(e)) /\ (Even(d) => Even(e))
  BY <1>1, <1>2, <1>3 DEF Owned, Opened, Settled, Even, Followed, Excusable
<1>6. Does(e, d)
  <2>1. Alike(e, d, Texting)
    BY DEF Alike, Texting
  <2> QED BY <1>1, <1>2, <1>3, <2>1 DEF Does, Tells
<1> QED BY <1>3, <1>4, <1>5, <1>6

LEMMA ReconcilePendingKeeps ==
    ASSUME NEW d \in Document, Ready(d), Owned(d), ~Flying(d), d.unarrived => d.front,
           d.pending \/ Settled(d)
    PROVE  LET e == ReconcilePending(d) IN
           /\ Alike(e, d, Reconciling) /\ Does(e, d)
           /\ Ready(e) /\ Owned(e) /\ Settled(e)
<1>1. CASE d.pending
  <2> DEFINE c == [d EXCEPT !.pending = FALSE]
  <2>1. c \in Document /\ Alike(c, d, {"pending"}) /\ c.pending = FALSE
    <3>1. c \in Document
      BY Puts
    <3> QED BY <3>1 DEF Alike, FieldNames, Document
  <2>2. ReconcilePending(d) = Reconcile(c)
    BY <1>1 DEF ReconcilePending
  <2> HIDE DEF c
  <2>3. /\ Alike(c, d, {"pending", "backstop", "attempts"}) /\ c.backstop = d.backstop
        /\ c.has = d.has /\ c.unarrived = d.unarrived /\ c.front = d.front
    BY <2>1 DEF Alike, FieldNames
  <2>4. d.has
    BY <1>1 DEF Ready, Entered
  <2>5. Ready(c) /\ Does(c, d) /\ Owned(c)
    BY <2>1, <2>3, <2>4, RestedKeeps
  <2>6. Reconcilable(c)
    BY <2>3, <2>4, <2>5 DEF Reconcilable
  <2> DEFINE e == Reconcile(c)
  <2>7. /\ Alike(e, c, Reconciling) /\ Does(e, c)
        /\ Ready(e) /\ Owned(e) /\ Settled(e)
    BY <2>1, <2>6, ReconcileKeeps
  <2> HIDE DEF e
  <2>8. Alike(e, d, Reconciling)
    BY <2>1, <2>7 DEF Alike, Reconciling
  <2>9. Does(e, d)
    BY <2>5, <2>7, DoesAfter
  <2> QED BY <2>2, <2>7, <2>8, <2>9 DEF e
<1>2. CASE ~d.pending
  <2>1. ReconcilePending(d) = d
    BY <1>2 DEF ReconcilePending
  <2>2. Alike(d, d, Reconciling)
    BY DEF Alike
  <2> QED BY <1>2, <2>1, <2>2, DoesNothing
<1> QED BY <1>1, <1>2

\* What is left of a change that is over.
LEMMA LandingKeeps ==
    ASSUME NEW d \in Document, Ready(d), Flying(d)
    PROVE  LET e == [d EXCEPT !.flight = NoFlight] IN
           /\ Alike(e, d, {"flight"}) /\ Does(e, d)
           /\ Ready(e) /\ ~Flying(e) /\ Opened(e) /\ e.has
           /\ e.unarrived => e.front
           /\ d.buffer \cap Local \subseteq Excused(d) => Owned(e)
<1> DEFINE e == [d EXCEPT !.flight = NoFlight]
<1>1. e \in Document /\ Alike(e, d, {"flight"}) /\ e.flight = NoFlight
  <2>1. e \in Document
    BY Puts
  <2> QED BY <2>1 DEF Alike, FieldNames, Document
<1> HIDE DEF e
<1>2. /\ e.buffer = d.buffer /\ e.replica = d.replica /\ e.has = d.has /\ e.front = d.front
      /\ e.unarrived = d.unarrived /\ e.seeded = d.seeded /\ e.save = d.save
      /\ e.queued = d.queued /\ e.reading = d.reading /\ e.stirred = d.stirred
      /\ e.pending = d.pending /\ e.backstop = d.backstop
  BY <1>1 DEF Alike, FieldNames
<1>3. /\ e.ever = d.ever /\ e.typed = d.typed /\ e.cut = d.cut /\ e.own = d.own
      /\ e.seeds = d.seeds /\ e.heard = d.heard /\ e.refused = d.refused /\ e.loose = d.loose
  BY <1>1 DEF Alike, FieldNames
<1>4. Excused(e) = Excused(d) /\ ~Flying(e) /\ Opened(e)
  BY <1>1, <1>2, <1>3 DEF Excused, Flying, Ready, Placed, Opened
<1>5. Ready(e)
  BY <1>1, <1>2, <1>3, <1>4 DEF Ready, Entered, Roles, Placed, Known, Opened
<1>6. e.has /\ (e.unarrived => e.front)
  BY <1>2 DEF Ready, Entered, Placed
<1>7. d.buffer \cap Local \subseteq Excused(d) => Owned(e)
  BY <1>2, <1>4 DEF Owned
<1>8. Does(e, d)
  <2>1. Alike(e, d, Texting)
    BY <1>1 DEF Alike, Texting
  <2> QED BY <1>2, <1>3, <1>4, <2>1 DEF Does, Tells
<1> QED BY <1>1, <1>4, <1>5, <1>6, <1>7, <1>8 DEF e

\* A refusal: the retry begins where the person knows of what it will take out.
LEMMA RefuseKeeps ==
    ASSUME NEW d \in Document, Ready(d), ~Flying(d), d.has, d.unarrived => d.front,
           NEW moved \in BOOLEAN,
           \/ d.buffer \cap Local \subseteq Excused(d)
           \/ moved /\ d.attempts = 0
    PROVE  LET e == Refuse(d, moved) IN
           /\ Alike(e, d, Reconciling) /\ Does(e, d)
           /\ Ready(e) /\ Owned(e) /\ Settled(e)
<1> DEFINE n == d.attempts + 1
<1>0. n \in Nat /\ (d.backstop => d.has)
  BY Fields
<1>1. CASE n < MaxAttempts
  <2> DEFINE c == IF moved /\ n = 1 THEN Told(d) ELSE d
             a == [c EXCEPT !.attempts = n]
             e == Reconcile(a)
  <2>1. Refuse(d, moved) = e
    BY <1>1 DEF Refuse
  <2>2. /\ c \in Document /\ Alike(c, d, {"heard"}) /\ Ready(c) /\ d.heard \subseteq c.heard
        /\ Excused(d) \subseteq Excused(c) /\ c.buffer = d.buffer /\ c.flight = d.flight
        /\ c.save = d.save /\ c.has = d.has
    BY <1>0, ToldIs, ToldKeeps DEF Alike
  <2>3. c.unarrived = d.unarrived /\ c.front = d.front /\ ~Flying(c)
    BY <2>2 DEF Alike, FieldNames, Flying
  <2>4. Owned(c)
    <3>1. CASE moved /\ n = 1
      BY <1>0, <3>1, ToldKeeps
    <3>2. CASE ~(moved /\ n = 1)
      <4>1. d.attempts # 0 \/ ~moved
        BY <3>2, Fields
      <4> QED BY <3>2, <4>1 DEF Owned
    <3> QED BY <3>1, <3>2
  <2> HIDE DEF c
  <2>5. a \in Document /\ Alike(a, c, {"attempts"})
    <3>1. a \in Document
      BY <1>0, <2>2, Puts
    <3> QED BY <2>2, <3>1 DEF Alike, FieldNames, Document
  <2> HIDE DEF a
  <2>6. /\ Alike(a, c, {"pending", "backstop", "attempts"}) /\ a.has = c.has
        /\ a.unarrived = c.unarrived /\ a.front = c.front
    BY <2>5 DEF Alike, FieldNames
  <2>7. Ready(a) /\ Owned(a) /\ Does(a, c)
    BY <2>2, <2>3, <2>4, <2>5, <2>6, RestedKeeps
  <2>8. Reconcilable(a)
    BY <2>2, <2>3, <2>6, <2>7 DEF Reconcilable
  <2>9. Alike(e, a, Reconciling) /\ Does(e, a) /\ Ready(e) /\ Owned(e) /\ Settled(e)
    BY <2>5, <2>8, ReconcileKeeps
  <2> HIDE DEF e
  <2>10. Does(c, d)
    <3>1. Alike(c, d, Texting)
      BY <2>2 DEF Alike, Texting
    <3> QED BY <2>2, <3>1 DEF Does, Tells
  <2>11. Does(e, d)
    BY <2>7, <2>9, <2>10, DoesAfter
  <2>12. Alike(e, d, Reconciling)
    BY <2>2, <2>5, <2>9 DEF Alike, Reconciling
  <2> QED BY <2>1, <2>9, <2>11, <2>12
<1>2. CASE ~(n < MaxAttempts)
  <2> DEFINE c == [d EXCEPT !.attempts = n, !.pending = FALSE, !.backstop = FALSE]
             e == Told(c)
  <2>1. Refuse(d, moved) = e
    BY <1>2 DEF Refuse
  <2>2. /\ c \in Document /\ Alike(c, d, {"pending", "backstop", "attempts"})
        /\ c.pending = FALSE /\ c.backstop = FALSE
    <3>1. [d EXCEPT !.attempts = n] \in Document
      BY <1>0, Puts
    <3>2. [d EXCEPT !.attempts = n, !.pending = FALSE] \in Document
      BY <3>1, Puts
    <3>3. c \in Document
      BY <3>2, Puts
    <3> QED BY <3>3 DEF Alike, FieldNames, Document
  <2> HIDE DEF c
  <2>3. Ready(c) /\ ~Flying(c) /\ Does(c, d)
    BY <2>2, RestedKeeps
  <2>4. /\ Alike(e, c, {"heard"}) /\ c.heard \subseteq e.heard /\ e.buffer = c.buffer
        /\ e.save = c.save /\ Excused(c) \subseteq Excused(e)
        /\ Ready(e) /\ Owned(e) /\ Settled(e)
    BY <2>2, <2>3, ToldIs, ToldKeeps
  <2> HIDE DEF e
  <2>5. Alike(e, d, Reconciling) /\ Alike(e, c, Texting)
    BY <2>2, <2>4 DEF Alike, Reconciling, Texting
  <2>6. Does(e, c)
    BY <2>4, <2>5 DEF Does, Tells
  <2> QED BY <2>1, <2>3, <2>4, <2>5, <2>6, DoesAfter
<1> QED BY <1>1, <1>2

\* A publication changes the room by what the person did, or by what was known to differ.
Publishes(e, d) ==
    /\ d.replica \ e.replica \subseteq e.cut \cup d.heard
    /\ (e.replica \ d.replica) \cap d.own \subseteq d.heard

\* A change that landed, settled: the room has what the person typed meanwhile, or has
\* refused it, or the person knows, or a reconcile is owed.
LEMMA ResolveKeeps ==
    ASSUME NEW d \in Document, Ready(d), Owned(d), Settled(d), Flying(d), d.flight.landed, d.front,
           NEW c, c = [d EXCEPT !.flight = NoFlight, !.attempts = 0]
    PROVE  LET e == Resolve(c, d.flight) IN
           /\ Does(e, d) /\ Publishes(e, d)
           /\ Ready(e) /\ Owned(e) /\ ~Flying(e)
           /\ e.unarrived => e.front
           /\ e.pending \/ Settled(e)
<1> DEFINE f == d.flight
           a == [d EXCEPT !.flight = NoFlight]
<1>1. /\ a \in Document /\ Alike(a, d, {"flight"}) /\ Does(a, d) /\ Ready(a) /\ ~Flying(a)
      /\ a.has /\ (a.unarrived => a.front)
  BY LandingKeeps DEF Ready
<1>2. c = [a EXCEPT !.attempts = 0]
  BY DEF Document
<1> HIDE DEF a
<1>3. c \in Document /\ Alike(c, a, {"attempts"})
  <2>1. a \in Document /\ 0 \in Nat
    BY <1>1
  <2>2. [a EXCEPT !.attempts = 0] \in Document
    BY <2>1, Puts
  <2>3. c \in Document
    BY <1>2, <2>2
  <2> QED BY <1>2, <2>1, <2>3 DEF Alike, FieldNames, Document
<1>4. /\ Alike(c, a, {"pending", "backstop", "attempts"}) /\ c.has = a.has
      /\ c.unarrived = a.unarrived /\ c.front = a.front
  BY <1>3 DEF Alike, FieldNames
<1>5. Ready(c) /\ ~Flying(c) /\ Does(c, a)
  BY <1>1, <1>3, <1>4, RestedKeeps
<1>6. /\ c.buffer = d.buffer /\ c.replica = d.replica /\ c.own = d.own /\ c.cut = d.cut
      /\ c.heard = d.heard /\ c.front = d.front /\ c.pending = d.pending /\ c.ever = d.ever
      /\ c.refused = d.refused /\ c.loose = d.loose
  BY <1>1, <1>3 DEF Alike, FieldNames
<1>7. Does(c, d) /\ c.has /\ Opened(c) /\ (c.unarrived => c.front) /\ Excused(c) = Excused(d)
  BY <1>1, <1>4, <1>5, <1>6, DoesAfter DEF Ready, Placed, Opened, Excused
<1>8. FlightOK(d) /\ f \in Flight
  BY Fields DEF Ready
<1>9. ASSUME c.replica = f.replica PROVE Even(c)
  BY <1>6, <1>8, <1>9 DEF Even, FlightOK
<1> HIDE DEF f
<1> DEFINE e == Resolve(c, f)
<1>10. CASE c.buffer \in {Closed, f.replica, c.replica}
  <2>1. e = c
    BY <1>10 DEF Resolve
  <2>2. c.buffer \in {f.replica, c.replica}
    BY <1>7, <1>10 DEF Opened
  <2>3. c.buffer \subseteq Excused(c)
    BY <1>5, <1>6, <1>8, <2>2 DEF Ready, Known, FlightOK, Excused, f
  <2>4. c.pending \/ Settled(c)
    <3>1. CASE c.buffer = c.replica
      BY <1>5, <2>3, <3>1 DEF Settled, Even, Followed, Excusable
    <3>2. CASE c.buffer = f.replica /\ f.replica # c.replica
      BY <1>6, <3>2 DEF Settled, Followed, f
    <3> QED BY <2>2, <3>1, <3>2
  <2>5. Publishes(c, d)
    BY <1>6 DEF Publishes
  <2>6. Owned(c)
    BY <2>3 DEF Owned
  <2> QED BY <1>5, <1>7, <2>1, <2>4, <2>5, <2>6 DEF f
<1>11. CASE c.buffer \notin {Closed, f.replica, c.replica} /\ c.replica # f.replica
  <2>1. e = Told(c)
    BY <1>11 DEF Resolve
  <2> HIDE DEF e
  <2>2. /\ Alike(e, c, {"heard"}) /\ c.heard \subseteq e.heard /\ e.buffer = c.buffer
        /\ e.save = c.save /\ Excused(c) \subseteq Excused(e) /\ e.replica = c.replica
        /\ Ready(e) /\ Owned(e) /\ Settled(e) /\ e.flight = c.flight /\ e.front = c.front
    BY <1>3, <1>5, <1>7, <2>1, ToldIs, ToldKeeps
  <2>3. Alike(e, c, Texting) /\ e.unarrived = c.unarrived
    BY <2>2 DEF Alike, FieldNames, Texting
  <2>4. Does(e, c)
    BY <2>2, <2>3 DEF Does, Tells
  <2>5. Publishes(e, d) /\ ~Flying(e)
    BY <1>5, <1>6, <2>2 DEF Publishes, Flying
  <2> QED BY <1>7, <2>2, <2>3, <2>4, <2>5, DoesAfter DEF e, f
<1>12. CASE /\ c.buffer \notin {Closed, f.replica, c.replica} /\ c.replica = f.replica
            /\ c.buffer = f.before /\ ~f.moved
  <2>1. e = c
    BY <1>12 DEF Resolve
  <2>2. c.buffer \cap Local \subseteq Excused(c)
    BY <1>6, <1>7, <1>12 DEF Owned, Opened, f
  <2>3. c.buffer \subseteq c.replica
    BY <1>6, <1>8, <1>12 DEF FlightOK, f
  <2>4. Owned(c) /\ Settled(c)
    BY <1>5, <1>9, <1>12, <2>2, <2>3 DEF Owned, Settled, Followed, Excusable
  <2>5. Publishes(c, d)
    BY <1>6 DEF Publishes
  <2> QED BY <1>5, <1>7, <2>1, <2>4, <2>5 DEF f
<1>13. CASE /\ c.buffer \notin {Closed, f.replica, c.replica} /\ c.replica = f.replica
            /\ ~(c.buffer = f.before /\ ~f.moved)
  <2> DEFINE p == Publish(c)
  <2>1. /\ p \in Document /\ Alike(p, c, Texting \ {"buffer", "flight", "pending", "attempts"})
        /\ p.replica \in {c.replica, c.buffer} /\ (~PublishRefused(c) => p.has)
        /\ (c.save # "none" => p.save # "none") /\ c.heard \subseteq p.heard
        /\ Excused(c) \subseteq Excused(p)
        /\ Ready(p) /\ Owned(p) /\ Excusable(p) /\ Followed(p) /\ Even(p)
    BY <1>3, <1>5, <1>7, <1>9, <1>13, PublishKeeps
  <2>2. e = IF PublishRefused(c) THEN [p EXCEPT !.pending = FALSE, !.backstop = FALSE] ELSE p
    BY <1>13 DEF Resolve
  <2> HIDE DEF p
  <2>3. /\ p.buffer = c.buffer /\ p.flight = c.flight /\ p.front = c.front /\ p.cut = c.cut
        /\ p.unarrived = c.unarrived
    BY <2>1 DEF Alike, FieldNames, Texting
  <2>4. ~Flying(p) /\ Settled(p) /\ (p.unarrived => p.front)
    BY <1>5, <1>7, <2>1, <2>3 DEF Settled, Flying
  <2>5. Does(p, c)
    <3>1. Alike(p, c, Texting)
      BY <2>1 DEF Alike, Texting
    <3> QED BY <2>1, <2>3, <3>1 DEF Does, Tells
  <2>6. Does(p, d)
    BY <1>7, <2>5, DoesAfter
  <2>7. Publishes(p, d)
    <3>1. Even(c)
      BY <1>9, <1>13
    <3> QED BY <1>5, <1>6, <2>1, <2>3, <3>1 DEF Publishes, Even
  <2>8. CASE PublishRefused(c)
    <3>1. e \in Document /\ Alike(e, p, {"pending", "backstop"}) /\ e.pending = FALSE
          /\ e.backstop = FALSE
      <4>1. [p EXCEPT !.pending = FALSE] \in Document
        BY <2>1, Puts
      <4>2. e = [p EXCEPT !.pending = FALSE, !.backstop = FALSE] /\ p \in Document
        BY <2>1, <2>2, <2>8
      <4> HIDE DEF e
      <4>3. e \in Document
        BY <4>1, <4>2, Puts
      <4> QED BY <4>2, <4>3 DEF Alike, FieldNames, Document
    <3> HIDE DEF e
    <3>2. /\ Alike(e, p, {"pending", "backstop", "attempts"}) /\ e.replica = p.replica
          /\ e.cut = p.cut /\ e.unarrived = p.unarrived /\ e.front = p.front
      BY <3>1 DEF Alike, FieldNames
    <3>3. Ready(e) /\ ~Flying(e) /\ Does(e, p) /\ Owned(e) /\ Settled(e)
      BY <2>1, <2>4, <3>1, <3>2, RestedKeeps
    <3>4. Publishes(e, d)
      BY <2>7, <3>2 DEF Publishes
    <3>5. Does(e, d)
      BY <2>6, <3>3, DoesAfter
    <3> QED BY <2>4, <3>2, <3>3, <3>4, <3>5 DEF e, f
  <2>9. CASE ~PublishRefused(c)
    BY <2>1, <2>2, <2>4, <2>6, <2>7, <2>9 DEF f
  <2> QED BY <2>8, <2>9
<1> QED BY <1>10, <1>11, <1>12, <1>13

\* However a change ends, the two texts are settled or under way again.
LEMMA SettleKeeps ==
    ASSUME NEW d \in Document, Ready(d), Owned(d), Settled(d), Flying(d),
           NEW applied \in BOOLEAN, applied => d.flight.landed
    PROVE  LET e == Settle(d, applied) IN
           /\ Does(e, d) /\ Publishes(e, d)
           /\ Ready(e) /\ Owned(e) /\ Settled(e)
<1> DEFINE f == d.flight
           a == [d EXCEPT !.flight = NoFlight]
<1>1. /\ a \in Document /\ Alike(a, d, {"flight"}) /\ Does(a, d) /\ Ready(a) /\ ~Flying(a)
      /\ a.has /\ (a.unarrived => a.front)
      /\ (d.buffer \cap Local \subseteq Excused(d) => Owned(a))
  BY LandingKeeps DEF Ready
<1>2. /\ a.buffer = d.buffer /\ a.replica = d.replica /\ a.own = d.own /\ a.cut = d.cut
      /\ a.heard = d.heard /\ a.front = d.front /\ a.attempts = d.attempts /\ Opened(d)
  BY <1>1 DEF Alike, FieldNames, Ready, Placed
<1>3. Settle(d, applied) =
        IF ~a.front THEN a
        ELSE IF ~applied THEN ResumeSave(Refuse(a, f.moved))
        ELSE ResumeSave(ReconcilePending(Resolve([a EXCEPT !.attempts = 0], f)))
  BY DEF Settle
<1>4. f.moved \in BOOLEAN
  BY Fields DEF Flight
<1> HIDE DEF a
\* The save that waited goes on.
<1>5. ASSUME NEW e, Does(e, d), Publishes(e, d), Ready(e), Owned(e), Settled(e)
      PROVE  LET g == ResumeSave(e) IN
             Does(g, d) /\ Publishes(g, d) /\ Ready(g) /\ Owned(g) /\ Settled(g)
  <2> DEFINE g == ResumeSave(e)
  <2>0. e \in Document /\ (e.backstop => e.has)
    BY <1>5 DEF Ready, Entered
  <2>1. Alike(g, e, {"save"}) /\ (e.save # "none" => g.save # "none")
    BY <2>0, Clocks
  <2>2. /\ g.buffer = e.buffer /\ g.replica = e.replica /\ g.heard = e.heard /\ g.cut = e.cut
        /\ Excused(g) = Excused(e) /\ Ready(g) /\ Owned(g) /\ Settled(g)
    BY <1>5, <2>0, ClocksKeep
  <2> HIDE DEF g
  <2>3. Does(g, e)
    <3>1. Alike(g, e, Texting)
      BY <2>1 DEF Alike, Texting
    <3> QED BY <2>1, <2>2, <3>1 DEF Does, Tells
  <2>4. Does(g, d) /\ Publishes(g, d)
    BY <1>5, <2>2, <2>3, DoesAfter DEF Publishes
  <2> QED BY <2>2, <2>4 DEF g
<1>6. CASE ~a.front
  <2>1. Owned(a)
    BY <1>1, <1>2, <1>6 DEF Owned
  <2>2. Settled(a)
    BY <1>1, <1>6 DEF Settled, Even, Followed, Excusable
  <2>3. Publishes(a, d)
    BY <1>2 DEF Publishes
  <2> QED BY <1>1, <1>3, <1>6, <2>1, <2>2, <2>3
<1>7. CASE a.front /\ ~applied
  <2> DEFINE e == Refuse(a, f.moved)
  <2>1. \/ a.buffer \cap Local \subseteq Excused(a)
        \/ f.moved /\ a.attempts = 0
    BY <1>1, <1>2 DEF Owned, Does, Tells
  <2>2. /\ Alike(e, a, Reconciling) /\ Does(e, a)
        /\ Ready(e) /\ Owned(e) /\ Settled(e)
    BY <1>1, <1>4, <2>1, RefuseKeeps
  <2> HIDE DEF e
  <2>3. e.replica = a.replica /\ e.cut = a.cut
    BY <2>2 DEF Alike, FieldNames, Reconciling
  <2>4. Does(e, d) /\ Publishes(e, d)
    BY <1>1, <1>2, <2>2, <2>3, DoesAfter DEF Publishes
  <2>5. Settle(d, applied) = ResumeSave(e)
    BY <1>3, <1>7 DEF e
  <2> QED BY <1>5, <2>2, <2>4, <2>5
<1>8. CASE a.front /\ applied
  <2> DEFINE c == [a EXCEPT !.attempts = 0]
             r == Resolve(c, f)
             e == ReconcilePending(r)
  <2>1. c = [d EXCEPT !.flight = NoFlight, !.attempts = 0]
    BY DEF a, Document
  <2> HIDE DEF c
  <2>2. /\ Does(r, d) /\ Publishes(r, d) /\ Ready(r) /\ Owned(r) /\ ~Flying(r)
        /\ (r.unarrived => r.front) /\ (r.pending \/ Settled(r))
    BY <1>2, <1>8, <2>1, ResolveKeeps
  <2> HIDE DEF r
  <2>3. Alike(e, r, Reconciling) /\ Does(e, r) /\ Ready(e) /\ Owned(e) /\ Settled(e)
    BY <2>2, ReconcilePendingKeeps DEF Ready
  <2> HIDE DEF e
  <2>4. e.replica = r.replica /\ e.cut = r.cut
    BY <2>3 DEF Alike, FieldNames, Reconciling
  <2>5. Does(e, d) /\ Publishes(e, d)
    BY <2>2, <2>3, <2>4, DoesAfter DEF Publishes
  <2>6. Settle(d, applied) = ResumeSave(e)
    BY <1>3, <1>8 DEF e, r, c
  <2> QED BY <1>5, <2>3, <2>5, <2>6
<1> QED BY <1>6, <1>7, <1>8

-----------------------------------------------------------------------------
(* Opening, holding and closing. *)

LEMMA TellsAfter ==
    ASSUME NEW d, NEW e, NEW g, Tells(e, d), Tells(g, e)
    PROVE  Tells(g, d)
BY DEF Tells

LEMMA InsertCopyIs ==
    ASSUME NEW d \in Document, NEW text, text \subseteq Marks
    PROVE  LET e == InsertCopy(d, text) IN
           /\ e \in Document /\ Alike(e, d, {"has", "replica", "ever", "stirred", "seeds"})
           /\ d.has => e = d
           /\ ~d.has => /\ e.has /\ e.replica = text /\ e.ever = d.ever \cup text
                        /\ e.seeds = d.seeds + 1
<1> DEFINE g == [d EXCEPT !.has = TRUE, !.replica = text, !.ever = @ \cup text,
                          !.stirred = TRUE, !.seeds = @ + 1]
<1>1. g \in Document
  <2>1. [d EXCEPT !.has = TRUE] \in Document
    BY Puts
  <2>2. [d EXCEPT !.has = TRUE, !.replica = text] \in Document
    BY <2>1, Puts
  <2>3. d.ever \cup text \in SUBSET Marks /\ d.seeds + 1 \in Nat
    BY Fields
  <2>4. [d EXCEPT !.has = TRUE, !.replica = text, !.ever = d.ever \cup text] \in Document
    BY <2>2, <2>3, Puts
  <2>5. [d EXCEPT !.has = TRUE, !.replica = text, !.ever = d.ever \cup text,
                  !.stirred = TRUE] \in Document
    BY <2>4, Puts
  <2>6. [d EXCEPT !.has = TRUE, !.replica = text, !.ever = d.ever \cup text,
                  !.stirred = TRUE, !.seeds = d.seeds + 1] \in Document
    BY <2>3, <2>5, Puts
  <2>7. g = [d EXCEPT !.has = TRUE, !.replica = text, !.ever = d.ever \cup text,
                      !.stirred = TRUE, !.seeds = d.seeds + 1]
    BY DEF Document
  <2> QED BY <2>6, <2>7
<1>2. /\ Alike(g, d, {"has", "replica", "ever", "stirred", "seeds"})
      /\ g.has = TRUE /\ g.replica = text /\ g.ever = d.ever \cup text /\ g.seeds = d.seeds + 1
  BY DEF Alike, FieldNames, Document
<1>3. Alike(d, d, {"has", "replica", "ever", "stirred", "seeds"})
  BY DEF Alike
<1>4. InsertCopy(d, text) = IF d.has THEN d ELSE g
  BY DEF InsertCopy
<1> HIDE DEF g
<1> QED BY <1>1, <1>2, <1>3, <1>4, Fields

\* A copy of the disk enters a document the room does not have, and which no bridge method
\* has touched yet.
LEMMA InsertCopyKeeps ==
    ASSUME NEW d \in Document, Ready(d), NEW text, text \subseteq Marks,
           text \cap Local \subseteq d.typed
    PROVE  LET e == InsertCopy(d, text) IN
           /\ e \in Document /\ Alike(e, d, {"has", "replica", "ever", "stirred", "seeds"})
           /\ e.has /\ (e.replica = d.replica \/ d.replica = {})
           /\ Tells(e, d) /\ Ready(e)
           /\ Owned(d) => Owned(e)
           /\ Settled(d) /\ (d.front => d.has) => Settled(e)
<1> DEFINE e == InsertCopy(d, text)
<1>1. /\ e \in Document /\ Alike(e, d, {"has", "replica", "ever", "stirred", "seeds"})
      /\ d.has => e = d
      /\ ~d.has => /\ e.has /\ e.replica = text /\ e.ever = d.ever \cup text
                   /\ e.seeds = d.seeds + 1
  BY InsertCopyIs
<1> HIDE DEF e
<1>2. CASE d.has
  BY <1>1, <1>2, DoesNothing DEF Does, e
<1>3. CASE ~d.has
  <2>1. /\ e.buffer = d.buffer /\ e.front = d.front /\ e.flight = d.flight
        /\ e.unarrived = d.unarrived /\ e.seeded = d.seeded /\ e.save = d.save
        /\ e.queued = d.queued /\ e.reading = d.reading
        /\ e.pending = d.pending /\ e.backstop = d.backstop /\ e.attempts = d.attempts
    BY <1>1 DEF Alike, FieldNames
  <2>2. /\ e.typed = d.typed /\ e.cut = d.cut /\ e.own = d.own
        /\ e.heard = d.heard /\ e.refused = d.refused /\ e.loose = d.loose
    BY <1>1 DEF Alike, FieldNames
  <2>3. d.replica = {} /\ ~Flying(d) /\ ~Flying(e) /\ d.seeds = 0
    BY <1>3, <2>1 DEF Ready, Entered, Flying
  <2>4. Excused(d) \subseteq Excused(e)
    BY <1>1, <1>3, <2>2 DEF Excused
  <2>5. Ready(e)
    <3>1. Entered(e) /\ Roles(e) /\ Placed(e)
      BY <1>1, <1>3, <2>1, <2>2, <2>3 DEF Ready, Entered, Roles, Placed, Opened
    <3>2. Known(e)
      BY <1>1, <1>3, <2>1, <2>2 DEF Ready, Known, Opened
    <3> QED BY <1>1, <2>3, <3>1, <3>2 DEF Ready
  <2>6. Tells(e, d)
    BY <2>1, <2>2, <2>4 DEF Tells
  <2>7. Owned(d) => Owned(e)
    BY <2>1, <2>3, <2>4 DEF Owned, Opened
  <2>8. Settled(d) /\ (d.front => d.has) => Settled(e)
    BY <1>3, <2>1, <2>3 DEF Settled, Even, Followed, Excusable
  <2> QED BY <1>1, <1>3, <2>3, <2>5, <2>6, <2>7, <2>8 DEF e
<1> QED BY <1>2, <1>3

\* The copy of a host's buffer enters with the document, if the room has none.
LEMMA SeedKeeps ==
    ASSUME NEW d \in Document, Ready(d), Owned(d), Opened(d)
    PROVE  LET e == Seed([d EXCEPT !.front = TRUE]) IN
           /\ Alike(e, d, {"front", "seeded", "has", "replica", "ever", "stirred", "seeds"})
           /\ e.front = TRUE /\ (role = "host" \/ d.has => e.has)
           /\ e.replica = d.replica \/ (d.replica = {} /\ role = "host")
           /\ Tells(e, d) /\ Ready(e) /\ Owned(e)
<1> DEFINE c == [d EXCEPT !.front = TRUE]
<1>1. c \in Document /\ Alike(c, d, {"front"}) /\ c.front = TRUE
  <2>1. c \in Document
    BY Puts
  <2> QED BY <2>1 DEF Alike, FieldNames, Document
<1> HIDE DEF c
<1>2. /\ c.buffer = d.buffer /\ c.replica = d.replica /\ c.has = d.has /\ c.flight = d.flight
      /\ c.unarrived = d.unarrived /\ c.seeded = d.seeded /\ c.save = d.save
      /\ c.queued = d.queued /\ c.reading = d.reading /\ c.stirred = d.stirred
      /\ c.pending = d.pending /\ c.backstop = d.backstop /\ c.attempts = d.attempts
  BY <1>1 DEF Alike, FieldNames
<1>3. /\ c.ever = d.ever /\ c.typed = d.typed /\ c.cut = d.cut /\ c.own = d.own
      /\ c.seeds = d.seeds /\ c.heard = d.heard /\ c.refused = d.refused /\ c.loose = d.loose
  BY <1>1 DEF Alike, FieldNames
<1>4. CASE role # "host" \/ d.seeded
  <2>1. Seed(c) = c
    BY <1>2, <1>4 DEF Seed
  <2>2. Excused(c) = Excused(d)
    BY <1>3 DEF Excused
  <2>3. Ready(c)
    <3>1. Entered(c) /\ Roles(c) /\ Placed(c) /\ Known(c)
      BY <1>1, <1>2, <1>3, <1>4 DEF Ready, Entered, Roles, Placed, Known, Opened, Flying
    <3>2. Flying(c) => FlightOK(c)
      BY <1>2, <1>3, <2>2 DEF Ready, FlightOK, Flying
    <3> QED BY <1>1, <3>1, <3>2 DEF Ready
  <2>4. Owned(c)
    BY <1>1, <1>2, <2>2 DEF Owned, Opened, Flying
  <2>5. Tells(c, d)
    BY <1>2, <1>3, <2>2 DEF Tells
  <2>6. role = "host" => d.has
    BY <1>4 DEF Ready, Roles
  <2>7. Alike(c, d, {"front", "seeded", "has", "replica", "ever", "stirred", "seeds"})
    BY <1>1 DEF Alike
  <2> QED BY <1>1, <1>2, <2>1, <2>3, <2>4, <2>5, <2>6, <2>7 DEF c
<1>5. CASE role = "host" /\ ~d.seeded
  <2> DEFINE a == [c EXCEPT !.seeded = TRUE]
             e == InsertCopy(a, a.buffer)
  <2>1. a \in Document /\ Alike(a, c, {"seeded"}) /\ a.seeded = TRUE
    <3>1. a \in Document
      BY <1>1, Puts
    <3> QED BY <1>1, <3>1 DEF Alike, FieldNames, Document
  <2>2. Seed(c) = InsertCopy(a, c.buffer)
    BY <1>2, <1>5 DEF Seed
  <2> HIDE DEF a
  <2>3. a.buffer = d.buffer /\ a.buffer \subseteq Marks /\ a.has = d.has /\ a.ever = d.ever
        /\ a.seeds = d.seeds /\ a.replica = d.replica /\ c.buffer = a.buffer
    BY <1>2, <1>3, <2>1, Fields DEF Alike, FieldNames, Opened
  <2>4. /\ e \in Document /\ Alike(e, a, {"has", "replica", "ever", "stirred", "seeds"})
        /\ a.has => e = a
        /\ ~a.has => /\ e.has /\ e.replica = a.buffer /\ e.ever = a.ever \cup a.buffer
                     /\ e.seeds = a.seeds + 1
    BY <2>1, <2>3, InsertCopyIs
  <2> HIDE DEF e
  <2>5. Alike(e, d, {"front", "seeded", "has", "replica", "ever", "stirred", "seeds"})
        /\ e.front = TRUE /\ e.seeded = TRUE /\ e.has
    <3>1. e.front = a.front /\ e.seeded = a.seeded /\ a.front = c.front
      BY <2>1, <2>4 DEF Alike, FieldNames
    <3> QED BY <1>1, <2>1, <2>4, <3>1 DEF Alike
  <2>6. /\ e.buffer = d.buffer /\ e.flight = d.flight /\ e.unarrived = d.unarrived
        /\ e.queued = d.queued /\ e.reading = d.reading /\ e.save = d.save
        /\ e.pending = d.pending /\ e.backstop = d.backstop /\ e.attempts = d.attempts
        /\ e.typed = d.typed /\ e.cut = d.cut /\ e.own = d.own
        /\ e.heard = d.heard /\ e.refused = d.refused /\ e.loose = d.loose
    BY <2>5 DEF Alike, FieldNames
  <2>7. \/ d.has /\ e.replica = d.replica /\ e.ever = d.ever /\ e.seeds = d.seeds
        \/ /\ ~d.has /\ d.replica = {} /\ d.seeds = 0 /\ ~Flying(d)
           /\ e.replica = d.buffer /\ e.ever = d.ever \cup d.buffer /\ e.seeds = 1
    BY <2>3, <2>4 DEF Ready, Entered
  <2>8. Excused(d) \subseteq Excused(e) /\ (Flying(e) <=> Flying(d)) /\ Opened(e)
    BY <2>6, <2>7 DEF Excused, Flying, Opened
  <2>9. Ready(e)
    <3>1. Entered(e) /\ Roles(e) /\ Placed(e)
      BY <1>5, <2>5, <2>6, <2>7, <2>8 DEF Ready, Entered, Roles, Placed
    <3>2. Known(e)
      BY <2>6, <2>7, <2>8, BridgeAssumption DEF Ready, Known, Opened
    <3>3. Flying(e) => FlightOK(e)
      BY <2>6, <2>7, <2>8 DEF Ready, FlightOK
    <3> QED BY <2>4, <3>1, <3>2, <3>3 DEF Ready
  <2>10. Owned(e)
    BY <2>5, <2>6, <2>8 DEF Owned, Opened
  <2>11. Tells(e, d)
    BY <2>6, <2>8 DEF Tells
  <2>12. Seed(c) = e
    BY <2>2, <2>3 DEF e
  <2> QED BY <1>5, <2>5, <2>7, <2>9, <2>10, <2>11, <2>12 DEF c
<1> QED BY <1>4, <1>5

Entering == Texting \cup {"front", "seeded", "seeds"}

LEMMA PutInFrontKeeps ==
    ASSUME NEW d \in Document, Ready(d), Owned(d), Opened(d), role = "host" => Followed(d),
           role = "host" \/ d.has \/ d.buffer = {}
    PROVE  LET e == PutInFront(d) IN
           /\ Alike(e, d, Entering)
           /\ IF SeedFails(d) THEN e.front = d.front ELSE e.front = TRUE
           /\ e.replica = d.replica \/ (d.replica = {} /\ role = "host")
           /\ Tells(e, d) /\ Ready(e) /\ Owned(e) /\ Settled(e)
<1>0. d.backstop => d.has
  BY DEF Ready, Entered
<1>1. CASE SeedFails(d)
  <2> DEFINE c == [d EXCEPT !.front = FALSE]
             e == SayRefusal(c)
  <2>1. PutInFront(d) = e
    BY <1>1 DEF PutInFront
  <2>2. d.front = FALSE
    BY <1>1, Fields DEF SeedFails, Ready, Roles
  <2>3. c \in Document /\ Alike(c, d, {})
    <3>1. c \in Document
      BY Puts
    <3> QED BY <2>2, <3>1 DEF Alike, FieldNames, Document
  <2> HIDE DEF c
  <2>4. /\ Alike(c, d, Besides \cup Excuses) /\ c.heard = d.heard /\ c.refused = d.refused
        /\ c.loose = d.loose /\ c.backstop = d.backstop /\ c.front = d.front
        /\ c.replica = d.replica /\ c.save = d.save /\ c.buffer = d.buffer
        /\ c.flight = d.flight /\ c.pending = d.pending
    BY <2>3 DEF Alike, FieldNames
  <2>5. Excused(d) \subseteq Excused(c) /\ Ready(c) /\ Owned(c) /\ c.has = d.has
    BY <1>0, <2>3, <2>4, MoreIsExcused
  <2>6. Opened(c) /\ Settled(c)
    BY <1>1, <2>2, <2>4 DEF SeedFails, Opened, Settled, Even, Followed, Excusable, Flying
  <2>7. /\ e \in Document /\ e.replica = c.replica /\ e.front = c.front /\ e.save = c.save
        /\ e.buffer = c.buffer
        /\ Alike(e, c, {"heard", "said", "refused"}) /\ c.heard \subseteq e.heard
        /\ Excused(c) \subseteq Excused(e) /\ Ready(e) /\ Owned(e) /\ Settled(e)
    BY <1>0, <2>3, <2>4, <2>5, <2>6, SayRefusalKeeps
  <2> HIDE DEF e
  <2>8. Alike(e, d, Entering)
    BY <2>3, <2>7 DEF Alike, Entering, Texting
  <2>9. Tells(e, d)
    BY <2>4, <2>5, <2>7 DEF Tells
  <2> QED BY <1>1, <2>1, <2>4, <2>7, <2>8, <2>9
<1>2. CASE ~SeedFails(d)
  <2> DEFINE c == Seed([d EXCEPT !.front = TRUE])
             e == Reconcile(c)
  <2>1. PutInFront(d) = e
    BY <1>2 DEF PutInFront
  <2>2. /\ Alike(c, d, {"front", "seeded", "has", "replica", "ever", "stirred", "seeds"})
        /\ c.front = TRUE /\ (role = "host" \/ d.has => c.has)
        /\ c.replica = d.replica \/ (d.replica = {} /\ role = "host")
        /\ Tells(c, d) /\ Ready(c) /\ Owned(c)
    BY SeedKeeps
  <2> HIDE DEF c
  <2>3. Reconcilable(c)
    <3>1. c.buffer = d.buffer
      BY <2>2 DEF Alike, FieldNames
    <3>2. Opened(c) /\ c.buffer # c.replica => c.has
      BY <2>2, <3>1 DEF Ready, Entered
    <3> QED BY <2>2, <3>2 DEF Reconcilable
  <2>4. /\ Alike(e, c, Reconciling) /\ Does(e, c)
        /\ Ready(e) /\ Owned(e) /\ Settled(e)
    BY <2>2, <2>3, ReconcileKeeps DEF Ready
  <2> HIDE DEF e
  <2>5. e.front = c.front /\ e.replica = c.replica
    BY <2>4 DEF Alike, FieldNames, Reconciling
  <2>6. Alike(e, d, Entering)
    BY <2>2, <2>4 DEF Alike, Entering, Texting, Reconciling
  <2>7. Tells(e, d)
    BY <2>2, <2>4, TellsAfter DEF Does
  <2> QED BY <1>2, <2>1, <2>2, <2>4, <2>5, <2>6, <2>7
<1> QED BY <1>1, <1>2

-----------------------------------------------------------------------------
(* What a step keeps. *)

Good(d) == Ready(d) /\ Owned(d) /\ Settled(d) /\ Holds(d)

\* What the three action properties say of a step from d to e.
Loses(e, d) ==
    e.buffer # Closed => (d.buffer \cap Local) \ (e.buffer \cup e.cut) \subseteq Excused(e)
Saves(e, d) ==
    d.save = "armed" /\ e.save = "none" /\ e.front =>
        /\ d.replica \ d.buffer \subseteq d.heard \cup d.cut
        /\ d.buffer \ d.replica \subseteq d.heard \cup d.refused
Keeps(e, d) == Good(e) /\ Loses(e, d) /\ Saves(e, d)

LEMMA TellsKeeps ==
    ASSUME NEW d, NEW e, Tells(e, d), Good(e)
    PROVE  Keeps(e, d)
BY DEF Tells, Keeps, Loses, Saves

\* A method of the texts asks for no hold and gives none back.
LEMMA HoldsStay ==
    ASSUME NEW d, NEW e, Holds(d), Alike(e, d, Texting)
    PROVE  Holds(e)
<1>1. /\ e.front = d.front /\ e.unarrived = d.unarrived /\ e.asks = d.asks
      /\ e.held = d.held /\ e.holding = d.holding
  BY DEF Alike, FieldNames, Texting
<1> QED BY <1>1 DEF Holds

\* A guest's document, at last in the room, goes in front.
LEMMA ArriveKeeps ==
    ASSUME NEW d \in Document, Ready(d), Owned(d), Holds(d), d.unarrived, d.has
    PROVE  LET e == Arrive(d) IN
           Tells(e, d) /\ Good(e) /\ e.replica = d.replica
<1> DEFINE c == [d EXCEPT !.unarrived = FALSE]
           e == PutInFront(c)
<1>1. Opened(d) /\ role # "host"
  BY DEF Ready, Placed, Roles
<1>2. Arrive(d) = e
  BY <1>1 DEF Arrive, Opened
<1>3. c \in Document /\ Alike(c, d, {"unarrived"}) /\ c.unarrived = FALSE
  <2>1. c \in Document
    BY Puts
  <2> QED BY <2>1 DEF Alike, FieldNames, Document
<1> HIDE DEF c
<1>4. /\ c.buffer = d.buffer /\ c.replica = d.replica /\ c.has = d.has /\ c.front = d.front
      /\ c.seeded = d.seeded /\ c.save = d.save
      /\ c.queued = d.queued /\ c.reading = d.reading /\ c.stirred = d.stirred
      /\ c.flight = d.flight /\ c.pending = d.pending /\ c.backstop = d.backstop
      /\ c.attempts = d.attempts
      /\ c.asks = d.asks /\ c.held = d.held /\ c.holding = d.holding
  BY <1>3 DEF Alike, FieldNames
<1>5. /\ c.ever = d.ever /\ c.typed = d.typed /\ c.cut = d.cut /\ c.own = d.own
      /\ c.seeds = d.seeds /\ c.heard = d.heard /\ c.refused = d.refused /\ c.loose = d.loose
  BY <1>3 DEF Alike, FieldNames
<1>6. Excused(c) = Excused(d) /\ Opened(c)
  BY <1>1, <1>4, <1>5 DEF Excused, Opened
<1>7. Ready(c)
  <2>1. Entered(c) /\ Roles(c) /\ Placed(c) /\ Known(c)
    BY <1>1, <1>3, <1>4, <1>5 DEF Ready, Entered, Roles, Placed, Known, Opened, Flying
  <2>2. Flying(c) => FlightOK(c)
    BY <1>4, <1>5, <1>6 DEF Ready, FlightOK, Flying
  <2> QED BY <1>3, <2>1, <2>2 DEF Ready
<1>8. Owned(c)
  BY <1>4, <1>6 DEF Owned, Opened, Flying
<1>9. Tells(c, d)
  BY <1>4, <1>5, <1>6 DEF Tells
<1>10. ~SeedFails(c)
  BY <1>1 DEF SeedFails
<1>11. /\ Alike(e, c, Entering) /\ e.front = TRUE /\ e.replica = c.replica
       /\ Tells(e, c) /\ Ready(e) /\ Owned(e) /\ Settled(e)
  BY <1>1, <1>3, <1>4, <1>6, <1>7, <1>8, <1>10, PutInFrontKeeps
<1> HIDE DEF e
<1>12. e.asks = c.asks /\ e.held = c.held /\ e.holding = c.holding
  BY <1>11 DEF Alike, FieldNames, Entering, Texting
<1>13. Holds(e)
  BY <1>4, <1>11, <1>12 DEF Holds
<1>14. Tells(e, d)
  BY <1>9, <1>11, TellsAfter
<1> QED BY <1>2, <1>4, <1>11, <1>13, <1>14 DEF Good

\* The engine's event, of a document the room has by then.
LEMMA OnDocumentChangedKeeps ==
    ASSUME NEW d \in Document, Ready(d), Owned(d), Holds(d), d.has
    PROVE  LET e == OnDocumentChanged(d) IN
           Tells(e, d) /\ Good(e) /\ e.replica = d.replica
<1>1. CASE d.unarrived
  BY <1>1, ArriveKeeps DEF OnDocumentChanged
<1>2. CASE ~d.unarrived
  <2> DEFINE e == Reconcile(d)
  <2>1. OnDocumentChanged(d) = e
    BY <1>2 DEF OnDocumentChanged
  <2>2. Reconcilable(d)
    BY <1>2 DEF Reconcilable
  <2>3. /\ Alike(e, d, Reconciling) /\ Does(e, d) /\ Ready(e) /\ Owned(e) /\ Settled(e)
    BY <2>2, ReconcileKeeps
  <2> HIDE DEF e
  <2>4. e.replica = d.replica
    BY <2>3 DEF Alike, FieldNames, Reconciling
  <2>5. Holds(e)
    BY <2>3, HoldsStay DEF Does
  <2> QED BY <2>1, <2>3, <2>4, <2>5 DEF Does, Good
<1> QED BY <1>1, <1>2

\* A hold is asked for with the document.
LEMMA HoldIs ==
    ASSUME NEW d \in Document, Ready(d), Owned(d), Settled(d)
    PROVE  LET e == Hold(d) IN
           Tells(e, d) /\ Good(e) /\ e.replica = d.replica
<1> DEFINE e == Hold(d)
<1>1. e \in Document /\ Alike(e, d, {"asks", "holding"}) /\ e.asks = d.asks + 1 /\ e.holding = TRUE
  <2>1. d.asks + 1 \in Nat /\ d.asks \in Nat
    BY Fields
  <2>2. [d EXCEPT !.asks = d.asks + 1] \in Document
    BY <2>1, Puts
  <2>3. e = [d EXCEPT !.asks = d.asks + 1, !.holding = TRUE]
    BY DEF Hold, Document
  <2>4. e \in Document
    BY <2>2, <2>3, Puts
  <2> QED BY <2>3, <2>4 DEF Alike, FieldNames, Document
<1>2. e.asks > 0
  BY <1>1, Fields
<1> HIDE DEF e
<1>3. /\ Alike(e, d, Besides \cup Excuses) /\ e.heard = d.heard /\ e.refused = d.refused
      /\ e.loose = d.loose /\ e.save = d.save /\ e.backstop = d.backstop
  BY <1>1 DEF Alike, FieldNames, Besides
<1>4. d.backstop => d.has
  BY DEF Ready, Entered
<1>5. /\ Excused(d) \subseteq Excused(e) /\ e.buffer = d.buffer /\ e.replica = d.replica
      /\ Ready(e) /\ Owned(e) /\ Settled(e)
  BY <1>1, <1>3, <1>4, MoreIsExcused
<1>6. Holds(e)
  BY <1>1, <1>2 DEF Holds
<1> QED BY <1>3, <1>5, <1>6 DEF Tells, Good, e

\* However often the editor says a document opened.
LEMMA DocumentOpenedKeeps ==
    ASSUME NEW d \in Document, Good(d), Opened(d), role \in {"host", "guest"}
    PROVE  LET e == DocumentOpened(d) IN
           Tells(e, d) /\ Good(e) /\ Publishes(e, d)
<1>1. CASE role = "guest" /\ ~d.has /\ d.buffer # {}
  <2> DEFINE own == IF d.front THEN d.own ELSE d.own \cup d.buffer
             c == [d EXCEPT !.unarrived = TRUE, !.own = own]
             e == Hold(c)
  <2>1. DocumentOpened(d) = e
    BY <1>1 DEF DocumentOpened, Document
  <2>2. own \subseteq Marks
    BY Fields DEF Opened
  <2> HIDE DEF own
  <2>3. /\ c \in Document /\ Alike(c, d, {"unarrived", "own"})
        /\ c.unarrived = TRUE /\ c.own = own
    <3>1. [d EXCEPT !.unarrived = TRUE] \in Document
      BY Puts
    <3>2. c \in Document
      BY <2>2, <3>1, Puts
    <3> QED BY <3>2 DEF Alike, FieldNames, Document
  <2> HIDE DEF c
  <2>4. /\ c.buffer = d.buffer /\ c.replica = d.replica /\ c.has = d.has /\ c.front = d.front
        /\ c.seeded = d.seeded /\ c.save = d.save
        /\ c.queued = d.queued /\ c.reading = d.reading /\ c.stirred = d.stirred
        /\ c.flight = d.flight /\ c.pending = d.pending /\ c.backstop = d.backstop
        /\ c.attempts = d.attempts
    BY <2>3 DEF Alike, FieldNames
  <2>5. /\ c.ever = d.ever /\ c.typed = d.typed /\ c.cut = d.cut
        /\ c.seeds = d.seeds /\ c.heard = d.heard /\ c.refused = d.refused /\ c.loose = d.loose
    BY <2>3 DEF Alike, FieldNames
  <2>6. Excused(c) = Excused(d) /\ Opened(c) /\ ~Flying(d) /\ ~Flying(c)
    BY <1>1, <2>4, <2>5 DEF Excused, Opened, Flying, Good, Ready, Entered
  <2>7. Ready(c)
    <3>1. Entered(c) /\ Roles(c) /\ Placed(c)
      BY <1>1, <2>3, <2>4, <2>5, <2>6 DEF Good, Ready, Entered, Roles, Placed
    <3>2. Known(c)
      BY <2>3, <2>4, <2>5, <2>6 DEF Good, Ready, Known, Opened, own
    <3> QED BY <2>3, <2>6, <3>1, <3>2 DEF Ready
  <2>8. Owned(c)
    BY <2>4, <2>6 DEF Good, Owned, Opened
  <2>9. Settled(c)
    BY <2>3, <2>4, <2>5, <2>6 DEF Good, Settled, Even, Followed, Excusable, own
  <2>10. Tells(c, d)
    BY <2>4, <2>5, <2>6 DEF Tells
  <2>11. Tells(e, c) /\ Good(e) /\ e.replica = c.replica
    BY <2>3, <2>7, <2>8, <2>9, HoldIs
  <2> HIDE DEF e
  <2>12. Tells(e, d) /\ Publishes(e, d)
    BY <2>4, <2>10, <2>11, TellsAfter DEF Publishes
  <2> QED BY <2>1, <2>11, <2>12
<1>2. CASE ~(role = "guest" /\ ~d.has /\ d.buffer # {})
  <2> DEFINE c == PutInFront(d)
  <2>1. DocumentOpened(d) = IF SeedFails(d) THEN c ELSE Hold(c)
    BY <1>2 DEF DocumentOpened
  <2>2. role = "host" \/ d.has \/ d.buffer = {}
    BY <1>2
  <2>3. /\ Alike(c, d, Entering)
        /\ IF SeedFails(d) THEN c.front = d.front ELSE c.front = TRUE
        /\ c.replica = d.replica \/ (d.replica = {} /\ role = "host")
        /\ Tells(c, d) /\ Ready(c) /\ Owned(c) /\ Settled(c)
    BY <2>2, PutInFrontKeeps DEF Good, Settled
  <2> HIDE DEF c
  <2>4. Publishes(c, d)
    BY <2>3 DEF Publishes, Good, Ready, Roles
  <2>5. CASE SeedFails(d)
    <3>1. /\ c.front = d.front /\ c.unarrived = d.unarrived /\ c.asks = d.asks
          /\ c.held = d.held /\ c.holding = d.holding
      BY <2>3, <2>5 DEF Alike, FieldNames, Entering, Texting
    <3>2. Holds(c)
      BY <3>1 DEF Good, Holds
    <3> QED BY <2>1, <2>3, <2>4, <2>5, <3>2 DEF Good
  <2>6. CASE ~SeedFails(d)
    <3>1. Tells(Hold(c), c) /\ Good(Hold(c)) /\ Hold(c).replica = c.replica
      BY <2>3, HoldIs DEF Ready
    <3>2. Tells(Hold(c), d) /\ Publishes(Hold(c), d)
      <4>1. Hold(c).cut = c.cut
        BY <2>3 DEF Hold, Ready, Document
      <4>2. Publishes(Hold(c), d)
        BY <2>4, <3>1, <4>1 DEF Publishes
      <4> QED BY <2>3, <3>1, <4>2, TellsAfter
    <3> QED BY <2>1, <2>6, <3>1, <3>2
  <2> QED BY <2>5, <2>6
<1> QED BY <1>1, <1>2

-----------------------------------------------------------------------------
(* The steps of a session: the editor and its person. *)

Steps(e, d) == Keeps(e, d) /\ Publishes(e, d)

\* Nothing but clocks, holds and what the person knows is moved.
LEMMA Nothing ==
    ASSUME NEW d \in Document, NEW e \in Document, Good(d), Holds(e),
           Alike(e, d, Besides), e.backstop => d.has,
           d.save = "armed" /\ e.save = "none" /\ e.front =>
              /\ d.replica \ d.buffer \subseteq d.heard \cup d.cut
              /\ d.buffer \ d.replica \subseteq d.heard \cup d.refused
    PROVE  Steps(e, d)
<1>1. /\ e.heard = d.heard /\ e.refused = d.refused /\ e.loose = d.loose
      /\ Alike(e, d, Besides \cup Excuses)
  BY DEF Alike, FieldNames, Besides
<1>2. /\ Excused(d) \subseteq Excused(e)
      /\ e.buffer = d.buffer /\ e.replica = d.replica
      /\ Ready(e) /\ Owned(e) /\ Settled(e)
  BY <1>1, MoreIsExcused DEF Good
<1> QED BY <1>2 DEF Steps, Keeps, Good, Loses, Saves, Publishes

LEMMA OpenSteps ==
    ASSUME Good(s), role \in {"host", "guest"}, NEW text \in Texts, Open(text)
    PROVE  Steps(s', s)
<1> DEFINE d == [s EXCEPT !.buffer = text]
<1>0. s \in Document
  BY DEF Good, Ready
<1>1. s' = DocumentOpened(d)
  BY DEF Open
<1>2. CASE Opened(s)
  <2>1. d = s
    BY <1>0, <1>2 DEF Texts, Opened, Document
  <2> HIDE DEF d
  <2>2. Tells(s', s) /\ Good(s') /\ Publishes(s', s)
    BY <1>0, <1>1, <1>2, <2>1, DocumentOpenedKeeps
  <2> QED BY <2>2, TellsKeeps DEF Steps
<1>3. CASE ~Opened(s)
  <2>1. text \in {Disk, s.replica, {}}
    BY <1>3 DEF Texts, Opened
  <2>2. text \subseteq Marks /\ text \subseteq Disk \cup s.ever /\ Disk \cap Local = {}
    BY <1>0, <2>1, Fields, BridgeAssumption DEF Marks, Good, Ready, Known
  <2>3. d \in Document /\ Alike(d, s, {"buffer"}) /\ d.buffer = text
    <3>1. d \in Document
      BY <1>0, <2>2, Puts
    <3> QED BY <1>0, <3>1 DEF Alike, FieldNames, Document
  <2> HIDE DEF d
  <2>4. /\ d.replica = s.replica /\ d.has = s.has /\ d.front = s.front
        /\ d.unarrived = s.unarrived /\ d.seeded = s.seeded /\ d.save = s.save
        /\ d.queued = s.queued /\ d.reading = s.reading /\ d.stirred = s.stirred
        /\ d.flight = s.flight /\ d.pending = s.pending /\ d.backstop = s.backstop
        /\ d.asks = s.asks /\ d.held = s.held /\ d.holding = s.holding
    BY <2>3 DEF Alike, FieldNames
  <2>5. /\ d.ever = s.ever /\ d.typed = s.typed /\ d.cut = s.cut /\ d.own = s.own
        /\ d.seeds = s.seeds /\ d.heard = s.heard /\ d.refused = s.refused /\ d.loose = s.loose
    BY <2>3 DEF Alike, FieldNames
  <2>6. Opened(d) /\ Excused(d) = Excused(s)
    BY <2>2, <2>3, <2>5, BridgeAssumption DEF Opened, Closed, Excused
  <2>7. ~d.front /\ ~d.unarrived /\ ~Flying(d)
    BY <1>0, <1>3, <2>4, Fields DEF Good, Ready, Placed, Flying
  <2>8. Ready(d)
    <3>1. Entered(d) /\ Roles(d) /\ Placed(d)
      BY <2>4, <2>5, <2>6, <2>7 DEF Good, Ready, Entered, Roles, Placed, Flying
    <3>2. Known(d)
      BY <2>2, <2>3, <2>4, <2>5 DEF Good, Ready, Known
    <3> QED BY <2>3, <2>7, <3>1, <3>2 DEF Ready
  <2>9. Owned(d) /\ Settled(d)
    BY <2>2, <2>3, <2>5, <2>6, <2>7 DEF Owned, Settled, Even, Followed, Excusable, Excused
  <2>10. Holds(d)
    BY <2>4 DEF Good, Holds
  <2>11. Tells(s', d) /\ Good(s') /\ Publishes(s', d)
    BY <1>1, <2>3, <2>6, <2>8, <2>9, <2>10, DocumentOpenedKeeps DEF Good
  <2>12. s.buffer \cap Local = {}
    BY <1>3, BridgeAssumption DEF Opened, Closed, Marks
  <2>13. Tells(d, s)
    BY <2>4, <2>5, <2>6, <2>12 DEF Tells
  <2>14. Tells(s', s)
    BY <2>11, <2>13, TellsAfter
  <2>15. Publishes(s', s)
    BY <2>4, <2>5, <2>11 DEF Publishes
  <2> QED BY <2>11, <2>14, <2>15, TellsKeeps DEF Steps
<1> QED BY <1>2, <1>3

\* What a close and a refused hold take away.
LEMMA ForgetIs ==
    ASSUME NEW d \in Document
    PROVE  LET e == Forget(d) IN
           /\ e \in Document
           /\ Alike(e, d, {"unarrived", "front", "flight", "stale", "save", "backstop", "pending",
                           "attempts"})
           /\ ~e.front /\ ~e.unarrived /\ ~Flying(e) /\ e.save = "none" /\ ~e.backstop
           /\ ~e.pending
<1> DEFINE t == d.stale \/ d.flight # NoFlight
           e1 == [d EXCEPT !.unarrived = FALSE]
           e2 == [e1 EXCEPT !.front = FALSE]
           e3 == [e2 EXCEPT !.flight = NoFlight]
           e4 == [e3 EXCEPT !.stale = t]
           e5 == [e4 EXCEPT !.save = "none"]
           e6 == [e5 EXCEPT !.backstop = FALSE]
           e7 == [e6 EXCEPT !.pending = FALSE]
           e8 == [e7 EXCEPT !.attempts = 0]
<1>1. t \in BOOLEAN
  BY Fields
<1> HIDE DEF t
<1>2. e1 \in Document /\ e2 \in Document /\ e3 \in Document
  <2>1. e1 \in Document
    BY Puts
  <2> HIDE DEF e1
  <2>2. e2 \in Document
    BY <2>1, Puts
  <2> HIDE DEF e2
  <2> QED BY <2>1, <2>2, Puts
<1>3. e4 \in Document /\ e5 \in Document /\ e6 \in Document
  <2> HIDE DEF e3
  <2>1. e4 \in Document
    BY <1>1, <1>2, Puts
  <2> HIDE DEF e4
  <2>2. e5 \in Document
    BY <2>1, Puts
  <2> HIDE DEF e5
  <2> QED BY <2>1, <2>2, Puts
<1>4. e8 \in Document
  <2> HIDE DEF e6
  <2>1. e7 \in Document
    BY <1>3, Puts
  <2> HIDE DEF e7
  <2> QED BY <2>1, Puts
<1>5. Forget(d) = e8
  BY DEF Forget, Document, t
<1>6. /\ Alike(e8, d, {"unarrived", "front", "flight", "stale", "save", "backstop", "pending",
                       "attempts"})
      /\ e8.front = FALSE /\ e8.unarrived = FALSE /\ e8.flight = NoFlight /\ e8.save = "none"
      /\ e8.backstop = FALSE /\ e8.pending = FALSE
  BY DEF Alike, FieldNames, Document
<1> HIDE DEF e8
<1> QED BY <1>4, <1>5, <1>6 DEF Flying

LEMMA CloseSteps ==
    ASSUME Good(s), Close
    PROVE  Steps(s', s)
<1> DEFINE b == Forget(s)
           c == Release(b)
           e == [c EXCEPT !.seeded = FALSE, !.said = FALSE, !.buffer = Closed, !.own = {}]
<1>0. s \in Document /\ s' = e
  BY DEF Good, Ready, Close
<1>1. /\ b \in Document
      /\ Alike(b, s, {"unarrived", "front", "flight", "stale", "save", "backstop", "pending",
                      "attempts"})
      /\ ~b.front /\ ~b.unarrived /\ ~Flying(b) /\ b.save = "none" /\ ~b.backstop
      /\ ~b.pending
  BY <1>0, ForgetIs
<1> HIDE DEF b
<1>2. /\ c \in Document /\ Alike(c, b, {"held", "holding"})
      /\ (c.holding => ~c.held) \/ c = b
      /\ b.held => ~c.holding
  <2>1. CASE b.held
    <3>1. c = [b EXCEPT !.held = FALSE, !.holding = FALSE]
      BY <2>1 DEF Release
    <3>2. [b EXCEPT !.held = FALSE] \in Document
      BY <1>1, Puts
    <3>3. c \in Document
      BY <3>1, <3>2, Puts
    <3> QED BY <1>1, <3>1, <3>3 DEF Alike, FieldNames, Document
  <2>2. CASE ~b.held
    <3>1. c = b
      BY <2>2 DEF Release
    <3> QED BY <1>1, <2>2, <3>1 DEF Alike
  <2> QED BY <2>1, <2>2
<1>3. c.holding => b.holding /\ ~b.held
  BY <1>1, <1>2, Fields DEF Alike, FieldNames, Release
<1> HIDE DEF c
<1>4. /\ e \in Document /\ Alike(e, c, {"seeded", "said", "buffer", "own"})
      /\ e.seeded = FALSE /\ e.buffer = Closed /\ e.own = {}
  <2>1. [c EXCEPT !.seeded = FALSE] \in Document
    BY <1>2, Puts
  <2>2. [c EXCEPT !.seeded = FALSE, !.said = FALSE] \in Document
    BY <2>1, Puts
  <2>3. [c EXCEPT !.seeded = FALSE, !.said = FALSE, !.buffer = Closed] \in Document
    BY <2>2, Puts
  <2>4. e \in Document
    BY <2>3, Puts
  <2> QED BY <1>2, <2>4 DEF Alike, FieldNames, Document
<1> HIDE DEF e
<1>5. /\ e.replica = s.replica /\ e.has = s.has /\ e.asks = s.asks
      /\ e.queued = s.queued /\ e.reading = s.reading /\ e.stirred = s.stirred
      /\ e.ever = s.ever /\ e.typed = s.typed /\ e.cut = s.cut
      /\ e.seeds = s.seeds /\ e.heard = s.heard /\ e.refused = s.refused /\ e.loose = s.loose
  BY <1>1, <1>2, <1>4 DEF Alike, FieldNames
<1>6. /\ ~e.front /\ ~e.unarrived /\ ~Flying(e) /\ ~e.backstop /\ ~e.pending
      /\ (e.holding => s.holding /\ ~s.held) /\ ~Opened(e)
  BY <1>1, <1>2, <1>3, <1>4 DEF Alike, FieldNames, Flying, Opened
<1>7. Ready(e)
  <2>1. Entered(e) /\ Roles(e) /\ Placed(e) /\ Known(e)
    BY <1>4, <1>5, <1>6 DEF Good, Ready, Entered, Roles, Placed, Known
  <2> QED BY <1>4, <1>6, <2>1 DEF Ready
<1>8. Owned(e) /\ Settled(e)
  BY <1>6 DEF Owned, Settled, Even, Followed, Excusable
<1>9. Holds(e)
  BY <1>5, <1>6 DEF Good, Holds
<1> QED BY <1>0, <1>4, <1>5, <1>6, <1>7, <1>8, <1>9
        DEF Steps, Keeps, Good, Loses, Saves, Publishes

\* A keystroke, a cut or a landing becomes an event of the buffer.
LEMMA EventSteps ==
    ASSUME NEW d \in Document, NEW e, e = DocumentChanged(d),
           Ready(d), Opened(d), Typed(d), Even(d), Followed(d), Holds(d)
    PROVE  /\ Good(e) /\ Tells(e, d) /\ e.cut = d.cut /\ e.buffer = d.buffer
           /\ Publishes(e, d)
<1>1. /\ Alike(e, d, Texting \ {"buffer", "attempts"})
      /\ e.replica = d.replica \/ (~Flying(d) /\ d.front /\ e.replica = d.buffer)
      /\ d.save # "none" => e.save # "none"
      /\ d.heard \subseteq e.heard
      /\ Excused(d) \subseteq Excused(e)
      /\ Ready(e) /\ Owned(e) /\ Settled(e)
  BY DocumentChangedKeeps
<1>2. Alike(e, d, Texting) /\ e.cut = d.cut /\ e.buffer = d.buffer
  BY <1>1 DEF Alike, FieldNames, Texting
<1>3. Holds(e)
  BY <1>2, HoldsStay
<1>4. Publishes(e, d)
  BY <1>1, <1>2 DEF Publishes, Even
<1> QED BY <1>1, <1>2, <1>3, <1>4 DEF Good, Tells

LEMMA TypeSteps ==
    ASSUME Good(s), NEW m \in Local, Type(m)
    PROVE  Steps(s', s)
<1> DEFINE own == IF s.unarrived /\ ~s.front THEN s.own \cup {m} ELSE s.own
           loose == IF ~s.front \/ s.attempts > 0 THEN s.loose \cup {m} ELSE s.loose
           d == [s EXCEPT !.buffer = s.buffer \cup {m}, !.typed = s.typed \cup {m},
                          !.own = own, !.loose = loose]
<1>0. s \in Document /\ Opened(s) /\ m \notin s.typed /\ m \in Marks
  BY DEF Good, Ready, Type, Opened, Marks
<1>1. s' = DocumentChanged(d)
  BY <1>0 DEF Type, Document
<1>2. own \subseteq Marks /\ loose \subseteq Marks /\ s.buffer \cup {m} \subseteq Marks
      /\ s.typed \cup {m} \subseteq Marks
  BY <1>0, Fields DEF Opened
<1> HIDE DEF own, loose
<1>3. /\ d \in Document /\ Alike(d, s, {"buffer", "typed", "own", "loose"})
      /\ d.buffer = s.buffer \cup {m} /\ d.typed = s.typed \cup {m} /\ d.own = own
      /\ d.loose = loose
  <2>1. [s EXCEPT !.buffer = s.buffer \cup {m}] \in Document
    BY <1>0, <1>2, Puts
  <2>2. [s EXCEPT !.buffer = s.buffer \cup {m}, !.typed = s.typed \cup {m}] \in Document
    BY <1>2, <2>1, Puts
  <2>3. [s EXCEPT !.buffer = s.buffer \cup {m}, !.typed = s.typed \cup {m},
                  !.own = own] \in Document
    BY <1>2, <2>2, Puts
  <2>4. d \in Document
    BY <1>2, <2>3, Puts
  <2> QED BY <1>0, <2>4 DEF Alike, FieldNames, Document
<1> HIDE DEF d
<1>4. /\ d.replica = s.replica /\ d.has = s.has /\ d.front = s.front
      /\ d.unarrived = s.unarrived /\ d.seeded = s.seeded /\ d.save = s.save
      /\ d.queued = s.queued /\ d.reading = s.reading /\ d.stirred = s.stirred
      /\ d.flight = s.flight /\ d.pending = s.pending /\ d.backstop = s.backstop
      /\ d.asks = s.asks /\ d.held = s.held /\ d.holding = s.holding
      /\ d.attempts = s.attempts
  BY <1>3 DEF Alike, FieldNames
<1>5. /\ d.ever = s.ever /\ d.cut = s.cut /\ d.seeds = s.seeds /\ d.heard = s.heard
      /\ d.refused = s.refused
  BY <1>3 DEF Alike, FieldNames
<1>6. /\ s.loose \subseteq d.loose /\ s.own \subseteq d.own /\ Excused(s) \subseteq Excused(d)
      /\ d.own \subseteq s.own \cup {m}
  BY <1>3, <1>5 DEF Excused, own, loose
<1>7. m \notin s.own /\ m \notin Disk
  BY <1>0, BridgeAssumption DEF Good, Ready, Known
<1>8. s.front \/ Flying(s) => d.own = s.own
  BY <1>3 DEF own, Good, Ready, Placed
<1>9. Opened(d)
  BY <1>0, <1>3, BridgeAssumption DEF Opened, Closed
<1>10. Ready(d)
  <2>1. Entered(d) /\ Placed(d)
    BY <1>0, <1>4, <1>5, <1>9 DEF Good, Ready, Entered, Placed, Flying
  <2>2. Roles(d)
    BY <1>3, <1>4 DEF Good, Ready, Roles, own
  <2>3. Known(d)
    BY <1>0, <1>3, <1>4, <1>5, <1>6 DEF Good, Ready, Known, Opened
  <2>4. ASSUME Flying(d) PROVE FlightOK(d)
    <3>1. FlightOK(s) /\ d.own = s.own /\ d.flight = s.flight
      BY <1>4, <1>8, <2>4 DEF Good, Ready, Flying
    <3>2. m \notin s.flight.before
      BY <1>0, <3>1 DEF FlightOK
    <3> QED BY <1>3, <1>5, <1>6, <1>7, <3>1, <3>2 DEF FlightOK
  <2> QED BY <1>3, <2>1, <2>2, <2>3, <2>4 DEF Ready
<1>11. Typed(d)
  <2>1. CASE s.front /\ s.attempts = 0
    BY <1>4, <2>1 DEF Typed
  <2>2. CASE ~(s.front /\ s.attempts = 0)
    <3>1. s.attempts \in Nat
      BY <1>0, Fields
    <3>2. m \in d.loose
      BY <1>3, <2>2, <3>1 DEF loose
    <3>3. s.buffer \cap Local \subseteq Excused(s)
      BY <1>0, <2>2 DEF Good, Owned
    <3> QED BY <1>3, <1>6, <3>2, <3>3 DEF Typed, Excused
  <2> QED BY <2>1, <2>2
<1>12. Even(d)
  <2>1. Even(s)
    BY DEF Good, Settled
  <2> QED BY <1>3, <1>4, <1>5, <1>7, <1>8, <2>1 DEF Even, Flying
<1>13. Followed(d) /\ Holds(d)
  BY <1>4 DEF Good, Settled, Followed, Holds, Flying
<1>14. /\ Good(s') /\ Tells(s', d) /\ Publishes(s', d)
  BY <1>1, <1>3, <1>9, <1>10, <1>11, <1>12, <1>13, EventSteps
<1>15. Tells(d, s)
  BY <1>3, <1>4, <1>5, <1>6 DEF Tells
<1>16. Tells(s', s)
  BY <1>14, <1>15, TellsAfter
<1>17. Publishes(s', s)
  BY <1>4, <1>5, <1>6, <1>14 DEF Publishes
<1> QED BY <1>14, <1>16, <1>17, TellsKeeps DEF Steps

LEMMA CutSteps ==
    ASSUME Good(s), NEW m \in Marks, Cut(m)
    PROVE  Steps(s', s)
<1> DEFINE d == [s EXCEPT !.buffer = s.buffer \ {m}, !.cut = s.cut \cup {m}]
<1>0. s \in Document /\ Opened(s)
  BY DEF Good, Ready, Cut, Opened
<1>1. s' = DocumentChanged(d)
  BY <1>0 DEF Cut, Document
<1>2. s.cut \cup {m} \subseteq Marks /\ s.buffer \ {m} \subseteq Marks
  BY <1>0, Fields DEF Opened
<1>3. /\ d \in Document /\ Alike(d, s, {"buffer", "cut"})
      /\ d.buffer = s.buffer \ {m} /\ d.cut = s.cut \cup {m}
  <2>1. [s EXCEPT !.buffer = s.buffer \ {m}] \in Document
    BY <1>0, <1>2, Puts
  <2>2. d \in Document
    BY <1>2, <2>1, Puts
  <2> QED BY <1>0, <2>2 DEF Alike, FieldNames, Document
<1> HIDE DEF d
<1>4. /\ d.replica = s.replica /\ d.has = s.has /\ d.front = s.front
      /\ d.unarrived = s.unarrived /\ d.seeded = s.seeded /\ d.save = s.save
      /\ d.queued = s.queued /\ d.reading = s.reading /\ d.stirred = s.stirred
      /\ d.flight = s.flight /\ d.pending = s.pending /\ d.backstop = s.backstop
      /\ d.asks = s.asks /\ d.held = s.held /\ d.holding = s.holding
      /\ d.attempts = s.attempts
  BY <1>3 DEF Alike, FieldNames
<1>5. /\ d.ever = s.ever /\ d.typed = s.typed /\ d.own = s.own /\ d.seeds = s.seeds
      /\ d.heard = s.heard /\ d.refused = s.refused /\ d.loose = s.loose
  BY <1>3 DEF Alike, FieldNames
<1>6. Excused(d) = Excused(s)
  BY <1>5 DEF Excused
<1>7. Opened(d)
  BY <1>0, <1>2, <1>3, BridgeAssumption DEF Opened, Closed
<1>8. Ready(d)
  <2>1. Entered(d) /\ Roles(d) /\ Placed(d)
    BY <1>4, <1>5, <1>7 DEF Good, Ready, Entered, Roles, Placed, Flying
  <2>2. Known(d)
    BY <1>0, <1>3, <1>4, <1>5 DEF Good, Ready, Known, Opened
  <2>3. ASSUME Flying(d) PROVE FlightOK(d)
    <3>1. FlightOK(s) /\ d.flight = s.flight
      BY <1>4, <2>3 DEF Good, Ready, Flying
    <3> QED BY <1>3, <1>5, <1>6, <3>1 DEF FlightOK
  <2> QED BY <1>3, <2>1, <2>2, <2>3 DEF Ready
<1>9. Typed(d)
  BY <1>0, <1>3, <1>4, <1>6 DEF Typed, Good, Owned
<1>10. Even(d)
  BY <1>3, <1>4, <1>5 DEF Good, Settled, Even, Flying
<1>11. Followed(d) /\ Holds(d)
  BY <1>4 DEF Good, Settled, Followed, Holds, Flying
<1>12. /\ Good(s') /\ Tells(s', d) /\ s'.cut = d.cut /\ s'.buffer = d.buffer
       /\ Publishes(s', d)
  BY <1>1, <1>3, <1>7, <1>8, <1>9, <1>10, <1>11, EventSteps
<1>13. Loses(s', s)
  BY <1>3, <1>12 DEF Loses
<1>14. Saves(s', s)
  BY <1>4, <1>12 DEF Saves, Tells
<1>15. Publishes(s', s)
  BY <1>4, <1>5, <1>12 DEF Publishes
<1> QED BY <1>12, <1>13, <1>14, <1>15 DEF Steps, Keeps

LEMMA LandsSteps ==
    ASSUME Good(s), Lands
    PROVE  Steps(s', s)
<1> DEFINE d == Landed(s)
<1>0. s \in Document /\ Ready(s) /\ Flying(s) /\ ~s.flight.landed /\ s' = DocumentChanged(d)
  BY DEF Good, Ready, Lands, InFlight, Flying
<1>1. /\ Alike(d, s, {"buffer", "flight"})
      /\ d.flight = [s.flight EXCEPT !.landed = TRUE] /\ Flying(d) /\ Opened(d)
      /\ Excused(d) = Excused(s)
      /\ (s.buffer \cap Local) \ d.buffer \subseteq Excused(s)
      /\ s.buffer \cap Local \subseteq Excused(s) => d.buffer \cap Local \subseteq Excused(s)
      /\ Ready(d)
  BY <1>0, LandedKeeps
<1> HIDE DEF d
<1>2. /\ d.replica = s.replica /\ d.front = s.front /\ d.unarrived = s.unarrived
      /\ d.save = s.save /\ d.attempts = s.attempts /\ d.pending = s.pending
      /\ d.own = s.own /\ d.heard = s.heard
      /\ d.asks = s.asks /\ d.held = s.held /\ d.holding = s.holding
  BY <1>1 DEF Alike, FieldNames
<1>3. s.flight \in Flight
  BY <1>0, Fields
<1>4. d.flight.replica = s.flight.replica
  BY <1>1, <1>3 DEF Flight
<1>5. Typed(d)
  BY <1>0, <1>1, <1>2 DEF Typed, Good, Owned, Ready, Placed
<1>6. Even(d) /\ Followed(d) /\ Holds(d)
  BY <1>0, <1>1, <1>2, <1>4 DEF Good, Settled, Even, Followed, Holds
<1>7. Good(s') /\ Tells(s', d) /\ Publishes(s', d)
  BY <1>0, <1>1, <1>5, <1>6, EventSteps DEF Ready
<1>8. Tells(d, s)
  BY <1>1, <1>2 DEF Tells
<1>9. Tells(s', s)
  BY <1>7, <1>8, TellsAfter
<1>10. Publishes(s', s)
  BY <1>2, <1>7 DEF Publishes
<1> QED BY <1>7, <1>9, <1>10, TellsKeeps DEF Steps

LEMMA SettleSteps ==
    ASSUME Good(s), Settles \/ Refuses
    PROVE  Steps(s', s)
<1>1. ASSUME NEW applied \in BOOLEAN, s' = Settle(s, applied), Flying(s),
             applied => s.flight.landed
      PROVE  Steps(s', s)
  <2>1. Does(s', s) /\ Publishes(s', s) /\ Ready(s') /\ Owned(s') /\ Settled(s')
    BY <1>1, SettleKeeps DEF Good, Ready
  <2>2. Holds(s')
    BY <2>1, HoldsStay DEF Does, Good
  <2> QED BY <2>1, <2>2, TellsKeeps DEF Steps, Good, Does
<1> QED BY <1>1 DEF Settles, Refuses, InFlight, Flying

LEMMA FailsSteps ==
    ASSUME Good(s), Fails
    PROVE  Steps(s', s)
<1> DEFINE a == [s EXCEPT !.flight = NoFlight]
           b == Told(a)
           c == ReconcilePending(b)
           e == ResumeSave(c)
<1>0. s \in Document /\ Ready(s) /\ Flying(s) /\ s' = e
  BY DEF Good, Ready, Fails, InFlight, Flying
<1>1. /\ a \in Document /\ Alike(a, s, {"flight"}) /\ Does(a, s) /\ Ready(a) /\ ~Flying(a)
      /\ a.has /\ (a.unarrived => a.front)
  BY <1>0, LandingKeeps DEF Ready
<1> HIDE DEF a
<1>2. /\ Alike(b, a, {"heard"}) /\ a.heard \subseteq b.heard /\ b.buffer = a.buffer
      /\ b.save = a.save /\ Excused(a) \subseteq Excused(b) /\ b.replica = a.replica
      /\ Ready(b) /\ Owned(b) /\ Settled(b) /\ b.flight = a.flight /\ b.front = a.front
  BY <1>1, ToldIs, ToldKeeps
<1> HIDE DEF b
<1>3. Alike(b, a, Texting) /\ b.unarrived = a.unarrived
  BY <1>2 DEF Alike, FieldNames, Texting
<1>4. Does(b, a) /\ ~Flying(b)
  BY <1>1, <1>2, <1>3 DEF Does, Tells, Flying
<1>5. Alike(c, b, Reconciling) /\ Does(c, b) /\ Ready(c) /\ Owned(c) /\ Settled(c)
  BY <1>1, <1>2, <1>3, <1>4, ReconcilePendingKeeps DEF Ready
<1> HIDE DEF c
<1>6. c \in Document /\ (c.backstop => c.has)
  BY <1>5 DEF Ready, Entered
<1>7. /\ Alike(e, c, {"save"}) /\ (c.save # "none" => e.save # "none")
      /\ e.buffer = c.buffer /\ e.replica = c.replica /\ e.heard = c.heard
      /\ Excused(e) = Excused(c) /\ Ready(e) /\ Owned(e) /\ Settled(e)
  BY <1>5, <1>6, Clocks, ClocksKeep
<1> HIDE DEF e
<1>8. Does(e, c)
  <2>1. Alike(e, c, Texting)
    BY <1>7 DEF Alike, Texting
  <2> QED BY <1>7, <2>1 DEF Does, Tells
<1>9. Does(e, s)
  BY <1>1, <1>4, <1>5, <1>8, DoesAfter
<1>10. e.replica = s.replica
  BY <1>1, <1>2, <1>5, <1>7 DEF Alike, FieldNames, Reconciling
<1>11. Holds(e)
  BY <1>9, HoldsStay DEF Does, Good
<1>12. Publishes(e, s)
  BY <1>10 DEF Publishes
<1> QED BY <1>0, <1>7, <1>9, <1>11, <1>12, TellsKeeps DEF Steps, Good, Does

LEMMA StaleSettlesSteps ==
    ASSUME Good(s), StaleSettles
    PROVE  Steps(s', s)
<1>0. s \in Document /\ s' = [s EXCEPT !.stale = FALSE] /\ (s.backstop => s.has)
  BY DEF Good, Ready, Entered, StaleSettles
<1>1. s' \in Document
  BY <1>0, Puts
<1>2. Alike(s', s, {"stale"})
  BY <1>0 DEF Alike, FieldNames, Document
<1>3. /\ s'.front = s.front /\ s'.unarrived = s.unarrived /\ s'.asks = s.asks
      /\ s'.held = s.held /\ s'.holding = s.holding /\ s'.save = s.save
      /\ s'.backstop = s.backstop
  BY <1>2 DEF Alike, FieldNames
<1>4. Holds(s')
  BY <1>3 DEF Good, Holds
<1> QED BY <1>0, <1>1, <1>2, <1>3, <1>4, Nothing DEF Alike, Besides

-----------------------------------------------------------------------------
(* The steps of a session: timers. *)

LEMMA BackstopSteps ==
    ASSUME Good(s), BackstopFires
    PROVE  Steps(s', s)
<1> DEFINE d == [s EXCEPT !.backstop = FALSE]
           c == Told(d)
           i == Issue(c, d.buffer, d.replica)
           p == [d EXCEPT !.pending = TRUE]
<1>0. s \in Document /\ s.has /\ s.backstop
  BY DEF Good, Ready, Entered, BackstopFires
<1>1. s' = IF ~d.front THEN d
           ELSE IF d.flight # NoFlight THEN p
           ELSE IF Lone(d.buffer) \/ Lone(d.replica) THEN Reconcile(d)
           ELSE IF d.buffer = d.replica THEN d
           ELSE ScheduleSave(i)
  BY DEF BackstopFires
<1>2. d \in Document /\ Alike(d, s, {"backstop"}) /\ d.backstop = FALSE
  <2>1. d \in Document
    BY <1>0, Puts
  <2> QED BY <1>0, <2>1 DEF Alike, FieldNames, Document
<1> HIDE DEF d
<1>3. /\ d.buffer = s.buffer /\ d.replica = s.replica /\ d.has = s.has /\ d.front = s.front
      /\ d.unarrived = s.unarrived /\ d.asks = s.asks /\ d.held = s.held
      /\ d.holding = s.holding /\ d.save = s.save /\ d.own = s.own /\ d.heard = s.heard
  BY <1>2 DEF Alike, FieldNames
<1>4. Holds(d)
  BY <1>3 DEF Good, Holds
<1>5. Steps(d, s)
  <2>1. Alike(d, s, Besides) /\ ~d.backstop
    BY <1>2 DEF Alike, Besides
  <2> QED BY <1>0, <1>2, <1>3, <1>4, <2>1, Nothing
<1>6. Good(d)
  BY <1>5 DEF Steps, Keeps
<1>7. ASSUME NEW e, Does(e, d), Ready(e), Owned(e), Settled(e), e.replica = d.replica
      PROVE  Steps(e, s)
  <2>1. Holds(e)
    BY <1>4, <1>7, HoldsStay DEF Does
  <2>2. d.cut = s.cut /\ d.ever = s.ever /\ d.refused = s.refused /\ d.loose = s.loose
    BY <1>2 DEF Alike, FieldNames
  <2>3. Tells(d, s)
    BY <1>3, <2>2 DEF Tells, Excused
  <2>4. Tells(e, s)
    BY <1>7, <2>3, TellsAfter DEF Does
  <2>5. Publishes(e, s)
    BY <1>3, <1>7 DEF Publishes
  <2> QED BY <1>7, <2>1, <2>4, <2>5, TellsKeeps DEF Steps, Good
<1>8. CASE ~d.front
  BY <1>1, <1>5, <1>8
<1>9. CASE d.front /\ Flying(d)
  <2>1. p \in Document /\ Alike(p, d, {"pending"}) /\ p.pending = TRUE
    <3>1. p \in Document
      BY <1>2, Puts
    <3> QED BY <1>2, <3>1 DEF Alike, FieldNames, Document
  <2>2. s' = p
    BY <1>1, <1>9 DEF Flying
  <2> HIDE DEF p
  <2>3. /\ p.buffer = d.buffer /\ p.replica = d.replica /\ p.has = d.has /\ p.front = d.front
        /\ p.unarrived = d.unarrived /\ p.seeded = d.seeded /\ p.attempts = d.attempts
        /\ p.queued = d.queued /\ p.reading = d.reading /\ p.stirred = d.stirred
        /\ p.backstop = d.backstop /\ p.flight = d.flight /\ p.save = d.save
    BY <2>1 DEF Alike, FieldNames
  <2>4. /\ p.ever = d.ever /\ p.typed = d.typed /\ p.cut = d.cut /\ p.own = d.own
        /\ p.seeds = d.seeds /\ p.heard = d.heard /\ p.refused = d.refused /\ p.loose = d.loose
    BY <2>1 DEF Alike, FieldNames
  <2>5. Excused(p) = Excused(d) /\ Flying(p)
    BY <1>9, <2>3, <2>4 DEF Excused, Flying
  <2>6. Ready(p)
    <3>1. Entered(p) /\ Roles(p) /\ Placed(p) /\ Known(p)
      BY <1>0, <1>3, <1>6, <1>9, <2>3, <2>4, <2>5
         DEF Good, Ready, Entered, Roles, Placed, Known, Opened
    <3>2. FlightOK(p)
      BY <1>6, <1>9, <2>3, <2>4, <2>5 DEF Good, Ready, FlightOK
    <3> QED BY <2>1, <3>1, <3>2 DEF Ready
  <2>7. Owned(p) /\ Settled(p)
    BY <1>6, <1>9, <2>1, <2>3, <2>5
       DEF Good, Owned, Opened, Settled, Even, Followed, Excusable
  <2>8. Does(p, d)
    <3>1. Alike(p, d, Texting)
      BY <2>1 DEF Alike, Texting
    <3> QED BY <2>3, <2>4, <2>5, <3>1 DEF Does, Tells
  <2> QED BY <1>7, <2>2, <2>3, <2>6, <2>7, <2>8
<1>10. CASE d.front /\ ~Flying(d) /\ (Lone(d.buffer) \/ Lone(d.replica))
  <2> DEFINE e == Reconcile(d)
  <2>1. s' = e
    BY <1>1, <1>10 DEF Flying
  <2>2. Reconcilable(d)
    BY <1>0, <1>3, <1>6, <1>10 DEF Reconcilable, Good
  <2>3. Alike(e, d, Reconciling) /\ Does(e, d) /\ Ready(e) /\ Owned(e) /\ Settled(e)
    BY <1>2, <2>2, ReconcileKeeps
  <2> HIDE DEF e
  <2>4. e.replica = d.replica
    BY <2>3 DEF Alike, FieldNames, Reconciling
  <2> QED BY <1>7, <2>1, <2>3, <2>4
<1>11. CASE d.front /\ ~Flying(d) /\ ~(Lone(d.buffer) \/ Lone(d.replica)) /\ d.buffer = d.replica
  BY <1>1, <1>5, <1>11 DEF Flying
<1>12. CASE d.front /\ ~Flying(d) /\ ~(Lone(d.buffer) \/ Lone(d.replica)) /\ d.buffer # d.replica
  <2> DEFINE e == ScheduleSave(i)
  <2>1. s' = e
    BY <1>1, <1>12 DEF Flying
  <2>2. /\ c \in Document /\ Alike(c, d, {"heard"}) /\ d.heard \subseteq c.heard
        /\ c.buffer = d.buffer /\ c.replica = d.replica /\ c.front = d.front
        /\ c.flight = d.flight /\ c.has = d.has /\ c.save = d.save
        /\ Excused(d) \subseteq Excused(c) /\ Ready(c) /\ Owned(c)
    BY <1>2, <1>6, <1>12, ToldIs, ToldKeeps DEF Good
  <2> HIDE DEF c
  <2>3. Opened(c) /\ ~Flying(c) /\ c.has
    BY <1>0, <1>3, <1>12, <2>2 DEF Opened, Flying, Ready, Placed
  <2>4. /\ Alike(i, c, {"buffer", "flight"}) /\ Does(i, c)
        /\ Flying(i) /\ Ready(i) /\ Owned(i) /\ Settled(i)
    BY <1>12, <2>2, <2>3, IssueKeeps
  <2> HIDE DEF i
  <2>5. i \in Document /\ (i.backstop => i.has)
    BY <2>4 DEF Ready, Entered
  <2>6. /\ Alike(e, i, {"save"}) /\ (i.save # "none" => e.save # "none")
        /\ e.buffer = i.buffer /\ e.replica = i.replica /\ e.heard = i.heard
        /\ Excused(e) = Excused(i) /\ Ready(e) /\ Owned(e) /\ Settled(e)
    BY <2>4, <2>5, Clocks, ClocksKeep
  <2> HIDE DEF e
  <2>7. Does(e, i)
    <3>1. Alike(e, i, Texting)
      BY <2>6 DEF Alike, Texting
    <3> QED BY <2>6, <3>1 DEF Does, Tells
  <2>8. Does(c, d)
    <3>1. Alike(c, d, Texting)
      BY <2>2 DEF Alike, Texting
    <3> QED BY <2>2, <3>1 DEF Does, Tells
  <2>9. Does(e, d)
    BY <2>4, <2>7, <2>8, DoesAfter
  <2>10. e.replica = d.replica
    BY <2>2, <2>4, <2>6 DEF Alike, FieldNames
  <2> QED BY <1>7, <2>1, <2>6, <2>9, <2>10
<1> QED BY <1>8, <1>9, <1>10, <1>11, <1>12

\* A save writes a buffer at rest: what the two texts differ in was told of, taken out by the
\* person, or refused.
LEMMA SaveSteps ==
    ASSUME Good(s), SaveFires
    PROVE  Steps(s', s)
<1> DEFINE b == PauseSave(s)
           c == [s EXCEPT !.save = "none"]
<1>0. /\ s \in Document /\ (s.backstop => s.has)
      /\ s' = IF s.buffer = Closed \/ s.flight # NoFlight \/ Lone(s.buffer) \/ Lone(s.replica)
              THEN b ELSE c
  BY DEF Good, Ready, Entered, SaveFires
<1>1. b \in Document /\ Alike(b, s, {"save"}) /\ (s.save # "none" => b.save # "none")
  BY <1>0, Clocks
<1>2. c \in Document /\ Alike(c, s, {"save"})
  <2>1. c \in Document
    BY <1>0, Puts
  <2> QED BY <1>0, <2>1 DEF Alike, FieldNames, Document
<1> HIDE DEF b, c
<1>3. ~Flying(s) /\ s.front => /\ s.replica \ s.buffer \subseteq s.heard \cup s.cut
                               /\ s.buffer \ s.replica \subseteq s.heard \cup s.refused
  BY DEF Good, Settled, Even, Excusable
<1>4. ASSUME NEW e \in Document, Alike(e, s, {"save"}),
             s.save = "armed" /\ e.save = "none" /\ e.front => ~Flying(s)
      PROVE  Steps(e, s)
  <2>1. /\ e.front = s.front /\ e.unarrived = s.unarrived /\ e.asks = s.asks
        /\ e.held = s.held /\ e.holding = s.holding /\ e.backstop = s.backstop
    BY <1>4 DEF Alike, FieldNames
  <2>2. Holds(e) /\ Alike(e, s, Besides)
    BY <1>4, <2>1 DEF Good, Holds, Alike, Besides
  <2> QED BY <1>0, <1>3, <1>4, <2>1, <2>2, Nothing
<1> QED BY <1>0, <1>1, <1>2, <1>4 DEF Flying

-----------------------------------------------------------------------------
(* The steps of a session: holds, reads and the room. *)

\* The answer to a hold, counted.
LEMMA AnswerIs ==
    ASSUME NEW d \in Document, d.asks > 0
    PROVE  LET e == [d EXCEPT !.asks = @ - 1, !.held = TRUE] IN
           /\ e \in Document /\ Alike(e, d, {"asks", "held"})
           /\ e.asks = d.asks - 1 /\ e.held = TRUE
<1> DEFINE e == [d EXCEPT !.asks = @ - 1, !.held = TRUE]
<1>1. d.asks - 1 \in Nat
  BY Fields
<1>2. [d EXCEPT !.asks = d.asks - 1] \in Document
  BY <1>1, Puts
<1>3. e = [d EXCEPT !.asks = d.asks - 1, !.held = TRUE]
  BY DEF Document
<1> HIDE DEF e
<1>4. e \in Document
  BY <1>2, <1>3, Puts
<1>5. Alike(e, d, {"asks", "held"}) /\ e.asks = d.asks - 1 /\ e.held = TRUE
  BY <1>3 DEF Alike, FieldNames, Document
<1> QED BY <1>4, <1>5 DEF e

LEMMA ReleaseIs ==
    ASSUME NEW d \in Document
    PROVE  LET e == Release(d) IN
           /\ e \in Document /\ Alike(e, d, {"held", "holding"})
           /\ IF d.held THEN ~e.holding ELSE e = d
<1>1. CASE d.held
  <2>1. Release(d) = [d EXCEPT !.held = FALSE, !.holding = FALSE]
    BY <1>1 DEF Release
  <2>2. [d EXCEPT !.held = FALSE] \in Document
    BY Puts
  <2>3. Release(d) \in Document
    BY <2>1, <2>2, Puts
  <2> QED BY <1>1, <2>1, <2>3 DEF Alike, FieldNames, Document
<1>2. CASE ~d.held
  <2>1. Release(d) = d
    BY <1>2 DEF Release
  <2> QED BY <1>2, <2>1 DEF Alike
<1> QED BY <1>1, <1>2

LEMMA HoldGrantedSteps ==
    ASSUME Good(s), HoldGranted
    PROVE  Steps(s', s)
<1> DEFINE d == [s EXCEPT !.asks = @ - 1, !.held = TRUE]
           e == Release(d)
<1>0. /\ s \in Document /\ s.asks > 0 /\ (s.backstop => s.has)
      /\ s' = IF d.unarrived /\ d.has THEN Arrive(d)
              ELSE IF ~d.front /\ ~d.unarrived THEN e
              ELSE d
  BY DEF Good, Ready, Entered, HoldGranted
<1>1. /\ d \in Document /\ Alike(d, s, {"asks", "held"})
      /\ d.asks = s.asks - 1 /\ d.held = TRUE
  BY <1>0, AnswerIs
<1> HIDE DEF d
<1>2. /\ d.buffer = s.buffer /\ d.replica = s.replica /\ d.has = s.has /\ d.front = s.front
      /\ d.unarrived = s.unarrived /\ d.holding = s.holding /\ d.save = s.save
      /\ d.backstop = s.backstop
      /\ d.heard = s.heard /\ d.refused = s.refused /\ d.loose = s.loose /\ d.ever = s.ever
      /\ d.own = s.own
  BY <1>1 DEF Alike, FieldNames
<1>3. Alike(d, s, Besides) /\ Alike(d, s, Besides \cup Excuses)
  BY <1>1 DEF Alike, Besides
<1>4. Ready(d) /\ Owned(d) /\ Settled(d)
  BY <1>0, <1>1, <1>2, <1>3, MoreIsExcused DEF Good
<1>5. d.front \/ d.unarrived => Holds(d)
  BY <1>1, <1>2 DEF Good, Holds
<1>6. CASE d.unarrived /\ d.has
  <2>1. s' = Arrive(d)
    BY <1>0, <1>6
  <2>2. Tells(s', d) /\ Good(s') /\ s'.replica = d.replica
    BY <1>1, <1>4, <1>5, <1>6, <2>1, ArriveKeeps
  <2>3. Tells(d, s)
    BY <1>2 DEF Tells, Excused
  <2>4. Tells(s', s) /\ Publishes(s', s)
    BY <1>2, <2>2, <2>3, TellsAfter DEF Publishes
  <2> QED BY <2>2, <2>4, TellsKeeps DEF Steps
<1>7. CASE ~(d.unarrived /\ d.has) /\ ~d.front /\ ~d.unarrived
  <2>1. s' = e
    BY <1>0, <1>7
  <2>2. e \in Document /\ Alike(e, d, {"held", "holding"}) /\ ~e.holding
    BY <1>1, ReleaseIs
  <2> HIDE DEF e
  <2>3. e.front = d.front /\ e.unarrived = d.unarrived /\ e.save = d.save
        /\ e.backstop = d.backstop
    BY <2>2 DEF Alike, FieldNames
  <2>4. Holds(e) /\ Alike(e, s, Besides)
    BY <1>3, <1>7, <2>2, <2>3 DEF Holds, Alike, Besides
  <2> QED BY <1>0, <1>2, <2>1, <2>2, <2>3, <2>4, Nothing
<1>8. CASE ~(d.unarrived /\ d.has) /\ (d.front \/ d.unarrived)
  <2>1. s' = d
    BY <1>0, <1>8
  <2> QED BY <1>0, <1>1, <1>2, <1>3, <1>5, <1>8, <2>1, Nothing
<1> QED BY <1>6, <1>7, <1>8

LEMMA HoldRefusedSteps ==
    ASSUME Good(s), HoldRefused
    PROVE  Steps(s', s)
<1> DEFINE b == Forget(s)
           c == [b EXCEPT !.asks = b.asks - 1, !.holding = s.asks > 1]
           e == Told(c)
<1>0. s \in Document /\ s.asks > 0
  BY DEF Good, Ready, HoldRefused
<1>1. /\ b \in Document
      /\ Alike(b, s, {"unarrived", "front", "flight", "stale", "save", "backstop", "pending",
                      "attempts"})
      /\ ~b.front /\ ~b.unarrived /\ ~Flying(b) /\ b.save = "none" /\ ~b.backstop
      /\ ~b.pending
  BY <1>0, ForgetIs
<1>2. s' = e
  BY <1>1 DEF HoldRefused, Document
<1> HIDE DEF b
<1>3. b.asks = s.asks /\ s.asks - 1 \in Nat /\ (s.asks > 1) \in BOOLEAN
  BY <1>0, <1>1, Fields DEF Alike, FieldNames
<1>4. /\ c \in Document /\ Alike(c, b, {"asks", "holding"})
      /\ c.asks = s.asks - 1 /\ c.holding = (s.asks > 1)
  <2>1. [b EXCEPT !.asks = b.asks - 1] \in Document
    BY <1>1, <1>3, Puts
  <2>2. c \in Document
    BY <1>3, <2>1, Puts
  <2> QED BY <1>1, <1>3, <2>2 DEF Alike, FieldNames, Document
<1> HIDE DEF c
<1>5. /\ c.buffer = s.buffer /\ c.replica = s.replica /\ c.has = s.has /\ c.seeded = s.seeded
      /\ c.queued = s.queued /\ c.reading = s.reading /\ c.stirred = s.stirred
      /\ c.ever = s.ever /\ c.typed = s.typed /\ c.cut = s.cut /\ c.own = s.own
      /\ c.seeds = s.seeds /\ c.heard = s.heard /\ c.refused = s.refused /\ c.loose = s.loose
  BY <1>1, <1>4 DEF Alike, FieldNames
<1>6. /\ ~c.front /\ ~c.unarrived /\ ~Flying(c) /\ ~c.backstop /\ ~c.pending
  BY <1>1, <1>4 DEF Alike, FieldNames, Flying
<1>7. Ready(c)
  <2>1. Entered(c) /\ Roles(c) /\ Placed(c) /\ Known(c)
    BY <1>5, <1>6 DEF Good, Ready, Entered, Roles, Placed, Known, Opened
  <2> QED BY <1>4, <1>6, <2>1 DEF Ready
<1>8. Excused(c) = Excused(s)
  BY <1>5 DEF Excused
<1>9. /\ Alike(e, c, {"heard"}) /\ e.buffer = c.buffer /\ e.replica = c.replica
      /\ e.front = c.front /\ Ready(e) /\ Owned(e) /\ Settled(e)
  BY <1>4, <1>6, <1>7, ToldIs, ToldKeeps
<1> HIDE DEF e
<1>10. e.asks = c.asks /\ e.holding = c.holding /\ e.unarrived = c.unarrived
  BY <1>9 DEF Alike, FieldNames
<1>11. c.holding => c.asks > 0
  <2>1. s.asks > 1 => s.asks - 1 > 0
    BY <1>0, Fields
  <2> QED BY <1>4, <2>1
<1>12. Holds(e)
  BY <1>6, <1>9, <1>10, <1>11 DEF Holds
<1> QED BY <1>2, <1>5, <1>6, <1>9, <1>12 DEF Steps, Keeps, Good, Loses, Saves, Publishes


\* What the room asks for is queued and read, for a host.
LEMMA Queueing ==
    ASSUME NEW d \in Document, NEW e \in Document, Good(d),
           Alike(e, d, {"requested", "queued", "reading"}),
           role = "guest" => e.queued = 0 /\ e.reading = 0
    PROVE  Steps(e, d) /\ Tells(e, d) /\ e.replica = d.replica /\ e.front = d.front
           /\ e.has = d.has /\ e.own = d.own /\ e.heard = d.heard
<1>1. /\ e.buffer = d.buffer /\ e.replica = d.replica /\ e.has = d.has /\ e.front = d.front
      /\ e.unarrived = d.unarrived /\ e.seeded = d.seeded /\ e.save = d.save
      /\ e.flight = d.flight /\ e.pending = d.pending /\ e.backstop = d.backstop
      /\ e.attempts = d.attempts /\ e.stirred = d.stirred
      /\ e.asks = d.asks /\ e.held = d.held /\ e.holding = d.holding
  BY DEF Alike, FieldNames
<1>2. /\ e.ever = d.ever /\ e.typed = d.typed /\ e.cut = d.cut /\ e.own = d.own
      /\ e.seeds = d.seeds /\ e.heard = d.heard /\ e.refused = d.refused /\ e.loose = d.loose
  BY DEF Alike, FieldNames
<1>3. Excused(e) = Excused(d) /\ (Flying(e) <=> Flying(d))
  BY <1>1, <1>2 DEF Excused, Flying
<1>4. Ready(e)
  <2>1. Entered(e) /\ Roles(e) /\ Placed(e) /\ Known(e)
    BY <1>1, <1>2, <1>3 DEF Good, Ready, Entered, Roles, Placed, Known, Opened
  <2>2. Flying(e) => FlightOK(e)
    BY <1>1, <1>2, <1>3 DEF Good, Ready, FlightOK
  <2> QED BY <2>1, <2>2 DEF Ready
<1>5. Owned(e) /\ Settled(e)
  BY <1>1, <1>2, <1>3 DEF Good, Owned, Opened, Settled, Even, Followed, Excusable
<1>6. Holds(e)
  BY <1>1 DEF Good, Holds
<1>7. Tells(e, d)
  BY <1>1, <1>2, <1>3 DEF Tells
<1>8. Publishes(e, d)
  BY <1>1 DEF Publishes
<1> QED BY <1>1, <1>2, <1>4, <1>5, <1>6, <1>7, <1>8, TellsKeeps DEF Steps, Good

LEMMA QueueSteps ==
    ASSUME Good(s), role \in {"host", "guest"}, Named \/ Unnamed \/ ReadStarts
    PROVE  Steps(s', s)
<1>0. s \in Document /\ s.queued \in Nat /\ s.reading \in Nat
  BY Fields DEF Good, Ready
<1>1. ASSUME NEW r \in BOOLEAN, NEW q \in Nat, NEW n \in Nat,
             s' = [s EXCEPT !.requested = r, !.queued = q, !.reading = n],
             role = "guest" => q = 0 /\ n = 0
      PROVE  Steps(s', s)
  <2>1. [s EXCEPT !.requested = r] \in Document
    BY <1>0, Puts
  <2>2. [s EXCEPT !.requested = r, !.queued = q] \in Document
    BY <2>1, Puts
  <2>3. s' \in Document
    BY <1>1, <2>2, Puts
  <2>4. Alike(s', s, {"requested", "queued", "reading"}) /\ s'.queued = q /\ s'.reading = n
    BY <1>0, <1>1 DEF Alike, FieldNames, Document
  <2> QED BY <1>0, <1>1, <2>3, <2>4, Queueing
<1>2. CASE Named
  <2>1. s' = [s EXCEPT !.requested = TRUE, !.queued = s.queued + 1, !.reading = s.reading]
    BY <1>0, <1>2 DEF Named, Document
  <2>2. s.queued + 1 \in Nat /\ role # "guest"
    BY <1>0, <1>2 DEF Named
  <2> QED BY <1>0, <1>1, <2>1, <2>2
<1>3. CASE Unnamed
  <2>1. s' = [s EXCEPT !.requested = FALSE, !.queued = s.queued, !.reading = s.reading]
    BY <1>0, <1>3 DEF Unnamed, Document
  <2>2. role = "guest" => s.queued = 0 /\ s.reading = 0
    BY DEF Good, Ready, Roles
  <2> QED BY <1>0, <1>1, <2>1, <2>2
<1>4. CASE ReadStarts
  <2> DEFINE n == IF s.requested THEN s.reading + 1 ELSE s.reading
  <2>1. s' = [s EXCEPT !.requested = s.requested, !.queued = s.queued - 1, !.reading = n]
    BY <1>0, <1>4 DEF ReadStarts, Document
  <2>2. s.queued - 1 \in Nat /\ n \in Nat /\ role # "guest" /\ s.requested \in BOOLEAN
    BY <1>0, <1>4, Fields DEF ReadStarts, Good, Ready, Roles
  <2> HIDE DEF n
  <2> QED BY <1>1, <2>1, <2>2
<1> QED BY <1>2, <1>3, <1>4

\* A read ends with the copy of the disk entered, or not.
LEMMA ReadIs ==
    ASSUME NEW d \in Document, d.reading > 0
    PROVE  LET e == [d EXCEPT !.reading = @ - 1] IN
           /\ e \in Document /\ Alike(e, d, {"reading"}) /\ e.reading = d.reading - 1
<1> DEFINE e == [d EXCEPT !.reading = @ - 1]
<1>1. d.reading - 1 \in Nat
  BY Fields
<1>2. e = [d EXCEPT !.reading = d.reading - 1]
  BY DEF Document
<1> HIDE DEF e
<1>3. e \in Document
  BY <1>1, <1>2, Puts
<1>4. Alike(e, d, {"reading"}) /\ e.reading = d.reading - 1
  BY <1>2 DEF Alike, FieldNames, Document
<1> QED BY <1>3, <1>4 DEF e

LEMMA ReadEndsSteps ==
    ASSUME Good(s), role \in {"host", "guest"}, ReadEnds
    PROVE  Steps(s', s)
<1> DEFINE d == [s EXCEPT !.reading = @ - 1]
           e == InsertCopy(d, Disk)
<1>0. s \in Document /\ s.reading > 0 /\ (s' = d \/ s' = e)
  BY DEF Good, Ready, ReadEnds
<1>1. d \in Document /\ Alike(d, s, {"reading"}) /\ d.reading = s.reading - 1
  BY <1>0, ReadIs
<1>2. role = "host"
  BY <1>0 DEF Good, Ready, Roles
<1>3. Alike(d, s, {"requested", "queued", "reading"})
  BY <1>1 DEF Alike
<1> HIDE DEF d
<1>4. /\ Steps(d, s) /\ Tells(d, s) /\ d.replica = s.replica /\ d.front = s.front
      /\ d.has = s.has /\ d.own = s.own /\ d.heard = s.heard
  BY <1>0, <1>1, <1>2, <1>3, Queueing
<1>5. Good(d)
  BY <1>4 DEF Steps, Keeps
<1>6. CASE s' = d
  BY <1>4, <1>6
<1>7. CASE s' = e
  <2>1. Disk \subseteq Marks /\ Disk \cap Local \subseteq d.typed
    BY BridgeAssumption DEF Marks
  <2>2. d.front => d.has
    BY <1>2, <1>5 DEF Good, Ready, Roles
  <2>3. /\ Alike(e, d, {"has", "replica", "ever", "stirred", "seeds"})
        /\ e.replica = d.replica \/ d.replica = {}
        /\ Tells(e, d) /\ Ready(e) /\ Owned(e) /\ Settled(e)
    BY <1>1, <1>5, <2>1, <2>2, InsertCopyKeeps DEF Good
  <2> HIDE DEF e
  <2>4. Alike(e, d, Texting \cup {"seeds"}) /\ e.front = d.front /\ e.unarrived = d.unarrived
        /\ e.asks = d.asks /\ e.held = d.held /\ e.holding = d.holding
    BY <2>3 DEF Alike, FieldNames, Texting
  <2>5. Holds(e)
    BY <1>5, <2>4 DEF Good, Holds
  <2>6. Publishes(e, s)
    BY <1>2, <1>4, <2>3 DEF Publishes, Good, Ready, Roles
  <2>7. Tells(e, s)
    BY <1>4, <2>3, TellsAfter
  <2> QED BY <1>7, <2>3, <2>5, <2>6, <2>7, TellsKeeps DEF Steps, Good
<1> QED BY <1>0, <1>6, <1>7

\* The room's text, whatever is under way.
LEMMA RoomWritesSteps ==
    ASSUME Good(s), NEW text \in RoomTexts, RoomWrites(text)
    PROVE  Keeps(s', s)
<1> DEFINE d == [s EXCEPT !.replica = text, !.has = TRUE, !.stirred = FALSE,
                          !.ever = s.ever \cup text]
<1>0. s \in Document
  BY DEF Good, Ready
<1>1. s' = OnDocumentChanged(d)
  BY <1>0 DEF RoomWrites, Document
<1>2. text \subseteq s.replica \cup Remote /\ text \subseteq Marks /\ s.ever \cup text \subseteq Marks
  BY <1>0, Fields DEF RoomTexts, Marks
<1>3. /\ d \in Document /\ Alike(d, s, {"replica", "has", "stirred", "ever"})
      /\ d.replica = text /\ d.has = TRUE /\ d.stirred = FALSE /\ d.ever = s.ever \cup text
  <2>1. [s EXCEPT !.replica = text] \in Document
    BY <1>0, <1>2, Puts
  <2>2. [s EXCEPT !.replica = text, !.has = TRUE] \in Document
    BY <2>1, Puts
  <2>3. [s EXCEPT !.replica = text, !.has = TRUE, !.stirred = FALSE] \in Document
    BY <2>2, Puts
  <2>4. d \in Document
    BY <1>2, <2>3, Puts
  <2> QED BY <1>0, <2>4 DEF Alike, FieldNames, Document
<1> HIDE DEF d
<1>4. /\ d.buffer = s.buffer /\ d.front = s.front
      /\ d.unarrived = s.unarrived /\ d.seeded = s.seeded /\ d.save = s.save
      /\ d.queued = s.queued /\ d.reading = s.reading
      /\ d.flight = s.flight /\ d.pending = s.pending /\ d.backstop = s.backstop
      /\ d.asks = s.asks /\ d.held = s.held /\ d.holding = s.holding
      /\ d.attempts = s.attempts
  BY <1>3 DEF Alike, FieldNames
<1>5. /\ d.typed = s.typed /\ d.own = s.own /\ d.cut = s.cut /\ d.seeds = s.seeds
      /\ d.heard = s.heard /\ d.refused = s.refused /\ d.loose = s.loose
  BY <1>3 DEF Alike, FieldNames
<1>6. Excused(s) \subseteq Excused(d)
  BY <1>3, <1>5 DEF Excused
<1>7. Ready(d)
  <2>1. Entered(d) /\ Roles(d) /\ Placed(d)
    BY <1>3, <1>4, <1>5 DEF Good, Ready, Entered, Roles, Placed, Flying, Opened
  <2>2. Known(d)
    BY <1>2, <1>3, <1>4, <1>5, BridgeAssumption DEF Good, Ready, Known, Opened
  <2>3. Flying(d) => FlightOK(d)
    BY <1>3, <1>4, <1>5, <1>6 DEF Good, Ready, FlightOK, Flying
  <2> QED BY <1>3, <2>1, <2>2, <2>3 DEF Ready
<1>8. Owned(d) /\ Holds(d)
  BY <1>4, <1>6 DEF Good, Owned, Opened, Flying, Holds
<1>9. Tells(s', d) /\ Good(s')
  BY <1>1, <1>3, <1>7, <1>8, OnDocumentChangedKeeps
<1>10. Tells(d, s)
  BY <1>4, <1>5, <1>6 DEF Tells
<1> QED BY <1>9, <1>10, TellsAfter, TellsKeeps

LEMMA EchoSteps ==
    ASSUME Good(s), Echo
    PROVE  Steps(s', s)
<1> DEFINE d == [s EXCEPT !.stirred = FALSE]
<1>0. s \in Document /\ s.has /\ s' = OnDocumentChanged(d)
  BY DEF Good, Ready, Entered, Echo
<1>1. d \in Document /\ Alike(d, s, {"stirred"}) /\ d.stirred = FALSE
  <2>1. d \in Document
    BY <1>0, Puts
  <2> QED BY <1>0, <2>1 DEF Alike, FieldNames, Document
<1> HIDE DEF d
<1>2. /\ d.buffer = s.buffer /\ d.front = s.front /\ d.replica = s.replica /\ d.has = s.has
      /\ d.unarrived = s.unarrived /\ d.seeded = s.seeded /\ d.save = s.save
      /\ d.queued = s.queued /\ d.reading = s.reading
      /\ d.flight = s.flight /\ d.pending = s.pending /\ d.backstop = s.backstop
      /\ d.asks = s.asks /\ d.held = s.held /\ d.holding = s.holding
      /\ d.attempts = s.attempts
  BY <1>1 DEF Alike, FieldNames
<1>3. /\ d.ever = s.ever /\ d.typed = s.typed /\ d.own = s.own /\ d.cut = s.cut
      /\ d.seeds = s.seeds /\ d.heard = s.heard /\ d.refused = s.refused /\ d.loose = s.loose
  BY <1>1 DEF Alike, FieldNames
<1>4. Excused(d) = Excused(s)
  BY <1>3 DEF Excused
<1>5. Ready(d)
  <2>1. Entered(d) /\ Roles(d) /\ Placed(d) /\ Known(d)
    BY <1>1, <1>2, <1>3 DEF Good, Ready, Entered, Roles, Placed, Known, Flying, Opened
  <2>2. Flying(d) => FlightOK(d)
    BY <1>2, <1>3, <1>4 DEF Good, Ready, FlightOK, Flying
  <2> QED BY <1>1, <2>1, <2>2 DEF Ready
<1>6. Owned(d) /\ Holds(d)
  BY <1>2, <1>4 DEF Good, Owned, Opened, Flying, Holds
<1>7. Tells(s', d) /\ Good(s') /\ s'.replica = d.replica
  BY <1>0, <1>1, <1>2, <1>5, <1>6, OnDocumentChangedKeeps
<1>8. Tells(d, s)
  BY <1>2, <1>3, <1>4 DEF Tells
<1>9. Tells(s', s) /\ Publishes(s', s)
  BY <1>2, <1>7, <1>8, TellsAfter DEF Publishes
<1> QED BY <1>7, <1>9, TellsKeeps DEF Steps

LEMMA ArrivesSilentlySteps ==
    ASSUME Good(s), ArrivesSilently
    PROVE  Steps(s', s)
<1>0. s \in Document /\ ~s.has /\ ~s.front /\ s.replica = {} /\ ~Flying(s) /\ role # "host"
  BY DEF Good, Ready, Entered, Roles, ArrivesSilently
<1>1. PICK m \in Remote \ s.ever :
        s' = [s EXCEPT !.has = TRUE, !.replica = {m}, !.ever = @ \cup {m}]
  BY DEF ArrivesSilently
<1>2. {m} \subseteq Marks /\ s.ever \cup {m} \subseteq Marks /\ m \notin s.own /\ m \notin Local
  BY <1>0, Fields, BridgeAssumption DEF Marks, Good, Ready, Known
<1> DEFINE d == [s EXCEPT !.has = TRUE, !.replica = {m}, !.ever = s.ever \cup {m}]
<1>3. s' = d
  BY <1>0, <1>1 DEF Document
<1>4. /\ d \in Document /\ Alike(d, s, {"replica", "has", "ever"})
      /\ d.replica = {m} /\ d.has = TRUE /\ d.ever = s.ever \cup {m}
  <2>1. [s EXCEPT !.has = TRUE] \in Document
    BY <1>0, Puts
  <2>2. [s EXCEPT !.has = TRUE, !.replica = {m}] \in Document
    BY <1>2, <2>1, Puts
  <2>3. d \in Document
    BY <1>2, <2>2, Puts
  <2> QED BY <1>0, <2>3 DEF Alike, FieldNames, Document
<1> HIDE DEF d
<1>5. /\ d.buffer = s.buffer /\ d.front = s.front
      /\ d.unarrived = s.unarrived /\ d.seeded = s.seeded /\ d.save = s.save
      /\ d.queued = s.queued /\ d.reading = s.reading /\ d.stirred = s.stirred
      /\ d.flight = s.flight /\ d.pending = s.pending /\ d.backstop = s.backstop
      /\ d.asks = s.asks /\ d.held = s.held /\ d.holding = s.holding
      /\ d.attempts = s.attempts
  BY <1>4 DEF Alike, FieldNames
<1>6. /\ d.typed = s.typed /\ d.own = s.own /\ d.cut = s.cut /\ d.seeds = s.seeds
      /\ d.heard = s.heard /\ d.refused = s.refused /\ d.loose = s.loose
  BY <1>4 DEF Alike, FieldNames
<1>7. Excused(s) \subseteq Excused(d) /\ ~Flying(d)
  BY <1>0, <1>4, <1>5, <1>6 DEF Excused, Flying
<1>8. Ready(d)
  <2>1. Entered(d) /\ Roles(d) /\ Placed(d)
    BY <1>0, <1>4, <1>5, <1>6, <1>7 DEF Good, Ready, Entered, Roles, Placed, Opened
  <2>2. Known(d)
    BY <1>2, <1>4, <1>5, <1>6 DEF Good, Ready, Known, Opened
  <2> QED BY <1>4, <1>7, <2>1, <2>2 DEF Ready
<1>9. Owned(d) /\ Settled(d) /\ Holds(d)
  BY <1>0, <1>5, <1>7 DEF Good, Owned, Opened, Settled, Even, Followed, Excusable, Holds
<1>10. Tells(d, s)
  BY <1>5, <1>6, <1>7 DEF Tells
<1>11. Publishes(d, s)
  BY <1>0, <1>2, <1>4 DEF Publishes
<1> QED BY <1>3, <1>8, <1>9, <1>10, <1>11, TellsKeeps DEF Steps, Good

-----------------------------------------------------------------------------
(* The end of a session, and what still comes after it. *)

Done(d) == d \in Document /\ Entered(d) /\ Roles(d) /\ Placed(d) /\ Over(d)
Ends(e, d) == Done(e) /\ Loses(e, d) /\ Saves(e, d) /\ Publishes(e, d)

LEMMA FreshIs ==
    /\ Fresh \in Document /\ Good(Fresh)
    /\ Fresh.buffer = Closed /\ Fresh.front = FALSE /\ Fresh.unarrived = FALSE
    /\ Fresh.flight = NoFlight /\ Fresh.own = {} /\ Fresh.save = "none" /\ Fresh.seeded = FALSE
    /\ Fresh.pending = FALSE /\ Fresh.backstop = FALSE /\ Fresh.stirred = FALSE
    /\ Fresh.queued = 0
<1>1. /\ Fresh.buffer = Closed /\ Fresh.front = FALSE /\ Fresh.unarrived = FALSE
      /\ Fresh.flight = NoFlight /\ Fresh.own = {} /\ Fresh.save = "none" /\ Fresh.seeded = FALSE
      /\ Fresh.pending = FALSE /\ Fresh.backstop = FALSE /\ Fresh.stirred = FALSE
      /\ Fresh.queued = 0
  BY DEF Fresh
<1>2. /\ Fresh.reading = 0 /\ Fresh.has = FALSE /\ Fresh.replica = {} /\ Fresh.seeds = 0
      /\ Fresh.typed = {} /\ Fresh.ever = {} /\ Fresh.asks = 0 /\ Fresh.holding = FALSE
  BY DEF Fresh
<1>3. Fresh \in Document
  BY DEF Fresh, Document
<1>4. ~Flying(Fresh) /\ ~Opened(Fresh)
  BY <1>1 DEF Flying, Opened
<1>5. Ready(Fresh)
  BY <1>1, <1>2, <1>3, <1>4 DEF Ready, Entered, Roles, Placed, Known
<1>6. Owned(Fresh) /\ Settled(Fresh) /\ Holds(Fresh)
  BY <1>1, <1>2, <1>4 DEF Owned, Settled, Even, Followed, Excusable, Holds
<1> QED BY <1>1, <1>3, <1>5, <1>6 DEF Good

LEMMA DisposeEnds ==
    ASSUME Good(s), role \in {"host", "guest"}, Dispose
    PROVE  Ends(s', s)
<1>0. s \in Document /\ Entered(s) /\ Roles(s)
  BY DEF Good, Ready
<1> DEFINE e1 == [Fresh EXCEPT !.has = s.has]
           e2 == [e1 EXCEPT !.replica = s.replica]
           e3 == [e2 EXCEPT !.seeds = s.seeds]
           e4 == [e3 EXCEPT !.asks = s.asks]
           e5 == [e4 EXCEPT !.holding = s.holding]
           e == [e5 EXCEPT !.reading = s.reading]
<1>1. s' = e
  BY DEF Dispose, Fresh
<1>2. e1 \in Document /\ e2 \in Document /\ e3 \in Document
  <2>1. e1 \in Document
    BY <1>0, Fields, FreshIs, Puts
  <2> HIDE DEF e1
  <2>2. e2 \in Document
    BY <1>0, <2>1, Fields, Puts
  <2> HIDE DEF e2
  <2> QED BY <1>0, <2>1, <2>2, Fields, Puts
<1>3. e \in Document
  <2> HIDE DEF e3
  <2>1. e4 \in Document
    BY <1>0, <1>2, Fields, Puts
  <2> HIDE DEF e4
  <2>2. e5 \in Document
    BY <1>0, <2>1, Fields, Puts
  <2> HIDE DEF e5
  <2> QED BY <1>0, <2>2, Fields, Puts
<1>4. /\ Alike(e, Fresh, {"has", "replica", "seeds", "asks", "holding", "reading"})
      /\ e.has = s.has /\ e.replica = s.replica /\ e.seeds = s.seeds /\ e.reading = s.reading
  BY DEF Alike, FieldNames, Fresh
<1> HIDE DEF e
<1>5. /\ e.buffer = Closed /\ e.front = FALSE /\ e.unarrived = FALSE /\ e.flight = NoFlight
      /\ e.own = {} /\ e.save = "none" /\ e.seeded = FALSE /\ e.pending = FALSE
      /\ e.backstop = FALSE /\ e.stirred = FALSE /\ e.queued = 0
  BY <1>4, FreshIs DEF Alike, FieldNames
<1>6. Over(e) /\ ~Flying(e)
  BY <1>5 DEF Over, Flying
<1>7. Entered(e) /\ Roles(e) /\ Placed(e)
  BY <1>0, <1>4, <1>5, <1>6 DEF Entered, Roles, Placed
<1> QED BY <1>1, <1>3, <1>4, <1>5, <1>6, <1>7 DEF Ends, Done, Loses, Saves, Publishes

\* Only promises, holds and reads that were under way come in afterwards.
LEMMA LateEnds ==
    ASSUME Done(s), role \in {"host", "guest"},
           StaleSettles \/ HoldGranted \/ HoldRefused \/ ReadEnds
    PROVE  Ends(s', s)
<1>0. s \in Document /\ Entered(s) /\ Roles(s) /\ Placed(s) /\ Over(s)
  BY DEF Done
\* What stays closed stays over.
<1>1. ASSUME NEW e \in Document, ~e.front, ~e.unarrived, ~Flying(e), e.buffer = Closed,
             e.own = {}, e.save = "none", Entered(e), Roles(e),
             e.replica = s.replica \/ s.replica = {}
      PROVE  Ends(e, s)
  <2>1. Over(e) /\ Placed(e)
    BY <1>1 DEF Over, Placed
  <2>2. Publishes(e, s)
    BY <1>0, <1>1 DEF Publishes, Over
  <2> QED BY <1>1, <2>1, <2>2 DEF Ends, Done, Loses, Saves
<1>2. ASSUME NEW e \in Document, ~e.front, ~e.unarrived, ~Flying(e), e.save = "none",
             Alike(e, s, {"front", "unarrived", "flight", "stale", "save", "backstop", "pending",
                          "attempts", "asks", "held", "holding", "heard", "reading"}),
             e.pending \/ e.backstop => e.has,
             role = "guest" => e.reading = 0
      PROVE  Ends(e, s)
  <2>1. /\ e.buffer = s.buffer /\ e.own = s.own /\ e.has = s.has /\ e.replica = s.replica
        /\ e.seeds = s.seeds /\ e.stirred = s.stirred /\ e.seeded = s.seeded
        /\ e.queued = s.queued
    BY <1>2 DEF Alike, FieldNames
  <2>2. Entered(e) /\ Roles(e)
    BY <1>0, <1>2, <2>1 DEF Entered, Roles
  <2> QED BY <1>0, <1>1, <1>2, <2>1, <2>2 DEF Over
<1>3. role = "guest" => s.reading = 0
  BY <1>0 DEF Roles
<1>4. CASE StaleSettles
  <2>1. s' = [s EXCEPT !.stale = FALSE]
    BY <1>4 DEF StaleSettles
  <2>2. s' \in Document
    BY <1>0, <2>1, Puts
  <2>3. Alike(s', s, {"stale"})
    BY <1>0, <2>1 DEF Alike, FieldNames, Document
  <2>4. /\ s'.front = s.front /\ s'.unarrived = s.unarrived /\ s'.flight = s.flight
        /\ s'.save = s.save /\ s'.pending = s.pending /\ s'.backstop = s.backstop
        /\ s'.has = s.has /\ s'.reading = s.reading
    BY <2>3 DEF Alike, FieldNames
  <2> QED BY <1>0, <1>2, <1>3, <2>2, <2>3, <2>4 DEF Alike, Over, Entered, Flying
<1>5. CASE HoldGranted
  <2> DEFINE d == [s EXCEPT !.asks = @ - 1, !.held = TRUE]
             e == Release(d)
  <2>1. /\ d \in Document /\ Alike(d, s, {"asks", "held"})
    BY <1>0, <1>5, AnswerIs DEF HoldGranted
  <2>2. s' = IF d.unarrived /\ d.has THEN Arrive(d)
             ELSE IF ~d.front /\ ~d.unarrived THEN e ELSE d
    BY <1>5 DEF HoldGranted
  <2> HIDE DEF d
  <2>3. e \in Document /\ Alike(e, d, {"held", "holding"})
    BY <2>1, ReleaseIs
  <2>4. s' = e
    BY <1>0, <2>1, <2>2 DEF Alike, FieldNames, Over
  <2> HIDE DEF e
  <2>5. Alike(e, s, {"asks", "held", "holding"})
    BY <2>1, <2>3 DEF Alike
  <2>6. /\ e.front = s.front /\ e.unarrived = s.unarrived /\ e.flight = s.flight
        /\ e.save = s.save /\ e.pending = s.pending /\ e.backstop = s.backstop
        /\ e.has = s.has /\ e.reading = s.reading
    BY <2>5 DEF Alike, FieldNames
  <2> QED BY <1>0, <1>2, <1>3, <2>3, <2>4, <2>5, <2>6 DEF Alike, Over, Entered, Flying
<1>6. CASE HoldRefused
  <2> DEFINE b == Forget(s)
             c == [b EXCEPT !.asks = b.asks - 1, !.holding = s.asks > 1]
             e == Told(c)
  <2>1. /\ b \in Document
        /\ Alike(b, s, {"unarrived", "front", "flight", "stale", "save", "backstop", "pending",
                        "attempts"})
        /\ ~b.front /\ ~b.unarrived /\ ~Flying(b) /\ b.save = "none" /\ ~b.backstop
        /\ ~b.pending
    BY <1>0, ForgetIs
  <2>2. s' = e /\ s.asks > 0
    BY <1>6, <2>1 DEF HoldRefused, Document
  <2> HIDE DEF b
  <2>3. b.asks = s.asks /\ s.asks - 1 \in Nat /\ (s.asks > 1) \in BOOLEAN
    BY <1>0, <2>1, <2>2, Fields DEF Alike, FieldNames
  <2>4. c \in Document /\ Alike(c, b, {"asks", "holding"})
    <3>1. [b EXCEPT !.asks = b.asks - 1] \in Document
      BY <2>1, <2>3, Puts
    <3>2. c \in Document
      BY <2>3, <3>1, Puts
    <3> QED BY <2>1, <3>2 DEF Alike, FieldNames, Document
  <2> HIDE DEF c
  <2>5. e \in Document /\ Alike(e, c, {"heard"})
    BY <2>4, ToldIs
  <2> HIDE DEF e
  <2>6. /\ ~e.front /\ ~e.unarrived /\ ~Flying(e) /\ e.save = "none" /\ ~e.backstop
        /\ ~e.pending /\ e.reading = s.reading
    BY <2>1, <2>4, <2>5 DEF Alike, FieldNames, Flying
  <2>7. Alike(e, s, {"unarrived", "front", "flight", "stale", "save", "backstop", "pending",
                     "attempts", "asks", "holding", "heard"})
    BY <2>1, <2>4, <2>5 DEF Alike
  <2> QED BY <1>2, <1>3, <2>2, <2>5, <2>6, <2>7 DEF Alike
<1>7. CASE ReadEnds
  <2> DEFINE d == [s EXCEPT !.reading = @ - 1]
             e == InsertCopy(d, Disk)
  <2>1. s.reading > 0 /\ (s' = d \/ s' = e) /\ role = "host"
    BY <1>3, <1>7 DEF ReadEnds
  <2>2. d \in Document /\ Alike(d, s, {"reading"})
    BY <1>0, <2>1, ReadIs
  <2> HIDE DEF d
  <2>3. /\ d.front = s.front /\ d.unarrived = s.unarrived /\ d.flight = s.flight
        /\ d.save = s.save /\ d.pending = s.pending /\ d.backstop = s.backstop
        /\ d.has = s.has /\ d.replica = s.replica /\ d.seeds = s.seeds /\ d.seeded = s.seeded
        /\ d.buffer = s.buffer /\ d.own = s.own
    BY <2>2 DEF Alike, FieldNames
  <2>4. Ends(d, s)
    BY <1>0, <1>2, <2>1, <2>2, <2>3 DEF Alike, Over, Entered, Flying
  <2>5. /\ e \in Document /\ Alike(e, d, {"has", "replica", "ever", "stirred", "seeds"})
        /\ d.has => e = d
        /\ ~d.has => /\ e.has /\ e.seeds = d.seeds + 1
    <3>1. Disk \subseteq Marks
      BY DEF Marks
    <3> QED BY <2>2, <3>1, InsertCopyIs
  <2> HIDE DEF e
  <2>6. ASSUME ~d.has PROVE Ends(e, s)
    <3>1. /\ e.front = s.front /\ e.unarrived = s.unarrived /\ e.flight = s.flight
          /\ e.save = s.save /\ e.seeded = s.seeded /\ e.buffer = s.buffer /\ e.own = s.own
      BY <2>3, <2>5 DEF Alike, FieldNames
    <3>2. s.replica = {} /\ s.seeds = 0
      BY <1>0, <2>3, <2>6 DEF Entered
    <3>3. Entered(e) /\ Roles(e)
      BY <1>0, <2>1, <2>3, <2>5, <2>6, <3>1, <3>2 DEF Entered, Roles, Over
    <3> QED BY <1>0, <1>1, <2>5, <3>1, <3>2, <3>3 DEF Over, Flying
  <2> QED BY <2>1, <2>4, <2>5, <2>6
<1> QED BY <1>4, <1>5, <1>6, <1>7

-----------------------------------------------------------------------------
(* The specification. *)

LEMMA InitInv == ASSUME Init PROVE Inv
<1>1. PICK w \in Windows : role = w.role /\ late = w.late
  BY DEF Init
<1>2. w.role \in {"host", "guest"} /\ w.late \in BOOLEAN
  <2>1. w \in [role : {"host", "guest"}, late : BOOLEAN]
    BY BridgeAssumption
  <2> QED BY <2>1
<1>3. role \in {"host", "guest"} /\ late \in BOOLEAN
  BY <1>1, <1>2
<1>4. 0 \in 0..MaxOpens /\ 0 \in 0..MaxRefusals /\ 0 \in 0..MaxTurns
  <2>1. MaxOpens \in Nat /\ MaxRefusals \in Nat /\ MaxTurns \in Nat
    BY BridgeAssumption
  <2> QED BY <2>1
<1>5. TypeOK
  BY <1>3, <1>4, FreshIs DEF Init, TypeOK
<1> QED BY <1>5, FreshIs DEF Init, Inv, Good, Ready

\* What the step leaves of who is looked at, and the bounds it counts.
LEMMA CountsKeep ==
    ASSUME TypeOK, Next
    PROVE  /\ role' = role /\ late' = late /\ disposed' \in BOOLEAN
           /\ opens' \in 0..MaxOpens /\ refusals' \in 0..MaxRefusals /\ turns' \in 0..MaxTurns
           /\ disposed => disposed'
<1>1. /\ opens \in 0..MaxOpens /\ refusals \in 0..MaxRefusals /\ turns \in 0..MaxTurns
      /\ disposed \in BOOLEAN
  BY DEF TypeOK
<1>2. MaxOpens \in Nat /\ MaxRefusals \in Nat /\ MaxTurns \in Nat
  BY BridgeAssumption
<1>3. CASE \E text \in Texts : Open(text)
  BY <1>1, <1>2, <1>3 DEF Open, fixed
<1>4. CASE \E text \in RoomTexts : RoomWrites(text)
  BY <1>1, <1>2, <1>4 DEF RoomWrites, fixed
<1>5. CASE Refuses \/ Fails
  <2>1. /\ refusals < MaxRefusals /\ refusals' = refusals + 1
        /\ UNCHANGED <<role, late, disposed, opens, turns>>
    BY <1>5 DEF Refuses, Fails, fixed
  <2> QED BY <1>1, <1>2, <2>1
<1>6. CASE Dispose
  BY <1>1, <1>2, <1>6 DEF Dispose, fixed
<1>7. CASE Close \/ (\E m \in Local : Type(m)) \/ (\E m \in Marks : Cut(m))
  BY <1>1, <1>7 DEF Close, Type, Cut, fixed
<1>8. CASE Lands \/ Settles \/ StaleSettles \/ BackstopFires \/ SaveFires
  BY <1>1, <1>8 DEF Lands, Settles, StaleSettles, BackstopFires, SaveFires, fixed
<1>9. CASE HoldGranted \/ HoldRefused \/ Named \/ Unnamed
  BY <1>1, <1>9 DEF HoldGranted, HoldRefused, Named, Unnamed, fixed
<1>10. CASE ReadStarts \/ ReadEnds \/ Echo \/ ArrivesSilently
  BY <1>1, <1>10 DEF ReadStarts, ReadEnds, Echo, ArrivesSilently, fixed
<1> QED BY <1>3, <1>4, <1>5, <1>6, <1>7, <1>8, <1>9, <1>10 DEF Next

\* What a step says of the two texts.
Said(e, d) == Loses(e, d) /\ Saves(e, d) /\ (turns' = turns => Publishes(e, d))

\* A session that is not over takes a step.
LEMMA LiveSteps ==
    ASSUME TypeOK, ~disposed, Good(s), Next
    PROVE  /\ IF disposed' THEN Done(s') ELSE Good(s')
           /\ Said(s', s)
<1>0. role \in {"host", "guest"}
  BY DEF TypeOK
<1>1. ASSUME disposed' = disposed, Steps(s', s)
      PROVE  (IF disposed' THEN Done(s') ELSE Good(s')) /\ Said(s', s)
  BY <1>1 DEF Steps, Keeps, Said
<1>2. CASE \E text \in Texts : Open(text)
  BY <1>0, <1>1, <1>2, OpenSteps DEF Open
<1>3. CASE Close
  BY <1>1, <1>3, CloseSteps DEF Close
<1>4. CASE \E m \in Local : Type(m)
  BY <1>1, <1>4, TypeSteps DEF Type
<1>5. CASE \E m \in Marks : Cut(m)
  BY <1>1, <1>5, CutSteps DEF Cut
<1>6. CASE Lands
  BY <1>1, <1>6, LandsSteps DEF Lands
<1>7. CASE Settles \/ Refuses
  BY <1>1, <1>7, SettleSteps DEF Settles, Refuses
<1>8. CASE Fails
  BY <1>1, <1>8, FailsSteps DEF Fails
<1>9. CASE StaleSettles
  BY <1>1, <1>9, StaleSettlesSteps DEF StaleSettles
<1>10. CASE BackstopFires
  BY <1>1, <1>10, BackstopSteps DEF BackstopFires
<1>11. CASE SaveFires
  BY <1>1, <1>11, SaveSteps DEF SaveFires
<1>12. CASE HoldGranted
  BY <1>1, <1>12, HoldGrantedSteps DEF HoldGranted
<1>13. CASE HoldRefused
  BY <1>1, <1>13, HoldRefusedSteps DEF HoldRefused
<1>14. CASE Named \/ Unnamed \/ ReadStarts
  BY <1>0, <1>1, <1>14, QueueSteps DEF Named, Unnamed, ReadStarts
<1>15. CASE ReadEnds
  BY <1>0, <1>1, <1>15, ReadEndsSteps DEF ReadEnds
<1>16. CASE \E text \in RoomTexts : RoomWrites(text)
  <2>1. PICK text \in RoomTexts : RoomWrites(text)
    BY <1>16
  <2>2. Keeps(s', s) /\ disposed' = disposed /\ turns' = turns + 1
    BY <2>1, RoomWritesSteps DEF RoomWrites
  <2>3. turns' # turns
    BY <2>2 DEF TypeOK
  <2> QED BY <2>2, <2>3 DEF Keeps, Said
<1>17. CASE Echo
  BY <1>1, <1>17, EchoSteps DEF Echo
<1>18. CASE ArrivesSilently
  BY <1>1, <1>18, ArrivesSilentlySteps DEF ArrivesSilently
<1>19. CASE Dispose
  BY <1>0, <1>19, DisposeEnds DEF Dispose, Ends, Said
<1> QED BY <1>2, <1>3, <1>4, <1>5, <1>6, <1>7, <1>8, <1>9, <1>10, <1>11, <1>12, <1>13,
           <1>14, <1>15, <1>16, <1>17, <1>18, <1>19 DEF Next

LEMMA OverSteps ==
    ASSUME TypeOK, disposed, Done(s), Next
    PROVE  Done(s') /\ Said(s', s)
<1>1. StaleSettles \/ HoldGranted \/ HoldRefused \/ ReadEnds
  BY DEF Next, Open, Close, Type, Cut, Lands, Settles, Refuses, Fails, BackstopFires, SaveFires,
         Named, Unnamed, ReadStarts, RoomWrites, Echo, ArrivesSilently, Dispose, Quiet, InFlight
<1>2. role \in {"host", "guest"}
  BY DEF TypeOK
<1> QED BY <1>1, <1>2, LateEnds DEF Ends, Said

LEMMA NextKeeps ==
    ASSUME Inv, [Next]_vars
    PROVE  Inv' /\ Said(s', s)
<1>1. CASE Next
  <2>1. TypeOK /\ (IF disposed THEN Done(s) ELSE Good(s))
    BY DEF Inv, TypeOK, Done, Good
  <2>2. (IF disposed' THEN Done(s') ELSE Good(s')) /\ Said(s', s)
    BY <1>1, <2>1, CountsKeep, LiveSteps, OverSteps
  <2>3. TypeOK'
    <3>1. s' \in Document
      BY <2>2 DEF Done, Good, Ready
    <3> QED BY <1>1, <2>1, <3>1, CountsKeep DEF TypeOK
  <2>4. role' = role
    BY <1>1, <2>1, CountsKeep
  <2>5. Roles(s)' <=> Roles(s')
    BY <2>4 DEF Roles
  <2>6. Inv'
    BY <2>2, <2>3, <2>5 DEF Inv, Done, Good, Ready
  <2> QED BY <2>2, <2>6
<1>2. CASE UNCHANGED vars
  <2>1. /\ s' = s /\ role' = role /\ late' = late /\ disposed' = disposed /\ opens' = opens
        /\ refusals' = refusals /\ turns' = turns
    BY <1>2 DEF vars, fixed
  <2>2. Roles(s)' <=> Roles(s)
    BY <2>1 DEF Roles
  <2>3. TypeOK'
    BY <2>1 DEF Inv, TypeOK
  <2>4. Inv'
    BY <2>1, <2>2, <2>3 DEF Inv, Ready
  <2>5. Said(s', s)
    BY <2>1 DEF Said, Loses, Saves, Publishes
  <2> QED BY <2>4, <2>5
<1> QED BY <1>1, <1>2

\* However opens, closes, holds, applies, timers and the room interleave, the document's
\* record is what the bridge's fields can be, and the invariant above holds of it.
THEOREM BridgeInvariant == Spec => []Inv
<1>1. Init => Inv
  BY InitInv
<1>2. Inv /\ [Next]_vars => Inv'
  BY NextKeeps
<1> QED BY <1>1, <1>2, PTL DEF Spec

\* Every field of a document, and every count, stays of its type.
THEOREM BridgeTypeOK == Spec => []TypeOK
<1>1. Inv => TypeOK
  BY DEF Inv
<1> QED BY <1>1, BridgeInvariant, PTL

\* However opens, closes, holds and reads fell, one copy of the disk at most is in the room,
\* and with no answer to a hold outstanding the room counts this client as a holder exactly
\* of a document it has in front or waits for (documentOpened, documentClosed, release).
THEOREM BridgeEnteredOnce == Spec => []EnteredOnce
<1>1. Inv => EnteredOnce
  <2> SUFFICES ASSUME Inv PROVE EnteredOnce
    OBVIOUS
  <2>1. s \in Document /\ s.seeds <= 1
    BY DEF Inv, TypeOK, Entered
  <2>2. ASSUME s.asks = 0, ~disposed PROVE s.holding = (s.front \/ s.unarrived)
    <3>1. Holds(s) /\ s.holding \in BOOLEAN
      BY <2>1, <2>2, Fields DEF Inv
    <3>2. s.holding => s.front \/ s.unarrived
      BY <2>2, <3>1 DEF Holds
    <3>3. s.front \/ s.unarrived => s.holding
      BY <3>1 DEF Holds
    <3> QED BY <3>1, <3>2, <3>3
  <2> QED BY <2>1, <2>2 DEF EnteredOnce
<1> QED BY <1>1, BridgeInvariant, PTL

\* Whatever a reconcile, a retry, a rewrite by the backstop or a late landing takes out of the
\* buffer of what the person typed, the room had, or the person was told, or it was refused or
\* typed where nobody carries it.
THEOREM BridgeLossIsTold == Spec => LossIsTold
<1>1. Inv /\ [Next]_vars
        => [s'.buffer # Closed
              => (s.buffer \cap Local) \ (s'.buffer \cup s'.cut) \subseteq Excused(s')]_vars
  BY NextKeeps DEF Said, Loses
<1> QED BY <1>1, BridgeInvariant, PTL DEF Spec, LossIsTold

\* A publication takes out of the room only what the person took out or knew to differ, and
\* puts in nothing a guest's buffer held before the room's text arrived, unless it was known.
THEOREM BridgePublishes == Spec => PublishesWhatWasDone
<1>1. Inv /\ [Next]_vars
        => [turns' = turns => /\ s.replica \ s'.replica \subseteq s'.cut \cup s.heard
                              /\ (s'.replica \ s.replica) \cap s.own \subseteq s.heard]_vars
  BY NextKeeps DEF Said, Publishes
<1> QED BY <1>1, BridgeInvariant, PTL DEF Spec, PublishesWhatWasDone

\* A save that fires writes no file behind the room's text or ahead of it, but in what the
\* person took out, was told of, or the room refused: a change in flight or a lone surrogate
\* pauses it instead, and at rest the two texts differ in nothing else.
THEOREM BridgeSavedOrTold == Spec => SavedOrTold
<1>1. Inv /\ [Next]_vars
        => [(s.save = "armed" /\ s'.save = "none" /\ s'.front) =>
               /\ s.replica \ s.buffer \subseteq s.heard \cup s.cut
               /\ s.buffer \ s.replica \subseteq s.heard \cup s.refused]_vars
  BY NextKeeps DEF Said, Saves
<1> QED BY <1>1, BridgeInvariant, PTL DEF Spec, SavedOrTold
=============================================================================
