----------------------------- MODULE HostProofs -----------------------------
(***************************************************************************)
(* What holds of Host for every room, every roster and every number of     *)
(* processes: its types, that no state gives two keys one seat, that the   *)
(* host never speaks below what it has verified nor after its closing, and *)
(* that a host with a store is one Authority whatever process holds it.    *)
(* First, what the operators on the roster and the table return, for every *)
(* roster and every table: they stay what they are, a label is a seat of   *)
(* the room, and no handler gives two keys one label.                      *)
(***************************************************************************)
EXTENDS Host, TLAPS, WellFoundedInduction

\* A set of naturals that is not empty has a least element.
LEMMA LeastNat ==
    ASSUME NEW T, T \subseteq Nat, T # {}
    PROVE  \E m \in T : \A n \in T : m <= n
<1> DEFINE R == {ss \in Nat \X Nat : ss[1] < ss[2]}
<1>1. IsWellFoundedOn(R, Nat)
  BY NatLessThanWellFounded DEF OpToRel
<1>2. \A m, n \in Nat : n < m => <<n, m>> \in R
  OBVIOUS
<1> HIDE DEF R
<1>3. PICK m \in T : \A n \in T : ~(<<n, m>> \in R)
  BY <1>1, WFMin
<1>4. ASSUME NEW n \in T PROVE m <= n
  <2>1. m \in Nat /\ n \in Nat
    OBVIOUS
  <2>2. ~(n < m)
    BY <2>1, <1>2, <1>3
  <2> QED BY <2>1, <2>2
<1> QED BY <1>4

\* Taking the first occurrence of an element out of a sequence leaves a sequence:
\* removeSeat() of the roster.
LEMMA RemoveFirstType ==
    ASSUME NEW S, NEW s \in Seq(S), NEW e
    PROVE  RemoveFirst(s, e) \in Seq(S)
<1>1. CASE ~ \E i \in 1..Len(s) : s[i] = e
  BY <1>1 DEF RemoveFirst
<1>2. CASE \E i \in 1..Len(s) : s[i] = e
  <2> DEFINE I == {i \in 1..Len(s) : s[i] = e}
  <2>1. I \subseteq Nat /\ I # {}
    BY <1>2
  <2>2. \E m \in I : \A n \in I : m <= n
    BY <2>1, LeastNat
  <2>3. Min(I) \in I
    BY <2>2 DEF Min
  <2>4. RemoveFirst(s, e) = RemoveAt(s, Min(I))
    BY <1>2 DEF RemoveFirst, SelectInSeq
  <2>5. PICK i \in 1..Len(s) :
            RemoveFirst(s, e) = SubSeq(s, 1, i - 1) \o SubSeq(s, i + 1, Len(s))
    BY <2>3, <2>4 DEF RemoveAt
  <2>6. SubSeq(s, 1, i - 1) \in Seq(S) /\ SubSeq(s, i + 1, Len(s)) \in Seq(S)
    OBVIOUS
  <2> QED BY <2>5, <2>6
<1> QED BY <1>1, <1>2

\* A seat that joins extends the roster.
LEMMA EnterType ==
    ASSUME NEW r \in Seq(Seats), NEW seat \in Seats
    PROVE  Enter(r, seat) \in Seq(Seats)
BY DEF Enter

\* label() returns a seat of the room, whatever is free or taken.
LEMMA LabelForType ==
    ASSUME NEW r \in Seq(Seats), NEW s \in Table
    PROVE  LabelFor(r, s) \in Seats
<1> DEFINE seated == {k \in Present(r, s) : s[k].seat # OwnSeat}
<1>1. CASE Free(r, s) # {}
  <2>1. Free(r, s) \subseteq Nat
    BY DEF Free
  <2>2. \E i \in Free(r, s) : \A j \in Free(r, s) : i <= j
    BY <1>1, <2>1, LeastNat
  <2>3. (CHOOSE i \in Free(r, s) : \A j \in Free(r, s) : i <= j) \in DOMAIN r
    BY <2>2 DEF Free
  <2> QED BY <1>1, <2>3 DEF LabelFor
<1>2. CASE Free(r, s) = {} /\ seated # {}
  <2>1. seated \subseteq Keys /\ \A k \in seated : s[k] \in Entry
    BY DEF Present, Committed, Table
  <2> DEFINE orders == {s[k].order : k \in seated}
  <2>2. orders \subseteq Nat /\ orders # {}
    BY <1>2, <2>1 DEF Entry
  <2>3. \E m \in orders : \A n \in orders : m <= n
    BY <2>2, LeastNat
  <2>4. \E k \in seated : \A j \in seated : s[k].order <= s[j].order
    BY <2>3
  <2>5. Oldest(s, seated) \in seated
    BY <2>4 DEF Oldest
  <2>6. s[Oldest(s, seated)].seat \in Seats
    BY <2>1, <2>5 DEF Entry
  <2> QED BY <1>2, <2>6 DEF LabelFor
<1>3. CASE Free(r, s) = {} /\ seated = {}
  BY <1>3, SeatingAssumption DEF LabelFor
<1> QED BY <1>1, <1>2, <1>3

\* commit() and seatLeft() keep the table a table, and a state's peer list is one.
LEMMA CommitType ==
    ASSUME NEW k \in Keys, NEW role \in Roles, NEW r \in Seq(Seats), NEW s \in Table,
           NEW n \in Nat
    PROVE  Commit(k, role, r, s, n) \in Table
<1>1. LabelFor(r, s) \in Seats
  BY LabelForType
<1>2. [seat |-> LabelFor(r, s), role |-> role, order |-> n] \in Entry
  BY <1>1 DEF Entry
<1> QED BY <1>2 DEF Commit, Table

\* seatLeft() of a table is a table.
LEMMA VacateType ==
    ASSUME NEW s \in Table, NEW seat
    PROVE  Vacate(s, seat) \in Table
BY DEF Vacate, Table

\* The list a state carries has a known label on every entry.
LEMMA PeerEntriesType ==
    ASSUME NEW r, NEW s \in Table
    PROVE  PeerEntries(r, s) \in Peers
BY DEF PeerEntries, Peers, Table, Entry, Label

-----------------------------------------------------------------------------
\* No two keys carry one seat, the host's own excepted.
Distinct(s) ==
    \A j, k \in Keys :
        s[j] # NoEntry /\ s[k] # NoEntry /\ s[j].seat = s[k].seat
            => j = k \/ s[j].seat = OwnSeat

\* commit() takes a label from whichever key had it, so labels stay apart.
LEMMA CommitDistinct ==
    ASSUME NEW k \in Keys, NEW role, NEW r, NEW s, NEW n, Distinct(s)
    PROVE  Distinct(Commit(k, role, r, s, n))
BY DEF Distinct, Commit

\* seatLeft() only takes keys away.
LEMMA VacateDistinct ==
    ASSUME NEW s, NEW seat, Distinct(s)
    PROVE  Distinct(Vacate(s, seat))
BY DEF Distinct, Vacate

\* What a state lists carries the labels of the table.
LEMMA PeerEntriesDistinct ==
    ASSUME NEW r, NEW s, Distinct(s)
    PROVE  Distinct(PeerEntries(r, s))
BY DEF Distinct, PeerEntries

-----------------------------------------------------------------------------

AwayClock == {NotAway} \cup 0..Expire

\* The host-away clock is unset, or within its window.
LEMMA RefreshAwayType ==
    ASSUME away \in AwayClock, NEW r, NEW h, NEW from, NEW restart \in BOOLEAN
    PROVE  RefreshAway(r, h, from, restart) \in AwayClock
BY HostAssumption DEF RefreshAway, AwayClock, NotAway

\* The timer is armed within a renewal interval.
LEMMA ArmType ==
    ASSUME NEW owes \in BOOLEAN, NEW since \in 0..Renew, NEW g \in 0..Renew
    PROVE  Arm(owes, since, g) \in 0..Renew
BY HostAssumption DEF Arm, Smaller

\* nextIssued() is a number of the series.
LEMMA NextIssuedType ==
    ASSUME issued \in Nat, verified \in Nat
    PROVE  NextIssued \in Nat /\ NextIssued > issued /\ NextIssued > verified
BY DEF NextIssued, Larger

\* The two values a restarted clock takes are within its range.
LEMMA ClockRange == 0 \in 0..Renew /\ Renew \in 0..Renew
BY HostAssumption

\* What publishState writes, whichever way it comes out.
Publication ==
    /\ issued' \in Nat /\ verified' \in Nat /\ store' \in Nat
    /\ held' \in Nat /\ heldFrom' \in Nat /\ away' \in AwayClock
    /\ owed' \in BOOLEAN /\ faulted' \in BOOLEAN
    /\ sinceAnswer' \in 0..Renew /\ quiet' \in 0..Renew
    /\ lastState' \in States \cup {NoState}
    /\ sealed' \subseteq Frames /\ push' \in Pushes \cup {NoFrame}

\* publishState() over typed tables queues a frame, or an answer to come, of its type.
LEMMA PublicationType ==
    ASSUME TypeOK, seats' \in Table, tree' \in Listings,
           NEW reason \in Reasons, NEW o \in BOOLEAN, NEW a \in AwayClock,
           PublishState(reason, o, a)
    PROVE  Publication
<1> USE DEF TypeOK, Publication
<1>1. NextIssued \in Nat
  BY NextIssuedType
<1>2. \A n \in Nat, fresh \in BOOLEAN : Pushed(n, reason, fresh) \in Pushes
  BY DEF Pushed, Pushes
<1>3. CASE Withhold(reason, o, a)
  BY <1>3 DEF Withhold, Silent, QueuesNothing
<1>4. CASE Resend(reason, o, a)
  <2>1. lastState.issued \in Nat
    BY <1>4 DEF Resend, Unchanged, States
  <2>2. Pushed(lastState.issued, reason, FALSE) \in Pushes
    BY <1>2, <2>1
  <2>3. /\ push' \in Pushes \cup {NoFrame}
        /\ sinceAnswer' \in 0..Renew /\ quiet' \in 0..Renew
    BY <1>4, <2>2, ClockRange DEF Resend, Queue
  <2> QED BY <1>4, <2>3 DEF Resend
<1>5. CASE PublishNew(reason, o)
  <2>1. lastState' \in States
    BY <1>1, <1>5, PeerEntriesType DEF PublishNew, NewState, States
  <2>2. sealed' \subseteq Frames
    BY <1>1, <1>5 DEF PublishNew, Signed, Frames
  <2>3. store' \in Nat
    BY <1>1, <1>5 DEF PublishNew, SaveSeries
  <2>4. away' \in AwayClock
    BY <1>5, RefreshAwayType DEF PublishNew, AwayClock
  <2>5. verified' \in Nat
    BY <1>1, <1>5 DEF PublishNew, Larger
  <2>6. /\ push' \in Pushes \cup {NoFrame}
        /\ sinceAnswer' \in 0..Renew /\ quiet' \in 0..Renew
    <3>1. Pushed(NextIssued, reason, TRUE) \in Pushes
      BY <1>1, <1>2
    <3> QED BY <1>5, <3>1, ClockRange DEF PublishNew, Queue
  <2> QED BY <1>1, <1>5, <2>1, <2>2, <2>3, <2>4, <2>5, <2>6 DEF PublishNew
<1>6. CASE SealFails(reason, o, a)
  BY <1>6 DEF SealFails, Silent, QueuesNothing
<1> QED BY <1>3, <1>4, <1>5, <1>6 DEF PublishState

-----------------------------------------------------------------------------
\* The session and the producer start, and stay, within their types.
LEMMA InitTypeOK == Init => TypeOK
<1> SUFFICES ASSUME Init PROVE TypeOK
  OBVIOUS
<1>1. seats \in Table
  BY DEF Init, Blank, Empty, Table
<1>2. roster \in Seq(Seats)
  BY DEF Init, Blank
<1>3. away \in {NotAway} \cup 0..Expire
  BY DEF Init, Blank
<1> QED BY <1>1, <1>2, <1>3, ClockRange DEF Init, Blank, TypeOK

\* A process starts.
LEMMA CreateTypeOK ==
    ASSUME TypeOK, CreateAndMint \/ CreateOverBudget \/ CreateFails
    PROVE  TypeOK'
<1> USE DEF TypeOK
<1>1. CASE CreateAndMint
  <2>1. Loaded \in Nat
    BY HostAssumption DEF Loaded
  <2>2. MintState \in States
    BY <2>1 DEF MintState, States, Empty, Peers
  <2>3. sealed' \subseteq Frames
    BY <1>1, <2>1 DEF CreateAndMint, MintState, Signed, Frames
  <2>4. store' \in Nat
    BY <1>1, <2>1 DEF CreateAndMint, MintState, SaveSeries
  <2>5. push' \in Pushes
    BY <1>1, <2>1 DEF CreateAndMint, MintState, Pushed, Pushes, Reasons
  <2>6. roster' \in Seq(Seats)
    BY <1>1, SeatingAssumption DEF CreateAndMint, Fresh
  <2>7. life \in Nat /\ MintState.issued \in Nat
    BY <2>1 DEF MintState
  <2>8. life' \in Nat /\ heldFrom' \in Nat
    BY <1>1, <2>7 DEF CreateAndMint, Fresh
  <2>9. issued' \in Nat /\ verified' \in Nat /\ held' \in Nat /\ lastState' \in States
    BY <1>1, <2>2, <2>7 DEF CreateAndMint
  <2> QED BY <1>1, <2>3, <2>4, <2>5, <2>6, <2>8, <2>9 DEF CreateAndMint, Fresh
<1>2. CASE CreateOverBudget
  <2>1. roster' \in Seq(Seats)
    BY <1>2, SeatingAssumption DEF CreateOverBudget, Fresh
  <2> QED BY <1>2, <2>1 DEF CreateOverBudget, Fresh, Loaded
<1>3. CASE CreateFails
  BY <1>3 DEF CreateFails, QueuesNothing, producerVars, timerVars
<1> QED BY <1>1, <1>2, <1>3

\* A process dies.
LEMMA CrashTypeOK ==
    ASSUME TypeOK, Crash
    PROVE  TypeOK'
<1>1. seats' \in Table /\ roster' \in Seq(Seats)
  BY DEF Crash, Forget, Empty, Table
<1> QED BY <1>1, ClockRange DEF Crash, Forget, TypeOK

\* A handler that changes the roster, the seats or the tree, and publishes.
LEMMA HandlerTypeOK ==
    ASSUME TypeOK,
           \/ \E s \in Seats : SeatJoined(s) \/ SeatLeft(s)
           \/ \E k \in Keys, role \in Roles : Announced(k, role)
           \/ ListingChanged
           \/ TickAnswers
    PROVE  TypeOK'
<1> USE DEF AwayClock
<1>1. AwayNow \in AwayClock
  BY RefreshAwayType DEF AwayNow, TypeOK
<1>2. owed \in BOOLEAN /\ away \in AwayClock
  BY DEF TypeOK
<1>3. ASSUME NEW s \in Seats, SeatJoined(s) PROVE TypeOK'
  <2>1. seats' \in Table /\ tree' \in Listings /\ roster' \in Seq(Seats) /\ gone' \in BOOLEAN
    BY <1>3, EnterType DEF SeatJoined, TypeOK
  <2>2. Publication
    BY <1>2, <1>3, <2>1, PublicationType DEF SeatJoined, Reasons
  <2>3. timer' \in 0..Renew /\ grid' \in 0..Renew
    BY <1>3, <2>1, <2>2, ArmType DEF SeatJoined, ArmNow, TypeOK, Publication
  <2> QED BY <1>3, <2>1, <2>2, <2>3 DEF SeatJoined, TypeOK, Publication
<1>4. ASSUME NEW s \in Seats, SeatLeft(s) PROVE TypeOK'
  <2>1. seats' \in Table /\ tree' \in Listings /\ roster' \in Seq(Seats) /\ gone' \in BOOLEAN
    BY <1>4, RemoveFirstType, VacateType DEF SeatLeft, TypeOK
  <2>2. RefreshAway(roster', held, heldFrom, FALSE) \in AwayClock
    BY <1>2, RefreshAwayType
  <2>3. Publication
    BY <1>2, <1>4, <2>1, <2>2, PublicationType DEF SeatLeft, Reasons
  <2>4. timer' \in 0..Renew /\ grid' \in 0..Renew
    BY <1>4, <2>1, <2>3, ArmType DEF SeatLeft, ArmNow, TypeOK, Publication
  <2> QED BY <1>4, <2>1, <2>3, <2>4 DEF SeatLeft, TypeOK, Publication
<1>5. ASSUME NEW k \in Keys, NEW role \in Roles, Announced(k, role) PROVE TypeOK'
  <2>1. seats' \in Table /\ order' \in Nat
    BY <1>5, CommitType DEF Announced, TypeOK
  <2>2. /\ tree' \in Listings /\ roster' \in Seq(Seats) /\ gone' \in BOOLEAN
        /\ closed' \in BOOLEAN
    BY <1>5 DEF Announced, TypeOK
  <2>3. Publication
    BY <1>2, <1>5, <2>1, <2>2, PublicationType DEF Announced, Reasons
  <2>4. timer' \in 0..Renew /\ grid' \in 0..Renew
    BY <1>5, <2>2, <2>3, ArmType DEF Announced, ArmNow, TypeOK, Publication
  <2> QED BY <1>5, <2>1, <2>2, <2>3, <2>4 DEF Announced, TypeOK, Publication
<1>6. CASE ListingChanged
  <2>1. seats' \in Table /\ tree' \in Listings
    BY <1>6 DEF ListingChanged, TypeOK
  <2>2. Publication
    BY <1>2, <1>6, <2>1, PublicationType DEF ListingChanged, Reasons
  <2> QED BY <1>6, <2>1, <2>2 DEF ListingChanged, TypeOK, Publication, timerVars
<1>7. CASE TickAnswers
  <2>1. seats' \in Table /\ tree' \in Listings /\ gone' \in BOOLEAN /\ closed' \in BOOLEAN
    BY <1>7 DEF TickAnswers, TypeOK
  <2>2. Publication
    BY <1>1, <1>2, <1>7, <2>1, PublicationType DEF TickAnswers, Reasons
  <2>3. grid' \in 0..Renew
    BY <1>7, ClockRange DEF TickAnswers, NextGrid, TypeOK
  <2>4. timer' \in 0..Renew
    BY <1>7, <2>1, <2>2, <2>3, ArmType DEF TickAnswers, ArmNow, Publication
  <2> QED BY <1>7, <2>1, <2>2, <2>3, <2>4 DEF TickAnswers, TypeOK, Publication
<1> QED BY <1>3, <1>4, <1>5, <1>6, <1>7

\* What the reader is delivered, and the clocks.
LEMMA HeardTypeOK ==
    ASSUME TypeOK, NEW f \in sealed, HeardState(f) \/ HeardClosing(f)
    PROVE  TypeOK'
<1>1. f.issued \in Nat /\ f.host \in Nat
  BY DEF TypeOK, Frames
<1>2. verified' \in Nat /\ held' \in Nat /\ heldFrom' \in Nat
  BY <1>1 DEF HeardState, HeardClosing, Larger, TypeOK, producerVars
<1>3. away' \in AwayClock
  BY RefreshAwayType DEF HeardState, HeardClosing, TypeOK, AwayClock
<1>4. /\ owed' \in BOOLEAN /\ gone' \in BOOLEAN /\ closed' \in BOOLEAN
      /\ sinceAnswer' \in 0..Renew /\ grid' \in 0..Renew
  BY DEF HeardState, HeardClosing, TypeOK, producerVars
<1>5. timer' \in 0..Renew
  BY <1>4, ArmType DEF HeardState, HeardClosing, ArmNow
<1> QED
  BY <1>2, <1>3, <1>4, <1>5
  DEF HeardState, HeardClosing, QueuesNothing, TypeOK, AwayClock, producerVars

\* closing() keeps the types of what it writes.
LEMMA CloseType ==
    ASSUME TypeOK, Close \/ NotClosed
    PROVE  /\ issued' \in Nat /\ store' \in Nat /\ sealed' \subseteq Frames
           /\ push' \in Pushes \cup {NoFrame} /\ closed' \in BOOLEAN /\ faulted' \in BOOLEAN
           /\ sinceAnswer' \in 0..Renew /\ quiet' \in 0..Renew
<1>1. NextIssued \in Nat
  BY NextIssuedType DEF TypeOK
<1>2. Pushed(NextIssued, "closing", TRUE) \in Pushes
  BY <1>1 DEF Pushed, Pushes, Reasons
<1>3. CASE Close
  <2>1. sealed' \subseteq Frames
    BY <1>1, <1>3 DEF Close, Signed, Frames, TypeOK
  <2>2. store' \in Nat
    BY <1>1, <1>3 DEF Close, SaveSeries, TypeOK
  <2> QED BY <1>1, <1>2, <1>3, <2>1, <2>2, ClockRange DEF Close, Queue, TypeOK
<1>4. CASE NotClosed
  BY <1>4 DEF NotClosed, QueuesNothing, TypeOK
<1> QED BY <1>3, <1>4

\* The steps that publish nothing, or only the closing.
LEMMA OtherTypeOK ==
    ASSUME TypeOK,
           \/ TickOverBudget \/ TickHostAway \/ BudgetReached
           \/ TreeMoves \/ CloseRoom \/ Advance
    PROVE  TypeOK'
<1>1. AwayNow \in AwayClock
  BY RefreshAwayType DEF AwayNow, TypeOK, AwayClock
<1>2. CASE TickOverBudget
  <2>1. grid' \in 0..Renew
    BY <1>2, ClockRange DEF TickOverBudget, NextGrid, TypeOK
  <2> QED BY <1>1, <1>2, <2>1, CloseType DEF TickOverBudget, TypeOK, AwayClock
<1>3. CASE TickHostAway
  <2>1. grid' \in 0..Renew
    BY <1>3, ClockRange DEF TickHostAway, NextGrid, TypeOK
  <2> QED
    BY <1>1, <1>3, <2>1 DEF TickHostAway, QueuesNothing, TypeOK, AwayClock, producerVars
<1>4. CASE BudgetReached
  <2>1. timer' \in 0..Renew
    BY <1>4, ArmType DEF BudgetReached, ArmNow, TypeOK, producerVars
  <2> QED BY <1>4, <2>1 DEF BudgetReached, QueuesNothing, TypeOK, producerVars
<1>5. CASE TreeMoves
  BY <1>5 DEF TreeMoves, QueuesNothing, TypeOK, processVars, timerVars
<1>6. CASE CloseRoom
  BY <1>6, CloseType DEF CloseRoom, TypeOK, timerVars
<1>7. CASE Advance
  <2>1. timer' \in 0..Renew /\ grid' \in 0..Renew
    BY <1>7, HostAssumption DEF Advance, TypeOK
  <2>2. sinceAnswer' \in 0..Renew /\ quiet' \in 0..Renew
    BY <1>7, HostAssumption DEF Advance, TypeOK, Smaller
  <2>3. away' \in AwayClock
    BY <1>7, HostAssumption DEF Advance, TypeOK, Smaller, AwayClock, NotAway
  <2> QED BY <1>7, <2>1, <2>2, <2>3 DEF Advance, TypeOK, AwayClock
<1> QED BY <1>2, <1>3, <1>4, <1>5, <1>6, <1>7

\* Nothing changes.
LEMMA StutterTypeOK ==
    ASSUME TypeOK, UNCHANGED vars
    PROVE  TypeOK'
BY DEF TypeOK, vars, processVars, producerVars, timerVars, historyVars

\* TypeOK is inductive.
LEMMA NextTypeOK == TypeOK /\ [Next]_vars => TypeOK'
BY CreateTypeOK, CrashTypeOK, HandlerTypeOK, HeardTypeOK, OtherTypeOK, StutterTypeOK
DEF Next, Tick

\* Every variable of the producer, its session and its timer keeps its type, for
\* any roster, any keys and any number of processes.
THEOREM HostTypeOK == Spec => []TypeOK
BY InitTypeOK, NextTypeOK, PTL DEF Spec

-----------------------------------------------------------------------------
\* With a store, what a process signs next is above everything the host key ever
\* signed: the store has the highest edition, a running process is where its store
\* is, and one that has signed its closing knows it.
Series ==
    /\ \A f \in sealed : f.issued <= store /\ f.host <= life
    /\ up => issued = store
    /\ up => \A f \in sealed : f.kind = "closing" /\ f.host = life => closed

\* What a step of a running process does to the series.
Keeps == UNCHANGED <<sealed, issued, store>>
Extends(kind) ==
    /\ ~closed
    /\ issued' = NextIssued /\ store' = NextIssued
    /\ Signed(NextIssued, kind, life)

\* Before the first process nothing is signed and the store is empty.
LEMMA InitSeries == Init => Series
BY DEF Init, Series

\* publishState keeps the series, or extends it by one state.
LEMMA PublishSeries ==
    ASSUME HasStore, NEW reason, NEW o, NEW a, PublishState(reason, o, a)
    PROVE  Keeps \/ Extends("state")
BY DEF PublishState, Withhold, Resend, PublishNew, SealFails, Publishes, Silent,
       QueuesNothing, SaveSeries, Keeps, Extends

\* A step that keeps the series keeps Series.
LEMMA KeepsSeries ==
    ASSUME Series, Keeps, up, up', life' = life, closed => closed'
    PROVE  Series' /\ sealed' = sealed
BY DEF Series, Keeps

\* One that extends it signs above everything signed so far, before its own closing.
LEMMA ExtendsSeries ==
    ASSUME TypeOK, Series, up, up', life' = life,
           NEW kind \in {"state", "closing"}, Extends(kind),
           kind = "closing" => closed'
    PROVE  Series' /\ Authority!Sign
<1> DEFINE g == [issued |-> NextIssued, kind |-> kind, host |-> life]
<1>1. NextIssued \in Nat /\ NextIssued > issued /\ issued \in Nat /\ life \in Nat
  BY NextIssuedType DEF TypeOK
<1>2. \A f \in sealed : f.issued \in Nat /\ f.issued < NextIssued
  BY <1>1 DEF Series, TypeOK, Frames
<1>3. sealed' = sealed \cup {g}
  BY DEF Extends, Signed
<1>4. \A f \in sealed : ~(f.kind = "closing" /\ f.host = life)
  BY DEF Series, Extends
<1>5. Series'
  <2>1. \A f \in sealed' : f.issued <= NextIssued /\ f.host <= life
    BY <1>1, <1>2, <1>3 DEF Series
  <2>2. \A f \in sealed' : f.kind = "closing" /\ f.host = life => closed'
    BY <1>3, <1>4
  <2> QED BY <2>1, <2>2 DEF Series, Extends
<1>6. Authority!Sign
  <2>1. Authority!Above(g)
    BY <1>2 DEF Authority!Above
  <2>2. ~Authority!Silent(g)
    BY <1>4 DEF Authority!Silent
  <2> QED BY <1>3, <2>1, <2>2 DEF Authority!Sign
<1> QED BY <1>5, <1>6

\* A process starts where its store is, with a key of its own that has signed nothing.
LEMMA CreateSeries ==
    ASSUME HasStore, TypeOK, Series, CreateAndMint \/ CreateOverBudget \/ CreateFails
    PROVE  Series' /\ (Authority!Sign \/ sealed' = sealed)
<1>1. /\ store \in Nat /\ life \in Nat
      /\ \A f \in sealed : f.issued \in Nat /\ f.host \in Nat
  BY DEF TypeOK, Frames
<1>2. \A f \in sealed : f.issued < store + 1 /\ f.host < life + 1
  BY <1>1 DEF Series
<1>3. CASE CreateAndMint
  <2> DEFINE g == [issued |-> store + 1, kind |-> "state", host |-> life + 1]
  <2>1. /\ sealed' = sealed \cup {g}
        /\ issued' = store + 1 /\ store' = store + 1 /\ life' = life + 1
    BY <1>3 DEF CreateAndMint, MintState, Loaded, Signed, SaveSeries, Fresh
  <2>2. Series'
    <3>1. \A f \in sealed' : f.issued <= store + 1 /\ f.host <= life + 1
      BY <1>1, <1>2, <2>1
    <3>2. \A f \in sealed' : ~(f.kind = "closing" /\ f.host = life + 1)
      BY <1>1, <1>2, <2>1
    <3> QED BY <2>1, <3>1, <3>2 DEF Series
  <2>3. Authority!Above(g) /\ ~Authority!Silent(g)
    BY <1>1, <1>2 DEF Authority!Above, Authority!Silent
  <2> QED BY <2>1, <2>2, <2>3 DEF Authority!Sign
<1>4. CASE CreateOverBudget
  <2>1. sealed' = sealed /\ issued' = store /\ store' = store /\ life' = life + 1
    BY <1>4 DEF CreateOverBudget, Loaded, Fresh
  <2> QED BY <1>1, <1>2, <2>1 DEF Series
<1>5. CASE CreateFails
  <2>1. sealed' = sealed /\ store' = store /\ life' = life + 1 /\ ~up /\ up' = up
    BY <1>5 DEF CreateFails, QueuesNothing
  <2> QED BY <1>1, <1>2, <2>1 DEF Series
<1> QED BY <1>3, <1>4, <1>5

\* Every step keeps Series and is a step of Authority.
LEMMA NextSeries ==
    ASSUME HasStore, TypeOK, Series, [Next]_vars
    PROVE  Series' /\ [Authority!Sign]_sealed
<1>1. CASE CreateAndMint \/ CreateOverBudget \/ CreateFails
  BY <1>1, CreateSeries
<1>2. CASE Crash
  BY <1>2 DEF Crash, Series
<1>3. CASE \/ \E s \in Seats : SeatJoined(s) \/ SeatLeft(s)
           \/ \E k \in Keys, role \in Roles : Announced(k, role)
           \/ ListingChanged \/ TickAnswers
  <2>1. up /\ up' = up /\ life' = life /\ closed' = closed
    BY <1>3 DEF SeatJoined, SeatLeft, Announced, ListingChanged, TickAnswers, Live
  <2>2. Keeps \/ Extends("state")
    BY <1>3, PublishSeries DEF SeatJoined, SeatLeft, Announced, ListingChanged, TickAnswers
  <2> QED BY <2>1, <2>2, KeepsSeries, ExtendsSeries
<1>4. CASE CloseRoom \/ TickOverBudget
  <2>1. up /\ up' = up /\ life' = life
    BY <1>4 DEF CloseRoom, TickOverBudget, Live
  <2>2. \/ Keeps /\ closed' = closed
        \/ Extends("closing") /\ closed'
    BY <1>4 DEF CloseRoom, TickOverBudget, Close, NotClosed, Ready, SaveSeries,
                QueuesNothing, Keeps, Extends
  <2> QED BY <2>1, <2>2, KeepsSeries, ExtendsSeries
<1>5. CASE \/ \E f \in sealed : HeardState(f) \/ HeardClosing(f)
           \/ BudgetReached \/ TreeMoves \/ TickHostAway \/ Advance
  <2>1. /\ up /\ up' = up /\ life' = life /\ closed' = closed /\ Keeps
    BY <1>5 DEF HeardState, HeardClosing, BudgetReached, TreeMoves, TickHostAway, Advance,
                QueuesNothing, Live, Keeps, producerVars, processVars
  <2> QED BY <2>1, KeepsSeries
<1>6. CASE UNCHANGED vars
  BY <1>6 DEF vars, processVars, producerVars, historyVars, Series
<1> QED BY <1>1, <1>2, <1>3, <1>4, <1>5, <1>6 DEF Next, Tick

\* A host that was handed a store speaks as one authority: whatever is delivered, in
\* whatever order, and wherever its processes die, what the host key signs is one
\* strictly rising series, and no process signs anything after its own closing.
THEOREM HostIsOneAuthority == HasStore => (Spec => SpeaksAsOneAuthority)
<1> SUFFICES ASSUME HasStore PROVE Spec => SpeaksAsOneAuthority
  OBVIOUS
<1>1. Init => Authority!Init
  BY DEF Init, Authority!Init
<1>2. TypeOK /\ Series /\ [Next]_vars => Series' /\ [Authority!Sign]_sealed
  BY NextSeries
<1> QED
  BY <1>1, <1>2, InitSeries, HostTypeOK, PTL DEF Spec, SpeaksAsOneAuthority, Authority!Spec

-----------------------------------------------------------------------------
\* A process that does not run has verified nothing, closed nothing, committed no key
\* and owes no answer.
NotRunning == ~up => verified = 0 /\ ~closed /\ seats = Empty /\ ~owed

\* The handlers that publish what they changed, and what they leave alone.
Publishing ==
    \/ \E s \in Seats : SeatJoined(s) \/ SeatLeft(s)
    \/ \E k \in Keys, role \in Roles : Announced(k, role)
    \/ ListingChanged \/ TickAnswers

\* Each of them is one publishState over the tables it leaves.
LEMMA PublishingIsPublishState ==
    ASSUME TypeOK, Publishing
    PROVE  /\ \E reason \in {"roster", "announcement", "listing"}, o \in BOOLEAN, a \in AwayClock :
                   PublishState(reason, o, a) /\ (owed => o)
           /\ up /\ up' = up /\ life' = life /\ closed' = closed /\ spent' = spent
           /\ seats' \in Table /\ tree' \in Listings
<1> USE DEF AwayClock
<1>1. owed \in BOOLEAN /\ away \in AwayClock /\ AwayNow \in AwayClock
  BY RefreshAwayType DEF AwayNow, TypeOK
<1>2. ASSUME NEW s \in Seats, SeatJoined(s)
      PROVE  PublishState("roster", owed, away) /\ seats' \in Table /\ tree' \in Listings
  BY <1>2 DEF SeatJoined, TypeOK
<1>3. ASSUME NEW s \in Seats, SeatLeft(s)
      PROVE  /\ PublishState("roster", owed, RefreshAway(roster', held, heldFrom, FALSE))
             /\ RefreshAway(roster', held, heldFrom, FALSE) \in AwayClock
             /\ seats' \in Table /\ tree' \in Listings
  BY <1>1, <1>3, RefreshAwayType, VacateType DEF SeatLeft, TypeOK
<1>4. ASSUME NEW k \in Keys, NEW role \in Roles, Announced(k, role)
      PROVE  PublishState("announcement", TRUE, away) /\ seats' \in Table /\ tree' \in Listings
  BY <1>4, CommitType DEF Announced, TypeOK
<1>5. CASE ListingChanged
  BY <1>1, <1>5 DEF ListingChanged, TypeOK
<1>6. CASE TickAnswers
  BY <1>1, <1>6 DEF TickAnswers, Live, TypeOK
<1>7. up /\ up' = up /\ life' = life /\ closed' = closed /\ spent' = spent
  BY DEF Publishing, SeatJoined, SeatLeft, Announced, ListingChanged, TickAnswers, Live
<1>8. \E reason \in {"roster", "announcement", "listing"}, o \in BOOLEAN, a \in AwayClock :
          PublishState(reason, o, a) /\ (owed => o)
  BY <1>1, <1>2, <1>3, <1>4, <1>5, <1>6
  DEF Publishing, ListingChanged, TickAnswers
<1>9. seats' \in Table /\ tree' \in Listings
  BY <1>2, <1>3, <1>4, <1>5, <1>6 DEF Publishing
<1> QED BY <1>7, <1>8, <1>9

\* What publishState queues: nothing, or a frame at or above what is verified, before
\* any closing, and as an answer only when the window is open.
LEMMA PublishQueues ==
    ASSUME TypeOK, NEW reason, NEW o, NEW a, PublishState(reason, o, a), push' # NoFrame
    PROVE  /\ push'.issued >= verified /\ push'.why = reason
           /\ ~closed
           /\ reason = "announcement" => WindowOpen
<1>1. NextIssued \in Nat /\ NextIssued > verified /\ verified \in Nat
  BY NextIssuedType DEF TypeOK
<1>2. CASE Resend(reason, o, a)
  BY <1>2 DEF Resend, Publishes, Unchanged, Queue, Pushed
<1>3. CASE PublishNew(reason, o)
  BY <1>1, <1>3 DEF PublishNew, Publishes, Queue, Pushed
<1> QED
  BY <1>2, <1>3 DEF PublishState, Withhold, SealFails, Silent, QueuesNothing

\* Between two processes of a host nothing of its session is left.
LEMMA NotRunningStep == TypeOK /\ NotRunning /\ [Next]_vars => NotRunning'
<1> SUFFICES ASSUME TypeOK, NotRunning, [Next]_vars PROVE NotRunning'
  OBVIOUS
<1>1. CASE Publishing
  BY <1>1, PublishingIsPublishState DEF NotRunning
<1>2. CASE \/ CreateAndMint \/ CreateOverBudget \/ CreateFails
           \/ \E f \in sealed : HeardState(f) \/ HeardClosing(f)
           \/ BudgetReached \/ TreeMoves \/ CloseRoom
           \/ TickOverBudget \/ TickHostAway \/ Advance
  <2>1. up' = TRUE \/ (up /\ up' = up) \/ CreateFails
    BY <1>2 DEF CreateAndMint, CreateOverBudget, HeardState, HeardClosing, BudgetReached,
       TreeMoves, CloseRoom, TickOverBudget, TickHostAway, Advance, Live, processVars
  <2>2. CASE CreateFails
    BY <2>2 DEF CreateFails, NotRunning, producerVars
  <2> QED BY <2>1, <2>2 DEF NotRunning
<1>3. CASE Crash
  BY <1>3 DEF Crash, Forget, NotRunning
<1>4. CASE UNCHANGED vars
  BY <1>4 DEF NotRunning, vars, processVars, producerVars
<1> QED BY <1>1, <1>2, <1>3, <1>4 DEF Next, Tick, Publishing

\* What a crash leaves of a session is what a process starts from (peer.ts create).
LEMMA HostNotRunning == Spec => []NotRunning
<1>1. Init => NotRunning
  BY DEF Init, Blank, NotRunning
<1> QED BY <1>1, NotRunningStep, HostTypeOK, PTL DEF Spec

\* What any step queues.
LEMMA StepQueues ==
    ASSUME TypeOK, NotRunning, Next, push' # NoFrame
    PROVE  /\ push'.issued >= verified
           /\ ~closed
           /\ push'.why = "announcement" => WindowOpen
<1>1. CASE Publishing
  <2>1. PICK reason \in {"roster", "announcement", "listing"}, o \in BOOLEAN, a \in AwayClock :
            PublishState(reason, o, a)
    BY <1>1, PublishingIsPublishState
  <2> QED BY <2>1, PublishQueues
<1>2. CASE CreateAndMint
  <2>1. Loaded \in Nat /\ verified = 0 /\ ~closed
    BY <1>2 DEF CreateAndMint, Loaded, NotRunning, TypeOK
  <2>2. push'.issued = Loaded + 1 /\ push'.why = "mint"
    BY <1>2 DEF CreateAndMint, MintState, Pushed
  <2> QED BY <2>1, <2>2
<1>3. CASE CloseRoom \/ TickOverBudget
  <2>1. Close /\ Ready
    BY <1>3 DEF CloseRoom, TickOverBudget, NotClosed, QueuesNothing
  <2>2. NextIssued \in Nat /\ NextIssued > verified /\ verified \in Nat
    BY NextIssuedType DEF TypeOK
  <2> QED BY <2>1, <2>2 DEF Close, Queue, Pushed, Ready
<1> QED
  BY <1>1, <1>2, <1>3 DEF Next, Tick, Publishing, CreateOverBudget, CreateFails, Crash,
     HeardState, HeardClosing, BudgetReached, TreeMoves, TickHostAway, Advance, QueuesNothing

\* What the host queues, re-sends included, is never below an edition it has verified:
\* a peer that holds the highest one takes every frame of this host.
THEOREM HostNeverBelowVerified == Spec => NeverBelowVerified
<1>1. TypeOK /\ NotRunning /\ [Next]_vars => [push' # NoFrame => push'.issued >= verified]_vars
  BY StepQueues
<1> QED BY <1>1, HostTypeOK, HostNotRunning, PTL DEF Spec, NeverBelowVerified

\* A process that has queued its closing queues nothing after it.
THEOREM HostClosingIsLast == Spec => ClosingIsLast
<1>1. TypeOK /\ NotRunning /\ [Next]_vars => [closed => push' = NoFrame]_vars
  BY StepQueues
<1> QED BY <1>1, HostTypeOK, HostNotRunning, PTL DEF Spec, ClosingIsLast

-----------------------------------------------------------------------------
\* The window of the answers is as old as the last answer.
LEMMA QuietStep ==
    ASSUME TypeOK, quiet = sinceAnswer, [Next]_vars
    PROVE  (quiet = sinceAnswer)'
<1>1. CASE Publishing
  <2>1. PICK reason \in {"roster", "announcement", "listing"}, o \in BOOLEAN, a \in AwayClock :
            PublishState(reason, o, a)
    BY <1>1, PublishingIsPublishState
  <2> QED
    BY <2>1 DEF PublishState, Withhold, Resend, PublishNew, SealFails, Silent, QueuesNothing, Queue
<1>2. CASE CloseRoom \/ TickOverBudget
  BY <1>2 DEF CloseRoom, TickOverBudget, Close, NotClosed, QueuesNothing, Queue
<1>3. CASE CreateAndMint \/ CreateOverBudget \/ CreateFails
  BY <1>3 DEF CreateAndMint, CreateOverBudget, CreateFails, Fresh, QueuesNothing, producerVars
<1>4. CASE \/ \E f \in sealed : HeardState(f) \/ HeardClosing(f)
           \/ BudgetReached \/ TreeMoves \/ TickHostAway
  BY <1>4 DEF HeardState, HeardClosing, BudgetReached, TreeMoves, TickHostAway,
     QueuesNothing, producerVars
<1>5. CASE Crash \/ Advance \/ UNCHANGED vars
  BY <1>5 DEF Crash, Forget, Advance, vars, producerVars, historyVars
<1> QED BY <1>1, <1>2, <1>3, <1>4, <1>5 DEF Next, Tick, Publishing

\* Whatever peers announce, in whatever order and from however many keys, a host
\* answers at most once a window.
THEOREM HostAnswersAreRateBound == Spec => AnswersAreRateBound
<1>1. Init => quiet = sinceAnswer
  BY DEF Init, Blank
<1>2. TypeOK /\ quiet = sinceAnswer /\ [Next]_vars => (quiet = sinceAnswer)'
  BY QuietStep
<1>3. TypeOK /\ NotRunning /\ quiet = sinceAnswer /\ [Next]_vars
        => [push' # NoFrame /\ push'.why = "announcement" => quiet = Renew]_vars
  <2> SUFFICES ASSUME TypeOK, NotRunning, quiet = sinceAnswer, Next,
                      push' # NoFrame, push'.why = "announcement"
               PROVE  quiet = Renew
    OBVIOUS
  <2>1. WindowOpen
    BY StepQueues
  <2> QED BY <2>1, HostAssumption DEF WindowOpen, TypeOK
<1> QED
  BY <1>1, <1>2, <1>3, HostTypeOK, HostNotRunning, PTL DEF Spec, AnswersAreRateBound

-----------------------------------------------------------------------------
\* No two keys of the table, or of the last state, carry one seat.
SeatsApart ==
    /\ Distinct(seats)
    /\ lastState # NoState => Distinct(lastState.peers)

\* What publishState leaves as the last state: the one before, or one over the
\* tables as the handler left them.
LEMMA PublishedState ==
    ASSUME NEW reason, NEW o, NEW a, PublishState(reason, o, a)
    PROVE  \/ lastState' = lastState
           \/ lastState' = NewState
BY DEF PublishState, Withhold, Resend, PublishNew, SealFails, Silent

\* Every step keeps the labels of the table apart, in memory and in what was told.
LEMMA SeatsApartStep == TypeOK /\ SeatsApart /\ [Next]_vars => SeatsApart'
<1> SUFFICES ASSUME TypeOK, SeatsApart, [Next]_vars PROVE SeatsApart'
  OBVIOUS
<1>1. Distinct(Empty)
  BY DEF Distinct, Empty
<1>2. CASE Publishing
  <2>1. Distinct(seats')
    BY <1>2, CommitDistinct, VacateDistinct
    DEF Publishing, SeatJoined, SeatLeft, Announced, ListingChanged, TickAnswers, SeatsApart
  <2>2. lastState' = lastState \/ lastState' = NewState
    BY <1>2, PublishingIsPublishState, PublishedState
  <2>3. Distinct(PeerEntries(roster', seats'))
    BY <2>1, PeerEntriesDistinct
  <2>4. lastState' # NoState => Distinct(lastState'.peers)
    BY <2>2, <2>3 DEF NewState, SeatsApart
  <2> QED BY <2>1, <2>4 DEF SeatsApart
<1>3. CASE CreateAndMint \/ CreateOverBudget \/ CreateFails
  <2>1. seats' = seats
    BY <1>3 DEF CreateAndMint, CreateOverBudget, CreateFails, Fresh, producerVars
  <2>2. lastState' = MintState \/ lastState' = NoState \/ lastState' = lastState
    BY <1>3 DEF CreateAndMint, CreateOverBudget, CreateFails, producerVars
  <2>3. Distinct(MintState.peers)
    BY <1>1 DEF MintState
  <2> QED BY <2>1, <2>2, <2>3 DEF SeatsApart
<1>4. CASE Crash
  BY <1>1, <1>4 DEF Crash, Forget, SeatsApart
<1>5. CASE \/ \E f \in sealed : HeardState(f) \/ HeardClosing(f)
           \/ BudgetReached \/ TreeMoves \/ TickHostAway \/ CloseRoom \/ TickOverBudget
           \/ Advance \/ UNCHANGED vars
  <2>1. UNCHANGED <<seats, lastState>>
    BY <1>5 DEF HeardState, HeardClosing, BudgetReached, TreeMoves, TickHostAway, CloseRoom,
       TickOverBudget, Advance, vars, producerVars
  <2> QED BY <2>1 DEF SeatsApart
<1> QED BY <1>2, <1>3, <1>4, <1>5 DEF Next, Tick, Publishing

\* However keys are announced and seats come and go, no state the host publishes gives
\* two keys one seat, the host's own seat excepted.
THEOREM HostOneKeyPerSeat == Spec => []OneKeyPerSeat
<1>1. Init => SeatsApart
  BY DEF Init, Blank, Empty, SeatsApart, Distinct
<1>2. SeatsApart => OneKeyPerSeat
  BY DEF SeatsApart, Distinct, OneKeyPerSeat
<1> QED BY <1>1, <1>2, SeatsApartStep, HostTypeOK, PTL DEF Spec

-----------------------------------------------------------------------------
\* What publishState tells the room is what the tables say.
LEMMA PublishTells ==
    ASSUME TypeOK, NEW reason \in Reasons, NEW o \in BOOLEAN, NEW a \in AwayClock,
           PublishState(reason, o, a), seats' \in Table, tree' \in Listings,
           Ready', ~closed, ~spent, ~faulted', ~owed',
           reason # "announcement" \/ o
    PROVE  lastState' # NoState /\ lastState'.peers = PeerEntries(roster', seats')
<1>1. NewState \in States /\ NewState.peers = PeerEntries(roster', seats')
  BY NextIssuedType, PeerEntriesType DEF NewState, States, TypeOK
<1>2. NewState # NoState
  BY <1>1, AbsenceAssumption
<1>3. CASE Withhold(reason, o, a)
  BY <1>3 DEF Withhold, Publishes, Ready
<1>4. CASE Resend(reason, o, a)
  BY <1>1, <1>4 DEF Resend, Unchanged
<1>5. CASE PublishNew(reason, o)
  BY <1>1, <1>2, <1>5 DEF PublishNew
<1>6. CASE SealFails(reason, o, a)
  BY <1>6 DEF SealFails
<1> QED BY <1>3, <1>4, <1>5, <1>6 DEF PublishState

\* Every step leaves the room told, an answer owed, or a failed seal noted.
LEMMA RoomIsToldStep == TypeOK /\ NotRunning /\ RoomIsTold /\ [Next]_vars => RoomIsTold'
<1> SUFFICES ASSUME TypeOK, NotRunning, RoomIsTold, [Next]_vars,
                    up', Ready', ~spent', ~faulted', ~owed'
             PROVE  lastState' # NoState /\ lastState'.peers = PeerEntries(roster', seats')
  BY DEF RoomIsTold
<1> USE DEF AwayClock
<1>1. owed \in BOOLEAN /\ away \in AwayClock /\ AwayNow \in AwayClock
  BY RefreshAwayType DEF AwayNow, TypeOK
<1>2. Publishing => seats' \in Table /\ tree' \in Listings /\ ~closed /\ ~spent
  BY PublishingIsPublishState DEF Ready
<1>3. ASSUME NEW s \in Seats, SeatJoined(s)
      PROVE  lastState' # NoState /\ lastState'.peers = PeerEntries(roster', seats')
  <2>1. PublishState("roster", owed, away)
    BY <1>3 DEF SeatJoined
  <2> QED BY <1>1, <1>2, <1>3, <2>1, PublishTells DEF Publishing, Reasons
<1>4. ASSUME NEW s \in Seats, SeatLeft(s)
      PROVE  lastState' # NoState /\ lastState'.peers = PeerEntries(roster', seats')
  <2>1. PublishState("roster", owed, RefreshAway(roster', held, heldFrom, FALSE))
    BY <1>4 DEF SeatLeft
  <2>2. RefreshAway(roster', held, heldFrom, FALSE) \in AwayClock
    BY <1>1, RefreshAwayType
  <2> QED BY <1>1, <1>2, <1>4, <2>1, <2>2, PublishTells DEF Publishing, Reasons
<1>5. ASSUME NEW k \in Keys, NEW role \in Roles, Announced(k, role)
      PROVE  lastState' # NoState /\ lastState'.peers = PeerEntries(roster', seats')
  <2>1. PublishState("announcement", TRUE, away)
    BY <1>5 DEF Announced
  <2> QED BY <1>1, <1>2, <1>5, <2>1, PublishTells DEF Publishing, Reasons
<1>6. CASE ListingChanged
  <2>1. PublishState("listing", owed, away)
    BY <1>6 DEF ListingChanged
  <2> QED BY <1>1, <1>2, <1>6, <2>1, PublishTells DEF Publishing, Reasons
<1>7. CASE TickAnswers
  <2>1. PublishState("announcement", owed, AwayNow)
    BY <1>7 DEF TickAnswers
  <2>2. CASE owed
    BY <1>1, <1>2, <1>7, <2>1, <2>2, PublishTells DEF Publishing, Reasons
  <2>3. CASE ~owed
    <3>1. Withhold("announcement", owed, AwayNow)
      BY <2>1, <2>3 DEF PublishState, Resend, PublishNew, SealFails, Publishes
    <3>2. UNCHANGED <<lastState, roster, seats, gone, closed, up, spent, faulted>>
      BY <1>7, <3>1 DEF TickAnswers, Withhold, Silent
    <3> QED BY <2>3, <3>2 DEF RoomIsTold, Ready
  <2> QED BY <2>2, <2>3
<1>8. CASE CreateAndMint
  <2>1. MintState \in States
    BY HostAssumption DEF MintState, Loaded, States, Empty, Peers, TypeOK
  <2>2. lastState' = MintState /\ seats' = Empty
    BY <1>8 DEF CreateAndMint, Fresh, NotRunning
  <2>3. PeerEntries(roster', Empty) = Empty
    BY DEF PeerEntries, Empty
  <2> QED BY <2>1, <2>2, <2>3, AbsenceAssumption DEF MintState
<1>9. CASE CloseRoom
  <2>1. NotClosed
    BY <1>9 DEF CloseRoom, Close, Ready
  <2>2. UNCHANGED <<lastState, roster, seats, gone, closed, up, spent, owed>>
    BY <1>9, <2>1 DEF CloseRoom, NotClosed
  <2>3. faulted' = faulted
    BY <2>1, <2>2 DEF NotClosed, Ready
  <2> QED BY <2>2, <2>3 DEF RoomIsTold, Ready
<1>10. CASE \/ \E f \in sealed : HeardState(f) \/ HeardClosing(f)
            \/ TreeMoves \/ TickHostAway \/ Advance \/ UNCHANGED vars
  <2>1. UNCHANGED <<lastState, roster, seats, gone, closed, up, spent, owed, faulted>>
    BY <1>10 DEF HeardState, HeardClosing, TreeMoves, TickHostAway, Advance,
       vars, processVars, producerVars
  <2> QED BY <2>1 DEF RoomIsTold, Ready
<1>11. ~CreateOverBudget /\ ~BudgetReached
  BY DEF CreateOverBudget, BudgetReached
<1>12. ~CreateFails /\ ~Crash
  BY DEF CreateFails, Crash
<1>13. ASSUME TickOverBudget PROVE FALSE
  <2>1. spent /\ spent' = spent
    BY <1>13 DEF TickOverBudget
  <2> QED BY <2>1
<1> QED
  BY <1>3, <1>4, <1>5, <1>6, <1>7, <1>8, <1>9, <1>10, <1>11, <1>12, <1>13
  DEF Next, Tick

\* Between two handlers no roster change, eviction or announcement is left untold: the
\* last state is what the host believes, unless an answer is owed or a seal failed.
THEOREM HostTellsTheRoom == Spec => []RoomIsTold
<1>1. Init => RoomIsTold
  BY DEF Init, RoomIsTold
<1> QED BY <1>1, RoomIsToldStep, HostTypeOK, HostNotRunning, PTL DEF Spec

-----------------------------------------------------------------------------
\* A timer that has just been armed is in time for the answer that is owed.
LEMMA ArmedInTime ==
    ASSUME TypeOK', ArmNow
    PROVE  AnswerNotPassedOver'
<1> SUFFICES ASSUME owed', Ready' PROVE timer' <= Renew - sinceAnswer'
  BY DEF AnswerNotPassedOver
<1>1. owed' /\ ~gone' /\ ~closed'
  BY DEF Ready
<1>2. timer' = Smaller(Renew - sinceAnswer', grid')
  BY <1>1 DEF ArmNow, Arm
<1>3. Renew \in Nat /\ sinceAnswer' \in 0..Renew /\ grid' \in 0..Renew
  BY HostAssumption DEF TypeOK
<1>4. \A a, b \in Int : Smaller(a, b) <= a
  BY DEF Smaller
<1>5. Renew - sinceAnswer' \in Int /\ grid' \in Int
  BY <1>3
<1> QED BY <1>2, <1>4, <1>5

\* Every step arms the timer no later than the answer it leaves owed.
LEMMA AnswerStep ==
    TypeOK /\ TypeOK' /\ NotRunning /\ AnswerNotPassedOver /\ [Next]_vars => AnswerNotPassedOver'
<1> SUFFICES ASSUME TypeOK, TypeOK', NotRunning, AnswerNotPassedOver, [Next]_vars
             PROVE  AnswerNotPassedOver'
  OBVIOUS
<1>1. CASE \/ \E s \in Seats : SeatJoined(s) \/ SeatLeft(s)
           \/ \E k \in Keys, role \in Roles : Announced(k, role)
           \/ \E f \in sealed : HeardState(f) \/ HeardClosing(f)
           \/ BudgetReached \/ TickAnswers
  <2>1. ArmNow
    BY <1>1 DEF SeatJoined, SeatLeft, Announced, HeardState, HeardClosing, BudgetReached,
       TickAnswers
  <2> QED BY <2>1, ArmedInTime
<1>2. CASE ListingChanged
  <2>1. PublishState("listing", owed, away) /\ spent' = spent /\ closed' = closed
    BY <1>2 DEF ListingChanged
  <2>2. owed' => spent' \/ ~Ready'
    BY <2>1 DEF PublishState, Withhold, Resend, PublishNew, SealFails, Publishes, Ready
  <2> QED BY <2>2 DEF AnswerNotPassedOver
<1>3. CASE CloseRoom
  <2>1. CASE Close
    BY <2>1 DEF Close, AnswerNotPassedOver, Ready
  <2>2. CASE NotClosed
    BY <1>3, <2>2 DEF CloseRoom, Close, NotClosed, AnswerNotPassedOver, Ready, Live, timerVars
  <2> QED BY <1>3, <2>1, <2>2 DEF CloseRoom
<1>4. CASE TickOverBudget \/ TickHostAway
  BY <1>4 DEF TickOverBudget, TickHostAway, AnswerNotPassedOver, Live
<1>5. CASE CreateAndMint \/ CreateOverBudget \/ CreateFails \/ Crash
  <2>1. ~owed'
    BY <1>5 DEF CreateAndMint, CreateOverBudget, CreateFails, Crash, Forget, Fresh,
       NotRunning, producerVars
  <2> QED BY <2>1 DEF AnswerNotPassedOver
<1>6. CASE Advance
  <2>1. /\ Live /\ timer > 0 /\ timer' = timer - 1
        /\ sinceAnswer' = Smaller(sinceAnswer + 1, Renew)
        /\ UNCHANGED <<owed, gone, closed, spent>>
    BY <1>6 DEF Advance
  <2>2. Renew \in Nat /\ sinceAnswer \in 0..Renew /\ timer \in 0..Renew
    BY HostAssumption DEF TypeOK
  <2>3. CASE owed /\ Ready /\ ~spent
    <3>1. timer <= Renew - sinceAnswer
      BY <2>1, <2>3 DEF AnswerNotPassedOver
    <3>2. sinceAnswer < Renew /\ timer' <= Renew - sinceAnswer'
      BY <2>1, <2>2, <3>1 DEF Smaller
    <3> QED BY <3>2 DEF AnswerNotPassedOver
  <2>4. CASE ~(owed /\ Ready /\ ~spent)
    BY <2>1, <2>4 DEF AnswerNotPassedOver, Ready
  <2> QED BY <2>3, <2>4
<1>7. CASE TreeMoves \/ UNCHANGED vars
  <2>1. UNCHANGED <<up, ended, owed, gone, closed, spent, timer, sinceAnswer>>
    BY <1>7 DEF TreeMoves, vars, processVars, producerVars, timerVars
  <2> QED BY <2>1 DEF AnswerNotPassedOver, Live, Ready
<1> QED BY <1>1, <1>2, <1>3, <1>4, <1>5, <1>6, <1>7 DEF Next, Tick

\* An owed answer is never passed over: whatever the host handles, the timer stays armed
\* no later than the end of the window.
THEOREM HostAnswerNotPassedOver == Spec => []AnswerNotPassedOver
<1>1. Init => AnswerNotPassedOver
  BY DEF Init, Live, AnswerNotPassedOver
<1>2. TypeOK /\ NotRunning /\ AnswerNotPassedOver /\ [Next]_vars => AnswerNotPassedOver'
  BY NextTypeOK, AnswerStep
<1> QED BY <1>1, <1>2, HostTypeOK, HostNotRunning, PTL DEF Spec
=============================================================================
